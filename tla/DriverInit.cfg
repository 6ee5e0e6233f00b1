CONSTANT NumGpios = 4
SPECIFICATION LoadSpec
INVARIANT NothingKept
INVARIANT LoadedLacksOnlyRefused
INVARIANT DependentsFirst
PROPERTY OthersKeepTheirs

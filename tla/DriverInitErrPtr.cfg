CONSTANT NumGpios = 2
SPECIFICATION LoadSpec
INVARIANT LoadedIsComplete
PROPERTY OthersAlwaysKeepTheirs

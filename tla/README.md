# A verification of the embedded-OS practice programs

TLA+ modules, TLC configurations and TLAPS proofs about the programs of this
repository: a food-delivery server with threads and mutexes (`src/hw3`) and the
customer's client for it (`src/hw2`), a bank server (`src/lab6`), a guessing
game of two processes over shared memory and signals (`src/lab7`), a kiosk with
two kernel drivers (`src/hw1`), a server that forks (`src/lab5`) and a name that
goes through a driver and a TCP stream to a display (`src/lab4`).

Each module is translated from the C source; `PROJECT.json` maps every
definition to the lines it stands for. How to run one check:

    tlc -workers 2 -config MCDispatch.cfg MCDispatch.tla
    tlapm Dispatch_proofs.tla

## 1. Inventory

### hw3/hw3.c: the delivery server (modelled)

`main` accepts one client after another and starts one detached `handleclient`
thread for each. A thread reads one command after
another, keeps its customer's order, and after `confirm` picks one of two
delivery persons and rides.

| | |
|---|---|
| State shared by threads | `delivery_persons[2]` with `next_available_time` and `mutex`; `mutex_time1`, `mutex_time2`; the **static** buffer that `determine_restaurant` returns |
| State of a thread | the order (counts, distance), its copy of the restaurant's name, the person chosen, the loop counter of the ride |
| Operations | `shop list`, `order`, `confirm`, `cancel`, end of connection; the reply to "do you want to wait?"; one second of a ride |
| Hard behaviour | unlocked reads of two totals before a lock; two unlocks of one mutex on one branch; a lock without an unlock; `+=` and `--` on a total by several threads; `strcpy` from and to a buffer that all the threads share; a reply without a time limit under a lock |
| Correct if | one ride at a time per person; the total is what was charged less what was ridden; nobody gets past the limit unasked; every confirmed order ends; an order's restaurant and price are its own |

### lab6/server.c, lab6/client.c: the bank (modelled)

`main` accepts connections into slots, one thread per slot reads one request
and applies it `times` times to `account_balance` under a mutex that `main`
takes too. `handle_sigint` runs on the main thread at any moment, destroys the
mutex and exits. Hard: the critical section, the pointer to the slot that the
thread reads after `main` went on, failing `pthread_create`, shutdown in the
middle of a request, int overflow. Correct if no deposit or withdrawal is lost,
nothing is overdrawn, no two threads serve one client, and every client ends.

### lab7/game.c, lab7/guess.c: the guessing game (modelled)

Two processes share `{guess, result}`. The timer of `guess` stores a middle and
sends SIGUSR1; the handler of `game` compares twice, copies a word and sends
SIGUSR1 back; the handler of `guess` moves a bound or exits. Hard: two handlers
that interrupt each other, signals that coalesce, judgments that come late,
`strcpy` into memory another process compares, overflow and rounding of the
middle. Correct if it is a bisection that ends at the number.

### hw1/hw1.c: the kiosk's menu (modelled)

One process: menus read by `scanf`, a total, writes to the two devices. Hard:
input that is not a number, an order that is left half-way, arithmetic of the
total. Correct if a delivery shows what was asked in this order.

### hw1/led_driver.c, hw1/seg_driver.c: the drivers (modelled)

`etx_write` counts a distance down on eight LEDs, or shows the digits of a
price; nothing keeps two processes from writing at once. `etx_driver_init`
acquires one kernel resource after another, any of which may fail, with error
labels that fall through; `etx_driver_exit` gives them back. Several kiosks
share both devices: a delivery writes its price to one and then, when that write
has returned, its distance to the other. Correct if a failed initialisation
keeps nothing, a loaded driver is complete and GPIOs of others stay theirs (the
code keeps the first of these only, section 3), LEDs end dark and count down, and
the two devices show one order together when nobody else delivers.

### hw2/client.c, hw2/server.c: the customer (modelled)

The client reads one message, shows it, asks its user for the next command and
sends it; after "Please wait a few minutes..." it reads a second time. hw2's
server reads one message, says hello and closes, one customer after another;
hw3's server is the one the client is used with. Interaction: the two byte
streams of a connection, and its end, which one side sees as an empty read and
the other, when it goes on sending, as SIGPIPE.

| | |
|---|---|
| State | where the program is, the messages on the way in each direction, which side has closed, the message last shown |
| Operations | read, second read, command, leave; accept, read, send, close of the servers |
| Hard behaviour | both sides reading at once; several messages in one read, of which only the first is looked at; a customer who leaves anywhere; a SIGPIPE that ends a server with all its threads; a silent customer behind whom nobody is served |
| Correct if | client and server do not wait for each other, a reply answers the question, the arrival is shown, a customer who leaves harms nobody else, everybody in the queue gets his turn |

### lab5/lab5.c: the train server (modelled)

`main` accepts a client and forks; the child makes the connection its output
and becomes the train `sl`; the handler of SIGCHLD reaps. State: the processes,
the connections each holds, SIGCHLD pending, the handler in progress. Hard:
signals of several children that are one pending signal, a handler anywhere in
`main`, copies of a descriptor in several processes, a `fork` that fails and
ends the server. Correct if no ended child stays a zombie, each connection is
held by its own train only, and every client's connection ends.

### lab4: the name display (modelled)

`writer.c` writes a name letter by letter to the driver `mydev.c`, `reader.c`
reads one pattern of 16 bytes a second and sends it over TCP to the display
`seg.py`, which polls ten times a second. State: the driver's buffer `led`, the
reader's `buf`, the stream, what the display shows. Hard: clocks that drift,
`strcpy` into `led` while `copy_to_user` copies it out, `recv` that returns a
part of a pattern, a reader before the first letter, a writer without a device.
Correct if the display shows whole letters, never goes back, does not stop, and
ends up with the last letter.

### Not modelled

| Part | What it is | Why not |
|---|---|---|
| lab3 | the driver is a binary; the writer is a loop over the letters of a name | nothing to check without the driver's source, and the same loop is modelled in lab4 |

## 2. Modules

| Module | Models | State and actions |
|---|---|---|
| `Dispatch` | hw3, `confirm` and the ride | `pc` per thread names the next statement; one action per statement that touches shared state, since a read and a write of `next_available_time` are two steps. `mutex` and `mutex_time` hold their holder; an unlock frees the mutex whoever holds it |
| `Couriers` | what hw3 promises of its two persons | per person a total, per customer an order that is booked, ridden second by second and arrives, each at once; nothing is promised of a total beyond which a customer has agreed to wait. `Dispatch` implements it (`RefinesCouriers`) |
| `OrderDesk` | hw3, the commands before that | the shared `buffer`, each thread's copy, counts and price. Writing and copying the buffer take two steps each and, overlapped by another name, may leave `Torn`. A quantity is any int, negative ones too; counts and the price wrap around. `told` (history) is what the list last sent comes to at the prices of `shop list` |
| `Bank` | lab6 `main`, `handle_client`, `handle_sigint` | slots, `mutex`, `account_balance`, labels of main and of each thread. `ledger` and `overflowed` are history |
| `Account` | what lab6 promises | a balance to which each deposit and withdrawal is applied at once; `Bank` implements it (`RefinesAccount`) |
| `GuessGame` | lab7, both processes | memory, pending signals, and the labels of the three handlers; `running` says which part of `guess` executes. A second may pass at any moment; `prompt` (history) says that none has yet passed before a judgment |
| `Bisection` | what lab7 promises | the two bounds and one judged guess per step, for as long as judgments are in time; after a late one only that the number stays and that the end is the end. `GuessGame` implements it (`RefinesBisection`) |
| `OrderMenu` | hw1.c `main` | the values last entered, `total_amount`, the two flags; `junk` says that the input begins with something `scanf("%d")` cannot read |
| `LedDriver`, `SegDriver` | hw1 `etx_write` of each driver | one step per `gpio_set_value`, any number of writers |
| `Kiosk` | several hw1.c at the two devices | EXTENDS `LedDriver`, instantiates `SegDriver`; `at` says to which device a kiosk's delivery has got |
| `DriverInit` | hw1 init and exit of both drivers | `pc` is the next call or error label; what is `held`, who owns each GPIO. `refused` and `denied` are history: creations that failed with an ERR_PTR, which the code takes for a success, and the GPIO whose request failed |
| `Customer` | hw2 `client.c` and the connection | `prog` per customer, `toServer` and `toClient` as sequences, `over`, `reset`, `up` for the kernel's view. Customers in `Free` use another client (netcat) and type ahead. The two servers EXTEND it |
| `Conversation` | hw3 `handleclient` as a customer sees it | which command is answered by what; `Broken` is a send that raises SIGPIPE. What is ordered and who rides is left to `OrderDesk` and `Dispatch` |
| `HelloServer` | hw2 `server.c` | the labels of its loop, and the queue in front of `accept` |
| `TrainServer` | lab5 | `main`'s next statement, `child` and `fds` per process, `pending` and `handler` for SIGCHLD |
| `NameDisplay` | lab4, four programs | a byte is the letter it belongs to and its place; `written` and `buf` say how far a copy has got |

`MC*` modules give the constants of a run; `*_proofs` modules hold the proofs.
Operators with a suffix (`Lock_never`, `NextSlot_same`, ...) beside an operator
of the model are mistaken versions of it: with one of them in its place TLC
finds the property named in `PROJECT.json` violated, which shows that the
property depends on that line of the code.

How much is atomic: what only one thread can see between two shared accesses is
one step with them (printing, sleeping, local arithmetic). A default pthread
mutex is modelled as glibc implements it: unlock by another than the holder
frees it. An int wraps around where that matters (`Bank`, `Bisection`,
`OrderDesk`, `OrderMenu`). Variables named as history record what happened; no guard reads them.

## 3. Runs

| Run | Question | Bounds, and why they are enough |
|---|---|---|
| `MCDispatch` | Are rides exclusive, the limit kept and the locks released in every interleaving, does the server implement `Couriers`, and does every order end? | three customers: two that contend for one person and a third that comes between the two unlocks; `Limit = 3` with distances 0 and 2, so that a total and the next order meet the limit (after one second of a ride), exceed it, or stay under it; all three replies |
| `MCOrderDesk` | Can one customer's order get into another's? Do list and price agree? | two customers; two items of one restaurant, one of another, an unknown item, an order of none, one that takes away (`cookie -1`, before or after one was ordered), and one of 150, whose price and, ordered twice, whose count overflow `IntMax = 199`; `MaxOrders = 2` orders each, for a first order and a later one |
| `MCOrderDeskRace` | Is a customer's restaurant its own? **Violated** | the same |
| `MCConversation` | Do the client and hw3's server ever wait for each other, what ends the server, does a reply answer the question, is the arrival shown? | one customer with client.c and one who types ahead (`MaxTyped = 2`, so that commands join in a read); commands that are listed, list nothing, confirm, cancel, and a word that is a reply or no command. Customers only meet in the server's end, for which two suffice |
| `MCHelloServer` | Who holds up hw2's server, and is everybody served in turn? | one customer with client.c, two who type when they like: one served and two in the queue |
| `MCBank` | Is the balance exact, does the server implement the account, does every client end? | three clients for two slots, so that one is rejected; requests that overflow (`IntMax = 2`), fail, repeat, are negative, are none |
| `MCGuessGame` | Is every guess judged, however late? Until a judgment is late, do the programs implement the bisection and find the number? | every number from -1 to 14 with upper bounds 1, 2, 7, 12, 13: inside, on and outside the bounds, with sums that overflow `IntMax = 15`; a second may pass between any two steps |
| `MCOrderMenu` | Is what a delivery shows what was asked? | two restaurants with different prices, quantities -1, 1, 2, an int of 8 values that overflows, input that is no number anywhere |
| `MCKiosk` | Do LEDs and display show one order together, and what do overlapping deliveries leave? | two kiosks, three LEDs; prices below zero and of one to three digits, distances none, within and beyond the LEDs; a third kiosk adds no new overlap of two writes |
| `DriverInit` | Whatever call fails, seen or not, is what was acquired given back, in order, and whose GPIOs are freed? | four GPIOs, which others take and free at any moment: a denied one with owned ones before and others' after it |
| `MCTrainServer` | Is every child reaped, every connection held by its own train, every client's connection ended? | three clients: two whose SIGCHLDs coalesce while the third is being forked |
| `MCNameDisplay` | What does the display show, whoever is faster? | three letters (a first, a last and one to be skipped or mixed), patterns of three bytes (a first, a middle, a last), a stream of two patterns, so that writes block and a `recv` may return every part |

What they show, property by property:

- **Dispatch.** `OneRideAtATime` holds whatever customers answer, since
  `mutex_time1/2` are locked and unlocked once per ride. `ExclusiveUnlessAgreed`
  and `LimitRespected` hold for a person until one of its customers has agreed
  to a long wait: that branch unlocks twice. `RefinesCouriers`: until then every
  `+=` and every `--` of interleaved threads takes effect as if at once, none is
  lost, and a ride starts when its person is free and lasts as long as its order;
  whoever replies neither Yes nor No, and then rides uncharged, is part of it.
  `LocksReleased` names the one leak. `EveryOrderEnds` needs that no
  customer of person 2 agrees to a long wait.
- **OrderDesk.** `MismatchHasCulprit`: a wrong restaurant always comes from a
  customer who orders elsewhere at the same time. `RestaurantIsFinal`: an
  order's restaurant does not change afterwards. `PaysTheList`: whichever
  restaurant it is, who confirms is charged what the list last sent to him comes
  to. There are two provisos, both since nobody looks at a quantity
  (hw3.c:179): the price fits in an int, and it may be less, even negative, if a
  count is negative (`cookie -2`, then `cake 1`, lists a cake and charges -40)
  or nothing is listed any more; it is never more.
- **Bank.** `NothingLost`, `NeverOverdrawn`, `SocketIsOwn`, `EveryClientEnds`,
  `RefinesAccount`; the first two and the refinement hold until SIGINT destroys
  the mutex.
- **GuessGame.** Seconds pass at any moment. `NoGuessForgotten` holds whenever
  they do, with signals that coalesce and judgments of guesses long overwritten.
  What `RefinesBisection`, `StaysInBracket` and `NumberFound` say of a step holds
  until a second of processor time first passes before a judgment (`prompt`),
  which is what the programs rely on: a late judgment moves a bound to a guess it
  does not belong to, or is read half-written (`MCGuessGameStale`). In
  `NumberFound` the number is below the upper bound and the sums of the bounds
  fit an int; `StaysInBracket` holds of sums that overflow too.
- **OrderMenu.** `DeliveredAsOrdered`, unless the total was spoilt by an order
  left through an invalid choice or by an answer that is no number.
- **Drivers and kiosks.** `DarkWhenIdle` for any overlap, `ShowsThePrice` for a
  write nobody overlaps, `SegmentsOfTheLast` for overlapping ones; `DevicesAgree`:
  while the LEDs of a delivery nobody overlaps count down, they are its distance
  and the display still shows its price's last digit. `class_create`
  and `device_create` fail with an ERR_PTR, the code looks for NULL
  (led_driver.c:175, 180) and goes on: even so a failed initialisation and an exit
  keep nothing (`NothingKept`), or end in the oops of `device_destroy` on a class
  that is none, and nothing is given back before what was built on it
  (`DependentsFirst`); a driver is loaded without class or device only where the
  kernel refused one (`LoadedLacksOnlyRefused`). `OthersKeepTheirs`: GPIOs of
  others are freed only after a denied request, from the denied one on, since
  `r_gpio` frees all; an invalid GPIO or an exit frees none.
- **Conversation.** `OnlySilenceDeadlocks`: client and server wait for each other
  only after an order that is not answered (hw3.c:150), because nothing of it is
  listed or because a negative quantity emptied the list again, or at the start,
  since hw3's server leaves the first message to the client, which reads first.
  (`greets` also allows a server that speaks first, for which the client is
  written.) `DiesOfAbandonedRide`: of the customers with client.c only one who
  leaves after "confirm" can end the server by SIGPIPE, since only then two
  messages follow one command; one who types ahead can do it anywhere.
  `ReplyIsToTheQuestion` and `ArrivalIsShown` are what the lock-step gives, the
  latter unless announcement and arrival come in one read.
- **HelloServer.** `LockStepHoldsServer`: whoever uses client.c keeps the server
  until he gives up. `EveryoneInTurn` if whoever is served speaks or leaves.
- **TrainServer.** `NoZombieForgotten`, because the handler loops;
  `HeldByItsTrain`, because parent and child both close what is not theirs;
  `EveryClientEnds`, also when a fork fails.
- **NameDisplay.** `ShownIsWhole` unless a read overlapped a write or a pattern
  was split; `NeverGoesBack` even if they overlap; `StoppedByEarlyRead`: nothing
  but a read before the first letter stops the display; `LastLetterStays` ends in
  the last letter whatever was missed or mixed before.

Deadlock is checked where the program never stops (`MCOrderMenu`, `MCKiosk`,
`DriverInit`). It is not checked for `Dispatch` (the leaked `mutex_time1` does
block threads; `EveryOrderEnds` says when none is), `OrderDesk`, `Bank`,
`Conversation`, `HelloServer` and `TrainServer` (every client comes once, and
all end), `GuessGame` (guess exits) and `NameDisplay` (writer ends, the reader
may be stopped).

Each module of a component has one type invariant, `TypeOK`, and each of them is
a theorem (section 4) but that of `SegDriver`, whose bound on a digit is an
exponent (`10 ^ MaxDigits`), which the provers do not calculate with; the line
`INVARIANT TypeOK` in a configuration checks one with TLC. Where the proofs use
two modules together the names of one carry a prefix: `LoadSpec` and
`LoadTypeOK` in `DriverInit`, `DisplaySpec` and `DisplayTypeOK` in `NameDisplay`,
`HelloSpec` and `HelloTypeOK` in `HelloServer`.

### Fairness

`Dispatch!FairSpec`: weak fairness of each thread once it has read `confirm`:
the kernel runs every thread that can run, and a customer who is asked replies
or closes the connection. Strong fairness of locks is not assumed: each thread
takes them finitely often, so a lock is free in the end. Nothing forces a
customer to confirm. `Bank!FairSpec`: weak fairness of main, of each thread and
of the rest of the signal handler once it has begun; SIGINT need not come.
`GuessGame!FairSpec`: both processes are run and the timer keeps expiring;
nobody has to stop `game`. `OrderMenu!FairSpec`: the user answers every prompt.
`Conversation!FairSpec`: weak fairness of each thread and each program, and a
ride ends (which `Dispatch` is about); no user has to type or to stay.
`HelloServer!HelloFairSpec`: the server alone; that its customers speak is a premise
of `EveryoneInTurn`. `TrainServer!FairSpec`: `main`, the handler, each child (a
train passes, sooner or later) and the kernel's refusal of connections nobody
listens for; no client has to come, no fork has to fail.
`NameDisplay!DisplayFairSpec`: writer, reader and display go on, each by its own clock;
nobody has to load the driver or press control-C.

### Further configurations

These are no runs of `PROJECT.json`; each shows, in seconds, a place where the
program does not do what its comments, its documents or a plain reading of it
say. Their properties stand at the end of each module.

| Configuration | Property | What the code does |
|---|---|---|
| `MCDispatchDouble` | `PersonMutexExclusive` | the branch of an agreed wait unlocks (hw3.c:220), and so does the line after the branches (233), against `src/Readme.md:45`: two threads are in one person's section |
| `MCDispatchStale` | `FirstAvailableChosen` | the totals are compared before the lock (hw3.c:203), so the person may not be "first" (hw3.c:202) |
| `MCDispatchLeak` | `AnnouncedRideTakesPlace` | person 2's customer who agrees to wait locks `mutex_time1` for ever (hw3.c:257); rides of person 1 never start after "Please wait a few minutes" |
| `MCOrderDeskSilent` | `EveryCommandAnswered` | an order of which nothing is listed is not answered (hw3.c:150), and hw2's client waits for an answer |
| `MCConversationLives` | `ServerLives` | a send to a customer who has left raises SIGPIPE (hw3.c:310), and the whole server ends |
| `MCBankShutdown` | `ShutdownWaits` | the handler exits without joining a thread (server.c:30), under the comment "wait for thread to complete" (24) |
| `MCBankFull` | `RejectedOnlyWhenFull` | slots are never given back (server.c:117): after `MAX_CLIENTS` connections all are rejected |
| `MCBankDestroyed` | `NothingEverLost` | the mutex is destroyed while threads go on (server.c:29), and an update is lost |
| `MCGuessGameUpper` | `UpperBoundFound` | a number equal to the upper bound is never guessed (guess.c:45) |
| `MCGuessGameStale` | `GuessRight` | a word that `strcpy` is still writing counts as bingo (guess.c:37) |
| `MCOrderMenuTotal` | `TotalIsOfThisOrder` | an order left by an invalid item keeps its total (hw1.c:98), and the next one pays for it, against hw1.c:114 |
| `MCOrderMenuJam` | `InputIsRead` | input that is no number is never taken away (hw1.c:93): the menu loops without asking |
| `MCNameDisplayStopped` | `DisplayPolls` | `int()` of a NUL raises an exception (seg.py:63) and `update` is not scheduled again (66) |
| `DriverInitErrPtr` | `LoadedIsComplete`, `OthersAlwaysKeepTheirs` | a failed `class_create` returns an ERR_PTR, not NULL (led_driver.c:175), and the driver is loaded without class and device; a denied request frees the GPIOs of others (279). `-continue` shows both |

Run one with the module its name begins with, for example
`tlc -config MCDispatchLeak.cfg MCDispatch.tla`; `MCConversationLives.cfg` with
`MCConversation.tla`, `MCNameDisplayStopped.cfg` with `NameDisplay.tla`,
`DriverInitErrPtr.cfg` with `DriverInit.tla`.

## 4. Proofs

All for every value of the constants, under the assumptions the modules name
(`DispatchAssumption`, `OrderDeskAssumption`, `BankAssumption`,
`GuessGameAssumption`, `LedAssumption`, `KioskAssumption`, `DriverAssumption`,
`MenuAssumption`, `TrainAssumption`, `DisplayAssumption`), which TLC evaluates in
the runs. They say that sizes are numbers and that names are distinct;
`KioskAssumption` adds that there is a kiosk at all. Every safety invariant and
every action property that a passing run checks is stated by a theorem; what is
left to TLC is listed below the table.

| Module | Theorems | The inductive invariant, and why it is needed |
|---|---|---|
| `Dispatch_proofs` | `TypeCorrect`, `RidesAreExclusive`, `MutexExcludesUnlessAgreed`, `LimitHolds`, `EndedThreadsHoldNoLock`, `DispatchImplementsCouriers` | what each label says of its thread (`LabelInv`), who holds the time mutexes (`TimeInv`) and the persons' mutexes (`MutexInv`), and that the total read under the mutex is still the total (`TotalInv`). Exclusion alone is not inductive: the unlock after the branches is only harmless if its thread is the holder. That an agreement is stable (`AgreedIsStable`) carries the "unless" through the steps. In the refinement an order is booked by the store of its `+=`, or by the reply that skips it, and a person is free because its time mutex is |
| `OrderDesk_proofs` | `TypeCorrect`, `WrongNameHasCulprit`, `RestaurantStays`, `PaidAsListed` | what each label says of a customer's order (`LabelInv`), and `MixInv`: if all the first orders so far are of one restaurant, the shared buffer and every copy that is finished hold its name and no write has been overlapped by another name. A wrong name in one order alone says nothing of the buffer, so the invariant has to speak of all customers at once. List and price are computed at different commands, so `Billed` relates both to the counts at every one in between: `told` is what the present list comes to unless that is empty, and never less than what is due; nothing is counted before the restaurant is known. Lemmas about `ListPrice` and `ComputePrice`, for counts of either sign, relate the two; `WrapInt` says that addition stays an int, so that the counts need no bound |
| `Bank_proofs` | `TypeCorrect`, `NoMoneyIsLost`, `AccountIsNotOverdrawn`, `EveryThreadHasItsClient`, `ServerImplementsAccount` | who holds the mutex, that the balance last read is the balance while it is held, that a checked withdrawal is still covered, and which slots are started. The refinement maps a store together with its label: a request has taken effect when its thread gets to the unlock |
| `GuessGame_proofs` | `TypeCorrect`, `SignalsSuffice`, `GameImplementsBisection`, `EndIsRight`, `NumberStaysInBracket` | `NoGuessForgotten` is inductive as it is. For the rest `prompt => Phases`: until a second passes before a judgment the handlers take turns, in seven phases that say what the memory holds in each |
| `Customer_proofs` | of `Conversation`: `ConversationTypesCorrect`, `OnlySilenceHangs`, `OnlyAbandonedRideKills`, `RepliesAnswerTheQuestion`; of `HelloServer`: `HelloTypesCorrect`, `LockStepHolds` | thread, connection and program agree on whether the customer has come and gone (`Linked`); at most one command is on the way and at most one message, two once the connection is over (`Bounded`); where thread and program are in their dialogue, and that a customer who left with a command under way had read everything before it (`InStep`). How many messages are on the way decides whether a send finds a connection that has been reset, so `DiesOfAbandonedRide` is inductive only with all three. In `HelloServer`, who is queued or served is connected and has typed nothing yet (`Attended`) |
| `Kiosk_proofs` | `TypeCorrect`, `LedsEndDark`, `LedsCountDown` of `LedDriver`; of `Kiosk`: `KioskUsesLedDriver`, `KioskLedsEndDark`, `KioskLedsCountDown`, `KioskUsesSegDriver`, `DevicesShowOneOrder`, `DisplayIsOfTheLast`, `PriceIsShown` | `Owed`: for each LED that is lit some writer has yet to darken it. `Kiosk` implements both drivers (`KSpec => Spec`, `KSpec => Seg!Spec`), which carries their theorems over. For `DevicesAgree`: which device each kiosk has got to and that one alone is the only one with a write in progress (`Placed`), what the loop over its price has shown (`PriceInv`) and which LEDs it has set (`DistanceInv`). For `SegmentsOfTheLast`: each segment is the one of some write's last digit, or a write still owes it (`Traced`), and a write still knows that digit (`KnowsLast`). For `ShowsThePrice`: a write that nobody overlaps has got to its digit by dividing its price by ten step by step; the invariant names the sequence of quotients (`LoneInv`), so that no induction over the number is needed |
| `Hw1_proofs` | of `OrderMenu`: `TypeCorrect`, `DeliveriesAreAsOrdered`; of `DriverInit`: `LoadTypesCorrect`, `NothingIsKept`, `LoadedLacksTheRefused`, `ReleasedInOrder`, `OthersGpiosSafe` | `Tallied`: within an order all that was asked is of its restaurant and is the total, and between orders the total is zero. `LoadInv`: what is held at each call and label, less what the kernel refused unseen (`HeldAt`), whose the GPIOs are (`OwnedAt`), and that none was denied to a driver that got past the requests (`DeniedAt`), without which an exit could free what `r_gpio` may |
| `Labs_proofs` | of `TrainServer`: `TypeCorrect`, `NobodyIsForgotten`, `ConnectionsAreHeldByTrains`; of `NameDisplay`: `ChainTypesCorrect`, `OnlyEarlyReadStops`, `SegmentsGoForward`, `DisplayIsWhole` | what `main`'s label says of the connection just accepted (`MainHolds`), that a forked child holds its connection (`ChildHolds`), and that a server that has exited has nothing left to handle (`ExitedIsQuiet`). For the display: only a read before the first letter brings a NUL into the chain (`NoBlanks`); the stream is made of whole patterns, and from the display back to `led` what is behind at a place is not older (`InOrder`), which `NeverGoesBack` needs even though it speaks of the display alone; and while no read has overlapped a write and no pattern was split, `buf`, each pattern under way and the display hold one letter each (`WholeInv`) |

Only model-checked: liveness, which the prover does not reach
(`EveryOrderEnds`, the `EveryClientEnds` of `Bank` and of `TrainServer`,
`NumberFound`, `ArrivalIsShown`, `EveryoneInTurn`, `LastLetterStays`), and the
type invariant of `SegDriver`. `RestaurantIsOwn`, `OrderDesk`'s property of the
run that expects a violation, is refuted by TLC.

## 5. What the models leave out

- Socket set-up before the accept loops, `listen` backlogs, printing, `open`,
  `release` and `read` of hw1's drivers (no state), the text of menus and
  messages.
- In `OrderDesk` one command arrives per read; commands joined in one read are in
  `Conversation`. A message or a command that one read returns only a part of is
  in neither: they are up to 256 bytes and sent at once.
- `MaxOrders` bounds how often a customer of `OrderDesk` orders, in the runs; the
  theorems hold for any. The overflow of an int, undefined in C, wraps around.
- An oops of `device_destroy` stops the driver of `DriverInit` for good, and what it
  held stays held; what else it does to the kernel is not modelled.
- `client.c` uses the result of its second read as an index without looking at it
  (client.c:65); the byte before the buffer that it then clears is not modelled.
- Each customer of `Conversation` and `HelloServer` comes once, and hw3's and
  hw2's servers are not started again after their end.
- The length argument of the drivers' `write` is taken to be that of hw1.c.
- The window between `cdev_add` and the request of the GPIOs (led_driver.c:170),
  in which a write already reaches the driver.
- The restaurant chosen in the kiosk reaches the drivers by two blocking writes
  that are one step of `OrderMenu`; `Kiosk` has them apart.
- lab7 starts when both programs have installed their handlers (game.c:67 prints
  the PID before that).
- lab4: `my_read` copies 17 bytes into the reader's 16; the byte behind `buf` is
  not modelled. `my_fops` has no owner, so the driver could be removed under a
  program that has it open; `Rmmod` is a step only when nobody has.
- lab5: `accept` is restarted after the handler, and its failures change nothing.

## 6. Plan

Done: all the components of section 1 with their runs; the refinements of
`Couriers`, `Account` and `Bisection`; the type invariants (but one), the safety
invariants and the action properties as theorems. Left:

1. The safety half of the liveness properties as theorems: that a step of a
   thread, a ride or a program brings its measure closer to the end and a step of
   another does not move it back. TLC has the other half, that a step is taken.
2. What `Conversation` and `NameDisplay` promise as abstract specifications of a
   few lines (one question, one answer; a register that only moves forward), with
   proofs that they implement them.
3. `DriverInit` composed with the writes, for the window after `cdev_add`.

The list of runs stays at a dozen: new parts take the place of runs whose
question a composed run answers.

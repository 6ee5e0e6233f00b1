----------------------------- MODULE GuessGame ------------------------------
(***************************************************************************)
(* lab7/game.c and lab7/guess.c: two processes that share the memory       *)
(* {guess, result} and send each other SIGUSR1.  The timer of guess makes  *)
(* it guess once a second; the handler of game judges the guess; the       *)
(* handler of guess moves a bound, or ends.                                *)
(*                                                                         *)
(* A signal that is already pending is not queued again.  Each of the two  *)
(* handlers of guess can interrupt the other, and no signal its own        *)
(* handler.  Each access to the shared memory is a step, and strcpy is two,*)
(* between which the memory holds no word at all: Torn.                    *)
(***************************************************************************)
EXTENDS Integers

CONSTANTS
  Truths,  \* the numbers game is started with
  Uppers,  \* the upper bounds guess is started with
  IntMax,  \* the largest int
  Torn     \* a string that is none of the three words

IntRange == -IntMax - 1 .. IntMax
Words == {"larger", "smaller", "bingo"}

ASSUME GuessGameAssumption ==
  /\ IntMax \in Nat \ {0}
  /\ Truths \subseteq IntRange
  /\ Uppers \subseteq IntRange
  /\ Torn \notin Words

VARIABLES
  shm_guess, shm_result,     \* the shared memory
  guess_truth,
  lower_bound, upper_bound,
  game_signal,               \* SIGUSR1 is pending for game
  guess_signal,              \* SIGUSR1 is pending for guess
  alarm,                     \* SIGVTALRM is pending for guess
  game,                      \* the next statement of game
  word,                      \* the word the handler of game is writing
  running,                   \* what guess executes: main or one of the handlers
  timer,                     \* the next statement of timer_handler
  answer,                    \* the next statement of handler in guess
  mid,                       \* (upper_bound+lower_bound)/2, before it is stored
  fresh,                     \* history: game has not compared the guess in memory
  prompt                     \* history: every second so far came when the judgment
                             \*   of the last guess had been handled

memory == <<shm_guess, shm_result, fresh>>
signals == <<game_signal, guess_signal, alarm>>
judge == <<guess_truth, game, word>>
guesser == <<lower_bound, upper_bound, running, timer, answer, mid>>
vars == <<shm_guess, shm_result, guess_truth, lower_bound, upper_bound, game_signal,
          guess_signal, alarm, game, word, running, timer, answer, mid, fresh, prompt>>

Ended == answer = "ended"

B == INSTANCE Bisection WITH truth <- guess_truth, lower <- lower_bound,
                             upper <- upper_bound, found <- Ended

Init ==
  /\ shm_guess = 0 /\ shm_result = Torn
  /\ guess_truth \in Truths
  /\ lower_bound = 1 /\ upper_bound \in Uppers
  /\ game_signal = FALSE /\ guess_signal = FALSE /\ alarm = FALSE
  /\ game = "sleep" /\ word = "larger"
  /\ running = "main"
  /\ timer = "off" /\ answer = "off"
  /\ mid = 0
  /\ fresh = FALSE /\ prompt = TRUE

-----------------------------------------------------------------------------
(* game: SIGUSR1, two comparisons that each read the guess, strcpy, kill. *)
GameStep(a, b) == game = a /\ game' = b

Judge ==
  /\ GameStep("sleep", "less")
  /\ game_signal
  /\ game_signal' = FALSE
  /\ UNCHANGED <<memory, guess_signal, alarm, guess_truth, word, guesser, prompt>>

Under == shm_guess < guess_truth

CompareLess ==
  /\ \/ Under /\ GameStep("less", "copy") /\ word' = "larger"
     \/ ~Under /\ GameStep("less", "more") /\ UNCHANGED word
  /\ fresh' = FALSE
  /\ UNCHANGED <<shm_guess, shm_result, signals, guess_truth, guesser, prompt>>

Over_orEqual == shm_guess >= guess_truth

Over == shm_guess > guess_truth

CompareMore ==
  /\ GameStep("more", "copy")
  /\ word' = IF Over THEN "smaller" ELSE "bingo"
  /\ UNCHANGED <<memory, signals, guess_truth, guesser, prompt>>

BeginCopy ==
  /\ GameStep("copy", "copying")
  /\ shm_result' = IF shm_result = word THEN word ELSE Torn
  /\ UNCHANGED <<shm_guess, fresh, signals, guess_truth, word, guesser, prompt>>

EndCopy ==
  /\ GameStep("copying", "kill")
  /\ shm_result' = word
  /\ UNCHANGED <<shm_guess, fresh, signals, guess_truth, word, guesser, prompt>>

Answer ==
  /\ GameStep("kill", "sleep")
  /\ guess_signal' = ~Ended
  /\ UNCHANGED <<memory, game_signal, alarm, guess_truth, word, guesser, prompt>>

(* SIGINT: game detaches and destroys the memory, which guess still has. *)
Cleanup ==
  /\ game # "exited" /\ game' = "exited" /\ game_signal' = FALSE
  /\ UNCHANGED <<memory, guess_signal, alarm, guess_truth, word, guesser, prompt>>

-----------------------------------------------------------------------------
(* guess: a handler that is entered runs before the one it interrupts, and   *)
(* returns to it.                                                            *)
Quiet == ~game_signal /\ ~guess_signal /\ game \in {"sleep", "exited"} /\ running = "main"

(* Another second of processor time has passed, wherever game and guess are. *)
Second ==
  /\ ~Ended /\ ~alarm
  /\ alarm' = TRUE /\ prompt' = (prompt /\ Quiet)
  /\ UNCHANGED <<memory, game_signal, guess_signal, judge, guesser>>

TimerGoto(a, b) ==
  /\ ~Ended /\ timer = a /\ timer' = b
  /\ IF a = "off" THEN running' = "timer"
     ELSE /\ running = "timer"
          /\ running' = IF b # "off" THEN "timer" ELSE IF answer # "off" THEN "answer" ELSE "main"
  /\ UNCHANGED <<shm_result, guess_signal, judge, lower_bound, upper_bound, answer, prompt>>

EnterTimer ==
  /\ TimerGoto("off", "middle") /\ alarm /\ alarm' = FALSE
  /\ UNCHANGED <<shm_guess, fresh, game_signal, mid>>

NewGuess == B!Middle(lower_bound, upper_bound)

ComputeMiddle ==
  /\ TimerGoto("middle", "store") /\ mid' = NewGuess
  /\ UNCHANGED <<shm_guess, fresh, game_signal, alarm>>

StoreGuess ==
  /\ TimerGoto("store", "kill") /\ shm_guess' = mid /\ fresh' = TRUE
  /\ UNCHANGED <<game_signal, alarm, mid>>

(* The signal goes to some other process. *)
Delivered_elsewhere == FALSE

Delivered == game # "exited"

Notify ==
  /\ TimerGoto("kill", "off") /\ game_signal' = Delivered
  /\ UNCHANGED <<shm_guess, fresh, alarm, mid>>

AnswerGoto(a, b) ==
  /\ answer = a /\ answer' = b
  /\ IF a = "off" THEN running' = "answer"
     ELSE /\ running = "answer"
          /\ running' = IF b # "off" THEN "answer" ELSE IF timer # "off" THEN "timer" ELSE "main"
  /\ UNCHANGED <<memory, game_signal, alarm, judge, timer, mid, prompt>>

EnterAnswer ==
  /\ AnswerGoto("off", "larger?") /\ guess_signal /\ guess_signal' = FALSE
  /\ UNCHANGED <<lower_bound, upper_bound>>

IsLarger ==
  /\ AnswerGoto("larger?", IF shm_result = "larger" THEN "raise" ELSE "smaller?")
  /\ UNCHANGED <<guess_signal, lower_bound, upper_bound>>

(* Any other word than "smaller" ends the process. *)
IsSmaller ==
  /\ AnswerGoto("smaller?", IF shm_result = "smaller" THEN "cut" ELSE "ended")
  /\ UNCHANGED <<guess_signal, lower_bound, upper_bound>>

Raise ==
  /\ AnswerGoto("raise", "off") /\ lower_bound' = shm_guess
  /\ UNCHANGED <<guess_signal, upper_bound>>

CutTo_below == shm_guess - 1

CutTo == shm_guess

Cut ==
  /\ AnswerGoto("cut", "off") /\ upper_bound' = CutTo
  /\ UNCHANGED <<guess_signal, lower_bound>>

-----------------------------------------------------------------------------
Game  == Judge \/ CompareLess \/ CompareMore \/ BeginCopy \/ EndCopy \/ Answer

Guess == EnterTimer \/ ComputeMiddle \/ StoreGuess \/ Notify
         \/ EnterAnswer \/ IsLarger \/ IsSmaller \/ Raise \/ Cut

Next == Game \/ Cleanup \/ Second \/ Guess

Spec == Init /\ [][Next]_vars

(* The kernel runs both processes and the timer keeps expiring while guess   *)
(* spins.  Nothing makes anybody stop game.                                  *)
FairSpec == Spec /\ WF_vars(Game) /\ WF_vars(Second) /\ WF_vars(Guess)

-----------------------------------------------------------------------------
(* Every variable stays in its range, the guesses in that of an int, and     *)
(* guess executes main exactly when it is in none of the handlers.           *)
TypeOK ==
  /\ shm_guess \in IntRange
  /\ shm_result \in Words \cup {Torn}
  /\ guess_truth \in IntRange
  /\ lower_bound \in IntRange
  /\ upper_bound \in IntRange
  /\ game_signal \in BOOLEAN
  /\ guess_signal \in BOOLEAN
  /\ alarm \in BOOLEAN
  /\ game \in {"sleep", "less", "more", "copy", "copying", "kill", "exited"}
  /\ word \in Words
  /\ running \in {"main", "timer", "answer"}
  /\ running = "main" <=> timer = "off" /\ answer = "off"
  /\ running = "timer" => timer # "off"
  /\ running = "answer" => answer # "off"
  /\ timer \in {"off", "middle", "store", "kill"}
  /\ answer \in {"off", "larger?", "smaller?", "raise", "cut", "ended"}
  /\ mid \in IntRange
  /\ fresh \in BOOLEAN /\ prompt \in BOOLEAN

(* However late game is, and however many seconds pass meanwhile: signals    *)
(* coalesce, but as long as game has not compared the guess in memory it is  *)
(* about to, or is about to be told to.                                      *)
NoGuessForgotten ==
  fresh /\ game # "exited" => timer = "kill" \/ game_signal \/ game = "less"

InBracket == lower_bound <= guess_truth /\ guess_truth < upper_bound

SumsFit == upper_bound + upper_bound <= IntMax

(* A number within the bounds never gets out of them, even if the sum of the *)
(* bounds overflows, as long as no second came before a judgment.            *)
StaysInBracket == [][prompt' /\ InBracket => InBracket']_vars

(* As long as that, guess ends only when its last guess is the number. *)
EndedIsRight == prompt /\ Ended => shm_guess = guess_truth

(* As long as that, the two programs implement the bisection; after it guess *)
(* still makes no step once it has ended.                                    *)
RefinesBisection == B!BSpec

(* A number from 1 to upper_bound - 1 is found, if nobody stops game and no  *)
(* second comes before a judgment.                                           *)
NumberFound == [](game # "exited" /\ prompt) => (InBracket /\ SumsFit ~> Ended)

-----------------------------------------------------------------------------
(* What the documentation says, without the provisos above. *)

(* lab7/Readme.md:16, "Use half-guess (two-point search) to make guesses":   *)
(* a number not beyond the upper bound is found.                             *)
UpperBoundFound ==
  [](game # "exited" /\ prompt) =>
    (lower_bound <= guess_truth /\ guess_truth <= upper_bound /\ SumsFit ~> Ended)

(* guess.c:38, "guess right!" beside exit(0): when guess exits its guess was *)
(* right, prompt or not.                                                     *)
GuessRight == Ended => shm_guess = guess_truth

=============================================================================

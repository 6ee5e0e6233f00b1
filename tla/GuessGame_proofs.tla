-------------------------- MODULE GuessGame_proofs --------------------------
(***************************************************************************)
(* Proofs about GuessGame for every number, every upper bound and every    *)
(* width of int, with judgments in time and late.  TypeOK and              *)
(* NoGuessForgotten are inductive as they are.  The others rest on         *)
(* prompt => Phases: as long as no second came before a judgment, the two  *)
(* processes and the two handlers take turns, and what the memory holds is *)
(* known in each turn.                                                     *)
(***************************************************************************)
EXTENDS GuessGame, TLAPS

Middle == B!Middle(lower_bound, upper_bound)

RightWord(w) ==
  /\ w = "larger"  <=> Middle < guess_truth
  /\ w = "smaller" <=> Middle > guess_truth
  /\ w = "bingo"   <=> Middle = guess_truth

Away == game \in {"sleep", "exited"}
NoSignal == ~game_signal /\ ~guess_signal

(* Nothing happens but the alarm; timer_handler runs; game has been told;    *)
(* game judges; guess has been told; handler runs in guess; guess has ended. *)
Idle == NoSignal /\ Away /\ running = "main" /\ timer = "off" /\ answer = "off"

Guessing ==
  /\ NoSignal /\ ~alarm /\ Away /\ running = "timer" /\ answer = "off"
  /\ timer \in {"middle", "store", "kill"}
  /\ timer = "store" => mid = Middle
  /\ timer = "kill" => shm_guess = Middle

Told ==
  /\ game_signal /\ ~guess_signal /\ ~alarm /\ game = "sleep"
  /\ running = "main" /\ timer = "off" /\ answer = "off"
  /\ shm_guess = Middle

Judging ==
  /\ NoSignal /\ ~alarm /\ running = "main" /\ timer = "off" /\ answer = "off"
  /\ shm_guess = Middle
  /\ game \in {"less", "more", "copy", "copying", "kill"}
  /\ game = "more" => shm_guess >= guess_truth
  /\ game \in {"copy", "copying"} => RightWord(word)
  /\ game = "kill" => RightWord(shm_result)

Judged ==
  /\ ~game_signal /\ guess_signal /\ ~alarm /\ Away
  /\ running = "main" /\ timer = "off" /\ answer = "off"
  /\ shm_guess = Middle /\ RightWord(shm_result)

Learning ==
  /\ NoSignal /\ ~alarm /\ Away /\ running = "answer" /\ timer = "off"
  /\ shm_guess = Middle /\ RightWord(shm_result)
  /\ answer \in {"larger?", "smaller?", "raise", "cut"}
  /\ answer = "smaller?" => shm_result # "larger"
  /\ answer = "raise" => shm_result = "larger"
  /\ answer = "cut" => shm_result = "smaller"

Finished == Ended /\ shm_guess = guess_truth /\ NoSignal /\ ~alarm /\ Away

Phases == Idle \/ Guessing \/ Told \/ Judging \/ Judged \/ Learning \/ Finished

USE GuessGameAssumption

-----------------------------------------------------------------------------
(* The middle of two ints is an int. *)
LEMMA MiddleInRange ==
  ASSUME NEW lo \in IntRange, NEW hi \in IntRange
  PROVE  B!Middle(lo, hi) \in IntRange
<1>1. B!Wrap(hi + lo) \in IntRange
  BY DEF B!Wrap, IntRange
<1>2. \A x \in IntRange : B!Half(x) \in IntRange
  BY DEF B!Half, IntRange
<1>3. QED
  BY <1>1, <1>2 DEF B!Middle

LEMMA InitTypeOK == Init => TypeOK
<1> SUFFICES ASSUME Init PROVE TypeOK
  OBVIOUS
<1>1. {shm_guess, guess_truth, lower_bound, upper_bound, mid} \subseteq IntRange
  <2>1. 0 \in IntRange /\ 1 \in IntRange
    BY DEF IntRange
  <2>2. QED
    BY <2>1 DEF Init
<1>2. QED
  BY <1>1 DEF Init, TypeOK, Words

(* The signals and the history are Booleans; the numbers are ints; the       *)
(* control state is one of those listed.                                     *)
LEMMA NextSignals ==
  ASSUME TypeOK, [Next]_vars
  PROVE  /\ game_signal' \in BOOLEAN /\ guess_signal' \in BOOLEAN
         /\ alarm' \in BOOLEAN /\ fresh' \in BOOLEAN /\ prompt' \in BOOLEAN
  BY Zenon
  DEF TypeOK, Next, Game, Guess, Judge, CompareLess, CompareMore, BeginCopy, EndCopy, Answer,
      Cleanup, Second, EnterTimer, ComputeMiddle, StoreGuess, Notify, EnterAnswer, IsLarger,
      IsSmaller, Raise, Cut, TimerGoto, AnswerGoto, Delivered, Quiet, memory, signals, guesser, judge, vars

LEMMA NextNumbers ==
  ASSUME TypeOK, [Next]_vars
  PROVE  /\ shm_guess' \in IntRange /\ guess_truth' \in IntRange /\ mid' \in IntRange
         /\ lower_bound' \in IntRange /\ upper_bound' \in IntRange
<1> USE DEF TypeOK, memory, guesser, judge, TimerGoto, AnswerGoto, NewGuess, CutTo
<1>1. CASE Game \/ Cleanup \/ Second
  BY <1>1
  DEF Game, Judge, CompareLess, CompareMore, BeginCopy, EndCopy, Answer, Cleanup, Second
<1>2. CASE ComputeMiddle
  BY <1>2, MiddleInRange DEF ComputeMiddle
<1>3. CASE \/ EnterTimer \/ StoreGuess \/ Notify \/ EnterAnswer \/ IsLarger \/ IsSmaller
           \/ Raise \/ Cut
  BY <1>3 DEF EnterTimer, StoreGuess, Notify, EnterAnswer, IsLarger, IsSmaller, Raise, Cut
<1>4. CASE UNCHANGED vars
  BY <1>4 DEF vars
<1>5. QED
  BY <1>1, <1>2, <1>3, <1>4 DEF Next, Guess

LEMMA NextControl ==
  ASSUME TypeOK, [Next]_vars
  PROVE  /\ shm_result' \in Words \cup {Torn} /\ word' \in Words
         /\ game' \in {"sleep", "less", "more", "copy", "copying", "kill", "exited"}
         /\ running' \in {"main", "timer", "answer"}
         /\ timer' \in {"off", "middle", "store", "kill"}
         /\ answer' \in {"off", "larger?", "smaller?", "raise", "cut", "ended"}
         /\ running' = "main" <=> timer' = "off" /\ answer' = "off"
         /\ running' = "timer" => timer' # "off"
         /\ running' = "answer" => answer' # "off"
<1>1. /\ shm_result \in Words \cup {Torn} /\ word \in Words
      /\ game \in {"sleep", "less", "more", "copy", "copying", "kill", "exited"}
      /\ running \in {"main", "timer", "answer"}
      /\ timer \in {"off", "middle", "store", "kill"}
      /\ answer \in {"off", "larger?", "smaller?", "raise", "cut", "ended"}
      /\ running = "main" <=> timer = "off" /\ answer = "off"
      /\ running = "timer" => timer # "off"
      /\ running = "answer" => answer # "off"
  BY DEF TypeOK
<1> USE DEF memory, guesser, judge, Words, TimerGoto, AnswerGoto
<1>2. CASE Game \/ Cleanup \/ Second
  BY <1>1, <1>2
  DEF Game, Judge, CompareLess, CompareMore, BeginCopy, EndCopy, Answer, Cleanup, Second, GameStep
<1>3. CASE Guess
  BY <1>1, <1>3
  DEF Guess, EnterTimer, ComputeMiddle, StoreGuess, Notify, EnterAnswer, IsLarger,
      IsSmaller, Raise, Cut, Ended
<1>4. CASE UNCHANGED vars
  BY <1>1, <1>4 DEF vars
<1>5. QED
  BY <1>2, <1>3, <1>4 DEF Next

LEMMA NextTypeOK == TypeOK /\ [Next]_vars => TypeOK'
  BY NextSignals, NextNumbers, NextControl, Zenon DEF TypeOK

(* Every variable stays in its range, the guesses in that of an int.         *)
THEOREM TypeCorrect == Spec => []TypeOK
  BY InitTypeOK, NextTypeOK, PTL DEF Spec

(* Although pending signals coalesce, game compares every guess that is not  *)
(* overwritten before.                                                       *)
THEOREM SignalsSuffice == Spec => []NoGuessForgotten
<1>1. Init => NoGuessForgotten
  BY DEF Init, NoGuessForgotten
<1>2. NoGuessForgotten /\ [Next]_vars => NoGuessForgotten'
  BY DEF NoGuessForgotten, Next, Game, Guess, Judge, CompareLess, CompareMore, BeginCopy, EndCopy,
     Answer, Cleanup, Second, EnterTimer, ComputeMiddle, StoreGuess, Notify, EnterAnswer,
     IsLarger, IsSmaller, Raise, Cut, GameStep, TimerGoto, AnswerGoto, Delivered, memory, signals, guesser, judge, vars
<1>3. QED
  BY <1>1, <1>2, PTL DEF Spec

-----------------------------------------------------------------------------
LEMMA InitPhases == Init => Phases
  BY DEF Init, Phases, Idle, NoSignal, Away

(* Only a second changes prompt, and one that leaves it true came when all   *)
(* was quiet.                                                                *)
LEMMA PromptSteps ==
  ASSUME [Next]_vars, prompt'
  PROVE  prompt /\ (Second => Quiet)
  BY Zenon
  DEF Next, Game, Guess, Judge, CompareLess, CompareMore, BeginCopy, EndCopy, Answer, Cleanup,
      Second, EnterTimer, ComputeMiddle, StoreGuess, Notify, EnterAnswer, IsLarger, IsSmaller,
      Raise, Cut, TimerGoto, AnswerGoto, vars

(* In each phase few actions are enabled, and each of them stays in it or    *)
(* goes to the next.                                                         *)
LEMMA NextPhases ==
  ASSUME prompt', TypeOK, Phases, Next
  PROVE  Phases'
<1>0. Second => Quiet
  BY PromptSteps
<1> DEFINE Bounds == <<lower_bound, upper_bound, guess_truth>>
<1>1. UNCHANGED Bounds => Middle' = Middle
  BY DEF Middle, B!Middle
<1>2. UNCHANGED Bounds => \A w : RightWord(w)' <=> RightWord(w)
  BY <1>1 DEF RightWord
<1> USE DEF Next, Game, Guess, NoSignal, Away, GameStep, Under, Over, TimerGoto, AnswerGoto, NewGuess, Delivered, CutTo, Ended, memory, signals, judge, guesser
<1>3. CASE Idle
  <2>1. Second \/ EnterTimer \/ Cleanup
    BY <1>3
    DEF Idle, Judge, CompareLess, CompareMore, BeginCopy, EndCopy, Answer,
        ComputeMiddle, StoreGuess, Notify, EnterAnswer, IsLarger, IsSmaller, Raise, Cut
  <2>2. CASE EnterTimer
    BY <1>3, <2>2 DEF Idle, EnterTimer, Guessing, Phases
  <2>3. CASE Second \/ Cleanup
    BY <1>3, <2>3 DEF Idle, Second, Cleanup, Phases
  <2>4. QED
    BY <2>1, <2>2, <2>3
<1>4. CASE Guessing
  <2>1. ComputeMiddle \/ StoreGuess \/ Notify \/ Cleanup
    BY <1>0, <1>4
    DEF Guessing, Judge, CompareLess, CompareMore, BeginCopy, EndCopy, Answer, Second, Quiet,
        EnterTimer, EnterAnswer, IsLarger, IsSmaller, Raise, Cut
  <2>2. CASE Notify
    BY <1>1, <1>4, <2>2 DEF Guessing, Notify, Told, Idle, Phases
  <2>3. CASE ComputeMiddle
    BY <1>1, <1>4, <2>3 DEF Guessing, ComputeMiddle, Middle, Phases
  <2>4. CASE StoreGuess \/ Cleanup
    BY <1>1, <1>4, <2>4 DEF Guessing, StoreGuess, Cleanup, Phases
  <2>5. QED
    BY <2>1, <2>2, <2>3, <2>4
<1>5. CASE Told
  <2>1. Judge \/ Cleanup
    BY <1>0, <1>5
    DEF Told, CompareLess, CompareMore, BeginCopy, EndCopy, Answer, Second, Quiet, EnterTimer,
        ComputeMiddle, StoreGuess, Notify, EnterAnswer, IsLarger, IsSmaller, Raise, Cut
  <2>2. QED
    BY <1>1, <1>5, <2>1 DEF Told, Judge, Cleanup, Judging, Idle, Phases
<1>6. CASE Judging
  <2>1. CompareLess \/ CompareMore \/ BeginCopy \/ EndCopy \/ Answer \/ Cleanup
    BY <1>0, <1>6
    DEF Judging, Judge, Second, Quiet, EnterTimer, ComputeMiddle, StoreGuess, Notify,
        EnterAnswer, IsLarger, IsSmaller, Raise, Cut
  <2>0. Middle \in Int /\ guess_truth \in Int
    BY MiddleInRange DEF TypeOK, IntRange, Middle
  <2>2. CASE CompareLess \/ CompareMore
    <3>1. CASE CompareLess
      BY <1>1, <1>2, <1>6, <2>0, <3>1 DEF Judging, CompareLess, RightWord, Phases
    <3>2. CASE CompareMore
      BY <1>1, <1>2, <1>6, <2>0, <3>2 DEF Judging, CompareMore, RightWord, Phases
    <3>3. QED
      BY <2>2, <3>1, <3>2
  <2>3. CASE BeginCopy \/ EndCopy \/ Cleanup
    BY <1>1, <1>2, <1>6, <2>3 DEF Judging, BeginCopy, EndCopy, Cleanup, Idle, Phases
  <2>4. CASE Answer
    BY <1>1, <1>2, <1>6, <2>4 DEF Judging, Answer, Judged, Phases
  <2>5. QED
    BY <2>1, <2>2, <2>3, <2>4
<1>7. CASE Judged
  <2>1. EnterAnswer \/ Cleanup
    BY <1>0, <1>7
    DEF Judged, Judge, CompareLess, CompareMore, BeginCopy, EndCopy, Answer, Second, Quiet,
        EnterTimer, ComputeMiddle, StoreGuess, Notify, IsLarger, IsSmaller, Raise, Cut
  <2>2. QED
    BY <1>1, <1>2, <1>7, <2>1 DEF Judged, EnterAnswer, Cleanup, Learning, Phases
<1>8. CASE Learning
  <2>1. IsLarger \/ IsSmaller \/ Raise \/ Cut \/ Cleanup
    BY <1>0, <1>8
    DEF Learning, Judge, CompareLess, CompareMore, BeginCopy, EndCopy, Answer, Second, Quiet,
        EnterTimer, ComputeMiddle, StoreGuess, Notify, EnterAnswer
  <2>2. CASE IsSmaller
    <3>1. CASE shm_result = "smaller"
      BY <1>1, <1>2, <1>8, <2>2, <3>1 DEF Learning, IsSmaller, Phases
    <3>2. CASE shm_result # "smaller"
      <4>1. Middle \in Int /\ guess_truth \in Int
        BY MiddleInRange DEF TypeOK, IntRange, Middle
      <4>2. RightWord(shm_result) /\ shm_result \notin {"larger", "smaller"} /\ shm_guess = Middle
        BY <1>8, <2>2, <3>2 DEF Learning, IsSmaller
      <4>3. shm_guess = guess_truth
        BY <4>1, <4>2 DEF RightWord
      <4>4. QED
        BY <1>8, <2>2, <3>2, <4>3 DEF Learning, IsSmaller, Finished, Phases
    <3>3. QED
      BY <3>1, <3>2
  <2>3. CASE Raise \/ Cut
    BY <1>8, <2>3 DEF Learning, Raise, Cut, Idle, Phases
  <2>4. CASE IsLarger \/ Cleanup
    BY <1>1, <1>2, <1>8, <2>4 DEF Learning, IsLarger, Cleanup, Phases
  <2>5. QED
    BY <2>1, <2>2, <2>3, <2>4
<1>9. CASE Finished
  <2>1. Cleanup
    BY <1>9
    DEF Finished, Judge, CompareLess, CompareMore, BeginCopy, EndCopy, Answer, Second,
        EnterTimer, ComputeMiddle, StoreGuess, Notify, EnterAnswer, IsLarger, IsSmaller, Raise, Cut
  <2>2. QED
    BY <1>9, <2>1 DEF Finished, Cleanup, Phases
<1>10. QED
  BY <1>3, <1>4, <1>5, <1>6, <1>7, <1>8, <1>9 DEF Phases

LEMMA PhasesInvariant == Spec => [](TypeOK /\ (prompt => Phases))
<1>1. Init => (prompt => Phases)
  BY InitPhases
<1>2. TypeOK /\ (prompt => Phases) /\ [Next]_vars => (prompt => Phases)'
  <2> SUFFICES ASSUME TypeOK, prompt => Phases, [Next]_vars, prompt'
               PROVE  Phases'
    OBVIOUS
  <2>1. prompt /\ Phases
    BY PromptSteps
  <2>2. CASE UNCHANGED vars
    BY <2>1, <2>2
    DEF Phases, Idle, Guessing, Told, Judging, Judged, Learning, Finished, NoSignal, Away,
        RightWord, Middle, B!Middle, Ended, vars
  <2>3. QED
    BY <2>1, <2>2, NextPhases
<1>3. QED
  BY <1>1, <1>2, InitTypeOK, NextTypeOK, PTL DEF Spec

-----------------------------------------------------------------------------
(* As long as judgments are in time, Raise, Cut and the end of guess are the *)
(* steps of the bisection, and all others leave its variables alone.         *)
LEMMA TimelyStepRefines ==
  ASSUME prompt, prompt', TypeOK, Phases, [Next]_vars
  PROVE  [B!InTime /\ ~Ended]_(B!bisection)
<1> USE DEF Ended, guesser, judge, TimerGoto, AnswerGoto, CutTo
<1>1. Middle \in Int /\ guess_truth \in Int
  BY MiddleInRange DEF TypeOK, IntRange, Middle
<1>2. CASE Raise
  <2>1. Learning /\ answer = "raise"
    BY <1>2
    DEF Raise, Phases, Idle, Guessing, Told, Judging, Judged, Finished
  <2>2. shm_guess = Middle /\ Middle < guess_truth
    BY <1>1, <2>1 DEF Learning, RightWord
  <2>3. QED
    BY <1>2, <2>1, <2>2 DEF Raise, B!InTime, B!Larger, Middle
<1>3. CASE Cut
  <2>1. Learning /\ answer = "cut"
    BY <1>3
    DEF Cut, Phases, Idle, Guessing, Told, Judging, Judged, Finished
  <2>2. shm_guess = Middle /\ Middle > guess_truth
    BY <1>1, <2>1 DEF Learning, RightWord
  <2>3. QED
    BY <1>3, <2>1, <2>2 DEF Cut, B!InTime, B!Smaller, Middle
<1>4. CASE IsSmaller /\ answer' = "ended"
  <2>1. Learning /\ answer = "smaller?"
    BY <1>4
    DEF IsSmaller, Phases, Idle, Guessing, Told, Judging, Judged, Finished
  <2>2. shm_result \notin {"larger", "smaller"}
    BY <1>4, <2>1 DEF Learning, IsSmaller
  <2>3. Middle = guess_truth
    BY <1>1, <2>1, <2>2 DEF Learning, RightWord
  <2>4. QED
    BY <1>4, <2>1, <2>3 DEF IsSmaller, B!InTime, B!Bingo, Middle
<1>5. CASE \/ Game \/ Cleanup \/ Second \/ EnterTimer \/ ComputeMiddle \/ StoreGuess
           \/ Notify \/ EnterAnswer \/ IsLarger \/ UNCHANGED vars
           \/ (IsSmaller /\ answer' # "ended")
  <2>1. UNCHANGED <<guess_truth, lower_bound, upper_bound>> /\ (Ended' <=> Ended)
    BY <1>5
    DEF Game, Judge, CompareLess, CompareMore, BeginCopy, EndCopy, Answer, Cleanup, Second,
        EnterTimer, ComputeMiddle, StoreGuess, Notify, EnterAnswer, IsLarger, IsSmaller, vars
  <2>2. QED
    BY <2>1 DEF B!bisection
<1>6. QED
  BY <1>2, <1>3, <1>4, <1>5 DEF Next, Guess

(* After a second before a judgment the bisection promises only that the     *)
(* number stays the same and that guess makes no step once it has ended.     *)
LEMMA StepRefines ==
  ASSUME TypeOK, prompt => Phases, [Next]_vars
  PROVE  [B!BNext]_(B!bisection)
<1>1. CASE prompt'
  <2>1. prompt
    BY PromptSteps, <1>1
  <2>2. QED
    BY <1>1, <2>1, TimelyStepRefines DEF B!BNext
<1>2. CASE ~prompt'
  <2>1. UNCHANGED guess_truth
    BY Zenon
    DEF Next, Game, Guess, Judge, CompareLess, CompareMore, BeginCopy, EndCopy, Answer, Cleanup,
        Second, EnterTimer, ComputeMiddle, StoreGuess, Notify, EnterAnswer, IsLarger, IsSmaller,
        Raise, Cut, TimerGoto, AnswerGoto, judge, vars
  <2>2. Ended => UNCHANGED (B!bisection)
    BY DEF Ended, Next, Game, Guess, Judge, CompareLess, CompareMore, BeginCopy, EndCopy, Answer,
       Cleanup, Second, EnterTimer, ComputeMiddle, StoreGuess, Notify, EnterAnswer, IsLarger,
       IsSmaller, Raise, Cut, TimerGoto, AnswerGoto, judge, guesser, vars, B!bisection
  <2>3. QED
    BY <1>2, <2>1, <2>2 DEF B!BNext, B!Late
<1>3. QED
  BY <1>1, <1>2

(* The two programs, their signals and their shared memory implement the     *)
(* bisection.                                                                *)
THEOREM GameImplementsBisection == Spec => RefinesBisection
<1>1. Init => B!BInit
  BY DEF Init, B!BInit, Ended, IntRange
<1>2. Spec => B!BSpec
  BY <1>1, StepRefines, PhasesInvariant, PTL DEF Spec, B!BSpec
<1>3. QED
  BY <1>2 DEF RefinesBisection

(* guess ends only when it is right, as long as judgments were in time. *)
THEOREM EndIsRight == Spec => []EndedIsRight
<1>1. TypeOK /\ (prompt => Phases) => EndedIsRight
  BY DEF Phases, Idle, Guessing, Told, Judging, Judged, Learning, Finished, Ended, EndedIsRight
<1>2. QED
  BY <1>1, PhasesInvariant, PTL

(* As long as that, no judgment moves a number out of the bounds it is       *)
(* within.                                                                   *)
THEOREM NumberStaysInBracket == Spec => StaysInBracket
<1>1. TypeOK /\ (prompt => Phases) /\ [Next]_vars => [prompt' /\ InBracket => InBracket']_vars
  <2> SUFFICES ASSUME TypeOK, prompt => Phases, [Next]_vars, prompt', InBracket
               PROVE  InBracket'
    OBVIOUS
  <2>1. [B!InTime /\ ~Ended]_(B!bisection)
    BY PromptSteps, TimelyStepRefines
  <2>2. Middle \in Int /\ guess_truth \in Int
    BY MiddleInRange DEF TypeOK, IntRange, Middle
  <2>3. CASE B!Larger
    BY <2>2, <2>3 DEF B!Larger, InBracket, Middle
  <2>4. CASE B!Smaller
    BY <2>2, <2>4 DEF B!Smaller, InBracket, Middle
  <2>5. CASE UNCHANGED <<guess_truth, lower_bound, upper_bound>>
    BY <2>5 DEF InBracket
  <2>6. QED
    BY <2>1, <2>3, <2>4, <2>5 DEF B!InTime, B!Bingo, B!bisection
<1>2. QED
  BY <1>1, PhasesInvariant, PTL DEF StaysInBracket, Spec

=============================================================================

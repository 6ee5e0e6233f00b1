----------------------------- MODULE Bisection ------------------------------
(***************************************************************************)
(* What lab7's two programs promise together: one guess after another, the *)
(* middle of what is left, and each judgment narrows what is left on the   *)
(* side that it says; for as long as every judgment is in time.            *)
(***************************************************************************)
EXTENDS Integers

CONSTANT IntMax  \* the largest int

VARIABLES
  truth,        \* the number to find
  lower, upper, \* what is left: lower .. upper
  found,        \* the right guess was made and judged so
  prompt        \* no guess was made before the last one was judged

bisection == <<truth, lower, upper, found, prompt>>

(* int addition as the processor does it, and division as C does it. *)
Wrap(x) ==
  IF x > IntMax THEN x - 2 * (IntMax + 1)
  ELSE IF x < -IntMax - 1 THEN x + 2 * (IntMax + 1)
  ELSE x

Half(x) == IF x >= 0 THEN x \div 2 ELSE -((-x) \div 2)

Middle(lo, hi) == Half(Wrap(hi + lo))

BInit == lower = 1 /\ truth \in Int /\ upper \in Int /\ found = FALSE /\ prompt = TRUE

Larger ==
  /\ Middle(lower, upper) < truth
  /\ lower' = Middle(lower, upper)
  /\ UNCHANGED <<truth, upper, found>>

Smaller ==
  /\ Middle(lower, upper) > truth
  /\ upper' = Middle(lower, upper)
  /\ UNCHANGED <<truth, lower, found>>

Bingo ==
  /\ Middle(lower, upper) = truth
  /\ found' = TRUE
  /\ UNCHANGED <<truth, lower, upper>>

InTime == prompt /\ prompt' /\ (Larger \/ Smaller \/ Bingo)

(* A judgment of one guess may be taken for that of another, and mislead.    *)
Late == ~prompt' /\ UNCHANGED truth

BNext == ~found /\ (InTime \/ Late)

BSpec == BInit /\ [][BNext]_bisection
=============================================================================

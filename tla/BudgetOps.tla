----------------------------- MODULE BudgetOps -----------------------------
(***************************************************************************)
(* What the methods of budget.rs do to the state their mutex guards, as    *)
(* operators on a record.  Budget.tla is the state machine of one budget   *)
(* and the worker parked on it; H3Response.tla has one budget per request. *)
(***************************************************************************)
EXTENDS Naturals

CONSTANTS
    Limit,         \* Budget::limit, in bytes
    Sizes,         \* the sizes a piece of a body can have
    ProgressWrap   \* State::progress is a counter modulo this (2^64)

(* Nothing is asked of the limit: a piece larger than all of it is allowed. *)
ASSUME BudgetAssumption ==
    /\ Limit \in Nat
    /\ Sizes \subseteq Nat \ {0}
    /\ ProgressWrap \in Nat \ {0}

BudgetState == [outstanding : Nat, progress : 0 .. ProgressWrap - 1, closed : BOOLEAN]

NewBudget == [outstanding |-> 0, progress |-> 0, closed |-> FALSE]

(* The test of claim(): an empty budget takes a piece of any size. *)
Full(b, bytes) == b.outstanding > 0 /\ b.outstanding + bytes > Limit

Claimed(b, bytes) == [b EXCEPT !.outstanding = @ + bytes]

(* Mutant: one byte of every piece is kept. *)
ReleasedShort(b, bytes) ==
    [b EXCEPT !.outstanding = IF @ >= bytes THEN @ - (bytes - 1) ELSE 0,
              !.progress = (@ + 1) % ProgressWrap]

(* saturating_sub and wrapping_add. *)
Released(b, bytes) ==
    [b EXCEPT !.outstanding = IF @ > bytes THEN @ - bytes ELSE 0,
              !.progress = (@ + 1) % ProgressWrap]

Closed(b) == [b EXCEPT !.closed = TRUE]
=============================================================================

------------------------------- MODULE Budget -------------------------------
(***************************************************************************)
(* Backpressure for one h3 response: src/proxy/src/budget.rs.              *)
(*                                                                         *)
(* A worker claims room for each piece of a body before it hands the piece *)
(* to the event loop, and is parked on a condition variable while there is *)
(* none.  The event loop gives the room of a piece back when the last of   *)
(* its bytes has reached quiche, in the order in which the pieces were     *)
(* claimed, and closes the budget when nobody will read the stream again.  *)
(* Each wait has a window: when nothing at all was given back during one,  *)
(* the worker closes the budget itself.                                    *)
(*                                                                         *)
(* The bytes of the body are numbered from 1.  The pieces in flight are    *)
(* not kept: `taken' and `freed' are how many bytes were claimed and given *)
(* back so far, and `cuts' holds the number of the last byte of each piece *)
(* that is still queued.                                                   *)
(***************************************************************************)
EXTENDS BudgetOps

CONSTANT BodyBytes   \* the length of the body, which bounds the counters

ASSUME BodyAssumption == BodyBytes \in Nat

VARIABLES
    state,   \* Budget::state
    want,    \* the bytes a parked claim() is waiting for, 0 when none is
    seen,    \* claim()'s local `seen': State::progress when its window began
    woken,   \* the parked worker was notified, and has not run since
    taken,   \* bytes claimed
    freed,   \* bytes released
    cuts     \* last bytes of the pieces handed over and not released

budgetVars == <<state, want, seen, woken, taken, freed, cuts>>

Parked == want > 0

-----------------------------------------------------------------------------
BudgetInit ==
    /\ state = NewBudget
    /\ want = 0
    /\ seen = 0
    /\ woken = FALSE
    /\ taken = 0
    /\ freed = 0
    /\ cuts = {}

(* The end of claim(): the bytes are counted, and the piece is in flight. *)
Take(n) ==
    /\ ~state.closed
    /\ ~Full(state, n)
    /\ state' = Claimed(state, n)
    /\ want' = 0
    /\ taken' = taken + n
    /\ cuts' = cuts \cup {taken + n}
    /\ UNCHANGED <<seen, woken, freed>>

(* claim() that finds room. *)
Claim(n) ==
    /\ ~Parked
    /\ taken + n <= BodyBytes
    /\ Take(n)

(* claim() that does not: the worker waits, and its first window begins. *)
Park(n) ==
    /\ ~Parked
    /\ taken + n <= BodyBytes
    /\ ~state.closed
    /\ Full(state, n)
    /\ want' = n
    /\ seen' = state.progress
    /\ woken' = FALSE
    /\ UNCHANGED <<state, taken, freed, cuts>>

(* A notified worker finds room ... *)
Resume ==
    /\ Parked /\ woken
    /\ Take(want)

(* ... finds none, and begins another window ... *)
ParkAgain ==
    /\ Parked /\ woken
    /\ ~state.closed
    /\ Full(state, want)
    /\ seen' = state.progress
    /\ woken' = FALSE
    /\ UNCHANGED <<state, want, taken, freed, cuts>>

(* ... or finds the budget closed, and claim() answers false. *)
Refuse ==
    /\ Parked /\ woken
    /\ state.closed
    /\ want' = 0
    /\ UNCHANGED <<state, seen, woken, taken, freed, cuts>>

(* The window passes and nothing was given back: the client has stopped
   reading.  A window that passes after a release is Resume or ParkAgain. *)
Expire ==
    /\ Parked
    /\ state.progress = seen
    /\ state' = Closed(state)
    /\ want' = 0
    /\ UNCHANGED <<seen, woken, taken, freed, cuts>>

(* Mutant: the parked worker is not told. *)
ReleaseWithoutNotify ==
    \E c \in cuts :
        /\ \A d \in cuts : c <= d
        /\ state' = Released(state, c - freed)
        /\ freed' = c
        /\ cuts' = cuts \ {c}
        /\ UNCHANGED <<want, seen, woken, taken>>

(* release(): the oldest piece in flight has left. *)
Release ==
    \E c \in cuts :
        /\ \A d \in cuts : c <= d
        /\ state' = Released(state, c - freed)
        /\ freed' = c
        /\ cuts' = cuts \ {c}
        /\ woken' = Parked
        /\ UNCHANGED <<want, seen, taken>>

(* close(): whatever was queued is thrown away with the stream. *)
Close ==
    /\ state' = Closed(state)
    /\ cuts' = {}
    /\ woken' = Parked
    /\ UNCHANGED <<want, seen, taken, freed>>

Worker ==
    \/ \E n \in Sizes : Claim(n) \/ Park(n)
    \/ Resume \/ ParkAgain \/ Refuse
    \/ Expire

EventLoop == Release \/ Close

BudgetNext == Worker \/ EventLoop

BudgetSpec == BudgetInit /\ [][BudgetNext]_budgetVars

-----------------------------------------------------------------------------
BudgetTypeOK ==
    /\ state \in BudgetState
    /\ want \in Sizes \cup {0}
    /\ seen \in 0 .. ProgressWrap - 1
    /\ woken \in BOOLEAN
    /\ taken \in Nat
    /\ freed \in Nat
    /\ cuts \in SUBSET Nat

(* The event loop's books balance: what the budget counts is exactly what was
   claimed and not given back, so a release never hits the saturating_sub. *)
BooksBalance ==
    /\ freed <= taken
    /\ state.outstanding = taken - freed

(* claim(): "Nothing is ever queued behind a chunk that overshoots".  Past the
   limit there is a single piece in flight, whatever the sizes. *)
NothingBehindAnOvershoot ==
    state.outstanding > Limit => \A c, d \in cuts : c = d

(* release(): "a missed wakeup here is a stalled response".  A worker asleep
   with no notification on its way is one that has reason to sleep: there is
   no room, the budget is open, and nothing moved since its window began. *)
NoMissedWakeup ==
    Parked /\ ~woken =>
        /\ Full(state, want)
        /\ ~state.closed
        /\ state.progress = seen

(* claim(): "waiting for it to fit would deadlock a stream whose limit is
   smaller than one read from the origin".  Whoever sleeps sleeps behind a
   piece that has still to leave, and is woken when it does. *)
SomethingToWaitFor == Parked /\ ~woken => cuts # {}

(* Both: whoever sleeps has reason to, and will be told when it has none. *)
SleepersAreWoken == NoMissedWakeup /\ SomethingToWaitFor

(* Once the stream is gone the worker gets no room, even when what it had
   queued drains after it gave up. *)
ClosedForGood == [][state.closed => state'.closed /\ taken' = taken]_budgetVars
=============================================================================

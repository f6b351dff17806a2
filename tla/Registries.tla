----------------------------- MODULE Registries -----------------------------
(***************************************************************************)
(* What the process remembers for a while of its clients and for them:     *)
(* connections, minted leaves, bypasses, the rates of clients and the      *)
(* window such a rate is taken from, and the budget of a response.         *)
(*                                                                         *)
(* They share nothing but the clock, so no interleaving of two of them     *)
(* tells more than each alone: `part' is the one a behaviour is about.     *)
(***************************************************************************)
EXTENDS LeafCache, Bypasses, Links, DrainWindow, Budget, Connections

VARIABLE part

parts == <<leafVars, bypassVars, linkVars, drainVars, budgetVars, connectionVars>>

vars == <<now, part, parts>>

Init ==
    /\ now = 0
    /\ part \in {"leaves", "bypasses", "links", "drain", "budget", "connections"}
    /\ LeafInit /\ BypassInit /\ LinkInit /\ DrainInit /\ BudgetInit
    /\ ConnectionInit

Leaves ==
    /\ part = "leaves"
    /\ LeafNext
    /\ UNCHANGED <<bypassVars, linkVars, drainVars, budgetVars, connectionVars>>

Bypassing ==
    /\ part = "bypasses"
    /\ BypassNext
    /\ UNCHANGED <<leafVars, linkVars, drainVars, budgetVars, connectionVars>>

Measuring ==
    /\ part = "links"
    /\ LinkNext
    /\ UNCHANGED <<leafVars, bypassVars, drainVars, budgetVars, connectionVars>>

Draining ==
    /\ part = "drain"
    /\ DrainNext
    /\ UNCHANGED <<leafVars, bypassVars, linkVars, budgetVars, connectionVars>>

Budgeting ==
    /\ part = "budget"
    /\ BudgetNext
    /\ UNCHANGED <<leafVars, bypassVars, linkVars, drainVars, connectionVars>>

Connecting ==
    /\ part = "connections"
    /\ ConnectionNext
    /\ UNCHANGED <<leafVars, bypassVars, linkVars, drainVars, budgetVars>>

TimePasses ==
    \/ part \notin {"drain", "budget"} /\ Tick /\ UNCHANGED parts
    \/ part = "drain" /\ DrainTick /\ UNCHANGED <<leafVars, bypassVars, linkVars, budgetVars, connectionVars>>

Next ==
    \/ (Leaves \/ Bypassing \/ Measuring \/ Draining \/ Budgeting \/ Connecting) /\ UNCHANGED <<now, part>>
    \/ TimePasses /\ UNCHANGED part

Spec == Init /\ [][Next]_vars

(* GoodLeavesStay and UpgradesAreEarned, of every step. *)
EvictsTheIdle == [][GoodLeavesStay]_vars

NoFlapping == [][UpgradesAreEarned]_vars
=============================================================================

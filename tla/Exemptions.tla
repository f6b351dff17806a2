----------------------------- MODULE Exemptions -----------------------------
(***************************************************************************)
(* The hosts that are not decrypted: the fetched lists of Passthrough.tla  *)
(* and the learned hosts of Learned.tla, in one process that may stop and  *)
(* start again at any time.  The hosts in the configuration file are left  *)
(* out: nothing changes them.                                              *)
(***************************************************************************)
EXTENDS Passthrough, Learned

CONSTANT MaxRestarts  \* bounds the restarts

ASSUME RestartsAssumption == MaxRestarts \in Nat

VARIABLE restarts

vars == <<listVars, learnedVars, restarts>>

Init == ListInit /\ LearnedInit /\ restarts = 0

Restart ==
    /\ restarts < MaxRestarts
    /\ restarts' = restarts + 1
    /\ ListRestart
    /\ LearnedRestart

Next ==
    \/ ListNext /\ UNCHANGED <<learnedVars, restarts>>
    \/ LearnedNext /\ UNCHANGED <<listVars, restarts>>
    \/ Fails /\ (\E t \in Savers : SaveFails(t)) /\ UNCHANGED <<listVars, restarts>>
    \/ Restart

Spec == Init /\ [][Next]_vars

(* The refresh thread goes on, and its waits end. *)
FairSpec == Spec /\ WF_vars(Refresh /\ UNCHANGED <<learnedVars, restarts>>)

-----------------------------------------------------------------------------
TypeOK == ListTypeOK /\ LearnedTypeOK /\ restarts \in 0 .. MaxRestarts

(* update(): "every way this can go wrong ... leaves what this URL gave us
   last time exactly as it was".  While the process runs, what is fetched
   can only be replaced by something fetched. *)
FailsOneWay ==
    [][~Restart => \A u \in Urls : held[u] # {} => held'[u] # {}]_vars

(* A list that its origin goes on serving is the one in force in the end,
   however often it changed, failed or was asked for before: no 304 keeps
   something else in its place.  Not so where a text ever stood beside the
   validators of another. *)
Converges ==
    \A u \in Urls : \A t \in Texts \ {{}} :
        <>[](sound /\ network /\ origin[u] = t) => <>[](held[u] = t /\ t \subseteq fetched)

(* load(): "a host stays exempt a while longer rather than being decrypted
   unexpectedly".  With nobody saving, the file has every learned host, and
   no other but those whose time ran out.  Not so once two saves overlapped. *)
LearnedIsSaved ==
    orderly /\ Quiet => learned \subseteq saved /\ saved \subseteq learned \cup expired

(* Passthrough::new: "a restart with no network still has to come up with
   the same hosts exempt as before it".  With everything written that was to
   be written, a restart loses none. *)
SameAfterRestart ==
    [][Restart /\ sound /\ orderly /\ Quiet /\ refresher.pc = "asleep"
        => fetched \subseteq fetched' /\ learned \subseteq learned']_vars
=============================================================================

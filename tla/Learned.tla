------------------------------- MODULE Learned -------------------------------
(***************************************************************************)
(* The hosts that mach5 learned not to decrypt: Learned of                 *)
(* src/proxy/src/passthrough.rs.                                           *)
(*                                                                         *)
(* add and remove change the set under its lock, and write what they saw   *)
(* there to the file after they let go of it: changing and saving are      *)
(* actions of their own, of any number of threads.                         *)
(***************************************************************************)
EXTENDS Naturals

CONSTANTS
    Savers,  \* the threads that may add or remove
    Sites    \* the hosts that may be learned

VARIABLES
    learned,  \* the hosts in memory, within their time
    saved,    \* the file
    saver,    \* the sets each thread has still to write: one, or none
    expired,  \* hosts whose time ran out in memory
    orderly   \* no two saves ever overlapped, and none failed

learnedVars == <<learned, saved, saver, expired, orderly>>

LearnedInit ==
    /\ learned = {}
    /\ saved = {}
    /\ saver = [t \in Savers |-> {}]
    /\ expired = {}
    /\ orderly = TRUE

Quiet == \A t \in Savers : saver[t] = {}

-----------------------------------------------------------------------------
(* The set is changed to `to', and t goes on to save what it is now. *)
ToSave(t, to) ==
    /\ saver[t] = {}
    /\ learned' = to
    /\ saver' = [saver EXCEPT ![t] = {to}]
    /\ orderly' = (orderly /\ Quiet)
    /\ UNCHANGED saved

(* add(): a host that is there already gets its time again. *)
Add(t, h) ==
    /\ ToSave(t, learned \cup {h})
    /\ expired' = expired \ {h}

(* Mutant: what was taken away is not saved. *)
RemoveUnsaved(t, h) ==
    /\ saver[t] = {}
    /\ h \in learned
    /\ learned' = learned \ {h}
    /\ UNCHANGED <<saved, saver, expired, orderly>>

(* remove(), of a host that is there; of one that is not it does nothing. *)
Remove(t, h) ==
    /\ h \in learned
    /\ ToSave(t, learned \ {h})
    /\ UNCHANGED expired

Save(t) ==
    /\ saver[t] # {}
    /\ \E names \in saver[t] : saved' = names
    /\ saver' = [saver EXCEPT ![t] = {}]
    /\ UNCHANGED <<learned, expired, orderly>>

SaveFails(t) ==
    /\ saver[t] # {}
    /\ saver' = [saver EXCEPT ![t] = {}]
    /\ orderly' = FALSE
    /\ UNCHANGED <<learned, saved, expired>>

(* live(): LEARNED_TTL passes, and the next look drops the host. *)
Expire(h) ==
    /\ h \in learned
    /\ learned' = learned \ {h}
    /\ expired' = expired \cup {h}
    /\ UNCHANGED <<saved, saver, orderly>>

LearnedNext ==
    \/ \E t \in Savers : Save(t)
    \/ \E t \in Savers, h \in Sites : Add(t, h) \/ Remove(t, h)
    \/ \E h \in Sites : Expire(h)

(* load(): every host in the file is learned anew; a save that was still to
   come is lost, and the set goes back to what was written before it. *)
LearnedRestart ==
    /\ learned' = saved
    /\ saver' = [t \in Savers |-> {}]
    /\ expired' = {}
    /\ UNCHANGED <<saved, orderly>>

-----------------------------------------------------------------------------
LearnedTypeOK ==
    /\ learned \in SUBSET Sites
    /\ saved \in SUBSET Sites
    /\ saver \in [Savers -> SUBSET SUBSET Sites]
    /\ expired \in SUBSET Sites
    /\ orderly \in BOOLEAN
=============================================================================

----------------------------- MODULE Passthrough -----------------------------
(***************************************************************************)
(* The fetched lists of hosts that are not decrypted: Passthrough, refresh *)
(* and update of src/proxy/src/passthrough.rs over fetch and store of      *)
(* src/proxy/src/fetch.rs.                                                 *)
(*                                                                         *)
(* A text is the set of hosts that parse() makes of it: {} is an error     *)
(* page, a list over the ceiling, anything else that is no list.  Its etag *)
(* is the text again, as it is where a list is a file in a git host.  On   *)
(* disk each list is two files, the text and the validators it came with,  *)
(* that only the refresh thread writes.                                    *)
(***************************************************************************)
EXTENDS Naturals

CONSTANTS
    Urls,   \* the lists
    Texts,  \* what an origin may serve as one
    Fails,  \* whether a write to the disk may fail
    None    \* no file, no answer

ASSUME FailsAssumption == Fails \in BOOLEAN

VARIABLES
    origin,     \* what each URL serves
    network,    \* the origins answer, and answer whole
    text,       \* the .txt files
    tags,       \* the .meta files: the text that the validators are of
    held,       \* what each URL contributes, in the refresh thread
    fetched,    \* the set that connections are matched against
    refresher,  \* where the refresh thread is
    sound       \* no text was ever left beside another's validators

worldVars == <<origin, network>>
diskVars == <<text, tags>>
listVars == <<worldVars, diskVars, held, fetched, refresher, sound>>

Asleep == [pc |-> "asleep", todo |-> {}, url |-> None, got |-> None]

ListInit ==
    /\ origin \in [Urls -> Texts]
    /\ network \in BOOLEAN
    /\ text = [u \in Urls |-> None]
    /\ tags = [u \in Urls |-> None]
    /\ held = [u \in Urls |-> {}]
    /\ fetched = {}
    /\ refresher = Asleep
    /\ sound = TRUE

-----------------------------------------------------------------------------
ListChanges ==
    /\ \E u \in Urls, t \in Texts : origin' = [origin EXCEPT ![u] = t]
    /\ UNCHANGED <<network, diskVars, held, fetched, refresher, sound>>

NetworkChanges ==
    /\ network' = ~network
    /\ UNCHANGED <<origin, diskVars, held, fetched, refresher, sound>>

-----------------------------------------------------------------------------
(* refresh(): one list after another. *)

Wake ==
    /\ refresher.pc = "asleep"
    /\ refresher' = [refresher EXCEPT !.pc = "picking", !.todo = Urls]
    /\ UNCHANGED <<worldVars, diskVars, held, fetched, sound>>

Ask ==
    /\ refresher.pc = "picking"
    /\ \E u \in refresher.todo :
        refresher' = [refresher EXCEPT !.pc = "asking", !.url = u]
    /\ UNCHANGED <<worldVars, diskVars, held, fetched, sound>>

Got(t, pc) == refresher' = [refresher EXCEPT !.pc = pc, !.got = t]

(* The validators are sent while there is a text for them to be about. *)
Unchanged(u) == text[u] # None /\ tags[u] = origin[u]

AnswerWhole ==
    LET u == refresher.url IN
    /\ refresher.pc = "asking"
    /\ network
    /\ ~Unchanged(u)
    /\ Got(origin[u], "storing")
    /\ UNCHANGED <<worldVars, diskVars, held, fetched, sound>>

(* A 304, an error, or a body that breaks off or is over the byte ceiling:
   the copy on disk stands, if there is one. *)
AnswerCached ==
    LET u == refresher.url IN
    /\ refresher.pc = "asking"
    /\ network => Unchanged(u)
    /\ Got(text[u], "updating")
    /\ UNCHANGED <<worldVars, diskVars, held, fetched, sound>>

(* store(): the text, and then its validators, each by a rename. *)
StoreText ==
    /\ refresher.pc = "storing"
    /\ text' = [text EXCEPT ![refresher.url] = refresher.got]
    /\ refresher' = [refresher EXCEPT !.pc = "tagging"]
    /\ UNCHANGED <<worldVars, tags, held, fetched, sound>>

(* Mutant: the validators are written whether the text was or not. *)
StoreFailsButTags ==
    /\ refresher.pc = "storing"
    /\ tags' = [tags EXCEPT ![refresher.url] = refresher.got]
    /\ refresher' = [refresher EXCEPT !.pc = "updating"]
    /\ UNCHANGED <<worldVars, text, held, fetched, sound>>

(* The text cannot be written: it is used all the same. *)
StoreFails ==
    /\ Fails
    /\ refresher.pc = "storing"
    /\ refresher' = [refresher EXCEPT !.pc = "updating"]
    /\ UNCHANGED <<worldVars, diskVars, held, fetched, sound>>

(* write_validators(), of a list that came with some or with none. *)
StoreTags ==
    /\ refresher.pc = "tagging"
    /\ \E t \in {refresher.got, None} : tags' = [tags EXCEPT ![refresher.url] = t]
    /\ refresher' = [refresher EXCEPT !.pc = "updating"]
    /\ UNCHANGED <<worldVars, text, held, fetched, sound>>

(* The validators cannot be written: those of the text before stay. *)
TagsFail ==
    /\ Fails
    /\ refresher.pc = "tagging"
    /\ refresher' = [refresher EXCEPT !.pc = "updating"]
    /\ sound' = FALSE
    /\ UNCHANGED <<worldVars, diskVars, held, fetched>>

(* Mutant: whatever came replaces what was held. *)
ContributionAnyway(had, got) == IF got = None THEN had ELSE got

(* update(): only a text with a host in it replaces what was held. *)
Contribution(had, got) == IF got = None \/ got = {} THEN had ELSE got

Update ==
    LET u == refresher.url IN
    /\ refresher.pc = "updating"
    /\ held' = [held EXCEPT ![u] = Contribution(@, refresher.got)]
    /\ refresher' = [Asleep EXCEPT !.pc = "picking", !.todo = refresher.todo \ {u}]
    /\ UNCHANGED <<worldVars, diskVars, fetched, sound>>

(* replace_fetched(): the union is swapped in whole. *)
Swap ==
    /\ refresher.pc = "picking"
    /\ refresher.todo = {}
    /\ fetched' = UNION {held[u] : u \in Urls}
    /\ refresher' = Asleep
    /\ UNCHANGED <<worldVars, diskVars, held, sound>>

Refresh ==
    \/ Wake \/ Ask \/ AnswerWhole \/ AnswerCached
    \/ StoreText \/ StoreFails \/ StoreTags \/ TagsFail
    \/ Update \/ Swap

ListNext == ListChanges \/ NetworkChanges \/ Refresh

-----------------------------------------------------------------------------
(* cached(): what the copies on disk contribute. *)
Cached == [u \in Urls |-> IF text[u] = None THEN {} ELSE text[u]]

(* The process stops, and starts again from what is on disk. *)
ListRestart ==
    /\ held' = Cached
    /\ fetched' = UNION {Cached[u] : u \in Urls}
    /\ refresher' = Asleep
    /\ sound' = (sound /\ refresher.pc # "tagging")
    /\ UNCHANGED <<worldVars, diskVars>>

-----------------------------------------------------------------------------
ListTypeOK ==
    /\ origin \in [Urls -> Texts]
    /\ network \in BOOLEAN
    /\ text \in [Urls -> Texts \cup {None}]
    /\ tags \in [Urls -> Texts \cup {None}]
    /\ held \in [Urls -> Texts \cup {{}}]
    /\ fetched \in SUBSET UNION Texts
    /\ refresher \in [pc : {"asleep", "picking", "asking", "storing", "tagging", "updating"},
                      todo : SUBSET Urls, url : Urls \cup {None}, got : Texts \cup {None}]
    /\ sound \in BOOLEAN
=============================================================================

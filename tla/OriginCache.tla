----------------------------- MODULE OriginCache -----------------------------
(***************************************************************************)
(* One key of the shared HTTP cache: call, lookup and store of             *)
(* src/proxy/src/upstream.rs over Cache of src/proxy/src/httpcache.rs and  *)
(* replace and sweep of src/proxy/src/disk.rs.                             *)
(*                                                                         *)
(* An entry is two files that are each replaced by a rename: the body, and *)
(* the metadata.  Any number of workers read and replace them with no lock *)
(* between them, so each file operation is an action of its own; a sweep,  *)
(* of this key or for another's sake, may remove either file at any time,  *)
(* and the process may stop between any two operations.                    *)
(*                                                                         *)
(* A body is the number of the origin's version it is.  The version is     *)
(* also the etag, and the origin may go back to one it had before.  Time   *)
(* is in seconds.                                                          *)
(***************************************************************************)
EXTENDS Naturals

CONSTANTS
    Workers,     \* the threads that fetch
    Policies,    \* what the origin may say of a version
    MaxVersion,  \* bounds the versions of the origin
    MaxTime,     \* bounds the clock
    None         \* no file, no answer

(* public: eligible() finds no refusal in the headers.  life: max-age, 0 when
   there is none.  tag: whether there is a validator. *)
ASSUME CacheAssumption ==
    /\ Policies \subseteq [public : BOOLEAN, life : Nat, tag : BOOLEAN]
    /\ MaxVersion \in Nat
    /\ MaxTime \in Nat

VARIABLES
    version,   \* the origin's current version
    policy,    \* and what it says of it
    now,       \* the clock
    meta,      \* the .meta file
    body,      \* the .body file
    worker,    \* what each thread is doing
    served,    \* what each thread that is idle served last
    shared,    \* versions that the origin ever said were public
    withdrawn, \* the origin took its permission back, and gave none since
    alone,     \* no two fetches were ever under way at once
    forward,   \* the origin never went back to a version it had before
    torn,      \* a new body was left beside what metadata there was
    stuck      \* metadata that was to go could not be removed

originVars == <<version, policy, now, forward>>
fileVars == <<meta, body>>
mishaps == <<torn, stuck>>
vars == <<originVars, fileVars, worker, served, shared, withdrawn, alone, mishaps>>

Idle == [pc |-> "idle", wants |-> None, entry |-> None, held |-> None, answer |-> None]

(* eligible(), of what a client that may be served from the cache asked for. *)
Eligible(p) == p.public /\ (p.life > 0 \/ p.tag)

(* entry_for(): the lifetime is counted from now, when the body is here. *)
EntryFor(a) ==
    [ver |-> a.ver, tag |-> a.policy.tag, life |-> a.policy.life,
     until |-> now + a.policy.life]

-----------------------------------------------------------------------------
Init ==
    /\ version = 0
    /\ policy \in Policies
    /\ now = 0
    /\ meta = None
    /\ body = None
    /\ worker = [w \in Workers |-> Idle]
    /\ served = [w \in Workers |-> None]
    /\ shared = {}
    /\ withdrawn = FALSE
    /\ alone = TRUE
    /\ forward = TRUE
    /\ torn = FALSE
    /\ stuck = FALSE

-----------------------------------------------------------------------------
(* The world. *)

OriginChanges ==
    /\ version' \in 0 .. MaxVersion
    /\ policy' \in Policies
    /\ forward' = (forward /\ version' >= version)
    /\ UNCHANGED <<now, fileVars, worker, served, shared, withdrawn, alone, mishaps>>

Tick ==
    /\ now < MaxTime
    /\ now' = now + 1
    /\ UNCHANGED <<version, policy, forward, fileVars, worker, served, shared, withdrawn,
                   alone, mishaps>>

(* sweep(), one file at a time, and /.mach5/'s emptying of the cache. *)
Sweep ==
    /\ \/ meta # None /\ meta' = None /\ UNCHANGED body
       \/ body # None /\ body' = None /\ UNCHANGED meta
    /\ UNCHANGED <<originVars, worker, served, shared, withdrawn, alone, mishaps>>

(* A new body is there, and the metadata that goes with it is not yet. *)
HalfPut(w) == worker[w].pc = "putting" /\ worker[w].answer.status = 200

Crash ==
    /\ worker' = [w \in Workers |-> Idle]
    /\ served' = [w \in Workers |-> None]
    /\ torn' = (torn \/ \E w \in Workers : HalfPut(w))
    /\ UNCHANGED <<originVars, fileVars, shared, withdrawn, alone, stuck>>

-----------------------------------------------------------------------------
(* lookup(). *)

Serve(w, ver, how, current) ==
    /\ worker' = [worker EXCEPT ![w] = Idle]
    /\ served' = [served EXCEPT ![w] = [ver |-> ver, how |-> how, current |-> current]]

GoTo(w, pc) == worker' = [worker EXCEPT ![w].pc = pc]

(* A request begins.  One that is not a GET, carries credentials or says
   no-store wants nothing of the cache. *)
Request(w) ==
    /\ worker[w].pc = "idle"
    /\ \E wants \in {"anything", "revalidated", "nothing"} :
        worker' = [worker EXCEPT ![w].wants = wants,
                    ![w].pc = IF wants = "nothing" THEN "asking" ELSE "looking"]
    /\ served' = [served EXCEPT ![w] = None]
    /\ alone' = (alone /\ \A v \in Workers : worker[v].pc = "idle")
    /\ UNCHANGED <<originVars, fileVars, shared, withdrawn, mishaps>>

(* get(): the metadata is read, and then the body that is there by then. *)
ReadMeta(w) ==
    /\ worker[w].pc = "looking" /\ worker[w].entry = None
    /\ worker' = IF meta = None
                 THEN [worker EXCEPT ![w].pc = "asking"]
                 ELSE [worker EXCEPT ![w].entry = meta]
    /\ UNCHANGED <<originVars, fileVars, served, shared, withdrawn, alone, mishaps>>

IsFresh(w) == worker[w].wants = "anything" /\ now < worker[w].entry.until

(* It is fresh, and served with no request. *)
ServeFresh(w) ==
    /\ worker[w].pc = "looking" /\ worker[w].entry # None
    /\ body # None
    /\ IsFresh(w)
    /\ Serve(w, body, "fresh", None)
    /\ UNCHANGED <<originVars, fileVars, shared, withdrawn, alone, mishaps>>

(* It is stale, or the client wants it asked after. *)
Revalidate(w) ==
    /\ worker[w].pc = "looking" /\ worker[w].entry # None
    /\ body # None
    /\ ~IsFresh(w)
    /\ worker[w].entry.tag
    /\ worker' = [worker EXCEPT ![w].pc = "asking", ![w].held = body]
    /\ UNCHANGED <<originVars, fileVars, served, shared, withdrawn, alone, mishaps>>

(* No body to go with the metadata, or nothing to ask with. *)
Miss(w) ==
    /\ worker[w].pc = "looking" /\ worker[w].entry # None
    /\ body = None \/ (~IsFresh(w) /\ ~worker[w].entry.tag)
    /\ worker' = [worker EXCEPT ![w].pc = "asking", ![w].entry = None]
    /\ UNCHANGED <<originVars, fileVars, served, shared, withdrawn, alone, mishaps>>

-----------------------------------------------------------------------------
(* call(): the origin answers with what it has at that moment.  Of what was
   stored the body is still of use, if the answer is that it is unchanged. *)

Answer(status, ver, p) ==
    [status |-> status, ver |-> ver, policy |-> p]

Answered(w, a) ==
    /\ worker' = [worker EXCEPT ![w].pc = "answered", ![w].answer = a, ![w].entry = None,
                    ![w].held = IF a.status = 304 THEN worker[w].held ELSE None]
    /\ shared' = IF Eligible(a.policy) THEN shared \cup {a.ver} ELSE shared
    /\ UNCHANGED <<originVars, fileVars, served, withdrawn, alone, mishaps>>

(* Mutant: the client's own condition was sent along, and it held. *)
UnchangedForClient(w) == worker[w].held # None

(* The condition that was sent, if one was, holds. *)
Unchanged(w) == worker[w].held # None /\ worker[w].entry.ver = version

AnswerWhole(w) ==
    /\ worker[w].pc = "asking"
    /\ ~Unchanged(w)
    /\ Answered(w, Answer(200, version, policy))

(* refreshed_headers(): what the 304 says replaces what was stored, and what
   it leaves out stays. *)
AnswerUnchanged(w) ==
    /\ worker[w].pc = "asking"
    /\ Unchanged(w)
    /\ \E life \in {policy.life, worker[w].entry.life} :
        Answered(w, Answer(304, version, [policy EXCEPT !.life = life, !.tag = TRUE]))

(* The origin could not be asked, or stopped part-way through the body, which
   is neither stored nor served. *)
FetchFails(w) ==
    /\ \/ worker[w].pc = "asking"
       \/ worker[w].pc = "answered" /\ worker[w].answer.status = 200
    /\ worker' = [worker EXCEPT ![w] = Idle]
    /\ UNCHANGED <<originVars, fileVars, served, shared, withdrawn, alone, mishaps>>

(* The body that goes with the answer: its own, or the one already held. *)
BodyOf(w) == IF worker[w].answer.status = 200 THEN worker[w].answer.ver ELSE worker[w].held

ServeAnswer(w) ==
    LET a == worker[w].answer IN
    Serve(w, BodyOf(w), IF a.status = 200 THEN "fetched" ELSE "revalidated", a.ver)

(* Whether the answer may be put in the cache. *)
MayStore(w) == worker[w].wants # "nothing" /\ Eligible(worker[w].answer.policy)

-----------------------------------------------------------------------------
(* put(): the body's file, and then the metadata's. *)

(* Mutant: eligible() is asked only of what a 304 says. *)
PutUnasked(w) ==
    /\ worker[w].pc = "answered"
    /\ worker[w].wants # "nothing"
    /\ body' = BodyOf(w)
    /\ worker' = [worker EXCEPT ![w].pc = "putting",
                    ![w].entry = EntryFor(worker[w].answer)]
    /\ UNCHANGED <<originVars, meta, served, shared, withdrawn, alone, mishaps>>

PutBody(w) ==
    /\ worker[w].pc = "answered" /\ MayStore(w)
    /\ body' = BodyOf(w)
    /\ worker' = [worker EXCEPT ![w].pc = "putting",
                    ![w].entry = EntryFor(worker[w].answer)]
    /\ UNCHANGED <<originVars, meta, served, shared, withdrawn, alone, mishaps>>

PutMeta(w) ==
    /\ worker[w].pc = "putting"
    /\ meta' = worker[w].entry
    /\ withdrawn' = FALSE
    /\ stuck' = FALSE
    /\ torn' = (torn /\ ~HalfPut(w))
    /\ ServeAnswer(w)
    /\ UNCHANGED <<originVars, body, shared, alone>>

(* Mutant: the metadata is written all the same. *)
PutFailsHalfway(w) ==
    /\ worker[w].pc = "answered" /\ MayStore(w)
    /\ worker' = [worker EXCEPT ![w].pc = "putting",
                    ![w].entry = EntryFor(worker[w].answer)]
    /\ UNCHANGED <<originVars, fileVars, served, shared, withdrawn, alone, mishaps>>

(* The body's file cannot be written, and what was there stays. *)
PutFails(w) ==
    /\ worker[w].pc = "answered" /\ MayStore(w)
    /\ ServeAnswer(w)
    /\ UNCHANGED <<originVars, fileVars, shared, withdrawn, alone, mishaps>>

(* The metadata's cannot, and the body is taken back, unless that fails too. *)
PutMetaFails(w) ==
    /\ worker[w].pc = "putting"
    /\ body' \in {None, body}
    /\ torn' = (torn \/ (body' # None /\ HalfPut(w)))
    /\ ServeAnswer(w)
    /\ UNCHANGED <<originVars, meta, shared, withdrawn, alone, stuck>>

(* A whole answer that may not be stored is only relayed: what is in the
   cache stays there. *)
Relay(w) ==
    /\ worker[w].pc = "answered" /\ worker[w].answer.status = 200
    /\ ~MayStore(w)
    /\ ServeAnswer(w)
    /\ UNCHANGED <<originVars, fileVars, shared, withdrawn, alone, mishaps>>

-----------------------------------------------------------------------------
(* forget(): the origin no longer says that what it confirmed is public.  An
   error in the removal of either file is ignored. *)

(* Mutant: the body's file is taken for the entry. *)
ForgetBodyOnly(w) ==
    /\ worker[w].pc = "answered" /\ worker[w].answer.status = 304
    /\ ~MayStore(w)
    /\ withdrawn' = TRUE
    /\ GoTo(w, "forgetting")
    /\ UNCHANGED <<originVars, fileVars, served, shared, alone, mishaps>>

ForgetMeta(w) ==
    /\ worker[w].pc = "answered" /\ worker[w].answer.status = 304
    /\ ~MayStore(w)
    /\ meta' \in {None, meta}
    /\ stuck' = (stuck \/ meta' # None)
    /\ withdrawn' = TRUE
    /\ GoTo(w, "forgetting")
    /\ UNCHANGED <<originVars, body, served, shared, alone, torn>>

ForgetBody(w) ==
    /\ worker[w].pc = "forgetting"
    /\ body' \in {None, body}
    /\ ServeAnswer(w)
    /\ UNCHANGED <<originVars, meta, shared, withdrawn, alone, mishaps>>

-----------------------------------------------------------------------------
World == OriginChanges \/ Tick \/ Sweep \/ Crash

Fetch(w) ==
    \/ Request(w) \/ ReadMeta(w) \/ ServeFresh(w) \/ Revalidate(w) \/ Miss(w)
    \/ AnswerWhole(w) \/ AnswerUnchanged(w) \/ FetchFails(w)
    \/ PutBody(w) \/ PutMeta(w) \/ PutFails(w) \/ PutMetaFails(w)
    \/ Relay(w) \/ ForgetMeta(w) \/ ForgetBody(w)

Next == World \/ \E w \in Workers : Fetch(w)

Spec == Init /\ [][Next]_vars

-----------------------------------------------------------------------------
(* put(): "The body first, so a reader that finds the metadata always finds
   something to go with it".  As long as no two fetches met, that something
   is never older than the metadata says while the origin only goes forward,
   and of just that version while no put broke off between the files,
   whatever else a crash, a failed write or a sweep leaves behind. *)
BodyNotOlder ==
    alone /\ meta # None /\ body # None =>
        /\ forward => body >= meta.ver
        /\ torn \/ (\E w \in Workers : HalfPut(w)) \/ body = meta.ver

(* call(): "Nothing has changed -- so what we already had is the answer".
   What is served on the strength of a 304 is the version it confirmed. *)
RevalidatedIsCurrent ==
    \A w \in Workers :
        served[w] # None /\ served[w].how = "revalidated" => served[w].ver = served[w].current

(* What holds of it: a 304 is answered with what it confirmed unless two
   fetches of the key met, or a put broke off between the files and the
   origin came back to what the metadata that stayed tells of. *)
ConfirmedIsServed ==
    [][\A w \in Workers :
        /\ alone /\ (forward \/ ~torn)
        /\ served'[w] \notin {None, served[w]} /\ served'[w].how = "revalidated"
        => served'[w].ver = served'[w].current]_vars

(* eligible(): "the cost of being wrong is serving somebody else's bytes".
   However the files are mixed, what comes out of the cache is a version the
   origin said was everybody's. *)
OnlyPublicBytes ==
    \A w \in Workers :
        served[w] # None /\ served[w].how \in {"fresh", "revalidated"} =>
            served[w].ver \in shared

(* refreshed_headers(): the origin may "take back permission to store it at
   all".  From then on it is asked, until it says otherwise, if the metadata
   could be removed; a fetch that met the one that learned of it may have read
   the entry before. *)
WithdrawnIsAsked ==
    [][\A w \in Workers : alone /\ withdrawn /\ ~stuck => ~ServeFresh(w)]_vars
=============================================================================

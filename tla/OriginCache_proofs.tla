-------------------------- MODULE OriginCache_proofs --------------------------
(***************************************************************************)
(* One key of the HTTP cache, proved for any number of workers, versions   *)
(* and policies of the origin, and any length of time.                     *)
(*                                                                         *)
(* Of the four properties one holds whoever meets whom; the others are     *)
(* about a key that no two fetches were at, where the one at work is known *)
(* to be behind no file that it compares with another.                     *)
(***************************************************************************)
EXTENDS OriginCache, TLAPS

Policy == [public : BOOLEAN, life : Nat, tag : BOOLEAN]

Entry == [ver : Nat, tag : BOOLEAN, life : Nat, until : Nat]

Reply == [status : {200, 304}, ver : Nat, policy : Policy]

Steps == {"idle", "looking", "asking", "answered", "putting", "forgetting"}

Wants == {None, "anything", "revalidated", "nothing"}

Thread ==
    [pc : Steps, wants : Wants, entry : Entry \cup {None}, held : Nat \cup {None},
     answer : Reply \cup {None}]

Serving ==
    [ver : Nat \cup {None}, how : {"fresh", "fetched", "revalidated"}, current : Nat \cup {None}]

TypeOK ==
    /\ version \in Nat /\ policy \in Policy /\ now \in Nat
    /\ meta \in Entry \cup {None}
    /\ body \in Nat \cup {None}
    /\ worker \in [Workers -> Thread]
    /\ served \in [Workers -> Serving \cup {None}]
    /\ shared \subseteq Nat
    /\ withdrawn \in BOOLEAN /\ alone \in BOOLEAN
    /\ forward \in BOOLEAN /\ torn \in BOOLEAN /\ stuck \in BOOLEAN

(* What a thread has at hand in each of its steps. *)
Answering(t) == t.pc \in {"answered", "putting", "forgetting"}

InHand(t) ==
    /\ t.pc \in {"idle", "looking"} => t.held = None
    /\ t.pc = "idle" => t.entry = None
    /\ t.held # None /\ t.pc = "asking" => t.entry \in Entry
    /\ Answering(t) => t.answer \in Reply
    /\ Answering(t) /\ t.answer.status = 304 => t.held # None
    /\ t.pc = "putting" => t.entry \in Entry /\ t.entry.ver = t.answer.ver

(* Whatever may be served from here was said to be everybody's. *)
PublicIn(t) ==
    /\ t.held \in shared \cup {None}
    /\ Answering(t) /\ t.answer.status = 200 /\ Eligible(t.answer.policy) =>
            t.answer.ver \in shared
    /\ t.pc = "putting" /\ t.answer.status = 200 => t.answer.ver \in shared

Public ==
    /\ body \in shared \cup {None}
    /\ \A w \in Workers : PublicIn(worker[w])
    /\ OnlyPublicBytes

(* Nothing is newer than an origin that only goes forward. *)
BehindIn(t) ==
    /\ t.held # None => t.held <= version
    /\ t.pc \in {"looking", "asking"} /\ t.entry # None => t.entry.ver <= version
    /\ Answering(t) => t.answer.ver <= version

Behind ==
    forward =>
        /\ body # None => body <= version
        /\ meta # None => meta.ver <= version
        /\ \A w \in Workers : BehindIn(worker[w])

(* One thread at a time, while that is so. *)
OneAtWork == alone => \A v, w \in Workers : v # w => "idle" \in {worker[v].pc, worker[w].pc}

(* How far the one at work is, next to the files, while the origin only goes
   forward. *)
InOrder(t) ==
    /\ t.pc = "looking" /\ t.entry # None /\ body # None => body >= t.entry.ver
    /\ t.pc = "asking" /\ t.held # None => t.held >= t.entry.ver
    /\ Answering(t) /\ meta # None => t.answer.ver >= meta.ver
    /\ Answering(t) /\ t.answer.status = 304 => t.held = t.answer.ver
    /\ t.pc = "putting" /\ body # None => body = t.answer.ver

Order ==
    alone /\ forward =>
        /\ \A w \in Workers : InOrder(worker[w])
        /\ meta # None /\ body # None => body >= meta.ver

(* And wherever the origin goes, while no put broke off between the files. *)
MatchedIn(t) ==
    /\ t.pc = "looking" /\ t.entry # None =>
            (meta # None => meta.ver = t.entry.ver) /\ (body # None => body = t.entry.ver)
    /\ t.pc = "asking" /\ t.held # None =>
            (meta # None => meta.ver = t.entry.ver) /\ t.held = t.entry.ver
    /\ Answering(t) /\ t.answer.status = 304 =>
            (meta # None => meta.ver = t.answer.ver) /\ t.held = t.answer.ver
    /\ t.pc = "putting" /\ body # None => body = t.answer.ver

Matched ==
    alone =>
        /\ \A w \in Workers : HalfPut(w) /\ body # None => body = worker[w].answer.ver
        /\ ~torn =>
            /\ \A w \in Workers : MatchedIn(worker[w])
            /\ (\A w \in Workers : ~HalfPut(w)) /\ meta # None /\ body # None =>
                    body = meta.ver

(* Permission that was taken back is not on the disk, nor in a thread that
   has still to decide. *)
TakenBack ==
    alone /\ withdrawn /\ ~stuck =>
        /\ meta = None
        /\ \A w \in Workers : worker[w].pc = "looking" => worker[w].entry = None

Inv ==
    /\ TypeOK
    /\ \A w \in Workers : InHand(worker[w])
    /\ Public
    /\ Behind
    /\ OneAtWork
    /\ Order
    /\ Matched
    /\ TakenBack

-----------------------------------------------------------------------------
(* A thread that serves is idle again, and the others go on. *)
LEMMA Served ==
    ASSUME TypeOK, NEW w \in Workers, NEW ver \in Nat \cup {None},
           NEW how \in {"fresh", "fetched", "revalidated"}, NEW current \in Nat \cup {None},
           Serve(w, ver, how, current)
    PROVE  /\ worker' \in [Workers -> Thread] /\ served' \in [Workers -> Serving \cup {None}]
           /\ worker'[w] = Idle
           /\ served'[w] = [ver |-> ver, how |-> how, current |-> current]
           /\ \A v \in Workers \ {w} : worker'[v] = worker[v] /\ served'[v] = served[v]
<1>1. Idle \in Thread
  BY DEF Idle, Thread, Steps, Wants
<1>2. [ver |-> ver, how |-> how, current |-> current] \in Serving
  BY DEF Serving
<1>3. QED
  BY <1>1, <1>2 DEF TypeOK, Serve

(* What a thread that was answered has to serve. *)
LEMMA Replied ==
    ASSUME TypeOK, NEW w \in Workers, InHand(worker[w]), Answering(worker[w])
    PROVE  LET a == worker[w].answer IN
           /\ a \in Reply /\ a.ver \in Nat /\ a.status \in {200, 304}
           /\ BodyOf(w) \in Nat
           /\ a.status = 200 => BodyOf(w) = a.ver
           /\ a.status = 304 => BodyOf(w) = worker[w].held
  BY DEF TypeOK, InHand, BodyOf, Reply, Thread

LEMMA AnswerServed ==
    ASSUME TypeOK, NEW w \in Workers, InHand(worker[w]), Answering(worker[w]), ServeAnswer(w)
    PROVE  LET a == worker[w].answer IN
           /\ worker' \in [Workers -> Thread] /\ served' \in [Workers -> Serving \cup {None}]
           /\ worker'[w] = Idle
           /\ \A v \in Workers \ {w} : worker'[v] = worker[v] /\ served'[v] = served[v]
           /\ served'[w].how # "fresh"
           /\ served'[w].how = "revalidated" =>
                a.status = 304 /\ served'[w].ver = worker[w].held /\ served'[w].current = a.ver
<1> DEFINE a == worker[w].answer
           how == IF a.status = 200 THEN "fetched" ELSE "revalidated"
<1>1. a.ver \in Nat /\ a.status \in {200, 304} /\ BodyOf(w) \in Nat
      /\ (a.status = 304 => BodyOf(w) = worker[w].held)
  BY Replied
<1>2. Serve(w, BodyOf(w), how, a.ver)
  BY DEF ServeAnswer
<1>3. how \in {"fresh", "fetched", "revalidated"}
  OBVIOUS
<1> HIDE DEF how
<1>4. /\ worker' \in [Workers -> Thread] /\ served' \in [Workers -> Serving \cup {None}]
      /\ worker'[w] = Idle
      /\ served'[w] = [ver |-> BodyOf(w), how |-> how, current |-> a.ver]
      /\ \A v \in Workers \ {w} : worker'[v] = worker[v] /\ served'[v] = served[v]
  BY <1>1, <1>2, <1>3, Served
<1>5. served'[w].how = how /\ served'[w].ver = BodyOf(w) /\ served'[w].current = a.ver
  BY <1>4
<1>6. QED
  BY <1>1, <1>4, <1>5 DEF how

(* The thread of one step, and the others. *)
LEMMA Moved ==
    ASSUME TypeOK, NEW w \in Workers, NEW next \in Thread, worker' = [worker EXCEPT ![w] = next]
    PROVE  /\ worker' \in [Workers -> Thread] /\ worker'[w] = next
           /\ \A v \in Workers \ {w} : worker'[v] = worker[v]
  BY DEF TypeOK

-----------------------------------------------------------------------------
(* An answer that was served leaves nobody at work at a key that one fetch
   was at, and what it leaves elsewhere is what was there. *)
LEMMA AfterServing ==
    ASSUME Inv, NEW w \in Workers, Answering(worker[w]), ServeAnswer(w),
           UNCHANGED <<originVars, shared, alone>>
    PROVE  /\ worker' \in [Workers -> Thread] /\ served' \in [Workers -> Serving \cup {None}]
           /\ \A v \in Workers : InHand(worker[v])' /\ PublicIn(worker[v])'
           /\ forward => \A v \in Workers : BehindIn(worker[v])'
           /\ OnlyPublicBytes'
           /\ OneAtWork'
           /\ alone => \A v \in Workers : worker'[v].pc = "idle"
<1> DEFINE a == worker[w].answer
<1>1. /\ worker' \in [Workers -> Thread] /\ served' \in [Workers -> Serving \cup {None}]
      /\ worker'[w] = Idle
      /\ \A v \in Workers \ {w} : worker'[v] = worker[v] /\ served'[v] = served[v]
      /\ served'[w].how # "fresh"
      /\ served'[w].how = "revalidated" =>
            a.status = 304 /\ served'[w].ver = worker[w].held /\ served'[w].current = a.ver
  BY AnswerServed DEF Inv
<1>2. /\ \A v \in Workers : InHand(worker[v])' /\ PublicIn(worker[v])'
      /\ forward => \A v \in Workers : BehindIn(worker[v])'
  BY <1>1 DEF Inv, Public, Behind, InHand, PublicIn, BehindIn, Answering, Idle, originVars
<1>3. OnlyPublicBytes'
  <2>1. worker[w].held \in shared \/ a.status # 304
    BY DEF Inv, Public, PublicIn, InHand
  <2>2. QED
    BY <1>1, <2>1 DEF Inv, Public, OnlyPublicBytes
<1>4. OneAtWork'
  BY <1>1 DEF Inv, OneAtWork, Idle
<1>5. alone => \A v \in Workers : worker'[v].pc = "idle"
  BY <1>1 DEF Inv, OneAtWork, Idle, Answering
<1>6. QED
  BY <1>1, <1>2, <1>3, <1>4, <1>5

(* So there are the two files to look at. *)
LEMMA ServingKeeps ==
    ASSUME Inv, NEW w \in Workers, Answering(worker[w]), ServeAnswer(w),
           UNCHANGED <<originVars, shared, alone>>,
           meta' \in Entry \cup {None}, body' \in shared \cup {None},
           withdrawn' \in BOOLEAN, torn' \in BOOLEAN, stuck' \in BOOLEAN,
           forward /\ body' # None => body' <= version,
           forward /\ meta' # None => meta'.ver <= version,
           alone /\ meta' # None /\ body' # None =>
                (forward => body' >= meta'.ver) /\ (~torn' => body' = meta'.ver),
           alone /\ withdrawn' /\ ~stuck' => meta' = None
    PROVE  Inv'
<1>1. /\ worker' \in [Workers -> Thread] /\ served' \in [Workers -> Serving \cup {None}]
      /\ \A v \in Workers : InHand(worker[v])' /\ PublicIn(worker[v])'
      /\ forward => \A v \in Workers : BehindIn(worker[v])'
      /\ OnlyPublicBytes'
      /\ OneAtWork'
      /\ alone => \A v \in Workers : worker'[v].pc = "idle"
  BY AfterServing
<1>2. TypeOK'
  BY <1>1 DEF Inv, TypeOK, originVars
<1>3. Public' /\ Behind'
  BY <1>1 DEF Public, Behind, originVars
<1>4. Order' /\ Matched'
  BY <1>1 DEF Order, InOrder, Matched, MatchedIn, HalfPut, Answering, originVars
<1>5. TakenBack'
  BY <1>1 DEF TakenBack
<1>6. QED
  BY <1>1, <1>2, <1>3, <1>4, <1>5 DEF Inv

LEMMA AnsweredKeeps ==
    ASSUME Inv, NEW w \in Workers, worker[w].pc = "asking",
           NEW a \in Reply, a.ver = version,
           a.status = 304 => worker[w].held # None /\ worker[w].entry.ver = version,
           Answered(w, a)
    PROVE  Inv'
<1> DEFINE held == IF a.status = 304 THEN worker[w].held ELSE None
           next == [worker[w] EXCEPT !.pc = "answered", !.answer = a, !.entry = None,
                                     !.held = held]
<1>1. /\ next \in Thread
      /\ next.pc = "answered" /\ next.answer = a /\ next.held = held
  <2>1. worker[w] \in Thread /\ held \in Nat \cup {None}
    BY DEF Inv, TypeOK, Thread
  <2> HIDE DEF held
  <2>2. QED
    BY <2>1 DEF Thread, Steps
<1>2. worker' = [worker EXCEPT ![w] = next]
  BY DEF Answered
<1> HIDE DEF next
<1>3. /\ worker' \in [Workers -> Thread] /\ worker'[w] = next
      /\ \A v \in Workers \ {w} : worker'[v] = worker[v]
  BY <1>1, <1>2, Moved DEF Inv
<1>4. /\ UNCHANGED <<originVars, fileVars, served, withdrawn, alone, mishaps>>
      /\ shared' = IF Eligible(a.policy) THEN shared \cup {a.ver} ELSE shared
  BY DEF Answered
<1>5. TypeOK'
  BY <1>3, <1>4 DEF Inv, TypeOK, originVars, fileVars, mishaps
<1>6. \A v \in Workers : InHand(worker[v])'
  BY <1>1, <1>3 DEF Inv, InHand, Answering
<1>7. Public'
  BY <1>1, <1>3, <1>4 DEF Inv, Public, PublicIn, OnlyPublicBytes, Answering, fileVars
<1>8. Behind'
  BY <1>1, <1>3, <1>4 DEF Inv, TypeOK, Behind, BehindIn, Answering, originVars, fileVars
<1>9. OneAtWork'
  BY <1>1, <1>3, <1>4 DEF Inv, OneAtWork
<1>10. Order'
  <2> SUFFICES ASSUME alone, forward
               PROVE  /\ \A v \in Workers : InOrder(worker[v])'
                      /\ (meta # None /\ body # None => body >= meta.ver)'
    BY <1>4 DEF Order, originVars
  <2>1. meta # None /\ body # None => body >= meta.ver
    BY DEF Inv, Order
  <2>2. ASSUME a.status = 304 PROVE held = a.ver
    <3>1. worker[w].held \in Nat /\ worker[w].entry \in Entry
      BY <2>2 DEF Inv, TypeOK, Thread, InHand
    <3>2. worker[w].held >= version /\ worker[w].held <= version
      BY <2>2 DEF Inv, Order, InOrder, Behind, BehindIn
    <3>3. QED
      BY <2>2, <3>1, <3>2 DEF Inv, TypeOK
  <2>3. InOrder(worker[w])'
    <3>1. meta # None => a.ver >= meta.ver
      BY DEF Inv, TypeOK, Behind, Entry
    <3>2. QED
      BY <1>1, <1>3, <1>4, <2>2, <3>1 DEF InOrder, Answering, fileVars
  <2>4. \A v \in Workers \ {w} : InOrder(worker[v])'
    BY <1>3, <1>4 DEF Inv, Order, InOrder, Answering, fileVars
  <2>5. QED
    BY <1>3, <1>4, <2>1, <2>3, <2>4 DEF fileVars
<1>11. Matched'
  <2> SUFFICES ASSUME alone
               PROVE  Matched'
    BY <1>4 DEF Matched
  <2>1. \A v \in Workers \ {w} : worker[v].pc = "idle"
    BY DEF Inv, OneAtWork
  <2>2. \A v \in Workers : ~HalfPut(v) /\ ~HalfPut(v)'
    BY <1>1, <1>3, <2>1 DEF HalfPut
  <2>3. ASSUME ~torn PROVE MatchedIn(worker[w])'
    BY <1>1, <1>3, <1>4, <2>3 DEF Inv, Matched, MatchedIn, Answering, fileVars
  <2>4. \A v \in Workers \ {w} : MatchedIn(worker[v])'
    BY <1>3, <2>1 DEF MatchedIn, Answering
  <2>5. QED
    BY <1>3, <1>4, <2>2, <2>3, <2>4 DEF Inv, Matched, fileVars, mishaps
<1>12. TakenBack'
  BY <1>1, <1>3, <1>4 DEF Inv, TakenBack, fileVars, mishaps
<1>13. QED
  BY <1>5, <1>6, <1>7, <1>8, <1>9, <1>10, <1>11, <1>12 DEF Inv

LEMMA RequestKeeps == ASSUME Inv, NEW w \in Workers, Request(w) PROVE Inv'
<1> USE DEF Inv, Request, Idle, originVars, fileVars, mishaps
<1>1. TypeOK'
  BY DEF TypeOK, Thread, Serving, Entry, Steps, Wants
<1>2. \A v \in Workers : InHand(worker[v])'
  BY DEF TypeOK, InHand, Answering, Thread
<1>3. Public'
  BY DEF TypeOK, InHand, Public, PublicIn, OnlyPublicBytes, Answering, Thread
<1>4. Behind'
  BY DEF TypeOK, InHand, Behind, BehindIn, Answering, Thread
<1>5. OneAtWork'
  BY DEF TypeOK, OneAtWork, Thread
<1>6. Order'
  BY DEF TypeOK, InHand, Behind, BehindIn, OneAtWork, Order, InOrder, Answering, Thread
<1>7. Matched'
  BY DEF TypeOK, InHand, OneAtWork, Matched, MatchedIn, HalfPut, Answering, Thread
<1>8. TakenBack'
  BY DEF TypeOK, InHand, OneAtWork, TakenBack, Thread
<1>9. QED
  BY <1>1, <1>2, <1>3, <1>4, <1>5, <1>6, <1>7, <1>8

LEMMA ReadMetaKeeps == ASSUME Inv, NEW w \in Workers, ReadMeta(w) PROVE Inv'
<1> USE DEF Inv, ReadMeta, originVars, fileVars, mishaps
<1>1. TypeOK'
  BY DEF TypeOK, Thread, Serving, Entry, Steps, Wants
<1>2. \A v \in Workers : InHand(worker[v])'
  BY DEF TypeOK, InHand, Answering, Thread
<1>3. Public'
  BY DEF TypeOK, InHand, Public, PublicIn, OnlyPublicBytes, Answering, Thread
<1>4. Behind'
  BY DEF TypeOK, InHand, Behind, BehindIn, Answering, Thread
<1>5. OneAtWork'
  BY DEF TypeOK, OneAtWork, Thread
<1>6. Order'
  BY DEF TypeOK, InHand, Behind, BehindIn, OneAtWork, Order, InOrder, Answering, Thread
<1>7. Matched'
  BY DEF TypeOK, InHand, OneAtWork, Matched, MatchedIn, HalfPut, Answering, Thread
<1>8. TakenBack'
  BY DEF TypeOK, InHand, OneAtWork, TakenBack, Thread
<1>9. QED
  BY <1>1, <1>2, <1>3, <1>4, <1>5, <1>6, <1>7, <1>8

LEMMA ServeFreshKeeps == ASSUME Inv, NEW w \in Workers, ServeFresh(w) PROVE Inv'
<1> USE DEF Inv, ServeFresh, Serve, Idle, originVars, fileVars, mishaps
<1>1. TypeOK'
  BY DEF TypeOK, Thread, Serving, Entry, Steps, Wants
<1>2. \A v \in Workers : InHand(worker[v])'
  BY DEF TypeOK, InHand, Answering, Thread
<1>3. Public'
  BY DEF TypeOK, InHand, Public, PublicIn, OnlyPublicBytes, Answering, Thread
<1>4. Behind'
  BY DEF TypeOK, InHand, Behind, BehindIn, Answering, Thread
<1>5. OneAtWork'
  BY DEF TypeOK, OneAtWork, Thread
<1>6. Order'
  BY DEF TypeOK, InHand, Behind, BehindIn, OneAtWork, Order, InOrder, Answering, Thread
<1>7. Matched'
  BY DEF TypeOK, InHand, OneAtWork, Matched, MatchedIn, HalfPut, Answering, Thread
<1>8. TakenBack'
  BY DEF TypeOK, InHand, OneAtWork, TakenBack, Thread
<1>9. QED
  BY <1>1, <1>2, <1>3, <1>4, <1>5, <1>6, <1>7, <1>8

LEMMA RevalidateKeeps == ASSUME Inv, NEW w \in Workers, Revalidate(w) PROVE Inv'
<1> USE DEF Inv, Revalidate, originVars, fileVars, mishaps
<1>1. TypeOK'
  <2>1. worker[w] \in Thread /\ body \in Nat
    BY DEF TypeOK
  <2>2. [worker[w] EXCEPT !.pc = "asking", !.held = body] \in Thread
    BY <2>1 DEF Thread, Steps
  <2>3. worker' \in [Workers -> Thread]
    BY <2>2 DEF TypeOK
  <2>4. QED
    BY <2>3 DEF TypeOK
<1>2. \A v \in Workers : InHand(worker[v])'
  BY DEF TypeOK, InHand, Answering, Thread
<1>3. Public'
  BY DEF TypeOK, InHand, Public, PublicIn, OnlyPublicBytes, Answering, Thread
<1>4. Behind'
  BY DEF TypeOK, InHand, Behind, BehindIn, Answering, Thread
<1>5. OneAtWork'
  BY DEF TypeOK, OneAtWork, Thread
<1>6. Order'
  BY DEF TypeOK, InHand, Behind, BehindIn, OneAtWork, Order, InOrder, Answering, Thread
<1>7. Matched'
  BY DEF TypeOK, InHand, OneAtWork, Matched, MatchedIn, HalfPut, Answering, Thread
<1>8. TakenBack'
  BY DEF TypeOK, InHand, OneAtWork, TakenBack, Thread
<1>9. QED
  BY <1>1, <1>2, <1>3, <1>4, <1>5, <1>6, <1>7, <1>8

LEMMA MissKeeps == ASSUME Inv, NEW w \in Workers, Miss(w) PROVE Inv'
<1> USE DEF Inv, Miss, originVars, fileVars, mishaps
<1>1. TypeOK'
  BY DEF TypeOK, Thread, Serving, Entry, Steps, Wants
<1>2. \A v \in Workers : InHand(worker[v])'
  BY DEF TypeOK, InHand, Answering, Thread
<1>3. Public'
  BY DEF TypeOK, InHand, Public, PublicIn, OnlyPublicBytes, Answering, Thread
<1>4. Behind'
  BY DEF TypeOK, InHand, Behind, BehindIn, Answering, Thread
<1>5. OneAtWork'
  BY DEF TypeOK, OneAtWork, Thread
<1>6. Order'
  BY DEF TypeOK, InHand, Behind, BehindIn, OneAtWork, Order, InOrder, Answering, Thread
<1>7. Matched'
  BY DEF TypeOK, InHand, OneAtWork, Matched, MatchedIn, HalfPut, Answering, Thread
<1>8. TakenBack'
  BY DEF TypeOK, InHand, OneAtWork, TakenBack, Thread
<1>9. QED
  BY <1>1, <1>2, <1>3, <1>4, <1>5, <1>6, <1>7, <1>8

LEMMA FetchFailsKeeps == ASSUME Inv, NEW w \in Workers, FetchFails(w) PROVE Inv'
<1> USE DEF Inv, FetchFails, Idle, originVars, fileVars, mishaps
<1>1. TypeOK'
  BY DEF TypeOK, Thread, Serving, Entry, Steps, Wants
<1>2. \A v \in Workers : InHand(worker[v])'
  BY DEF TypeOK, InHand, Answering, Thread
<1>3. Public'
  BY DEF TypeOK, InHand, Public, PublicIn, OnlyPublicBytes, Answering, Thread
<1>4. Behind'
  BY DEF TypeOK, InHand, Behind, BehindIn, Answering, Thread
<1>5. OneAtWork'
  BY DEF TypeOK, OneAtWork, Thread
<1>6. Order'
  BY DEF TypeOK, InHand, Behind, BehindIn, OneAtWork, Order, InOrder, Answering, Thread
<1>7. Matched'
  BY DEF TypeOK, InHand, OneAtWork, Matched, MatchedIn, HalfPut, Answering, Thread
<1>8. TakenBack'
  BY DEF TypeOK, InHand, OneAtWork, TakenBack, Thread
<1>9. QED
  BY <1>1, <1>2, <1>3, <1>4, <1>5, <1>6, <1>7, <1>8

LEMMA ForgetMetaKeeps == ASSUME Inv, NEW w \in Workers, ForgetMeta(w) PROVE Inv'
<1> USE DEF Inv, ForgetMeta, GoTo, MayStore, originVars, fileVars, mishaps
<1>1. TypeOK'
  BY DEF TypeOK, Thread, Serving, Entry, Steps, Wants
<1>2. \A v \in Workers : InHand(worker[v])'
  BY DEF TypeOK, InHand, Answering, Thread
<1>3. Public'
  BY DEF TypeOK, InHand, Public, PublicIn, OnlyPublicBytes, Answering, Thread
<1>4. Behind'
  BY DEF TypeOK, InHand, Behind, BehindIn, Answering, Thread
<1>5. OneAtWork'
  BY DEF TypeOK, OneAtWork, Thread
<1>6. Order'
  BY DEF TypeOK, InHand, Behind, BehindIn, OneAtWork, Order, InOrder, Answering, Thread
<1>7. Matched'
  BY DEF TypeOK, InHand, OneAtWork, Matched, MatchedIn, HalfPut, Answering, Thread
<1>8. TakenBack'
  <2> SUFFICES ASSUME alone, ~stuck'
               PROVE  meta' = None /\ \A v \in Workers : worker'[v].pc # "looking"
    BY DEF TakenBack
  <2>1. meta' = None
    OBVIOUS
  <2>2. \A v \in Workers : worker'[v].pc # "looking"
    BY DEF TypeOK, OneAtWork, Thread
  <2>3. QED
    BY <2>1, <2>2
<1>9. QED
  BY <1>1, <1>2, <1>3, <1>4, <1>5, <1>6, <1>7, <1>8

LEMMA AnswerWholeKeeps == ASSUME Inv, NEW w \in Workers, AnswerWhole(w) PROVE Inv'
<1> DEFINE a == Answer(200, version, policy)
<1>1. a \in Reply /\ a.ver = version /\ a.status = 200
  BY DEF Inv, TypeOK, Reply, Answer
<1>2. worker[w].pc = "asking" /\ Answered(w, a)
  BY DEF AnswerWhole
<1> HIDE DEF a
<1>3. QED
  BY <1>1, <1>2, AnsweredKeeps

LEMMA AnswerUnchangedKeeps == ASSUME Inv, NEW w \in Workers, AnswerUnchanged(w) PROVE Inv'
<1>1. PICK life \in {policy.life, worker[w].entry.life} :
        Answered(w, Answer(304, version, [policy EXCEPT !.life = life, !.tag = TRUE]))
  BY DEF AnswerUnchanged
<1> DEFINE a == Answer(304, version, [policy EXCEPT !.life = life, !.tag = TRUE])
<1>2. worker[w].pc = "asking" /\ worker[w].held # None /\ worker[w].entry.ver = version
  BY DEF AnswerUnchanged, Unchanged
<1>3. life \in Nat
  BY <1>2 DEF Inv, InHand, TypeOK, Policy, Entry
<1>4. a \in Reply /\ a.ver = version
  BY <1>3 DEF Inv, TypeOK, Reply, Policy, Answer
<1> HIDE DEF a
<1>5. QED
  BY <1>1, <1>2, <1>4, AnsweredKeeps DEF a

LEMMA PutMetaKeeps == ASSUME Inv, NEW w \in Workers, PutMeta(w) PROVE Inv'
<1> USE DEF Inv, PutMeta, originVars
<1>1. /\ meta' = worker[w].entry /\ meta' \in Entry /\ Answering(worker[w])
      /\ meta'.ver = worker[w].answer.ver
      /\ forward => meta'.ver <= version
  BY DEF InHand, Answering, Behind, BehindIn
<1>2. alone /\ forward /\ body # None => body >= meta'.ver
  BY <1>1 DEF Order, InOrder, InHand, TypeOK, Entry
<1>3. alone /\ ~torn' /\ body # None => body = meta'.ver
  <2>1. CASE torn
    BY <1>1, <2>1 DEF Matched
  <2>2. CASE ~torn
    BY <1>1, <2>2 DEF Matched, MatchedIn
  <2>3. QED
    BY <2>1, <2>2 DEF TypeOK
<1>4. QED
  BY <1>1, <1>2, <1>3, ServingKeeps DEF Public, Behind, TypeOK

LEMMA PutFailsKeeps == ASSUME Inv, NEW w \in Workers, PutFails(w) PROVE Inv'
<1>1. alone => \A v \in Workers : ~HalfPut(v)
  BY DEF Inv, OneAtWork, HalfPut, PutFails
<1>2. QED
  BY <1>1, ServingKeeps
  DEF Inv, TypeOK, PutFails, Answering, Public, Behind, Order, Matched, TakenBack, originVars, fileVars, mishaps

LEMMA PutMetaFailsKeeps == ASSUME Inv, NEW w \in Workers, PutMetaFails(w) PROVE Inv'
<1> USE DEF Inv, PutMetaFails, originVars
<1>1. Answering(worker[w])
  BY DEF Answering
<1>2. alone /\ forward /\ meta # None /\ body' # None => body' >= meta.ver
  BY DEF Order
<1>3. alone /\ ~torn' /\ meta # None /\ body' # None => body' = meta.ver
  <2> SUFFICES ASSUME alone, ~torn, ~HalfPut(w), meta # None, body' = body, body # None
               PROVE  body = meta.ver
    OBVIOUS
  <2>1. \A v \in Workers : ~HalfPut(v)
    BY DEF OneAtWork, HalfPut
  <2>2. QED
    BY <2>1 DEF Matched
<1>4. QED
  BY <1>1, <1>2, <1>3, ServingKeeps DEF TypeOK, Public, Behind, TakenBack

LEMMA RelayKeeps == ASSUME Inv, NEW w \in Workers, Relay(w) PROVE Inv'
<1>1. alone => \A v \in Workers : ~HalfPut(v)
  BY DEF Inv, OneAtWork, HalfPut, Relay
<1>2. QED
  BY <1>1, ServingKeeps
  DEF Inv, TypeOK, Relay, Answering, Public, Behind, Order, Matched, TakenBack, originVars, fileVars, mishaps

LEMMA ForgetBodyKeeps == ASSUME Inv, NEW w \in Workers, ForgetBody(w) PROVE Inv'
<1>1. alone => \A v \in Workers : ~HalfPut(v)
  BY DEF Inv, OneAtWork, HalfPut, ForgetBody
<1>2. QED
  BY <1>1, ServingKeeps
  DEF Inv, TypeOK, ForgetBody, Answering, Public, Behind, Order, Matched, TakenBack, originVars, mishaps

LEMMA PutBodyKeeps == ASSUME Inv, NEW w \in Workers, PutBody(w) PROVE Inv'
<1> DEFINE a == worker[w].answer
           next == [worker[w] EXCEPT !.pc = "putting", !.entry = EntryFor(a)]
<1>1. /\ Answering(worker[w]) /\ worker[w].pc = "answered" /\ Eligible(a.policy)
      /\ body' = BodyOf(w)
      /\ worker' = [worker EXCEPT ![w] = next]
      /\ UNCHANGED <<originVars, meta, served, shared, withdrawn, alone, mishaps>>
  BY DEF PutBody, MayStore, Answering
<1>2. /\ a \in Reply /\ a.ver \in Nat /\ a.status \in {200, 304}
      /\ BodyOf(w) \in Nat
      /\ a.status = 200 => BodyOf(w) = a.ver
      /\ a.status = 304 => BodyOf(w) = worker[w].held
  BY <1>1, Replied DEF Inv
<1>3. EntryFor(a) \in Entry /\ EntryFor(a).ver = a.ver
  BY <1>2 DEF Inv, TypeOK, EntryFor, Entry, Reply, Policy
<1>4. /\ next \in Thread
      /\ next.pc = "putting" /\ next.answer = a /\ next.held = worker[w].held
      /\ next.entry = EntryFor(a)
  BY <1>3 DEF Inv, TypeOK, Thread, Steps
<1> HIDE DEF next
<1>5. /\ worker' \in [Workers -> Thread] /\ worker'[w] = next
      /\ \A v \in Workers \ {w} : worker'[v] = worker[v]
  BY <1>1, <1>4, Moved DEF Inv
<1>6. /\ BodyOf(w) \in shared /\ (forward => BodyOf(w) <= version)
      /\ worker[w].held \in shared \cup {None}
      /\ a.status = 304 => worker[w].held # None
      /\ a.status = 200 => a.ver \in shared
      /\ forward => a.ver <= version
  BY <1>1, <1>2 DEF Inv, InHand, Public, PublicIn, Behind, BehindIn
<1>7. TypeOK'
  BY <1>1, <1>2, <1>5 DEF Inv, TypeOK, originVars, mishaps
<1>8. \A v \in Workers : InHand(worker[v])'
  BY <1>1, <1>2, <1>3, <1>4, <1>5, <1>6 DEF Inv, InHand, Answering
<1>9. Public'
  BY <1>1, <1>2, <1>4, <1>5, <1>6 DEF Inv, Public, PublicIn, OnlyPublicBytes, Answering
<1>10. Behind'
  BY <1>1, <1>2, <1>4, <1>5, <1>6 DEF Inv, Behind, BehindIn, Answering, originVars
<1>11. OneAtWork'
  BY <1>1, <1>4, <1>5 DEF Inv, OneAtWork
<1>12. alone => \A v \in Workers \ {w} : worker[v].pc = "idle"
  BY <1>1 DEF Inv, OneAtWork
<1>13. Order'
  <2> SUFFICES ASSUME alone, forward
               PROVE  /\ \A v \in Workers : InOrder(worker[v])'
                      /\ (meta # None /\ body # None => body >= meta.ver)'
    BY <1>1 DEF Order, originVars
  <2>1. /\ meta # None => a.ver >= meta.ver
        /\ a.status = 304 => worker[w].held = a.ver
    BY <1>1 DEF Inv, Order, InOrder
  <2>2. body' = a.ver
    BY <1>1, <1>2, <2>1
  <2>3. InOrder(worker[w])'
    BY <1>1, <1>4, <1>5, <2>1, <2>2 DEF InOrder, Answering
  <2>4. \A v \in Workers \ {w} : InOrder(worker[v])'
    BY <1>5, <1>12 DEF InOrder, Answering
  <2>5. QED
    BY <1>1, <1>5, <2>1, <2>2, <2>3, <2>4
<1>14. Matched'
  <2> SUFFICES ASSUME alone
               PROVE  Matched'
    BY <1>1 DEF Matched
  <2>1. \A v \in Workers \ {w} : worker'[v].pc = "idle"
    BY <1>5, <1>12
  <2>2. a.status = 200 => body' = a.ver
    BY <1>1, <1>2
  <2>3. \A v \in Workers : HalfPut(v)' => v = w /\ a.status = 200
    BY <1>4, <1>5, <2>1 DEF HalfPut
  <2>4. ASSUME ~torn, a.status = 304
        PROVE  (meta # None => meta.ver = a.ver) /\ worker[w].held = a.ver /\ body' = a.ver
    BY <1>1, <1>2, <2>4 DEF Inv, Matched, MatchedIn
  <2>5. ASSUME ~torn PROVE \A v \in Workers : MatchedIn(worker[v])'
    <3>1. MatchedIn(worker[w])'
      BY <1>1, <1>2, <1>4, <1>5, <2>2, <2>4, <2>5 DEF MatchedIn, Answering
    <3>2. \A v \in Workers \ {w} : MatchedIn(worker[v])'
      BY <2>1 DEF MatchedIn, Answering
    <3>3. QED
      BY <3>1, <3>2
  <2>6. (\A v \in Workers : ~HalfPut(v)') => a.status = 304
    BY <1>2, <1>4, <1>5 DEF HalfPut
  <2>7. QED
    BY <1>1, <1>4, <1>5, <2>2, <2>3, <2>4, <2>5, <2>6 DEF Matched, mishaps
<1>15. TakenBack'
  BY <1>1, <1>4, <1>5 DEF Inv, TakenBack, mishaps
<1>16. QED
  BY <1>7, <1>8, <1>9, <1>10, <1>11, <1>13, <1>14, <1>15 DEF Inv

-----------------------------------------------------------------------------
LEMMA InitInv == Init => Inv
<1> SUFFICES ASSUME Init PROVE Inv
  OBVIOUS
<1> USE DEF Init, Idle
<1>1. TypeOK
  BY CacheAssumption DEF TypeOK, Thread, Policy, Steps, Wants
<1>2. \A w \in Workers : InHand(worker[w])
  BY DEF InHand, Answering
<1>3. Public /\ Behind /\ OneAtWork /\ TakenBack
  BY DEF Public, PublicIn, OnlyPublicBytes, Behind, BehindIn, OneAtWork, TakenBack, Answering
<1>4. Order /\ Matched
  BY DEF Order, InOrder, Matched, MatchedIn, HalfPut, Answering
<1>5. QED
  BY <1>1, <1>2, <1>3, <1>4 DEF Inv

(* The origin, the clock, a sweep and a crash. *)
LEMMA WorldKeeps == ASSUME Inv, World PROVE Inv'
<1>1. CASE OriginChanges
  <2>1. /\ version' \in Nat /\ policy' \in Policy /\ forward' \in BOOLEAN
        /\ forward' => forward /\ version' >= version
    <3>1. policy' \in Policy /\ version' \in Nat
      BY <1>1, CacheAssumption DEF OriginChanges, Policy
    <3>2. forward' = (forward /\ version' >= version)
      BY <1>1 DEF OriginChanges
    <3>3. QED
      BY <3>1, <3>2
  <2> USE <1>1, <2>1 DEF Inv, OriginChanges, fileVars, mishaps
  <2>2. TypeOK'
    BY DEF TypeOK
  <2>3. (\A w \in Workers : InHand(worker[w])) /\ UNCHANGED worker
    OBVIOUS
  <2>4. Public' /\ OneAtWork' /\ TakenBack'
    BY DEF Public, PublicIn, OnlyPublicBytes, OneAtWork, TakenBack
  <2>5. Behind'
    BY DEF TypeOK, InHand, Thread, Entry, Reply, Behind, BehindIn, Answering
  <2>6. Order' /\ Matched'
    BY DEF Order, InOrder, Matched, MatchedIn, HalfPut
  <2>7. QED
    BY <2>2, <2>3, <2>4, <2>5, <2>6 DEF InHand
<1>2. CASE Tick
  BY <1>2 DEF Inv, Tick, TypeOK, InHand, Public, PublicIn, OnlyPublicBytes, Behind, BehindIn, OneAtWork,
     Order, InOrder, Matched, MatchedIn, HalfPut, TakenBack, fileVars, mishaps
<1>3. CASE Sweep
  <2> USE <1>3 DEF Inv, Sweep, originVars, mishaps
  <2>1. TypeOK' /\ (\A w \in Workers : InHand(worker[w])) /\ UNCHANGED worker
    BY DEF TypeOK
  <2>2. Public' /\ OneAtWork' /\ TakenBack'
    BY DEF Public, PublicIn, OnlyPublicBytes, OneAtWork, TakenBack
  <2>3. Behind'
    BY DEF Behind, BehindIn
  <2>4. Order' /\ Matched'
    BY DEF Order, InOrder, Matched, MatchedIn, HalfPut
  <2>5. QED
    BY <2>1, <2>2, <2>3, <2>4 DEF InHand
<1>4. CASE Crash
  <2> USE <1>4 DEF Inv, Crash, originVars, fileVars
  <2>1. Idle \in Thread
    BY DEF Idle, Thread, Steps, Wants
  <2>2. TypeOK' /\ \A w \in Workers : worker'[w] = Idle /\ served'[w] = None
    BY <2>1 DEF TypeOK
  <2>3. \A w \in Workers : InHand(worker[w])'
    BY <2>2 DEF InHand, Idle, Answering
  <2>4. Public' /\ OneAtWork' /\ TakenBack'
    BY <2>2 DEF Public, PublicIn, OnlyPublicBytes, OneAtWork, TakenBack, Idle, Answering
  <2>5. Behind'
    BY <2>2 DEF Behind, BehindIn, Idle, Answering
  <2>6. Order' /\ Matched'
    BY <2>2 DEF Order, InOrder, Matched, MatchedIn, HalfPut, Idle, Answering
  <2>7. QED
    BY <2>2, <2>3, <2>4, <2>5, <2>6
<1>5. QED
  BY <1>1, <1>2, <1>3, <1>4 DEF World

LEMMA InvStep == Inv /\ [Next]_vars => Inv'
<1> SUFFICES ASSUME Inv, [Next]_vars PROVE Inv'
  OBVIOUS
<1>1. CASE World
  BY <1>1, WorldKeeps
<1>2. ASSUME NEW w \in Workers, Fetch(w) PROVE Inv'
  BY <1>2, RequestKeeps, ReadMetaKeeps, ServeFreshKeeps, RevalidateKeeps, MissKeeps, AnswerWholeKeeps,
     AnswerUnchangedKeeps, FetchFailsKeeps, PutBodyKeeps, PutMetaKeeps, PutFailsKeeps, PutMetaFailsKeeps,
     RelayKeeps, ForgetMetaKeeps, ForgetBodyKeeps DEF Fetch
<1>3. CASE UNCHANGED vars
  BY <1>3 DEF Inv, vars, TypeOK, InHand, Public, PublicIn, OnlyPublicBytes, Behind, BehindIn, OneAtWork,
     Order, InOrder, Matched, MatchedIn, HalfPut, TakenBack, originVars, fileVars, mishaps
<1>4. QED
  BY <1>1, <1>2, <1>3 DEF Next

-----------------------------------------------------------------------------
(* The inductive invariant: the public bytes, which need nobody to be alone,
   and the order of the versions, which does. *)
THEOREM Invariance == Spec => []Inv
  BY InitInv, InvStep, PTL DEF Spec

(* httpcache.rs, eligible(): what is served out of the cache is a version that
   the origin said was everybody's, for any number of workers that overwrite
   each other's files. *)
THEOREM PublicBytes == Spec => []OnlyPublicBytes
<1>1. Inv => OnlyPublicBytes
  BY DEF Inv, Public
<1>2. QED
  BY <1>1, Invariance, PTL

(* httpcache.rs, put() and get(): the body is never older than the metadata
   next to it while the origin goes forward, and of its version while no put
   broke off half-way, through sweeps, crashes and writes that fail. *)
THEOREM NotOlder == Spec => []BodyNotOlder
<1>1. Inv => BodyNotOlder
  BY DEF Inv, Order, Matched, BodyNotOlder
<1>2. QED
  BY <1>1, Invariance, PTL

(* upstream.rs, call(): a 304 is answered with the version that it confirmed,
   though the origin go back to what it had, unless a put broke off. *)
THEOREM Current == Spec => ConfirmedIsServed
<1> DEFINE Confirmed ==
        \A w \in Workers :
            /\ alone /\ (forward \/ ~torn)
            /\ served'[w] \notin {None, served[w]} /\ served'[w].how = "revalidated"
            => served'[w].ver = served'[w].current
<1>1. ASSUME Inv, NEW w \in Workers, Answering(worker[w]), ServeAnswer(w) PROVE Confirmed
  <2> SUFFICES ASSUME NEW v \in Workers, alone, forward \/ ~torn,
                      served'[v] \notin {None, served[v]}, served'[v].how = "revalidated"
               PROVE  served'[v].ver = served'[v].current
    OBVIOUS
  <2>1. /\ v = w
        /\ worker[w].answer.status = 304
        /\ served'[w].ver = worker[w].held /\ served'[w].current = worker[w].answer.ver
    BY <1>1, AnswerServed DEF Inv
  <2>2. worker[w].held = worker[w].answer.ver
    BY <1>1, <2>1 DEF Inv, Order, InOrder, Matched, MatchedIn
  <2>3. QED
    BY <2>1, <2>2
<1>2. ASSUME Inv, NEW w \in Workers, Fetch(w) PROVE Confirmed
  <2>1. CASE ServeFresh(w)
    BY <1>2, <2>1 DEF Inv, TypeOK, ServeFresh, Serve
  <2>2. CASE PutMeta(w) \/ PutFails(w) \/ PutMetaFails(w) \/ Relay(w) \/ ForgetBody(w)
    BY <1>1, <1>2, <2>2 DEF PutMeta, PutFails, PutMetaFails, Relay, ForgetBody, Answering
  <2>3. CASE Request(w)
    BY <1>2, <2>3 DEF Inv, TypeOK, Request
  <2>4. CASE \/ ReadMeta(w) \/ Revalidate(w) \/ Miss(w) \/ AnswerWhole(w) \/ AnswerUnchanged(w)
             \/ FetchFails(w) \/ PutBody(w) \/ ForgetMeta(w)
    <3>1. UNCHANGED served
      BY <2>4 DEF ReadMeta, Revalidate, Miss, AnswerWhole, AnswerUnchanged, Answered, FetchFails, PutBody,
         ForgetMeta
    <3>2. QED
      BY <3>1
  <2>5. QED
    BY <1>2, <2>1, <2>2, <2>3, <2>4 DEF Fetch
<1>3. ASSUME Inv, World PROVE Confirmed
  BY <1>3 DEF World, OriginChanges, Tick, Sweep, Crash
<1>4. Inv /\ [Next]_vars => [Confirmed]_vars
  BY <1>2, <1>3 DEF Next
<1>5. QED
  BY <1>4, Invariance, PTL DEF Spec, ConfirmedIsServed

(* upstream.rs, refreshed_headers() and forget(): permission that the origin
   took back is not used from then on. *)
THEOREM AskedAgain == Spec => WithdrawnIsAsked
<1>1. Inv => \A w \in Workers : alone /\ withdrawn /\ ~stuck => ~ServeFresh(w)
  BY DEF Inv, TakenBack, ServeFresh
<1>2. Inv /\ [Next]_vars => [\A w \in Workers : alone /\ withdrawn /\ ~stuck => ~ServeFresh(w)]_vars
  BY <1>1
<1>3. QED
  BY <1>2, Invariance, PTL DEF Spec, WithdrawnIsAsked
=============================================================================

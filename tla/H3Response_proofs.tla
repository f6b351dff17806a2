-------------------------- MODULE H3Response_proofs --------------------------
(***************************************************************************)
(* The response path of the QUIC front end, proved for every number of     *)
(* streams and workers, every limit and every set of sizes, and for        *)
(* clients that send one request on a stream.                              *)
(***************************************************************************)
EXTENDS MCH3Response, FiniteSetTheorems, FunctionTheorems, SequenceTheorems, NaturalsInduction, TLAPS

(* The one request of a stream, and what is queued of its answer. *)
Job(s) == <<s, 1>>

Queue(s) == pending[s].chunks \o results

Busy(w) == worker[w].pc # "idle"

Results ==
    [job : Jobs, kind : {"Full", "Head", "Chunk", "End"}, from : 0 .. BodyBytes, to : 0 .. BodyBytes]

Chunks == [job : Jobs, from : 0 .. BodyBytes, to : 0 .. BodyBytes]

WorkerStates ==
    [pc : {"idle", "answering", "streaming", "parked"}, job : Jobs \cup {None},
     want : Sizes \cup {0}, seen : 0 .. ProgressWrap - 1, woken : BOOLEAN]

Pendings ==
    [job : Jobs \cup {None}, headers : BOOLEAN, chunks : Seq(Chunks), offset : Nat, complete : BOOLEAN]

TypeOK ==
    /\ conn \in BOOLEAN
    /\ requests \in [Streams -> 0 .. MaxRequests]
    /\ open \in SUBSET Streams /\ uploads \in SUBSET Streams
    /\ jobs \in Seq(Jobs)
    /\ worker \in [Workers -> WorkerStates]
    /\ \A w \in Workers :
        /\ Busy(w) => worker[w].job \in Jobs
        /\ worker[w].pc = "parked" => worker[w].want \in Sizes
    /\ results \in Seq(Results)
    /\ budget \in [Jobs -> BudgetState]
    /\ pending \in [Streams -> Pendings]
    /\ produced \in [Jobs -> 0 .. BodyBytes]
    /\ ended \in SUBSET Jobs
    /\ wire = [s \in Streams |-> wire[s]]
    /\ declared \in [Streams -> (0 .. BodyBytes) \cup {None}]
    /\ stage \in [Streams -> {"silent", "headers", "fin"}]

(* A job is in one place: not asked for, queued, with one worker, or done. *)
WorkInv ==
    /\ \A i, k \in DOMAIN jobs : jobs[i] = jobs[k] => i = k
    /\ \A i \in DOMAIN jobs : requests[StreamOf(jobs[i])] = 1 /\ jobs[i] \notin ended
    /\ \A w \in Workers : Busy(w) =>
        /\ requests[StreamOf(worker[w].job)] = 1
        /\ worker[w].job \notin ended
        /\ \A i \in DOMAIN jobs : jobs[i] # worker[w].job
    /\ \A v, w \in Workers : Busy(v) /\ Busy(w) /\ worker[v].job = worker[w].job => v = w

(* Nothing was handed over, drained or sent of an answer. *)
Untouched(s) ==
    /\ produced[Job(s)] = 0
    /\ Job(s) \notin ended
    /\ \A i \in DOMAIN results : results[i].job # Job(s)
    /\ ~HasPending(s)
    /\ stage[s] = "silent"

(* No worker has begun to answer. *)
Fresh(s) ==
    \/ requests[s] = 0
    \/ \E i \in DOMAIN jobs : jobs[i] = Job(s)
    \/ \E w \in Workers : worker[w].pc = "answering" /\ worker[w].job = Job(s)

FreshInv == \A s \in Streams : Fresh(s) => Untouched(s)

(* A Full or a Head is the first of its answer, a Full the only one, and an
   End the last; a Chunk is never empty. *)
ResultInv ==
    \A i \in DOMAIN results :
        /\ results[i].kind \in {"Full", "Head"} =>
            /\ results[i].from = 0
            /\ \A k \in DOMAIN results : k < i => results[k].job # results[i].job
            /\ ~HasPending(StreamOf(results[i].job))
            /\ stage[StreamOf(results[i].job)] = "silent"
        /\ results[i].kind = "Head" => results[i].to = 0
        /\ results[i].kind = "Chunk" => results[i].from < results[i].to
        /\ results[i].kind = "Full" =>
            /\ results[i].job \in ended
            /\ \A k \in DOMAIN results : results[k].job = results[i].job => k = i
        /\ results[i].kind = "End" =>
            /\ results[i].job \in ended
            /\ results[i].from = results[i].to
            /\ \A k \in DOMAIN results : k > i => results[k].job # results[i].job

PendingInv(s) ==
    /\ ~HasPending(s) => pending[s] = NoPending
    /\ HasPending(s) =>
        /\ conn
        /\ pending[s].job = Job(s)
        /\ pending[s].headers <=> stage[s] = "headers"
        /\ stage[s] # "fin"
        /\ ~pending[s].headers => pending[s].offset = 0
    /\ \A i \in DOMAIN pending[s].chunks :
        /\ pending[s].chunks[i].job = Job(s)
        /\ pending[s].chunks[i].from < pending[s].chunks[i].to
    /\ pending[s].chunks = <<>> => pending[s].offset = 0
    /\ pending[s].chunks # <<>> => pending[s].offset < Size(pending[s].chunks[1])
    /\ pending[s].complete =>
        /\ Job(s) \in ended
        /\ \A i \in DOMAIN results : results[i].job # Job(s)

(* The first n bytes of an answer, as quiche has them. *)
Opening(s, n) == [i \in 1 .. n |-> <<Job(s), i>>]

WireInv(s) ==
    /\ Len(wire[s]) \in 0 .. produced[Job(s)]
    /\ wire[s] = Opening(s, Len(wire[s]))
    /\ stage[s] = "silent" => Len(wire[s]) = 0 /\ declared[s] = None
    /\ stage[s] = "fin" => Job(s) \in ended /\ Len(wire[s]) = produced[Job(s)]
    /\ declared[s] # None => Job(s) \in ended /\ declared[s] = produced[Job(s)]

(* The pieces of j in q lie side by side, from the byte after lo to hi. *)
Tiles(q, j, lo, hi) ==
    /\ \A i \in DOMAIN q : q[i].job = j =>
            q[i].from \in lo .. hi /\ q[i].to \in q[i].from .. hi
    /\ \A i, k \in DOMAIN q : i < k /\ q[i].job = j /\ q[k].job = j => q[i].to <= q[k].from
    /\ \A b \in lo + 1 .. hi : \E i \in DOMAIN q : q[i].job = j /\ q[i].from < b /\ b <= q[i].to

(* Past the limit there is one. *)
OnePiece(q, j, lo, hi) ==
    hi - lo > Limit => \E i \in DOMAIN q : q[i].job = j /\ q[i].from = lo /\ q[i].to = hi

(* An open budget counts them, and then nothing is missing before them. *)
Flows(s, lo) ==
    /\ Tiles(Queue(s), Job(s), lo, produced[Job(s)])
    /\ OnePiece(Queue(s), Job(s), lo, produced[Job(s)])
    /\ ~budget[Job(s)].closed =>
        budget[Job(s)].outstanding = produced[Job(s)] - lo /\ lo <= Len(wire[s])
    /\ HasPending(s) => Len(wire[s]) = lo + pending[s].offset

FlowInv(s) == \E lo \in 0 .. produced[Job(s)] : Flows(s, lo)

(* The worker is ahead of the client by the limit or by one piece. *)
AheadInv(s) == \E n \in Sizes \cup {Limit} : produced[Job(s)] - Len(wire[s]) <= n

IInv ==
    /\ MaxRequests = 1
    /\ TypeOK
    /\ WorkInv
    /\ FreshInv
    /\ ResultInv
    /\ \A s \in Streams : PendingInv(s) /\ WireInv(s) /\ FlowInv(s) /\ AheadInv(s)

-----------------------------------------------------------------------------
(* Streams and their jobs. *)

LEMMA JobOfStream ==
    ASSUME NEW s, NEW t
    PROVE  StreamOf(Job(s)) = s /\ (Job(s) = Job(t) => s = t)
  BY DEF Job, StreamOf

LEMMA JobIsJob ==
    ASSUME MaxRequests = 1, NEW s \in Streams
    PROVE  Job(s) \in Jobs
  BY DEF Job, Jobs

LEMMA StreamOfJob ==
    ASSUME MaxRequests = 1, NEW j \in Jobs
    PROVE  StreamOf(j) \in Streams /\ j = Job(StreamOf(j))
<1>1. PICK s \in Streams, n \in 1 .. MaxRequests : j = <<s, n>>
  BY DEF Jobs
<1>2. n = 1
  BY <1>1
<1>3. QED
  BY <1>1, <1>2 DEF StreamOf, Job

LEMMA NoneIsNoJob == None \notin Jobs /\ None \notin 0 .. BodyBytes
  BY PipelineAssumption

-----------------------------------------------------------------------------
(* Sequences. *)

LEMMA SeqWider ==
    ASSUME NEW S, NEW T, S \subseteq T, NEW s \in Seq(S)
    PROVE  s \in Seq(T)
<1>1. s \in [1 .. Len(s) -> S] /\ Len(s) \in Nat
  BY LenProperties
<1>2. s \in [1 .. Len(s) -> T]
  BY <1>1
<1> DEFINE n == Len(s)
<1>3. s \in UNION {[1 .. m -> T] : m \in Nat}
  <2>1. n \in Nat /\ s \in [1 .. n -> T]
    BY <1>1, <1>2
  <2> HIDE DEF n
  <2>2. QED
    BY <2>1
<1>4. QED
  BY <1>3, SeqDef

(* Where the elements of two sequences are when they are joined. *)
LEMMA Joined ==
    ASSUME NEW S, NEW T, NEW a \in Seq(S), NEW b \in Seq(T)
    PROVE  /\ DOMAIN (a \o b) = 1 .. Len(a) + Len(b)
           /\ Len(a) \in Nat /\ Len(b) \in Nat
           /\ \A i \in 1 .. Len(a) : (a \o b)[i] = a[i]
           /\ \A i \in 1 .. Len(b) : (a \o b)[Len(a) + i] = b[i]
<1>1. a \in Seq(S \cup T) /\ b \in Seq(S \cup T)
  BY SeqWider
<1>2. QED
  BY <1>1, ConcatProperties

LEMMA Shorter ==
    ASSUME NEW S, NEW q \in Seq(S), q # <<>>
    PROVE  /\ Len(q) \in Nat \ {0} /\ DOMAIN q = 1 .. Len(q)
           /\ Head(q) = q[1] /\ Head(q) \in S
           /\ Tail(q) \in Seq(S) /\ Len(Tail(q)) = Len(q) - 1
           /\ DOMAIN Tail(q) = 1 .. Len(q) - 1
           /\ \A i \in 1 .. Len(q) - 1 : Tail(q)[i] = q[i + 1]
  OBVIOUS

LEMMA Longer ==
    ASSUME NEW S, NEW q \in Seq(S), NEW e \in S
    PROVE  /\ Len(q) \in Nat /\ DOMAIN q = 1 .. Len(q)
           /\ Append(q, e) \in Seq(S) /\ Len(Append(q, e)) = Len(q) + 1
           /\ DOMAIN Append(q, e) = 1 .. Len(q) + 1
           /\ Append(q, e)[Len(q) + 1] = e
           /\ \A i \in 1 .. Len(q) : Append(q, e)[i] = q[i]
  OBVIOUS

LEMMA NoPieces == ASSUME NEW S PROVE <<>> \in Seq(S) /\ Len(<<>>) = 0 /\ DOMAIN <<>> = 1 .. 0
  OBVIOUS

LEMMA NotEmpty ==
    ASSUME NEW S, NEW q \in Seq(S)
    PROVE  q = <<>> <=> Len(q) = 0
  OBVIOUS

-----------------------------------------------------------------------------
(* Tiles. *)

LEMMA TilesSame ==
    ASSUME NEW q, NEW r, NEW j, NEW lo, NEW hi, Tiles(q, j, lo, hi), OnePiece(q, j, lo, hi),
           DOMAIN r = DOMAIN q,
           \A i \in DOMAIN q : r[i].job = q[i].job /\ r[i].from = q[i].from /\ r[i].to = q[i].to
    PROVE  Tiles(r, j, lo, hi) /\ OnePiece(r, j, lo, hi)
<1>1. \A i \in DOMAIN r : r[i].job = j =>
            r[i].from \in lo .. hi /\ r[i].to \in r[i].from .. hi
  BY DEF Tiles
<1>2. \A i, k \in DOMAIN r : i < k /\ r[i].job = j /\ r[k].job = j => r[i].to <= r[k].from
  BY DEF Tiles
<1>3. \A b \in lo + 1 .. hi : \E i \in DOMAIN r : r[i].job = j /\ r[i].from < b /\ b <= r[i].to
  BY DEF Tiles
<1>4. OnePiece(r, j, lo, hi)
  BY DEF OnePiece
<1>5. QED
  BY <1>1, <1>2, <1>3, <1>4 DEF Tiles

(* A piece of another answer joins the queue. *)
LEMMA TilesBeside ==
    ASSUME NEW q, NEW r, NEW j, NEW lo, NEW hi, Tiles(q, j, lo, hi), OnePiece(q, j, lo, hi),
           NEW n \in Nat, DOMAIN q = 1 .. n, DOMAIN r = 1 .. n + 1,
           \A i \in 1 .. n : r[i] = q[i], r[n + 1].job # j
    PROVE  Tiles(r, j, lo, hi) /\ OnePiece(r, j, lo, hi)
<1>1. \A i \in DOMAIN r : r[i].job = j => i \in DOMAIN q /\ r[i] = q[i]
  OBVIOUS
<1>2. \A i \in DOMAIN q : i \in DOMAIN r /\ r[i] = q[i]
  OBVIOUS
<1>3. \A i \in DOMAIN r : r[i].job = j =>
            r[i].from \in lo .. hi /\ r[i].to \in r[i].from .. hi
  BY <1>1 DEF Tiles
<1>4. \A i, k \in DOMAIN r : i < k /\ r[i].job = j /\ r[k].job = j => r[i].to <= r[k].from
  BY <1>1 DEF Tiles
<1>5. \A b \in lo + 1 .. hi : \E i \in DOMAIN r : r[i].job = j /\ r[i].from < b /\ b <= r[i].to
  BY <1>2 DEF Tiles
<1>6. OnePiece(r, j, lo, hi)
  BY <1>2 DEF OnePiece
<1>7. QED
  BY <1>3, <1>4, <1>5, <1>6 DEF Tiles

(* The next piece of this one does, when there is room for it. *)
LEMMA TilesGrow ==
    ASSUME NEW q, NEW r, NEW j, NEW lo \in Nat, NEW hi \in Nat, lo <= hi,
           Tiles(q, j, lo, hi), OnePiece(q, j, lo, hi),
           NEW n \in Nat, DOMAIN q = 1 .. n, DOMAIN r = 1 .. n + 1,
           \A i \in 1 .. n : r[i] = q[i],
           NEW k \in Nat, r[n + 1].job = j, r[n + 1].from = hi, r[n + 1].to = hi + k,
           k = 0 \/ hi = lo \/ hi + k - lo <= Limit
    PROVE  Tiles(r, j, lo, hi + k) /\ OnePiece(r, j, lo, hi + k)
<1>1. \A i \in DOMAIN r : i = n + 1 \/ (i \in DOMAIN q /\ r[i] = q[i])
  OBVIOUS
<1>2. \A i \in DOMAIN q : i \in DOMAIN r /\ r[i] = q[i]
  OBVIOUS
<1>3. \A i \in DOMAIN r : r[i].job = j =>
            r[i].from \in lo .. hi + k /\ r[i].to \in r[i].from .. hi + k
  <2> SUFFICES ASSUME NEW i \in DOMAIN r, r[i].job = j
               PROVE  r[i].from \in lo .. hi + k /\ r[i].to \in r[i].from .. hi + k
    OBVIOUS
  <2>1. CASE i = n + 1
    BY <2>1
  <2>2. CASE i \in DOMAIN q /\ r[i] = q[i]
    <3>1. q[i].from \in lo .. hi /\ q[i].to \in q[i].from .. hi
      BY <2>2 DEF Tiles
    <3>2. hi <= hi + k
      OBVIOUS
    <3>3. QED
      BY <2>2, <3>1, <3>2
  <2>3. QED
    BY <1>1, <2>1, <2>2
<1>4. \A i, m \in DOMAIN r : i < m /\ r[i].job = j /\ r[m].job = j => r[i].to <= r[m].from
  <2> SUFFICES ASSUME NEW i \in DOMAIN r, NEW m \in DOMAIN r, i < m, r[i].job = j, r[m].job = j
               PROVE  r[i].to <= r[m].from
    OBVIOUS
  <2>1. i \in DOMAIN q /\ r[i] = q[i]
    BY <1>1
  <2>2. CASE m = n + 1
    BY <2>1, <2>2 DEF Tiles
  <2>3. CASE m \in DOMAIN q /\ r[m] = q[m]
    BY <2>1, <2>3 DEF Tiles
  <2>4. QED
    BY <1>1, <2>2, <2>3
<1>5. \A b \in lo + 1 .. hi + k : \E i \in DOMAIN r : r[i].job = j /\ r[i].from < b /\ b <= r[i].to
  <2> SUFFICES ASSUME NEW b \in lo + 1 .. hi + k
               PROVE  \E i \in DOMAIN r : r[i].job = j /\ r[i].from < b /\ b <= r[i].to
    OBVIOUS
  <2>1. CASE b <= hi
    <3>1. b \in lo + 1 .. hi
      BY <2>1
    <3>2. PICK i \in DOMAIN q : q[i].job = j /\ q[i].from < b /\ b <= q[i].to
      BY <3>1 DEF Tiles
    <3>3. QED
      BY <1>2, <3>2
  <2>2. CASE hi < b
    BY <2>2
  <2>3. QED
    BY <2>1, <2>2
<1>6. OnePiece(r, j, lo, hi + k)
  <2>1. CASE k = 0
    BY <1>2, <2>1 DEF OnePiece
  <2>2. CASE hi = lo
    BY <2>2 DEF OnePiece
  <2>3. CASE hi + k - lo <= Limit
    BY <2>3, BudgetAssumption DEF OnePiece
  <2>4. QED
    BY <2>1, <2>2, <2>3
<1>7. QED
  BY <1>3, <1>4, <1>5, <1>6 DEF Tiles

(* A piece of another answer, or an empty one, leaves the queue. *)
LEMMA TilesWithout ==
    ASSUME NEW q, NEW r, NEW j, NEW lo \in Nat, NEW hi \in Nat,
           Tiles(q, j, lo, hi), OnePiece(q, j, lo, hi),
           NEW n \in Nat, DOMAIN q = 1 .. n, NEW m \in 1 .. n, DOMAIN r = 1 .. n - 1,
           \A i \in 1 .. m - 1 : r[i] = q[i],
           \A i \in m .. n - 1 : r[i] = q[i + 1],
           q[m].job # j \/ q[m].from = q[m].to,
           {q[m].from, q[m].to} \subseteq Int
    PROVE  Tiles(r, j, lo, hi) /\ OnePiece(r, j, lo, hi)
<1> DEFINE At(i) == IF i < m THEN i ELSE i + 1
<1>1. \A i \in DOMAIN r : At(i) \in DOMAIN q /\ r[i] = q[At(i)]
  OBVIOUS
<1>2. \A i, k \in DOMAIN r : i < k => At(i) < At(k)
  OBVIOUS
<1>3. \A k \in DOMAIN q : k # m => \E i \in DOMAIN r : r[i] = q[k]
  <2> SUFFICES ASSUME NEW k \in 1 .. n, k # m PROVE \E i \in 1 .. n - 1 : r[i] = q[k]
    OBVIOUS
  <2>1. CASE k < m
    BY <2>1
  <2>2. CASE k > m
    <3>1. k - 1 \in m .. n - 1 /\ k - 1 \in 1 .. n - 1 /\ (k - 1) + 1 = k
      BY <2>2
    <3>2. QED
      BY <3>1
  <2>3. QED
    BY <2>1, <2>2
<1> HIDE DEF At
<1>4. \A i \in DOMAIN r : r[i].job = j =>
            r[i].from \in lo .. hi /\ r[i].to \in r[i].from .. hi
  BY <1>1 DEF Tiles
<1>5. \A i, k \in DOMAIN r : i < k /\ r[i].job = j /\ r[k].job = j => r[i].to <= r[k].from
  BY <1>1, <1>2 DEF Tiles
<1>6. \A b \in lo + 1 .. hi : \E i \in DOMAIN r : r[i].job = j /\ r[i].from < b /\ b <= r[i].to
  <2> SUFFICES ASSUME NEW b \in lo + 1 .. hi
               PROVE  \E i \in DOMAIN r : r[i].job = j /\ r[i].from < b /\ b <= r[i].to
    OBVIOUS
  <2>1. PICK k \in DOMAIN q : q[k].job = j /\ q[k].from < b /\ b <= q[k].to
    BY DEF Tiles
  <2>2. k # m
    BY <2>1
  <2>3. PICK i \in DOMAIN r : r[i] = q[k]
    BY <1>3, <2>2
  <2>4. QED
    BY <2>1, <2>3
<1>7. OnePiece(r, j, lo, hi)
  <2> SUFFICES ASSUME hi - lo > Limit
               PROVE  \E i \in DOMAIN r : r[i].job = j /\ r[i].from = lo /\ r[i].to = hi
    BY DEF OnePiece
  <2>1. PICK k \in DOMAIN q : q[k].job = j /\ q[k].from = lo /\ q[k].to = hi
    BY DEF OnePiece
  <2>2. k # m
    BY <2>1, BudgetAssumption
  <2>3. PICK i \in DOMAIN r : r[i] = q[k]
    BY <1>3, <2>2
  <2>4. QED
    BY <2>1, <2>3
<1>8. QED
  BY <1>4, <1>5, <1>6, <1>7 DEF Tiles

(* The front of the queue goes, as far as a piece of this answer. *)
LEMMA TilesAfter ==
    ASSUME NEW q, NEW r, NEW j, NEW lo \in Nat, NEW hi \in Nat,
           Tiles(q, j, lo, hi), OnePiece(q, j, lo, hi),
           NEW n \in Nat, DOMAIN q = 1 .. n, NEW m \in 1 .. n, DOMAIN r = 1 .. n - m,
           \A i \in 1 .. n - m : r[i] = q[m + i],
           q[m].job = j, {q[m].from, q[m].to} \subseteq Int
    PROVE  /\ q[m].to \in lo .. hi
           /\ Tiles(r, j, q[m].to, hi) /\ OnePiece(r, j, q[m].to, hi)
<1> DEFINE mid == q[m].to
<1>1. mid \in lo .. hi /\ q[m].from >= lo /\ q[m].from <= mid
  BY DEF Tiles
<1>2. \A i \in DOMAIN r : m + i \in DOMAIN q /\ m < m + i /\ r[i] = q[m + i]
  OBVIOUS
<1>3. \A k \in DOMAIN q : k > m => \E i \in DOMAIN r : r[i] = q[k]
  <2> SUFFICES ASSUME NEW k \in 1 .. n, k > m PROVE \E i \in 1 .. n - m : r[i] = q[k]
    OBVIOUS
  <2>1. k - m \in 1 .. n - m /\ m + (k - m) = k
    OBVIOUS
  <2>2. QED
    BY <2>1
<1>4. \A i \in DOMAIN r : r[i].job = j =>
            r[i].from \in mid .. hi /\ r[i].to \in r[i].from .. hi
  <2> SUFFICES ASSUME NEW i \in DOMAIN r, r[i].job = j
               PROVE  r[i].from \in mid .. hi /\ r[i].to \in r[i].from .. hi
    OBVIOUS
  <2>1. m + i \in DOMAIN q /\ m \in DOMAIN q /\ m < m + i /\ r[i] = q[m + i]
    BY <1>2
  <2>2. mid <= r[i].from
    BY <2>1 DEF Tiles
  <2>3. r[i].from \in lo .. hi /\ r[i].to \in r[i].from .. hi
    BY <2>1 DEF Tiles
  <2>4. QED
    BY <1>1, <2>2, <2>3
<1>5. \A i, k \in DOMAIN r : i < k /\ r[i].job = j /\ r[k].job = j => r[i].to <= r[k].from
  <2> SUFFICES ASSUME NEW i \in DOMAIN r, NEW k \in DOMAIN r, i < k, r[i].job = j, r[k].job = j
               PROVE  r[i].to <= r[k].from
    OBVIOUS
  <2>1. m + i < m + k
    OBVIOUS
  <2>2. QED
    BY <1>2, <2>1 DEF Tiles
<1> HIDE DEF mid
<1>6. \A k \in DOMAIN q : k <= m /\ q[k].job = j => q[k].to <= mid
  <2> SUFFICES ASSUME NEW k \in DOMAIN q, k <= m, q[k].job = j PROVE q[k].to <= mid
    OBVIOUS
  <2>1. CASE k = m
    BY <1>1, <2>1 DEF mid
  <2>2. CASE k # m
    <3>1. k < m
      BY <2>2
    <3>2. q[k].to <= q[m].from
      BY <3>1 DEF Tiles
    <3>3. q[k].from \in lo .. hi /\ q[k].to \in q[k].from .. hi
      BY DEF Tiles
    <3>4. QED
      BY <1>1, <3>2, <3>3 DEF mid
  <2>3. QED
    BY <2>1, <2>2
<1>7. ASSUME NEW b \in mid + 1 .. hi
      PROVE  \E i \in DOMAIN r : r[i].job = j /\ r[i].from < b /\ b <= r[i].to
  <2>1. PICK k \in DOMAIN q : q[k].job = j /\ q[k].from < b /\ b <= q[k].to
    BY <1>1, <1>7 DEF Tiles
  <2>2. k > m
    <3>1. q[k].to \in lo .. hi
      BY <2>1 DEF Tiles
    <3>2. ~(q[k].to <= mid)
      BY <1>1, <1>7, <2>1, <3>1
    <3>3. QED
      BY <1>6, <2>1, <3>2
  <2>3. PICK i \in DOMAIN r : r[i] = q[k]
    BY <1>3, <2>2
  <2>4. QED
    BY <2>1, <2>3
<1>8. OnePiece(r, j, mid, hi)
  <2> SUFFICES ASSUME hi - mid > Limit
               PROVE  \E i \in DOMAIN r : r[i].job = j /\ r[i].from = mid /\ r[i].to = hi
    BY DEF OnePiece
  <2>1. PICK k \in DOMAIN q : q[k].job = j /\ q[k].from = lo /\ q[k].to = hi
    BY <1>1, BudgetAssumption DEF OnePiece
  <2>2. k > m
    BY <1>1, <1>6, <2>1, BudgetAssumption
  <2>3. mid = lo
    <3>1. mid <= q[k].from
      BY <2>1, <2>2 DEF Tiles, mid
    <3>2. QED
      BY <1>1, <2>1, <3>1
  <2>4. PICK i \in DOMAIN r : r[i] = q[k]
    BY <1>3, <2>2
  <2>5. QED
    BY <2>1, <2>3, <2>4
<1>9. QED
  BY <1>1, <1>4, <1>5, <1>7, <1>8 DEF Tiles, mid

(* The oldest piece of an answer begins where its tiles do. *)
LEMMA TilesFirst ==
    ASSUME NEW q, NEW j, NEW lo \in Nat, NEW hi \in Nat, Tiles(q, j, lo, hi),
           NEW n \in Nat, DOMAIN q = 1 .. n, n > 0,
           q[1].job = j, q[1].from < q[1].to
    PROVE  q[1].from = lo /\ q[1].to \in lo + 1 .. hi
<1>1. q[1].from \in lo .. hi /\ q[1].to \in q[1].from .. hi
  BY DEF Tiles
<1>2. q[1].to \in lo + 1 .. hi /\ lo + 1 \in lo + 1 .. hi
  BY <1>1
<1>3. PICK i \in DOMAIN q : q[i].job = j /\ q[i].from < lo + 1 /\ lo + 1 <= q[i].to
  BY <1>2 DEF Tiles
<1>4. i = 1
  <2> SUFFICES ASSUME i # 1 PROVE FALSE
    OBVIOUS
  <2>1. 1 < i
    OBVIOUS
  <2>2. q[1].to <= q[i].from
    BY <1>3, <2>1 DEF Tiles
  <2>3. q[i].from \in lo .. hi
    BY <1>3 DEF Tiles
  <2>4. QED
    BY <1>2, <1>3, <2>2, <2>3
<1>5. QED
  BY <1>1, <1>2, <1>3, <1>4

(* When none is left there is nothing to cover. *)
LEMMA TilesGone ==
    ASSUME NEW q, NEW j, NEW lo \in Nat, NEW hi \in Nat, lo <= hi, Tiles(q, j, lo, hi),
           \A i \in DOMAIN q : q[i].job # j
    PROVE  lo = hi
<1> SUFFICES ASSUME lo # hi PROVE FALSE
  OBVIOUS
<1>1. hi \in lo + 1 .. hi
  OBVIOUS
<1>2. QED
  BY <1>1 DEF Tiles

(* One that is alone covers all there is. *)
LEMMA TilesAlone ==
    ASSUME NEW q, NEW j, NEW lo \in Nat, NEW hi \in Nat, lo <= hi, Tiles(q, j, lo, hi),
           NEW m \in DOMAIN q, q[m].job = j, \A i \in DOMAIN q : q[i].job = j => i = m
    PROVE  q[m].to = hi
<1>1. q[m].from \in lo .. hi /\ q[m].to \in q[m].from .. hi
  BY DEF Tiles
<1> SUFFICES ASSUME q[m].to # hi PROVE FALSE
  OBVIOUS
<1>2. hi \in lo + 1 .. hi /\ q[m].to < hi
  BY <1>1
<1>3. PICK i \in DOMAIN q : q[i].job = j /\ q[i].from < hi /\ hi <= q[i].to
  BY <1>2 DEF Tiles
<1>4. QED
  BY <1>1, <1>2, <1>3

(* As many bytes wait in the tiles of an answer as they are long. *)
LEMMA TilesCount ==
    ASSUME NEW q, NEW j, NEW lo \in Nat, NEW hi \in Nat, lo <= hi, hi <= BodyBytes,
           Tiles(q, j, lo, hi), NEW n \in Nat, DOMAIN q = 1 .. n
    PROVE  Cardinality({p \in BytesOf(q) : q[p[1]].job = j}) = hi - lo
<1> DEFINE bytes == {p \in BytesOf(q) : q[p[1]].job = j}
<1>1. \A p \in bytes : /\ p = <<p[1], p[2]>> /\ p[1] \in DOMAIN q /\ q[p[1]].job = j
                       /\ q[p[1]].from < p[2] /\ p[2] <= q[p[1]].to /\ p[2] \in Nat
  BY DEF BytesOf
<1>2. \A i \in DOMAIN q, b \in 1 .. BodyBytes :
            q[i].job = j /\ q[i].from < b /\ b <= q[i].to => <<i, b>> \in bytes
  BY DEF BytesOf
<1> HIDE DEF bytes
<1>3. \A i \in DOMAIN q : q[i].job = j => q[i].from \in lo .. hi /\ q[i].to \in q[i].from .. hi
  BY DEF Tiles
<1>4. \A p \in bytes : p[2] \in lo + 1 .. hi
  <2> SUFFICES ASSUME NEW p \in bytes PROVE p[2] \in lo + 1 .. hi
    OBVIOUS
  <2> DEFINE c == q[p[1]]
             b == p[2]
  <2>1. c.from \in lo .. hi /\ c.to \in c.from .. hi /\ c.from < b /\ b <= c.to /\ b \in Nat
    BY <1>1, <1>3
  <2> HIDE DEF b, c
  <2>2. b \in lo + 1 .. hi
    BY <2>1
  <2>3. QED
    BY <2>2 DEF b
<1>5. \A b \in lo + 1 .. hi : \E p \in bytes : p[2] = b
  <2> SUFFICES ASSUME NEW b \in lo + 1 .. hi PROVE \E p \in bytes : p[2] = b
    OBVIOUS
  <2>1. PICK i \in DOMAIN q : q[i].job = j /\ q[i].from < b /\ b <= q[i].to
    BY DEF Tiles
  <2>2. b \in 1 .. BodyBytes
    BY BodyAssumption
  <2>3. <<i, b>> \in bytes
    BY <1>2, <2>1, <2>2
  <2>4. <<i, b>>[2] = b
    OBVIOUS
  <2>5. QED
    BY <2>3, <2>4
<1>6. ASSUME NEW p \in bytes, NEW r \in bytes, p[1] < r[1] PROVE p[2] < r[2]
  <2> DEFINE c == q[p[1]]
             d == q[r[1]]
             x == p[2]
             y == r[2]
  <2>1. c.to <= d.from
    BY <1>1, <1>6 DEF Tiles
  <2>2. x <= c.to /\ d.from < y /\ x \in Nat /\ y \in Nat /\ c.to \in Int /\ d.from \in Int
    BY <1>1, <1>3
  <2> HIDE DEF c, d, x, y
  <2>3. x < y
    BY <2>1, <2>2
  <2>4. QED
    BY <2>3 DEF x, y
<1>7. \A p, r \in bytes : p[2] = r[2] => p = r
  <2> SUFFICES ASSUME NEW p \in bytes, NEW r \in bytes, p[2] = r[2] PROVE p = r
    OBVIOUS
  <2>1. p[1] \in 1 .. n /\ r[1] \in 1 .. n /\ p[2] \in Nat
    BY <1>1
  <2>2. ~(p[1] < r[1]) /\ ~(r[1] < p[1])
    BY <1>6, <2>1
  <2>3. p[1] = r[1]
    BY <2>1, <2>2
  <2>4. QED
    BY <1>1, <2>3
<1>8. Cardinality(bytes) = hi - lo
  <2> DEFINE f == [p \in bytes |-> p[2]]
             T == lo + 1 .. hi
  <2>1. f \in Bijection(bytes, T)
    <3>1. f \in [bytes -> T]
      BY <1>4
    <3>2. \A p, r \in bytes : f[p] = f[r] => p = r
      BY <1>7
    <3>3. \A b \in T : \E p \in bytes : f[p] = b
      BY <1>5
    <3> HIDE DEF f, T
    <3>4. \/ f \in Injection(bytes, T)
          \/ f \in [bytes -> T] /\ \A p, r \in bytes : f[p] = f[r] => p = r
      BY <3>1, <3>2
    <3>5. \/ f \in Surjection(bytes, T)
          \/ f \in [bytes -> T] /\ \A b \in T : \E p \in bytes : f[p] = b
      BY <3>1, <3>3
    <3> HIDE DEF bytes
    <3>6. QED
      BY <3>4, <3>5, Fun_IsBij
  <2>2. IsFiniteSet(T) /\ Cardinality(T) = hi - lo
    <3>1. lo + 1 \in Int /\ hi \in Int
      OBVIOUS
    <3>2. /\ IsFiniteSet(T)
          /\ Cardinality(T) = IF lo + 1 > hi THEN 0 ELSE hi - (lo + 1) + 1
      BY <3>1, FS_Interval
    <3>3. (IF lo + 1 > hi THEN 0 ELSE hi - (lo + 1) + 1) = hi - lo
      OBVIOUS
    <3>4. QED
      BY <3>2, <3>3
  <2>3. ExistsBijection(T, bytes)
    <3>1. ExistsBijection(bytes, T)
      BY <2>1 DEF ExistsBijection
    <3>2. QED
      BY <3>1, Fun_ExistsBijSymmetric
  <2>4. QED
    BY <2>2, <2>3, FS_Bijection
<1>9. QED
  BY <1>8 DEF bytes

(* More than the limit waits only as one piece. *)
LEMMA TilesLone ==
    ASSUME NEW q, NEW j, NEW lo \in Nat, NEW hi \in Nat,
           Tiles(q, j, lo, hi), OnePiece(q, j, lo, hi), hi - lo > Limit,
           NEW n \in Nat, DOMAIN q = 1 .. n
    PROVE  \E m \in DOMAIN q : \A p \in BytesOf(q) : q[p[1]].job = j => p[1] = m
<1>1. PICK m \in DOMAIN q : q[m].job = j /\ q[m].from = lo /\ q[m].to = hi
  BY DEF OnePiece
<1>2. ASSUME NEW p \in BytesOf(q), q[p[1]].job = j PROVE p[1] = m
  <2> DEFINE i == p[1]
             b == p[2]
  <2>1. /\ i \in 1 .. n /\ q[i].job = j /\ b \in Nat
        /\ q[i].from < b /\ b <= q[i].to
    BY <1>2 DEF BytesOf
  <2> HIDE DEF i, b
  <2>2. q[i].from \in lo .. hi /\ q[i].to \in q[i].from .. hi
    BY <2>1 DEF Tiles
  <2>3. ~(i < m)
    <3> SUFFICES ASSUME i < m PROVE FALSE
      OBVIOUS
    <3>1. q[i].to <= q[m].from
      BY <1>1, <2>1 DEF Tiles
    <3>2. QED
      BY <1>1, <2>1, <2>2, <3>1
  <2>4. ~(m < i)
    <3> SUFFICES ASSUME m < i PROVE FALSE
      OBVIOUS
    <3>1. q[m].to <= q[i].from
      BY <1>1, <2>1 DEF Tiles
    <3>2. QED
      BY <1>1, <2>1, <2>2, <3>1
  <2>5. i = m
    BY <2>1, <2>3, <2>4
  <2>6. QED
    BY <2>5 DEF i
<1>3. QED
  BY <1>1, <1>2

-----------------------------------------------------------------------------
(* The queue of a stream. *)

LEMMA QueueShape ==
    ASSUME NEW c \in Seq(Chunks), NEW r \in Seq(Results)
    PROVE  /\ DOMAIN c = 1 .. Len(c) /\ DOMAIN r = 1 .. Len(r)
           /\ Len(c) \in Nat /\ Len(r) \in Nat
           /\ DOMAIN (c \o r) = 1 .. Len(c) + Len(r)
           /\ \A i \in 1 .. Len(c) : (c \o r)[i] = c[i]
           /\ \A i \in 1 .. Len(r) : (c \o r)[Len(c) + i] = r[i]
           /\ \A i \in 1 .. Len(c) : c[i] \in Chunks
           /\ \A i \in 1 .. Len(r) : r[i] \in Results
<1>1. DOMAIN c = 1 .. Len(c) /\ DOMAIN r = 1 .. Len(r)
  OBVIOUS
<1>2. /\ \A i \in 1 .. Len(c) : c[i] \in Chunks
      /\ \A i \in 1 .. Len(r) : r[i] \in Results
  OBVIOUS
<1>3. QED
  BY <1>1, <1>2, Joined

(* With nothing of it at the event loop, the queue is the channel. *)
LEMMA QueueOfNone ==
    ASSUME NEW r \in Seq(Results)
    PROVE  <<>> \o r = r
  BY NoPieces, ConcatEmptySeq

LEMMA NumberOfPiece ==
    ASSUME NEW c, c \in Chunks \/ c \in Results
    PROVE  c.job \in Jobs /\ {c.from, c.to} \subseteq Int /\ c.from \in Nat /\ c.to \in 0 .. BodyBytes
<1>1. c.job \in Jobs /\ c.from \in 0 .. BodyBytes /\ c.to \in 0 .. BodyBytes
  BY DEF Chunks, Results
<1>2. QED
  BY <1>1, BodyAssumption

-----------------------------------------------------------------------------
(* What a step leaves alone. *)

(* No worker takes up a job. *)
WorkersStay ==
    \A w \in Workers : Busy(w)' =>
        /\ Busy(w) /\ worker'[w].job = worker[w].job
        /\ worker'[w].pc = "answering" => worker[w].pc = "answering"

(* A budget is closed or left as it is. *)
BudgetStays(j) ==
    /\ budget'[j].outstanding = budget[j].outstanding
    /\ budget[j].closed => budget'[j].closed

LEMMA WorkStays ==
    ASSUME TypeOK, WorkInv, WorkersStay, UNCHANGED <<jobs, requests, ended>>
    PROVE  WorkInv'
<1>1. \A i, k \in DOMAIN jobs' : jobs'[i] = jobs'[k] => i = k
  BY DEF WorkInv
<1>2. \A i \in DOMAIN jobs' : requests'[StreamOf(jobs'[i])] = 1 /\ jobs'[i] \notin ended'
  BY DEF WorkInv
<1>3. \A w \in Workers : Busy(w)' =>
        /\ requests'[StreamOf(worker'[w].job)] = 1
        /\ worker'[w].job \notin ended'
        /\ \A i \in DOMAIN jobs' : jobs'[i] # worker'[w].job
  BY DEF WorkInv, WorkersStay
<1>4. \A v, w \in Workers : Busy(v)' /\ Busy(w)' /\ worker'[v].job = worker'[w].job => v = w
  BY DEF WorkInv, WorkersStay
<1>5. QED
  BY <1>1, <1>2, <1>3, <1>4 DEF WorkInv

LEMMA FreshStays ==
    ASSUME FreshInv, WorkersStay, UNCHANGED <<jobs, requests>>,
           \A s \in Streams : Untouched(s) => Untouched(s)'
    PROVE  FreshInv'
<1> SUFFICES ASSUME NEW s \in Streams, Fresh(s)' PROVE Fresh(s)
  BY DEF FreshInv
<1>1. CASE requests'[s] = 0
  BY <1>1 DEF Fresh
<1>2. CASE \E i \in DOMAIN jobs' : jobs'[i] = Job(s)
  BY <1>2 DEF Fresh
<1>3. CASE \E w \in Workers : worker'[w].pc = "answering" /\ worker'[w].job = Job(s)
  BY <1>3 DEF Fresh, WorkersStay, Busy
<1>4. QED
  BY <1>1, <1>2, <1>3 DEF Fresh, Job

LEMMA FlowStays ==
    ASSUME NEW s \in Streams, FlowInv(s), BudgetStays(Job(s)),
           UNCHANGED <<pending[s], results, produced, wire[s]>>,
           budget[Job(s)].closed \in BOOLEAN
    PROVE  FlowInv(s)'
<1>1. PICK lo \in 0 .. produced[Job(s)] : Flows(s, lo)
  BY DEF FlowInv
<1>2. /\ Queue(s)' = Queue(s) /\ produced'[Job(s)] = produced[Job(s)]
      /\ HasPending(s)' = HasPending(s)
  BY DEF Queue, HasPending
<1>3. /\ Tiles(Queue(s), Job(s), lo, produced[Job(s)])'
      /\ OnePiece(Queue(s), Job(s), lo, produced[Job(s)])'
  BY <1>1, <1>2 DEF Flows
<1>4. ~budget'[Job(s)].closed =>
        budget'[Job(s)].outstanding = produced'[Job(s)] - lo /\ lo <= Len(wire'[s])
  BY <1>1, <1>2 DEF Flows, BudgetStays
<1>5. HasPending(s)' => Len(wire'[s]) = lo + pending'[s].offset
  BY <1>1, <1>2 DEF Flows
<1>6. Flows(s, lo)'
  BY <1>3, <1>4, <1>5 DEF Flows
<1>7. QED
  BY <1>1, <1>2, <1>6 DEF FlowInv

LEMMA WireStays ==
    ASSUME NEW s \in Streams, WireInv(s), AheadInv(s),
           UNCHANGED <<wire[s], declared[s], stage[s], produced, ended>>
    PROVE  WireInv(s)' /\ AheadInv(s)'
  BY DEF WireInv, AheadInv, Opening, Job

(* Only what a worker waits for, or who may still be told, changes. *)
Quiet ==
    /\ UNCHANGED <<conn, requests, jobs, produced, ended, results, pending, wireVars>>
    /\ \A j \in Jobs : BudgetStays(j)
    /\ WorkersStay

LEMMA QuietStep ==
    ASSUME IInv, Quiet, TypeOK'
    PROVE  IInv'
<1> USE DEF Quiet
<1>1. WorkInv'
  BY WorkStays DEF IInv
<1>2. FreshInv'
  <2>1. ASSUME NEW s \in Streams, Untouched(s) PROVE Untouched(s)'
    BY <2>1 DEF Untouched, HasPending, wireVars
  <2>2. QED
    BY <2>1, FreshStays DEF IInv
<1>3. ResultInv'
  BY DEF IInv, ResultInv, HasPending, wireVars
<1>4. ASSUME NEW s \in Streams PROVE PendingInv(s)'
  BY DEF IInv, PendingInv, HasPending, wireVars
<1>5. ASSUME NEW s \in Streams PROVE WireInv(s)' /\ AheadInv(s)'
  BY WireStays DEF IInv, wireVars
<1>6. ASSUME NEW s \in Streams PROVE FlowInv(s)'
  <2>1. Job(s) \in Jobs
    BY JobIsJob DEF IInv
  <2>2. budget[Job(s)].closed \in BOOLEAN
    BY <2>1 DEF IInv, TypeOK, BudgetState
  <2>3. QED
    BY <2>1, <2>2, FlowStays DEF IInv, wireVars
<1>7. QED
  BY <1>1, <1>2, <1>3, <1>4, <1>5, <1>6 DEF IInv

-----------------------------------------------------------------------------
(* The event loop takes a result. *)

Drained(s) ==
    /\ results # <<>>
    /\ Head(results).job = Job(s)
    /\ results' = Tail(results)
    /\ UNCHANGED <<conn, requests, jobs, produced, ended, wireVars>>
    /\ \A t \in Streams \ {s} :
        pending'[t] = pending[t] /\ budget'[Job(t)] = budget[Job(t)]
    /\ WorkersStay

LEMMA DrainedResults ==
    ASSUME IInv, NEW s \in Streams, Drained(s)
    PROVE  ResultInv'
<1> DEFINE n == Len(results)
           keep(i) == results'[i] = results[i + 1]
<1>1. /\ n \in Nat \ {0} /\ DOMAIN results = 1 .. n
      /\ results[1].job = Job(s)
      /\ DOMAIN results' = 1 .. n - 1
      /\ \A i \in 1 .. n - 1 : keep(i)
  BY Shorter DEF IInv, TypeOK, Drained
<1>2. \A i \in 1 .. n - 1 : i + 1 \in DOMAIN results /\ keep(i)
  BY <1>1
<1> HIDE DEF n
<1>3. ASSUME NEW i \in DOMAIN results'
      PROVE  /\ results'[i].kind \in {"Full", "Head"} =>
                /\ results'[i].from = 0
                /\ \A k \in DOMAIN results' : k < i => results'[k].job # results'[i].job
             /\ results'[i].kind = "Head" => results'[i].to = 0
             /\ results'[i].kind = "Chunk" => results'[i].from < results'[i].to
             /\ results'[i].kind = "Full" =>
                /\ results'[i].job \in ended'
                /\ \A k \in DOMAIN results' : results'[k].job = results'[i].job => k = i
             /\ results'[i].kind = "End" =>
                /\ results'[i].job \in ended'
                /\ results'[i].from = results'[i].to
                /\ \A k \in DOMAIN results' : k > i => results'[k].job # results'[i].job
  <2>1. i \in 1 .. n - 1 /\ i + 1 \in DOMAIN results /\ results'[i] = results[i + 1]
    BY <1>1, <1>2
  <2>2. \A k \in DOMAIN results' :
            /\ k + 1 \in DOMAIN results /\ results'[k] = results[k + 1]
            /\ k \in Int /\ (k < i => k + 1 < i + 1) /\ (k > i => k + 1 > i + 1)
            /\ (k + 1 = i + 1 => k = i)
    BY <1>1, <1>2, <2>1
  <2>3. ResultInv /\ ended' = ended
    BY DEF IInv, Drained
  <2>4. QED
    BY <2>1, <2>2, <2>3 DEF ResultInv
<1>4. ASSUME NEW i \in DOMAIN results', results'[i].kind \in {"Full", "Head"}
      PROVE  /\ pending'[StreamOf(results[i + 1].job)].job = None
             /\ stage'[StreamOf(results[i + 1].job)] = "silent"
  <2>1. /\ 1 \in DOMAIN results /\ i + 1 \in DOMAIN results /\ 1 < i + 1
        /\ results'[i] = results[i + 1]
    BY <1>1, <1>2
  <2>2. /\ results[1].job # results[i + 1].job
        /\ ~HasPending(StreamOf(results[i + 1].job))
        /\ stage[StreamOf(results[i + 1].job)] = "silent"
    BY <1>4, <2>1 DEF IInv, ResultInv
  <2>3. results[i + 1].job \in Jobs
    BY <2>1, NumberOfPiece DEF IInv, TypeOK
  <2>4. /\ StreamOf(results[i + 1].job) \in Streams
        /\ results[i + 1].job = Job(StreamOf(results[i + 1].job))
    BY <2>3, StreamOfJob DEF IInv
  <2>5. StreamOf(results[i + 1].job) # s
    BY <1>1, <2>2, <2>4
  <2>6. QED
    BY <2>2, <2>4, <2>5 DEF Drained, HasPending, wireVars
<1>5. QED
  <2>1. \A i \in DOMAIN results' : results'[i] = results[i + 1]
    BY <1>1
  <2>2. ASSUME NEW i \in DOMAIN results', results'[i].kind \in {"Full", "Head"}
        PROVE  /\ pending'[StreamOf(results'[i].job)].job = None
               /\ stage'[StreamOf(results'[i].job)] = "silent"
    BY <1>4, <2>1, <2>2
  <2>3. QED
    BY <1>3, <2>2 DEF ResultInv, HasPending

(* The other streams do not notice. *)
LEMMA DrainedOthers ==
    ASSUME IInv, NEW s \in Streams, Drained(s), TypeOK', NEW t \in Streams \ {s}
    PROVE  PendingInv(t)' /\ FlowInv(t)'
<1> DEFINE n == Len(results)
           c == pending[t].chunks
<1>1. /\ n \in Nat \ {0} /\ DOMAIN results = 1 .. n
      /\ results[1].job = Job(s)
      /\ DOMAIN results' = 1 .. n - 1
      /\ Len(results') = n - 1
      /\ results' \in Seq(Results)
      /\ \A i \in 1 .. n - 1 : results'[i] = results[i + 1]
  BY Shorter DEF IInv, TypeOK, Drained
<1>2. pending'[t] = pending[t] /\ budget'[Job(t)] = budget[Job(t)]
  BY DEF Drained
<1>3. PendingInv(t)'
  <2>1. PendingInv(t)
    BY DEF IInv
  <2>2. \A i \in DOMAIN results' : i + 1 \in DOMAIN results /\ results'[i] = results[i + 1]
    BY <1>1
  <2>3. UNCHANGED <<conn, stage, ended>>
    BY DEF Drained, wireVars
  <2>4. QED
    BY <1>2, <2>1, <2>2, <2>3 DEF PendingInv, HasPending
<1>4. FlowInv(t)'
  <2> DEFINE q == Queue(t)
             r == c \o results'
             l == Len(c)
             hi == produced[Job(t)]
             m == l + 1
             e == l + n
  <2>1. c \in Seq(Chunks) /\ results \in Seq(Results)
    BY DEF IInv, TypeOK, Pendings
  <2>2. /\ l \in Nat /\ DOMAIN q = 1 .. l + n
        /\ \A i \in 1 .. l : q[i] = c[i]
        /\ \A i \in 1 .. n : q[l + i] = results[i]
    BY <2>1, QueueShape DEF Queue
  <2>3. /\ DOMAIN r = 1 .. l + (n - 1)
        /\ \A i \in 1 .. l : r[i] = c[i]
        /\ \A i \in 1 .. n - 1 : r[l + i] = results'[i]
    <3>1. /\ DOMAIN r = 1 .. l + Len(results')
          /\ \A i \in 1 .. l : r[i] = c[i]
          /\ \A i \in 1 .. Len(results') : r[l + i] = results'[i]
      BY <1>1, <2>1, QueueShape
    <3>2. QED
      BY <1>1, <3>1
  <2>4. PICK lo \in 0 .. hi : Flows(t, lo)
    BY DEF IInv, FlowInv
  <2>5. lo \in Nat /\ hi \in Nat
    BY <2>4, JobIsJob DEF IInv, TypeOK
  <2>6. Tiles(q, Job(t), lo, hi) /\ OnePiece(q, Job(t), lo, hi)
    BY <2>4 DEF Flows
  <2>7. q[m] = results[1] /\ results[1] \in Results
    BY <1>1, <2>1, <2>2
  <2>8. q[m].job # Job(t) /\ {q[m].from, q[m].to} \subseteq Int
    BY <1>1, <2>7, NumberOfPiece, JobOfStream
  <2> HIDE DEF q, r, l, n, hi, c
  <2>9. /\ e \in Nat /\ m \in 1 .. e
        /\ DOMAIN q = 1 .. e /\ DOMAIN r = 1 .. e - 1
    BY <1>1, <2>2, <2>3
  <2>10. \A i \in 1 .. m - 1 : r[i] = q[i]
    BY <2>2, <2>3
  <2>11. \A i \in m .. e - 1 : r[i] = q[i + 1]
    <3> SUFFICES ASSUME NEW i \in m .. e - 1 PROVE r[i] = q[i + 1]
      OBVIOUS
    <3>1. i - l \in 1 .. n - 1 /\ (i - l) + 1 \in 1 .. n /\ l + (i - l) = i /\ l + ((i - l) + 1) = i + 1
      BY <1>1, <2>2
    <3>2. r[i] = results'[i - l] /\ q[i + 1] = results[(i - l) + 1]
      BY <2>2, <2>3, <3>1
    <3>3. QED
      BY <1>1, <3>1, <3>2
  <2> HIDE DEF e, m
  <2>12. Tiles(r, Job(t), lo, hi) /\ OnePiece(r, Job(t), lo, hi)
    BY <2>5, <2>6, <2>8, <2>9, <2>10, <2>11, TilesWithout
  <2>13. /\ Queue(t)' = r /\ produced'[Job(t)] = hi /\ wire'[t] = wire[t]
         /\ HasPending(t)' = HasPending(t)
    BY <1>2 DEF Queue, HasPending, r, c, hi, Drained, wireVars
  <2>14. Flows(t, lo)'
    BY <1>2, <2>4, <2>12, <2>13 DEF Flows, Job, hi
  <2>15. QED
    BY <2>4, <2>13, <2>14 DEF FlowInv, Job
<1>5. QED
  BY <1>3, <1>4

LEMMA DrainedStep ==
    ASSUME IInv, NEW s \in Streams, Drained(s), TypeOK', PendingInv(s)', FlowInv(s)'
    PROVE  IInv'
<1>1. WorkInv'
  BY WorkStays DEF IInv, Drained
<1>2. FreshInv'
  <2>1. /\ 1 \in DOMAIN results /\ results[1].job = Job(s)
        /\ \A i \in DOMAIN results' : i + 1 \in DOMAIN results /\ results'[i] = results[i + 1]
    BY Shorter DEF IInv, TypeOK, Drained
  <2>2. ASSUME NEW t \in Streams, Untouched(t) PROVE Untouched(t)'
    <3>1. t # s
      BY <2>1, <2>2 DEF Untouched
    <3>2. QED
      BY <2>1, <2>2, <3>1 DEF Untouched, HasPending, Drained, wireVars, Job
  <2>3. QED
    BY <2>2, FreshStays DEF IInv, Drained
<1>3. ResultInv'
  BY DrainedResults
<1>4. ASSUME NEW t \in Streams PROVE WireInv(t)' /\ AheadInv(t)'
  BY WireStays DEF IInv, Drained, wireVars
<1>5. ASSUME NEW t \in Streams PROVE PendingInv(t)' /\ FlowInv(t)'
  <2>1. CASE t = s
    BY <2>1
  <2>2. CASE t # s
    BY <2>2, DrainedOthers
  <2>3. QED
    BY <2>1, <2>2
<1>6. QED
  BY <1>1, <1>2, <1>3, <1>4, <1>5 DEF IInv

(* What is drained is the next result of its stream. *)
LEMMA DrainedFirst ==
    ASSUME IInv, NEW s \in Streams, Drained(s)
    PROVE  /\ Len(results) \in Nat \ {0} /\ DOMAIN results = 1 .. Len(results)
           /\ results[1] = Head(results) /\ results[1] \in Results /\ results[1].job = Job(s)
           /\ results' \in Seq(Results) /\ Len(results') = Len(results) - 1
           /\ DOMAIN results' = 1 .. Len(results) - 1
           /\ \A i \in 1 .. Len(results) - 1 : results'[i] = results[i + 1]
  BY Shorter DEF IInv, TypeOK, Drained

LEMMA NotPending ==
    ASSUME IInv, NEW s \in Streams, ~HasPending(s)
    PROVE  /\ pending[s] = NoPending /\ pending[s].chunks = <<>> /\ ~pending[s].complete
           /\ Queue(s) = results
<1>1. pending[s] = NoPending
  BY DEF IInv, PendingInv
<1>2. pending[s].chunks = <<>> /\ ~pending[s].complete
  BY <1>1 DEF NoPending
<1>3. results \in Seq(Results)
  BY DEF IInv, TypeOK
<1>4. QED
  BY <1>1, <1>2, <1>3, QueueOfNone DEF Queue

(* A result that its stream has no place for: its budget is closed. *)
LEMMA FlowDropped ==
    ASSUME IInv, NEW s \in Streams, Drained(s), ~HasPending(s), pending' = pending,
           budget'[Job(s)].closed
    PROVE  FlowInv(s)'
<1> DEFINE n == Len(results)
           hi == produced[Job(s)]
<1>0. PICK to : to = results[1].to
  OBVIOUS
<1>1. /\ n \in Nat \ {0} /\ DOMAIN results = 1 .. n
      /\ results[1] \in Results /\ results[1].job = Job(s)
      /\ results' \in Seq(Results) /\ DOMAIN results' = 1 .. n - 1
      /\ \A i \in 1 .. n - 1 : results'[i] = results[1 + i]
  BY DrainedFirst
<1>2. PICK lo \in 0 .. hi : Flows(s, lo)
  BY DEF IInv, FlowInv
<1>3. lo \in Nat /\ hi \in Nat
  BY <1>2, JobIsJob DEF IInv, TypeOK
<1>4. Tiles(results, Job(s), lo, hi) /\ OnePiece(results, Job(s), lo, hi)
  BY <1>2, NotPending DEF Flows
<1>5. {results[1].from, results[1].to} \subseteq Int
  BY <1>1, NumberOfPiece
<1>6. n \in Nat /\ 1 \in 1 .. n
  BY <1>1
<1>7. to \in lo .. hi /\ Tiles(results', Job(s), to, hi) /\ OnePiece(results', Job(s), to, hi)
  <2> HIDE DEF n, hi
  <2>1. QED
    BY <1>0, <1>1, <1>3, <1>4, <1>5, <1>6, TilesAfter
<1>8. /\ produced'[Job(s)] = hi /\ ~HasPending(s)' /\ Queue(s)' = results'
  BY <1>1, NotPending, QueueOfNone DEF HasPending, Queue, Drained
<1>9. Flows(s, to)'
  BY <1>7, <1>8 DEF Flows, Job
<1>10. to \in 0 .. produced'[Job(s)]
  BY <1>3, <1>7, <1>8
<1>11. QED
  BY <1>9, <1>10 DEF FlowInv, Job

LEMMA RefusedStep ==
    ASSUME IInv, NEW s \in Streams, Drained(s), TypeOK', ~HasPending(s), pending' = pending,
           budget'[Job(s)].closed
    PROVE  IInv'
<1>1. PendingInv(s)'
  <2>1. PendingInv(s) /\ pending[s] = NoPending
    BY NotPending DEF IInv
  <2>2. pending'[s].chunks = <<>> /\ DOMAIN pending'[s].chunks = 1 .. 0
    BY <2>1, NoPieces DEF NoPending
  <2>3. QED
    BY <2>1, <2>2 DEF PendingInv, HasPending, NoPending
<1>2. QED
  BY <1>1, FlowDropped, DrainedStep

(* A response begins, with the piece that a Full brings. *)
Begun(s) ==
    /\ Drained(s)
    /\ conn
    /\ results[1].kind \in {"Full", "Head"}
    /\ ~HasPending(s)
    /\ UNCHANGED budget
    /\ pending'[s] = [NoPending EXCEPT
            !.job = Job(s),
            !.chunks = IF Size(results[1]) > 0 THEN <<Piece(results[1])>> ELSE <<>>,
            !.complete = results[1].kind = "Full"]

LEMMA BegunPending ==
    ASSUME NEW s \in Streams, Begun(s)
    PROVE  /\ pending'[s].job = Job(s) /\ pending'[s].headers = FALSE /\ pending'[s].offset = 0
           /\ pending'[s].chunks = IF Size(results[1]) > 0 THEN <<Piece(results[1])>> ELSE <<>>
           /\ pending'[s].complete = (results[1].kind = "Full")
  BY DEF Begun, NoPending

LEMMA PieceOfResult ==
    ASSUME NEW r \in Results
    PROVE  /\ Piece(r) \in Chunks /\ Piece(r).job = r.job
           /\ Piece(r).from = r.from /\ Piece(r).to = r.to
  BY DEF Piece, Results, Chunks

LEMMA OneChunk ==
    ASSUME NEW c \in Chunks
    PROVE  /\ <<c>> \in Seq(Chunks) /\ Len(<<c>>) = 1 /\ DOMAIN <<c>> = 1 .. 1
           /\ <<c>>[1] = c /\ <<c>> # <<>>
  OBVIOUS

LEMMA BegunInv ==
    ASSUME IInv, NEW s \in Streams, Begun(s)
    PROVE  PendingInv(s)'
<1> DEFINE r == results[1]
           full == Size(r) > 0
<1>1. /\ Len(results) \in Nat \ {0} /\ DOMAIN results = 1 .. Len(results)
      /\ r \in Results /\ r.job = Job(s)
      /\ DOMAIN results' = 1 .. Len(results) - 1
      /\ \A i \in 1 .. Len(results) - 1 : results'[i] = results[i + 1]
  BY DrainedFirst DEF Begun
<1>2. Piece(r) \in Chunks /\ Piece(r).job = Job(s) /\ Piece(r).from = r.from /\ Piece(r).to = r.to
  BY <1>1, PieceOfResult
<1>3. r.from \in Int /\ r.to \in Int
  BY <1>1, NumberOfPiece
<1>4. pending'[s].chunks = IF full THEN <<Piece(r)>> ELSE <<>>
  BY BegunPending
<1>5. stage'[s] = "silent"
  <2>1. StreamOf(Job(s)) = s /\ 1 \in DOMAIN results
    BY <1>1, JobOfStream
  <2>2. stage[StreamOf(r.job)] = "silent"
    BY <2>1 DEF IInv, ResultInv, Begun
  <2>3. QED
    BY <1>1, <2>1, <2>2 DEF Begun, Drained, wireVars
<1>6. HasPending(s)' /\ conn' /\ pending'[s].job = Job(s) /\ ~pending'[s].headers /\ pending'[s].offset = 0
  <2>1. Job(s) # None
    BY NoneIsNoJob, JobIsJob DEF IInv
  <2>2. QED
    BY <2>1, BegunPending DEF HasPending, Begun, Drained
<1>7. \A i \in DOMAIN pending'[s].chunks :
        /\ pending'[s].chunks[i].job = Job(s)
        /\ pending'[s].chunks[i].from < pending'[s].chunks[i].to
  <2>1. CASE full
    <3>1. r.from < r.to
      BY <1>3, <2>1 DEF Size
    <3>2. QED
      BY <1>2, <1>4, <2>1, <3>1, OneChunk
  <2>2. CASE ~full
    BY <1>4, <2>2, NoPieces
  <2>3. QED
    BY <2>1, <2>2
<1>8. pending'[s].chunks # <<>> => pending'[s].offset < Size(pending'[s].chunks[1])
  <2>1. SUFFICES ASSUME full PROVE 0 < Size(<<Piece(r)>>[1])
    BY <1>4, <1>6
  <2>2. <<Piece(r)>>[1] = Piece(r)
    BY <1>2, OneChunk
  <2>3. QED
    BY <1>2, <1>3, <2>1, <2>2 DEF Size
<1>9. pending'[s].complete =>
        Job(s) \in ended' /\ \A i \in DOMAIN results' : results'[i].job # Job(s)
  <2> SUFFICES ASSUME r.kind = "Full"
               PROVE  Job(s) \in ended' /\ \A i \in DOMAIN results' : results'[i].job # Job(s)
    BY BegunPending
  <2>1. /\ 1 \in DOMAIN results
        /\ \A i \in DOMAIN results' : i + 1 \in DOMAIN results /\ i + 1 # 1
    BY <1>1
  <2>2. Job(s) \in ended /\ \A k \in DOMAIN results : results[k].job = Job(s) => k = 1
    BY <1>1, <2>1 DEF IInv, ResultInv
  <2>3. QED
    BY <1>1, <2>1, <2>2 DEF Begun, Drained
<1>10. QED
  BY <1>5, <1>6, <1>7, <1>8, <1>9, BegunPending DEF PendingInv, Job

LEMMA BegunFlow ==
    ASSUME IInv, NEW s \in Streams, Begun(s)
    PROVE  FlowInv(s)'
<1> DEFINE r == results[1]
           n == Len(results)
           hi == produced[Job(s)]
           new == Queue(s)'
<1>1. /\ n \in Nat \ {0} /\ DOMAIN results = 1 .. n
      /\ r \in Results /\ r.job = Job(s)
      /\ results' \in Seq(Results) /\ DOMAIN results' = 1 .. n - 1 /\ Len(results') = n - 1
      /\ \A i \in 1 .. n - 1 : results'[i] = results[i + 1]
  BY DrainedFirst DEF Begun
<1>2. Piece(r) \in Chunks /\ Piece(r).job = Job(s) /\ Piece(r).from = r.from /\ Piece(r).to = r.to
  BY <1>1, PieceOfResult
<1>3. r.from \in Int /\ r.to \in Int
  BY <1>1, NumberOfPiece
<1>4. PICK lo \in 0 .. hi : Flows(s, lo)
  BY DEF IInv, FlowInv
<1>5. lo \in Nat /\ hi \in Nat
  BY <1>4, JobIsJob DEF IInv, TypeOK
<1>6. Tiles(results, Job(s), lo, hi) /\ OnePiece(results, Job(s), lo, hi)
  BY <1>4, NotPending DEF Flows, Begun
<1>7. r.from = 0 /\ stage[s] = "silent"
  <2>1. StreamOf(Job(s)) = s /\ 1 \in DOMAIN results
    BY <1>1, JobOfStream
  <2>2. QED
    BY <1>1, <2>1 DEF IInv, ResultInv, Begun
<1>8. lo = 0 /\ r.to \in r.from .. hi
  <2>1. 1 \in DOMAIN results
    BY <1>1
  <2>2. r.from \in lo .. hi /\ r.to \in r.from .. hi
    BY <1>1, <1>6, <2>1 DEF Tiles
  <2>3. QED
    BY <1>5, <1>7, <2>2
<1>9. Len(wire[s]) = 0
  BY <1>7 DEF IInv, WireInv
<1>10. new = (IF Size(r) > 0 THEN <<Piece(r)>> ELSE <<>>) \o results'
  BY BegunPending DEF Queue
<1>11. Tiles(new, Job(s), lo, hi) /\ OnePiece(new, Job(s), lo, hi)
  <2> HIDE DEF new, hi
  <2>1. CASE Size(r) > 0
    <3> DEFINE c == <<Piece(r)>>
    <3>1. c \in Seq(Chunks) /\ Len(c) = 1 /\ c[1] = Piece(r)
      BY <1>2, OneChunk
    <3>2. new = c \o results'
      BY <1>10, <2>1
    <3> HIDE DEF c, r, n
    <3>3. /\ DOMAIN new = 1 .. 1 + (n - 1)
          /\ \A i \in 1 .. 1 : new[i] = c[i]
          /\ \A i \in 1 .. n - 1 : new[1 + i] = results'[i]
      <4>1. /\ DOMAIN new = 1 .. Len(c) + Len(results')
            /\ \A i \in 1 .. Len(c) : new[i] = c[i]
            /\ \A i \in 1 .. Len(results') : new[Len(c) + i] = results'[i]
        BY <1>1, <3>1, <3>2, QueueShape
      <4>2. QED
        BY <1>1, <3>1, <4>1
    <3>4. DOMAIN new = DOMAIN results
      BY <1>1, <3>3
    <3>5. ASSUME NEW i \in DOMAIN results
          PROVE  new[i].job = results[i].job /\ new[i].from = results[i].from /\ new[i].to = results[i].to
      <4>1. CASE i = 1
        BY <1>1, <1>2, <3>1, <3>3, <4>1 DEF r
      <4>2. CASE i # 1
        <5>1. i - 1 \in 1 .. n - 1 /\ 1 + (i - 1) = i /\ (i - 1) + 1 = i
          BY <1>1, <4>2
        <5>2. new[i] = results'[i - 1] /\ results'[i - 1] = results[i]
          BY <1>1, <3>3, <5>1
        <5>3. QED
          BY <5>2
      <4>3. QED
        BY <4>1, <4>2
    <3>6. QED
      BY <1>6, <3>4, <3>5, TilesSame
  <2>2. CASE ~(Size(r) > 0)
    <3>1. new = results'
      BY <1>1, <1>10, <2>2, QueueOfNone
    <3>2. r.from = r.to
      BY <1>3, <1>5, <1>8, <2>2 DEF Size
    <3>3. n \in Nat /\ 1 \in 1 .. n /\ {r.from, r.to} \subseteq Int
      BY <1>1, <1>3
    <3>4. \A i \in 1 .. 1 - 1 : results'[i] = results[i]
      OBVIOUS
    <3> HIDE DEF n
    <3>5. Tiles(results', Job(s), lo, hi) /\ OnePiece(results', Job(s), lo, hi)
      BY <1>1, <1>5, <1>6, <3>2, <3>3, <3>4, TilesWithout
    <3>6. QED
      BY <3>1, <3>5
  <2>3. QED
    BY <2>1, <2>2
<1>12. /\ produced' = produced /\ wire' = wire /\ budget' = budget
       /\ pending'[s].offset = 0
  BY BegunPending DEF Begun, Drained, wireVars
<1>13. Flows(s, lo)'
  <2>1. ~budget'[Job(s)].closed =>
        budget'[Job(s)].outstanding = produced'[Job(s)] - lo /\ lo <= Len(wire'[s])
    BY <1>4, <1>12 DEF Flows
  <2>2. Len(wire'[s]) = lo + pending'[s].offset
    BY <1>8, <1>9, <1>12
  <2>3. QED
    BY <1>11, <1>12, <2>1, <2>2 DEF Flows, Job
<1>14. QED
  BY <1>4, <1>12, <1>13 DEF FlowInv, Job

(* A chunk goes from the channel to the end of what its response has. *)
Chunked(s) ==
    /\ Drained(s)
    /\ results[1].kind = "Chunk"
    /\ HasPending(s)
    /\ UNCHANGED budget
    /\ pending'[s] = [pending[s] EXCEPT !.chunks = Append(@, Piece(results[1]))]

LEMMA ChunkedPending ==
    ASSUME TypeOK, NEW s \in Streams, Chunked(s)
    PROVE  /\ pending'[s].job = pending[s].job /\ pending'[s].headers = pending[s].headers
           /\ pending'[s].offset = pending[s].offset /\ pending'[s].complete = pending[s].complete
           /\ pending'[s].chunks = Append(pending[s].chunks, Piece(results[1]))
  BY DEF Chunked, TypeOK, Pendings

LEMMA ChunkedInv ==
    ASSUME IInv, NEW s \in Streams, Chunked(s)
    PROVE  PendingInv(s)'
<1> DEFINE r == results[1]
           c == pending[s].chunks
           l == Len(c)
           d == pending'[s].chunks
<1>1. /\ Len(results) \in Nat \ {0} /\ DOMAIN results = 1 .. Len(results)
      /\ r \in Results /\ r.job = Job(s)
      /\ DOMAIN results' = 1 .. Len(results) - 1
      /\ \A i \in 1 .. Len(results) - 1 : results'[i] = results[i + 1]
  BY DrainedFirst DEF Chunked
<1>2. Piece(r) \in Chunks /\ Piece(r).job = Job(s) /\ Piece(r).from = r.from /\ Piece(r).to = r.to
  BY <1>1, PieceOfResult
<1>3. r.from \in Int /\ r.to \in Int /\ r.from < r.to
  BY <1>1, NumberOfPiece DEF Chunked, IInv, ResultInv
<1>4. c \in Seq(Chunks)
  BY DEF IInv, TypeOK, Pendings
<1>5. d = Append(c, Piece(r))
  BY ChunkedPending DEF IInv
<1>6. /\ l \in Nat /\ DOMAIN c = 1 .. l /\ DOMAIN d = 1 .. l + 1
      /\ d[l + 1] = Piece(r)
      /\ \A i \in 1 .. l : d[i] = c[i]
  BY <1>2, <1>4, <1>5, Longer
<1>7. PendingInv(s)
  BY DEF IInv
<1>8. ~pending[s].complete
  <2>1. 1 \in DOMAIN results
    BY <1>1
  <2>2. QED
    BY <1>1, <1>7, <2>1 DEF PendingInv
<1> HIDE DEF r, c, l, d
<1>9. \A i \in DOMAIN d : d[i].job = Job(s) /\ d[i].from < d[i].to
  <2> SUFFICES ASSUME NEW i \in DOMAIN d PROVE d[i].job = Job(s) /\ d[i].from < d[i].to
    OBVIOUS
  <2>1. CASE i \in 1 .. l
    BY <1>6, <1>7, <2>1 DEF PendingInv, c
  <2>2. CASE i = l + 1
    BY <1>2, <1>3, <1>6, <2>2
  <2>3. QED
    BY <1>6, <2>1, <2>2
<1>10. d # <<>> /\ pending[s].offset < Size(d[1])
  <2>1. d # <<>>
    BY <1>2, <1>4, <1>5, <1>6, NoPieces
  <2>2. CASE l = 0
    <3>1. c = <<>>
      BY <1>4, <2>2, NotEmpty DEF l
    <3>2. pending[s].offset = 0
      BY <1>7, <3>1 DEF PendingInv, c
    <3>3. d[1] = Piece(r)
      BY <1>6, <2>2
    <3>4. QED
      BY <1>2, <1>3, <2>1, <3>2, <3>3 DEF Size
  <2>3. CASE l # 0
    <3>1. d[1] = c[1]
      BY <1>6, <2>3
    <3>2. c # <<>>
      BY <1>4, <2>3, NotEmpty DEF l
    <3>3. QED
      BY <1>7, <2>1, <3>1, <3>2 DEF PendingInv, c
  <2>4. QED
    BY <2>2, <2>3
<1>11. /\ pending'[s].job = pending[s].job /\ pending'[s].headers = pending[s].headers
       /\ pending'[s].offset = pending[s].offset /\ pending'[s].complete = pending[s].complete
  BY ChunkedPending DEF IInv
<1>12. UNCHANGED <<conn, stage>> /\ HasPending(s) /\ HasPending(s)'
  BY <1>11 DEF Chunked, Drained, wireVars, HasPending
<1>13. QED
  BY <1>7, <1>8, <1>9, <1>10, <1>11, <1>12 DEF PendingInv, d, Job

LEMMA ChunkedFlow ==
    ASSUME IInv, NEW s \in Streams, Chunked(s)
    PROVE  FlowInv(s)'
<1> DEFINE r == results[1]
           n == Len(results)
           c == pending[s].chunks
           l == Len(c)
           d == pending'[s].chunks
           hi == produced[Job(s)]
           old == Queue(s)
           new == Queue(s)'
<1>1. /\ n \in Nat \ {0} /\ DOMAIN results = 1 .. n
      /\ r \in Results /\ r.job = Job(s)
      /\ results' \in Seq(Results) /\ DOMAIN results' = 1 .. n - 1 /\ Len(results') = n - 1
      /\ \A i \in 1 .. n - 1 : results'[i] = results[i + 1]
  BY DrainedFirst DEF Chunked
<1>2. Piece(r) \in Chunks /\ Piece(r).job = r.job /\ Piece(r).from = r.from /\ Piece(r).to = r.to
  BY <1>1, PieceOfResult
<1>3. c \in Seq(Chunks) /\ results \in Seq(Results)
  BY DEF IInv, TypeOK, Pendings
<1>4. d = Append(c, Piece(r))
  BY ChunkedPending DEF IInv
<1>5. /\ l \in Nat /\ d \in Seq(Chunks) /\ Len(d) = l + 1
      /\ d[l + 1] = Piece(r)
      /\ \A i \in 1 .. l : d[i] = c[i]
  BY <1>2, <1>3, <1>4, Longer
<1>6. /\ DOMAIN old = 1 .. l + n
      /\ \A i \in 1 .. l : old[i] = c[i]
      /\ \A i \in 1 .. n : old[l + i] = results[i]
  BY <1>3, QueueShape DEF Queue
<1>7. /\ DOMAIN new = 1 .. (l + 1) + (n - 1)
      /\ \A i \in 1 .. l + 1 : new[i] = d[i]
      /\ \A i \in 1 .. n - 1 : new[(l + 1) + i] = results'[i]
  <2>1. new = d \o results'
    BY DEF Queue
  <2> HIDE DEF new, d
  <2>2. /\ DOMAIN new = 1 .. Len(d) + Len(results')
        /\ \A i \in 1 .. Len(d) : new[i] = d[i]
        /\ \A i \in 1 .. Len(results') : new[Len(d) + i] = results'[i]
    BY <1>1, <1>5, <2>1, QueueShape
  <2>3. QED
    BY <1>1, <1>5, <2>2
<1>8. PICK lo \in 0 .. hi : Flows(s, lo)
  BY DEF IInv, FlowInv
<1>9. Tiles(old, Job(s), lo, hi) /\ OnePiece(old, Job(s), lo, hi)
  BY <1>8 DEF Flows
<1>10. Tiles(new, Job(s), lo, hi) /\ OnePiece(new, Job(s), lo, hi)
  <2> HIDE DEF old, new, d, c, l, n, hi
  <2>1. DOMAIN new = DOMAIN old
    BY <1>1, <1>5, <1>6, <1>7
  <2>2. ASSUME NEW i \in DOMAIN old
        PROVE  new[i].job = old[i].job /\ new[i].from = old[i].from /\ new[i].to = old[i].to
    <3>1. CASE i \in 1 .. l
      <4>1. new[i] = old[i]
        BY <1>5, <1>6, <1>7, <3>1
      <4>2. QED
        BY <4>1
    <3>2. CASE i = l + 1
      <4>1. new[i] = Piece(r)
        BY <1>5, <1>7, <3>2
      <4>2. old[i] = r
        BY <1>1, <1>6, <3>2
      <4>3. QED
        BY <1>2, <4>1, <4>2
    <3>3. CASE i \in l + 2 .. l + n
      <4> DEFINE k == i - (l + 1)
      <4>1. k \in 1 .. n - 1 /\ k + 1 \in 1 .. n /\ (l + 1) + k = i /\ l + (k + 1) = i
        <5>1. l \in Nat /\ n \in Nat /\ i \in Int /\ l + 2 <= i /\ i <= l + n
          BY <1>1, <1>5, <3>3
        <5>2. QED
          BY <5>1
      <4> HIDE DEF k
      <4>2. new[i] = results'[k] /\ old[i] = results[k + 1]
        BY <1>6, <1>7, <4>1
      <4>3. new[i] = old[i]
        BY <1>1, <4>1, <4>2
      <4>4. QED
        BY <4>3
    <3>4. QED
      BY <1>1, <1>5, <1>6, <3>1, <3>2, <3>3
  <2>3. QED
    BY <1>9, <2>1, <2>2, TilesSame
<1>11. /\ produced' = produced /\ wire' = wire /\ budget' = budget
       /\ pending'[s].offset = pending[s].offset /\ HasPending(s)
  BY ChunkedPending DEF IInv, Chunked, Drained, wireVars
<1>12. Flows(s, lo)'
  BY <1>8, <1>10, <1>11 DEF Flows, Job
<1>13. QED
  BY <1>8, <1>11, <1>12 DEF FlowInv, Job

-----------------------------------------------------------------------------
(* No more comes: the response the stream has, if any, is complete. *)

Completed(s) ==
    /\ Drained(s)
    /\ results[1].kind = "End"
    /\ UNCHANGED budget
    /\ pending'[s] = IF HasPending(s) THEN [pending[s] EXCEPT !.complete = TRUE] ELSE pending[s]

LEMMA CompletedPending ==
    ASSUME TypeOK, NEW s \in Streams, Completed(s)
    PROVE  /\ pending'[s].job = pending[s].job /\ pending'[s].headers = pending[s].headers
           /\ pending'[s].offset = pending[s].offset /\ pending'[s].chunks = pending[s].chunks
           /\ ~HasPending(s) => pending'[s] = pending[s]
  BY DEF Completed, TypeOK, Pendings

LEMMA CompletedInv ==
    ASSUME IInv, NEW s \in Streams, Completed(s)
    PROVE  PendingInv(s)'
<1>1. /\ Len(results) \in Nat \ {0} /\ DOMAIN results = 1 .. Len(results)
      /\ results[1] \in Results /\ results[1].job = Job(s)
      /\ DOMAIN results' = 1 .. Len(results) - 1
      /\ \A i \in 1 .. Len(results) - 1 : results'[i] = results[i + 1]
  BY DrainedFirst DEF Completed
<1>2. Job(s) \in ended' /\ \A i \in DOMAIN results' : results'[i].job # Job(s)
  <2>1. /\ 1 \in DOMAIN results
        /\ \A i \in DOMAIN results' : i + 1 \in DOMAIN results /\ i + 1 > 1
    BY <1>1
  <2>2. Job(s) \in ended /\ \A k \in DOMAIN results : k > 1 => results[k].job # Job(s)
    BY <1>1, <2>1 DEF IInv, ResultInv, Completed
  <2>3. QED
    BY <1>1, <2>1, <2>2 DEF Completed, Drained
<1>3. PendingInv(s)
  BY DEF IInv
<1>4. UNCHANGED <<conn, stage>>
  BY DEF Completed, Drained, wireVars
<1>5. QED
  BY <1>2, <1>3, <1>4, CompletedPending DEF PendingInv, HasPending, Job, IInv

LEMMA CompletedFlow ==
    ASSUME IInv, NEW s \in Streams, Completed(s)
    PROVE  FlowInv(s)'
<1> DEFINE r == results[1]
           n == Len(results)
           c == pending[s].chunks
           l == Len(c)
           m == l + 1
           e == l + n
           hi == produced[Job(s)]
           old == Queue(s)
           new == Queue(s)'
<1>1. /\ n \in Nat \ {0} /\ DOMAIN results = 1 .. n
      /\ r \in Results /\ r.job = Job(s)
      /\ results' \in Seq(Results) /\ DOMAIN results' = 1 .. n - 1 /\ Len(results') = n - 1
      /\ \A i \in 1 .. n - 1 : results'[i] = results[i + 1]
  BY DrainedFirst DEF Completed
<1>2. c \in Seq(Chunks) /\ results \in Seq(Results)
  BY DEF IInv, TypeOK, Pendings
<1>3. /\ l \in Nat /\ DOMAIN old = 1 .. l + n
      /\ \A i \in 1 .. l : old[i] = c[i]
      /\ \A i \in 1 .. n : old[l + i] = results[i]
  BY <1>2, QueueShape DEF Queue
<1>4. /\ DOMAIN new = 1 .. l + (n - 1)
      /\ \A i \in 1 .. l : new[i] = c[i]
      /\ \A i \in 1 .. n - 1 : new[l + i] = results'[i]
  <2>1. new = c \o results'
    BY CompletedPending DEF Queue, IInv
  <2> HIDE DEF new
  <2>2. /\ DOMAIN new = 1 .. Len(c) + Len(results')
        /\ \A i \in 1 .. Len(c) : new[i] = c[i]
        /\ \A i \in 1 .. Len(results') : new[Len(c) + i] = results'[i]
    BY <1>1, <1>2, <2>1, QueueShape
  <2>3. QED
    BY <1>1, <2>2
<1>5. PICK lo \in 0 .. hi : Flows(s, lo)
  BY DEF IInv, FlowInv
<1>6. Tiles(old, Job(s), lo, hi) /\ OnePiece(old, Job(s), lo, hi)
  BY <1>5 DEF Flows
<1>7. lo \in Nat /\ hi \in Nat
  BY <1>5, JobIsJob DEF IInv, TypeOK
<1>8. r.from = r.to /\ {r.from, r.to} \subseteq Int
  <2>1. 1 \in DOMAIN results
    BY <1>1
  <2>2. QED
    BY <1>1, <2>1, NumberOfPiece DEF IInv, ResultInv, Completed
<1>9. Tiles(new, Job(s), lo, hi) /\ OnePiece(new, Job(s), lo, hi)
  <2>1. old[m] = r
    BY <1>1, <1>3
  <2> HIDE DEF old, new, l, n, hi, c, r
  <2>2. /\ e \in Nat /\ m \in 1 .. e
        /\ DOMAIN old = 1 .. e /\ DOMAIN new = 1 .. e - 1
    BY <1>1, <1>3, <1>4
  <2>3. \A i \in 1 .. m - 1 : new[i] = old[i]
    BY <1>3, <1>4
  <2>4. \A i \in m .. e - 1 : new[i] = old[i + 1]
    <3> SUFFICES ASSUME NEW i \in m .. e - 1 PROVE new[i] = old[i + 1]
      OBVIOUS
    <3>1. i - l \in 1 .. n - 1 /\ (i - l) + 1 \in 1 .. n /\ l + (i - l) = i /\ l + ((i - l) + 1) = i + 1
      BY <1>1, <1>3
    <3>2. new[i] = results'[i - l] /\ old[i + 1] = results[(i - l) + 1]
      BY <1>3, <1>4, <3>1
    <3>3. QED
      BY <1>1, <3>1, <3>2
  <2> HIDE DEF e, m
  <2>5. QED
    BY <1>6, <1>7, <1>8, <2>1, <2>2, <2>3, <2>4, TilesWithout
<1>10. /\ produced' = produced /\ wire' = wire /\ budget' = budget
       /\ pending'[s].offset = pending[s].offset /\ HasPending(s)' = HasPending(s)
  BY CompletedPending DEF IInv, Completed, Drained, wireVars, HasPending
<1>11. Flows(s, lo)'
  BY <1>5, <1>9, <1>10 DEF Flows, Job
<1>12. QED
  BY <1>5, <1>10, <1>11 DEF FlowInv, Job

-----------------------------------------------------------------------------
(* A worker hands over n bytes of the answer on s. *)

Given(w, s, kind, n) ==
    /\ Busy(w) /\ worker[w].job = Job(s)
    /\ kind \in {"Full", "Head", "Chunk", "End"}
    /\ kind \in {"Full", "Head"} => worker[w].pc = "answering"
    /\ kind \in {"Head", "End"} => n = 0
    /\ n > 0 =>
        /\ n \in Sizes
        /\ ~budget[Job(s)].closed
        /\ ~Full(budget[Job(s)], n)
    /\ kind = "Chunk" => n > 0
    /\ produced[Job(s)] + n <= BodyBytes
    /\ results' = Append(results, Result(Job(s), kind, produced[Job(s)], produced[Job(s)] + n))
    /\ produced' = [produced EXCEPT ![Job(s)] = @ + n]
    /\ budget'[Job(s)].outstanding = budget[Job(s)].outstanding + n
    /\ budget'[Job(s)].closed = budget[Job(s)].closed
    /\ \A t \in Streams \ {s} : budget'[Job(t)] = budget[Job(t)]
    /\ ended' = IF kind \in {"Full", "End"} THEN ended \cup {Job(s)} ELSE ended
    /\ kind \in {"Full", "End"} => worker'[w].pc = "idle"
    /\ worker'[w].pc # "answering"
    /\ WorkersStay
    /\ UNCHANGED <<conn, requests, jobs, pending, wireVars>>

LEMMA GivenResults ==
    ASSUME IInv, NEW w \in Workers, NEW s \in Streams, NEW kind, NEW n \in Nat, Given(w, s, kind, n)
    PROVE  LET l == Len(results)
               made == produced[Job(s)]
           IN  /\ l \in Nat /\ DOMAIN results = 1 .. l /\ DOMAIN results' = 1 .. l + 1
               /\ results' \in Seq(Results) /\ Len(results') = l + 1
               /\ \A i \in 1 .. l : results'[i] = results[i]
               /\ made \in 0 .. BodyBytes /\ made \in Nat /\ produced'[Job(s)] = made + n
               /\ results'[l + 1].job = Job(s) /\ results'[l + 1].kind = kind
               /\ results'[l + 1].from = made /\ results'[l + 1].to = made + n
               /\ Job(s) \notin ended
               /\ \A t \in Streams \ {s} : Job(t) # Job(s) /\ produced'[Job(t)] = produced[Job(t)]
<1> DEFINE made == produced[Job(s)]
           r == Result(Job(s), kind, made, made + n)
<1>1. Job(s) \in Jobs
  BY JobIsJob DEF IInv
<1>2. made \in 0 .. BodyBytes /\ made \in Nat /\ made + n \in 0 .. BodyBytes
  BY <1>1, BodyAssumption DEF IInv, TypeOK, Given
<1>3. r \in Results /\ r.job = Job(s) /\ r.kind = kind /\ r.from = made /\ r.to = made + n
  BY <1>1, <1>2 DEF Result, Results, Given
<1>4. results \in Seq(Results) /\ results' = Append(results, r)
  BY DEF IInv, TypeOK, Given
<1>5. produced'[Job(s)] = made + n
  BY <1>1 DEF IInv, TypeOK, Given
<1>6. Job(s) \notin ended
  BY DEF IInv, WorkInv, Given
<1>7. \A t \in Streams \ {s} : Job(t) # Job(s) /\ produced'[Job(t)] = produced[Job(t)]
  BY JobOfStream, JobIsJob DEF IInv, TypeOK, Given
<1> HIDE DEF r, made
<1>8. /\ Len(results) \in Nat /\ DOMAIN results = 1 .. Len(results)
      /\ results' \in Seq(Results) /\ Len(results') = Len(results) + 1
      /\ DOMAIN results' = 1 .. Len(results) + 1
      /\ results'[Len(results) + 1] = r
      /\ \A i \in 1 .. Len(results) : results'[i] = results[i]
  BY <1>3, <1>4, Longer
<1>9. QED
  BY <1>2, <1>3, <1>5, <1>6, <1>7, <1>8 DEF made

LEMMA GivenWork ==
    ASSUME IInv, NEW w \in Workers, NEW s \in Streams, NEW kind, NEW n \in Nat, Given(w, s, kind, n)
    PROVE  WorkInv' /\ FreshInv'
<1>1. Busy(w) /\ worker[w].job = Job(s)
  BY DEF Given
<1>2. WorkInv'
  <2>1. \A i, k \in DOMAIN jobs' : jobs'[i] = jobs'[k] => i = k
    BY DEF IInv, WorkInv, Given
  <2>2. \A i \in DOMAIN jobs' : requests'[StreamOf(jobs'[i])] = 1 /\ jobs'[i] \notin ended'
    <3>1. \A i \in DOMAIN jobs : jobs[i] # Job(s)
      BY <1>1 DEF IInv, WorkInv
    <3>2. QED
      BY <3>1 DEF IInv, WorkInv, Given
  <2>3. \A v \in Workers : Busy(v)' => Busy(v) /\ worker'[v].job = worker[v].job
    BY DEF Given, WorkersStay
  <2>4. \A v \in Workers : Busy(v)' => worker'[v].job \notin ended'
    <3> SUFFICES ASSUME NEW v \in Workers, Busy(v)' PROVE worker[v].job \notin ended'
      BY <2>3
    <3>1. Busy(v) /\ worker[v].job \notin ended
      BY <2>3 DEF IInv, WorkInv
    <3>2. CASE kind \in {"Full", "End"}
      <4>1. v # w
        BY <3>2 DEF Given, Busy
      <4>2. worker[v].job # Job(s)
        BY <1>1, <3>1, <4>1 DEF IInv, WorkInv
      <4>3. QED
        BY <3>1, <4>2 DEF Given
    <3>3. CASE kind \notin {"Full", "End"}
      BY <3>1, <3>3 DEF Given
    <3>4. QED
      BY <3>2, <3>3
  <2>5. \A v \in Workers : Busy(v)' =>
            /\ requests'[StreamOf(worker'[v].job)] = 1
            /\ \A i \in DOMAIN jobs' : jobs'[i] # worker'[v].job
    BY <2>3 DEF IInv, WorkInv, Given
  <2>6. \A u, v \in Workers : Busy(u)' /\ Busy(v)' /\ worker'[u].job = worker'[v].job => u = v
    BY <2>3 DEF IInv, WorkInv
  <2>7. QED
    BY <2>1, <2>2, <2>4, <2>5, <2>6 DEF WorkInv
<1>3. FreshInv'
  <2>1. ASSUME NEW t \in Streams, Fresh(t)' PROVE Fresh(t) /\ t # s
    <3>1. CASE requests'[t] = 0
      <4>1. requests[s] = 1
        BY <1>1, JobOfStream DEF IInv, WorkInv
      <4>2. QED
        BY <3>1, <4>1 DEF Fresh, Given
    <3>2. CASE \E i \in DOMAIN jobs' : jobs'[i] = Job(t)
      BY <1>1, <3>2 DEF Fresh, Given, IInv, WorkInv
    <3>3. CASE \E v \in Workers : worker'[v].pc = "answering" /\ worker'[v].job = Job(t)
      <4>1. PICK v \in Workers : worker'[v].pc = "answering" /\ worker'[v].job = Job(t)
        BY <3>3
      <4>2. Busy(v) /\ worker[v].pc = "answering" /\ worker[v].job = Job(t) /\ v # w
        BY <4>1 DEF Given, WorkersStay, Busy
      <4>3. Job(t) # Job(s)
        BY <1>1, <4>2 DEF IInv, WorkInv
      <4>4. QED
        BY <4>2, <4>3 DEF Fresh
    <3>4. QED
      BY <2>1, <3>1, <3>2, <3>3 DEF Fresh, Job
  <2>2. ASSUME NEW t \in Streams, Fresh(t)' PROVE Untouched(t)'
    <3>1. t # s /\ Untouched(t)
      BY <2>1, <2>2 DEF IInv, FreshInv
    <3>2. Job(t) # Job(s) /\ produced'[Job(t)] = produced[Job(t)]
      BY <3>1, GivenResults
    <3>3. \A i \in DOMAIN results' : results'[i].job # Job(t)
      BY <3>1, <3>2, GivenResults DEF Untouched
    <3>4. Job(t) \notin ended' /\ UNCHANGED <<stage, pending>>
      BY <3>1, <3>2 DEF Untouched, Given, wireVars
    <3>5. QED
      BY <3>1, <3>2, <3>3, <3>4 DEF Untouched, HasPending, Job
  <2>3. QED
    BY <2>2 DEF FreshInv
<1>4. QED
  BY <1>2, <1>3

LEMMA GivenOrder ==
    ASSUME IInv, NEW w \in Workers, NEW s \in Streams, NEW kind, NEW n \in Nat, Given(w, s, kind, n)
    PROVE  ResultInv'
<1> DEFINE l == Len(results)
           made == produced[Job(s)]
           new == results'[l + 1]
<1>1. /\ l \in Nat /\ DOMAIN results = 1 .. l /\ DOMAIN results' = 1 .. l + 1
      /\ \A i \in 1 .. l : results'[i] = results[i]
      /\ new.job = Job(s) /\ new.kind = kind /\ new.from = made /\ new.to = made + n
      /\ made \in Nat
      /\ Job(s) \notin ended
  BY GivenResults
<1>2. UNCHANGED <<pending, stage>> /\ ended \subseteq ended'
  BY DEF Given, wireVars
<1>3. kind \in {"Full", "Head"} => Untouched(s)
  BY JobOfStream DEF Given, IInv, FreshInv, Fresh
<1>4. StreamOf(Job(s)) = s
  BY JobOfStream
<1>5. /\ kind \in {"Full", "Head"} => made = 0 /\ ~HasPending(s) /\ stage[s] = "silent"
      /\ kind \in {"Full", "Head"} => \A k \in 1 .. l : results[k].job # Job(s)
      /\ kind = "Head" => made + n = 0
      /\ kind = "Chunk" => made < made + n
      /\ kind = "Full" => Job(s) \in ended'
      /\ kind = "End" => Job(s) \in ended' /\ made = made + n
  BY <1>1, <1>3 DEF Untouched, Given
<1> HIDE DEF l, made, new
<1>6. ASSUME NEW i \in 1 .. l
      PROVE  /\ results'[i].kind \in {"Full", "Head"} =>
                /\ results'[i].from = 0
                /\ \A k \in DOMAIN results' : k < i => results'[k].job # results'[i].job
                /\ pending'[StreamOf(results'[i].job)].job = None
                /\ stage'[StreamOf(results'[i].job)] = "silent"
             /\ results'[i].kind = "Head" => results'[i].to = 0
             /\ results'[i].kind = "Chunk" => results'[i].from < results'[i].to
             /\ results'[i].kind = "Full" =>
                /\ results'[i].job \in ended'
                /\ \A k \in DOMAIN results' : results'[k].job = results'[i].job => k = i
             /\ results'[i].kind = "End" =>
                /\ results'[i].job \in ended'
                /\ results'[i].from = results'[i].to
                /\ \A k \in DOMAIN results' : k > i => results'[k].job # results'[i].job
  <2>1. i \in DOMAIN results /\ results'[i] = results[i]
    BY <1>1
  <2>2. \A k \in DOMAIN results' : k = l + 1 \/ (k \in DOMAIN results /\ results'[k] = results[k])
    BY <1>1
  <2>3. \A k \in DOMAIN results' : k < i => k \in DOMAIN results /\ results'[k] = results[k]
    BY <1>1
  <2>4. results'[l + 1].job = Job(s)
    BY <1>1 DEF new
  <2>5. /\ results[i].kind \in {"Full", "Head"} =>
            /\ results[i].from = 0
            /\ \A k \in DOMAIN results : k < i => results[k].job # results[i].job
            /\ pending[StreamOf(results[i].job)].job = None
            /\ stage[StreamOf(results[i].job)] = "silent"
        /\ results[i].kind = "Head" => results[i].to = 0
        /\ results[i].kind = "Chunk" => results[i].from < results[i].to
        /\ results[i].kind = "Full" =>
            /\ results[i].job \in ended
            /\ \A k \in DOMAIN results : results[k].job = results[i].job => k = i
        /\ results[i].kind = "End" =>
            /\ results[i].job \in ended
            /\ results[i].from = results[i].to
            /\ \A k \in DOMAIN results : k > i => results[k].job # results[i].job
    BY <2>1 DEF IInv, ResultInv, HasPending
  <2>6. results[i].kind \in {"Full", "End"} => results[i].job # Job(s)
    BY <1>1, <2>5
  <2>7. results'[i].kind = "Full" =>
            \A k \in DOMAIN results' : results'[k].job = results'[i].job => k = i
    BY <2>1, <2>2, <2>4, <2>5, <2>6
  <2>8. results'[i].kind = "End" =>
            \A k \in DOMAIN results' : k > i => results'[k].job # results'[i].job
    BY <2>1, <2>2, <2>4, <2>5, <2>6
  <2>9. results'[i].kind \in {"Full", "Head"} =>
            \A k \in DOMAIN results' : k < i => results'[k].job # results'[i].job
    BY <2>1, <2>3, <2>5
  <2>10. QED
    BY <1>2, <2>1, <2>5, <2>7, <2>8, <2>9
<1>7. \A k \in 1 .. l + 1 : (k < l + 1 => k \in 1 .. l) /\ ~(k > l + 1) /\ (k = l + 1 \/ k \in 1 .. l)
  BY <1>1
<1>8. ASSUME NEW i \in DOMAIN results', i = l + 1
      PROVE  /\ results'[i].kind \in {"Full", "Head"} =>
                /\ results'[i].from = 0
                /\ \A k \in DOMAIN results' : k < i => results'[k].job # results'[i].job
                /\ pending'[StreamOf(results'[i].job)].job = None
                /\ stage'[StreamOf(results'[i].job)] = "silent"
             /\ results'[i].kind = "Head" => results'[i].to = 0
             /\ results'[i].kind = "Chunk" => results'[i].from < results'[i].to
             /\ results'[i].kind = "Full" =>
                /\ results'[i].job \in ended'
                /\ \A k \in DOMAIN results' : results'[k].job = results'[i].job => k = i
             /\ results'[i].kind = "End" =>
                /\ results'[i].job \in ended'
                /\ results'[i].from = results'[i].to
                /\ \A k \in DOMAIN results' : k > i => results'[k].job # results'[i].job
  <2>1. results'[i] = new /\ DOMAIN results' = 1 .. l + 1
    BY <1>1, <1>8 DEF new
  <2>2. kind \in {"Full", "Head"} =>
            \A k \in DOMAIN results' : k < i => results'[k].job # results'[i].job
    BY <1>1, <1>5, <1>7, <1>8, <2>1
  <2>3. kind = "Full" => \A k \in DOMAIN results' : results'[k].job = results'[i].job => k = i
    BY <1>1, <1>5, <1>7, <1>8, <2>1
  <2>4. \A k \in DOMAIN results' : k > i => results'[k].job # results'[i].job
    BY <1>7, <1>8, <2>1
  <2>5. kind \in {"Full", "Head"} =>
            pending'[StreamOf(new.job)].job = None /\ stage'[StreamOf(new.job)] = "silent"
    BY <1>1, <1>2, <1>4, <1>5 DEF HasPending
  <2>6. QED
    BY <1>1, <1>5, <2>1, <2>2, <2>3, <2>4, <2>5
<1>9. QED
  BY <1>1, <1>6, <1>7, <1>8 DEF ResultInv, HasPending

LEMMA GivenStreams ==
    ASSUME IInv, NEW w \in Workers, NEW s \in Streams, NEW kind, NEW n \in Nat, Given(w, s, kind, n),
           NEW t \in Streams
    PROVE  PendingInv(t)' /\ WireInv(t)'
<1>1. \/ t = s /\ Job(t) = Job(s)
      \/ t # s /\ Job(t) # Job(s) /\ produced'[Job(t)] = produced[Job(t)]
  BY GivenResults
<1>2. UNCHANGED <<conn, pending, wire, declared, stage>> /\ ended \subseteq ended'
  BY DEF Given, wireVars
<1>3. PendingInv(t) /\ WireInv(t)
  BY DEF IInv
<1>4. pending[t].complete => \A i \in DOMAIN results' : results'[i].job # Job(t)
  <2> SUFFICES ASSUME pending[t].complete, NEW i \in DOMAIN results'
               PROVE  results'[i].job # Job(t)
    OBVIOUS
  <2>1. Job(t) \in ended /\ \A k \in DOMAIN results : results[k].job # Job(t)
    BY <1>3 DEF PendingInv
  <2>2. Job(t) # Job(s)
    BY <2>1, GivenResults
  <2>3. QED
    BY <2>1, <2>2, GivenResults
<1>5. PendingInv(t)'
  BY <1>2, <1>3, <1>4 DEF PendingInv, HasPending, Job
<1>6. CASE t = s
  <2>1. Job(s) \notin ended /\ produced[Job(s)] \in Nat /\ produced'[Job(s)] = produced[Job(s)] + n
    BY GivenResults
  <2>2. Len(wire[t]) \in 0 .. produced'[Job(t)]
    BY <1>3, <1>6, <2>1 DEF WireInv
  <2>3. stage[t] # "fin" /\ declared[t] = None
    BY <1>3, <1>6, <2>1 DEF WireInv
  <2>4. QED
    BY <1>2, <1>3, <1>5, <2>2, <2>3 DEF WireInv, Opening, Job
<1>7. CASE t # s
  <2>1. produced'[Job(t)] = produced[Job(t)]
    BY <1>1, <1>7
  <2>2. WireInv(t)'
    BY <1>2, <1>3, <2>1 DEF WireInv, Opening, Job
  <2>3. QED
    BY <1>5, <2>2
<1>8. QED
  BY <1>6, <1>7

(* claim() has room for the piece: it is the only one, or within the limit. *)
LEMMA GivenRoom ==
    ASSUME IInv, NEW w \in Workers, NEW s \in Streams, NEW kind, NEW n \in Nat, Given(w, s, kind, n),
           NEW lo \in 0 .. produced[Job(s)], Flows(s, lo)
    PROVE  /\ n = 0 \/ produced[Job(s)] = lo \/ produced[Job(s)] + n - lo <= Limit
           /\ n > 0 => n \in Sizes /\ lo <= Len(wire[s])
<1>1. n > 0 => /\ n \in Sizes
               /\ ~budget[Job(s)].closed
               /\ ~Full(budget[Job(s)], n)
  BY DEF Given
<1>2. n > 0 => budget[Job(s)].outstanding = produced[Job(s)] - lo /\ lo <= Len(wire[s])
  BY <1>1 DEF Flows
<1>3. produced[Job(s)] \in Nat /\ lo \in Nat
  BY GivenResults
<1>4. n > 0 => ~(produced[Job(s)] - lo > 0 /\ produced[Job(s)] - lo + n > Limit)
  BY <1>1, <1>2 DEF Full
<1>5. Limit \in Nat
  BY BudgetAssumption
<1>6. QED
  BY <1>1, <1>2, <1>3, <1>4, <1>5

LEMMA GivenFlow ==
    ASSUME IInv, NEW w \in Workers, NEW s \in Streams, NEW kind, NEW n \in Nat, Given(w, s, kind, n),
           NEW t \in Streams
    PROVE  FlowInv(t)'
<1> DEFINE c == pending[t].chunks
           l == Len(c)
           m == Len(results)
           e == l + m
           hi == produced[Job(t)]
           old == Queue(t)
           new == Queue(t)'
           last == results'[m + 1]
<1>1. /\ m \in Nat /\ DOMAIN results = 1 .. m /\ DOMAIN results' = 1 .. m + 1
      /\ results' \in Seq(Results) /\ Len(results') = m + 1
      /\ \A i \in 1 .. m : results'[i] = results[i]
      /\ last.job = Job(s) /\ last.from = produced[Job(s)] /\ last.to = produced[Job(s)] + n
  BY GivenResults
<1>2. c \in Seq(Chunks) /\ results \in Seq(Results)
  BY DEF IInv, TypeOK, Pendings
<1>3. /\ l \in Nat /\ DOMAIN old = 1 .. l + m
      /\ \A i \in 1 .. l : old[i] = c[i]
      /\ \A i \in 1 .. m : old[l + i] = results[i]
  BY <1>2, QueueShape DEF Queue
<1>4. /\ DOMAIN new = 1 .. l + (m + 1)
      /\ \A i \in 1 .. l : new[i] = c[i]
      /\ \A i \in 1 .. m + 1 : new[l + i] = results'[i]
  <2>1. new = c \o results'
    BY DEF Queue, Given
  <2> HIDE DEF new
  <2>2. /\ DOMAIN new = 1 .. Len(c) + Len(results')
        /\ \A i \in 1 .. Len(c) : new[i] = c[i]
        /\ \A i \in 1 .. Len(results') : new[Len(c) + i] = results'[i]
    BY <1>1, <1>2, <2>1, QueueShape
  <2>3. QED
    BY <1>1, <2>2
<1>5. PICK lo \in 0 .. hi : Flows(t, lo)
  BY DEF IInv, FlowInv
<1>6. Tiles(old, Job(t), lo, hi) /\ OnePiece(old, Job(t), lo, hi)
  BY <1>5 DEF Flows
<1>7. lo \in Nat /\ hi \in Nat /\ lo <= hi
  BY <1>5, JobIsJob DEF IInv, TypeOK
<1>8. /\ e \in Nat /\ DOMAIN old = 1 .. e /\ DOMAIN new = 1 .. e + 1
      /\ new[e + 1] = last
      /\ \A i \in 1 .. e : new[i] = old[i]
  <2> HIDE DEF old, new, l, m, c, last
  <2>1. e \in Nat /\ DOMAIN old = 1 .. e /\ DOMAIN new = 1 .. e + 1
    BY <1>1, <1>3, <1>4
  <2>2. new[e + 1] = last
    <3>1. e + 1 = l + (m + 1) /\ m + 1 \in 1 .. m + 1
      BY <1>1, <1>3
    <3>2. QED
      BY <1>4, <3>1 DEF last
  <2>3. ASSUME NEW i \in 1 .. e PROVE new[i] = old[i]
    <3>1. CASE i \in 1 .. l
      BY <1>3, <1>4, <3>1
    <3>2. CASE i \in l + 1 .. l + m
      <4>1. i - l \in 1 .. m /\ i - l \in 1 .. m + 1 /\ l + (i - l) = i
        BY <1>1, <1>3, <3>2
      <4>2. new[i] = results'[i - l] /\ old[i] = results[i - l]
        BY <1>3, <1>4, <4>1
      <4>3. QED
        BY <1>1, <4>1, <4>2
    <3>3. QED
      BY <1>1, <1>3, <3>1, <3>2
  <2>4. QED
    BY <2>1, <2>2, <2>3
<1>9. UNCHANGED <<pending, wire>> /\ HasPending(t)' = HasPending(t)
  BY DEF Given, wireVars, HasPending
<1>10. CASE t = s
  <2>1. produced'[Job(t)] = hi + n
    BY <1>10, GivenResults
  <2>2. n = 0 \/ hi = lo \/ hi + n - lo <= Limit
    BY <1>5, <1>10, GivenRoom
  <2>3. last.job = Job(t) /\ last.from = hi /\ last.to = hi + n
    BY <1>1, <1>10
  <2>4. Tiles(new, Job(t), lo, hi + n) /\ OnePiece(new, Job(t), lo, hi + n)
    <3> HIDE DEF old, new, e, hi, last
    <3>1. new[e + 1].job = Job(t) /\ new[e + 1].from = hi /\ new[e + 1].to = hi + n
      BY <1>8, <2>3
    <3>2. n = 0 \/ hi = lo \/ hi + n - lo <= Limit
      BY <2>2
    <3>3. QED
      BY <1>6, <1>7, <1>8, <3>1, <3>2, TilesGrow
  <2>5. ~budget'[Job(t)].closed =>
            budget'[Job(t)].outstanding = (hi + n) - lo /\ lo <= Len(wire[t])
    <3>1. /\ budget'[Job(t)].closed = budget[Job(t)].closed
          /\ budget'[Job(t)].outstanding = budget[Job(t)].outstanding + n
      BY <1>10 DEF Given
    <3>2. QED
      BY <1>5, <1>7, <3>1 DEF Flows
  <2>6. Flows(t, lo)'
    BY <1>5, <1>9, <2>1, <2>4, <2>5 DEF Flows, Job
  <2>7. lo \in 0 .. produced'[Job(t)]
    BY <1>7, <2>1
  <2>8. QED
    BY <2>6, <2>7 DEF FlowInv, Job
<1>11. CASE t # s
  <2>1. Job(t) # Job(s) /\ produced'[Job(t)] = hi
    BY <1>11, GivenResults
  <2>2. Tiles(new, Job(t), lo, hi) /\ OnePiece(new, Job(t), lo, hi)
    <3>1. new[e + 1].job # Job(t)
      BY <1>1, <1>8, <2>1
    <3> HIDE DEF old, new, e, hi
    <3>2. QED
      BY <1>6, <1>7, <1>8, <3>1, TilesBeside
  <2>3. budget'[Job(t)] = budget[Job(t)]
    BY <1>11 DEF Given
  <2>4. Flows(t, lo)'
    BY <1>5, <1>9, <2>1, <2>2, <2>3 DEF Flows, Job
  <2>5. QED
    BY <1>5, <2>1, <2>4 DEF FlowInv, Job
<1>12. QED
  BY <1>10, <1>11

LEMMA GivenAhead ==
    ASSUME IInv, NEW w \in Workers, NEW s \in Streams, NEW kind, NEW n \in Nat, Given(w, s, kind, n),
           NEW t \in Streams
    PROVE  AheadInv(t)'
<1>1. wire' = wire
  BY DEF Given, wireVars
<1>2. AheadInv(t)
  BY DEF IInv
<1>3. CASE t # s
  <2>1. produced'[Job(t)] = produced[Job(t)]
    BY <1>3, GivenResults
  <2>2. QED
    BY <1>1, <1>2, <2>1 DEF AheadInv, Job
<1>4. CASE t = s
  <2>1. produced'[Job(t)] = produced[Job(t)] + n /\ produced[Job(t)] \in Nat
    BY <1>4, GivenResults
  <2>2. CASE n = 0
    BY <1>1, <1>2, <2>1, <2>2 DEF AheadInv, Job
  <2>3. CASE n > 0
    <3>1. PICK lo \in 0 .. produced[Job(s)] : Flows(s, lo)
      BY DEF IInv, FlowInv
    <3>2. /\ produced[Job(s)] = lo \/ produced[Job(s)] + n - lo <= Limit
          /\ n \in Sizes /\ lo <= Len(wire[s])
      BY <2>3, <3>1, GivenRoom
    <3>3. Len(wire[s]) \in Nat /\ Limit \in Nat /\ lo \in Nat
      BY <1>4, <2>1, <3>1, BudgetAssumption DEF IInv, WireInv
    <3>4. \/ produced'[Job(s)] - Len(wire'[s]) <= n
          \/ produced'[Job(s)] - Len(wire'[s]) <= Limit
      BY <1>1, <1>4, <2>1, <3>2, <3>3
    <3>5. QED
      BY <1>4, <3>2, <3>4 DEF AheadInv, Job
  <2>4. QED
    BY <2>2, <2>3
<1>5. QED
  BY <1>3, <1>4

LEMMA GivenStep ==
    ASSUME IInv, NEW w \in Workers, NEW s \in Streams, NEW kind, NEW n \in Nat, Given(w, s, kind, n),
           TypeOK'
    PROVE  IInv'
<1>1. WorkInv' /\ FreshInv' /\ ResultInv'
  BY GivenWork, GivenOrder
<1>2. \A t \in Streams : PendingInv(t)' /\ WireInv(t)' /\ FlowInv(t)' /\ AheadInv(t)'
  BY GivenStreams, GivenFlow, GivenAhead
<1>3. QED
  BY <1>1, <1>2 DEF IInv

-----------------------------------------------------------------------------
(* The event loop is done with the responses of the streams in S. *)

Retired(S) ==
    /\ UNCHANGED <<requests, jobs, produced, ended, results>>
    /\ WorkersStay
    /\ \A s \in S : HasPending(s) /\ pending'[s] = NoPending /\ budget'[Job(s)].closed
    /\ \A s \in Streams \ S :
        /\ UNCHANGED <<pending[s], wire[s], declared[s], stage[s]>>
        /\ BudgetStays(Job(s))
    /\ conn' # conn => \A s \in Streams \ S : ~HasPending(s)

LEMMA NothingPending ==
    /\ NoPending.job = None /\ NoPending.chunks = <<>> /\ NoPending.offset = 0
    /\ NoPending.complete = FALSE /\ NoPending.headers = FALSE
  BY DEF NoPending

LEMMA RetiredFlow ==
    ASSUME IInv, NEW s \in Streams, pending'[s] = NoPending, UNCHANGED <<results, produced>>,
           budget'[Job(s)].closed
    PROVE  FlowInv(s)'
<1> DEFINE c == pending[s].chunks
           l == Len(c)
           n == Len(results)
           hi == produced[Job(s)]
           old == Queue(s)
           new == Queue(s)'
<1>1. c \in Seq(Chunks) /\ results \in Seq(Results)
  BY DEF IInv, TypeOK, Pendings
<1>2. /\ l \in Nat /\ n \in Nat /\ DOMAIN old = 1 .. l + n
      /\ DOMAIN c = 1 .. l
      /\ DOMAIN results = 1 .. n
      /\ \A i \in 1 .. l : old[i] = c[i] /\ c[i] \in Chunks
      /\ \A i \in 1 .. n : old[l + i] = results[i]
  BY <1>1, QueueShape DEF Queue
<1>3. new = results
  BY <1>1, NothingPending, QueueOfNone DEF Queue
<1>4. PICK lo \in 0 .. hi : Flows(s, lo)
  BY DEF IInv, FlowInv
<1>5. Tiles(old, Job(s), lo, hi) /\ OnePiece(old, Job(s), lo, hi)
  BY <1>4 DEF Flows
<1>6. lo \in Nat /\ hi \in Nat
  BY <1>4, JobIsJob DEF IInv, TypeOK
<1>7. PICK up \in lo .. hi : Tiles(new, Job(s), up, hi) /\ OnePiece(new, Job(s), up, hi)
  <2>1. CASE l = 0
    <3>1. c = <<>>
      BY <1>1, <2>1, NotEmpty
    <3>2. old = results
      BY <1>1, <3>1, QueueOfNone DEF Queue
    <3>3. lo \in lo .. hi
      BY <1>4, <1>6
    <3>4. QED
      BY <1>3, <1>5, <3>2, <3>3
  <2>2. CASE l # 0
    <3>1. l \in DOMAIN c /\ old[l] = c[l] /\ c[l] \in Chunks
      BY <1>2, <2>2
    <3>2. c[l].job = Job(s)
      BY <3>1 DEF IInv, PendingInv
    <3>3. old[l].job = Job(s) /\ {old[l].from, old[l].to} \subseteq Int
      BY <3>1, <3>2, NumberOfPiece
    <3> DEFINE e == l + n
    <3> HIDE DEF old, new, c, l, n, hi
    <3>4. /\ l + n \in Nat /\ l \in 1 .. l + n
          /\ DOMAIN new = 1 .. (l + n) - l
          /\ \A i \in 1 .. (l + n) - l : new[i] = old[l + i]
      BY <1>2, <1>3, <2>2
    <3>5. /\ old[l].to \in lo .. hi
          /\ Tiles(new, Job(s), old[l].to, hi) /\ OnePiece(new, Job(s), old[l].to, hi)
      <4>1. /\ e \in Nat /\ l \in 1 .. e /\ DOMAIN old = 1 .. e /\ DOMAIN new = 1 .. e - l
            /\ \A i \in 1 .. e - l : new[i] = old[l + i]
        BY <1>2, <3>4
      <4> HIDE DEF e
      <4>2. QED
        BY <1>5, <1>6, <3>3, <4>1, TilesAfter
    <3>6. QED
      BY <3>5
  <2>3. QED
    BY <2>1, <2>2
<1>8. produced'[Job(s)] = hi /\ ~HasPending(s)'
  BY NothingPending DEF HasPending
<1>9. Flows(s, up)'
  BY <1>7, <1>8 DEF Flows, Job
<1>10. up \in 0 .. produced'[Job(s)]
  BY <1>6, <1>7, <1>8
<1>11. QED
  BY <1>9, <1>10 DEF FlowInv, Job

LEMMA RetiredStep ==
    ASSUME IInv, NEW S \in SUBSET Streams, Retired(S), TypeOK',
           \A s \in S : WireInv(s)' /\ AheadInv(s)'
    PROVE  IInv'
<1>1. WorkInv'
  BY WorkStays DEF IInv, Retired
<1>2. FreshInv'
  <2>1. ASSUME NEW t \in Streams, Untouched(t) PROVE Untouched(t)'
    <3>1. t \notin S
      BY <2>1 DEF Untouched, Retired
    <3>2. QED
      BY <2>1, <3>1 DEF Untouched, HasPending, Retired, Job
  <2>2. QED
    BY <2>1, FreshStays DEF IInv, Retired
<1>3. ResultInv'
  <2>1. ASSUME NEW i \in DOMAIN results, results[i].kind \in {"Full", "Head"}
        PROVE  /\ pending'[StreamOf(results[i].job)].job = None
               /\ stage'[StreamOf(results[i].job)] = "silent"
    <3> DEFINE t == StreamOf(results[i].job)
    <3>1. t \in Streams
      BY NumberOfPiece, StreamOfJob DEF IInv, TypeOK
    <3>2. ~HasPending(t) /\ stage[t] = "silent"
      BY <2>1 DEF IInv, ResultInv
    <3> HIDE DEF t
    <3>3. t \notin S
      BY <3>2 DEF Retired
    <3>4. pending'[t].job = None /\ stage'[t] = "silent"
      BY <3>1, <3>2, <3>3 DEF Retired, HasPending
    <3>5. QED
      BY <3>4 DEF t
  <2>2. results' = results /\ ended' = ended
    BY DEF Retired
  <2>3. QED
    BY <2>1, <2>2 DEF IInv, ResultInv, HasPending
<1>4. ASSUME NEW t \in Streams PROVE PendingInv(t)' /\ WireInv(t)' /\ FlowInv(t)' /\ AheadInv(t)'
  <2>1. CASE t \in S
    <3>1. pending'[t] = NoPending /\ budget'[Job(t)].closed
      BY <2>1 DEF Retired
    <3>2. FlowInv(t)'
      BY <3>1, RetiredFlow DEF Retired
    <3>3. PendingInv(t)'
      <4>1. DOMAIN pending'[t].chunks = 1 .. 0
        BY <3>1, NothingPending, NoPieces
      <4>2. QED
        BY <3>1, <4>1, NothingPending DEF PendingInv, HasPending
    <3>4. QED
      BY <2>1, <3>2, <3>3
  <2>2. CASE t \notin S
    <3>1. /\ UNCHANGED <<pending[t], wire[t], declared[t], stage[t], produced, ended, results>>
          /\ BudgetStays(Job(t))
      BY <2>2 DEF Retired
    <3>2. budget[Job(t)].closed \in BOOLEAN
      BY JobIsJob DEF IInv, TypeOK, BudgetState
    <3>3. FlowInv(t)'
      BY <3>1, <3>2, FlowStays DEF IInv
    <3>4. WireInv(t)' /\ AheadInv(t)'
      BY <3>1, WireStays DEF IInv
    <3>5. HasPending(t) => conn'
      BY <2>2 DEF Retired, IInv, PendingInv
    <3>6. PendingInv(t)'
      BY <3>1, <3>5 DEF IInv, PendingInv, HasPending, Job
    <3>7. QED
      BY <3>3, <3>4, <3>6
  <2>3. QED
    BY <2>1, <2>2
<1>5. QED
  BY <1>1, <1>2, <1>3, <1>4 DEF IInv

-----------------------------------------------------------------------------
(* quiche takes more of a stream. *)

LEMMA OpeningShape ==
    ASSUME NEW s, NEW n \in Nat
    PROVE  /\ Opening(s, n) \in Seq({Job(s)} \X Nat) /\ Len(Opening(s, n)) = n
           /\ \A i \in 1 .. n : Opening(s, n)[i] = <<Job(s), i>>
<1> DEFINE S == {Job(s)} \X Nat
           o == Opening(s, n)
<1>1. o \in [1 .. n -> S] /\ \A i \in 1 .. n : o[i] = <<Job(s), i>>
  BY DEF Opening
<1>2. o \in Seq(S) /\ Len(o) = n
  <2> HIDE DEF S, o
  <2>1. o \in UNION {[1 .. m -> S] : m \in Nat}
    BY <1>1
  <2>2. o \in Seq(S)
    BY <2>1, SeqDef
  <2>3. DOMAIN o = 1 .. n
    BY <1>1
  <2>4. QED
    BY <2>2, <2>3
<1>3. QED
  BY <1>1, <1>2

(* k more bytes, and what quiche has is still the front of the answer. *)
LEMMA OpeningGrows ==
    ASSUME NEW s, NEW n \in Nat, NEW k \in Nat
    PROVE  Opening(s, n) \o [i \in 1 .. k |-> <<Job(s), n + i>>] = Opening(s, n + k)
<1> DEFINE S == {Job(s)} \X Nat
           a == Opening(s, n)
           b == [i \in 1 .. k |-> <<Job(s), n + i>>]
           c == Opening(s, n + k)
<1>1. a \in Seq(S) /\ Len(a) = n /\ \A i \in 1 .. n : a[i] = <<Job(s), i>>
  BY OpeningShape
<1>2. n + k \in Nat
  OBVIOUS
<1>3. c \in Seq(S) /\ Len(c) = n + k /\ \A i \in 1 .. n + k : c[i] = <<Job(s), i>>
  BY <1>2, OpeningShape
<1>4. b \in Seq(S) /\ Len(b) = k /\ \A i \in 1 .. k : b[i] = <<Job(s), n + i>>
  <2>1. b \in [1 .. k -> S] /\ \A i \in 1 .. k : b[i] = <<Job(s), n + i>>
    OBVIOUS
  <2> HIDE DEF S, b
  <2>2. b \in UNION {[1 .. m -> S] : m \in Nat}
    BY <2>1
  <2>3. b \in Seq(S)
    BY <2>2, SeqDef
  <2>4. DOMAIN b = 1 .. k
    BY <2>1
  <2>5. QED
    BY <2>1, <2>3, <2>4
<1> HIDE DEF S, a, b, c
<1>5. a \o b \in Seq(S) /\ Len(a \o b) = n + k
  BY <1>1, <1>4, ConcatProperties
<1>6. /\ \A i \in 1 .. n : (a \o b)[i] = a[i]
      /\ \A i \in 1 .. k : (a \o b)[n + i] = b[i]
  <2>1. /\ \A i \in 1 .. Len(a) : (a \o b)[i] = a[i]
        /\ \A i \in 1 .. Len(b) : (a \o b)[Len(a) + i] = b[i]
    <3>1. a \in Seq(S) /\ b \in Seq(S)
      BY <1>1, <1>4
    <3>2. QED
      BY <3>1, Joined
  <2>2. QED
    BY <1>1, <1>4, <2>1
<1>7. ASSUME NEW i \in 1 .. n + k PROVE (a \o b)[i] = c[i]
  <2>1. CASE i \in 1 .. n
    BY <1>1, <1>3, <1>6, <2>1
  <2>2. CASE i \notin 1 .. n
    <3>1. i - n \in 1 .. k /\ n + (i - n) = i
      BY <2>2
    <3>2. QED
      BY <1>3, <1>4, <1>6, <3>1
  <2>3. QED
    BY <2>1, <2>2
<1>8. a \o b = c
  <2> DEFINE ab == a \o b
  <2>1. /\ ab \in Seq(S) /\ Len(ab) = Len(c)
        /\ \A i \in 1 .. Len(c) : ab[i] = c[i]
    BY <1>3, <1>5, <1>7
  <2> HIDE DEF ab
  <2>2. ab = c
    BY <1>3, <2>1, SeqEqual
  <2>3. QED
    BY <2>2 DEF ab
<1>9. QED
  BY <1>8 DEF a, b, c

(* Only the response on s is touched, and it goes on. *)
Written(s) ==
    /\ HasPending(s)
    /\ UNCHANGED <<conn, requests, jobs, produced, ended, results>>
    /\ WorkersStay
    /\ \A t \in Streams \ {s} :
        /\ UNCHANGED <<pending[t], wire[t], declared[t], stage[t]>>
        /\ BudgetStays(Job(t))

LEMMA WrittenStep ==
    ASSUME IInv, NEW s \in Streams, Written(s), TypeOK',
           PendingInv(s)', WireInv(s)', FlowInv(s)', AheadInv(s)'
    PROVE  IInv'
<1>1. WorkInv'
  BY WorkStays DEF IInv, Written
<1>2. FreshInv'
  <2>1. ASSUME NEW t \in Streams, Untouched(t) PROVE Untouched(t)'
    <3>1. t # s
      BY <2>1 DEF Untouched, Written
    <3>2. QED
      BY <2>1, <3>1 DEF Untouched, HasPending, Written, Job
  <2>2. QED
    BY <2>1, FreshStays DEF IInv, Written
<1>3. ResultInv'
  <2>1. ASSUME NEW i \in DOMAIN results, results[i].kind \in {"Full", "Head"}
        PROVE  /\ pending'[StreamOf(results[i].job)].job = None
               /\ stage'[StreamOf(results[i].job)] = "silent"
    <3> DEFINE t == StreamOf(results[i].job)
    <3>1. t \in Streams
      BY NumberOfPiece, StreamOfJob DEF IInv, TypeOK
    <3>2. ~HasPending(t) /\ stage[t] = "silent"
      BY <2>1 DEF IInv, ResultInv
    <3> HIDE DEF t
    <3>3. t # s
      BY <3>2 DEF Written
    <3>4. pending'[t].job = None /\ stage'[t] = "silent"
      BY <3>1, <3>2, <3>3 DEF Written, HasPending
    <3>5. QED
      BY <3>4 DEF t
  <2>2. results' = results /\ ended' = ended
    BY DEF Written
  <2>3. QED
    BY <2>1, <2>2 DEF IInv, ResultInv, HasPending
<1>4. ASSUME NEW t \in Streams, t # s
      PROVE  PendingInv(t)' /\ WireInv(t)' /\ FlowInv(t)' /\ AheadInv(t)'
  <2>1. /\ UNCHANGED <<conn, pending[t], wire[t], declared[t], stage[t], produced, ended, results>>
        /\ BudgetStays(Job(t))
    BY <1>4 DEF Written
  <2>2. budget[Job(t)].closed \in BOOLEAN
    BY JobIsJob DEF IInv, TypeOK, BudgetState
  <2>3. FlowInv(t)'
    BY <2>1, <2>2, FlowStays DEF IInv
  <2>4. WireInv(t)' /\ AheadInv(t)'
    BY <2>1, WireStays DEF IInv
  <2>5. PendingInv(t)'
    BY <2>1 DEF IInv, PendingInv, HasPending, Job
  <2>6. QED
    BY <2>3, <2>4, <2>5
<1>5. QED
  BY <1>1, <1>2, <1>3, <1>4 DEF IInv

(* A response that is complete before its headers go is all of the answer. *)
LEMMA DeclaredIsWhole ==
    ASSUME IInv, NEW s \in Streams, HasPending(s), ~pending[s].headers, pending[s].complete
    PROVE  /\ BodyLen(pending[s].chunks) = produced[Job(s)]
           /\ pending[s].chunks = <<>> => produced[Job(s)] = 0
           /\ stage[s] = "silent" => Len(wire[s]) = 0
<1> DEFINE c == pending[s].chunks
           l == Len(c)
           n == Len(results)
           e == l + n
           hi == produced[Job(s)]
           q == Queue(s)
<1>1. c \in Seq(Chunks) /\ results \in Seq(Results)
  BY DEF IInv, TypeOK, Pendings
<1>2. /\ l \in Nat /\ n \in Nat /\ DOMAIN q = 1 .. l + n
      /\ DOMAIN c = 1 .. l /\ DOMAIN results = 1 .. n
      /\ \A i \in 1 .. l : q[i] = c[i]
      /\ \A i \in 1 .. n : q[l + i] = results[i]
  BY <1>1, QueueShape DEF Queue
<1>3. PendingInv(s) /\ WireInv(s)
  BY DEF IInv
<1>4. /\ \A i \in 1 .. l : c[i].job = Job(s)
      /\ \A i \in 1 .. n : results[i].job # Job(s)
      /\ pending[s].offset = 0
  BY <1>2, <1>3 DEF PendingInv
<1>5. PICK lo \in 0 .. hi : Flows(s, lo)
  BY DEF IInv, FlowInv
<1>6. lo \in Nat /\ hi \in Nat /\ lo <= hi /\ hi <= BodyBytes
  BY <1>5, JobIsJob, BodyAssumption DEF IInv, TypeOK
<1>7. Tiles(q, Job(s), lo, hi) /\ OnePiece(q, Job(s), lo, hi) /\ Len(wire[s]) = lo + 0
  BY <1>4, <1>5 DEF Flows
<1>8. stage[s] # "headers" /\ stage[s] # "fin"
  BY <1>3 DEF PendingInv
<1>9. stage[s] = "silent" /\ Len(wire[s]) = 0
  BY <1>3, <1>8 DEF IInv, TypeOK, WireInv
<1>10. lo = 0
  BY <1>6, <1>7, <1>9
<1> DEFINE bytes == {p \in BytesOf(q) : q[p[1]].job = Job(s)}
<1>11. Cardinality(bytes) = hi - lo
  <2> HIDE DEF q, l, n, hi, c
  <2>1. e \in Nat /\ DOMAIN q = 1 .. e
    BY <1>2
  <2> HIDE DEF e
  <2>2. QED
    BY <1>6, <1>7, <2>1, TilesCount
<1>12. bytes = BytesOf(c)
  <2>1. ASSUME NEW p \in bytes PROVE p \in BytesOf(c)
    <3> DEFINE i == p[1]
               b == p[2]
    <3>1. /\ p = <<i, b>> /\ i \in DOMAIN q /\ b \in 1 .. BodyBytes
          /\ q[i].from < b /\ b <= q[i].to /\ q[i].job = Job(s)
      BY <2>1 DEF BytesOf
    <3> HIDE DEF i, b, q, l, n, c
    <3>2. i \in 1 .. l
      <4> SUFFICES ASSUME i \notin 1 .. l PROVE FALSE
        OBVIOUS
      <4>1. i - l \in 1 .. n /\ l + (i - l) = i
        BY <1>2, <3>1
      <4>2. q[i] = results[i - l]
        BY <1>2, <4>1
      <4>3. QED
        BY <1>4, <3>1, <4>1, <4>2
    <3>3. q[i] = c[i] /\ i \in DOMAIN c
      BY <1>2, <3>2
    <3>4. QED
      BY <3>1, <3>3 DEF BytesOf
  <2>2. ASSUME NEW p \in BytesOf(c) PROVE p \in bytes
    <3> DEFINE i == p[1]
               b == p[2]
    <3>1. /\ p = <<i, b>> /\ i \in DOMAIN c /\ b \in 1 .. BodyBytes
          /\ c[i].from < b /\ b <= c[i].to
      BY <2>2 DEF BytesOf
    <3> HIDE DEF i, b, q, l, n, c
    <3>2. i \in DOMAIN q /\ q[i] = c[i] /\ c[i].job = Job(s)
      BY <1>2, <1>4, <3>1
    <3>3. QED
      BY <3>1, <3>2 DEF BytesOf
  <2>3. QED
    BY <2>1, <2>2
<1>13. c = <<>> => hi = 0
  <2> SUFFICES ASSUME c = <<>> PROVE hi = 0
    OBVIOUS
  <2>1. l = 0
    BY <1>1, NotEmpty
  <2> HIDE DEF q, l, n, hi, c
  <2>2. \A i \in DOMAIN q : q[i].job # Job(s)
    <3> SUFFICES ASSUME NEW i \in DOMAIN q PROVE q[i].job # Job(s)
      OBVIOUS
    <3>1. i \in 1 .. n /\ 0 + i = i
      BY <1>2, <2>1
    <3>2. QED
      BY <1>2, <1>4, <2>1, <3>1
  <2>3. lo = hi
    BY <1>6, <1>7, <2>2, TilesGone
  <2>4. QED
    BY <1>10, <2>3
<1>14. BodyLen(c) = hi - 0
  BY <1>10, <1>11, <1>12 DEF BodyLen
<1>15. QED
  <2> HIDE DEF hi, c
  <2>1. BodyLen(c) = hi
    BY <1>6, <1>14
  <2>2. QED
    BY <1>9, <1>13, <2>1 DEF hi, c

(* The front chunk is the next of the answer. *)
LEMMA FrontChunk ==
    ASSUME IInv, NEW s \in Streams, pending[s].headers, pending[s].chunks # <<>>,
           NEW lo \in 0 .. produced[Job(s)], Flows(s, lo)
    PROVE  LET c == Head(pending[s].chunks) IN
           /\ HasPending(s) /\ conn /\ stage[s] = "headers" /\ pending[s].job = Job(s)
           /\ c = pending[s].chunks[1] /\ c \in Chunks /\ c.job = Job(s)
           /\ c.from = lo /\ c.to \in lo + 1 .. produced[Job(s)]
           /\ Size(c) = c.to - lo
           /\ pending[s].offset \in Nat /\ pending[s].offset < c.to - lo
           /\ Left(s) = (c.to - lo) - pending[s].offset
           /\ Len(wire[s]) = lo + pending[s].offset
           /\ lo \in Nat /\ produced[Job(s)] \in Nat
<1> DEFINE q == pending[s].chunks
           c == q[1]
           l == Len(q)
           n == Len(results)
           e == l + n
           hi == produced[Job(s)]
<1>1. q \in Seq(Chunks) /\ results \in Seq(Results) /\ pending[s].offset \in Nat
  BY DEF IInv, TypeOK, Pendings
<1>2. l \in Nat \ {0} /\ DOMAIN q = 1 .. l /\ Head(q) = c /\ c \in Chunks
  BY <1>1, Shorter
<1>3. HasPending(s)
  BY NothingPending DEF IInv, PendingInv
<1>4. /\ conn /\ stage[s] = "headers" /\ pending[s].job = Job(s)
      /\ c.job = Job(s) /\ c.from < c.to
      /\ pending[s].offset < Size(c)
  <2>1. 1 \in DOMAIN q /\ q # <<>>
    BY <1>2
  <2>2. QED
    BY <1>3, <2>1 DEF IInv, PendingInv
<1>5. lo \in Nat /\ hi \in Nat
  BY JobIsJob DEF IInv, TypeOK
<1>6. /\ n \in Nat /\ DOMAIN Queue(s) = 1 .. l + n
      /\ \A i \in 1 .. l : Queue(s)[i] = q[i]
  BY <1>1, QueueShape DEF Queue
<1>7. Queue(s)[1] = c /\ e \in Nat /\ e > 0 /\ DOMAIN Queue(s) = 1 .. e
  BY <1>2, <1>6
<1>8. Tiles(Queue(s), Job(s), lo, hi) /\ Len(wire[s]) = lo + pending[s].offset
  BY <1>3 DEF Flows
<1>9. c.from = lo /\ c.to \in lo + 1 .. hi
  <2> HIDE DEF e, hi, c
  <2>1. Queue(s)[1].job = Job(s) /\ Queue(s)[1].from < Queue(s)[1].to
    BY <1>4, <1>7
  <2>2. Queue(s)[1].from = lo /\ Queue(s)[1].to \in lo + 1 .. hi
    BY <1>5, <1>7, <1>8, <2>1, TilesFirst
  <2>3. QED
    BY <1>7, <2>2
<1>10. Size(c) = c.to - lo
  BY <1>9 DEF Size
<1>11. Left(s) = (c.to - lo) - pending[s].offset
  BY <1>2, <1>10 DEF Left
<1>12. QED
  BY <1>1, <1>2, <1>3, <1>4, <1>5, <1>8, <1>9, <1>10, <1>11

LEMMA BodyGoesOn ==
    ASSUME IInv, NEW s \in Streams, pending[s].headers, pending[s].chunks # <<>>,
           NEW k \in Nat, BodyGoes(s, k)
    PROVE  /\ Len(wire[s]) \in Nat
           /\ wire'[s] = Opening(s, Len(wire[s]) + k)
           /\ Len(wire'[s]) = Len(wire[s]) + k
           /\ \A t \in Streams \ {s} : wire'[t] = wire[t]
           /\ wire' = [t \in Streams |-> wire'[t]]
<1> DEFINE n == Len(wire[s])
           c == Head(pending[s].chunks)
<1>1. PICK lo \in 0 .. produced[Job(s)] : Flows(s, lo)
  BY DEF IInv, FlowInv
<1>2. /\ c.job = Job(s) /\ c.from = lo /\ pending[s].offset \in Nat /\ lo \in Nat
      /\ n = lo + pending[s].offset
  BY <1>1, FrontChunk
<1>3. n \in Nat /\ wire[s] = Opening(s, n)
  BY <1>2 DEF IInv, WireInv
<1>4. wire' = [wire EXCEPT ![s] = @ \o [i \in 1 .. k |-> <<c.job, c.from + pending[s].offset + i>>]]
  BY DEF BodyGoes
<1>5. [i \in 1 .. k |-> <<c.job, c.from + pending[s].offset + i>>]
        = [i \in 1 .. k |-> <<Job(s), n + i>>]
  BY <1>2
<1>6. wire'[s] = wire[s] \o [i \in 1 .. k |-> <<Job(s), n + i>>]
  BY <1>4, <1>5 DEF IInv, TypeOK
<1>7. wire'[s] = Opening(s, n + k)
  <2> DEFINE more == [i \in 1 .. k |-> <<Job(s), n + i>>]
  <2>1. Opening(s, n) \o more = Opening(s, n + k)
    BY <1>3, OpeningGrows
  <2>2. wire'[s] = wire[s] \o more
    BY <1>6
  <2> HIDE DEF more, n
  <2>3. QED
    BY <1>3, <2>1, <2>2
<1>8. Len(wire'[s]) = n + k
  <2>1. n + k \in Nat
    BY <1>3
  <2> HIDE DEF n
  <2>2. QED
    BY <1>7, <2>1, OpeningShape
<1>9. \A t \in Streams \ {s} : wire'[t] = wire[t]
  BY <1>4 DEF IInv, TypeOK
<1>10. wire' = [t \in Streams |-> wire'[t]]
  BY <1>4 DEF IInv, TypeOK
<1>11. QED
  BY <1>3, <1>7, <1>8, <1>9, <1>10

(* More of the answer is with quiche, and no less than was. *)
LEMMA WireGrows ==
    ASSUME IInv, NEW s \in Streams, UNCHANGED <<produced, declared, ended>>,
           NEW n \in Nat, wire'[s] = Opening(s, n),
           Len(wire[s]) <= n, n <= produced[Job(s)],
           stage[s] = "headers", stage'[s] # "silent",
           stage'[s] = "fin" => Job(s) \in ended /\ n = produced[Job(s)]
    PROVE  WireInv(s)' /\ AheadInv(s)'
<1>1. Len(wire'[s]) = n
  BY OpeningShape
<1>2. WireInv(s) /\ AheadInv(s)
  BY DEF IInv
<1>3. produced[Job(s)] \in Nat
  BY JobIsJob DEF IInv, TypeOK
<1>4. WireInv(s)'
  BY <1>1, <1>2, <1>3 DEF WireInv, Opening, Job
<1>5. AheadInv(s)'
  <2>1. PICK m \in Sizes \cup {Limit} : produced[Job(s)] - Len(wire[s]) <= m
    BY <1>2 DEF AheadInv
  <2>2. m \in Int /\ Len(wire[s]) \in Int
    BY <1>2, <1>3, BudgetAssumption DEF WireInv
  <2>3. produced'[Job(s)] - Len(wire'[s]) <= m
    BY <1>1, <1>3, <2>1, <2>2
  <2>4. QED
    BY <2>3 DEF AheadInv, Job
<1>6. QED
  BY <1>4, <1>5

(* Part of the front chunk goes. *)
LEMMA PartStep ==
    ASSUME IInv, NEW s \in Streams, WritePart(s), TypeOK'
    PROVE  IInv'
<1>1. pending[s].headers /\ pending[s].chunks # <<>>
  BY DEF WritePart, BodyGoes
<1>2. PICK k \in 1 .. Left(s) - 1 :
        BodyGoes(s, k) /\ pending' = [pending EXCEPT ![s].offset = @ + k]
  BY DEF WritePart
<1>3. PICK lo \in 0 .. produced[Job(s)] : Flows(s, lo)
  BY DEF IInv, FlowInv
<1> DEFINE c == Head(pending[s].chunks)
           hi == produced[Job(s)]
<1>4. /\ HasPending(s) /\ conn /\ stage[s] = "headers"
      /\ c = pending[s].chunks[1]
      /\ c.to \in lo + 1 .. hi /\ Size(c) = c.to - lo
      /\ pending[s].offset \in Nat /\ pending[s].offset < c.to - lo
      /\ Left(s) = (c.to - lo) - pending[s].offset
      /\ Len(wire[s]) = lo + pending[s].offset
      /\ lo \in Nat /\ hi \in Nat
  BY <1>1, <1>3, FrontChunk
<1>5. k \in Nat /\ pending[s].offset + k < c.to - lo
  <2> DEFINE size == c.to - lo
  <2>1. size \in Nat /\ k \in 1 .. (size - pending[s].offset) - 1
    BY <1>4
  <2> HIDE DEF size
  <2>2. k \in Nat /\ pending[s].offset + k < size
    BY <1>4, <2>1
  <2>3. QED
    BY <2>2 DEF size
<1>6. /\ wire'[s] = Opening(s, Len(wire[s]) + k) /\ Len(wire'[s]) = Len(wire[s]) + k
      /\ Len(wire[s]) \in Nat
      /\ \A t \in Streams \ {s} : wire'[t] = wire[t]
  BY <1>1, <1>2, <1>5, BodyGoesOn
<1>7. /\ pending'[s] = [pending[s] EXCEPT !.offset = @ + k]
      /\ \A t \in Streams \ {s} : pending'[t] = pending[t]
      /\ UNCHANGED <<worker, budget, stage, clientVars, jobs, produced, ended, results, declared>>
  BY <1>2 DEF WritePart, BodyGoes, IInv, TypeOK
<1>8. /\ pending'[s].job = pending[s].job /\ pending'[s].headers = pending[s].headers
      /\ pending'[s].complete = pending[s].complete /\ pending'[s].chunks = pending[s].chunks
      /\ pending'[s].offset = pending[s].offset + k
  BY <1>7 DEF IInv, TypeOK, Pendings
<1>9. Written(s)
  BY <1>4, <1>6, <1>7 DEF Written, WorkersStay, Busy, clientVars, BudgetStays
<1>10. PendingInv(s)'
  <2>1. /\ PendingInv(s) /\ HasPending(s)' /\ pending[s].chunks # <<>>
        /\ UNCHANGED <<conn, stage, ended, produced, results>>
    BY <1>1, <1>4, <1>7, <1>8 DEF IInv, HasPending, clientVars
  <2>2. pending'[s].offset < Size(pending'[s].chunks[1])
    BY <1>4, <1>5, <1>8
  <2>3. QED
    BY <1>1, <1>8, <2>1, <2>2 DEF PendingInv, HasPending, Job, Size
<1>11. WireInv(s)' /\ AheadInv(s)'
  <2> DEFINE n == Len(wire[s]) + k
  <2>1. n \in Nat /\ Len(wire[s]) <= n /\ n <= hi /\ wire'[s] = Opening(s, n)
    <3>1. wire'[s] = Opening(s, n)
      BY <1>6
    <3> DEFINE o == pending[s].offset
    <3>2. /\ o \in Nat /\ lo \in Nat /\ hi \in Nat /\ k \in Nat /\ c.to \in lo + 1 .. hi
          /\ o + k < c.to - lo /\ n = (lo + o) + k /\ Len(wire[s]) = lo + o
      BY <1>4, <1>5
    <3> HIDE DEF n, o, hi, c
    <3>3. n \in Nat /\ Len(wire[s]) <= n /\ n <= hi
      BY <3>2
    <3>4. QED
      BY <3>1, <3>3
  <2>2. stage'[s] = "headers" /\ UNCHANGED <<produced, declared, ended>>
    BY <1>4, <1>7
  <2> HIDE DEF n
  <2>3. QED
    BY <1>4, <2>1, <2>2, WireGrows
<1>12. FlowInv(s)'
  <2>1. Queue(s)' = Queue(s) /\ produced' = produced /\ budget' = budget
    BY <1>7, <1>8 DEF Queue
  <2>2. Len(wire'[s]) = lo + pending'[s].offset
    BY <1>4, <1>5, <1>6, <1>8
  <2>3. ~budget'[Job(s)].closed =>
            budget'[Job(s)].outstanding = produced'[Job(s)] - lo /\ lo <= Len(wire'[s])
    BY <1>3, <1>4, <1>5, <1>6, <2>1 DEF Flows
  <2>4. Flows(s, lo)'
    BY <1>3, <2>1, <2>2, <2>3 DEF Flows, Job
  <2>5. QED
    BY <1>3, <2>1, <2>4 DEF FlowInv, Job
<1>13. QED
  BY <1>9, <1>10, <1>11, <1>12, WrittenStep

(* The front chunk leaves the queue. *)
LEMMA ChunkLeaves ==
    ASSUME IInv, NEW s \in Streams, pending[s].headers, pending[s].chunks # <<>>,
           NEW lo \in 0 .. produced[Job(s)], Flows(s, lo), UNCHANGED results
    PROVE  LET to == Head(pending[s].chunks).to
               q == Tail(pending[s].chunks) \o results
           IN  Tiles(q, Job(s), to, produced[Job(s)]) /\ OnePiece(q, Job(s), to, produced[Job(s)])
<1> DEFINE c == pending[s].chunks
           d == Tail(c)
           l == Len(c)
           n == Len(results)
           e == l + n
           hi == produced[Job(s)]
           old == Queue(s)
           new == d \o results
<1>1. c \in Seq(Chunks) /\ results \in Seq(Results)
  BY DEF IInv, TypeOK, Pendings
<1>2. /\ l \in Nat \ {0} /\ Head(c) = c[1]
      /\ d \in Seq(Chunks) /\ Len(d) = l - 1
      /\ \A i \in 1 .. l - 1 : d[i] = c[i + 1]
  BY <1>1, Shorter
<1>3. /\ n \in Nat /\ DOMAIN old = 1 .. l + n
      /\ \A i \in 1 .. l : old[i] = c[i]
      /\ \A i \in 1 .. n : old[l + i] = results[i]
  BY <1>1, QueueShape DEF Queue
<1>4. /\ DOMAIN new = 1 .. (l - 1) + n
      /\ \A i \in 1 .. l - 1 : new[i] = d[i]
      /\ \A i \in 1 .. n : new[(l - 1) + i] = results[i]
  <2> DEFINE ld == Len(d)
  <2>1. /\ DOMAIN new = 1 .. ld + n
        /\ \A i \in 1 .. ld : new[i] = d[i]
        /\ \A i \in 1 .. n : new[ld + i] = results[i]
    BY <1>1, <1>2, QueueShape
  <2>2. ld = l - 1
    BY <1>2
  <2> HIDE DEF ld, new, d, l, n
  <2>3. QED
    BY <2>1, <2>2
<1>5. /\ old[1] = Head(c) /\ Head(c).job = Job(s) /\ {Head(c).from, Head(c).to} \subseteq Int
  <2>1. Head(c).job = Job(s) /\ Head(c) \in Chunks
    BY FrontChunk
  <2>2. {Head(c).from, Head(c).to} \subseteq Int
    BY <2>1, NumberOfPiece
  <2>3. QED
    BY <1>2, <1>3, <2>1, <2>2
<1>6. lo \in Nat /\ hi \in Nat /\ Tiles(old, Job(s), lo, hi) /\ OnePiece(old, Job(s), lo, hi)
  BY JobIsJob DEF Flows, IInv, TypeOK
<1>7. /\ e \in Nat /\ 1 \in 1 .. e /\ DOMAIN old = 1 .. e /\ DOMAIN new = 1 .. e - 1
      /\ \A i \in 1 .. e - 1 : new[i] = old[1 + i]
  <2> HIDE DEF old, new, c, d, l, n
  <2>1. e \in Nat /\ 1 \in 1 .. e /\ DOMAIN old = 1 .. e /\ DOMAIN new = 1 .. e - 1
    BY <1>2, <1>3, <1>4
  <2>2. ASSUME NEW i \in 1 .. e - 1 PROVE new[i] = old[1 + i]
    <3>1. CASE i \in 1 .. l - 1
      <4>1. i + 1 \in 1 .. l /\ i + 1 = 1 + i
        BY <1>2, <3>1
      <4>2. QED
        BY <1>2, <1>3, <1>4, <3>1, <4>1
    <3>2. CASE i \notin 1 .. l - 1
      <4>1. i - (l - 1) \in 1 .. n /\ (l - 1) + (i - (l - 1)) = i /\ l + (i - (l - 1)) = 1 + i
        BY <1>2, <1>3, <3>2
      <4>2. new[i] = results[i - (l - 1)] /\ old[1 + i] = results[i - (l - 1)]
        BY <1>3, <1>4, <4>1
      <4>3. QED
        BY <4>2
    <3>3. QED
      BY <3>1, <3>2
  <2>3. QED
    BY <2>1, <2>2
<1>8. QED
  <2>1. old[1].job = Job(s) /\ {old[1].from, old[1].to} \subseteq Int
    BY <1>5
  <2> HIDE DEF old, new, c, d, l, n, e, hi
  <2>2. Tiles(new, Job(s), old[1].to, hi) /\ OnePiece(new, Job(s), old[1].to, hi)
    BY <1>6, <1>7, <2>1, TilesAfter
  <2>3. Tiles(new, Job(s), Head(c).to, hi) /\ OnePiece(new, Job(s), Head(c).to, hi)
    BY <1>5, <2>2
  <2>4. QED
    BY <2>3 DEF new, c, d, hi

LEMMA NotifyStays ==
    ASSUME TypeOK, NEW js, Notify(js)
    PROVE  /\ WorkersStay
           /\ worker' \in [Workers -> WorkerStates]
           /\ \A w \in Workers :
                /\ worker'[w].pc = worker[w].pc
                /\ worker'[w].job = worker[w].job
                /\ worker'[w].want = worker[w].want
<1>1. ASSUME NEW w \in Workers
      PROVE  /\ worker'[w] \in WorkerStates
             /\ worker'[w].pc = worker[w].pc
             /\ worker'[w].job = worker[w].job
             /\ worker'[w].want = worker[w].want
  <2>1. worker[w] \in WorkerStates
    BY DEF TypeOK
  <2>2. worker'[w] = worker[w] \/ worker'[w] = [worker[w] EXCEPT !.woken = TRUE]
    BY DEF Notify
  <2>3. QED
    BY <2>1, <2>2 DEF WorkerStates
<1>2. worker' = [w \in Workers |-> worker'[w]]
  BY DEF Notify
<1>3. worker' \in [Workers -> WorkerStates]
  BY <1>1, <1>2
<1>4. QED
  BY <1>1, <1>3 DEF WorkersStay, Busy

(* What the two ways of WriteChunk have in common. *)
LEMMA ChunkGoes ==
    ASSUME IInv, NEW s \in Streams, pending[s].chunks # <<>>, BodyGoes(s, Left(s)),
           NEW lo \in 0 .. produced[Job(s)], Flows(s, lo)
    PROVE  LET to == Head(pending[s].chunks).to IN
           /\ wire'[s] = Opening(s, to) /\ Len(wire'[s]) = to
           /\ to \in lo + 1 .. produced[Job(s)] /\ to \in Nat
           /\ Len(wire[s]) <= to
           /\ \A t \in Streams \ {s} : wire'[t] = wire[t]
           /\ wire' = [t \in Streams |-> wire'[t]]
           /\ Size(Head(pending[s].chunks)) = to - lo
           /\ HasPending(s) /\ conn /\ stage[s] = "headers" /\ pending[s].job = Job(s)
           /\ pending[s].headers
           /\ lo \in Nat /\ produced[Job(s)] \in Nat
<1> DEFINE c == Head(pending[s].chunks)
           hi == produced[Job(s)]
           o == pending[s].offset
           n == Len(wire[s])
           k == Left(s)
<1>1. pending[s].headers
  BY DEF BodyGoes
<1>2. /\ HasPending(s) /\ conn /\ stage[s] = "headers" /\ pending[s].job = Job(s)
      /\ c.to \in lo + 1 .. hi /\ Size(c) = c.to - lo
      /\ o \in Nat /\ o < c.to - lo
      /\ k = (c.to - lo) - o
      /\ n = lo + o
      /\ lo \in Nat /\ hi \in Nat
  BY <1>1, FrontChunk
<1>3. c.to \in Nat /\ k \in Nat /\ n + k = c.to /\ n <= c.to /\ n \in Nat
  <2> DEFINE to == c.to
  <2>1. /\ to \in lo + 1 .. hi /\ o \in Nat /\ o < to - lo /\ k = (to - lo) - o /\ n = lo + o
        /\ lo \in Nat /\ hi \in Nat
    BY <1>2
  <2> HIDE DEF to, hi, o, n, k
  <2>2. to \in Nat /\ k \in Nat /\ n + k = to /\ n <= to /\ n \in Nat
    BY <2>1
  <2>3. QED
    BY <2>2 DEF to
<1>4. /\ wire'[s] = Opening(s, n + k) /\ Len(wire'[s]) = n + k
      /\ \A t \in Streams \ {s} : wire'[t] = wire[t]
      /\ wire' = [t \in Streams |-> wire'[t]]
  BY <1>1, <1>3, BodyGoesOn
<1>5. wire'[s] = Opening(s, c.to) /\ Len(wire'[s]) = c.to
  <2> HIDE DEF c, n, k
  <2>1. QED
    BY <1>3, <1>4
<1>6. QED
  BY <1>1, <1>2, <1>3, <1>4, <1>5

(* A response that is not over with this chunk. *)
ChunkOnly(s) ==
    /\ pending[s].chunks # <<>>
    /\ BodyGoes(s, Left(s))
    /\ Notify({pending[s].job})
    /\ ~(pending[s].complete /\ Len(pending[s].chunks) = 1)
    /\ pending' = [pending EXCEPT ![s].chunks = Tail(@), ![s].offset = 0]
    /\ budget' = [budget EXCEPT ![pending[s].job] = Released(@, Size(Head(pending[s].chunks)))]
    /\ UNCHANGED stage

ChunkAndFin(s) ==
    /\ pending[s].chunks # <<>>
    /\ BodyGoes(s, Left(s))
    /\ Notify({pending[s].job})
    /\ pending[s].complete /\ Len(pending[s].chunks) = 1
    /\ stage' = [stage EXCEPT ![s] = "fin"]
    /\ pending' = [pending EXCEPT ![s] = NoPending]
    /\ budget' = [[budget EXCEPT ![pending[s].job] = Released(@, Size(Head(pending[s].chunks)))]
                    EXCEPT ![pending[s].job] = Closed(@)]

LEMMA TwoWays ==
    ASSUME NEW s, WriteChunk(s)
    PROVE  ChunkOnly(s) \/ ChunkAndFin(s)
  BY DEF WriteChunk, ChunkOnly, ChunkAndFin

LEMMA ChunkOnlyPending ==
    ASSUME IInv, NEW s \in Streams, ChunkOnly(s)
    PROVE  /\ pending'[s].job = pending[s].job /\ pending'[s].headers = pending[s].headers
           /\ pending'[s].complete = pending[s].complete /\ pending'[s].offset = 0
           /\ pending'[s].chunks = Tail(pending[s].chunks)
           /\ \A t \in Streams \ {s} : pending'[t] = pending[t]
           /\ PendingInv(s)'
<1> DEFINE c == pending[s].chunks
           d == pending'[s].chunks
<1>1. /\ pending'[s] = [pending[s] EXCEPT !.chunks = Tail(@), !.offset = 0]
      /\ \A t \in Streams \ {s} : pending'[t] = pending[t]
  BY DEF ChunkOnly, IInv, TypeOK
<1>2. /\ pending'[s].job = pending[s].job /\ pending'[s].headers = pending[s].headers
      /\ pending'[s].complete = pending[s].complete /\ pending'[s].offset = 0
      /\ d = Tail(c)
  BY <1>1 DEF IInv, TypeOK, Pendings
<1>3. c \in Seq(Chunks) /\ c # <<>>
  BY DEF ChunkOnly, IInv, TypeOK, Pendings
<1>4. /\ DOMAIN c = 1 .. Len(c) /\ DOMAIN d = 1 .. Len(c) - 1 /\ Len(c) \in Nat
      /\ d \in Seq(Chunks) /\ Len(d) = Len(c) - 1
      /\ \A i \in 1 .. Len(c) - 1 : d[i] = c[i + 1]
  BY <1>2, <1>3, Shorter
<1>5. PendingInv(s)
  BY DEF IInv
<1>6. UNCHANGED <<conn, stage, ended, results>> /\ pending[s].headers
  BY DEF ChunkOnly, BodyGoes, clientVars
<1> HIDE DEF c, d
<1>7. \A i \in DOMAIN d : d[i].job = Job(s) /\ d[i].from < d[i].to
  <2>1. \A i \in DOMAIN d : i + 1 \in DOMAIN c /\ d[i] = c[i + 1]
    BY <1>4
  <2>2. \A i \in DOMAIN c : c[i].job = Job(s) /\ c[i].from < c[i].to
    BY <1>5 DEF PendingInv, c
  <2>3. QED
    BY <2>1, <2>2
<1>8. d # <<>> => 0 < Size(d[1])
  <2> SUFFICES ASSUME d # <<>> PROVE 0 < Size(d[1])
    OBVIOUS
  <2>1. Len(d) # 0
    BY <1>4, NotEmpty
  <2>2. 1 \in DOMAIN d /\ d[1] \in Chunks
    BY <1>4, <2>1
  <2>3. d[1].from < d[1].to /\ d[1].from \in Int /\ d[1].to \in Int
    BY <1>7, <2>2, NumberOfPiece
  <2>4. QED
    BY <2>3 DEF Size
<1>9. PendingInv(s)'
  <2>1. HasPending(s)' = HasPending(s)
    BY <1>2 DEF HasPending
  <2>2. HasPending(s)
    BY <1>5, <1>6, NothingPending DEF PendingInv
  <2>3. QED
    BY <1>2, <1>5, <1>6, <1>7, <1>8, <2>1, <2>2 DEF PendingInv, d, Job
<1>10. QED
  BY <1>1, <1>2, <1>9 DEF c, d

LEMMA ReleasedCount ==
    ASSUME NEW b \in BudgetState, NEW n \in Nat, n <= b.outstanding
    PROVE  Released(b, n).outstanding = b.outstanding - n
  BY DEF Released, BudgetState

LEMMA ReleasedRoom ==
    ASSUME NEW b \in BudgetState, NEW n \in Nat
    PROVE  /\ Released(b, n) \in BudgetState /\ Released(b, n).closed = b.closed
           /\ Closed(b) \in BudgetState /\ Closed(b).closed = TRUE
           /\ Closed(b).outstanding = b.outstanding
           /\ Claimed(b, n) \in BudgetState /\ Claimed(b, n).closed = b.closed
           /\ Claimed(b, n).outstanding = b.outstanding + n
<1>1. ProgressWrap \in Nat \ {0}
  BY BudgetAssumption
<1>2. b.progress \in 0 .. ProgressWrap - 1 /\ b.outstanding \in Nat /\ b.closed \in BOOLEAN
  BY DEF BudgetState
<1>3. (b.progress + 1) % ProgressWrap \in 0 .. ProgressWrap - 1
  BY <1>1, <1>2
<1>4. Released(b, n) \in BudgetState /\ Released(b, n).closed = b.closed
  <2> DEFINE o == IF b.outstanding > n THEN b.outstanding - n ELSE 0
             p == (b.progress + 1) % ProgressWrap
  <2>1. o \in Nat
    BY <1>2
  <2>2. p \in 0 .. ProgressWrap - 1
    BY <1>3
  <2>3. Released(b, n) = [b EXCEPT !.outstanding = o, !.progress = p]
    BY DEF Released, BudgetState
  <2> HIDE DEF o, p
  <2>4. QED
    BY <2>1, <2>2, <2>3 DEF BudgetState
<1>6. Closed(b) \in BudgetState /\ Closed(b).closed = TRUE /\ Closed(b).outstanding = b.outstanding
  BY DEF Closed, BudgetState
<1>7. /\ Claimed(b, n) \in BudgetState /\ Claimed(b, n).closed = b.closed
      /\ Claimed(b, n).outstanding = b.outstanding + n
  BY DEF Claimed, BudgetState
<1>8. QED
  BY <1>4, <1>6, <1>7

LEMMA ChunkOnlyStep ==
    ASSUME IInv, NEW s \in Streams, ChunkOnly(s), TypeOK'
    PROVE  IInv'
<1> DEFINE c == Head(pending[s].chunks)
           hi == produced[Job(s)]
           j == Job(s)
<1>1. PICK lo \in 0 .. hi : Flows(s, lo)
  BY DEF IInv, FlowInv
<1>2. PICK to : to = c.to
  OBVIOUS
<1>3. /\ wire'[s] = Opening(s, to) /\ Len(wire'[s]) = to
      /\ to \in lo + 1 .. hi /\ to \in Nat
      /\ Len(wire[s]) <= to
      /\ \A t \in Streams \ {s} : wire'[t] = wire[t]
      /\ Size(c) = to - lo
      /\ HasPending(s) /\ conn /\ stage[s] = "headers" /\ pending[s].job = j
      /\ lo \in Nat /\ hi \in Nat
  BY <1>1, <1>2, ChunkGoes DEF ChunkOnly
<1>4. /\ pending'[s].offset = 0 /\ pending'[s].chunks = Tail(pending[s].chunks)
      /\ \A t \in Streams \ {s} : pending'[t] = pending[t]
      /\ PendingInv(s)'
  BY ChunkOnlyPending
<1>5. UNCHANGED <<clientVars, jobs, produced, ended, results, declared, stage>>
  BY DEF ChunkOnly, BodyGoes
<1>6. j \in Jobs /\ budget[j] \in BudgetState /\ Size(c) \in Nat
  <2>1. Size(c) \in Nat
    <3> HIDE DEF c, hi
    <3>1. QED
      BY <1>3
  <2>2. QED
    BY <2>1, JobIsJob DEF IInv, TypeOK
<1>7. budget'[j] = Released(budget[j], Size(c)) /\ \A k \in Jobs \ {j} : budget'[k] = budget[k]
  BY <1>3, <1>6 DEF ChunkOnly, IInv, TypeOK
<1>8. Written(s)
  <2>1. WorkersStay
    BY NotifyStays DEF ChunkOnly, IInv
  <2>2. ASSUME NEW t \in Streams \ {s} PROVE BudgetStays(Job(t))
    BY <1>7, JobIsJob, JobOfStream DEF BudgetStays, IInv
  <2>3. QED
    BY <1>3, <1>4, <1>5, <2>1, <2>2 DEF Written, clientVars
<1>9. WireInv(s)' /\ AheadInv(s)'
  <2>1. to <= produced[Job(s)] /\ stage'[s] = "headers" /\ UNCHANGED <<produced, declared, ended>>
    BY <1>3, <1>5
  <2>2. QED
    BY <1>3, <2>1, WireGrows
<1>10. FlowInv(s)'
  <2>1. /\ Queue(s)' = Tail(pending[s].chunks) \o results
        /\ produced' = produced
    BY <1>4, <1>5 DEF Queue
  <2>2. Tiles(Queue(s)', j, to, hi) /\ OnePiece(Queue(s)', j, to, hi)
    BY <1>1, <1>2, <1>5, <2>1, ChunkLeaves DEF ChunkOnly, BodyGoes
  <2>3. ~budget'[j].closed => budget'[j].outstanding = hi - to
    <3> SUFFICES ASSUME ~budget'[j].closed PROVE budget'[j].outstanding = hi - to
      OBVIOUS
    <3>1. ~budget[j].closed
      BY <1>6, <1>7, ReleasedRoom
    <3>2. budget[j].outstanding = hi - lo
      BY <1>1, <3>1 DEF Flows
    <3>3. Size(c) <= budget[j].outstanding /\ budget[j].outstanding - Size(c) = hi - to
      <4> HIDE DEF c, hi, j
      <4>1. QED
        BY <1>3, <3>2
    <3>4. Released(budget[j], Size(c)).outstanding = budget[j].outstanding - Size(c)
      <4>1. budget[j].outstanding \in Nat
        BY <1>6 DEF BudgetState
      <4>2. QED
        BY <1>6, <3>3, <4>1, ReleasedCount
    <3> HIDE DEF c, hi, j
    <3>5. QED
      BY <1>7, <3>3, <3>4
  <2>4. Len(wire'[s]) = to + pending'[s].offset /\ to <= Len(wire'[s])
    BY <1>3, <1>4
  <2>5. Flows(s, to)'
    BY <2>1, <2>2, <2>3, <2>4 DEF Flows, Job
  <2>6. to \in 0 .. produced'[j]
    <3> HIDE DEF hi
    <3>1. to \in 0 .. hi
      BY <1>3
    <3>2. QED
      BY <2>1, <3>1 DEF hi
  <2>7. QED
    BY <2>5, <2>6 DEF FlowInv, Job
<1>11. QED
  BY <1>4, <1>8, <1>9, <1>10, WrittenStep

(* The fin goes with the last byte that the worker produced. *)
LEMMA ChunkAndFinStep ==
    ASSUME IInv, NEW s \in Streams, ChunkAndFin(s), TypeOK'
    PROVE  IInv'
<1> DEFINE c == Head(pending[s].chunks)
           q == pending[s].chunks
           hi == produced[Job(s)]
           j == Job(s)
           n == Len(results)
           old == Queue(s)
<1>1. PICK lo \in 0 .. hi : Flows(s, lo)
  BY DEF IInv, FlowInv
<1>2. PICK to : to = c.to
  OBVIOUS
<1>3. /\ wire'[s] = Opening(s, to) /\ Len(wire'[s]) = to
      /\ to \in lo + 1 .. hi /\ to \in Nat
      /\ Len(wire[s]) <= to
      /\ \A t \in Streams \ {s} : wire'[t] = wire[t]
      /\ Size(c) = to - lo
      /\ HasPending(s) /\ conn /\ stage[s] = "headers" /\ pending[s].job = j
      /\ pending[s].headers
      /\ lo \in Nat /\ hi \in Nat
  BY <1>1, <1>2, ChunkGoes DEF ChunkAndFin
<1>4. /\ UNCHANGED <<clientVars, jobs, produced, ended, results, declared>>
      /\ stage'[s] = "fin" /\ \A t \in Streams \ {s} : stage'[t] = stage[t]
      /\ pending'[s] = NoPending /\ \A t \in Streams \ {s} : pending'[t] = pending[t]
  BY DEF ChunkAndFin, BodyGoes, IInv, TypeOK
<1>5. j \in Jobs /\ budget[j] \in BudgetState /\ Size(c) \in Nat
  <2>1. Size(c) \in Nat
    <3> HIDE DEF c, hi
    <3>1. QED
      BY <1>3
  <2>2. QED
    BY <2>1, JobIsJob DEF IInv, TypeOK
<1>6. budget'[j].closed /\ \A k \in Jobs \ {j} : budget'[k] = budget[k]
  <2>1. budget'[j] = Closed(Released(budget[j], Size(c))) /\ \A k \in Jobs \ {j} : budget'[k] = budget[k]
    BY <1>3, <1>5 DEF ChunkAndFin, IInv, TypeOK
  <2>2. Released(budget[j], Size(c)) \in BudgetState
    BY <1>5, ReleasedRoom
  <2>3. Closed(Released(budget[j], Size(c))).closed = TRUE
    BY <2>2, ReleasedRoom
  <2>4. QED
    BY <2>1, <2>3
<1>7. Retired({s})
  <2>1. WorkersStay
    BY NotifyStays DEF ChunkAndFin, IInv
  <2>2. ASSUME NEW t \in Streams \ {s} PROVE BudgetStays(Job(t))
    BY <1>6, JobIsJob, JobOfStream DEF BudgetStays, IInv
  <2>3. QED
    BY <1>3, <1>4, <1>6, <2>1, <2>2 DEF Retired, clientVars
<1>8. j \in ended /\ \A i \in DOMAIN results : results[i].job # j
  BY DEF IInv, PendingInv, ChunkAndFin
<1>9. to = hi
  <2>1. q \in Seq(Chunks) /\ results \in Seq(Results) /\ Len(q) = 1 /\ q # <<>>
    BY DEF IInv, TypeOK, Pendings, ChunkAndFin
  <2>2. /\ n \in Nat /\ DOMAIN old = 1 .. 1 + n
        /\ old[1] = q[1] /\ c = q[1]
        /\ DOMAIN results = 1 .. n
        /\ \A i \in 1 .. n : old[1 + i] = results[i]
    <3>1. /\ n \in Nat /\ DOMAIN old = 1 .. Len(q) + n
          /\ \A i \in 1 .. Len(q) : old[i] = q[i]
          /\ DOMAIN results = 1 .. n
          /\ \A i \in 1 .. n : old[Len(q) + i] = results[i]
      BY <2>1, QueueShape DEF Queue
    <3>2. c = q[1]
      BY <2>1, Shorter
    <3> HIDE DEF old, q, n
    <3>3. QED
      BY <2>1, <3>1, <3>2
  <2>3. c.job = j
    BY <1>1, <1>3, <2>1, FrontChunk
  <2> HIDE DEF old, q, n, j, hi, c
  <2>4. ASSUME NEW i \in DOMAIN old, old[i].job = j PROVE i = 1
    <3> SUFFICES ASSUME i # 1 PROVE FALSE
      OBVIOUS
    <3>1. i - 1 \in 1 .. n /\ 1 + (i - 1) = i
      BY <2>2
    <3>2. old[i] = results[i - 1]
      BY <2>2, <3>1
    <3>3. QED
      BY <1>8, <2>2, <2>4, <3>1, <3>2
  <2>5. Tiles(old, j, lo, hi)
    BY <1>1 DEF Flows, old, j, hi
  <2>6. 1 \in DOMAIN old /\ old[1].job = j /\ lo <= hi
    BY <1>1, <1>3, <2>2, <2>3
  <2>7. old[1].to = hi
    BY <1>3, <2>4, <2>5, <2>6, TilesAlone
  <2>8. QED
    BY <1>2, <2>2, <2>7
<1>10. WireInv(s)' /\ AheadInv(s)'
  <2>1. to <= produced[Job(s)] /\ UNCHANGED <<produced, declared, ended>>
    BY <1>3, <1>4
  <2>2. QED
    BY <1>3, <1>4, <1>8, <1>9, <2>1, WireGrows
<1>11. QED
  BY <1>7, <1>10, RetiredStep

LEMMA ClosedBudgets ==
    ASSUME TypeOK, NEW js, CloseBudgets(js)
    PROVE  /\ WorkersStay
           /\ worker' \in [Workers -> WorkerStates]
           /\ \A w \in Workers :
                /\ worker'[w].pc = worker[w].pc
                /\ worker'[w].job = worker[w].job
                /\ worker'[w].want = worker[w].want
           /\ budget' \in [Jobs -> BudgetState]
           /\ \A j \in Jobs :
                /\ BudgetStays(j)
                /\ j \in js => budget'[j].closed
                /\ j \notin js => budget'[j] = budget[j]
<1>1. ASSUME NEW j \in Jobs
      PROVE  /\ budget'[j] \in BudgetState
             /\ BudgetStays(j)
             /\ j \in js => budget'[j].closed
             /\ j \notin js => budget'[j] = budget[j]
  <2>1. budget[j] \in BudgetState
    BY DEF TypeOK
  <2>2. /\ j \in js => budget'[j] = Closed(budget[j])
        /\ j \notin js => budget'[j] = budget[j]
    BY DEF CloseBudgets
  <2>3. /\ Closed(budget[j]) \in BudgetState /\ Closed(budget[j]).closed = TRUE
        /\ Closed(budget[j]).outstanding = budget[j].outstanding
    BY <2>1 DEF Closed, BudgetState
  <2>4. QED
    BY <2>1, <2>2, <2>3 DEF BudgetStays
<1>2. budget' = [j \in Jobs |-> budget'[j]]
  BY DEF CloseBudgets
<1>3. budget' \in [Jobs -> BudgetState]
  BY <1>1, <1>2
<1>4. QED
  BY <1>1, <1>3, NotifyStays DEF CloseBudgets

LEMMA HeadersStep ==
    ASSUME IInv, NEW s \in Streams, SendHeaders(s), TypeOK'
    PROVE  IInv'
<1>1. /\ conn /\ HasPending(s) /\ ~pending[s].headers /\ stage[s] = "silent"
      /\ UNCHANGED <<clientVars, jobs, produced, ended, results, wire, worker, budget>>
  BY DEF SendHeaders, HeadersGo
<1>2. /\ pending'[s] = [pending[s] EXCEPT !.headers = TRUE]
      /\ stage'[s] = "headers"
      /\ \A t \in Streams \ {s} : pending'[t] = pending[t] /\ stage'[t] = stage[t]
  BY DEF SendHeaders, IInv, TypeOK
<1>3. /\ pending'[s].job = pending[s].job /\ pending'[s].headers = TRUE
      /\ pending'[s].complete = pending[s].complete /\ pending'[s].offset = pending[s].offset
      /\ pending'[s].chunks = pending[s].chunks
  BY <1>2 DEF IInv, TypeOK, Pendings
<1>4. /\ \A t \in Streams \ {s} : declared'[t] = declared[t]
      /\ ~pending[s].complete => declared'[s] = declared[s]
      /\ pending[s].complete => declared'[s] = BodyLen(pending[s].chunks)
  BY DEF SendHeaders, HeadersGo, IInv, TypeOK
<1>5. Written(s)
  BY <1>1, <1>2, <1>4 DEF Written, WorkersStay, Busy, clientVars, BudgetStays
<1>6. PendingInv(s)'
  BY <1>1, <1>2, <1>3 DEF IInv, PendingInv, HasPending, Job, clientVars
<1>7. WireInv(s)'
  <2>1. WireInv(s) /\ PendingInv(s)
    BY DEF IInv
  <2>2. declared[s] = None
    BY <1>1, <2>1 DEF WireInv
  <2>3. declared'[s] # None => Job(s) \in ended /\ declared'[s] = produced[Job(s)]
    <3>1. CASE pending[s].complete
      BY <1>1, <1>4, <2>1, <3>1, DeclaredIsWhole DEF PendingInv
    <3>2. CASE ~pending[s].complete
      BY <1>4, <2>2, <3>2
    <3>3. QED
      BY <3>1, <3>2
  <2>4. QED
    BY <1>1, <1>2, <2>1, <2>3 DEF WireInv, Opening, Job
<1>8. AheadInv(s)'
  BY <1>1 DEF IInv, AheadInv, Job
<1>9. FlowInv(s)'
  <2>1. PICK lo \in 0 .. produced[Job(s)] : Flows(s, lo)
    BY DEF IInv, FlowInv
  <2>2. Queue(s)' = Queue(s) /\ HasPending(s)'
    BY <1>1, <1>3 DEF Queue, HasPending
  <2>3. Flows(s, lo)'
    BY <1>1, <1>3, <2>1, <2>2 DEF Flows, Job
  <2>4. QED
    BY <1>1, <2>1, <2>3 DEF FlowInv, Job
<1>10. QED
  BY <1>5, <1>6, <1>7, <1>8, <1>9, WrittenStep

(* The Pending goes, and its budget is closed. *)
LEMMA RetiresOne ==
    ASSUME IInv, NEW s \in Streams, HasPending(s), Retire(s),
           UNCHANGED <<conn, requests, jobs, produced, ended, results, wire>>,
           \A t \in Streams \ {s} : stage'[t] = stage[t] /\ declared'[t] = declared[t]
    PROVE  Retired({s})
<1>1. CloseBudgets({pending[s].job}) /\ pending[s].job = Job(s)
  BY DEF Retire, IInv, PendingInv
<1>2. pending'[s] = NoPending /\ \A t \in Streams \ {s} : pending'[t] = pending[t]
  BY DEF Retire, IInv, TypeOK
<1>3. Job(s) \in Jobs /\ \A t \in Streams : Job(t) \in Jobs
  BY JobIsJob DEF IInv
<1>4. /\ WorkersStay
      /\ budget'[Job(s)].closed
      /\ \A t \in Streams : BudgetStays(Job(t))
  BY <1>1, <1>3, ClosedBudgets DEF IInv
<1>5. QED
  BY <1>2, <1>4 DEF Retired

LEMMA FailsStep ==
    ASSUME IInv, NEW s \in Streams, SendFails(s), TypeOK'
    PROVE  IInv'
<1>1. /\ HasPending(s) /\ Retire(s)
      /\ UNCHANGED <<conn, requests, jobs, produced, ended, results, wire, stage, declared>>
  BY DEF SendFails, clientVars, wireVars
<1>2. Retired({s})
  BY <1>1, RetiresOne
<1>3. WireInv(s)' /\ AheadInv(s)'
  BY <1>1, WireStays DEF IInv
<1>4. QED
  BY <1>2, <1>3, RetiredStep

(* All of it was produced and all of it was written. *)
LEMMA WholeIsWritten ==
    ASSUME IInv, NEW s \in Streams, HasPending(s), pending[s].complete, pending[s].chunks = <<>>
    PROVE  /\ Len(wire[s]) = produced[Job(s)]
           /\ Job(s) \in ended
<1> DEFINE n == Len(results)
           hi == produced[Job(s)]
<1>1. PICK lo \in 0 .. hi : Flows(s, lo)
  BY DEF IInv, FlowInv
<1>2. /\ pending[s].offset = 0 /\ Job(s) \in ended
      /\ \A i \in DOMAIN results : results[i].job # Job(s)
  BY DEF IInv, PendingInv
<1>3. lo \in Nat /\ hi \in Nat /\ lo <= hi
  BY <1>1, JobIsJob DEF IInv, TypeOK
<1>4. Queue(s) = results
  BY QueueOfNone DEF Queue, IInv, TypeOK
<1>5. Tiles(results, Job(s), lo, hi) /\ Len(wire[s]) = lo + 0
  BY <1>1, <1>2, <1>4 DEF Flows
<1>6. lo = hi
  <2> HIDE DEF hi
  <2>1. QED
    BY <1>2, <1>3, <1>5, TilesGone
<1>7. QED
  BY <1>2, <1>3, <1>5, <1>6

LEMMA FinStep ==
    ASSUME IInv, NEW s \in Streams, SendFin(s), TypeOK'
    PROVE  IInv'
<1>1. /\ pending[s].headers /\ pending[s].complete /\ pending[s].chunks = <<>> /\ Retire(s)
      /\ UNCHANGED <<conn, requests, jobs, produced, ended, results, wire, declared>>
      /\ stage'[s] = "fin" /\ \A t \in Streams \ {s} : stage'[t] = stage[t]
  BY DEF SendFin, clientVars, IInv, TypeOK
<1>2. HasPending(s)
  BY <1>1, NothingPending DEF IInv, PendingInv
<1>3. Retired({s})
  BY <1>1, <1>2, RetiresOne
<1>4. stage[s] = "headers"
  BY <1>1, <1>2 DEF IInv, PendingInv
<1>5. Len(wire[s]) = produced[Job(s)] /\ Job(s) \in ended
  BY <1>1, <1>2, WholeIsWritten
<1>6. WireInv(s)'
  BY <1>1, <1>4, <1>5 DEF IInv, WireInv, Opening, Job
<1>7. AheadInv(s)'
  BY <1>1 DEF IInv, AheadInv, Job
<1>8. QED
  BY <1>3, <1>6, <1>7, RetiredStep

LEMMA HeadersOnlyStep ==
    ASSUME IInv, NEW s \in Streams, SendHeadersOnly(s), TypeOK'
    PROVE  IInv'
<1>1. /\ HasPending(s) /\ ~pending[s].headers /\ stage[s] = "silent"
      /\ pending[s].complete /\ pending[s].chunks = <<>> /\ Retire(s)
      /\ UNCHANGED <<conn, requests, jobs, produced, ended, results, wire>>
      /\ stage'[s] = "fin" /\ \A t \in Streams \ {s} : stage'[t] = stage[t]
      /\ declared'[s] = BodyLen(pending[s].chunks)
      /\ \A t \in Streams \ {s} : declared'[t] = declared[t]
  BY DEF SendHeadersOnly, HeadersGo, clientVars, IInv, TypeOK
<1>2. Retired({s})
  BY <1>1, RetiresOne
<1>3. Len(wire[s]) = produced[Job(s)] /\ Job(s) \in ended
  BY <1>1, WholeIsWritten
<1>4. declared'[s] = produced[Job(s)]
  BY <1>1, DeclaredIsWhole
<1>5. WireInv(s)'
  BY <1>1, <1>3, <1>4 DEF IInv, WireInv, Opening, Job
<1>6. AheadInv(s)'
  BY <1>1 DEF IInv, AheadInv, Job
<1>7. QED
  BY <1>2, <1>5, <1>6, RetiredStep

LEMMA ConnClosedStep ==
    ASSUME IInv, ConnClosed, TypeOK'
    PROVE  IInv'
<1> DEFINE S == {s \in Streams : HasPending(s)}
           js == {pending[s].job : s \in Streams} \ {None}
<1>1. /\ UNCHANGED <<requests, jobs, produced, ended, results, wire, stage, declared>>
      /\ pending' = [s \in Streams |-> NoPending]
      /\ CloseBudgets(js)
  BY DEF ConnClosed, wireVars
<1>2. WorkersStay /\ \A j \in Jobs : BudgetStays(j) /\ (j \in js => budget'[j].closed)
  BY <1>1, ClosedBudgets DEF IInv
<1>3. ASSUME NEW s \in S PROVE pending'[s] = NoPending /\ budget'[Job(s)].closed
  <2>1. s \in Streams /\ pending[s].job = Job(s) /\ Job(s) # None /\ Job(s) \in Jobs
    BY NoneIsNoJob, JobIsJob DEF IInv, PendingInv
  <2>2. Job(s) \in js
    BY <2>1
  <2>3. QED
    BY <1>1, <1>2, <2>1, <2>2
<1>4. ASSUME NEW s \in Streams \ S PROVE pending'[s] = pending[s] /\ BudgetStays(Job(s)) /\ ~HasPending(s)
  BY <1>1, <1>2, NotPending, JobIsJob DEF IInv
<1>5. Retired(S)
  <2> HIDE DEF js
  <2>1. \A s \in S : HasPending(s)
    OBVIOUS
  <2> HIDE DEF S
  <2>2. QED
    BY <1>1, <1>2, <1>3, <1>4, <2>1 DEF Retired
<1>6. \A s \in S : WireInv(s)' /\ AheadInv(s)'
  BY <1>1, WireStays DEF IInv
<1>7. S \in SUBSET Streams
  OBVIOUS
<1>8. QED
  <2> HIDE DEF S
  <2>1. QED
    BY <1>5, <1>6, <1>7, RetiredStep

-----------------------------------------------------------------------------
(* The actions are such steps, and keep the types. *)

LEMMA IdleType == Idle \in WorkerStates /\ Idle.pc = "idle"
  BY BudgetAssumption DEF Idle, WorkerStates

(* One worker goes on to x. *)
LEMMA OneWorker ==
    ASSUME TypeOK, NEW w \in Workers, NEW x \in WorkerStates, worker' = [worker EXCEPT ![w] = x],
           x.pc # "idle" => x.job \in Jobs,
           x.pc = "parked" => x.want \in Sizes
    PROVE  /\ worker' \in [Workers -> WorkerStates]
           /\ \A v \in Workers :
                /\ Busy(v)' => worker'[v].job \in Jobs
                /\ worker'[v].pc = "parked" => worker'[v].want \in Sizes
           /\ worker'[w] = x /\ \A v \in Workers \ {w} : worker'[v] = worker[v]
           /\ x.pc = "idle" \/ (Busy(w) /\ x.job = worker[w].job /\ x.pc # "answering")
                => WorkersStay
<1>1. worker'[w] = x /\ \A v \in Workers \ {w} : worker'[v] = worker[v]
  BY DEF TypeOK
<1>2. worker' \in [Workers -> WorkerStates]
  BY DEF TypeOK
<1>3. ASSUME NEW v \in Workers
      PROVE  /\ Busy(v)' => worker'[v].job \in Jobs
             /\ worker'[v].pc = "parked" => worker'[v].want \in Sizes
  BY <1>1 DEF TypeOK, Busy
<1>4. x.pc = "idle" \/ (Busy(w) /\ x.job = worker[w].job /\ x.pc # "answering") => WorkersStay
  BY <1>1 DEF WorkersStay, Busy
<1>5. QED
  BY <1>1, <1>2, <1>3, <1>4

(* The state a worker steps from. *)
LEMMA WorkerType ==
    ASSUME TypeOK, NEW w \in Workers
    PROVE  /\ worker[w] \in WorkerStates
           /\ worker[w].pc \in {"idle", "answering", "streaming", "parked"}
           /\ worker[w].want \in Sizes \cup {0} /\ worker[w].seen \in 0 .. ProgressWrap - 1
           /\ worker[w].woken \in BOOLEAN
           /\ Busy(w) => /\ worker[w].job \in Jobs
                         /\ budget[worker[w].job] \in BudgetState
           /\ worker[w].pc = "parked" => worker[w].want \in Sizes
<1>1. worker[w] \in WorkerStates
  BY DEF TypeOK
<1>2. QED
  BY <1>1 DEF TypeOK, WorkerStates

LEMMA QuietType ==
    ASSUME TypeOK, Quiet, worker' \in [Workers -> WorkerStates],
           \A v \in Workers :
                /\ Busy(v)' => worker'[v].job \in Jobs
                /\ worker'[v].pc = "parked" => worker'[v].want \in Sizes,
           budget' \in [Jobs -> BudgetState],
           open' \in SUBSET Streams, uploads' \in SUBSET Streams
    PROVE  TypeOK'
  BY DEF Quiet, TypeOK, wireVars

LEMMA BudgetsAsTheyAre == ASSUME UNCHANGED budget, NEW j PROVE BudgetStays(j)
  BY DEF BudgetStays

(* Only one worker's own state changes. *)
LEMMA OneQuiet ==
    ASSUME IInv, NEW w \in Workers, NEW x \in WorkerStates, worker' = [worker EXCEPT ![w] = x],
           x.pc # "idle" => x.job \in Jobs,
           x.pc = "parked" => x.want \in Sizes,
           x.pc = "idle" \/ (Busy(w) /\ x.job = worker[w].job /\ x.pc # "answering"),
           budget' \in [Jobs -> BudgetState], \A j \in Jobs : BudgetStays(j),
           UNCHANGED <<clientVars, jobs, produced, ended, results, pending, wireVars>>
    PROVE  IInv' /\ TypeOK'
<1>1. TypeOK
  BY DEF IInv
<1>2. /\ worker' \in [Workers -> WorkerStates]
      /\ \A v \in Workers :
            /\ Busy(v)' => worker'[v].job \in Jobs
            /\ worker'[v].pc = "parked" => worker'[v].want \in Sizes
      /\ WorkersStay
  BY <1>1, OneWorker
<1>3. Quiet
  BY <1>2 DEF Quiet, clientVars
<1>4. TypeOK'
  <2>1. open' \in SUBSET Streams /\ uploads' \in SUBSET Streams
    BY <1>1 DEF TypeOK, clientVars
  <2>2. QED
    BY <1>1, <1>2, <1>3, <2>1, QuietType
<1>5. QED
  BY <1>3, <1>4, QuietStep

LEMMA ParkStep ==
    ASSUME IInv, NEW w \in Workers, ParkChunk(w) \/ ParkAgain(w)
    PROVE  IInv'
<1> DEFINE j == worker[w].job
<1>1. TypeOK
  BY DEF IInv
<1>2. /\ UNCHANGED <<clientVars, jobs, produced, ended, results, budget, pending, wireVars>>
      /\ Busy(w)
  BY DEF ParkChunk, ParkAgain, Busy
<1>3. j \in Jobs /\ budget[j] \in BudgetState /\ budget[j].progress \in 0 .. ProgressWrap - 1
  BY <1>1, <1>2, WorkerType DEF BudgetState
<1>4. PICK x \in WorkerStates :
        /\ worker' = [worker EXCEPT ![w] = x]
        /\ x.pc = "parked" /\ x.job = j /\ x.want \in Sizes
  <2>1. CASE ParkChunk(w)
    <3>1. PICK n \in Sizes :
            worker' = [worker EXCEPT ![w].pc = "parked", ![w].want = n,
                        ![w].seen = budget[j].progress, ![w].woken = FALSE]
      BY <2>1 DEF ParkChunk
    <3> DEFINE x == [worker[w] EXCEPT !.pc = "parked", !.want = n,
                        !.seen = budget[j].progress, !.woken = FALSE]
    <3>2. worker' = [worker EXCEPT ![w] = x]
      BY <1>1, <3>1 DEF TypeOK
    <3>3. x \in WorkerStates /\ x.pc = "parked" /\ x.job = j /\ x.want = n
      BY <1>1, <1>3, WorkerType DEF WorkerStates
    <3>4. QED
      BY <3>2, <3>3
  <2>2. CASE ParkAgain(w)
    <3>1. /\ worker' = [worker EXCEPT ![w].seen = budget[j].progress, ![w].woken = FALSE]
          /\ worker[w].pc = "parked"
      BY <2>2 DEF ParkAgain
    <3> DEFINE x == [worker[w] EXCEPT !.seen = budget[j].progress, !.woken = FALSE]
    <3>2. worker' = [worker EXCEPT ![w] = x]
      BY <1>1, <3>1 DEF TypeOK
    <3>3. x \in WorkerStates /\ x.pc = "parked" /\ x.job = j /\ x.want = worker[w].want
      BY <1>1, <1>3, <3>1, WorkerType DEF WorkerStates
    <3>4. worker[w].want \in Sizes
      BY <1>1, <3>1, WorkerType
    <3>5. QED
      BY <3>2, <3>3, <3>4
  <2>3. QED
    BY <2>1, <2>2
<1>5. budget' \in [Jobs -> BudgetState] /\ \A k \in Jobs : BudgetStays(k)
  BY <1>1, <1>2, BudgetsAsTheyAre DEF TypeOK
<1>6. x.pc # "idle" /\ x.pc # "answering"
  BY <1>4
<1>7. QED
  <2>1. /\ x.pc # "idle" => x.job \in Jobs
        /\ x.pc = "parked" => x.want \in Sizes
        /\ x.pc = "idle" \/ (Busy(w) /\ x.job = worker[w].job /\ x.pc # "answering")
    BY <1>2, <1>3, <1>4, <1>6
  <2>2. worker' = [worker EXCEPT ![w] = x]
        /\ UNCHANGED <<clientVars, jobs, produced, ended, results, pending, wireVars>>
    BY <1>2, <1>4
  <2>3. QED
    BY <1>5, <2>1, <2>2, OneQuiet

LEMMA GiveUpStep ==
    ASSUME IInv, NEW w \in Workers, StreamGone(w) \/ WakeRefused(w) \/ Stall(w)
    PROVE  IInv'
<1> DEFINE j == worker[w].job
<1>1. TypeOK
  BY DEF IInv
<1>2. /\ UNCHANGED <<clientVars, jobs, produced, ended, results, pending, wireVars>>
      /\ worker' = [worker EXCEPT ![w] = Idle]
      /\ budget' = budget \/ budget' = [budget EXCEPT ![j] = Closed(@)]
      /\ Busy(w)
  BY DEF StreamGone, WakeRefused, Stall, Busy
<1>3. j \in Jobs /\ budget[j] \in BudgetState
  BY <1>1, <1>2, WorkerType
<1>4. /\ Closed(budget[j]) \in BudgetState /\ Closed(budget[j]).closed = TRUE
      /\ Closed(budget[j]).outstanding = budget[j].outstanding
  BY <1>3 DEF Closed, BudgetState
<1>5. budget' \in [Jobs -> BudgetState] /\ \A k \in Jobs : BudgetStays(k)
  <2>1. CASE budget' = budget
    BY <1>1, <2>1, BudgetsAsTheyAre DEF TypeOK
  <2>2. CASE budget' = [budget EXCEPT ![j] = Closed(@)]
    BY <1>1, <1>3, <1>4, <2>2 DEF TypeOK, BudgetStays
  <2>3. QED
    BY <1>2, <2>1, <2>2
<1>6. QED
  BY <1>2, <1>5, IdleType, OneQuiet

LEMMA UploadStep ==
    ASSUME IInv, NEW s \in Streams, UploadEnds(s) \/ UploadUnwanted(s)
    PROVE  IInv'
<1>1. TypeOK
  BY DEF IInv
<1>2. UNCHANGED <<conn, requests, workVars, results, budget, pending, wireVars>>
  BY DEF UploadEnds, UploadUnwanted
<1>3. Quiet
  BY <1>2, BudgetsAsTheyAre DEF Quiet, workVars, WorkersStay, Busy
<1>4. open' \in SUBSET Streams /\ uploads' \in SUBSET Streams
  BY <1>1 DEF UploadEnds, UploadUnwanted, TypeOK
<1>5. TypeOK'
  BY <1>1, <1>2, <1>3, <1>4, QuietType DEF TypeOK, workVars, Busy
<1>6. QED
  BY <1>3, <1>5, QuietStep

(* The results, the responses and the wire are as they were. *)
LEMMA StreamsStay ==
    ASSUME IInv, UNCHANGED <<conn, produced, ended, results, budget, pending, wireVars>>
    PROVE  /\ ResultInv'
           /\ \A s \in Streams :
                /\ PendingInv(s)' /\ WireInv(s)' /\ FlowInv(s)' /\ AheadInv(s)'
                /\ Untouched(s) => Untouched(s)'
<1>1. ResultInv'
  BY DEF IInv, ResultInv, HasPending, wireVars
<1>2. ASSUME NEW s \in Streams PROVE PendingInv(s)'
  BY DEF IInv, PendingInv, HasPending, wireVars
<1>3. ASSUME NEW s \in Streams PROVE WireInv(s)' /\ AheadInv(s)'
  BY WireStays DEF IInv, wireVars
<1>4. ASSUME NEW s \in Streams PROVE FlowInv(s)'
  <2>1. budget[Job(s)].closed \in BOOLEAN
    BY JobIsJob DEF IInv, TypeOK, BudgetState
  <2>2. QED
    BY <2>1, BudgetsAsTheyAre, FlowStays DEF IInv, wireVars
<1>5. ASSUME NEW s \in Streams, Untouched(s) PROVE Untouched(s)'
  BY <1>5 DEF Untouched, HasPending, wireVars
<1>6. QED
  BY <1>1, <1>2, <1>3, <1>4, <1>5

LEMMA RequestStep ==
    ASSUME IInv, NEW s \in Streams, Request(s)
    PROVE  IInv'
<1> DEFINE j == Job(s)
           n == Len(jobs)
<1>1. TypeOK /\ MaxRequests = 1 /\ WorkInv
  BY DEF IInv
<1>2. /\ requests[s] = 0
      /\ requests'[s] = 1 /\ \A t \in Streams \ {s} : requests'[t] = requests[t]
      /\ requests' \in [Streams -> 0 .. MaxRequests]
      /\ jobs' = Append(jobs, j)
  BY <1>1 DEF Request, TypeOK, Job
<1>3. j \in Jobs /\ jobs \in Seq(Jobs)
  BY <1>1, JobIsJob DEF TypeOK
<1>4. /\ n \in Nat /\ DOMAIN jobs = 1 .. n /\ DOMAIN jobs' = 1 .. n + 1
      /\ jobs' \in Seq(Jobs) /\ jobs'[n + 1] = j
      /\ \A i \in 1 .. n : jobs'[i] = jobs[i]
  BY <1>2, <1>3, Longer
<1>5. UNCHANGED <<conn, worker, produced, ended, results, budget, pending, wireVars>>
  BY DEF Request
<1>6. TypeOK'
  <2>1. open' \in SUBSET Streams /\ uploads' \in SUBSET Streams
    BY <1>1 DEF Request, TypeOK
  <2>2. QED
    BY <1>1, <1>2, <1>4, <1>5, <2>1 DEF TypeOK, Busy, wireVars
<1>7. Untouched(s)
  BY <1>2 DEF IInv, FreshInv, Fresh
<1>8. /\ \A i \in 1 .. n : jobs[i] # j
      /\ \A w \in Workers : Busy(w) => worker[w].job # j
  BY <1>1, <1>2, <1>4, JobOfStream DEF WorkInv
<1>9. \A t \in Streams : requests[t] = 1 => requests'[t] = 1
  BY <1>2
<1>10. \A k \in Jobs : requests[StreamOf(k)] = 1 => requests'[StreamOf(k)] = 1
  BY <1>1, <1>9, StreamOfJob
<1>11. WorkInv'
  <2>1. \A i \in DOMAIN jobs' : i = n + 1 \/ (i \in DOMAIN jobs /\ jobs'[i] = jobs[i] /\ jobs[i] # j)
    BY <1>4, <1>8
  <2> HIDE DEF n, j
  <2>2. \A i, k \in DOMAIN jobs' : jobs'[i] = jobs'[k] => i = k
    BY <1>1, <1>4, <2>1 DEF WorkInv
  <2>3. \A i \in DOMAIN jobs' : requests'[StreamOf(jobs'[i])] = 1 /\ jobs'[i] \notin ended'
    <3>1. requests'[StreamOf(j)] = 1 /\ j \notin ended
      BY <1>2, <1>7, JobOfStream DEF Untouched, j
    <3>2. \A i \in DOMAIN jobs : jobs[i] \in Jobs
      BY <1>3
    <3>3. QED
      BY <1>1, <1>4, <1>5, <1>10, <2>1, <3>1, <3>2 DEF WorkInv
  <2>4. \A w \in Workers : Busy(w)' =>
            /\ requests'[StreamOf(worker'[w].job)] = 1
            /\ worker'[w].job \notin ended'
            /\ \A i \in DOMAIN jobs' : jobs'[i] # worker'[w].job
    <3> SUFFICES ASSUME NEW w \in Workers, Busy(w)
                 PROVE  /\ requests'[StreamOf(worker[w].job)] = 1
                        /\ worker[w].job \notin ended
                        /\ \A i \in DOMAIN jobs' : jobs'[i] # worker[w].job
      BY <1>5 DEF Busy
    <3>1. worker[w].job \in Jobs
      BY <1>1 DEF TypeOK
    <3>2. QED
      BY <1>1, <1>4, <1>8, <1>10, <2>1, <3>1 DEF WorkInv
  <2>5. \A v, w \in Workers : Busy(v)' /\ Busy(w)' /\ worker'[v].job = worker'[w].job => v = w
    BY <1>1, <1>5 DEF WorkInv, Busy
  <2>6. QED
    BY <2>2, <2>3, <2>4, <2>5 DEF WorkInv
<1>12. FreshInv'
  <2>1. ASSUME NEW t \in Streams, Fresh(t)' PROVE Untouched(t)
    <3>1. CASE t = s
      BY <1>7, <3>1
    <3>2. CASE t # s
      <4>1. Fresh(t)
        <5>1. CASE requests'[t] = 0
          BY <1>2, <3>2, <5>1 DEF Fresh
        <5>2. CASE \E i \in DOMAIN jobs' : jobs'[i] = Job(t)
          <6>1. Job(t) # j
            BY <3>2, JobOfStream
          <6>2. \E i \in DOMAIN jobs : jobs[i] = Job(t)
            BY <1>4, <5>2, <6>1
          <6>3. QED
            BY <6>2 DEF Fresh
        <5>3. CASE \E w \in Workers : worker'[w].pc = "answering" /\ worker'[w].job = Job(t)
          BY <1>5, <5>3 DEF Fresh
        <5>4. QED
          BY <2>1, <5>1, <5>2, <5>3 DEF Fresh, Job
      <4>2. QED
        BY <4>1 DEF IInv, FreshInv
    <3>3. QED
      BY <3>1, <3>2
  <2>2. QED
    BY <1>5, <2>1, StreamsStay DEF FreshInv
<1>13. QED
  BY <1>5, <1>6, <1>11, <1>12, StreamsStay DEF IInv

LEMMA TakeJobStep ==
    ASSUME IInv, NEW w \in Workers, TakeJob(w)
    PROVE  IInv'
<1> DEFINE j == jobs[1]
           n == Len(jobs)
           x == [worker[w] EXCEPT !.pc = "answering", !.job = j]
<1>1. TypeOK /\ MaxRequests = 1 /\ WorkInv
  BY DEF IInv
<1>2. jobs \in Seq(Jobs) /\ jobs # <<>> /\ jobs' = Tail(jobs)
  BY <1>1 DEF TypeOK, TakeJob
<1>3. /\ n \in Nat \ {0} /\ DOMAIN jobs = 1 .. n /\ Head(jobs) = j /\ j \in Jobs
      /\ jobs' \in Seq(Jobs) /\ DOMAIN jobs' = 1 .. n - 1
      /\ \A i \in 1 .. n - 1 : jobs'[i] = jobs[i + 1]
  BY <1>2, Shorter
<1>4. UNCHANGED <<clientVars, produced, ended, results, budget, pending, wireVars>>
      /\ worker' = [worker EXCEPT ![w] = x] /\ ~Busy(w)
  BY <1>1, <1>3 DEF TakeJob, Busy, TypeOK
<1>5. x \in WorkerStates /\ x.pc = "answering" /\ x.job = j
  BY <1>1, <1>3, WorkerType DEF WorkerStates
<1>6. /\ worker' \in [Workers -> WorkerStates]
      /\ \A v \in Workers :
            /\ Busy(v)' => worker'[v].job \in Jobs
            /\ worker'[v].pc = "parked" => worker'[v].want \in Sizes
      /\ worker'[w] = x /\ \A v \in Workers \ {w} : worker'[v] = worker[v]
  <2> HIDE DEF x, j
  <2>1. QED
    BY <1>1, <1>3, <1>4, <1>5, OneWorker
<1>7. TypeOK'
  BY <1>1, <1>3, <1>4, <1>6 DEF TypeOK, clientVars, wireVars
<1>8. \A i \in DOMAIN jobs' : i + 1 \in DOMAIN jobs /\ i + 1 # 1 /\ jobs'[i] = jobs[i + 1] /\ i \in Int
  BY <1>3
<1>9. 1 \in DOMAIN jobs /\ j = jobs[1]
  BY <1>3
<1>10. \A i \in DOMAIN jobs' : jobs'[i] # j
  BY <1>1, <1>8, <1>9 DEF WorkInv
<1>11. requests[StreamOf(j)] = 1 /\ j \notin ended /\ \A v \in Workers : Busy(v) => worker[v].job # j
  BY <1>1, <1>9 DEF WorkInv
<1>12. \A v \in Workers : v = w \/ worker'[v] = worker[v]
  BY <1>6
<1>13. worker'[w].pc = "answering" /\ worker'[w].job = j
  BY <1>5, <1>6
<1> HIDE DEF x, j, n
<1>14. WorkInv'
  <2>1. \A i, k \in DOMAIN jobs' : jobs'[i] = jobs'[k] => i = k
    BY <1>1, <1>8 DEF WorkInv
  <2>2. \A i \in DOMAIN jobs' : requests'[StreamOf(jobs'[i])] = 1 /\ jobs'[i] \notin ended'
    BY <1>1, <1>4, <1>8 DEF WorkInv, clientVars
  <2>3. ASSUME NEW v \in Workers, Busy(v)'
        PROVE  /\ requests'[StreamOf(worker'[v].job)] = 1
               /\ worker'[v].job \notin ended'
               /\ \A i \in DOMAIN jobs' : jobs'[i] # worker'[v].job
    <3>1. CASE v = w
      BY <1>4, <1>10, <1>11, <1>13, <3>1 DEF clientVars
    <3>2. CASE v # w
      <4>1. worker'[v] = worker[v] /\ Busy(v)
        BY <1>12, <2>3, <3>2 DEF Busy
      <4>2. QED
        BY <1>1, <1>4, <1>8, <4>1 DEF WorkInv, clientVars
    <3>3. QED
      BY <3>1, <3>2
  <2>4. ASSUME NEW u \in Workers, NEW v \in Workers, Busy(u)', Busy(v)', worker'[u].job = worker'[v].job
        PROVE  u = v
    <3>1. u # w => worker'[u] = worker[u] /\ Busy(u)
      BY <1>12, <2>4 DEF Busy
    <3>2. v # w => worker'[v] = worker[v] /\ Busy(v)
      BY <1>12, <2>4 DEF Busy
    <3>3. QED
      BY <1>1, <1>11, <1>13, <2>4, <3>1, <3>2 DEF WorkInv
  <2>5. QED
    BY <2>1, <2>2, <2>3, <2>4 DEF WorkInv
<1>15. FreshInv'
  <2>1. ASSUME NEW t \in Streams, Fresh(t)' PROVE Fresh(t)
    <3>1. CASE requests'[t] = 0
      BY <1>4, <3>1 DEF Fresh, clientVars
    <3>2. CASE \E i \in DOMAIN jobs' : jobs'[i] = Job(t)
      BY <1>8, <3>2 DEF Fresh
    <3>3. CASE \E v \in Workers : worker'[v].pc = "answering" /\ worker'[v].job = Job(t)
      <4>1. PICK v \in Workers : worker'[v].pc = "answering" /\ worker'[v].job = Job(t)
        BY <3>3
      <4>2. CASE v = w
        BY <1>9, <1>13, <4>1, <4>2 DEF Fresh
      <4>3. CASE v # w
        BY <1>12, <4>1, <4>3 DEF Fresh
      <4>4. QED
        BY <4>2, <4>3
    <3>4. QED
      BY <2>1, <3>1, <3>2, <3>3 DEF Fresh, Job
  <2>2. \A t \in Streams : Untouched(t) => Untouched(t)'
    BY <1>4, StreamsStay DEF clientVars
  <2>3. QED
    BY <2>1, <2>2 DEF IInv, FreshInv
<1>16. QED
  BY <1>4, <1>7, <1>14, <1>15, StreamsStay DEF IInv, clientVars

(* A worker hands over a result and goes on to x. *)
LEMMA HandOverStep ==
    ASSUME IInv, NEW w \in Workers, NEW x \in WorkerStates, NEW kind \in {"Full", "Head", "Chunk", "End"},
           Busy(w), worker' = [worker EXCEPT ![w] = x],
           \/ kind # "Chunk" /\ HandOverEmpty(worker[w].job, kind)
           \/ kind \in {"Full", "Chunk"} /\ \E n \in Sizes : HandOver(worker[w].job, kind, n),
           kind \in {"Full", "Head"} => worker[w].pc = "answering",
           IF kind \in {"Full", "End"}
           THEN x.pc = "idle" /\ ended' = ended \cup {worker[w].job}
           ELSE x.pc = "streaming" /\ x.job = worker[w].job /\ ended' = ended,
           UNCHANGED <<clientVars, jobs, pending, wireVars>>
    PROVE  IInv'
<1>1. TypeOK /\ MaxRequests = 1
  BY DEF IInv
<1>2. worker[w].job \in Jobs /\ budget[worker[w].job] \in BudgetState
  BY <1>1, WorkerType
<1>3. PICK s \in Streams : worker[w].job = Job(s)
  BY <1>1, <1>2, StreamOfJob
<1>4. Job(s) \in Jobs /\ budget[Job(s)] \in BudgetState /\ produced[Job(s)] \in 0 .. BodyBytes
  BY <1>1, <1>2, <1>3 DEF TypeOK
<1>5. /\ worker' \in [Workers -> WorkerStates]
      /\ \A v \in Workers :
            /\ Busy(v)' => worker'[v].job \in Jobs
            /\ worker'[v].pc = "parked" => worker'[v].want \in Sizes
      /\ worker'[w] = x
      /\ WorkersStay
  <2>1. x.pc # "idle" => x.job \in Jobs
    BY <1>2
  <2>2. x.pc # "parked"
    OBVIOUS
  <2>3. x.pc = "idle" \/ (Busy(w) /\ x.job = worker[w].job /\ x.pc # "answering")
    OBVIOUS
  <2>4. QED
    BY <1>1, <2>1, <2>2, <2>3, OneWorker
<1>6. PICK n \in Nat :
        /\ kind \in {"Head", "End"} => n = 0
        /\ kind = "Chunk" => n > 0
        /\ n > 0 => n \in Sizes /\ ~budget[Job(s)].closed /\ ~Full(budget[Job(s)], n)
        /\ produced[Job(s)] + n <= BodyBytes
        /\ results' = Append(results, Result(Job(s), kind, produced[Job(s)], produced[Job(s)] + n))
        /\ produced' = [produced EXCEPT ![Job(s)] = @ + n]
        /\ (budget' = budget /\ n = 0) \/ budget' = [budget EXCEPT ![Job(s)] = Claimed(@, n)]
  <2>1. CASE kind # "Chunk" /\ HandOverEmpty(Job(s), kind)
    <3>1. /\ results' = Append(results, Result(Job(s), kind, produced[Job(s)], produced[Job(s)]))
          /\ budget' = budget /\ produced' = produced
      BY <2>1 DEF HandOverEmpty
    <3>2. produced[Job(s)] + 0 = produced[Job(s)] /\ produced[Job(s)] <= BodyBytes
      BY <1>4, BodyAssumption
    <3>3. produced = [produced EXCEPT ![Job(s)] = produced[Job(s)]]
      BY <1>1 DEF TypeOK
    <3>4. /\ 0 \in Nat /\ kind # "Chunk" /\ ~(0 > 0)
          /\ produced[Job(s)] + 0 <= BodyBytes
          /\ results' = Append(results, Result(Job(s), kind, produced[Job(s)], produced[Job(s)] + 0))
          /\ produced' = [produced EXCEPT ![Job(s)] = @ + 0]
          /\ budget' = budget
      BY <2>1, <3>1, <3>2, <3>3
    <3>5. QED
      BY <3>4
  <2>2. CASE kind \in {"Full", "Chunk"} /\ \E n \in Sizes : HandOver(Job(s), kind, n)
    <3>1. PICK n \in Sizes : HandOver(Job(s), kind, n)
      BY <2>2
    <3>2. n \in Nat /\ n > 0
      BY BudgetAssumption
    <3>3. QED
      BY <2>2, <3>1, <3>2 DEF HandOver
  <2>3. QED
    BY <1>3, <2>1, <2>2
<1>7. /\ budget' \in [Jobs -> BudgetState]
      /\ budget'[Job(s)].outstanding = budget[Job(s)].outstanding + n
      /\ budget'[Job(s)].closed = budget[Job(s)].closed
      /\ \A t \in Streams \ {s} : budget'[Job(t)] = budget[Job(t)]
  <2>1. budget[Job(s)].outstanding \in Nat
    BY <1>4 DEF BudgetState
  <2>2. /\ Claimed(budget[Job(s)], n) \in BudgetState
        /\ Claimed(budget[Job(s)], n).closed = budget[Job(s)].closed
        /\ Claimed(budget[Job(s)], n).outstanding = budget[Job(s)].outstanding + n
    BY <1>4, ReleasedRoom
  <2>3. CASE budget' = budget /\ n = 0
    BY <1>1, <2>1, <2>3 DEF TypeOK
  <2>4. CASE budget' = [budget EXCEPT ![Job(s)] = Claimed(@, n)]
    <3>1. budget'[Job(s)] = Claimed(budget[Job(s)], n) /\ budget' \in [Jobs -> BudgetState]
      BY <1>1, <1>4, <2>2, <2>4 DEF TypeOK
    <3>2. \A t \in Streams \ {s} : budget'[Job(t)] = budget[Job(t)]
      BY <1>1, <2>4, JobIsJob, JobOfStream DEF TypeOK
    <3>3. QED
      BY <2>2, <3>1, <3>2
  <2>5. QED
    BY <1>6, <2>3, <2>4
<1>8. Given(w, s, kind, n)
  BY <1>3, <1>5, <1>6, <1>7 DEF Given, clientVars
<1>9. TypeOK'
  <2>1. results' \in Seq(Results)
    BY <1>8, GivenResults
  <2>2. produced' \in [Jobs -> 0 .. BodyBytes]
    <3>1. produced[Job(s)] + n \in 0 .. BodyBytes
      BY <1>4, <1>6, BodyAssumption
    <3>2. QED
      BY <1>1, <1>6, <3>1 DEF TypeOK
  <2>3. ended' \in SUBSET Jobs
    BY <1>1, <1>2 DEF TypeOK
  <2>4. QED
    BY <1>1, <1>5, <1>7, <2>1, <2>2, <2>3 DEF TypeOK, clientVars, wireVars
<1>10. QED
  BY <1>8, <1>9, GivenStep

LEMMA AnswerStep ==
    ASSUME IInv, NEW w \in Workers, AnswerFull(w) \/ SendEnd(w)
    PROVE  IInv'
<1> USE IdleType
<1>1. CASE AnswerFull(w)
  BY <1>1, HandOverStep DEF AnswerFull, Busy
<1>2. CASE SendEnd(w)
  BY <1>2, HandOverStep DEF SendEnd, Busy
<1>3. QED
  BY <1>1, <1>2

LEMMA StreamStep ==
    ASSUME IInv, NEW w \in Workers, AnswerHead(w) \/ SendChunk(w) \/ Resume(w)
    PROVE  IInv'
<1>1. TypeOK /\ worker[w] \in WorkerStates
  BY WorkerType DEF IInv
<1>2. CASE AnswerHead(w)
  <2> DEFINE x == [worker[w] EXCEPT !.pc = "streaming"]
  <2>1. worker' = [worker EXCEPT ![w] = x] /\ x \in WorkerStates /\ x.pc = "streaming" /\ x.job = worker[w].job
    BY <1>1, <1>2 DEF AnswerHead, WorkerStates, TypeOK
  <2> HIDE DEF x
  <2>2. /\ Busy(w) /\ worker[w].pc = "answering" /\ HandOverEmpty(worker[w].job, "Head") /\ ended' = ended
        /\ UNCHANGED <<clientVars, jobs, pending, wireVars>>
    BY <1>2 DEF AnswerHead, Busy
  <2>3. QED
    BY <2>1, <2>2, HandOverStep
<1>3. CASE SendChunk(w)
  <2> DEFINE x == worker[w]
  <2>1. worker' = [worker EXCEPT ![w] = x] /\ x.pc = "streaming"
    BY <1>1, <1>3 DEF SendChunk, TypeOK
  <2>2. /\ Busy(w) /\ ended' = ended /\ \E n \in Sizes : HandOver(worker[w].job, "Chunk", n)
        /\ UNCHANGED <<clientVars, jobs, pending, wireVars>>
    BY <1>3 DEF SendChunk, Busy
  <2>3. QED
    BY <1>1, <2>1, <2>2, HandOverStep
<1>4. CASE Resume(w)
  <2> DEFINE x == [Idle EXCEPT !.pc = "streaming", !.job = worker[w].job]
  <2>1. worker' = [worker EXCEPT ![w] = x] /\ worker[w].pc = "parked"
    BY <1>4 DEF Resume
  <2>2. worker[w].job \in Jobs /\ worker[w].want \in Sizes /\ Busy(w)
    BY <1>1, <2>1, WorkerType DEF Busy
  <2>3. x \in WorkerStates /\ x.pc = "streaming" /\ x.job = worker[w].job
    BY <2>2, IdleType DEF WorkerStates, Idle
  <2> HIDE DEF x
  <2>4. /\ ended' = ended /\ \E n \in Sizes : HandOver(worker[w].job, "Chunk", n)
        /\ UNCHANGED <<clientVars, jobs, pending, wireVars>>
    BY <1>4, <2>2 DEF Resume
  <2>5. QED
    BY <2>1, <2>2, <2>3, <2>4, HandOverStep
<1>5. QED
  BY <1>2, <1>3, <1>4

(* A result leaves the channel. *)
LEMMA ReceivedFirst ==
    ASSUME IInv, NEW r \in ToSet(results), Received(r)
    PROVE  /\ r = results[1] /\ r = Head(results) /\ r \in Results /\ results' \in Seq(Results)
           /\ StreamOf(r.job) \in Streams /\ r.job = Job(StreamOf(r.job)) /\ r.job \in Jobs
<1>1. results # <<>> /\ results \in Seq(Results) /\ r = Head(results) /\ results' = Tail(results)
  BY DEF Received, IInv, TypeOK
<1>2. r = results[1] /\ r \in Results /\ results' \in Seq(Results)
  BY <1>1, Shorter
<1>3. r.job \in Jobs
  BY <1>2, NumberOfPiece
<1>4. QED
  BY <1>1, <1>2, <1>3, StreamOfJob DEF IInv

(* DrainGone and DrainStrayChunk: what is refused closes its budget. *)
LEMMA DrainRefused ==
    ASSUME IInv, NEW r \in ToSet(results), Received(r), CloseBudgets({r.job}),
           ~HasPending(StreamOf(r.job)),
           UNCHANGED <<clientVars, jobs, produced, ended, pending, wireVars>>
    PROVE  IInv'
<1> DEFINE s == StreamOf(r.job)
<1>1. TypeOK
  BY DEF IInv
<1>2. /\ r = Head(results) /\ r \in Results /\ results' \in Seq(Results)
      /\ s \in Streams /\ r.job = Job(s) /\ r.job \in Jobs
  BY ReceivedFirst
<1>3. /\ WorkersStay
      /\ worker' \in [Workers -> WorkerStates]
      /\ \A w \in Workers :
            /\ worker'[w].pc = worker[w].pc
            /\ worker'[w].job = worker[w].job
            /\ worker'[w].want = worker[w].want
      /\ budget' \in [Jobs -> BudgetState]
      /\ \A j \in Jobs :
            /\ j \in {r.job} => budget'[j].closed
            /\ j \notin {r.job} => budget'[j] = budget[j]
  BY <1>1, ClosedBudgets
<1>4. TypeOK'
  BY <1>1, <1>2, <1>3 DEF TypeOK, clientVars, wireVars, Busy
<1> HIDE DEF s
<1>5. \A t \in Streams \ {s} : Job(t) \in Jobs /\ Job(t) # r.job
  BY <1>2, JobIsJob, JobOfStream DEF IInv
<1>6. Drained(s)
  BY <1>2, <1>3, <1>5 DEF Drained, Received, clientVars
<1>7. budget'[Job(s)].closed /\ ~HasPending(s) /\ pending' = pending
  BY <1>2, <1>3 DEF s
<1>8. QED
  BY <1>2, <1>4, <1>6, <1>7, RefusedStep

(* DrainFirst, DrainChunk and DrainEnd: the response of the stream changes. *)
LEMMA DrainKept ==
    ASSUME IInv, NEW r \in ToSet(results), Received(r), NEW p \in Pendings,
           pending' = [pending EXCEPT ![StreamOf(r.job)] = p],
           UNCHANGED <<clientVars, workVars, budget, wireVars>>
    PROVE  /\ TypeOK' /\ Drained(StreamOf(r.job)) /\ pending'[StreamOf(r.job)] = p
<1> DEFINE s == StreamOf(r.job)
<1>1. TypeOK
  BY DEF IInv
<1>2. /\ r = Head(results) /\ r \in Results /\ results' \in Seq(Results)
      /\ s \in Streams /\ r.job = Job(s)
  BY ReceivedFirst
<1> HIDE DEF s
<1>3. /\ pending'[s] = p /\ \A t \in Streams \ {s} : pending'[t] = pending[t]
      /\ pending' \in [Streams -> Pendings]
  BY <1>1, <1>2 DEF TypeOK, s
<1>4. TypeOK'
  BY <1>1, <1>2, <1>3 DEF TypeOK, clientVars, workVars, wireVars, Busy
<1>5. Drained(s)
  BY <1>2, <1>3 DEF Drained, Received, clientVars, workVars, WorkersStay, Busy
<1>6. QED
  BY <1>3, <1>4, <1>5 DEF s

LEMMA DrainFirstStep ==
    ASSUME IInv, DrainFirst
    PROVE  IInv'
<1>1. PICK r \in ToSet(results) :
        /\ Received(r)
        /\ r.kind \in {"Full", "Head"}
        /\ ~HasPending(StreamOf(r.job))
        /\ pending' = [pending EXCEPT ![StreamOf(r.job)] =
                [NoPending EXCEPT
                    !.job = r.job,
                    !.chunks = IF Size(r) > 0 THEN <<Piece(r)>> ELSE <<>>,
                    !.complete = r.kind = "Full"]]
  BY DEF DrainFirst
<1>2. conn /\ UNCHANGED <<clientVars, workVars, budget, wireVars>>
  BY DEF DrainFirst
<1> DEFINE s == StreamOf(r.job)
           chunks == IF Size(r) > 0 THEN <<Piece(r)>> ELSE <<>>
           p == [NoPending EXCEPT !.job = r.job, !.chunks = chunks, !.complete = r.kind = "Full"]
<1>3. r = results[1] /\ r \in Results /\ s \in Streams /\ r.job = Job(s) /\ r.job \in Jobs
  BY <1>1, ReceivedFirst
<1>4. chunks \in Seq(Chunks)
  BY <1>3, PieceOfResult, OneChunk, NoPieces
<1>5. p \in Pendings
  <2> HIDE DEF chunks
  <2>1. QED
    BY <1>3, <1>4 DEF Pendings, NoPending
<1>6. pending' = [pending EXCEPT ![s] = p]
  BY <1>1
<1>7. TypeOK' /\ Drained(s) /\ pending'[s] = p
  <2> HIDE DEF p
  <2>1. QED
    BY <1>1, <1>2, <1>5, <1>6, DrainKept
<1>8. Begun(s)
  BY <1>1, <1>2, <1>3, <1>7 DEF Begun
<1>9. QED
  BY <1>3, <1>7, <1>8, BegunInv, BegunFlow, DrainedStep DEF Begun

LEMMA DrainChunkStep ==
    ASSUME IInv, DrainChunk
    PROVE  IInv'
<1>1. PICK r \in ToSet(results) :
        /\ Received(r)
        /\ r.kind = "Chunk"
        /\ HasPending(StreamOf(r.job))
        /\ pending' = [pending EXCEPT ![StreamOf(r.job)].chunks = Append(@, Piece(r))]
  BY DEF DrainChunk
<1>2. UNCHANGED <<clientVars, workVars, budget, wireVars>>
  BY DEF DrainChunk
<1> DEFINE s == StreamOf(r.job)
           p == [pending[s] EXCEPT !.chunks = Append(@, Piece(r))]
<1>3. r = results[1] /\ r \in Results /\ s \in Streams
  BY <1>1, ReceivedFirst
<1>4. pending[s] \in Pendings /\ Piece(r) \in Chunks
  BY <1>3, PieceOfResult DEF IInv, TypeOK
<1>5. p \in Pendings
  <2>1. pending[s].chunks \in Seq(Chunks)
    BY <1>4 DEF Pendings
  <2>2. Append(pending[s].chunks, Piece(r)) \in Seq(Chunks)
    BY <1>4, <2>1, Longer
  <2>3. QED
    BY <1>4, <2>2 DEF Pendings
<1>6. pending' = [pending EXCEPT ![s] = p]
  BY <1>1, <1>3 DEF IInv, TypeOK
<1>7. TypeOK' /\ Drained(s) /\ pending'[s] = p
  <2> HIDE DEF p
  <2>1. QED
    BY <1>1, <1>2, <1>5, <1>6, DrainKept
<1>8. Chunked(s)
  BY <1>1, <1>2, <1>3, <1>7 DEF Chunked
<1>9. QED
  BY <1>3, <1>7, <1>8, ChunkedInv, ChunkedFlow, DrainedStep DEF Chunked

LEMMA DrainEndStep ==
    ASSUME IInv, DrainEnd
    PROVE  IInv'
<1>1. PICK r \in ToSet(results) :
        /\ Received(r)
        /\ r.kind = "End"
        /\ pending' = IF HasPending(StreamOf(r.job))
                      THEN [pending EXCEPT ![StreamOf(r.job)].complete = TRUE]
                      ELSE pending
  BY DEF DrainEnd
<1>2. UNCHANGED <<clientVars, workVars, budget, wireVars>>
  BY DEF DrainEnd
<1> DEFINE s == StreamOf(r.job)
           p == IF HasPending(s) THEN [pending[s] EXCEPT !.complete = TRUE] ELSE pending[s]
<1>3. r = results[1] /\ r \in Results /\ s \in Streams
  BY <1>1, ReceivedFirst
<1>4. p \in Pendings
  <2> DEFINE q == pending[s]
  <2>1. q \in Pendings
    BY <1>3 DEF IInv, TypeOK
  <2> HIDE DEF q
  <2>2. [q EXCEPT !.complete = TRUE] \in Pendings
    BY <2>1 DEF Pendings
  <2>3. QED
    BY <2>1, <2>2 DEF q
<1>5. pending' = [pending EXCEPT ![s] = p]
  BY <1>1, <1>3 DEF IInv, TypeOK
<1>6. TypeOK' /\ Drained(s) /\ pending'[s] = p
  <2> HIDE DEF p
  <2>1. QED
    BY <1>1, <1>2, <1>4, <1>5, DrainKept
<1>7. Completed(s)
  BY <1>1, <1>2, <1>3, <1>6 DEF Completed
<1>8. QED
  BY <1>3, <1>6, <1>7, CompletedInv, CompletedFlow, DrainedStep DEF Completed

(* One stream, one request: there is no second response to refuse. *)
LEMMA DrainStep ==
    ASSUME IInv, Drain
    PROVE  IInv'
<1>1. CASE DrainGone
  <2>1. PICK r \in ToSet(results) : Received(r) /\ CloseBudgets({r.job})
    BY <1>1 DEF DrainGone
  <2>2. ~HasPending(StreamOf(r.job))
    BY <1>1, <2>1, ReceivedFirst DEF DrainGone, IInv, PendingInv
  <2>3. QED
    BY <1>1, <2>1, <2>2, DrainRefused DEF DrainGone
<1>2. CASE DrainSecond
  <2>1. PICK r \in ToSet(results) :
            Received(r) /\ r.kind \in {"Full", "Head"} /\ HasPending(StreamOf(r.job))
    BY <1>2 DEF DrainSecond
  <2>2. r = results[1] /\ 1 \in DOMAIN results
    BY <2>1, ReceivedFirst, Shorter DEF IInv, TypeOK, Received
  <2>3. QED
    BY <2>1, <2>2 DEF IInv, ResultInv
<1>3. CASE DrainStrayChunk
  <2>1. PICK r \in ToSet(results) :
            Received(r) /\ CloseBudgets({r.job}) /\ ~HasPending(StreamOf(r.job))
    BY <1>3 DEF DrainStrayChunk
  <2>2. QED
    BY <1>3, <2>1, DrainRefused DEF DrainStrayChunk
<1>4. QED
  BY <1>1, <1>2, <1>3, DrainFirstStep, DrainChunkStep, DrainEndStep DEF Drain

LEMMA NoPendingType == NoPending \in Pendings
  BY NoPieces DEF NoPending, Pendings

(* The state of the event loop after it wrote, or gave up writing. *)
LEMMA EventLoopType ==
    ASSUME TypeOK, UNCHANGED <<requests, jobs, produced, ended, results>>,
           conn' \in BOOLEAN, open' \in SUBSET Streams, uploads' \in SUBSET Streams,
           worker' \in [Workers -> WorkerStates],
           \A w \in Workers :
                /\ worker'[w].pc = worker[w].pc
                /\ worker'[w].job = worker[w].job
                /\ worker'[w].want = worker[w].want,
           budget' \in [Jobs -> BudgetState],
           pending' \in [Streams -> Pendings],
           wire' = [s \in Streams |-> wire'[s]],
           declared' \in [Streams -> (0 .. BodyBytes) \cup {None}],
           stage' \in [Streams -> {"silent", "headers", "fin"}]
    PROVE  TypeOK'
<1>1. \A w \in Workers :
        /\ Busy(w)' => worker'[w].job \in Jobs
        /\ worker'[w].pc = "parked" => worker'[w].want \in Sizes
  BY DEF TypeOK, Busy
<1>2. QED
  BY <1>1 DEF TypeOK

LEMMA RetireType ==
    ASSUME TypeOK, NEW s \in Streams, Retire(s)
    PROVE  /\ worker' \in [Workers -> WorkerStates]
           /\ \A w \in Workers :
                /\ worker'[w].pc = worker[w].pc
                /\ worker'[w].job = worker[w].job
                /\ worker'[w].want = worker[w].want
           /\ budget' \in [Jobs -> BudgetState]
           /\ pending' \in [Streams -> Pendings]
<1>1. pending' \in [Streams -> Pendings]
  BY NoPendingType DEF Retire, TypeOK
<1>2. QED
  BY <1>1, ClosedBudgets DEF Retire

LEMMA DeclaredType ==
    ASSUME IInv, NEW s \in Streams, HeadersGo(s)
    PROVE  declared' \in [Streams -> (0 .. BodyBytes) \cup {None}]
<1>1. HasPending(s) /\ ~pending[s].headers
  BY DEF HeadersGo
<1>2. CASE pending[s].complete
  <2>1. BodyLen(pending[s].chunks) = produced[Job(s)] /\ produced[Job(s)] \in 0 .. BodyBytes
    BY <1>1, <1>2, DeclaredIsWhole, JobIsJob DEF IInv, TypeOK
  <2>2. QED
    BY <1>2, <2>1 DEF HeadersGo, IInv, TypeOK
<1>3. CASE ~pending[s].complete
  BY <1>3 DEF HeadersGo, IInv, TypeOK
<1>4. QED
  BY <1>2, <1>3

LEMMA WritingStep ==
    ASSUME IInv, NEW s \in Streams, Writing(s) \/ SendFails(s)
    PROVE  IInv'
<1>1. TypeOK
  BY DEF IInv
<1>2. CASE SendHeaders(s)
  <2>1. /\ pending' \in [Streams -> Pendings] /\ stage' \in [Streams -> {"silent", "headers", "fin"}]
        /\ declared' \in [Streams -> (0 .. BodyBytes) \cup {None}]
        /\ UNCHANGED <<clientVars, jobs, produced, ended, results, wire, worker, budget>>
    BY <1>1, <1>2, DeclaredType DEF SendHeaders, HeadersGo, TypeOK, Pendings
  <2>2. TypeOK'
    BY <1>1, <2>1, EventLoopType DEF TypeOK, clientVars
  <2>3. QED
    BY <1>2, <2>2, HeadersStep
<1>3. CASE SendHeadersOnly(s)
  <2>1. /\ stage' \in [Streams -> {"silent", "headers", "fin"}]
        /\ declared' \in [Streams -> (0 .. BodyBytes) \cup {None}]
        /\ UNCHANGED <<clientVars, jobs, produced, ended, results, wire>>
        /\ Retire(s)
    BY <1>1, <1>3, DeclaredType DEF SendHeadersOnly, HeadersGo, TypeOK
  <2>2. TypeOK'
    BY <1>1, <2>1, RetireType, EventLoopType DEF TypeOK, clientVars
  <2>3. QED
    BY <1>3, <2>2, HeadersOnlyStep
<1>4. CASE WritePart(s)
  <2>1. PICK k \in 1 .. Left(s) - 1 : BodyGoes(s, k) /\ pending' = [pending EXCEPT ![s].offset = @ + k]
    BY <1>4 DEF WritePart
  <2>2. k \in Nat /\ pending[s].chunks # <<>> /\ pending[s].headers
    <3>1. Left(s) \in Int
      <4>1. pending[s].chunks # <<>> /\ pending[s].headers
        BY <1>4, <2>1 DEF WritePart, BodyGoes
      <4>2. PICK lo \in 0 .. produced[Job(s)] : Flows(s, lo)
        BY DEF IInv, FlowInv
      <4>3. Left(s) = (Head(pending[s].chunks).to - lo) - pending[s].offset
        BY <4>1, <4>2, FrontChunk
      <4>4. Head(pending[s].chunks).to \in Int /\ lo \in Int /\ pending[s].offset \in Int
        BY <4>1, <4>2, FrontChunk, NumberOfPiece
      <4>5. QED
        BY <4>3, <4>4
    <3>2. QED
      BY <1>4, <2>1, <3>1 DEF WritePart, BodyGoes
  <2>3. wire' = [t \in Streams |-> wire'[t]]
    BY <2>1, <2>2, BodyGoesOn
  <2>4. pending' \in [Streams -> Pendings]
    <3> DEFINE q == pending[s]
               o == q.offset + k
    <3>1. q \in Pendings /\ pending' = [pending EXCEPT ![s] = [q EXCEPT !.offset = o]]
      BY <1>1, <2>1 DEF TypeOK
    <3>2. o \in Nat
      BY <2>2, <3>1 DEF Pendings
    <3> HIDE DEF q, o
    <3>3. [q EXCEPT !.offset = o] \in Pendings
      BY <3>1, <3>2 DEF Pendings
    <3>4. QED
      BY <1>1, <3>1, <3>3 DEF TypeOK
  <2>5. UNCHANGED <<clientVars, jobs, produced, ended, results, declared, worker, budget, stage>>
    BY <1>4, <2>1 DEF WritePart, BodyGoes
  <2>6. TypeOK'
    BY <1>1, <2>3, <2>4, <2>5, EventLoopType DEF TypeOK, clientVars
  <2>7. QED
    BY <1>4, <2>6, PartStep
<1>5. CASE WriteChunk(s)
  <2> DEFINE n == Size(Head(pending[s].chunks))
  <2>1. ChunkOnly(s) \/ ChunkAndFin(s)
    BY <1>5, TwoWays
  <2>2. /\ pending[s].chunks # <<>> /\ BodyGoes(s, Left(s)) /\ Notify({pending[s].job})
        /\ UNCHANGED <<clientVars, jobs, produced, ended, results, declared>>
    BY <2>1 DEF ChunkOnly, ChunkAndFin, BodyGoes
  <2>3. PICK lo \in 0 .. produced[Job(s)] : Flows(s, lo)
    BY DEF IInv, FlowInv
  <2>4. n \in Nat /\ pending[s].job = Job(s) /\ wire' = [t \in Streams |-> wire'[t]]
    <3>1. /\ Head(pending[s].chunks).to \in lo + 1 .. produced[Job(s)] /\ n = Head(pending[s].chunks).to - lo
          /\ lo \in Nat /\ produced[Job(s)] \in Nat
      BY <2>2, <2>3, ChunkGoes
    <3>2. n \in Nat
      <4> DEFINE to == Head(pending[s].chunks).to
                 hi == produced[Job(s)]
      <4>1. to \in lo + 1 .. hi /\ n = to - lo /\ lo \in Nat /\ hi \in Nat
        BY <3>1
      <4> HIDE DEF to, hi, n
      <4>2. QED
        BY <4>1
    <3>3. QED
      BY <2>2, <2>3, <3>2, ChunkGoes
  <2>5. Job(s) \in Jobs /\ budget[Job(s)] \in BudgetState
    BY <1>1, JobIsJob DEF IInv, TypeOK
  <2>6. Released(budget[Job(s)], n) \in BudgetState
    <3> HIDE DEF n
    <3>1. QED
      BY <2>4, <2>5, ReleasedRoom
  <2>7. Closed(Released(budget[Job(s)], n)) \in BudgetState
    BY <2>6, ReleasedRoom DEF Closed, BudgetState
  <2>8. budget' \in [Jobs -> BudgetState]
    <3>1. CASE ChunkOnly(s)
      BY <1>1, <2>4, <2>5, <2>6, <3>1 DEF ChunkOnly, TypeOK
    <3>2. CASE ChunkAndFin(s)
      BY <1>1, <2>4, <2>5, <2>6, <2>7, <3>2 DEF ChunkAndFin, TypeOK
    <3>3. QED
      BY <2>1, <3>1, <3>2
  <2>9. pending' \in [Streams -> Pendings] /\ stage' \in [Streams -> {"silent", "headers", "fin"}]
    <3>1. CASE ChunkOnly(s)
      <4>1. pending[s].chunks \in Seq(Chunks) /\ pending[s] \in Pendings
        BY <1>1 DEF TypeOK, Pendings
      <4>2. Tail(pending[s].chunks) \in Seq(Chunks)
        BY <2>2, <4>1, Shorter
      <4>3. [pending[s] EXCEPT !.chunks = Tail(@), !.offset = 0] \in Pendings
        BY <4>1, <4>2 DEF Pendings
      <4>4. pending' = [pending EXCEPT ![s] = [pending[s] EXCEPT !.chunks = Tail(@), !.offset = 0]]
        BY <1>1, <3>1 DEF ChunkOnly, TypeOK
      <4>5. QED
        BY <1>1, <3>1, <4>3, <4>4 DEF ChunkOnly, TypeOK
    <3>2. CASE ChunkAndFin(s)
      BY <1>1, <3>2, NoPendingType DEF ChunkAndFin, TypeOK
    <3>3. QED
      BY <2>1, <3>1, <3>2
  <2>10. TypeOK'
    <3>1. /\ worker' \in [Workers -> WorkerStates]
          /\ \A w \in Workers :
                /\ worker'[w].pc = worker[w].pc
                /\ worker'[w].job = worker[w].job
                /\ worker'[w].want = worker[w].want
      BY <1>1, <2>2, NotifyStays
    <3>2. QED
      BY <1>1, <2>2, <2>4, <2>8, <2>9, <3>1, EventLoopType DEF TypeOK, clientVars
  <2>11. QED
    BY <2>1, <2>10, ChunkOnlyStep, ChunkAndFinStep
<1>6. CASE SendFin(s)
  <2>1. /\ stage' \in [Streams -> {"silent", "headers", "fin"}] /\ Retire(s)
        /\ UNCHANGED <<clientVars, jobs, produced, ended, results, wire, declared>>
    BY <1>1, <1>6 DEF SendFin, TypeOK
  <2>2. TypeOK'
    BY <1>1, <2>1, RetireType, EventLoopType DEF TypeOK, clientVars
  <2>3. QED
    BY <1>6, <2>2, FinStep
<1>7. CASE SendFails(s)
  <2>1. Retire(s) /\ UNCHANGED <<clientVars, jobs, produced, ended, results, wireVars>>
    BY <1>7 DEF SendFails
  <2>2. TypeOK'
    BY <1>1, <2>1, RetireType, EventLoopType DEF TypeOK, clientVars, wireVars
  <2>3. QED
    BY <1>7, <2>2, FailsStep
<1>8. QED
  BY <1>2, <1>3, <1>4, <1>5, <1>6, <1>7 DEF Writing

LEMMA ClientsStep ==
    ASSUME IInv, ClientSteps
    PROVE  IInv'
<1>1. CASE ConnClosed
  <2>1. TypeOK
    BY DEF IInv
  <2>2. /\ pending' \in [Streams -> Pendings]
        /\ UNCHANGED <<requests, jobs, produced, ended, results, wireVars>>
        /\ conn' = FALSE /\ open' = {} /\ uploads' = {}
    BY <1>1, NoPendingType DEF ConnClosed
  <2>3. /\ worker' \in [Workers -> WorkerStates]
        /\ \A w \in Workers :
            /\ worker'[w].pc = worker[w].pc
            /\ worker'[w].job = worker[w].job
            /\ worker'[w].want = worker[w].want
        /\ budget' \in [Jobs -> BudgetState]
    BY <1>1, <2>1, ClosedBudgets DEF ConnClosed
  <2>4. TypeOK'
    BY <2>1, <2>2, <2>3, EventLoopType DEF TypeOK, wireVars
  <2>5. QED
    BY <1>1, <2>4, ConnClosedStep
<1>2. QED
  BY <1>1, RequestStep, UploadStep DEF ClientSteps

-----------------------------------------------------------------------------
LEMMA InitIInv ==
    ASSUME MaxRequests = 1, Init
    PROVE  IInv
<1>1. TypeOK
  <2>1. NewBudget \in BudgetState
    BY BudgetAssumption DEF NewBudget, BudgetState
  <2>2. jobs \in Seq(Jobs) /\ results \in Seq(Results)
    BY NoPieces DEF Init
  <2>3. worker \in [Workers -> WorkerStates] /\ \A w \in Workers : worker[w].pc = "idle"
    BY IdleType DEF Init
  <2>4. pending \in [Streams -> Pendings]
    BY NoPendingType DEF Init
  <2>5. 0 \in 0 .. BodyBytes
    BY BodyAssumption
  <2>6. QED
    BY <2>1, <2>2, <2>3, <2>4, <2>5 DEF Init, TypeOK, Busy
<1>2. /\ DOMAIN jobs = 1 .. 0 /\ DOMAIN results = 1 .. 0
      /\ \A w \in Workers : worker[w].pc = "idle"
  BY NoPieces, IdleType DEF Init
<1>3. WorkInv /\ ResultInv
  BY <1>2 DEF WorkInv, ResultInv, Busy
<1>4. ASSUME NEW s \in Streams
      PROVE  /\ pending[s] = NoPending /\ pending[s].chunks = <<>> /\ ~pending[s].complete /\ ~HasPending(s)
             /\ produced[Job(s)] = 0 /\ wire[s] = <<>> /\ stage[s] = "silent" /\ declared[s] = None
             /\ ended = {} /\ Job(s) \in Jobs /\ budget[Job(s)] = NewBudget
             /\ DOMAIN pending[s].chunks = 1 .. 0 /\ pending[s].offset = 0
  BY JobIsJob, NothingPending, NoPieces DEF Init, HasPending
<1>5. FreshInv
  BY <1>2, <1>4 DEF FreshInv, Untouched
<1>6. ASSUME NEW s \in Streams PROVE PendingInv(s)
  BY <1>2, <1>4 DEF PendingInv
<1>7. ASSUME NEW s \in Streams PROVE WireInv(s)
  <2>1. Len(wire[s]) = 0
    BY <1>4, NoPieces
  <2>2. Opening(s, 0) \in Seq({Job(s)} \X Nat) /\ Len(Opening(s, 0)) = 0
    BY OpeningShape
  <2>3. Opening(s, 0) = <<>>
    BY <2>2, NotEmpty
  <2>4. QED
    BY <1>4, <2>1, <2>3 DEF WireInv
<1>8. ASSUME NEW s \in Streams PROVE FlowInv(s)
  <2>1. Queue(s) = <<>> \o <<>>
    BY <1>4 DEF Queue, Init
  <2>2. DOMAIN Queue(s) = 1 .. 0
    BY <2>1, NoPieces, QueueOfNone
  <2>3. Tiles(Queue(s), Job(s), 0, 0) /\ OnePiece(Queue(s), Job(s), 0, 0)
    BY <2>2, BudgetAssumption DEF Tiles, OnePiece
  <2>4. budget[Job(s)].outstanding = 0 - 0 /\ 0 <= Len(wire[s])
    BY <1>4, NoPieces DEF NewBudget
  <2>5. Flows(s, 0)
    BY <1>4, <2>3, <2>4 DEF Flows
  <2>6. QED
    BY <1>4, <2>5 DEF FlowInv
<1>9. ASSUME NEW s \in Streams PROVE AheadInv(s)
  <2>1. produced[Job(s)] - Len(wire[s]) = 0 /\ 0 <= Limit
    BY <1>4, NoPieces, BudgetAssumption
  <2>2. QED
    BY <2>1 DEF AheadInv
<1>10. QED
  BY <1>1, <1>3, <1>5, <1>6, <1>7, <1>8, <1>9 DEF IInv

LEMMA StepIInv ==
    ASSUME IInv, [Next]_vars
    PROVE  IInv'
<1>1. CASE ClientSteps
  BY <1>1, ClientsStep
<1>2. CASE \E w \in Workers : Working(w) \/ Stall(w)
  <2>1. PICK w \in Workers : Working(w) \/ Stall(w)
    BY <1>2
  <2>2. QED
    BY <2>1, TakeJobStep, AnswerStep, StreamStep, ParkStep, GiveUpStep DEF Working
<1>3. CASE Drain
  BY <1>3, DrainStep
<1>4. CASE \E s \in Streams : Writing(s) \/ SendFails(s)
  BY <1>4, WritingStep
<1>5. CASE UNCHANGED vars
  <2>1. TypeOK' /\ Quiet
    BY <1>5, BudgetsAsTheyAre
    DEF vars, clientVars, workVars, wireVars, IInv, TypeOK, Quiet, Busy, WorkersStay
  <2>2. QED
    BY <2>1, QuietStep
<1>6. QED
  BY <1>1, <1>2, <1>3, <1>4, <1>5 DEF Next

(* The types, and all of the invariant above. *)
THEOREM Inductive ==
    ASSUME MaxRequests = 1
    PROVE  Spec => []IInv
<1>1. Init => IInv
  BY InitIInv
<1>2. IInv /\ [Next]_vars => IInv'
  BY StepIInv
<1>3. QED
  BY <1>1, <1>2, PTL DEF Spec

LEMMA CountedInv == IInv => QueueIsCounted
<1> SUFFICES ASSUME IInv, NEW j \in Jobs
             PROVE  /\ ~budget[j].closed => budget[j].outstanding = Cardinality(Waiting(j))
                    /\ Cardinality(Waiting(j)) > Limit => \A p, r \in Waiting(j) : p[1] = r[1]
  BY DEF QueueIsCounted
<1> DEFINE s == StreamOf(j)
           q == Queue(s)
           hi == produced[j]
           e == Len(pending[s].chunks) + Len(results)
<1>1. s \in Streams /\ j = Job(s)
  BY StreamOfJob DEF IInv
<1>2. PICK lo \in 0 .. hi : Flows(s, lo)
  BY <1>1 DEF IInv, FlowInv
<1>3. lo \in Nat /\ hi \in Nat /\ lo <= hi /\ hi <= BodyBytes
  BY <1>2, BodyAssumption DEF IInv, TypeOK
<1>4. Tiles(q, j, lo, hi) /\ OnePiece(q, j, lo, hi)
  BY <1>1, <1>2 DEF Flows
<1>5. e \in Nat /\ DOMAIN q = 1 .. e
  <2>1. pending[s].chunks \in Seq(Chunks) /\ results \in Seq(Results)
    BY <1>1 DEF IInv, TypeOK, Pendings
  <2>2. QED
    BY <2>1, QueueShape DEF Queue
<1>6. Waiting(j) = {p \in BytesOf(q) : q[p[1]].job = j}
  BY DEF Waiting, Queue
<1>7. /\ Cardinality(Waiting(j)) = hi - lo
      /\ hi - lo > Limit => \A p, r \in Waiting(j) : p[1] = r[1]
  <2> DEFINE bytes == {p \in BytesOf(q) : q[p[1]].job = j}
  <2>1. /\ Cardinality(bytes) = hi - lo
        /\ hi - lo > Limit => \A p, r \in bytes : p[1] = r[1]
    <3>1. PICK made \in Nat : made = hi
      BY <1>3
    <3>2. /\ lo <= made /\ made <= BodyBytes
          /\ Tiles(q, j, lo, made) /\ OnePiece(q, j, lo, made)
      BY <1>3, <1>4, <3>1
    <3> HIDE DEF q, hi, e
    <3>3. Cardinality(bytes) = made - lo
      BY <1>3, <1>5, <3>2, TilesCount
    <3>4. made - lo > Limit => \A p, r \in bytes : p[1] = r[1]
      <4> SUFFICES ASSUME made - lo > Limit, NEW p \in bytes, NEW r \in bytes
                   PROVE  p[1] = r[1]
        OBVIOUS
      <4>1. \E m \in DOMAIN q : \A x \in BytesOf(q) : q[x[1]].job = j => x[1] = m
        BY <1>3, <1>5, <3>2, TilesLone
      <4>2. QED
        BY <4>1
    <3>5. QED
      BY <3>1, <3>3, <3>4
  <2>2. QED
    BY <1>6, <2>1
<1>8. ~budget[j].closed => budget[j].outstanding = hi - lo
  BY <1>1, <1>2 DEF Flows
<1>9. QED
  BY <1>7, <1>8

(* Whatever the limit, the pieces and the interleaving, the budget of a
   response that is not given up counts exactly the bytes queued for it, and
   more than the limit is queued only as one piece. *)
THEOREM Counted ==
    ASSUME MaxRequests = 1
    PROVE  Spec => []QueueIsCounted
  BY Inductive, CountedInv, PTL

LEMMA AnswerInv == IInv => OneWholeAnswer
<1> SUFFICES ASSUME IInv, NEW s \in Streams
             PROVE  /\ \E n \in 1 .. MaxRequests :
                        /\ wire[s] = [i \in 1 .. Len(wire[s]) |-> <<<<s, n>>, i>>]
                        /\ stage[s] = "fin" =>
                            <<s, n>> \in ended /\ Len(wire[s]) = produced[<<s, n>>]
                    /\ declared[s] # None =>
                        /\ Len(wire[s]) <= declared[s]
                        /\ stage[s] = "fin" => Len(wire[s]) = declared[s]
  BY DEF OneWholeAnswer
<1>1. WireInv(s) /\ Job(s) = <<s, 1>> /\ 1 \in 1 .. MaxRequests
  BY DEF IInv, Job
<1>2. /\ wire[s] = [i \in 1 .. Len(wire[s]) |-> <<<<s, 1>>, i>>]
      /\ stage[s] = "fin" => <<s, 1>> \in ended /\ Len(wire[s]) = produced[<<s, 1>>]
  BY <1>1 DEF WireInv, Opening
<1>3. declared[s] # None =>
        /\ Len(wire[s]) <= declared[s]
        /\ stage[s] = "fin" => Len(wire[s]) = declared[s]
  BY <1>1, JobIsJob DEF IInv, TypeOK, WireInv
<1>4. QED
  BY <1>1, <1>2, <1>3

(* What a client reads on a stream is the front of its answer, all of it when
   the stream is finished, and as long as was declared. *)
THEOREM WholeAnswer ==
    ASSUME MaxRequests = 1
    PROVE  Spec => []OneWholeAnswer
  BY Inductive, AnswerInv, PTL

-----------------------------------------------------------------------------
(* The promise of ResponseRelay.tla, one step of the pipeline at a time. *)

(* A worker adds to the answer on s, or nothing of it changes. *)
Makes(s) ==
    /\ wire'[s] = wire[s] /\ stage'[s] = stage[s]
    /\ \/ produced'[Job(s)] = produced[Job(s)] /\ (Job(s) \in ended' <=> Job(s) \in ended)
       \/ Job(s) \notin ended /\ produced[Job(s)] <= produced'[Job(s)]

(* The event loop writes what there is of it. *)
Delivers(s) ==
    /\ produced'[Job(s)] = produced[Job(s)] /\ (Job(s) \in ended' <=> Job(s) \in ended)
    /\ stage[s] # "fin" /\ Len(wire[s]) <= Len(wire'[s])

LEMMA Least ==
    ASSUME NEW T, T \subseteq Nat, T # {}
    PROVE  \E x \in T : \A y \in T : x <= y
<1> DEFINE R == OpToRel(<, Nat)
<1>1. IsWellFoundedOn(R, Nat)
  BY NatLessThanWellFounded
<1>2. \A x, y \in Nat : x < y => <<x, y>> \in R
  BY DEF OpToRel
<1> HIDE DEF R
<1>3. PICK x \in T : \A y \in T : ~ (<<y, x>> \in R)
  BY <1>1, WFMin
<1>4. \A y \in T : ~(y < x)
  BY <1>2, <1>3
<1>5. QED
  BY <1>4

(* A finite set of numbers has a largest: one that fewest are above. *)
LEMMA MaxOfFinite ==
    ASSUME NEW S, S \subseteq Nat, IsFiniteSet(S), S # {}
    PROVE  Max(S) \in S /\ \A y \in S : y <= Max(S)
<1> DEFINE Above(x) == {y \in S : y > x}
           T == {Cardinality(Above(x)) : x \in S}
<1>1. \A x \in S : IsFiniteSet(Above(x)) /\ Cardinality(Above(x)) \in Nat
  <2> SUFFICES ASSUME NEW x \in S
               PROVE  IsFiniteSet(Above(x)) /\ Cardinality(Above(x)) \in Nat
    OBVIOUS
  <2>1. IsFiniteSet(Above(x))
    <3>1. Above(x) \in SUBSET S
      OBVIOUS
    <3> HIDE DEF Above
    <3>2. QED
      BY <3>1, FS_Subset
  <2>2. QED
    BY <2>1, FS_CardinalityType
<1>2. T \subseteq Nat /\ T # {}
  <2> HIDE DEF Above
  <2>1. QED
    BY <1>1
<1>3. PICK t \in T : \A u \in T : t <= u
  <2> HIDE DEF T
  <2>1. QED
    BY <1>2, Least
<1>4. PICK x \in S : t = Cardinality(Above(x))
  OBVIOUS
<1>5. ASSUME NEW y \in S, y > x PROVE FALSE
  <2>1. Above(y) \in SUBSET Above(x) /\ Above(y) # Above(x)
    <3>1. \A z \in Above(y) : z \in Above(x)
      BY <1>5
    <3>2. y \in Above(x) /\ y \notin Above(y)
      BY <1>5
    <3> HIDE DEF Above
    <3>3. QED
      BY <3>1, <3>2
  <2>2. Cardinality(Above(y)) < Cardinality(Above(x))
    <3> HIDE DEF Above
    <3>1. IsFiniteSet(Above(x))
      BY <1>1
    <3>2. /\ Cardinality(Above(y)) <= Cardinality(Above(x))
          /\ Cardinality(Above(x)) = Cardinality(Above(y)) => Above(x) = Above(y)
      BY <2>1, <3>1, FS_Subset
    <3>3. Cardinality(Above(x)) \in Nat /\ Cardinality(Above(y)) \in Nat
      BY <1>1
    <3>4. QED
      BY <2>1, <3>2, <3>3
  <2>3. Cardinality(Above(x)) <= Cardinality(Above(y))
    BY <1>3, <1>4
  <2> HIDE DEF Above
  <2>4. QED
    BY <1>1, <2>2, <2>3
<1>6. \A y \in S : y <= x
  BY <1>5
<1>7. \A y \in S : x >= y
  BY <1>6
<1>8. Max(S) \in S /\ \A y \in S : Max(S) >= y
  BY <1>7 DEF Max
<1>9. QED
  BY <1>8

(* How far a worker may be ahead is at most the window of the relay. *)
LEMMA WindowHolds ==
    ASSUME NEW n \in Sizes \cup {Limit}
    PROVE  n <= Max(Sizes \cup {Limit}) /\ Max(Sizes \cup {Limit}) \in Nat
<1>1. IsFiniteSet(Sizes \cup {Limit})
  BY PipelineAssumption, FS_AddElement
<1>2. Sizes \cup {Limit} \subseteq Nat /\ Sizes \cup {Limit} # {}
  BY BudgetAssumption
<1> DEFINE S == Sizes \cup {Limit}
<1> HIDE DEF S
<1>3. Max(S) \in S /\ \A y \in S : y <= Max(S)
  BY <1>1, <1>2, MaxOfFinite DEF S
<1>4. QED
  BY <1>2, <1>3 DEF S

(* What the client has of an answer is its numbers from 1. *)
LEMMA ReceivedNumbers ==
    ASSUME NEW s, NEW n \in Nat, wire[s] = Opening(s, n)
    PROVE  [i \in DOMAIN wire[s] |-> wire[s][i][2]] = [i \in 1 .. n |-> i]
  BY DEF Opening

LEMMA NumbersGrow ==
    ASSUME NEW n \in Nat, NEW m \in Nat, n <= m
    PROVE  /\ Len([i \in 1 .. n |-> i]) = n
           /\ [i \in 1 .. m |-> i] = [i \in 1 .. n |-> i] \o [i \in 1 .. m - n |-> n + i]
<1> DEFINE a == [i \in 1 .. n |-> i]
           k == m - n
           b == [i \in 1 .. k |-> n + i]
           c == [i \in 1 .. m |-> i]
<1>1. a \in Seq(Nat) /\ Len(a) = n /\ \A i \in 1 .. n : a[i] = i
  <2>1. a \in [1 .. n -> Nat]
    OBVIOUS
  <2> HIDE DEF a
  <2>2. a \in UNION {[1 .. x -> Nat] : x \in Nat}
    BY <2>1
  <2>3. a \in Seq(Nat)
    BY <2>2, SeqDef
  <2>4. Len(a) = n
    BY <2>1, <2>3
  <2>5. QED
    BY <2>3, <2>4 DEF a
<1>2. k \in Nat
  OBVIOUS
<1> HIDE DEF k
<1>3. b \in Seq(Nat) /\ Len(b) = k /\ \A i \in 1 .. k : b[i] = n + i
  <2>1. b \in [1 .. k -> Nat]
    BY <1>2
  <2> HIDE DEF b
  <2>2. b \in UNION {[1 .. x -> Nat] : x \in Nat}
    BY <1>2, <2>1
  <2>3. b \in Seq(Nat)
    BY <2>2, SeqDef
  <2>4. Len(b) = k
    BY <1>2, <2>1, <2>3
  <2>5. QED
    BY <2>3, <2>4 DEF b
<1>4. c \in Seq(Nat) /\ Len(c) = m /\ \A i \in 1 .. m : c[i] = i
  <2>1. c \in [1 .. m -> Nat]
    OBVIOUS
  <2> HIDE DEF c
  <2>2. c \in UNION {[1 .. x -> Nat] : x \in Nat}
    BY <2>1
  <2>3. c \in Seq(Nat)
    BY <2>2, SeqDef
  <2>4. Len(c) = m
    BY <2>1, <2>3
  <2>5. QED
    BY <2>3, <2>4 DEF c
<1> HIDE DEF a, b, c
<1>5. a \o b \in Seq(Nat) /\ Len(a \o b) = m
  <2>1. a \o b \in Seq(Nat) /\ Len(a \o b) = n + k
    BY <1>1, <1>3, ConcatProperties
  <2>2. n + k = m
    BY DEF k
  <2>3. QED
    BY <2>1, <2>2
<1>6. \A i \in 1 .. m : (a \o b)[i] = i
  <2> SUFFICES ASSUME NEW i \in 1 .. m PROVE (a \o b)[i] = i
    OBVIOUS
  <2>1. CASE i <= n
    <3>1. i \in 1 .. Len(a)
      BY <1>1, <2>1
    <3>2. (a \o b)[i] = a[i]
      BY <1>1, <1>3, <3>1, ConcatProperties
    <3>3. QED
      BY <1>1, <3>1, <3>2
  <2>2. CASE n < i
    <3>1. i - n \in 1 .. k /\ n + (i - n) = i
      BY <2>2 DEF k
    <3>2. i \in Len(a) + 1 .. Len(a) + Len(b) /\ i - Len(a) = i - n
      BY <1>1, <1>3, <2>2 DEF k
    <3>3. (a \o b)[i] = b[i - n]
      BY <1>1, <1>3, <3>2, ConcatProperties
    <3>4. QED
      BY <1>3, <3>1, <3>3
  <2>3. i <= n \/ n < i
    OBVIOUS
  <2>4. QED
    BY <2>1, <2>2, <2>3, Zenon
<1>7. c = a \o b
  BY <1>4, <1>5, <1>6, SeqEqual
<1>8. QED
  BY <1>1, <1>7 DEF a, b, c, k

(* A step of either kind is a step of the relay, or changes nothing of it. *)
LEMMA RelayStep ==
    ASSUME IInv, IInv', Makes(Watched) \/ Delivers(Watched)
    PROVE  [Relay!RelayNext]_(Relay!relayVars)
<1> DEFINE j == <<Watched, 1>>
           n == Len(wire[Watched])
           m == Len(wire'[Watched])
           window == Max(Sizes \cup {Limit})
           was == [i \in DOMAIN wire[Watched] |-> wire[Watched][i][2]]
           is == [i \in DOMAIN wire'[Watched] |-> wire'[Watched][i][2]]
<1>1. Watched \in Streams /\ j = Job(Watched)
  BY WatchedAssumption DEF Job
<1>2. /\ n \in Nat /\ n <= produced[j] /\ wire[Watched] = Opening(Watched, n)
      /\ produced[j] \in Nat
  <2>1. WireInv(Watched) /\ produced[j] \in 0 .. BodyBytes
    BY <1>1, JobIsJob DEF IInv, TypeOK
  <2>2. QED
    BY <1>1, <2>1, BodyAssumption DEF WireInv
<1>3. /\ m \in Nat /\ m <= produced'[j] /\ wire'[Watched] = Opening(Watched, m)
      /\ produced'[j] \in Nat /\ produced'[j] <= BodyBytes
      /\ stage'[Watched] = "fin" => j \in ended' /\ m = produced'[j]
  <2>1. WireInv(Watched)' /\ produced'[j] \in 0 .. BodyBytes
    BY <1>1, JobIsJob DEF IInv, TypeOK
  <2>2. QED
    BY <1>1, <2>1, BodyAssumption DEF WireInv, Opening, Job
<1>4. was = [i \in 1 .. n |-> i] /\ Len(was) = n
  <2>1. was = [i \in 1 .. n |-> i]
    BY <1>2, ReceivedNumbers
  <2>2. QED
    BY <1>2, <2>1, NumbersGrow
<1>5. is = [i \in 1 .. m |-> i] /\ Len(is) = m
  <2>1. is = [i \in 1 .. m |-> i]
    BY <1>3 DEF Opening
  <2>2. QED
    BY <1>3, <2>1, NumbersGrow
<1>6. CASE Makes(Watched)
  <2>1. is = was /\ stage'[Watched] = stage[Watched] /\ m = n
    BY <1>6 DEF Makes
  <2>2. CASE produced'[j] = produced[j] /\ (j \in ended' <=> j \in ended)
    <3>1. UNCHANGED Relay!relayVars
      BY <2>1, <2>2 DEF Relay!relayVars
    <3>2. QED
      BY <3>1
  <2>3. CASE j \notin ended /\ produced[j] <= produced'[j]
    <3>1. PICK a \in Sizes \cup {Limit} : produced'[j] - m <= a
      BY <1>1 DEF IInv, AheadInv, Job
    <3>2. produced'[j] - n <= window
      <4>1. a <= window /\ window \in Nat /\ a \in Nat
        BY <3>1, WindowHolds, BudgetAssumption
      <4> HIDE DEF window, m, n, j
      <4>2. QED
        BY <1>2, <1>3, <2>1, <3>1, <4>1
    <3>3. Relay!Make
      <4>1. produced'[j] \in produced[j] .. BodyBytes
        BY <1>2, <1>3, <2>3, BodyAssumption
      <4>2. produced'[j] - Len(was) <= window
        BY <1>4, <3>2
      <4> HIDE DEF was, is, window
      <4>3. QED
        BY <2>1, <2>3, <4>1, <4>2 DEF Relay!Make, was, is, window
    <3>4. QED
      BY <3>3 DEF Relay!RelayNext
  <2>4. QED
    BY <1>1, <1>6, <2>2, <2>3 DEF Makes
<1>7. CASE Delivers(Watched)
  <2>1. /\ produced'[j] = produced[j] /\ (j \in ended' <=> j \in ended)
        /\ stage[Watched] # "fin" /\ n <= m
    BY <1>1, <1>7 DEF Delivers
  <2>2. PICK k \in Nat : k = m - n
    <3> HIDE DEF m, n
    <3>1. QED
      BY <1>2, <1>3, <2>1
  <2>3. k \in 0 .. produced[j] - Len(was)
    <3> HIDE DEF m, n, was
    <3>1. QED
      BY <1>2, <1>3, <1>4, <2>1, <2>2
  <2>4. is = was \o [i \in 1 .. k |-> Len(was) + i]
    <3> HIDE DEF m, n, is, was
    <3>1. [i \in 1 .. m |-> i] = [i \in 1 .. n |-> i] \o [i \in 1 .. m - n |-> n + i]
      BY <1>2, <1>3, <2>1, NumbersGrow
    <3>2. QED
      BY <1>4, <1>5, <2>2, <3>1
  <2>5. (stage'[Watched] = "fin") \in {FALSE, (j \in ended /\ Len(is) = produced[j])}
    BY <1>3, <1>5, <2>1
  <2>6. Relay!Deliver
    <3>1. \E i \in 0 .. produced[j] - Len(was) : is = was \o [b \in 1 .. i |-> Len(was) + b]
      <4> HIDE DEF is, was
      <4>1. QED
        BY <2>3, <2>4
    <3>2. UNCHANGED <<produced[j], j \in ended>>
      BY <2>1
    <3> HIDE DEF is, was, m, n
    <3>3. QED
      BY <2>1, <2>5, <3>1, <3>2 DEF Relay!Deliver, is, was
  <2>7. QED
    BY <2>6 DEF Relay!RelayNext
<1>8. QED
  BY <1>6, <1>7

LEMMA QuietRelays ==
    ASSUME NEW s, UNCHANGED <<produced, ended, wire, stage>>
    PROVE  Makes(s)
  BY DEF Makes

(* A hand-over is to the answer of the worker's job, which is not whole. *)
LEMMA HandOverRelays ==
    ASSUME IInv, NEW w \in Workers, Busy(w), UNCHANGED <<wire, stage>>,
           NEW kind, NEW n \in Nat,
           \/ HandOverEmpty(worker[w].job, kind)
           \/ HandOver(worker[w].job, kind, n),
           ended' \in {ended, ended \cup {worker[w].job}},
           NEW s \in Streams
    PROVE  Makes(s)
<1> DEFINE j == worker[w].job
<1>1. j \in Jobs /\ j \notin ended /\ Job(s) \in Jobs
  BY JobIsJob DEF IInv, TypeOK, WorkInv
<1>2. produced \in [Jobs -> 0 .. BodyBytes] /\ produced[j] \in Nat
  BY <1>1, BodyAssumption DEF IInv, TypeOK
<1>3. PICK k \in Nat : produced' = [produced EXCEPT ![j] = produced[j] + k]
  <2>1. CASE HandOverEmpty(j, kind)
    <3>1. produced' = [produced EXCEPT ![j] = produced[j] + 0]
      BY <1>2, <2>1 DEF HandOverEmpty
    <3>2. QED
      BY <3>1
  <2>2. CASE HandOver(j, kind, n)
    BY <2>2 DEF HandOver
  <2>3. QED
    BY <2>1, <2>2
<1>4. CASE Job(s) = j
  <2>1. produced'[Job(s)] = produced[Job(s)] + k /\ Job(s) \notin ended
    BY <1>1, <1>2, <1>3, <1>4
  <2>2. produced[Job(s)] <= produced'[Job(s)]
    BY <1>2, <1>4, <2>1
  <2>3. QED
    BY <2>1, <2>2 DEF Makes
<1>5. CASE Job(s) # j
  BY <1>1, <1>2, <1>3, <1>5 DEF Makes
<1>6. QED
  BY <1>4, <1>5

LEMMA WorkerRelays ==
    ASSUME IInv, NEW w \in Workers, Working(w) \/ Stall(w), NEW s \in Streams
    PROVE  Makes(s)
<1>1. CASE \/ TakeJob(w) \/ ParkChunk(w) \/ StreamGone(w) \/ ParkAgain(w)
           \/ WakeRefused(w) \/ Stall(w)
  <2>1. UNCHANGED <<produced, ended, wire, stage>>
    BY <1>1 DEF TakeJob, ParkChunk, StreamGone, ParkAgain, WakeRefused, Stall, wireVars
  <2>2. QED
    BY <2>1, QuietRelays
<1>2. CASE AnswerFull(w) \/ AnswerHead(w) \/ SendChunk(w) \/ SendEnd(w) \/ Resume(w)
  <2>1. Busy(w) /\ UNCHANGED <<wire, stage>>
    BY <1>2 DEF AnswerFull, AnswerHead, SendChunk, SendEnd, Resume, wireVars, Busy
  <2>2. ended' \in {ended, ended \cup {worker[w].job}}
    BY <1>2 DEF AnswerFull, AnswerHead, SendChunk, SendEnd, Resume
  <2>3. \/ \E kind \in {"Full", "Head", "End"} : HandOverEmpty(worker[w].job, kind)
        \/ \E kind \in {"Full", "Chunk"}, n \in Sizes : HandOver(worker[w].job, kind, n)
    <3>1. CASE Resume(w)
      <4>1. worker[w].want \in Sizes /\ HandOver(worker[w].job, "Chunk", worker[w].want)
        BY <3>1, WorkerType DEF Resume, IInv
      <4>2. QED
        BY <4>1
    <3>2. CASE AnswerFull(w)
      BY <3>2 DEF AnswerFull
    <3>3. CASE AnswerHead(w) \/ SendEnd(w)
      BY <3>3 DEF AnswerHead, SendEnd
    <3>4. CASE SendChunk(w)
      BY <3>4 DEF SendChunk
    <3>5. QED
      BY <1>2, <3>1, <3>2, <3>3, <3>4
  <2>4. \E kind \in {"Full", "Head", "Chunk", "End"}, n \in Nat :
            HandOverEmpty(worker[w].job, kind) \/ HandOver(worker[w].job, kind, n)
    BY <2>3, BudgetAssumption
  <2>5. QED
    BY <2>1, <2>2, <2>4, HandOverRelays
<1>3. QED
  BY <1>1, <1>2 DEF Working

LEMMA LoopRelays ==
    ASSUME IInv, ClientSteps \/ Drain \/ \E t \in Streams : SendFails(t), NEW s \in Streams
    PROVE  Makes(s)
<1>1. UNCHANGED <<produced, ended, wire, stage>>
  <2>1. CASE ClientSteps
    BY <2>1 DEF ClientSteps, ConnClosed, Request, UploadEnds, UploadUnwanted, workVars, wireVars
  <2>2. CASE Drain
    BY <2>2 DEF Drain, DrainGone, DrainSecond, DrainFirst, DrainChunk, DrainStrayChunk, DrainEnd,
                workVars, wireVars
  <2>3. CASE \E t \in Streams : SendFails(t)
    BY <2>3 DEF SendFails, wireVars
  <2>4. QED
    BY <2>1, <2>2, <2>3
<1>2. QED
  BY <1>1, QuietRelays

(* What is written to a stream is more of its answer, before its end. *)
LEMMA WritingRelays ==
    ASSUME IInv, NEW t \in Streams, Writing(t), NEW s \in Streams
    PROVE  Makes(s) \/ Delivers(s)
<1>1. UNCHANGED <<produced, ended>>
  BY DEF Writing, SendHeaders, SendHeadersOnly, HeadersGo, WritePart, WriteChunk, BodyGoes, SendFin
<1>2. stage \in [Streams -> {"silent", "headers", "fin"}] /\ wire = [x \in Streams |-> wire[x]]
  BY DEF IInv, TypeOK
<1>3. CASE s # t
  <2>1. wire'[s] = wire[s]
    <3>1. CASE WritePart(t) \/ WriteChunk(t)
      BY <1>2, <1>3, <3>1 DEF WritePart, WriteChunk, BodyGoes
    <3>2. CASE SendHeaders(t) \/ SendHeadersOnly(t) \/ SendFin(t)
      BY <3>2 DEF SendHeaders, SendHeadersOnly, HeadersGo, SendFin
    <3>3. QED
      BY <3>1, <3>2 DEF Writing
  <2>2. stage'[s] = stage[s]
    BY <1>2, <1>3 DEF Writing, SendHeaders, SendHeadersOnly, WritePart, WriteChunk, SendFin
  <2>3. QED
    BY <1>1, <2>1, <2>2 DEF Makes
<1>4. CASE s = t
  <2>1. CASE SendHeaders(s) \/ SendHeadersOnly(s)
    <3>1. stage[s] = "silent" /\ wire' = wire
      BY <2>1 DEF SendHeaders, SendHeadersOnly, HeadersGo
    <3>2. Len(wire[s]) <= Len(wire'[s])
      BY <3>1 DEF IInv, WireInv
    <3>3. QED
      BY <1>1, <3>1, <3>2 DEF Delivers
  <2>2. CASE SendFin(s)
    <3>1. pending[s].headers /\ wire' = wire
      BY <2>2 DEF SendFin
    <3>2. HasPending(s)
      BY <3>1, NothingPending DEF IInv, PendingInv
    <3>3. stage[s] # "fin" /\ Len(wire[s]) <= Len(wire'[s])
      BY <3>1, <3>2 DEF IInv, PendingInv, WireInv
    <3>4. QED
      BY <1>1, <3>3 DEF Delivers
  <2>3. CASE WritePart(s) \/ WriteChunk(s)
    <3>1. pending[s].chunks # <<>> /\ pending[s].headers
      BY <2>3 DEF WritePart, WriteChunk, BodyGoes
    <3>2. PICK lo \in 0 .. produced[Job(s)] : Flows(s, lo)
      BY DEF IInv, FlowInv
    <3>3. stage[s] = "headers" /\ Left(s) \in Nat
      <4> DEFINE c == Head(pending[s].chunks)
                 made == produced[Job(s)]
                 o == pending[s].offset
                 l == Left(s)
      <4>1. /\ stage[s] = "headers" /\ lo \in Nat /\ c.to \in lo + 1 .. made
            /\ o \in Nat /\ o < c.to - lo /\ l = (c.to - lo) - o
        BY <3>1, <3>2, FrontChunk
      <4> HIDE DEF c, made, o, l
      <4>2. l \in Nat
        BY <4>1
      <4>3. QED
        BY <4>1, <4>2 DEF l
    <3>4. PICK k \in Nat : BodyGoes(s, k)
      BY <2>3, <3>3 DEF WritePart, WriteChunk
    <3>5. Len(wire[s]) \in Nat /\ Len(wire'[s]) = Len(wire[s]) + k
      BY <3>1, <3>4, BodyGoesOn
    <3>6. Len(wire[s]) <= Len(wire'[s])
      <4> DEFINE x == Len(wire[s])
                 y == Len(wire'[s])
      <4> HIDE DEF x, y
      <4>1. x <= y
        BY <3>5 DEF x, y
      <4>2. QED
        BY <4>1 DEF x, y
    <3>7. QED
      BY <1>1, <3>3, <3>6 DEF Delivers
  <2>4. QED
    BY <1>4, <2>1, <2>2, <2>3 DEF Writing
<1>5. QED
  BY <1>3, <1>4

LEMMA StartRelays ==
    ASSUME Init
    PROVE  Relay!RelayInit
<1>1. Watched \in Streams /\ <<Watched, 1>> \in Jobs
  BY WatchedAssumption, PipelineAssumption DEF Jobs
<1>2. /\ produced[<<Watched, 1>>] = 0 /\ ~(<<Watched, 1>> \in ended)
      /\ wire[Watched] = <<>> /\ stage[Watched] = "silent"
  BY <1>1 DEF Init
<1>3. [i \in DOMAIN wire[Watched] |-> wire[Watched][i][2]] = <<>>
  BY <1>2
<1>4. (<<Watched, 1>> \in ended) = FALSE /\ (stage[Watched] = "fin") = FALSE
  BY <1>2
<1>5. QED
  BY <1>2, <1>3, <1>4 DEF Relay!RelayInit

(* The pipeline relays an answer as ResponseRelay.tla promises: in order, each
   byte once, its worker never more than a window ahead, the end with the last
   byte of an answer that is whole. *)
THEOREM Relays ==
    ASSUME MaxRequests = 1
    PROVE  Spec => ImplementsRelay
<1>1. Init => Relay!RelayInit
  BY StartRelays
<1>2. IInv /\ [Next]_vars => IInv'
  BY StepIInv
<1>3. IInv /\ IInv' /\ [Next]_vars => [Relay!RelayNext]_(Relay!relayVars)
  <2> SUFFICES ASSUME IInv, IInv', [Next]_vars
               PROVE  Makes(Watched) \/ Delivers(Watched)
    BY RelayStep
  <2>1. Watched \in Streams
    BY WatchedAssumption
  <2>2. CASE UNCHANGED vars
    <3>1. UNCHANGED <<produced, ended, wire, stage>>
      BY <2>2 DEF vars, workVars, wireVars
    <3>2. QED
      BY <3>1, QuietRelays
  <2>3. CASE \E w \in Workers : Working(w) \/ Stall(w)
    BY <2>1, <2>3, WorkerRelays
  <2>4. CASE ClientSteps \/ Drain \/ \E t \in Streams : SendFails(t)
    BY <2>1, <2>4, LoopRelays
  <2>5. CASE \E t \in Streams : Writing(t)
    BY <2>1, <2>5, WritingRelays
  <2>6. QED
    BY <2>2, <2>3, <2>4, <2>5 DEF Next
<1>4. QED
  BY <1>1, <1>2, <1>3, Inductive, PTL DEF Spec, ImplementsRelay, Relay!RelaySpec
=============================================================================

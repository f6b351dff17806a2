----------------------------- MODULE H3Response -----------------------------
(***************************************************************************)
(* The response path of the QUIC front end, src/proxy/src/main.rs: one     *)
(* connection, the workers that answer its requests, the results channel   *)
(* from the workers to the event loop, and the Pending responses the event *)
(* loop writes to quiche.                                                  *)
(*                                                                         *)
(* A job is <<stream, n>>, the n-th request on a stream.  A piece of a     *)
(* body is [job, from, to]: bytes from+1 to `to' of that job's answer.     *)
(* What quiche has been given of a stream is a sequence of <<job, byte>>.  *)
(*                                                                         *)
(* The event loop is one thread that drains the results channel and then   *)
(* writes; draining one result, writing one piece and so on are actions of *)
(* their own, because a worker can run between any two of them.            *)
(***************************************************************************)
EXTENDS BudgetOps, BodyQueue, SequencesExt

CONSTANTS
    Streams,      \* the request streams of the connection
    Workers,      \* the threads of the pool
    MaxRequests,  \* bounds the requests on a stream; conforming clients send 1
    None          \* no job, no response

Jobs == Streams \X (1 .. MaxRequests)

(* The origins' readers have buffers: there is a largest read. *)
ASSUME PipelineAssumption ==
    /\ MaxRequests \in Nat \ {0}
    /\ IsFiniteSet(Sizes)
    /\ None \notin Jobs \cup (0 .. BodyBytes)

StreamOf(j) == j[1]

VARIABLES
    conn,       \* the connection is in the ClientMap
    requests,   \* requests taken off each stream
    open,       \* streams on which the client may still send
    uploads,    \* streams with an entry in Client::uploads
    jobs,       \* the FetchJob channel
    worker,     \* what each thread is doing
    results,    \* the FetchResult channel
    budget,     \* the Budget of each job
    pending,    \* Client::pending, by stream
    produced,   \* bytes of each answer handed over
    ended,      \* jobs whose Full or End was handed over
    wire,       \* what quiche took of each stream
    declared,   \* the content-length sent on each stream
    stage       \* what quiche sent on each stream: nothing, headers, the fin

clientVars == <<conn, requests, open, uploads>>
workVars == <<jobs, worker, produced, ended>>
wireVars == <<wire, declared, stage>>
vars == <<clientVars, workVars, results, budget, pending, wireVars>>

Idle == [pc |-> "idle", job |-> None, want |-> 0, seen |-> 0, woken |-> FALSE]

NoPending == [job |-> None, headers |-> FALSE, chunks |-> <<>>, offset |-> 0, complete |-> FALSE]

HasPending(s) == pending[s].job # None

Result(j, kind, from, to) == [job |-> j, kind |-> kind, from |-> from, to |-> to]

Piece(r) == [job |-> r.job, from |-> r.from, to |-> r.to]

-----------------------------------------------------------------------------
Init ==
    /\ conn = TRUE
    /\ requests = [s \in Streams |-> 0]
    /\ open = Streams
    /\ uploads = {}
    /\ jobs = <<>>
    /\ worker = [w \in Workers |-> Idle]
    /\ results = <<>>
    /\ budget = [j \in Jobs |-> NewBudget]
    /\ pending = [s \in Streams |-> NoPending]
    /\ produced = [j \in Jobs |-> 0]
    /\ ended = {}
    /\ wire = [s \in Streams |-> <<>>]
    /\ declared = [s \in Streams |-> None]
    /\ stage = [s \in Streams |-> "silent"]

(* Closing a budget, or releasing room, notifies the worker parked on it. *)
Notify(js) ==
    worker' = [w \in Workers |->
                IF worker[w].pc = "parked" /\ worker[w].job \in js
                THEN [worker[w] EXCEPT !.woken = TRUE] ELSE worker[w]]

CloseBudgets(js) ==
    /\ budget' = [j \in Jobs |-> IF j \in js THEN Closed(budget[j]) ELSE budget[j]]
    /\ Notify(js)

-----------------------------------------------------------------------------
(* The client's side of the streams. *)

(* HEADERS: refused while an upload is under way on the stream.  A request
   with a body leaves one behind; one without ends the client's side. *)
Request(s) ==
    /\ conn
    /\ s \in open \ uploads
    /\ requests[s] < MaxRequests
    /\ requests' = [requests EXCEPT ![s] = @ + 1]
    /\ \/ uploads' = uploads \cup {s} /\ open' = open
       \/ uploads' = uploads /\ open' = open \ {s}
    /\ jobs' = Append(jobs, <<s, requests[s] + 1>>)
    /\ UNCHANGED <<conn, worker, produced, ended, results, budget, pending, wireVars>>

(* The body was read to its end, or the client reset the stream. *)
UploadEnds(s) ==
    /\ conn
    /\ s \in uploads
    /\ uploads' = uploads \ {s}
    /\ open' = open \ {s}
    /\ UNCHANGED <<conn, requests, workVars, results, budget, pending, wireVars>>

(* pump_uploads finds that the worker dropped the other end of the channel:
   it answered without reading the body to its end. *)
UploadUnwanted(s) ==
    /\ conn
    /\ s \in uploads
    /\ \A i \in DOMAIN jobs : StreamOf(jobs[i]) # s
    /\ \A w \in Workers : worker[w].pc = "answering" => StreamOf(worker[w].job) # s
    /\ uploads' = uploads \ {s}
    /\ UNCHANGED <<conn, requests, open, workVars, results, budget, pending, wireVars>>

(* The connection closed, and clients.retain drops the Client: each Pending
   closes its budget on the way out.  A job without one is not told yet. *)
ConnClosed ==
    /\ conn
    /\ conn' = FALSE
    /\ uploads' = {}
    /\ open' = {}
    /\ CloseBudgets({pending[s].job : s \in Streams} \ {None})
    /\ pending' = [s \in Streams |-> NoPending]
    /\ UNCHANGED <<requests, jobs, produced, ended, results, wireVars>>

-----------------------------------------------------------------------------
(* The workers: handle_job. *)

TakeJob(w) ==
    /\ worker[w].pc = "idle"
    /\ jobs # <<>>
    /\ worker' = [worker EXCEPT ![w].pc = "answering", ![w].job = Head(jobs)]
    /\ jobs' = Tail(jobs)
    /\ UNCHANGED <<clientVars, produced, ended, results, budget, pending, wireVars>>

(* Mutant: the claim is not waited for. *)
HandOverAtOnce(j, kind, n) ==
    /\ ~budget[j].closed
    /\ produced[j] + n <= BodyBytes
    /\ budget' = [budget EXCEPT ![j] = Claimed(@, n)]
    /\ produced' = [produced EXCEPT ![j] = @ + n]
    /\ results' = Append(results, Result(j, kind, produced[j], produced[j] + n))

(* Room for n bytes is claimed and a result with them is sent. *)
HandOver(j, kind, n) ==
    /\ ~budget[j].closed
    /\ ~Full(budget[j], n)
    /\ produced[j] + n <= BodyBytes
    /\ budget' = [budget EXCEPT ![j] = Claimed(@, n)]
    /\ produced' = [produced EXCEPT ![j] = @ + n]
    /\ results' = Append(results, Result(j, kind, produced[j], produced[j] + n))

(* A result that carries no bytes claims none. *)
HandOverEmpty(j, kind) ==
    /\ results' = Append(results, Result(j, kind, produced[j], produced[j]))
    /\ UNCHANGED <<budget, produced>>

(* An answer that is whole: short-circuited, refused, an error page, or a
   body that was buffered.  The budget is new, so claim() does not wait. *)
AnswerFull(w) ==
    LET j == worker[w].job IN
    /\ worker[w].pc = "answering"
    /\ \/ HandOverEmpty(j, "Full")
       \/ \E n \in Sizes : HandOver(j, "Full", n)
    /\ ended' = ended \cup {j}
    /\ worker' = [worker EXCEPT ![w] = Idle]
    /\ UNCHANGED <<clientVars, jobs, pending, wireVars>>

(* An answer that is relayed as it arrives: the head goes first. *)
AnswerHead(w) ==
    /\ worker[w].pc = "answering"
    /\ HandOverEmpty(worker[w].job, "Head")
    /\ worker' = [worker EXCEPT ![w].pc = "streaming"]
    /\ UNCHANGED <<clientVars, jobs, ended, pending, wireVars>>

(* The origin gave bytes and there is room for them. *)
SendChunk(w) ==
    /\ worker[w].pc = "streaming"
    /\ \E n \in Sizes : HandOver(worker[w].job, "Chunk", n)
    /\ UNCHANGED <<clientVars, jobs, worker, ended, pending, wireVars>>

(* claim() waits. *)
ParkChunk(w) ==
    LET j == worker[w].job IN
    /\ worker[w].pc = "streaming"
    /\ ~budget[j].closed
    /\ \E n \in Sizes :
        /\ produced[j] + n <= BodyBytes
        /\ Full(budget[j], n)
        /\ worker' = [worker EXCEPT ![w].pc = "parked", ![w].want = n,
                        ![w].seen = budget[j].progress, ![w].woken = FALSE]
    /\ UNCHANGED <<clientVars, jobs, produced, ended, results, budget, pending, wireVars>>

(* claim() answers false at once: Gone::Stream ends the job, without an End. *)
StreamGone(w) ==
    /\ worker[w].pc = "streaming"
    /\ budget[worker[w].job].closed
    /\ worker' = [worker EXCEPT ![w] = Idle]
    /\ UNCHANGED <<clientVars, jobs, produced, ended, results, budget, pending, wireVars>>

(* A parked worker was notified: it finds room, none, or the budget closed. *)
Resume(w) ==
    /\ worker[w].pc = "parked" /\ worker[w].woken
    /\ HandOver(worker[w].job, "Chunk", worker[w].want)
    /\ worker' = [worker EXCEPT ![w] = [Idle EXCEPT !.pc = "streaming", !.job = worker[w].job]]
    /\ UNCHANGED <<clientVars, jobs, ended, pending, wireVars>>

ParkAgain(w) ==
    LET j == worker[w].job IN
    /\ worker[w].pc = "parked" /\ worker[w].woken
    /\ ~budget[j].closed
    /\ Full(budget[j], worker[w].want)
    /\ worker' = [worker EXCEPT ![w].seen = budget[j].progress, ![w].woken = FALSE]
    /\ UNCHANGED <<clientVars, jobs, produced, ended, results, budget, pending, wireVars>>

WakeRefused(w) ==
    /\ worker[w].pc = "parked" /\ worker[w].woken
    /\ budget[worker[w].job].closed
    /\ worker' = [worker EXCEPT ![w] = Idle]
    /\ UNCHANGED <<clientVars, jobs, produced, ended, results, budget, pending, wireVars>>

(* Mutant: the budget is not closed, and claim() goes on waiting. *)
StallWaits(w) ==
    /\ worker[w].pc = "parked"
    /\ budget[worker[w].job].progress = worker[w].seen
    /\ UNCHANGED vars

(* The stall window passes with nothing released: the budget is closed and
   the job ends.  What was handed over is still the event loop's to send. *)
Stall(w) ==
    LET j == worker[w].job IN
    /\ worker[w].pc = "parked"
    /\ budget[j].progress = worker[w].seen
    /\ budget' = [budget EXCEPT ![j] = Closed(@)]
    /\ worker' = [worker EXCEPT ![w] = Idle]
    /\ UNCHANGED <<clientVars, jobs, produced, ended, results, pending, wireVars>>

(* The origin's body ended, or reading it failed: both leave the loop. *)
SendEnd(w) ==
    LET j == worker[w].job IN
    /\ worker[w].pc = "streaming"
    /\ HandOverEmpty(j, "End")
    /\ ended' = ended \cup {j}
    /\ worker' = [worker EXCEPT ![w] = Idle]
    /\ UNCHANGED <<clientVars, jobs, pending, wireVars>>

-----------------------------------------------------------------------------
(* The event loop: drain_results, one result at a time. *)

(* results.try_recv() answers r. *)
Received(r) ==
    /\ results # <<>>
    /\ r = Head(results)
    /\ results' = Tail(results)

(* The connection is gone: the budget is told here, because a response whose
   head has not been drained has no Pending to tell it. *)
DrainGone ==
    /\ ~conn
    /\ \E r \in ToSet(results) :
        /\ Received(r)
        /\ CloseBudgets({r.job})
    /\ UNCHANGED <<clientVars, jobs, produced, ended, pending, wireVars>>

(* A Full or a Head for a stream that has a response is refused. *)
DrainSecond ==
    /\ conn
    /\ \E r \in ToSet(results) :
        /\ Received(r)
        /\ r.kind \in {"Full", "Head"}
        /\ HasPending(StreamOf(r.job))
        /\ CloseBudgets({r.job})
    /\ UNCHANGED <<clientVars, jobs, produced, ended, pending, wireVars>>

(* A Full or a Head that begins a response.  A Full comes with its one piece,
   which is left out here when it is empty: it is never written. *)
DrainFirst ==
    /\ conn
    /\ \E r \in ToSet(results) :
        /\ Received(r)
        /\ r.kind \in {"Full", "Head"}
        /\ ~HasPending(StreamOf(r.job))
        /\ pending' = [pending EXCEPT ![StreamOf(r.job)] =
                [NoPending EXCEPT
                    !.job = r.job,
                    !.chunks = IF Size(r) > 0 THEN <<Piece(r)>> ELSE <<>>,
                    !.complete = r.kind = "Full"]]
    /\ UNCHANGED <<clientVars, workVars, budget, wireVars>>

(* A chunk joins whatever response its stream has. *)
DrainChunk ==
    /\ conn
    /\ \E r \in ToSet(results) :
        /\ Received(r)
        /\ r.kind = "Chunk"
        /\ HasPending(StreamOf(r.job))
        /\ pending' = [pending EXCEPT ![StreamOf(r.job)].chunks = Append(@, Piece(r))]
    /\ UNCHANGED <<clientVars, workVars, budget, wireVars>>

(* A chunk whose stream failed and was dropped. *)
DrainStrayChunk ==
    /\ conn
    /\ \E r \in ToSet(results) :
        /\ Received(r)
        /\ r.kind = "Chunk"
        /\ ~HasPending(StreamOf(r.job))
        /\ CloseBudgets({r.job})
    /\ UNCHANGED <<clientVars, jobs, produced, ended, pending, wireVars>>

(* No more chunks: the response the stream has, if any, is complete. *)
DrainEnd ==
    /\ conn
    /\ \E r \in ToSet(results) :
        /\ Received(r)
        /\ r.kind = "End"
        /\ pending' = IF HasPending(StreamOf(r.job))
                      THEN [pending EXCEPT ![StreamOf(r.job)].complete = TRUE]
                      ELSE pending
    /\ UNCHANGED <<clientVars, workVars, budget, wireVars>>

Drain ==
    \/ DrainGone \/ DrainSecond \/ DrainFirst
    \/ DrainChunk \/ DrainStrayChunk \/ DrainEnd

-----------------------------------------------------------------------------
(* The event loop: pump_responses, one call to quiche at a time.  How much
   quiche takes is up to the client's flow control. *)

(* The Pending is done with, and Pending::drop closes its budget. *)
Retire(s) ==
    /\ pending' = [pending EXCEPT ![s] = NoPending]
    /\ CloseBudgets({pending[s].job})

(* send_response: quiche allows one response on a stream.  A response known
   to be complete declares its length. *)
HeadersGo(s) ==
    /\ conn
    /\ HasPending(s)
    /\ ~pending[s].headers
    /\ stage[s] = "silent"
    /\ declared' = IF pending[s].complete
                   THEN [declared EXCEPT ![s] = BodyLen(pending[s].chunks)] ELSE declared
    /\ UNCHANGED <<clientVars, jobs, produced, ended, results, wire>>

SendHeaders(s) ==
    /\ HeadersGo(s)
    /\ ~(pending[s].complete /\ pending[s].chunks = <<>>)
    /\ pending' = [pending EXCEPT ![s].headers = TRUE]
    /\ stage' = [stage EXCEPT ![s] = "headers"]
    /\ UNCHANGED <<worker, budget>>

(* The body is known to be empty: the stream ends with its headers. *)
SendHeadersOnly(s) ==
    /\ HeadersGo(s)
    /\ pending[s].complete /\ pending[s].chunks = <<>>
    /\ stage' = [stage EXCEPT ![s] = "fin"]
    /\ Retire(s)

(* Mutant: a chunk that was cut short is sent again from its start. *)
BodyGoesAgain(s, k) ==
    LET c == Head(pending[s].chunks) IN
    /\ conn
    /\ pending[s].headers
    /\ wire' = [wire EXCEPT ![s] = @ \o [i \in 1 .. k |-> <<c.job, c.from + i>>]]
    /\ UNCHANGED <<clientVars, jobs, produced, ended, results, declared>>

(* k more bytes of the front chunk reach quiche. *)
BodyGoes(s, k) ==
    LET c == Head(pending[s].chunks) IN
    /\ conn
    /\ pending[s].headers
    /\ wire' = [wire EXCEPT ![s] =
                @ \o [i \in 1 .. k |-> <<c.job, c.from + pending[s].offset + i>>]]
    /\ UNCHANGED <<clientVars, jobs, produced, ended, results, declared>>

Left(s) == Size(Head(pending[s].chunks)) - pending[s].offset

WritePart(s) ==
    /\ pending[s].chunks # <<>>
    /\ \E k \in 1 .. Left(s) - 1 :
        /\ BodyGoes(s, k)
        /\ pending' = [pending EXCEPT ![s].offset = @ + k]
    /\ UNCHANGED <<worker, budget, stage>>

(* The rest of the front chunk: its room is given back.  The fin goes along
   with the last chunk of a response that is complete, and that ends it. *)
WriteChunk(s) ==
    LET p == pending[s]
        freed == [budget EXCEPT ![p.job] = Released(@, Size(Head(p.chunks)))]
    IN
    /\ p.chunks # <<>>
    /\ BodyGoes(s, Left(s))
    /\ Notify({p.job})
    /\ \/ /\ p.complete /\ Len(p.chunks) = 1
          /\ stage' = [stage EXCEPT ![s] = "fin"]
          /\ pending' = [pending EXCEPT ![s] = NoPending]
          /\ budget' = [freed EXCEPT ![p.job] = Closed(@)]
       \/ /\ ~(p.complete /\ Len(p.chunks) = 1)
          /\ pending' = [pending EXCEPT ![s].chunks = Tail(@), ![s].offset = 0]
          /\ budget' = freed
          /\ UNCHANGED stage

(* Mutant: a body that turned out empty is not thought of. *)
SendFinAfterBody(s) ==
    /\ conn
    /\ pending[s].headers
    /\ pending[s].complete
    /\ pending[s].chunks = <<>>
    /\ wire[s] # <<>>
    /\ stage' = [stage EXCEPT ![s] = "fin"]
    /\ Retire(s)
    /\ UNCHANGED <<clientVars, jobs, produced, ended, results, wire, declared>>

(* Complete with nothing left to attach the fin to. *)
SendFin(s) ==
    /\ conn
    /\ pending[s].headers
    /\ pending[s].complete
    /\ pending[s].chunks = <<>>
    /\ stage' = [stage EXCEPT ![s] = "fin"]
    /\ Retire(s)
    /\ UNCHANGED <<clientVars, jobs, produced, ended, results, wire, declared>>

(* quiche refuses the stream: the client stopped or reset it. *)
SendFails(s) ==
    /\ conn
    /\ HasPending(s)
    /\ Retire(s)
    /\ UNCHANGED <<clientVars, jobs, produced, ended, results, wireVars>>

-----------------------------------------------------------------------------
ClientSteps ==
    \/ ConnClosed
    \/ \E s \in Streams : Request(s) \/ UploadEnds(s) \/ UploadUnwanted(s)

(* A worker that has a job and is not waiting for the client. *)
Working(w) ==
    \/ TakeJob(w) \/ AnswerFull(w) \/ AnswerHead(w)
    \/ SendChunk(w) \/ ParkChunk(w) \/ StreamGone(w) \/ SendEnd(w)
    \/ Resume(w) \/ ParkAgain(w) \/ WakeRefused(w)

Writing(s) ==
    \/ SendHeaders(s) \/ SendHeadersOnly(s)
    \/ WritePart(s) \/ WriteChunk(s) \/ SendFin(s)

Next ==
    \/ ClientSteps
    \/ \E w \in Workers : Working(w) \/ Stall(w)
    \/ Drain
    \/ \E s \in Streams : Writing(s) \/ SendFails(s)

Spec == Init /\ [][Next]_vars

(* The threads run, every read from an origin ends by its timeout, and the
   loop drains what the waker announces.  Nothing is assumed of the client. *)
RunningSpec ==
    /\ Spec
    /\ \A w \in Workers : WF_vars(Working(w))
    /\ WF_vars(Drain)

(* A window that began runs out. *)
StallWindow == \A w \in Workers : WF_vars(Stall(w))

(* The client goes on reading: quiche takes what it is offered. *)
Reading == \A s \in Streams : WF_vars(Writing(s))

-----------------------------------------------------------------------------
(* The bytes of j's answer between its worker and quiche, with the places of
   their pieces in what is queued for its stream, oldest first. *)
Waiting(j) ==
    LET queue == pending[StreamOf(j)].chunks \o results
    IN  {p \in BytesOf(queue) : queue[p[1]].job = j}

(* "so the event loop's books balance: it releases whatever it pops": the
   budget of a response counts the bytes queued for it, wherever they are.
   That is what bounds the memory one client can make the proxy hold: a
   stream's queue is within the limit, or one piece that is larger than it. *)
QueueIsCounted ==
    \A j \in Jobs :
        /\ ~budget[j].closed => budget[j].outstanding = Cardinality(Waiting(j))
        /\ Cardinality(Waiting(j)) > Limit => \A p, q \in Waiting(j) : p[1] = q[1]

(* drain_results: "One stream, one response."  What a client reads on a
   stream is the front of one answer, byte for byte; and of a stream that was
   finished all of an answer its worker finished, so neither a worker that
   gave up nor a lost End looks like a short answer.  The body never runs past
   the content-length sent before it, and is as long when the stream ends. *)
OneWholeAnswer ==
    \A s \in Streams :
        /\ \E n \in 1 .. MaxRequests :
            /\ wire[s] = [i \in 1 .. Len(wire[s]) |-> <<<<s, n>>, i>>]
            /\ stage[s] = "fin" =>
                <<s, n>> \in ended /\ Len(wire[s]) = produced[<<s, n>>]
        /\ declared[s] # None =>
            /\ Len(wire[s]) <= declared[s]
            /\ stage[s] = "fin" => Len(wire[s]) = declared[s]

(* "a handful of abandoned downloads is enough to occupy every worker there
   is": with the windows, however little the clients read, every worker comes
   back.  And once the connection is gone they all do, without waiting for a
   window: Pending::drop and drain_results close what they are parked on. *)
WorkersComeBack ==
    /\ StallWindow => \A w \in Workers : worker[w].pc # "idle" ~> worker[w].pc = "idle"
    /\ ~conn ~> [](\A w \in Workers : worker[w].pc = "idle")

(* A client that goes on reading is answered: its stream is finished, unless
   it failed, went with the connection, or its worker had given up on it. *)
EveryRequestEnds ==
    StallWindow /\ Reading =>
        \A s \in Streams : requests[s] > 0 ~>
            stage[s] = "fin" \/ budget[<<s, 1>>].closed \/ ~conn
=============================================================================

----------------------------- MODULE ChainRelay -----------------------------
(***************************************************************************)
(* One interceptor chain at work: the requests it is given one after       *)
(* another, by ChainPool::acquire and fetch_blocking of                    *)
(* src/proxy/src/tcp.rs or by a worker's handle_job of                     *)
(* src/proxy/src/main.rs, and the hooks of src/proxy/src/interceptor.rs    *)
(* that are called for each.                                               *)
(*                                                                         *)
(* Of the links only the plugins are kept apart.  Which hooks a plugin is  *)
(* concerned in depends on headers that the links may rewrite in between:  *)
(* it is chosen anew at every hook.                                        *)
(***************************************************************************)
EXTENDS Plugins

CONSTANTS
    Requests,   \* how many requests there are
    Fronts,     \* the front ends a chain may belong to
    MaxChunks,  \* bounds a streamed body
    Capacity    \* chunks that may wait for the client

ASSUME RelayAssumption ==
    /\ Requests \in Nat
    /\ Fronts \subseteq {"h3", "tcp"}
    /\ MaxChunks \in Nat
    /\ Capacity \in Nat \ {0}

VARIABLES
    front,     \* the front end of this chain
    chunks,    \* the plugins that asked for chunks at init
    job,       \* the request that has the chain, and how far it is
    chunking,  \* Plugin::chunking of each
    answered,  \* requests whose client has an answer, or the head of one
    sent       \* the last that was sent of a body

relayVars == <<front, chunks, job, chunking, answered, sent>>
vars == <<pluginVars, relayVars>>

(* The requests are numbered in the order they are given the chain. *)
Job(r, pc) ==
    [of |-> r, pc |-> pc, at |-> 1, body |-> {}, read |-> 0,
     wanted |-> {},     \* the plugins that wanted the chunks of the response
     queued |-> 0,      \* chunks that wait for the client
     left |-> FALSE]    \* the client is gone

Done == Job(job.of, "idle")

Nothing == [to |-> 0, body |-> {}]

Init ==
    /\ PluginsInit
    /\ front \in Fronts
    /\ chunks \in SUBSET Plugins
    /\ job = Job(0, "idle")
    /\ chunking = [p \in Plugins |-> FALSE]
    /\ answered = 0
    /\ sent = Nothing

(* The job goes on at its next step. *)
GoTo(pc) == job' = [job EXCEPT !.pc = pc, !.at = 1]

(* The answer is whole, and handed over. *)
AnswerWhole(body) ==
    /\ answered' = job.of
    /\ sent' = [to |-> job.of, body |-> body]
    /\ job' = Done

-----------------------------------------------------------------------------
(* The client of the request. *)

Takes ==
    /\ job.queued > 0 /\ ~job.left
    /\ job' = [job EXCEPT !.queued = @ - 1]
    /\ UNCHANGED <<pluginVars, front, chunks, chunking, answered, sent>>

(* One that leaves sooner is not missed any sooner. *)
Leaves ==
    /\ job.pc \in {"heading", "sending", "flushing"} /\ ~job.left
    /\ job' = [job EXCEPT !.left = TRUE]
    /\ UNCHANGED <<pluginVars, front, chunks, chunking, answered, sent>>

-----------------------------------------------------------------------------
(* Up to the origin. *)

(* acquire(), or the next job off the channel. *)
Acquire ==
    /\ job.pc = "idle" /\ job.of < Requests
    /\ job' = Job(job.of + 1, "asking")
    /\ sent' = Nothing
    /\ UNCHANGED <<pluginVars, front, chunks, chunking, answered>>

(* A blocked host, an endpoint of the proxy's own, an upload that was
   refused: the links ahead of the plugins, or body::take. *)
AnsweredAhead ==
    /\ job.pc = "asking" /\ call.pc = "idle"
    /\ AnswerWhole({})
    /\ UNCHANGED <<pluginVars, front, chunks, chunking>>

(* upstream::call() fails, and there is a page about it. *)
Fails ==
    /\ job.pc = "fetching"
    /\ AnswerWhole({})
    /\ UNCHANGED <<pluginVars, front, chunks, chunking>>

(* The response came off the disk, and is whole. *)
Stored ==
    /\ job.pc = "fetching"
    /\ job' = [job EXCEPT !.pc = "looking", !.at = 1, !.body = {job.of}]
    /\ UNCHANGED <<pluginVars, front, chunks, chunking, answered, sent>>

(* Mutant: the first plugin that says yes ends the question. *)
WantsChunksAny(concerned) ==
    LET yes == concerned \cap chunks IN
    [p \in Plugins |->
        IF \E q \in yes : q < p THEN chunking[p] ELSE p \in yes]

(* wants_chunks(): every plugin is asked, and remembers what it said. *)
WantsChunks(concerned) == [p \in Plugins |-> p \in concerned \cap chunks]

(* A live response.  It is held whole when a plugin wants its body, or another
   link does, or the cache while nobody wants its chunks. *)
Live ==
    \E concerned \in SUBSET Plugins, other, storable, ends, fits \in BOOLEAN :
        LET held == \/ concerned \ chunks # {} \/ other
                    \/ storable /\ concerned \cap chunks = {}
        IN
        /\ job.pc = "fetching"
        /\ chunking' = WantsChunks(concerned)
        /\ IF held /\ ~ends
           THEN AnswerWhole({})
           ELSE /\ job' = IF held /\ fits
                          THEN [job EXCEPT !.pc = "looking", !.at = 1, !.body = {job.of}]
                          ELSE [job EXCEPT !.pc = "heading", !.at = 1, !.wanted = concerned \cap chunks]
                /\ UNCHANGED <<answered, sent>>
        /\ UNCHANGED <<pluginVars, front, chunks>>

-----------------------------------------------------------------------------
(* The walk along the links: one hook after another, at each the next plugin
   that is concerned. *)

Walking ==
    /\ job.pc \in {"asking", "looking", "heading", "chunking", "ending"}
    /\ call.pc = "idle"

OfTheStream == job.pc \in {"chunking", "ending"}

(* The plugin has no part in this hook.  One that takes chunks is never
   handed a whole body. *)
Passes ==
    /\ Walking /\ job.at \in Plugins
    /\ OfTheStream => ~chunking[job.at]
    /\ job' = [job EXCEPT !.at = @ + 1]
    /\ UNCHANGED <<pluginVars, front, chunks, chunking, answered, sent>>

KindOf == CASE job.pc = "asking" -> "request"
            [] job.pc \in {"looking", "heading"} -> "response"
            [] job.pc = "chunking" -> "chunk"
            [] job.pc = "ending" -> "final"

(* It has.  At the end of a stream it forgets that it wanted chunks. *)
Asks ==
    /\ Walking /\ job.at \in Plugins
    /\ OfTheStream => chunking[job.at]
    /\ job.pc = "looking" => job.at \notin chunks
    /\ Calling(job.at, Hook(KindOf, job.of, IF job.pc = "ending" THEN {} ELSE job.body))
    /\ chunking' = IF job.pc = "ending" THEN [chunking EXCEPT ![job.at] = FALSE] ELSE chunking
    /\ UNCHANGED <<plugin, unasked, front, chunks, job, answered, sent>>

(* Its reply is looked at: a status on the request answers it, a body goes in
   the place of a whole one or of a chunk, or after the last. *)
Replied ==
    /\ call.pc = "returned"
    /\ call' = NoCall
    /\ \/ /\ job.pc = "asking" /\ call.body # None
          /\ AnswerWhole(call.body)
       \/ /\ job.pc = "asking" => call.body = None
          /\ job' = [job EXCEPT !.at = @ + 1,
                        !.body = IF call.body = None \/ job.pc = "heading" THEN @
                                 ELSE IF job.pc = "ending" THEN @ \cup call.body
                                 ELSE call.body]
          /\ UNCHANGED <<answered, sent>>
    /\ UNCHANGED <<plugin, unasked, front, chunks, chunking>>

WalkedOn(pc) == Walking /\ job.at \notin Plugins /\ job.pc = pc

AskedAll ==
    /\ WalkedOn("asking")
    /\ GoTo("fetching")
    /\ UNCHANGED <<pluginVars, front, chunks, chunking, answered, sent>>

LookedAll ==
    /\ WalkedOn("looking")
    /\ AnswerWhole(job.body)
    /\ UNCHANGED <<pluginVars, front, chunks, chunking>>

(* The head is sent.  A HEAD has no body, and a TCP client that left is
   noticed here. *)
HeadSent ==
    /\ WalkedOn("heading")
    /\ answered' = job.of
    /\ \/ GoTo("streaming") /\ (front = "tcp" => ~job.left)
       \/ job' = Done
    /\ UNCHANGED <<pluginVars, front, chunks, chunking, sent>>

-----------------------------------------------------------------------------
(* A body that is relayed as it arrives. *)

ReadChunk ==
    /\ job.pc = "streaming" /\ job.read < MaxChunks
    /\ job' = [job EXCEPT !.read = @ + 1, !.body = {job.of}, !.at = 1,
                    !.pc = IF job.wanted # {} THEN "chunking" ELSE "sending"]
    /\ UNCHANGED <<pluginVars, front, chunks, chunking, answered, sent>>

(* What is held back for now is not sent. *)
Chunked ==
    /\ WalkedOn("chunking")
    /\ GoTo(IF job.body = {} THEN "streaming" ELSE "sending")
    /\ UNCHANGED <<pluginVars, front, chunks, chunking, answered, sent>>

(* After the last chunk, or where reading it failed, the plugins flush. *)
Ends == IF job.wanted # {} THEN [job EXCEPT !.pc = "ending", !.at = 1, !.body = {}] ELSE Done

OriginEnds ==
    /\ job.pc = "streaming"
    /\ job' = Ends
    /\ UNCHANGED <<pluginVars, front, chunks, chunking, answered, sent>>

Flushed ==
    /\ WalkedOn("ending")
    /\ job' = IF job.body = {} THEN Done ELSE [job EXCEPT !.pc = "flushing"]
    /\ UNCHANGED <<pluginVars, front, chunks, chunking, answered, sent>>

HasRoom == job.queued < Capacity

Send ==
    /\ job.pc \in {"sending", "flushing"}
    /\ ~job.left /\ HasRoom
    /\ sent' = [to |-> job.of, body |-> job.body]
    /\ job' = IF job.pc = "sending" THEN [job EXCEPT !.pc = "streaming", !.queued = @ + 1] ELSE Done
    /\ UNCHANGED <<pluginVars, front, chunks, chunking, answered>>

(* Mutant: the relay is left as the h3 worker leaves it. *)
SendFailsAtOnce ==
    /\ job.pc \in {"sending", "flushing"}
    /\ job.left
    /\ job' = Done
    /\ UNCHANGED <<pluginVars, front, chunks, chunking, answered, sent>>

(* Nobody takes it.  The TCP relay breaks out of its loop, and the plugins
   hear of the end; the h3 worker returns. *)
SendFails ==
    /\ job.pc \in {"sending", "flushing"}
    /\ job.left
    /\ job' = IF front = "tcp" /\ job.pc = "sending" THEN Ends ELSE Done
    /\ UNCHANGED <<pluginVars, front, chunks, chunking, answered, sent>>

(* claim() has waited out its window, and closes the budget. *)
Stalls ==
    /\ front = "h3"
    /\ job.pc \in {"sending", "flushing"}
    /\ ~job.left /\ ~HasRoom
    /\ job' = [job EXCEPT !.left = TRUE]
    /\ UNCHANGED <<pluginVars, front, chunks, chunking, answered, sent>>

-----------------------------------------------------------------------------
Client == Takes \/ Leaves

RelaySteps ==
    \/ Acquire
    \/ AnsweredAhead \/ Fails \/ Stored \/ Live
    \/ Passes \/ Asks \/ Replied \/ AskedAll \/ LookedAll \/ HeadSent
    \/ ReadChunk \/ Chunked \/ OriginEnds \/ Flushed
    \/ Send \/ SendFails \/ Stalls

Next == Client \/ RelaySteps \/ (PluginSteps /\ UNCHANGED relayVars)

Spec == Init /\ [][Next]_vars

(* The thread runs and its waits end; nothing is assumed of the plugins. *)
FairSpec ==
    /\ Spec
    /\ WF_vars(RelaySteps)
    /\ WF_vars(CallSteps /\ UNCHANGED relayVars)
    /\ WF_vars((\E p \in Plugins : Writer(p)) /\ UNCHANGED relayVars)

-----------------------------------------------------------------------------
(* call(): "a body computed for one response is written as another's".  What
   a client is sent belongs to its own response, whatever the plugins hold
   back, drop, answer late or leave unanswered, and whoever left in the
   middle.  Not so on the h3 side, whose plugins are not told of the end of a
   stream the client left, nor after a reply nobody asked for. *)
OwnBytes ==
    calm /\ front = "tcp" => sent.body \subseteq {sent.to}

(* Chain::wants_chunks: a plugin left unasked "would keep the answer it gave
   for the previous response, and act on a body it was never offered".  Only
   those that wanted the chunks of a response are handed them. *)
ChunksWereWanted ==
    call.pc \in {"sending", "waiting"} /\ call.hook.kind \in {"chunk", "final"} =>
        call.of \in job.wanted

(* "a plugin that has stopped reading its stdin blocks that thread instead of
   this worker".  No plugin that is silent, slow, dead or talks nonsense keeps
   the chain from the requests that wait for it.  One that printed REPLY_QUEUE
   lines nobody asked for may, for the hand-over of a hook has no timeout; and
   so does a TCP client that neither reads nor leaves. *)
EveryRequestIsAnswered ==
    WF_vars(Takes) /\ [](unasked < ReplyQueue) => <>(answered = Requests)
=============================================================================

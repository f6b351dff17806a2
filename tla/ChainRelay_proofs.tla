-------------------------- MODULE ChainRelay_proofs --------------------------
(***************************************************************************)
(* The conversation of a chain with its plugins, proved for every number   *)
(* of plugins, requests and chunks and every length of a queue.            *)
(***************************************************************************)
EXTENDS ChainRelay, TLAPS

Bodies == SUBSET Nat

Hooks == [kind : {"request", "response", "chunk", "final"}, of : Nat, body : Bodies]

Lines == [parses : BOOLEAN, body : Bodies \cup {None}]

Ios ==
    [io : BOOLEAN, running : BOOLEAN, writer : BOOLEAN, hooks : Seq(Hooks),
     writing : Hooks \cup {None}, asked : Hooks \cup {None}, kept : Bodies, lines : Seq(Lines)]

Calls ==
    [pc : {"idle", "sending", "waiting", "returned"}, of : Plugins \cup {None},
     hook : Hooks \cup {None}, body : Bodies \cup {None}]

Walks == {"asking", "looking", "heading", "chunking", "ending"}

Streams == {"heading", "streaming", "chunking", "sending", "ending", "flushing"}

Places == Walks \cup Streams \cup {"idle", "fetching"}

Jobs ==
    [of : Nat, pc : Places, at : Nat \ {0}, body : Bodies,
     read : Nat, wanted : SUBSET Plugins, queued : Nat, left : BOOLEAN]

TypeOK ==
    /\ plugin \in [Plugins -> Ios]
    /\ call \in Calls
    /\ unasked \in Nat
    /\ front \in {"h3", "tcp"}
    /\ chunks \subseteq Plugins
    /\ job \in Jobs
    /\ chunking \in [Plugins -> BOOLEAN]
    /\ sent \in [to : Nat, body : Bodies]

-----------------------------------------------------------------------------
(* A plugin that has nothing of the worker's, and has said nothing. *)
Still(p) ==
    /\ plugin[p].hooks = <<>> /\ plugin[p].writing = None
    /\ plugin[p].asked = None /\ plugin[p].lines = <<>>

(* The hook of the call is in one place, or its answer is. *)
InOnePlace(p) ==
    \/ Still(p)
    \/ /\ plugin[p].hooks = <<call.hook>> /\ plugin[p].writing = None
       /\ plugin[p].asked = None /\ plugin[p].lines = <<>>
    \/ /\ plugin[p].hooks = <<>> /\ plugin[p].writing = call.hook
       /\ plugin[p].asked = None /\ plugin[p].lines = <<>>
    \/ /\ plugin[p].hooks = <<>> /\ plugin[p].writing = None
       /\ plugin[p].asked = call.hook /\ plugin[p].lines = <<>>
    \/ /\ plugin[p].hooks = <<>> /\ plugin[p].writing = None
       /\ plugin[p].asked = None /\ Len(plugin[p].lines) = 1

Waiting(p) == call.pc = "waiting" /\ call.of = p

(* While no line came unasked, what a plugin has is the call's. *)
Conversation ==
    calm => \A p \in Plugins : plugin[p].io =>
        IF Waiting(p) THEN InOnePlace(p) ELSE Still(p)

(* A call is about the place the walk has come to. *)
CallsAreOfTheJob ==
    /\ call.pc # "idle" => job.pc \in Walks
    /\ call.pc \in {"sending", "waiting"} =>
        /\ call.of = job.at /\ job.at \in Plugins
        /\ call.hook \in Hooks /\ call.hook.kind = KindOf
        /\ job.pc \in {"chunking", "ending"} => job.at \in job.wanted
        /\ job.pc = "chunking" => chunking[job.at]
    /\ call.pc = "waiting" => plugin[call.of].io

(* In a stream, a plugin that takes chunks wanted those of this response, and
   at its end those that were told have forgotten it. *)
ChunkingIsCurrent ==
    /\ job.pc \in Streams => \A p \in Plugins : chunking[p] => p \in job.wanted
    /\ job.pc = "ending" => \A p \in Plugins : p < job.at => ~chunking[p]
    /\ job.pc = "ending" /\ call.pc # "idle" => ~chunking[job.at]

(* Where the plugins are told of the end, what they hold back is of this
   response, and no one holds anything that will not be asked for. *)
Quiet == calm /\ front = "tcp"

Asked(p) == call.pc \in {"sending", "waiting"} /\ call.of = p

HeldIsAskedFor(p) ==
    /\ plugin[p].kept \subseteq {job.of}
    /\ plugin[p].kept # {} =>
        \/ job.pc \in {"streaming", "chunking", "sending", "ending"} /\ chunking[p]
        \/ job.pc = "ending" /\ Asked(p)
    /\ Waiting(p) => \A i \in DOMAIN plugin[p].lines :
        LET line == plugin[p].lines[i] IN
        line.parses =>
            /\ line.body # None => line.body \subseteq {job.of}
            /\ job.pc = "ending" => plugin[p].kept = {}

BytesAreOfTheJob ==
    Quiet =>
        /\ job.body \subseteq {job.of}
        /\ \A p \in Plugins : plugin[p].io => HeldIsAskedFor(p)
        /\ call.pc \in {"sending", "waiting"} => call.hook.body \subseteq {job.of}
        /\ call.pc = "returned" /\ call.body # None => call.body \subseteq {job.of}
        /\ sent.body \subseteq {sent.to}

Inv == TypeOK /\ Conversation /\ CallsAreOfTheJob /\ ChunkingIsCurrent /\ BytesAreOfTheJob
-----------------------------------------------------------------------------
LEMMA InitInv == Init => Inv
<1> SUFFICES ASSUME Init PROVE Inv
  OBVIOUS
<1>1. TypeOK
  BY RelayAssumption DEF Init, PluginsInit, Started, NoCall, Job, Nothing, TypeOK, Ios, Lines, Calls, Jobs,
     Bodies, Places, Walks, Streams
<1>2. Conversation
  BY DEF Init, PluginsInit, Started, NoCall, Conversation, Waiting, Still
<1>3. CallsAreOfTheJob /\ ChunkingIsCurrent
  BY DEF Init, PluginsInit, NoCall, Job, CallsAreOfTheJob, ChunkingIsCurrent, Streams
<1>4. BytesAreOfTheJob
  BY DEF Init, PluginsInit, Started, NoCall, Job, Nothing, BytesAreOfTheJob, HeldIsAskedFor, Waiting
<1>5. QED
  BY <1>1, <1>2, <1>3, <1>4 DEF Inv

(* One plugin moves on, on its own: what is to be shown is about that one. *)
LEMMA PluginMoves ==
    ASSUME Inv, NEW p \in Plugins, NEW state \in Ios, Put(p, state),
           UNCHANGED call, UNCHANGED relayVars, unasked' \in Nat, calm' => calm,
           state.io = plugin[p].io,
           calm' /\ state.io => IF Waiting(p) THEN InOnePlace(p)' ELSE Still(p)',
           Quiet /\ calm' /\ state.io => HeldIsAskedFor(p)'
    PROVE  Inv'
<1>1. /\ plugin' \in [Plugins -> Ios] /\ plugin'[p] = state
      /\ \A q \in Plugins : q # p => plugin'[q] = plugin[q]
  BY DEF Inv, TypeOK, Put
<1>2. TypeOK'
  BY <1>1 DEF Inv, TypeOK, relayVars
<1>3. Conversation'
  BY <1>1 DEF Inv, Conversation, Waiting, InOnePlace, Still
<1>4. CallsAreOfTheJob' /\ ChunkingIsCurrent'
  <2>1. UNCHANGED <<call, job, chunking>> /\ KindOf' = KindOf
    BY DEF relayVars, KindOf
  <2>2. call.pc = "waiting" => call.of \in Plugins /\ plugin'[call.of].io
    BY <1>1 DEF Inv, CallsAreOfTheJob
  <2>3. QED
    BY <2>1, <2>2 DEF Inv, CallsAreOfTheJob, ChunkingIsCurrent
<1>5. BytesAreOfTheJob'
  BY <1>1 DEF Inv, BytesAreOfTheJob, HeldIsAskedFor, Waiting, Asked, Quiet, relayVars
<1>6. QED
  BY <1>2, <1>3, <1>4, <1>5 DEF Inv

(* The edits of a plugin, and what each leaves as it was. *)
Taken(s, w, h) == [s EXCEPT !.writing = w, !.hooks = h]
Failed(s, h) == [s EXCEPT !.writer = FALSE, !.writing = None, !.hooks = h]
TakenIn(s, a) == [s EXCEPT !.asked = a, !.writing = None]
Said(s, k, l) == [s EXCEPT !.asked = None, !.kept = k, !.lines = l]
Spoke(s, a, l) == [s EXCEPT !.asked = a, !.lines = l]
Gone(s) == [s EXCEPT !.running = FALSE, !.asked = None, !.kept = {}]
Handed(s, h) == [s EXCEPT !.hooks = h]
Heard(s, l) == [s EXCEPT !.lines = l]

LEMMA EditTaken ==
    ASSUME NEW s \in Ios, NEW w \in Hooks \cup {None}, NEW h \in Seq(Hooks)
    PROVE  /\ Taken(s, w, h) \in Ios
           /\ Taken(s, w, h).io = s.io
           /\ Taken(s, w, h).hooks = h
           /\ Taken(s, w, h).writing = w
           /\ Taken(s, w, h).asked = s.asked
           /\ Taken(s, w, h).kept = s.kept
           /\ Taken(s, w, h).lines = s.lines
  BY DEF Ios, Bodies, Taken

LEMMA EditFailed ==
    ASSUME NEW s \in Ios, NEW h \in Seq(Hooks)
    PROVE  /\ Failed(s, h) \in Ios
           /\ Failed(s, h).io = s.io
           /\ Failed(s, h).hooks = h
           /\ Failed(s, h).writing = None
           /\ Failed(s, h).asked = s.asked
           /\ Failed(s, h).kept = s.kept
           /\ Failed(s, h).lines = s.lines
  BY DEF Ios, Bodies, Failed

LEMMA EditTakenIn ==
    ASSUME NEW s \in Ios, NEW a \in Hooks \cup {None}
    PROVE  /\ TakenIn(s, a) \in Ios
           /\ TakenIn(s, a).io = s.io
           /\ TakenIn(s, a).hooks = s.hooks
           /\ TakenIn(s, a).writing = None
           /\ TakenIn(s, a).asked = a
           /\ TakenIn(s, a).kept = s.kept
           /\ TakenIn(s, a).lines = s.lines
  BY DEF Ios, Bodies, TakenIn

LEMMA EditSaid ==
    ASSUME NEW s \in Ios, NEW k \in Bodies, NEW l \in Seq(Lines)
    PROVE  /\ Said(s, k, l) \in Ios
           /\ Said(s, k, l).io = s.io
           /\ Said(s, k, l).hooks = s.hooks
           /\ Said(s, k, l).writing = s.writing
           /\ Said(s, k, l).asked = None
           /\ Said(s, k, l).kept = k
           /\ Said(s, k, l).lines = l
  BY DEF Ios, Bodies, Said

LEMMA EditSpoke ==
    ASSUME NEW s \in Ios, NEW a \in Hooks \cup {None}, NEW l \in Seq(Lines)
    PROVE  /\ Spoke(s, a, l) \in Ios
           /\ Spoke(s, a, l).io = s.io
           /\ Spoke(s, a, l).hooks = s.hooks
           /\ Spoke(s, a, l).writing = s.writing
           /\ Spoke(s, a, l).asked = a
           /\ Spoke(s, a, l).kept = s.kept
           /\ Spoke(s, a, l).lines = l
  BY DEF Ios, Bodies, Spoke

LEMMA EditGone ==
    ASSUME NEW s \in Ios
    PROVE  /\ Gone(s) \in Ios
           /\ Gone(s).io = s.io
           /\ Gone(s).hooks = s.hooks
           /\ Gone(s).writing = s.writing
           /\ Gone(s).asked = None
           /\ Gone(s).kept = {}
           /\ Gone(s).lines = s.lines
  BY DEF Ios, Bodies, Gone

LEMMA EditHanded ==
    ASSUME NEW s \in Ios, NEW h \in Seq(Hooks)
    PROVE  /\ Handed(s, h) \in Ios
           /\ Handed(s, h).io = s.io
           /\ Handed(s, h).hooks = h
           /\ Handed(s, h).writing = s.writing
           /\ Handed(s, h).asked = s.asked
           /\ Handed(s, h).kept = s.kept
           /\ Handed(s, h).lines = s.lines
  BY DEF Ios, Bodies, Handed

LEMMA EditHeard ==
    ASSUME NEW s \in Ios, NEW l \in Seq(Lines)
    PROVE  /\ Heard(s, l) \in Ios
           /\ Heard(s, l).io = s.io
           /\ Heard(s, l).hooks = s.hooks
           /\ Heard(s, l).writing = s.writing
           /\ Heard(s, l).asked = s.asked
           /\ Heard(s, l).kept = s.kept
           /\ Heard(s, l).lines = l
  BY DEF Ios, Bodies, Heard

(* What it said and what it holds back is as it was, or it holds no more. *)
LEMMA HoldsNoMore ==
    ASSUME Inv, NEW p \in Plugins, NEW state \in Ios, Put(p, state),
           UNCHANGED call, UNCHANGED relayVars, calm' => calm, state.io = plugin[p].io,
           state.kept \in {plugin[p].kept, {}}, state.lines = plugin[p].lines
    PROVE  Quiet /\ calm' /\ state.io => HeldIsAskedFor(p)'
<1> SUFFICES ASSUME Quiet, calm', state.io PROVE HeldIsAskedFor(p)'
  OBVIOUS
<1>1. plugin'[p] = state
  BY DEF Inv, TypeOK, Put
<1>2. HeldIsAskedFor(p)
  BY DEF Inv, BytesAreOfTheJob
<1>3. UNCHANGED <<job, chunking, call>>
  BY DEF relayVars
<1>4. CASE state.kept = plugin[p].kept
  BY <1>1, <1>2, <1>3, <1>4 DEF HeldIsAskedFor, Waiting, Asked
<1>5. CASE state.kept = {}
  BY <1>1, <1>2, <1>3, <1>5 DEF HeldIsAskedFor, Waiting, Asked
<1>6. QED
  BY <1>4, <1>5

LEMMA WriterStep ==
    ASSUME Inv, NEW p \in Plugins, Writer(p), UNCHANGED relayVars
    PROVE  Inv'
<1> DEFINE s == plugin[p]
<1>1. s \in Ios /\ plugin \in [Plugins -> Ios] /\ <<>> \in Seq(Hooks)
  BY DEF Inv, TypeOK
<1>2. UNCHANGED call /\ unasked' \in Nat /\ (calm' => calm)
  BY DEF Writer, WriterTakes, WriterFails, Inv, TypeOK, calm
<1>3. CASE WriterTakes(p)
  <2> DEFINE h == Head(s.hooks)
             tail == Tail(s.hooks)
             state == Taken(s, h, tail)
  <2>1. Put(p, state) /\ s.writing = None /\ s.hooks # <<>>
    BY <1>3 DEF WriterTakes, Taken
  <2>2. s.hooks \in Seq(Hooks)
    BY <1>1 DEF Ios
  <2>3. h \in Hooks \cup {None} /\ tail \in Seq(Hooks)
    BY <2>1, <2>2
  <2>3a. s \in Ios
    BY <1>1
  <2>3b. h \in Hooks \cup {None}
    BY <2>3
  <2>3c. tail \in Seq(Hooks)
    BY <2>3
  <2> HIDE DEF h, tail, s
  <2>4. /\ state \in Ios /\ state.writing = h /\ state.hooks = tail
        /\ state.io = s.io /\ state.asked = s.asked /\ state.kept = s.kept /\ state.lines = s.lines
    BY <2>3a, <2>3b, <2>3c, EditTaken
  <2> USE DEF s
  <2> HIDE DEF state
  <2>5. plugin'[p] = state
    BY <1>1, <2>1 DEF Put
  <2>6. calm' /\ state.io => IF Waiting(p) THEN InOnePlace(p)' ELSE Still(p)'
    <3> SUFFICES ASSUME calm', state.io PROVE IF Waiting(p) THEN InOnePlace(p)' ELSE Still(p)'
      OBVIOUS
    <3>1. Waiting(p)
      BY <1>2, <2>1, <2>4 DEF Inv, Conversation, Still
    <3>2. s.hooks = <<call.hook>> /\ s.asked = None /\ s.lines = <<>>
      BY <1>2, <2>1, <2>4, <3>1 DEF Inv, Conversation, InOnePlace, Still
    <3>3. h = call.hook /\ tail = <<>>
      BY <3>2 DEF h, tail
    <3>4. InOnePlace(p)'
      BY <1>2, <2>4, <2>5, <3>2, <3>3 DEF InOnePlace
    <3>5. QED
      BY <3>1, <3>4
  <2>7. QED
    BY <1>2, <2>1, <2>4, <2>6, HoldsNoMore, PluginMoves
<1>4. CASE WriterFails(p)
  <2> DEFINE none == <<>>
             state == Failed(s, none)
  <2>1. Put(p, state)
    BY <1>4 DEF WriterFails, Failed
  <2>2. none \in Seq(Hooks)
    BY <1>1
  <2>7. s \in Ios
    BY <1>1
  <2> HIDE DEF none
  <2>3. /\ state \in Ios /\ state.writing = None /\ state.hooks = none
        /\ state.io = s.io /\ state.asked = s.asked /\ state.kept = s.kept /\ state.lines = s.lines
    BY <2>2, <2>7, EditFailed
  <2> HIDE DEF state
  <2>4. plugin'[p] = state
    BY <1>1, <2>1 DEF Put
  <2>5. calm' /\ state.io => IF Waiting(p) THEN InOnePlace(p)' ELSE Still(p)'
    BY <1>2, <2>3, <2>4 DEF none, Inv, Conversation, InOnePlace, Still
  <2>6. QED
    BY <1>2, <2>1, <2>3, <2>5, HoldsNoMore, PluginMoves
<1>5. QED
  BY <1>3, <1>4 DEF Writer

(* The answer of a plugin, whatever it makes of what it was asked: only what
   it was given and what it held back, and all of that at the end. *)
LEMMA WhatItPrints ==
    ASSUME NEW p \in Plugins, plugin \in [Plugins -> Ios], NEW hook \in Hooks,
           NEW state \in Prints(p, hook)
    PROVE  \E body \in Bodies \cup {None}, kept \in Bodies :
            /\ state = Said(plugin[p], kept, Append(plugin[p].lines, Line(TRUE, body)))
            /\ body # None => body \subseteq plugin[p].kept \cup hook.body
            /\ kept \subseteq plugin[p].kept \cup hook.body
            /\ hook.kind = "final" => kept = {}
            /\ hook.kind # "chunk" => kept \subseteq plugin[p].kept
<1> DEFINE s == plugin[p]
           both == s.kept \cup hook.body
           Printed(body, kept) ==
                [s EXCEPT !.asked = None, !.kept = kept, !.lines = Append(s.lines, Line(TRUE, body))]
<1>1. s.kept \in Bodies /\ hook.body \in Bodies /\ both \in Bodies /\ {} \in Bodies
  BY DEF Ios, Hooks, Bodies
<1>2. \/ hook.kind = "chunk" /\ state \in {Printed(None, s.kept), Printed({}, both),
                                         Printed(hook.body, both), Printed(both, {})}
      \/ hook.kind = "final" /\ state \in {Printed(s.kept, {})}
      \/ /\ hook.kind \notin {"chunk", "final"}
         /\ state \in {Printed(None, s.kept), Printed(hook.body, s.kept)}
  BY DEF Prints
<1> HIDE DEF Printed
<1>3. \E body \in Bodies \cup {None}, kept \in Bodies :
            /\ state = Printed(body, kept)
            /\ body # None => body \subseteq both
            /\ kept \subseteq both
            /\ hook.kind = "final" => kept = {}
            /\ hook.kind # "chunk" => kept \subseteq s.kept
  BY <1>1, <1>2
<1>4. QED
  BY <1>3 DEF Printed, Said

LEMMA AnswersStep ==
    ASSUME Inv, NEW p \in Plugins, Answers(p), UNCHANGED relayVars
    PROVE  Inv'
<1> DEFINE s == plugin[p]
           hook == s.asked
<1>1. s \in Ios /\ plugin \in [Plugins -> Ios]
  BY DEF Inv, TypeOK
<1>2. hook # None /\ hook \in Hooks
  BY <1>1 DEF Answers, Ios
<1>3. UNCHANGED call /\ unasked' \in Nat /\ (calm' => calm)
  BY DEF Answers, Inv, TypeOK, calm
<1>4a. PICK next \in Prints(p, hook) : Put(p, next)
  BY DEF Answers
<1>4. PICK body \in Bodies \cup {None}, kept \in Bodies :
            /\ next = Said(s, kept, Append(s.lines, Line(TRUE, body)))
            /\ body # None => body \subseteq s.kept \cup hook.body
            /\ kept \subseteq s.kept \cup hook.body
            /\ hook.kind = "final" => kept = {}
            /\ hook.kind # "chunk" => kept \subseteq s.kept
  BY <1>1, <1>2, <1>4a, WhatItPrints, Zenon
<1> DEFINE line == Line(TRUE, body)
           lines == Append(s.lines, line)
           state == Said(s, kept, lines)
<1>5. line \in Lines /\ lines \in Seq(Lines) /\ line.parses = TRUE /\ line.body = body
  BY <1>1 DEF Ios, Line, Lines
<1>6. /\ state \in Ios /\ state.asked = None /\ state.kept = kept /\ state.lines = lines
      /\ state.io = s.io /\ state.hooks = s.hooks /\ state.writing = s.writing
  <2>1. lines \in Seq(Lines) /\ s \in Ios
    BY <1>1, <1>5
  <2> HIDE DEF lines
  <2>2. QED
    BY <2>1, EditSaid
<1>7. plugin'[p] = state /\ Put(p, state)
  BY <1>1, <1>4, <1>4a DEF Put
<1> HIDE DEF state, line
(* It was asked by the call that waits for it. *)
<1>8. calm /\ s.io => /\ Waiting(p) /\ hook = call.hook
                      /\ s.hooks = <<>> /\ s.writing = None /\ s.lines = <<>>
  BY <1>2 DEF Inv, Conversation, InOnePlace, Still
<1> HIDE DEF lines
<1>13. calm /\ s.io => lines = <<line>> /\ Len(lines) = 1
  <2> SUFFICES ASSUME calm, s.io PROVE Append(s.lines, line) = <<line>>
    BY DEF lines
  <2>1. s.lines = <<>>
    BY <1>8
  <2>2. QED
    BY <2>1
<1>9. calm' /\ state.io => IF Waiting(p) THEN InOnePlace(p)' ELSE Still(p)'
  <2> SUFFICES ASSUME calm', state.io PROVE Waiting(p) /\ InOnePlace(p)'
    BY <1>3
  <2>1. lines = <<line>> /\ Len(lines) = 1
    BY <1>3, <1>6, <1>8, <1>13
  <2>2. QED
    BY <1>3, <1>6, <1>7, <1>8, <2>1 DEF InOnePlace
<1>10. Quiet /\ calm' /\ state.io => HeldIsAskedFor(p)'
  <2> SUFFICES ASSUME Quiet, calm', state.io PROVE HeldIsAskedFor(p)'
    OBVIOUS
  <2>1. /\ Waiting(p) /\ hook = call.hook /\ lines = <<line>>
    BY <1>3, <1>6, <1>8, <1>13
  <2>2. hook.kind = KindOf /\ job.at = p /\ hook.body \subseteq {job.of} /\ HeldIsAskedFor(p)
        /\ (job.pc = "chunking" => chunking[p]) /\ job.pc \in Walks
    BY <1>3, <1>6, <2>1 DEF Inv, CallsAreOfTheJob, BytesAreOfTheJob, Waiting
  <2>3. kept \subseteq {job.of} /\ (body # None => body \subseteq {job.of})
    BY <1>4, <2>2 DEF HeldIsAskedFor
  <2>4. hook.kind = "final" <=> job.pc = "ending"
    BY <2>2 DEF KindOf, Walks
  <2>5. hook.kind = "chunk" <=> job.pc = "chunking"
    BY <2>2 DEF KindOf, Walks
  <2>6. kept # {} => job.pc \in {"streaming", "chunking", "sending", "ending"} /\ chunking[p]
    BY <1>4, <2>2, <2>4, <2>5 DEF HeldIsAskedFor
  <2>7. UNCHANGED <<call, job, chunking>> /\ \A i \in DOMAIN lines : lines[i] = line
    BY <1>3, <2>1 DEF relayVars
  <2>8. QED
    BY <1>4, <1>5, <1>6, <1>7, <2>3, <2>4, <2>6, <2>7 DEF HeldIsAskedFor
<1>11. QED
  BY <1>3, <1>6, <1>7, <1>9, <1>10, PluginMoves

LEMMA ReadsStep ==
    ASSUME Inv, NEW p \in Plugins, Reads(p), UNCHANGED relayVars
    PROVE  Inv'
<1> DEFINE s == plugin[p]
           a == s.writing
           state == TakenIn(s, a)
<1>1. s \in Ios
  BY DEF Inv, TypeOK
<1>2. a \in Hooks \cup {None}
  BY <1>1 DEF Ios
<1>3. plugin \in [Plugins -> Ios]
  BY DEF Inv, TypeOK
<1>4. UNCHANGED call /\ unasked' \in Nat /\ (calm' => calm)
  BY DEF Reads, Inv, TypeOK, calm
<1>5. Put(p, state) /\ a # None
  BY DEF Reads, TakenIn
<1> HIDE DEF a, s
<1>6. /\ state \in Ios /\ state.asked = a /\ state.writing = None
      /\ state.io = s.io /\ state.hooks = s.hooks /\ state.kept = s.kept /\ state.lines = s.lines
  BY <1>1, <1>2, EditTakenIn
<1> HIDE DEF state
<1> USE DEF s
<1>7. plugin'[p] = state
  BY <1>3, <1>5, <1>6 DEF Put
<1>8. calm' /\ state.io => IF Waiting(p) THEN InOnePlace(p)' ELSE Still(p)'
  BY <1>4, <1>5, <1>6, <1>7 DEF a, Inv, Conversation, InOnePlace, Still
<1>9. QED
  BY <1>4, <1>5, <1>6, <1>8, HoldsNoMore, PluginMoves

LEMMA NonsenseStep ==
    ASSUME Inv, NEW p \in Plugins, AnswersNonsense(p), UNCHANGED relayVars
    PROVE  Inv'
<1> DEFINE s == plugin[p]
           line == Line(FALSE, None)
           lines == Append(s.lines, line)
           none == None
           state == Spoke(s, none, lines)
<1>1. s \in Ios
  BY DEF Inv, TypeOK
<1>2. line \in Lines /\ lines \in Seq(Lines) /\ line.parses = FALSE
  BY <1>1 DEF Ios, Line, Lines
<1>3. plugin \in [Plugins -> Ios]
  BY DEF Inv, TypeOK
<1>4. UNCHANGED call /\ unasked' \in Nat /\ (calm' => calm)
  BY DEF AnswersNonsense, Inv, TypeOK, calm
<1>5. Put(p, state) /\ s.asked # None
  BY DEF AnswersNonsense, Spoke
<1>6. none \in Hooks \cup {None} /\ lines \in Seq(Lines)
  BY <1>2
<1>7. calm /\ s.io => Waiting(p) /\ s.hooks = <<>> /\ s.writing = None /\ s.lines = <<>>
  BY <1>5 DEF Inv, Conversation, InOnePlace, Still
<1> HIDE DEF line
<1>8. calm /\ s.io => lines = <<line>> /\ Len(lines) = 1
  <2> SUFFICES ASSUME calm, s.io PROVE Append(s.lines, line) = <<line>>
    OBVIOUS
  <2>1. s.lines = <<>>
    BY <1>7
  <2>2. QED
    BY <2>1
<1> HIDE DEF none, lines, s
<1>9. /\ state \in Ios /\ state.asked = none /\ state.lines = lines
      /\ state.io = s.io /\ state.hooks = s.hooks /\ state.writing = s.writing /\ state.kept = s.kept
  BY <1>1, <1>6, EditSpoke
<1> HIDE DEF state
<1> USE DEF s, none
<1>10. plugin'[p] = state
  BY <1>3, <1>5, <1>9 DEF Put
<1>11. calm' /\ state.io => IF Waiting(p) THEN InOnePlace(p)' ELSE Still(p)'
  BY <1>4, <1>7, <1>8, <1>9, <1>10 DEF InOnePlace
<1>12. Quiet /\ calm' /\ state.io => HeldIsAskedFor(p)'
  <2> SUFFICES ASSUME Quiet, calm', state.io PROVE HeldIsAskedFor(p)'
    OBVIOUS
  <2>1. HeldIsAskedFor(p)
    BY <1>9 DEF Inv, BytesAreOfTheJob
  <2>2. UNCHANGED <<call, job, chunking>>
    BY <1>4 DEF relayVars
  <2>3. lines = <<line>>
    BY <1>4, <1>8, <1>9
  <2>4. \A i \in DOMAIN lines : lines[i] = line
    BY <2>3
  <2>5. QED
    BY <1>2, <1>9, <1>10, <2>1, <2>2, <2>4 DEF HeldIsAskedFor, Waiting, Asked
<1>13. QED
  BY <1>4, <1>5, <1>9, <1>11, <1>12, PluginMoves

(* A line too many, and nothing is promised any more. *)
LEMMA BabblesStep ==
    ASSUME Inv, NEW p \in Plugins, Babbles(p), UNCHANGED relayVars
    PROVE  Inv'
<1> DEFINE s == plugin[p]
           lines == Append(s.lines, Line(TRUE, None))
           asked == s.asked
           state == Spoke(s, asked, lines)
<1>1. s \in Ios
  BY DEF Inv, TypeOK
<1>2. lines \in Seq(Lines) /\ asked \in Hooks \cup {None}
  BY <1>1 DEF Ios, Line, Lines
<1>3. UNCHANGED call /\ unasked' \in Nat /\ ~calm'
  BY DEF Babbles, Inv, TypeOK, calm
<1>4. [s EXCEPT !.lines = lines] = state
  BY <1>1 DEF Spoke, Ios
<1>5. Put(p, state)
  BY <1>4 DEF Babbles
<1> HIDE DEF asked, lines, s
<1>6. state \in Ios /\ state.io = s.io
  BY <1>1, <1>2, EditSpoke
<1> HIDE DEF state
<1> USE DEF s
<1>7. QED
  BY <1>3, <1>5, <1>6, PluginMoves

LEMMA ExitsStep ==
    ASSUME Inv, NEW p \in Plugins, Exits(p), UNCHANGED relayVars
    PROVE  Inv'
<1> DEFINE s == plugin[p]
           state == Gone(s)
<1>1. s \in Ios
  BY DEF Inv, TypeOK
<1>2. plugin \in [Plugins -> Ios]
  BY DEF Inv, TypeOK
<1>3. UNCHANGED call /\ unasked' \in Nat /\ (calm' => calm)
  BY DEF Exits, Inv, TypeOK, calm
<1>4. Put(p, state)
  BY DEF Exits, Gone
<1> HIDE DEF s
<1>5. /\ state \in Ios /\ state.asked = None /\ state.kept = {}
      /\ state.io = s.io /\ state.hooks = s.hooks /\ state.writing = s.writing /\ state.lines = s.lines
  BY <1>1, EditGone
<1> HIDE DEF state
<1> USE DEF s
<1>6. plugin'[p] = state
  BY <1>2, <1>4, <1>5 DEF Put
<1>7. calm' /\ state.io => IF Waiting(p) THEN InOnePlace(p)' ELSE Still(p)'
  BY <1>3, <1>5, <1>6 DEF Inv, Conversation, InOnePlace, Still
<1>8. QED
  BY <1>3, <1>4, <1>5, <1>7, HoldsNoMore, PluginMoves

-----------------------------------------------------------------------------
(* The call ends, with a reply or without. *)
LEMMA CallDone ==
    ASSUME Inv, NEW p \in Plugins, NEW state \in Ios, NEW body \in Bodies \cup {None},
           call.pc \in {"sending", "waiting"}, call.of = p,
           Put(p, state), call' = Returned(body), unasked' = unasked, UNCHANGED relayVars,
           calm /\ state.io => Still(p)',
           Quiet /\ state.io => HeldIsAskedFor(p)',
           Quiet /\ body # None => body \subseteq {job.of}
    PROVE  Inv'
<1>1. /\ plugin' \in [Plugins -> Ios] /\ plugin'[p] = state
      /\ \A q \in Plugins : q # p => plugin'[q] = plugin[q]
  BY DEF Inv, TypeOK, Put
<1>2. call'.pc = "returned" /\ call'.body = body /\ call' \in Calls
  BY DEF Returned, NoCall, Calls
<1>3. TypeOK'
  BY <1>1, <1>2 DEF Inv, TypeOK, relayVars
<1>4. Conversation'
  BY <1>1, <1>2 DEF Inv, Conversation, Waiting, Still, calm
<1>5. CallsAreOfTheJob' /\ ChunkingIsCurrent'
  BY <1>2 DEF Inv, CallsAreOfTheJob, ChunkingIsCurrent, relayVars
<1>6. BytesAreOfTheJob'
  <2> SUFFICES ASSUME Quiet PROVE BytesAreOfTheJob'
    BY DEF BytesAreOfTheJob, Quiet, calm, relayVars
  <2>1. UNCHANGED <<job, chunking, sent>>
    BY DEF relayVars
  <2>2. \A q \in Plugins : plugin'[q].io => HeldIsAskedFor(q)'
    <3> SUFFICES ASSUME NEW q \in Plugins, q # p, plugin'[q].io PROVE HeldIsAskedFor(q)'
      BY <1>1
    <3>1. HeldIsAskedFor(q)
      BY <1>1 DEF Inv, BytesAreOfTheJob
    <3>2. QED
      BY <1>1, <1>2, <2>1, <3>1 DEF HeldIsAskedFor, Asked, Waiting
  <2>3. QED
    BY <1>2, <2>1, <2>2 DEF Inv, BytesAreOfTheJob
<1>7. QED
  BY <1>3, <1>4, <1>5, <1>6 DEF Inv

LEMMA AbandonStep ==
    ASSUME Inv, call.pc \in {"sending", "waiting"}, Abandon(call.of), UNCHANGED relayVars
    PROVE  Inv'
<1>1. Abandoned \in Ios /\ Abandoned.io = FALSE
  BY DEF Abandoned, Ios, Bodies
<1>2. call.of \in Plugins
  BY DEF Inv, CallsAreOfTheJob
<1>3. QED
  BY <1>1, <1>2, CallDone DEF Abandon

LEMMA GoneStep ==
    ASSUME Inv, CallGone, UNCHANGED relayVars
    PROVE  Inv'
<1>0. PICK p \in Plugins : p = call.of
  BY DEF CallGone, Inv, CallsAreOfTheJob
<1> DEFINE state == plugin[p]
<1>1. plugin \in [Plugins -> Ios]
  BY DEF Inv, TypeOK
<1>2. state \in Ios /\ ~state.io
  BY <1>0, <1>1 DEF CallGone
<1>3. Put(p, state)
  BY <1>1 DEF CallGone, Put
<1>4. QED
  BY <1>0, <1>2, <1>3, CallDone DEF CallGone

LEMMA SendsStep ==
    ASSUME Inv, CallSends, UNCHANGED relayVars
    PROVE  Inv'
<1>0. PICK p \in Plugins : p = call.of
  BY DEF CallSends, Inv, CallsAreOfTheJob
<1> DEFINE s == plugin[p]
           hooks == <<call.hook>>
           state == Handed(s, hooks)
<1>1. plugin \in [Plugins -> Ios] /\ call \in Calls /\ call.hook \in Hooks
  BY DEF CallSends, Inv, TypeOK, CallsAreOfTheJob
<1>2. s \in Ios
  BY <1>1
<1>3. hooks \in Seq(Hooks)
  BY <1>1
<1>4. Put(p, state) /\ unasked' = unasked
  BY <1>0 DEF CallSends, Handed
<1>5. /\ call.pc = "sending" /\ call' = [call EXCEPT !.pc = "waiting"] /\ s.io
  BY <1>0 DEF CallSends
<1>6. /\ call'.pc = "waiting" /\ call'.of = p /\ call'.hook = call.hook /\ call' \in Calls
  BY <1>0, <1>1, <1>5 DEF Calls
<1> HIDE DEF hooks, s
<1>7. /\ state \in Ios /\ state.hooks = hooks /\ state.io = s.io /\ state.writing = s.writing
      /\ state.asked = s.asked /\ state.kept = s.kept /\ state.lines = s.lines
  BY <1>2, <1>3, EditHanded
<1> HIDE DEF state
<1> USE DEF s
<1>8. /\ plugin' \in [Plugins -> Ios] /\ plugin'[p] = state
      /\ \A q \in Plugins : q # p => plugin'[q] = plugin[q]
  BY <1>1, <1>4, <1>7 DEF Put
<1>9. TypeOK'
  BY <1>4, <1>6, <1>8 DEF Inv, TypeOK, relayVars
<1>10. calm => Still(p)
  BY <1>0, <1>5 DEF Inv, Conversation, Waiting
<1>11. Conversation'
  <2> SUFFICES ASSUME calm', NEW q \in Plugins, plugin'[q].io
               PROVE  IF Waiting(q)' THEN InOnePlace(q)' ELSE Still(q)'
    BY DEF Conversation
  <2>1. CASE q = p
    BY <1>4, <1>6, <1>7, <1>8, <1>10, <2>1 DEF calm, Still, InOnePlace, Waiting, hooks
  <2>2. CASE q # p
    BY <1>4, <1>5, <1>6, <1>8, <2>2 DEF Inv, Conversation, calm, Still, Waiting
  <2>3. QED
    BY <2>1, <2>2
<1>12. CallsAreOfTheJob' /\ ChunkingIsCurrent'
  <2>1. UNCHANGED <<job, chunking>> /\ KindOf' = KindOf
    BY DEF relayVars, KindOf
  <2>2. plugin'[p].io
    BY <1>5, <1>7, <1>8
  <2>3. QED
    BY <1>0, <1>5, <1>6, <2>1, <2>2 DEF Inv, CallsAreOfTheJob, ChunkingIsCurrent
<1>13. BytesAreOfTheJob'
  <2> SUFFICES ASSUME Quiet PROVE BytesAreOfTheJob'
    BY <1>4 DEF BytesAreOfTheJob, Quiet, calm, relayVars
  <2>1. UNCHANGED <<job, chunking, sent>>
    BY DEF relayVars
  <2>2. ASSUME NEW q \in Plugins, plugin'[q].io PROVE HeldIsAskedFor(q)'
    <3>1. plugin[q].io /\ plugin'[q].kept = plugin[q].kept /\ plugin'[q].lines = plugin[q].lines
      BY <1>7, <1>8, <2>2
    <3>2. HeldIsAskedFor(q) /\ (q = p => plugin[q].lines = <<>>)
      BY <1>10, <3>1 DEF Inv, BytesAreOfTheJob, Quiet, Still
    <3>3. QED
      BY <1>5, <1>6, <2>1, <3>1, <3>2 DEF HeldIsAskedFor, Asked, Waiting
  <2>3. QED
    BY <1>5, <1>6, <2>1, <2>2 DEF Inv, BytesAreOfTheJob
<1>14. QED
  BY <1>9, <1>11, <1>12, <1>13 DEF Inv

LEMMA ReturnsStep ==
    ASSUME Inv, CallReturns, UNCHANGED relayVars
    PROVE  Inv'
<1>0. PICK p \in Plugins : p = call.of
  BY DEF CallReturns, Inv, CallsAreOfTheJob
<1> DEFINE s == plugin[p]
           line == Head(s.lines)
           rest == Tail(s.lines)
           state == Heard(s, rest)
<1>1. plugin \in [Plugins -> Ios] /\ call.pc = "waiting"
  BY DEF CallReturns, Inv, TypeOK
<1>2. s \in Ios
  BY <1>1
<1>3. s.lines \in Seq(Lines) /\ s.lines # <<>> /\ line.parses
  BY <1>0, <1>2 DEF CallReturns, Ios
<1>4. line \in Lines /\ rest \in Seq(Lines) /\ line = s.lines[1] /\ 1 \in DOMAIN s.lines
  BY <1>3
<1>5. rest \in Seq(Lines)
  BY <1>4
<1>6. Put(p, state) /\ unasked' = unasked /\ call' = Returned(line.body)
  BY <1>0 DEF CallReturns, Heard
<1>7. calm /\ s.io => rest = <<>> /\ s.hooks = <<>> /\ s.writing = None /\ s.asked = None
  <2> SUFFICES ASSUME calm, s.io
               PROVE  rest = <<>> /\ s.hooks = <<>> /\ s.writing = None /\ s.asked = None
    OBVIOUS
  <2>1. /\ s.hooks = <<>> /\ s.writing = None /\ s.asked = None
        /\ Len(s.lines) = 1
    BY <1>0, <1>1, <1>3 DEF Inv, Conversation, Waiting, InOnePlace, Still
  <2>2. Len(rest) = 0
    BY <1>3, <2>1
  <2>3. rest = <<>>
    <3> HIDE DEF rest
    <3>1. QED
      BY <1>5, <2>2
  <2>4. QED
    BY <2>1, <2>3
<1>8. line.body \in Bodies \cup {None}
  BY <1>4 DEF Lines
<1>9. s.io /\ (Quiet => HeldIsAskedFor(p))
  BY <1>0, <1>1 DEF Inv, CallsAreOfTheJob, BytesAreOfTheJob
<1> HIDE DEF rest, line, s
<1>10. /\ state \in Ios /\ state.lines = rest /\ state.io = s.io /\ state.hooks = s.hooks
       /\ state.writing = s.writing /\ state.asked = s.asked /\ state.kept = s.kept
  BY <1>2, <1>5, EditHeard
<1> HIDE DEF state
<1> USE DEF s
<1>11. plugin'[p] = state
  BY <1>1, <1>6 DEF Put
<1>12. calm /\ state.io => Still(p)'
  BY <1>7, <1>10, <1>11 DEF Still
<1>13. ASSUME Quiet
       PROVE  HeldIsAskedFor(p)' /\ (line.body # None => line.body \subseteq {job.of})
  <2>1. /\ line.body # None => line.body \subseteq {job.of}
        /\ job.pc = "ending" => s.kept = {}
    BY <1>0, <1>1, <1>3, <1>4, <1>9, <1>13 DEF HeldIsAskedFor, Waiting
  <2>2. call'.pc = "returned" /\ UNCHANGED <<job, chunking>>
    BY <1>6 DEF Returned, NoCall, relayVars
  <2>3. QED
    BY <1>9, <1>10, <1>11, <1>13, <2>1, <2>2 DEF HeldIsAskedFor, Waiting, Asked
<1>14. Quiet /\ state.io => HeldIsAskedFor(p)'
  BY <1>13
<1> HIDE DEF s
<1>15. QED
  BY <1>0, <1>1, <1>6, <1>8, <1>10, <1>12, <1>13, <1>14, CallDone

-----------------------------------------------------------------------------
(* What the client does is seen by no plugin. *)
LEMMA ClientStep ==
    ASSUME Inv, Client
    PROVE  Inv'
<1>1. /\ UNCHANGED <<plugin, call, unasked, front, chunks, chunking, sent>>
      /\ job' \in Jobs /\ job'.of = job.of /\ job'.pc = job.pc /\ job'.at = job.at
      /\ job'.body = job.body /\ job'.wanted = job.wanted
  <2>1. job \in Jobs
    BY DEF Inv, TypeOK
  <2>2. CASE Takes
    <3>1. job.queued - 1 \in Nat
      BY <2>1, <2>2 DEF Takes, Jobs
    <3>2. QED
      BY <2>1, <2>2, <3>1 DEF Takes, Jobs, pluginVars
  <2>3. CASE Leaves
    BY <2>1, <2>3 DEF Leaves, Jobs, pluginVars
  <2>4. QED
    BY <2>2, <2>3 DEF Client
<1>2. KindOf' = KindOf
  BY <1>1 DEF KindOf
<1>3. TypeOK' /\ Conversation'
  BY <1>1 DEF Inv, TypeOK, Conversation, InOnePlace, Still, Waiting, calm
<1>4. CallsAreOfTheJob' /\ ChunkingIsCurrent'
  BY <1>1, <1>2 DEF Inv, CallsAreOfTheJob, ChunkingIsCurrent
<1>5. BytesAreOfTheJob'
  BY <1>1 DEF Inv, BytesAreOfTheJob, HeldIsAskedFor, Waiting, Asked, Quiet, calm
<1>6. QED
  BY <1>3, <1>4, <1>5 DEF Inv

(* The job moves on while no plugin is called: what is held back has to be of
   the response it comes to, and still asked for there. *)
HeldStill(p, j, c) ==
    /\ plugin[p].kept \subseteq {j.of}
    /\ plugin[p].kept # {} => j.pc \in {"streaming", "chunking", "sending", "ending"} /\ c[p]

NotAsked(j, c) ==
    /\ j.pc \in Streams => \A p \in Plugins : c[p] => p \in j.wanted
    /\ j.pc = "ending" => \A p \in Plugins : p < j.at => ~c[p]

LEMMA JobMoves ==
    ASSUME Inv, UNCHANGED pluginVars, UNCHANGED <<front, chunks>>, call.pc = "idle",
           NEW j, NEW c, NEW t, job' = j, chunking' = c, sent' = t,
           j \in Jobs, c \in [Plugins -> BOOLEAN], t \in [to : Nat, body : Bodies],
           NotAsked(j, c),
           Quiet => j.body \subseteq {j.of} /\ t.body \subseteq {t.to},
           Quiet => \A p \in Plugins : plugin[p].io => HeldStill(p, j, c)
    PROVE  Inv'
<1>1. UNCHANGED <<plugin, call, unasked>>
  BY DEF pluginVars
<1>2. TypeOK' /\ Conversation'
  BY <1>1 DEF Inv, TypeOK, Conversation, InOnePlace, Still, Waiting, calm
<1>3. CallsAreOfTheJob' /\ ChunkingIsCurrent'
  BY <1>1 DEF Inv, CallsAreOfTheJob, ChunkingIsCurrent, NotAsked
<1>4. BytesAreOfTheJob'
  BY <1>1 DEF Inv, BytesAreOfTheJob, HeldIsAskedFor, HeldStill, Waiting, Asked, Quiet, calm
<1>5. QED
  BY <1>2, <1>3, <1>4 DEF Inv

(* Between two jobs, before the head of a response and at the very end of its
   body no one holds anything back. *)
LEMMA HeldNow ==
    ASSUME Inv, call.pc = "idle"
    PROVE  /\ job \in Jobs /\ chunking \in [Plugins -> BOOLEAN]
           /\ sent \in [to : Nat, body : Bodies]
           /\ NotAsked(job, chunking)
           /\ Quiet => \A p \in Plugins : plugin[p].io => HeldStill(p, job, chunking)
           /\ Quiet => job.body \subseteq {job.of} /\ sent.body \subseteq {sent.to}
  BY DEF Inv, TypeOK, ChunkingIsCurrent, BytesAreOfTheJob, HeldIsAskedFor, Asked, HeldStill, NotAsked

LEMMA NotCalling ==
    ASSUME Inv, job.pc \notin Walks
    PROVE  call.pc = "idle"
  BY DEF Inv, CallsAreOfTheJob

LEMMA NewJob ==
    ASSUME NEW r \in Nat, NEW pc \in {"idle", "asking"}
    PROVE  /\ Job(r, pc) \in Jobs /\ Job(r, pc).of = r /\ Job(r, pc).pc = pc /\ Job(r, pc).body = {}
           /\ NotAsked(Job(r, pc), chunking)
  BY DEF Job, Jobs, Bodies, Places, Walks, Streams, NotAsked

LEMMA NothingSent ==
    /\ Nothing \in [to : Nat, body : Bodies]
    /\ Nothing.body = {}
  BY DEF Nothing, Bodies

(* The job is over where no one holds anything back. *)
LEMMA IsOver ==
    ASSUME Inv, UNCHANGED pluginVars, UNCHANGED <<front, chunks, chunking>>, call.pc = "idle",
           job' = Done, NEW t, sent' = t, t \in [to : Nat, body : Bodies],
           Quiet => t.body \subseteq {t.to},
           Quiet => \A p \in Plugins : plugin[p].io => plugin[p].kept = {}
    PROVE  Inv'
<1>1. job.of \in Nat
  BY HeldNow DEF Jobs
<1> DEFINE j == Job(job.of, "idle")
<1>2. job' = j
  BY DEF Done
<1>3. j \in Jobs /\ j.of = job.of /\ j.body = {} /\ NotAsked(j, chunking)
  BY <1>1, NewJob
<1> HIDE DEF j
<1>4. Quiet => \A p \in Plugins : plugin[p].io => HeldStill(p, j, chunking)
  BY DEF HeldStill
<1>5. Quiet => j.body \subseteq {j.of}
  BY <1>3
<1>6. chunking \in [Plugins -> BOOLEAN]
  BY DEF Inv, TypeOK
<1>7. QED
  BY <1>2, <1>3, <1>4, <1>5, <1>6, JobMoves

-----------------------------------------------------------------------------
(* The steps of the job, between its calls. *)

LEMMA AcquireStep ==
    ASSUME Inv, Acquire
    PROVE  Inv'
<1>1. call.pc = "idle" /\ job \in Jobs /\ job.pc = "idle"
  BY NotCalling, HeldNow DEF Acquire, Walks
<1> DEFINE j == Job(job.of + 1, "asking")
<1>2. job.of + 1 \in Nat
  BY <1>1 DEF Jobs
<1>3. j \in Jobs /\ j.body = {} /\ NotAsked(j, chunking)
  BY <1>2, NewJob
<1>4. job' = j
  BY DEF Acquire
<1>5. Quiet => \A p \in Plugins : plugin[p].io => plugin[p].kept = {}
  BY <1>1, HeldNow DEF HeldStill
<1> HIDE DEF j
<1>6. Quiet => \A p \in Plugins : plugin[p].io => HeldStill(p, j, chunking)
  BY <1>5 DEF HeldStill
<1>7. QED
  BY <1>1, <1>3, <1>4, <1>6, HeldNow, NothingSent, JobMoves DEF Acquire

(* An answer of the proxy's own. *)
LEMMA AnswerStep ==
    ASSUME Inv, UNCHANGED pluginVars, UNCHANGED <<front, chunks>>, call.pc = "idle",
           NEW c \in [Plugins -> BOOLEAN], chunking' = c,
           NEW body \in Bodies, AnswerWhole(body), Quiet => body \subseteq {job.of},
           job.pc \in {"asking", "looking", "fetching"}
    PROVE  Inv'
<1>1. job \in Jobs /\ job.of \in Nat
  BY HeldNow DEF Jobs
<1> DEFINE j == Job(job.of, "idle")
           t == [to |-> job.of, body |-> body]
<1>2. job' = j /\ sent' = t
  BY DEF Done, AnswerWhole
<1>3. j \in Jobs /\ j.of = job.of /\ j.pc = "idle" /\ j.body = {}
  BY <1>1, NewJob
<1>4. t \in [to : Nat, body : Bodies] /\ t.to = job.of /\ t.body = body
  BY <1>1
<1> HIDE DEF j, t
<1>5. Quiet => \A p \in Plugins : plugin[p].io => HeldStill(p, j, c)
  BY HeldNow DEF HeldStill
<1>6. NotAsked(j, c)
  BY <1>3 DEF NotAsked, Streams
<1>7. QED
  BY <1>2, <1>3, <1>4, <1>5, <1>6, JobMoves

(* What an edit of the job leaves as it was. *)
Moved(s, pc, at, body) == [s EXCEPT !.pc = pc, !.at = at, !.body = body]
Headed(s, at, wanted) == [s EXCEPT !.pc = "heading", !.at = at, !.wanted = wanted]

LEMMA EditJob ==
    ASSUME NEW s \in Jobs, NEW pc \in Places, NEW at \in Nat \ {0}, NEW body \in Bodies
    PROVE  /\ Moved(s, pc, at, body) \in Jobs
           /\ Moved(s, pc, at, body).of = s.of
           /\ Moved(s, pc, at, body).pc = pc
           /\ Moved(s, pc, at, body).at = at
           /\ Moved(s, pc, at, body).body = body
           /\ Moved(s, pc, at, body).wanted = s.wanted
  BY DEF Jobs, Places, Moved

LEMMA EditHeading ==
    ASSUME NEW s \in Jobs, NEW at \in Nat \ {0}, NEW wanted \in SUBSET Plugins
    PROVE  /\ Headed(s, at, wanted) \in Jobs
           /\ Headed(s, at, wanted).of = s.of
           /\ Headed(s, at, wanted).pc = "heading"
           /\ Headed(s, at, wanted).body = s.body
           /\ Headed(s, at, wanted).wanted = wanted
  BY DEF Jobs, Places, Walks, Headed

(* A job that has its response whole, at the first link. *)
LooksAt(s) == Moved(s, "looking", 1, {s.of})

LEMMA EditLooking ==
    ASSUME NEW s \in Jobs
    PROVE  /\ LooksAt(s) \in Jobs
           /\ LooksAt(s).of = s.of
           /\ LooksAt(s).pc = "looking"
           /\ LooksAt(s).body = {s.of}
<1> DEFINE pc == "looking"
           at == 1
           own == {s.of}
<1>1. pc \in Places
  BY DEF Places, Walks
<1>2. at \in Nat \ {0}
  OBVIOUS
<1>3. own \in Bodies
  BY DEF Jobs, Bodies
<1> HIDE DEF pc, at, own
<1>4. LET j == Moved(s, pc, at, own) IN j \in Jobs /\ j.of = s.of /\ j.pc = pc /\ j.body = own
  BY <1>1, <1>2, <1>3, EditJob
<1>5. QED
  BY <1>4 DEF LooksAt, pc, at, own

LEMMA FetchStep ==
    ASSUME Inv, Fails \/ Stored \/ Live
    PROVE  Inv'
<1>1. job.pc = "fetching" /\ call.pc = "idle" /\ job \in Jobs /\ chunking \in [Plugins -> BOOLEAN]
  BY NotCalling, HeldNow DEF Fails, Stored, Live, Walks
<1>2. Quiet => \A p \in Plugins : plugin[p].io => plugin[p].kept = {}
  BY <1>1, HeldNow DEF HeldStill
<1>3. CASE Fails
  <2>1. {} \in Bodies
    BY DEF Bodies
  <2>2. AnswerWhole({}) /\ chunking' = chunking /\ UNCHANGED pluginVars /\ UNCHANGED <<front, chunks>>
    BY <1>3 DEF Fails
  <2>3. QED
    BY <1>1, <2>1, <2>2, AnswerStep
<1>4. CASE Stored
  <2> DEFINE j == LooksAt(job)
  <2>1. j \in Jobs /\ j.of = job.of /\ j.pc = "looking" /\ j.body = {job.of}
    BY <1>1, EditLooking
  <2>2. /\ job' = j /\ chunking' = chunking /\ sent' = sent
        /\ UNCHANGED pluginVars /\ UNCHANGED <<front, chunks>>
    BY <1>4 DEF Stored, Moved, LooksAt
  <2> HIDE DEF j
  <2>3. Quiet => \A p \in Plugins : plugin[p].io => HeldStill(p, j, chunking)
    BY <1>2 DEF HeldStill
  <2>4. NotAsked(j, chunking)
    BY <2>1 DEF NotAsked, Streams
  <2>5. QED
    BY <1>1, <2>1, <2>2, <2>3, <2>4, HeldNow, JobMoves
<1>5. CASE Live
  <2>1. PICK concerned \in SUBSET Plugins, other \in BOOLEAN, storable \in BOOLEAN,
             ends \in BOOLEAN, fits \in BOOLEAN :
        LET held == \/ concerned \ chunks # {} \/ other
                    \/ storable /\ concerned \cap chunks = {}
        IN
        /\ chunking' = WantsChunks(concerned)
        /\ IF held /\ ~ends
           THEN AnswerWhole({})
           ELSE /\ job' = IF held /\ fits
                          THEN [job EXCEPT !.pc = "looking", !.at = 1, !.body = {job.of}]
                          ELSE [job EXCEPT !.pc = "heading", !.at = 1, !.wanted = concerned \cap chunks]
                /\ UNCHANGED <<answered, sent>>
    BY <1>5 DEF Live
  <2>2. UNCHANGED pluginVars /\ UNCHANGED <<front, chunks>>
    BY <1>5 DEF Live
  <2> DEFINE c == WantsChunks(concerned)
             looking == LooksAt(job)
             at == 1
             wanted == concerned \cap chunks
             heading == Headed(job, at, wanted)
  <2>3. c \in [Plugins -> BOOLEAN] /\ \A p \in Plugins : c[p] => p \in concerned \cap chunks
    <3>1. c = [p \in Plugins |-> p \in concerned \cap chunks]
      BY DEF WantsChunks
    <3>2. \A p \in Plugins : (p \in concerned \cap chunks) \in BOOLEAN
      OBVIOUS
    <3> HIDE DEF c
    <3>3. c \in [Plugins -> BOOLEAN]
      BY <3>1, <3>2, Zenon
    <3>4. \A p \in Plugins : c[p] => p \in concerned \cap chunks
      BY <3>1, Zenon
    <3>5. QED
      BY <3>3, <3>4
  <2>4. looking \in Jobs /\ looking.of = job.of /\ looking.pc = "looking" /\ looking.body = {job.of}
    BY <1>1, EditLooking
  <2>5. wanted \in SUBSET Plugins /\ at \in Nat \ {0} /\ job \in Jobs
    BY <1>1
  <2> HIDE DEF wanted, at
  <2>6. /\ heading \in Jobs /\ heading.of = job.of /\ heading.pc = "heading"
        /\ heading.body = job.body /\ heading.wanted = wanted
    BY <2>5, EditHeading
  <2>7. chunking' = c
    BY <2>1
  <2>8. \/ AnswerWhole({})
        \/ job' = looking /\ sent' = sent
        \/ job' = heading /\ sent' = sent
    BY <2>1 DEF Moved, Headed, LooksAt, at, wanted
  <2> HIDE DEF c, looking, heading
  <2>9. CASE AnswerWhole({})
    <3>1. {} \in Bodies
      BY DEF Bodies
    <3>2. QED
      BY <1>1, <2>2, <2>3, <2>7, <2>9, <3>1, AnswerStep
  <2>10. CASE job' = looking /\ sent' = sent
    <3>1. Quiet => \A p \in Plugins : plugin[p].io => HeldStill(p, looking, c)
      BY <1>2 DEF HeldStill
    <3>2. NotAsked(looking, c)
      BY <2>4 DEF NotAsked, Streams
    <3>3. QED
      BY <1>1, <2>2, <2>3, <2>4, <2>7, <2>10, <3>1, <3>2, HeldNow, JobMoves
  <2>11. CASE job' = heading /\ sent' = sent
    <3>1. Quiet => \A p \in Plugins : plugin[p].io => HeldStill(p, heading, c)
      BY <1>2 DEF HeldStill
    <3>2. NotAsked(heading, c)
      BY <2>3, <2>6 DEF NotAsked, wanted, Streams
    <3>3. QED
      BY <1>1, <2>2, <2>3, <2>6, <2>7, <2>11, <3>1, <3>2, HeldNow, JobMoves
  <2>12. QED
    BY <2>8, <2>9, <2>10, <2>11
<1>6. QED
  BY <1>3, <1>4, <1>5

LEMMA AheadStep ==
    ASSUME Inv, AnsweredAhead \/ LookedAll
    PROVE  Inv'
<1>1. /\ call.pc = "idle" /\ job.pc \in {"asking", "looking"}
      /\ UNCHANGED pluginVars /\ UNCHANGED <<front, chunks>> /\ chunking' = chunking
  BY DEF AnsweredAhead, LookedAll, WalkedOn, Walking
<1>2. /\ {} \in Bodies /\ job.body \in Bodies /\ chunking \in [Plugins -> BOOLEAN]
      /\ Quiet => job.body \subseteq {job.of}
  BY <1>1, HeldNow DEF Bodies, Jobs
<1>3. AnswerWhole({}) \/ AnswerWhole(job.body)
  BY DEF AnsweredAhead, LookedAll
<1>4. QED
  BY <1>1, <1>2, <1>3, AnswerStep

(* A step to where the plugins may hold back what they held back before. *)
LEMMA WalkStep ==
    ASSUME Inv, UNCHANGED pluginVars, UNCHANGED <<front, chunks, chunking, sent>>, call.pc = "idle",
           NEW j \in Jobs, job' = j, j.of = job.of, j.wanted = job.wanted,
           j.body \in {job.body, {}, {job.of}},
           j.pc \in Streams => job.pc \in Streams,
           j.pc = "ending" => \A p \in Plugins : p < j.at => ~chunking[p],
           \/ j.pc \in {"streaming", "chunking", "sending", "ending"}
           \/ Quiet => \A p \in Plugins : plugin[p].io => plugin[p].kept = {}
    PROVE  Inv'
<1>1. NotAsked(j, chunking)
  BY HeldNow DEF NotAsked
<1>2. Quiet => \A p \in Plugins : plugin[p].io => HeldStill(p, j, chunking)
  BY HeldNow DEF HeldStill
<1>3. Quiet => j.body \subseteq {j.of}
  BY HeldNow
<1>4. QED
  BY <1>1, <1>2, <1>3, HeldNow, JobMoves

Stepped(s, at, body) == [s EXCEPT !.at = at, !.body = body]
Went(s, pc, at) == [s EXCEPT !.pc = pc, !.at = at]
Read(s, read, body, at, pc) == [s EXCEPT !.read = read, !.body = body, !.at = at, !.pc = pc]
Queued(s, pc, queued) == [s EXCEPT !.pc = pc, !.queued = queued]

LEMMA EditStepped ==
    ASSUME NEW s \in Jobs, NEW at \in Nat \ {0}, NEW body \in Bodies
    PROVE  /\ Stepped(s, at, body) \in Jobs
           /\ Stepped(s, at, body).of = s.of
           /\ Stepped(s, at, body).pc = s.pc
           /\ Stepped(s, at, body).at = at
           /\ Stepped(s, at, body).body = body
           /\ Stepped(s, at, body).wanted = s.wanted
  BY DEF Jobs, Stepped

LEMMA EditWent ==
    ASSUME NEW s \in Jobs, NEW pc \in Places, NEW at \in Nat \ {0}
    PROVE  /\ Went(s, pc, at) \in Jobs
           /\ Went(s, pc, at).of = s.of
           /\ Went(s, pc, at).pc = pc
           /\ Went(s, pc, at).at = at
           /\ Went(s, pc, at).body = s.body
           /\ Went(s, pc, at).wanted = s.wanted
  BY DEF Jobs, Went

LEMMA EditRead ==
    ASSUME NEW s \in Jobs, NEW read \in Nat, NEW body \in Bodies, NEW at \in Nat \ {0}, NEW pc \in Places
    PROVE  /\ Read(s, read, body, at, pc) \in Jobs
           /\ Read(s, read, body, at, pc).of = s.of
           /\ Read(s, read, body, at, pc).pc = pc
           /\ Read(s, read, body, at, pc).body = body
           /\ Read(s, read, body, at, pc).wanted = s.wanted
  BY DEF Jobs, Read

LEMMA EditQueued ==
    ASSUME NEW s \in Jobs, NEW pc \in Places, NEW queued \in Nat
    PROVE  /\ Queued(s, pc, queued) \in Jobs
           /\ Queued(s, pc, queued).of = s.of
           /\ Queued(s, pc, queued).pc = pc
           /\ Queued(s, pc, queued).body = s.body
           /\ Queued(s, pc, queued).wanted = s.wanted
  BY DEF Jobs, Queued

LEMMA GoToEdits ==
    ASSUME job \in Jobs, NEW pc \in Places, GoTo(pc)
    PROVE  /\ job' \in Jobs /\ job'.of = job.of /\ job'.pc = pc /\ job'.at = 1
           /\ job'.body = job.body /\ job'.wanted = job.wanted
<1> DEFINE at == 1
<1>1. at \in Nat \ {0}
  OBVIOUS
<1>2. job' = Went(job, pc, at)
  BY DEF GoTo, Went
<1> HIDE DEF at
<1>3. LET j == Went(job, pc, at) IN
      j \in Jobs /\ j.of = job.of /\ j.pc = pc /\ j.at = at /\ j.body = job.body /\ j.wanted = job.wanted
  BY <1>1, EditWent
<1>4. QED
  BY <1>2, <1>3 DEF at

(* The same, for a job that moves on by an edit that is known. *)
LEMMA Walked ==
    ASSUME Inv, UNCHANGED pluginVars, UNCHANGED <<front, chunks, chunking, sent>>, call.pc = "idle",
           job' \in Jobs, job'.of = job.of, job'.wanted = job.wanted,
           job'.body \in {job.body, {}, {job.of}},
           job'.pc \in Streams => job.pc \in Streams,
           job'.pc = "ending" => \A p \in Plugins : p < job'.at => ~chunking[p],
           \/ job'.pc \in {"streaming", "chunking", "sending", "ending"}
           \/ Quiet => \A p \in Plugins : plugin[p].io => plugin[p].kept = {}
    PROVE  Inv'
<1>1. PICK j : j = job'
  OBVIOUS
<1>2. QED
  BY <1>1, WalkStep

(* Before the head of a response, and after its last link, no one holds
   anything back. *)
LEMMA NoneHeld ==
    ASSUME Inv, call.pc = "idle",
           job.pc \notin {"streaming", "chunking", "sending", "ending"}
    PROVE  Quiet => \A p \in Plugins : plugin[p].io => plugin[p].kept = {}
  BY HeldNow DEF HeldStill

LEMMA PassesStep ==
    ASSUME Inv, Passes
    PROVE  Inv'
<1>1. /\ call.pc = "idle" /\ job \in Jobs /\ job.pc \in Walks
      /\ (OfTheStream => ~chunking[job.at])
      /\ UNCHANGED pluginVars /\ UNCHANGED <<front, chunks, chunking, sent>>
  BY HeldNow DEF Passes, Walking, Walks
<1> DEFINE at == job.at + 1
           body == job.body
<1>2. at \in Nat \ {0} /\ body \in Bodies /\ job.at \in Nat
  BY <1>1 DEF Jobs
<1>3. [job EXCEPT !.at = @ + 1] = Stepped(job, at, body)
  BY <1>1 DEF Jobs, Stepped
<1>4. job' = Stepped(job, at, body)
  BY <1>3 DEF Passes
<1> HIDE DEF at, body
<1>5. LET j == Stepped(job, at, body) IN
      j \in Jobs /\ j.of = job.of /\ j.pc = job.pc /\ j.at = at /\ j.body = body /\ j.wanted = job.wanted
  BY <1>1, <1>2, EditStepped
<1>6. /\ job' \in Jobs /\ job'.of = job.of /\ job'.pc = job.pc /\ job'.at = job.at + 1
      /\ job'.body = job.body /\ job'.wanted = job.wanted
  BY <1>4, <1>5 DEF at, body
<1>7. job'.pc = "ending" => \A p \in Plugins : p < job'.at => ~chunking[p]
  <2> SUFFICES ASSUME job.pc = "ending", NEW p \in Plugins, p < job.at + 1 PROVE ~chunking[p]
    BY <1>6
  <2>1. p \in Nat
    BY PluginsAssumption
  <2>2. p < job.at \/ p = job.at
    BY <1>2, <2>1
  <2>3. QED
    BY <1>1, <2>2, HeldNow DEF NotAsked, OfTheStream
<1>8. CASE job.pc \in {"chunking", "ending"}
  BY <1>1, <1>6, <1>7, <1>8, Walked
<1>9. CASE job.pc \notin {"chunking", "ending"}
  <2>1. Quiet => \A p \in Plugins : plugin[p].io => plugin[p].kept = {}
    BY <1>1, <1>9, NoneHeld DEF Walks
  <2>2. QED
    BY <1>1, <1>6, <1>7, <2>1, Walked
<1>10. QED
  BY <1>8, <1>9

LEMMA SomePlaces ==
    /\ "fetching" \in Places /\ "streaming" \in Places /\ "sending" \in Places
    /\ "chunking" \in Places /\ "ending" \in Places /\ "flushing" \in Places
  BY DEF Places, Walks, Streams

LEMMA AskedAllStep ==
    ASSUME Inv, AskedAll
    PROVE  Inv'
<1>1. /\ call.pc = "idle" /\ job \in Jobs /\ job.pc = "asking" /\ GoTo("fetching")
      /\ UNCHANGED pluginVars /\ UNCHANGED <<front, chunks, chunking, sent>>
  BY HeldNow DEF AskedAll, WalkedOn, Walking
<1>2. /\ job' \in Jobs /\ job'.of = job.of /\ job'.pc = "fetching"
      /\ job'.body = job.body /\ job'.wanted = job.wanted
  BY <1>1, SomePlaces, GoToEdits
<1>3. Quiet => \A p \in Plugins : plugin[p].io => plugin[p].kept = {}
  BY <1>1, NoneHeld
<1>4. QED
  BY <1>1, <1>2, <1>3, Walked DEF Streams

LEMMA HeadSentStep ==
    ASSUME Inv, HeadSent
    PROVE  Inv'
<1>1. /\ call.pc = "idle" /\ job \in Jobs /\ job.pc = "heading"
      /\ GoTo("streaming") \/ job' = Done
      /\ UNCHANGED pluginVars /\ UNCHANGED <<front, chunks, chunking>> /\ sent' = sent
  BY HeldNow DEF HeadSent, WalkedOn, Walking
<1>2. CASE GoTo("streaming")
  <2>1. /\ job' \in Jobs /\ job'.of = job.of /\ job'.pc = "streaming"
        /\ job'.body = job.body /\ job'.wanted = job.wanted
    BY <1>1, <1>2, SomePlaces, GoToEdits
  <2>2. QED
    BY <1>1, <2>1, Walked DEF Streams
<1>3. CASE job' = Done
  <2>1. Quiet => \A p \in Plugins : plugin[p].io => plugin[p].kept = {}
    BY <1>1, NoneHeld
  <2>2. QED
    BY <1>1, <1>3, <2>1, HeldNow, IsOver
<1>4. QED
  BY <1>1, <1>2, <1>3

LEMMA ReadChunkStep ==
    ASSUME Inv, ReadChunk
    PROVE  Inv'
<1>1. /\ call.pc = "idle" /\ job \in Jobs /\ job.pc = "streaming"
      /\ UNCHANGED pluginVars /\ UNCHANGED <<front, chunks, chunking, sent>>
  BY NotCalling, HeldNow DEF ReadChunk, Walks
<1> DEFINE read == job.read + 1
           body == {job.of}
           at == 1
           pc == IF job.wanted # {} THEN "chunking" ELSE "sending"
<1>2. job' = Read(job, read, body, at, pc)
  <2>1. [job EXCEPT !.read = @ + 1, !.body = {job.of}, !.at = 1, !.pc = pc] = Read(job, read, body, at, pc)
    BY <1>1 DEF Jobs, Read
  <2>2. QED
    BY <2>1 DEF ReadChunk
<1>3. read \in Nat /\ body \in Bodies
  BY <1>1 DEF Jobs, Bodies
<1>4. at \in Nat \ {0}
  OBVIOUS
<1>5. pc \in Places /\ pc \in {"chunking", "sending"}
  BY SomePlaces
<1> HIDE DEF read, body, at, pc
<1>6. LET j == Read(job, read, body, at, pc) IN
      j \in Jobs /\ j.of = job.of /\ j.pc = pc /\ j.body = body /\ j.wanted = job.wanted
  BY <1>1, <1>3, <1>4, <1>5, EditRead
<1>7. /\ job' \in Jobs /\ job'.of = job.of /\ job'.pc \in {"chunking", "sending"}
      /\ job'.body = {job.of} /\ job'.wanted = job.wanted
  BY <1>2, <1>5, <1>6 DEF body
<1>8. QED
  BY <1>1, <1>7, Walked DEF Streams

LEMMA ChunkedStep ==
    ASSUME Inv, Chunked
    PROVE  Inv'
<1> DEFINE pc == IF job.body = {} THEN "streaming" ELSE "sending"
<1>1. /\ call.pc = "idle" /\ job \in Jobs /\ job.pc = "chunking" /\ GoTo(pc)
      /\ UNCHANGED pluginVars /\ UNCHANGED <<front, chunks, chunking, sent>>
  BY HeldNow DEF Chunked, WalkedOn, Walking
<1>2. pc \in Places /\ pc \in {"streaming", "sending"}
  BY SomePlaces
<1> HIDE DEF pc
<1>3. /\ job' \in Jobs /\ job'.of = job.of /\ job'.pc = pc
      /\ job'.body = job.body /\ job'.wanted = job.wanted
  BY <1>1, <1>2, GoToEdits
<1>4. QED
  BY <1>1, <1>2, <1>3, Walked DEF Streams

(* The body ends, or is given up while the plugins are still to be told. *)
LEMMA EndsStep ==
    ASSUME Inv, job.pc \in {"streaming", "sending"}, job' = Ends,
           UNCHANGED pluginVars, UNCHANGED <<front, chunks, chunking>>, sent' = sent
    PROVE  Inv'
<1>1. call.pc = "idle" /\ job \in Jobs
  BY NotCalling, HeldNow DEF Walks
<1>2. CASE job.wanted # {}
  <2> DEFINE at == 1
             body == {}
             pc == "ending"
  <2>1. job' = Moved(job, pc, at, body)
    BY <1>2 DEF Ends, Moved
  <2>2. at \in Nat \ {0}
    OBVIOUS
  <2>3. pc \in Places /\ body \in Bodies
    BY SomePlaces DEF Bodies
  <2> HIDE DEF at, body, pc
  <2>4. LET j == Moved(job, pc, at, body) IN
        j \in Jobs /\ j.of = job.of /\ j.pc = pc /\ j.at = at /\ j.body = body /\ j.wanted = job.wanted
    BY <1>1, <2>2, <2>3, EditJob
  <2>5. /\ job' \in Jobs /\ job'.of = job.of /\ job'.pc = "ending" /\ job'.at = 1
        /\ job'.body = {} /\ job'.wanted = job.wanted
    BY <2>1, <2>4 DEF at, body, pc
  <2>6. \A p \in Plugins : ~(p < job'.at)
    BY <2>5, PluginsAssumption
  <2>7. QED
    BY <1>1, <2>5, <2>6, Walked DEF Streams
<1>3. CASE job.wanted = {}
  <2>1. job' = Done
    BY <1>3 DEF Ends
  <2>2. \A p \in Plugins : ~chunking[p]
    BY <1>1, <1>3, HeldNow DEF NotAsked, Streams
  <2>3. Quiet => \A p \in Plugins : plugin[p].io => plugin[p].kept = {}
    BY <1>1, <2>2, HeldNow DEF HeldStill
  <2>4. QED
    BY <1>1, <2>1, <2>3, HeldNow, IsOver
<1>4. QED
  BY <1>2, <1>3

LEMMA FlushedStep ==
    ASSUME Inv, Flushed
    PROVE  Inv'
<1>1. /\ call.pc = "idle" /\ job \in Jobs /\ job.pc = "ending" /\ job.at \notin Plugins
      /\ job' = IF job.body = {} THEN Done ELSE [job EXCEPT !.pc = "flushing"]
      /\ UNCHANGED pluginVars /\ UNCHANGED <<front, chunks, chunking>> /\ sent' = sent
  BY HeldNow DEF Flushed, WalkedOn, Walking
<1>2. \A p \in Plugins : p < job.at
  <2> SUFFICES ASSUME NEW p \in Plugins, ~(p < job.at) PROVE FALSE
    OBVIOUS
  <2>1. p \in Nat /\ job.at \in Nat \ {0}
    BY <1>1, PluginsAssumption DEF Jobs
  <2>2. job.at \in 1 .. p
    BY <2>1
  <2>3. QED
    BY <1>1, <2>2, PluginsAssumption
<1>3. Quiet => \A p \in Plugins : plugin[p].io => plugin[p].kept = {}
  BY <1>1, <1>2, HeldNow DEF HeldStill, NotAsked
<1>4. CASE job.body = {}
  <2>1. job' = Done
    BY <1>1, <1>4
  <2>2. QED
    BY <1>1, <1>3, <2>1, HeldNow, IsOver
<1>5. CASE job.body # {}
  <2>1. [job EXCEPT !.pc = "flushing"] = Went(job, "flushing", job.at)
    BY <1>1 DEF Jobs, Went
  <2> DEFINE pc == "flushing"
             at == job.at
  <2>2. job' = Went(job, pc, at)
    BY <1>1, <1>5, <2>1
  <2>3. pc \in Places /\ at \in Nat \ {0}
    BY <1>1, SomePlaces DEF Jobs
  <2> HIDE DEF pc, at
  <2>4. LET j == Went(job, pc, at) IN
        j \in Jobs /\ j.of = job.of /\ j.pc = pc /\ j.body = job.body /\ j.wanted = job.wanted
    BY <1>1, <2>3, EditWent
  <2>5. /\ job' \in Jobs /\ job'.of = job.of /\ job'.pc = "flushing"
        /\ job'.body = job.body /\ job'.wanted = job.wanted
    BY <2>2, <2>4 DEF pc
  <2>6. QED
    BY <1>1, <1>3, <2>5, Walked DEF Streams
<1>6. QED
  BY <1>4, <1>5

LEMMA SendStep ==
    ASSUME Inv, Send
    PROVE  Inv'
<1> DEFINE t == [to |-> job.of, body |-> job.body]
<1>1. /\ call.pc = "idle" /\ job \in Jobs /\ job.pc \in {"sending", "flushing"} /\ sent' = t
      /\ job' = IF job.pc = "sending" THEN [job EXCEPT !.pc = "streaming", !.queued = @ + 1] ELSE Done
      /\ UNCHANGED pluginVars /\ UNCHANGED <<front, chunks, chunking>>
  BY NotCalling, HeldNow DEF Send, Walks
<1>2. t \in [to : Nat, body : Bodies] /\ t.to = job.of /\ t.body = job.body
  BY <1>1 DEF Jobs
<1>3. Quiet => t.body \subseteq {t.to}
  BY <1>1, <1>2, HeldNow
<1> HIDE DEF t
<1>4. CASE job.pc = "sending"
  <2> DEFINE pc == "streaming"
             queued == job.queued + 1
             j == Queued(job, pc, queued)
  <2>1. [job EXCEPT !.pc = "streaming", !.queued = @ + 1] = j
    BY <1>1 DEF Jobs, Queued
  <2>2. job' = j
    BY <1>1, <1>4, <2>1
  <2>3. pc \in Places /\ queued \in Nat
    BY <1>1, SomePlaces DEF Jobs
  <2> HIDE DEF pc, queued
  <2>4. /\ j \in Jobs /\ j.of = job.of /\ j.pc = pc /\ j.body = job.body /\ j.wanted = job.wanted
    BY <1>1, <2>3, EditQueued
  <2> HIDE DEF j
  <2>5. NotAsked(j, chunking)
    BY <1>1, <1>4, <2>4, HeldNow DEF NotAsked, Streams, pc
  <2>6. Quiet => \A p \in Plugins : plugin[p].io => HeldStill(p, j, chunking)
    BY <1>1, <1>4, <2>4, HeldNow DEF HeldStill, pc
  <2>7. Quiet => j.body \subseteq {j.of}
    BY <1>1, <2>4, HeldNow
  <2>8. QED
    BY <1>1, <1>2, <1>3, <2>2, <2>4, <2>5, <2>6, <2>7, HeldNow, JobMoves
<1>5. CASE job.pc = "flushing"
  <2>1. Quiet => \A p \in Plugins : plugin[p].io => plugin[p].kept = {}
    BY <1>1, <1>5, NoneHeld
  <2>2. job' = Done
    BY <1>1, <1>5
  <2>3. QED
    BY <1>1, <1>2, <1>3, <2>1, <2>2, IsOver
<1>6. QED
  BY <1>1, <1>4, <1>5

LEMMA SendFailsStep ==
    ASSUME Inv, SendFails
    PROVE  Inv'
<1>1. /\ call.pc = "idle" /\ job \in Jobs /\ job.pc \in {"sending", "flushing"}
      /\ job' = IF front = "tcp" /\ job.pc = "sending" THEN Ends ELSE Done
      /\ UNCHANGED pluginVars /\ UNCHANGED <<front, chunks, chunking>> /\ sent' = sent
  BY NotCalling, HeldNow DEF SendFails, Walks
<1>2. CASE front = "tcp" /\ job.pc = "sending"
  <2>1. job' = Ends
    BY <1>1, <1>2
  <2>2. QED
    BY <1>1, <1>2, <2>1, EndsStep
<1>3. CASE ~(front = "tcp" /\ job.pc = "sending")
  <2>1. job' = Done
    BY <1>1, <1>3
  <2>2. Quiet => \A p \in Plugins : plugin[p].io => plugin[p].kept = {}
    BY <1>1, <1>3, NoneHeld DEF Quiet
  <2>3. QED
    BY <1>1, <2>1, <2>2, HeldNow, IsOver
<1>4. QED
  BY <1>2, <1>3

LEMMA StallsStep ==
    ASSUME Inv, Stalls
    PROVE  Inv'
<1>1. /\ call.pc = "idle" /\ job \in Jobs /\ job.pc \in {"sending", "flushing"}
      /\ job' = [job EXCEPT !.left = TRUE]
      /\ UNCHANGED pluginVars /\ UNCHANGED <<front, chunks, chunking, sent>>
  BY NotCalling, HeldNow DEF Stalls, Walks
<1>2. /\ job' \in Jobs /\ job'.of = job.of /\ job'.pc = job.pc
      /\ job'.body = job.body /\ job'.wanted = job.wanted
  BY <1>1 DEF Jobs
<1>3. CASE job.pc = "sending"
  BY <1>1, <1>2, <1>3, Walked DEF Streams
<1>4. CASE job.pc = "flushing"
  <2>1. Quiet => \A p \in Plugins : plugin[p].io => plugin[p].kept = {}
    BY <1>1, <1>4, NoneHeld
  <2>2. QED
    BY <1>1, <1>2, <1>4, <2>1, Walked DEF Streams
<1>5. QED
  BY <1>1, <1>3, <1>4

-----------------------------------------------------------------------------
(* A hook is called, and its reply is looked at. *)

LEMMA AsksStep ==
    ASSUME Inv, Asks
    PROVE  Inv'
<1> DEFINE body == IF job.pc = "ending" THEN {} ELSE job.body
           hook == Hook(KindOf, job.of, body)
<1>1. /\ call.pc = "idle" /\ job \in Jobs /\ job.pc \in Walks /\ job.at \in Plugins
      /\ (OfTheStream => chunking[job.at])
      /\ chunking' = IF job.pc = "ending" THEN [chunking EXCEPT ![job.at] = FALSE] ELSE chunking
      /\ UNCHANGED <<plugin, unasked, front, chunks, job, sent>>
      /\ call' = [NoCall EXCEPT !.pc = "sending", !.of = job.at, !.hook = hook]
  BY HeldNow DEF Asks, Walking, Walks, Calling
<1>2. body \in Bodies /\ job.of \in Nat
  BY <1>1 DEF Jobs, Bodies
<1>3. KindOf \in {"request", "response", "chunk", "final"} /\ KindOf' = KindOf
  BY <1>1 DEF KindOf, Walks
<1>4. hook \in Hooks /\ hook.kind = KindOf /\ hook.body = body
  BY <1>2, <1>3 DEF Hook, Hooks
<1> HIDE DEF hook
<1>5. /\ call'.pc = "sending" /\ call'.of = job.at /\ call'.hook = hook /\ call' \in Calls
  BY <1>1, <1>4 DEF NoCall, Calls
<1>6. /\ chunking' \in [Plugins -> BOOLEAN]
      /\ \A p \in Plugins : chunking'[p] => chunking[p]
      /\ \A p \in Plugins : chunking[p] => chunking'[p] \/ (job.pc = "ending" /\ p = job.at)
      /\ job.pc = "ending" => ~chunking'[job.at]
      /\ job.pc # "ending" => chunking' = chunking
  <2>1. chunking \in [Plugins -> BOOLEAN]
    BY DEF Inv, TypeOK
  <2>2. QED
    BY <1>1, <2>1
<1>7. TypeOK'
  BY <1>1, <1>5, <1>6 DEF Inv, TypeOK
<1>8. Conversation'
  BY <1>1, <1>5 DEF Inv, Conversation, Still, Waiting, calm
<1>9. NotAsked(job, chunking)
  BY <1>1, HeldNow
<1>10. OfTheStream => job.at \in job.wanted
  BY <1>1, <1>9 DEF NotAsked, OfTheStream, Streams
<1>11. CallsAreOfTheJob'
  BY <1>1, <1>3, <1>4, <1>5, <1>6, <1>10 DEF CallsAreOfTheJob, OfTheStream
<1>12. ChunkingIsCurrent'
  BY <1>1, <1>6, <1>9 DEF NotAsked, ChunkingIsCurrent
<1>13. BytesAreOfTheJob'
  <2> SUFFICES ASSUME Quiet PROVE BytesAreOfTheJob'
    BY <1>1 DEF BytesAreOfTheJob, Quiet, calm
  <2>1. /\ \A p \in Plugins : plugin[p].io => HeldStill(p, job, chunking)
        /\ job.body \subseteq {job.of} /\ sent.body \subseteq {sent.to}
    BY <1>1, HeldNow
  <2>2. \A p \in Plugins : plugin'[p].io => HeldIsAskedFor(p)'
    BY <1>1, <1>5, <1>6, <2>1 DEF HeldStill, HeldIsAskedFor, Asked, Waiting
  <2>3. body \subseteq {job.of}
    BY <2>1
  <2>4. QED
    BY <1>1, <1>4, <1>5, <2>1, <2>2, <2>3 DEF BytesAreOfTheJob
<1>14. QED
  BY <1>7, <1>8, <1>11, <1>12, <1>13 DEF Inv

LEMMA RepliedMoves ==
    ASSUME Inv, call.pc = "returned", call' = NoCall,
           UNCHANGED <<plugin, unasked, front, chunks, chunking>>,
           NEW j \in Jobs, NEW t \in [to : Nat, body : Bodies], job' = j, sent' = t,
           NotAsked(j, chunking),
           Quiet => j.body \subseteq {j.of} /\ t.body \subseteq {t.to},
           Quiet => \A p \in Plugins : plugin[p].io => HeldStill(p, j, chunking)
    PROVE  Inv'
<1>1. call'.pc = "idle" /\ call' \in Calls
  BY DEF NoCall, Calls
<1>2. TypeOK'
  BY <1>1 DEF Inv, TypeOK
<1>3. Conversation'
  BY <1>1 DEF Inv, Conversation, Still, Waiting, calm
<1>4. CallsAreOfTheJob' /\ ChunkingIsCurrent'
  BY <1>1 DEF Inv, CallsAreOfTheJob, ChunkingIsCurrent, NotAsked
<1>5. BytesAreOfTheJob'
  BY <1>1 DEF Inv, BytesAreOfTheJob, HeldIsAskedFor, HeldStill, Waiting, Asked, Quiet, calm
<1>6. QED
  BY <1>2, <1>3, <1>4, <1>5 DEF Inv

LEMMA RepliedStep ==
    ASSUME Inv, Replied
    PROVE  Inv'
<1>1. /\ call.pc = "returned" /\ call' = NoCall /\ job.pc \in Walks
      /\ UNCHANGED <<plugin, unasked, front, chunks, chunking>>
      /\ job \in Jobs /\ sent \in [to : Nat, body : Bodies] /\ call.body \in Bodies \cup {None}
  BY DEF Replied, Inv, TypeOK, CallsAreOfTheJob, Calls
<1>2. Quiet => /\ \A p \in Plugins : plugin[p].io => HeldStill(p, job, chunking)
               /\ job.body \subseteq {job.of} /\ sent.body \subseteq {sent.to}
               /\ call.body # None => call.body \subseteq {job.of}
  BY <1>1 DEF Inv, BytesAreOfTheJob, HeldIsAskedFor, HeldStill, Asked
<1>3. /\ NotAsked(job, chunking)
      /\ job.pc = "ending" => ~chunking[job.at]
  BY <1>1 DEF Inv, ChunkingIsCurrent, NotAsked
<1>4. CASE job.pc = "asking" /\ call.body # None /\ AnswerWhole(call.body)
  <2> DEFINE j == Job(job.of, "idle")
             t == [to |-> job.of, body |-> call.body]
  <2>1. job' = j /\ sent' = t
    BY <1>4 DEF AnswerWhole, Done
  <2>2. job.of \in Nat /\ call.body \in Bodies
    BY <1>1, <1>4 DEF Jobs
  <2>3. j \in Jobs /\ j.of = job.of /\ j.body = {} /\ NotAsked(j, chunking)
    BY <2>2, NewJob
  <2>4. t \in [to : Nat, body : Bodies] /\ t.to = job.of /\ t.body = call.body
    BY <2>2
  <2> HIDE DEF j, t
  <2>5. Quiet => j.body \subseteq {j.of} /\ t.body \subseteq {t.to}
    BY <1>2, <1>4, <2>3, <2>4
  <2>6. Quiet => \A p \in Plugins : plugin[p].io => HeldStill(p, j, chunking)
    BY <1>2, <1>4 DEF HeldStill
  <2>7. QED
    BY <1>1, <2>1, <2>3, <2>4, <2>5, <2>6, RepliedMoves
<1>5. CASE /\ job.pc = "asking" => call.body = None
           /\ job' = [job EXCEPT !.at = @ + 1,
                         !.body = IF call.body = None \/ job.pc = "heading" THEN @
                                  ELSE IF job.pc = "ending" THEN @ \cup call.body
                                  ELSE call.body]
           /\ UNCHANGED <<answered, sent>>
  <2> DEFINE at == job.at + 1
             body == IF call.body = None \/ job.pc = "heading" THEN job.body
                     ELSE IF job.pc = "ending" THEN job.body \cup call.body
                     ELSE call.body
             j == Stepped(job, at, body)
  <2>1. [job EXCEPT !.at = @ + 1,
                !.body = IF call.body = None \/ job.pc = "heading" THEN @
                         ELSE IF job.pc = "ending" THEN @ \cup call.body
                         ELSE call.body] = j
    BY <1>1 DEF Jobs, Stepped
  <2>2. job' = j /\ sent' = sent
    BY <1>5, <2>1
  <2>3. job.at \in Nat /\ at \in Nat \ {0} /\ body \in Bodies
    BY <1>1 DEF Jobs, Bodies
  <2>4. Quiet => body \subseteq {job.of}
    BY <1>2
  <2> HIDE DEF body
  <2>5. /\ j \in Jobs /\ j.of = job.of /\ j.pc = job.pc /\ j.at = at /\ j.body = body
        /\ j.wanted = job.wanted
    BY <1>1, <2>3, EditStepped
  <2> HIDE DEF j
  <2>6. NotAsked(j, chunking)
    <3>1. j.pc \in Streams => \A p \in Plugins : chunking[p] => p \in j.wanted
      BY <1>3, <2>5 DEF NotAsked
    <3>2. ASSUME j.pc = "ending", NEW p \in Plugins, p < j.at PROVE ~chunking[p]
      <4>1. p \in Nat
        BY PluginsAssumption
      <4>2. p < job.at \/ p = job.at
        BY <2>3, <2>5, <3>2, <4>1
      <4>3. QED
        BY <1>3, <2>5, <3>2, <4>2 DEF NotAsked
    <3>3. QED
      BY <3>1, <3>2 DEF NotAsked
  <2>7. Quiet => \A p \in Plugins : plugin[p].io => HeldStill(p, j, chunking)
    BY <1>2, <2>5 DEF HeldStill
  <2>8. Quiet => j.body \subseteq {j.of} /\ sent.body \subseteq {sent.to}
    BY <1>2, <2>4, <2>5
  <2>9. QED
    BY <1>1, <2>2, <2>5, <2>6, <2>7, <2>8, RepliedMoves
<1>6. QED
  BY <1>4, <1>5 DEF Replied

-----------------------------------------------------------------------------
LEMMA PluginsStep ==
    ASSUME Inv, PluginSteps, UNCHANGED relayVars
    PROVE  Inv'
<1>1. CASE CallSteps
  <2>1. CASE CallRefused \/ CallUnparsable \/ CallTimesOut
    BY <2>1, AbandonStep DEF CallRefused, CallUnparsable, CallTimesOut
  <2>2. QED
    BY <1>1, <2>1, GoneStep, SendsStep, ReturnsStep DEF CallSteps
<1>2. CASE \E p \in Plugins : Writer(p) \/ Process(p)
  BY <1>2, WriterStep, ReadsStep, AnswersStep, NonsenseStep, BabblesStep, ExitsStep DEF Process
<1>3. QED
  BY <1>1, <1>2 DEF PluginSteps

LEMMA InvStep ==
    ASSUME Inv, [Next]_vars
    PROVE  Inv'
<1>1. CASE Client
  BY <1>1, ClientStep
<1>2. CASE RelaySteps
  <2>1. CASE OriginEnds
    <3>1. /\ job.pc = "streaming" /\ job' = Ends /\ UNCHANGED pluginVars
          /\ UNCHANGED <<front, chunks, chunking>> /\ sent' = sent
      BY <2>1 DEF OriginEnds
    <3>2. QED
      BY <3>1, EndsStep
  <2>2. QED
    BY <1>2, <2>1, AcquireStep, FetchStep, AheadStep, PassesStep, AsksStep, RepliedStep, AskedAllStep,
       HeadSentStep, ReadChunkStep, ChunkedStep, FlushedStep, SendStep, SendFailsStep, StallsStep
    DEF RelaySteps
<1>3. CASE PluginSteps /\ UNCHANGED relayVars
  BY <1>3, PluginsStep
<1>4. CASE UNCHANGED vars
  <2>1. UNCHANGED <<plugin, call, unasked, front, chunks, job, chunking, sent>>
    BY <1>4 DEF vars, pluginVars, relayVars
  <2>2. KindOf' = KindOf
    BY <2>1 DEF KindOf
  <2>3. TypeOK' /\ Conversation'
    BY <2>1 DEF Inv, TypeOK, Conversation, InOnePlace, Still, Waiting, calm
  <2>4. CallsAreOfTheJob' /\ ChunkingIsCurrent'
    BY <2>1, <2>2 DEF Inv, CallsAreOfTheJob, ChunkingIsCurrent
  <2>5. BytesAreOfTheJob'
    BY <2>1 DEF Inv, BytesAreOfTheJob, HeldIsAskedFor, Waiting, Asked, Quiet, calm
  <2>6. QED
    BY <2>3, <2>4, <2>5 DEF Inv
<1>5. QED
  BY <1>1, <1>2, <1>3, <1>4 DEF Next

(* The invariant the three properties rest on: where the hook of a call is,
   what a call is about, which plugins still take chunks, and of which
   response what they hold back is. *)
THEOREM Invariance == Spec => []Inv
<1>1. Init => Inv
  BY InitInv
<1>2. Inv /\ [Next]_vars => Inv'
  BY InvStep
<1>3. QED
  BY <1>1, <1>2, PTL DEF Spec

(* A worker about to hand a hook to a plugin finds the channel empty, its
   writer idle and nothing in the other direction, as start() of plugin.rs
   relies on when it makes the channel of hooks one long. *)
THEOREM OneHook == Spec => []OneHookAtATime
<1>1. Inv => OneHookAtATime
  BY DEF Inv, CallsAreOfTheJob, Conversation, Waiting, Still, OneHookAtATime
<1>2. QED
  BY <1>1, Invariance, PTL

(* Only a plugin that wanted the chunks of this response is handed one, or
   told of its end: what wants_chunks() of interceptor.rs asks all links for. *)
THEOREM Wanted == Spec => []ChunksWereWanted
<1>1. Inv => ChunksWereWanted
  BY DEF Inv, CallsAreOfTheJob, KindOf, Walks, ChunksWereWanted
<1>2. QED
  BY <1>1, Invariance, PTL

(* No client of the TCP front end is sent bytes of another's response, by
   whatever plugins that only speak when they are asked: what call() of
   plugin.rs gives a plugin up for. *)
THEOREM Own == Spec => []OwnBytes
<1>1. Inv => OwnBytes
  BY DEF Inv, BytesAreOfTheJob, Quiet, OwnBytes
<1>2. QED
  BY <1>1, Invariance, PTL
=============================================================================

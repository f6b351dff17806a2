-------------------------------- MODULE Served --------------------------------
(***************************************************************************)
(* What a client is served: fetch_blocking of src/proxy/src/tcp.rs from    *)
(* the request to the end of the answer, with the links of the chain that  *)
(* rewrite what they see, Inject and Images.                               *)
(*                                                                         *)
(* A client asks for a picture or for a page.  Meanwhile somebody turns    *)
(* the knobs of the panel, and the client's link gets better or worse.     *)
(***************************************************************************)
EXTENDS Images, Streamer, Functions

CONSTANTS
    MaxRequests,   \* bounds how often the client asks
    MaxChanges,    \* bounds what the panel and the link change
    MaxChunks,     \* bounds the chunks of a page
    NoEntry        \* nothing stored, and no streamer

ASSUME ServedAssumption == NoEntry \notin Streamers

VARIABLES
    subject,   \* what there is at the url, and the plugins of the chain
    injects,   \* the panel's switch, and a host that is not excluded
    stored,    \* the http cache's entry: [key, ends, resp]
    asked,     \* how often the client asked
    req,       \* the request under way
    origin,    \* how the origin answers it: [ends, eligible]
    resp,      \* the response as it is being made
    stream,    \* and the loop that relays it
    pc,
    changes,   \* how often the panel and the link changed
    seen       \* what the panel and the link said while it was under way

vars == <<imageVars, subject, injects, stored, asked, req, origin, resp, stream, pc, changes, seen>>

Codes == {"br", "gzip"}

Unknown == "zstd"

NoStream ==
    [by |-> NoEntry, out |-> Identity, read |-> 0, kept |-> <<>>, sent |-> <<>>,
     codings |-> {}, closed |-> TRUE]

Blank ==
    [id |-> 0, type |-> "none", status |-> 0, declared |-> Identity, under |-> Identity,
     what |-> [is |-> "none"], kept |-> "as origin", long |-> FALSE, large |-> FALSE,
     shrinks |-> FALSE, sound |-> TRUE, picture |-> FALSE]

NoOrigin == [ends |-> "whole", eligible |-> FALSE]

(* A picture, which converting makes smaller, or not, or that is too small to
   try, or is none; a page, that has tags already, or is in an encoding that
   cannot be worked in; and whether a plugin wants its chunks. *)
Subjects ==
    [about : {"picture"}, type : {"jpeg"}, fit : {"shrinks", "grows", "small", "garbled"}, plugin : {FALSE}]
    \cup [about : {"picture"}, type : {"svg"}, fit : {"garbled"}, plugin : {FALSE}]
    \cup [about : {"page"}, type : {"html"}, fit : {"long", "short"}, marker : BOOLEAN,
          charset : BOOLEAN, plugin : BOOLEAN]
    \cup [about : {"page"}, type : {"text"}, fit : {"long", "short"}, marker : {FALSE},
          charset : {TRUE}, plugin : BOOLEAN]

NoRequest == [accepts |-> {}, webp |-> FALSE, dest |-> "other", method |-> "GET"]

Init ==
    /\ subject \in Subjects
    /\ quality = "auto" /\ tier = "full" /\ copies = {}
    /\ injects = TRUE
    /\ stored = NoEntry
    /\ asked = 0
    /\ req = NoRequest
    /\ origin = NoOrigin /\ resp = Blank /\ stream = NoStream
    /\ pc = "idle" /\ changes = 0 /\ seen = {}

-----------------------------------------------------------------------------
Requests ==
    [accepts : {{}, {"gzip"}, Codes}, webp : BOOLEAN, dest : {"image", "other"}, method : {"GET", "HEAD"}]

(* A picture is asked for by a page or by a script; only a page by HEAD, or by
   who takes one of the codings only. *)
Asks(about) ==
    IF about = "picture" THEN {r \in Requests : r.method = "GET" /\ r.accepts \in {{}, Codes}}
    ELSE {r \in Requests : ~r.webp /\ r.dest = "other"}

Finished == pc' = "done"

(* short_circuit(), of Images::on_request: text-only, and the request says it
   is for a picture. *)
Arrives ==
    /\ pc = "idle" /\ asked < MaxRequests
    /\ asked' = asked + 1
    /\ req' \in Asks(subject.about)
    /\ seen' = {<<quality, tier>>}
    /\ IF req'.dest = "image" /\ Now.as = "nothing"
       THEN resp' = [Stripped(Blank) EXCEPT !.status = 200] /\ Finished
       ELSE resp' = Blank /\ pc' = "fetching"
    /\ UNCHANGED <<imageVars, subject, injects, stored, origin, stream, changes>>

(* What the http cache is keyed on, next to the url. *)
EntryKey == <<req.accepts, req.webp>>

(* An answer of the origin, under a coding, that decodes or does not. *)
Answer(coding, sound) ==
    [id |-> 1, type |-> subject.type, status |-> 200, declared |-> coding, under |-> coding,
     what |-> [is |-> "original"], kept |-> "as origin",
     long |-> subject.fit # "short", large |-> subject.fit # "small",
     shrinks |-> subject.fit = "shrinks", sound |-> sound,
     picture |-> subject.fit \notin {"garbled", "long", "short"}]

(* The origin sends what it was asked for, or a coding that nobody asked for
   and mach5 does not know. *)
Answers ==
    {Answer(coding, sound) : coding \in {Identity, Best(req.accepts), Unknown}, sound \in BOOLEAN}

Plausible(r) == r.declared \in {Identity, Unknown} => r.sound

(* upstream::call() *)
Fetches ==
    /\ pc = "fetching"
    /\ resp' \in {r \in Answers : Plausible(r)}
    /\ origin' \in [ends : {"whole", "toobig", "breaks"}, eligible : BOOLEAN]
    /\ pc' = "answered"
    /\ UNCHANGED <<imageVars, subject, injects, stored, asked, req, stream, changes, seen>>

(* Fetched::Stored: it is already whole. *)
FromStore ==
    /\ pc = "fetching"
    /\ req.method = "GET" /\ stored # NoEntry /\ stored.key = EntryKey
    /\ resp' = stored.resp
    /\ origin' = [ends |-> stored.ends, eligible |-> TRUE]
    /\ pc' = "whole"
    /\ UNCHANGED <<imageVars, subject, injects, stored, asked, req, stream, changes, seen>>

(* should_store() and wants_chunks(): a plugin that asked for the chunks wins
   over the cache, but not over what wants the whole body. *)
WorthKeeping == origin.eligible /\ req.method = "GET" /\ ~subject.plugin

Holds ==
    /\ pc = "answered"
    /\ pc' = IF WantsBody(req, resp) \/ WorthKeeping THEN "holding" ELSE "relaying"
    /\ UNCHANGED <<imageVars, subject, injects, stored, asked, req, origin, resp, stream, changes, seen>>

Failure == [Blank EXCEPT !.status = 502, !.type = "text", !.what = [is |-> "failure"]]

(* Mutant: what the chain made of it is what is kept. *)
EntryAsServed(r) ==
    [key |-> EntryKey, ends |-> origin.ends,
     resp |-> IF injects /\ r.type = "html" THEN [Decoded(r) EXCEPT !.what = [is |-> "tagged"]]
              ELSE r]

(* store() *)
Entry(r) == [key |-> EntryKey, ends |-> origin.ends, resp |-> r]

(* read_body(); store() keeps the origin's own bytes, before anything rewrites
   them, and only if all of them came. *)
Reads ==
    /\ pc = "holding"
    /\ CASE origin.ends = "whole" ->
              /\ stored' = IF origin.eligible /\ req.method = "GET" THEN Entry(resp) ELSE stored
              /\ pc' = "whole" /\ UNCHANGED resp
         [] origin.ends = "toobig" -> pc' = "relaying" /\ UNCHANGED <<stored, resp>>
         [] origin.ends = "breaks" -> Finished /\ resp' = Failure /\ UNCHANGED stored
    /\ UNCHANGED <<imageVars, subject, injects, asked, req, origin, stream, changes, seen>>

(* Inject::on_response over rewrite(): a page that has no tags yet, in an
   encoding that can be worked in, under no coding. *)
Injected(r) ==
    IF /\ r.status = 200 /\ r.type = "html" /\ injects
       /\ ~subject.marker /\ subject.charset /\ r.under = Identity
    THEN [r EXCEPT !.what = [is |-> "tagged"]]
    ELSE r

(* decode(), the chain, encode(), and finish_buffered(). *)
Rewrites ==
    /\ pc = "whole"
    /\ \E plain \in {Injected(Decoded(resp))}, coding \in {CodingTaken(resp)} :
        \E after \in Looks(req, plain) :
            /\ resp' = Ensured(req.accepts, Encoded(after.resp, coding))
            /\ copies' = after.copies
    /\ Finished
    /\ UNCHANGED <<quality, tier, subject, injects, stored, asked, req, origin, stream, changes, seen>>

-----------------------------------------------------------------------------
(* streamer_for(): the head declares what the encoder will put on. *)
Streamed == resp.status = 200 /\ resp.type = "html" /\ injects /\ Rewritable(resp, subject.charset)

Output == IF resp.declared = Identity THEN StreamingCoding(req.accepts, resp) ELSE resp.declared

(* on_response_head(), and a HEAD is answered from the head alone. *)
Heads ==
    /\ pc = "relaying"
    /\ IF req.method = "HEAD" THEN Finished /\ UNCHANGED <<resp, stream>>
       ELSE /\ pc' = "reading"
            /\ IF Streamed
               THEN /\ stream' = [NoStream EXCEPT !.by = NewStreamer(resp, Output),
                                                  !.out = Output, !.closed = FALSE]
                    /\ resp' = [resp EXCEPT !.declared = Output,
                                            !.what = [is |-> "streamed"]]
               ELSE stream' = [NoStream EXCEPT !.out = resp.under] /\ UNCHANGED resp
    /\ UNCHANGED <<imageVars, subject, injects, stored, asked, req, origin, changes, seen>>

Sent(s, out) ==
    IF out = <<>> THEN s ELSE [s EXCEPT !.sent = @ \o out, !.codings = @ \cup {s.out}]

(* The streams that pushing these pieces may lead to. *)
Through(s, pieces) ==
    IF s.by = NoEntry THEN {Sent(s, pieces)}
    ELSE {Sent([s EXCEPT !.by = p.now], p.out) : p \in Pushes(s.by, pieces, resp.sound)}

(* reader.read() and on_response_chunk(): a plugin lets a chunk go, with what it
   held back before, or holds it back. *)
Relays ==
    /\ pc = "reading" /\ stream.read < MaxChunks
    /\ LET got == stream.kept \o <<stream.read + 1>>
           at == [stream EXCEPT !.read = @ + 1]
       IN  \/ stream' \in Through([at EXCEPT !.kept = <<>>], got)
           \/ subject.plugin /\ stream' = [at EXCEPT !.kept = got]
    /\ UNCHANGED <<imageVars, subject, injects, stored, asked, req, origin, resp, pc, changes, seen>>

(* on_response_end(): the plugin's tail goes through the streamer, which is then
   finished, whatever became of it. *)
Ends(s) ==
    {IF t.by = NoEntry THEN t ELSE Sent([t EXCEPT !.closed = TRUE], Flushed(t.by)) :
        t \in IF s.kept = <<>> THEN {s} ELSE Through([s EXCEPT !.kept = <<>>], s.kept)}

(* The origin is done, or the read fails: the loop ends in the same way. *)
Closes ==
    /\ pc = "reading"
    /\ origin.ends = "breaks" \/ stream.read = MaxChunks
    /\ stream' \in Ends(stream)
    /\ Finished
    /\ UNCHANGED <<imageVars, subject, injects, stored, asked, req, origin, resp, changes, seen>>

-----------------------------------------------------------------------------
(* The answer is out, and nothing of the request is left. *)
Leaves ==
    /\ pc = "done" /\ pc' = "idle"
    /\ req' = NoRequest /\ origin' = NoOrigin /\ resp' = Blank /\ stream' = NoStream
    /\ seen' = {}
    /\ UNCHANGED <<imageVars, subject, injects, stored, asked, changes>>

(* The panel and the link, under a request or between two. *)
Changing(step) ==
    /\ changes < MaxChanges /\ pc # "done"
    /\ changes' = changes + 1
    /\ step
    /\ seen' = IF pc = "idle" THEN seen ELSE seen \cup {<<quality', tier'>>}
    /\ UNCHANGED <<subject, stored, asked, req, origin, resp, stream, pc>>

Knob == subject.about = "picture" /\ Changing(PanelChanges /\ UNCHANGED injects)

Wire == subject.about = "picture" /\ Changing(LinkChanges /\ UNCHANGED injects)

Switch == subject.about = "page" /\ Changing(injects' = ~injects /\ UNCHANGED imageVars)

Clears ==
    /\ pc = "idle"
    /\ CopiesCleared
    /\ UNCHANGED <<subject, injects, stored, asked, req, origin, resp, stream, pc, changes, seen>>

Next ==
    \/ Arrives \/ Fetches \/ FromStore \/ Holds \/ Reads \/ Rewrites
    \/ Heads \/ Relays \/ Closes \/ Leaves
    \/ Knob \/ Wire \/ Switch \/ Clears

Spec == Init /\ [][Next]_vars

-----------------------------------------------------------------------------
(* encoding.rs: "we can never end up holding a coding the client cannot read",
   and State of inject.rs: "every byte after it must be under that coding".
   The body is under the coding that its head names, the coding is closed, and
   it is one that the client asked for or the origin's own, whatever was taken
   off and put back on the way. *)
CodingIsAsDeclared ==
    pc = "done" =>
        /\ IF resp.what.is = "streamed"
           THEN stream.codings \subseteq {resp.declared} /\ stream.closed
           ELSE resp.declared = resp.under
        /\ resp.declared \in req.accepts \cup {Identity, Unknown}

(* serving(): "whichever of the two asks for less".  A picture is served as some
   setting and some tier asked for while it was under way: a copy in its form
   and at its number, whoever had that copy made; the origin's own only where
   it may be, where it cannot be made smaller, or where it is too big to hold;
   and nothing at all only to who wanted none. *)
ServedAsAllowed ==
    pc = "done" /\ subject.about = "picture" /\ resp.status = 200 =>
        LET allowed == {Serving(s[1], s[2]) : s \in seen}
            convertible == /\ Claims(req, resp) /\ resp.large /\ resp.shrinks
                           /\ resp.declared # Unknown /\ resp.sound
        IN  CASE resp.what.is = "pixel" -> Nothing \in allowed
              [] resp.what.is = "copy" ->
                    Convert(resp.what.quality, resp.what.form) \in allowed
              [] resp.what.is = "original" ->
                    \/ Untouched \in allowed
                    \/ \E s \in allowed : s.as = "encoded" /\ ~convertible
                    \/ origin.ends = "toobig"

(* What is kept here is "the origin's own bytes, before anything rewrites them",
   and never a part of them: what one client had made for it is not what the
   next one gets.  Nor does a client keep what only stood in for them, "the
   origin's year-long max-age would keep a blur on the page long after the
   phone found wifi again". *)
KeptIsTheOrigins ==
    /\ stored # NoEntry =>
        /\ stored.resp.what = [is |-> "original"]
        /\ stored.resp.declared = stored.resp.under
        /\ stored.resp.kept = "as origin"
        /\ stored.ends = "whole"
    /\ pc = "done" /\ resp.kept = "as origin" =>
        \/ resp.what.is \notin {"pixel", "copy"}
        \/ resp.what.is = "copy" /\ resp.what.form = "colour"

Increasing(s) == \A i, j \in DOMAIN s : i < j => s[i] < s[j]

(* Streamer: "What is lost is only what the parser was still holding back".  The
   pieces of a page go out in order, none twice; all of them, where the parser
   took the document; and where it gave up, all but one run of them, and the
   last. *)
PageIsInOrder ==
    pc = "done" /\ resp.what.is = "streamed" =>
        LET sent == Range(stream.sent)
            lost == (1 .. stream.read) \ sent
        IN  /\ Increasing(stream.sent)
            /\ stream.by.state = "rewriting" => lost = {}
            /\ stream.by.state = "passing" =>
                /\ stream.read > 0 => stream.read \in sent
                /\ \A a, b \in lost : \A k \in a .. b : k \in lost
=============================================================================

------------------------------- MODULE Streamer -------------------------------
(***************************************************************************)
(* A page that is rewritten on its way past: Streamer of                   *)
(* src/proxy/src/inject.rs.                                                *)
(*                                                                         *)
(* A page is the sequence of its pieces.  A push may end in more than one  *)
(* way, for where a document makes the parser wait or refuse is the        *)
(* document's own: it is a set of [now, out], the streamer afterwards and  *)
(* what it lets go.                                                        *)
(***************************************************************************)
EXTENDS Codings

(* Streamer::new(), which needs a charset it can work in and a coding it can
   take off. *)
Rewritable(resp, charset) == charset /\ (resp.declared = Identity \/ Known(resp.declared))

NewStreamer(resp, output) ==
    [state |-> "rewriting", decodes |-> Known(resp.declared), encoder |-> output, held |-> <<>>]

Streamers ==
    [state : {"rewriting", "passing", "stopped"}, decodes : BOOLEAN,
     encoder : {"br", "gzip", Identity}, held : Seq(Nat)]

(* decoder.push() may fail, or inflate past the limit. *)
Garbled(s) == [now |-> [s EXCEPT !.state = "stopped"], out |-> <<>>]

(* rewriter.write(): what it lets go of, and what it waits with. *)
Rewritten(s, pieces) ==
    LET pending == s.held \o pieces
    IN  {[now |-> [s EXCEPT !.held = SubSeq(pending, n + 1, Len(pending))],
          out |-> SubSeq(pending, 1, n)] : n \in 0 .. Len(pending)}

(* Mutant: what the parser had left in the sink goes out too. *)
RefusedTwice(s, pieces) ==
    {[now |-> [s EXCEPT !.state = "passing", !.held = <<>>],
      out |-> SubSeq(s.held \o pieces, 1, n) \o pieces] : n \in 0 .. Len(s.held \o pieces)}

(* The document is refused: the chunk goes out as it came, what the sink was
   left with is binned, and so is what was waiting. *)
Refused(s, pieces) ==
    {[now |-> [s EXCEPT !.state = "passing", !.held = <<>>], out |-> pieces]}

(* push(); `sound' is whether the body decodes. *)
Pushes(s, pieces, sound) ==
    IF s.state = "stopped" THEN {[now |-> s, out |-> <<>>]}
    ELSE (IF s.decodes /\ ~sound THEN {Garbled(s)} ELSE {})
         \cup (IF s.state = "rewriting"
               THEN Rewritten(s, pieces) \cup Refused(s, pieces)
               ELSE {[now |-> s, out |-> pieces]})

(* finish(): what the parser is asked for at the end. *)
Flushed(s) == IF s.state = "rewriting" THEN s.held ELSE <<>>
=============================================================================

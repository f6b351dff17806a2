------------------------------- MODULE Plugins -------------------------------
(***************************************************************************)
(* The plugins of one interceptor chain and the conversation with each:    *)
(* Plugin::start, call and abandon of src/proxy/src/plugin.rs.             *)
(*                                                                         *)
(* A plugin is a process with a thread that writes hooks to its stdin and  *)
(* one that reads lines from its stdout, each behind a bounded channel.    *)
(* Replies carry no identifier: the worker that sent a hook takes the next *)
(* line for the answer.                                                    *)
(*                                                                         *)
(* Of a body, only the requests whose bytes are in it are kept: {} is an   *)
(* empty body.  A reply that sets no body has the body None.  A plugin may *)
(* hold bytes back, and let them go with a later reply.                    *)
(***************************************************************************)
EXTENDS Naturals, Sequences

CONSTANTS
    Plugins,     \* positions in the chain, 1 .. n
    ReplyQueue,  \* REPLY_QUEUE
    MaxUnasked,  \* bounds the lines that were not asked for
    None         \* nothing

ASSUME PluginsAssumption ==
    /\ Plugins \subseteq Nat \ {0}
    /\ \A p \in Plugins : 1 .. p \subseteq Plugins
    /\ ReplyQueue \in Nat \ {0}
    /\ MaxUnasked \in Nat

VARIABLES
    plugin,  \* each plugin: its Io, its threads and its process
    call,    \* call() as the worker of the chain is running it
    unasked  \* lines that the plugins printed without being asked

pluginVars == <<plugin, call, unasked>>

calm == unasked = 0

Started ==
    [io |-> TRUE, running |-> TRUE, writer |-> TRUE,
     hooks |-> <<>>, writing |-> None, asked |-> None, kept |-> {}, lines |-> <<>>]

Abandoned ==
    [io |-> FALSE, running |-> FALSE, writer |-> FALSE,
     hooks |-> <<>>, writing |-> None, asked |-> None, kept |-> {}, lines |-> <<>>]

NoCall == [pc |-> "idle", of |-> None, hook |-> None, body |-> None]

PluginsInit ==
    /\ plugin = [p \in Plugins |-> Started]
    /\ call = NoCall
    /\ unasked = 0

Put(p, state) == plugin' = [plugin EXCEPT ![p] = state]

-----------------------------------------------------------------------------
(* The writer thread, and the process. *)

WriterTakes(p) ==
    /\ plugin[p].writer /\ plugin[p].running
    /\ plugin[p].writing = None /\ plugin[p].hooks # <<>>
    /\ Put(p, [plugin[p] EXCEPT !.writing = Head(plugin[p].hooks), !.hooks = Tail(@)])
    /\ UNCHANGED <<call, unasked>>

(* stdin is closed, and so is the channel from then on. *)
WriterFails(p) ==
    /\ plugin[p].writer /\ ~plugin[p].running
    /\ plugin[p].writing # None \/ plugin[p].hooks # <<>>
    /\ Put(p, [plugin[p] EXCEPT !.writer = FALSE, !.writing = None, !.hooks = <<>>])
    /\ UNCHANGED <<call, unasked>>

(* write_all ends when the process has read the whole of the hook. *)
Reads(p) ==
    /\ plugin[p].running
    /\ plugin[p].writing # None /\ plugin[p].asked = None
    /\ Put(p, [plugin[p] EXCEPT !.asked = plugin[p].writing, !.writing = None])
    /\ UNCHANGED <<call, unasked>>

Line(parses, body) == [parses |-> parses, body |-> body]

(* It leaves a chunk alone, holds it or a part of it back, or lets go of all it
   has; at the end it lets go; what it is asked once it answers with a body or
   without. *)
Prints(p, hook) ==
    LET state == plugin[p]
        both == state.kept \cup hook.body
        Printed(body, kept) ==
            [state EXCEPT !.asked = None, !.kept = kept, !.lines = Append(@, Line(TRUE, body))]
    IN
    CASE hook.kind = "chunk" ->
            {Printed(None, state.kept), Printed({}, both), Printed(hook.body, both), Printed(both, {})}
      [] hook.kind = "final" -> {Printed(state.kept, {})}
      [] OTHER -> {Printed(None, state.kept), Printed(hook.body, state.kept)}

Answers(p) ==
    /\ plugin[p].running
    /\ plugin[p].asked # None /\ Len(plugin[p].lines) < ReplyQueue
    /\ \E state \in Prints(p, plugin[p].asked) : Put(p, state)
    /\ UNCHANGED <<call, unasked>>

(* A line that is not a reply, in place of one. *)
AnswersNonsense(p) ==
    /\ plugin[p].running
    /\ plugin[p].asked # None /\ Len(plugin[p].lines) < ReplyQueue
    /\ Put(p, [plugin[p] EXCEPT !.asked = None,
                    !.lines = Append(@, Line(FALSE, None))])
    /\ UNCHANGED <<call, unasked>>

(* A reply that nobody asked for. *)
Babbles(p) ==
    /\ unasked < MaxUnasked
    /\ plugin[p].running /\ Len(plugin[p].lines) < ReplyQueue
    /\ Put(p, [plugin[p] EXCEPT !.lines = Append(@, Line(TRUE, None))])
    /\ unasked' = unasked + 1
    /\ UNCHANGED call

Exits(p) ==
    /\ plugin[p].running
    /\ Put(p, [plugin[p] EXCEPT !.running = FALSE, !.asked = None, !.kept = {}])
    /\ UNCHANGED <<call, unasked>>

-----------------------------------------------------------------------------
(* call(). *)

Hook(kind, of, body) == [kind |-> kind, of |-> of, body |-> body]

Calling(p, hook) ==
    call' = [NoCall EXCEPT !.pc = "sending", !.of = p, !.hook = hook]

(* No reply is as good as one that sets no body. *)
Returned(body) == [NoCall EXCEPT !.pc = "returned", !.body = body]

Abandon(p) ==
    /\ Put(p, Abandoned)
    /\ call' = Returned(None)
    /\ UNCHANGED unasked

CallGone ==
    /\ call.pc = "sending" /\ ~plugin[call.of].io
    /\ call' = Returned(None)
    /\ UNCHANGED <<plugin, unasked>>

(* The channel holds one hook, and a send that finds it full waits. *)
CallSends ==
    LET p == call.of IN
    /\ call.pc = "sending" /\ plugin[p].io /\ plugin[p].writer
    /\ plugin[p].hooks = <<>>
    /\ Put(p, [plugin[p] EXCEPT !.hooks = <<call.hook>>])
    /\ call' = [call EXCEPT !.pc = "waiting"]
    /\ UNCHANGED unasked

CallRefused ==
    /\ call.pc = "sending" /\ plugin[call.of].io /\ ~plugin[call.of].writer
    /\ Abandon(call.of)

CallReturns ==
    LET p == call.of IN
    /\ call.pc = "waiting" /\ plugin[p].lines # <<>>
    /\ Head(plugin[p].lines).parses
    /\ Put(p, [plugin[p] EXCEPT !.lines = Tail(@)])
    /\ call' = Returned(Head(plugin[p].lines).body)
    /\ UNCHANGED unasked

(* "Fatal, because the protocol has no correlation id." *)
CallUnparsable ==
    /\ call.pc = "waiting" /\ plugin[call.of].lines # <<>>
    /\ ~Head(plugin[call.of].lines).parses
    /\ Abandon(call.of)

(* Mutant: the hook is given up, and the plugin is kept. *)
CallTimesOutOnly ==
    /\ call.pc = "waiting" /\ plugin[call.of].lines = <<>>
    /\ call' = Returned(None)
    /\ UNCHANGED <<plugin, unasked>>

(* Mutant: recv() in the place of recv_timeout(). *)
CallWaits ==
    /\ call.pc = "waiting" /\ plugin[call.of].lines = <<>>
    /\ ~plugin[call.of].running
    /\ Abandon(call.of)

(* The timeout passes, or the reader thread has ended. *)
CallTimesOut ==
    /\ call.pc = "waiting" /\ plugin[call.of].lines = <<>>
    /\ Abandon(call.of)

CallSteps ==
    \/ CallGone \/ CallSends \/ CallRefused
    \/ CallReturns \/ CallUnparsable \/ CallTimesOut

Writer(p) == WriterTakes(p) \/ WriterFails(p)

Process(p) ==
    Reads(p) \/ Answers(p) \/ AnswersNonsense(p) \/ Babbles(p) \/ Exits(p)

PluginSteps == CallSteps \/ \E p \in Plugins : Writer(p) \/ Process(p)

-----------------------------------------------------------------------------
(* start(): "call holds the lock until it has an answer, so a second hook
   cannot be queued behind the first".  A worker about to send finds the
   channel empty, and its writer idle: nothing before the wait can hold it
   up, so the timeout "bounds the whole round trip".  Not so once a plugin
   printed lines that were not asked for and stopped reading. *)
OneHookAtATime ==
    calm /\ call.pc = "sending" /\ plugin[call.of].io =>
        /\ plugin[call.of].hooks = <<>>
        /\ plugin[call.of].writing = None
        /\ plugin[call.of].asked = None
        /\ plugin[call.of].lines = <<>>
==============================================================================

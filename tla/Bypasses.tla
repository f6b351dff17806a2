------------------------------ MODULE Bypasses ------------------------------
(***************************************************************************)
(* Hosts whose certificate is not validated because somebody said so:      *)
(* Bypasses of src/proxy/src/insecure.rs, the fetch that consults it and   *)
(* the warning page that carries a token (upstream.rs, tcp.rs), and the    *)
(* endpoint that spends one (internal.rs).                                 *)
(*                                                                         *)
(* The offers and the hosts that are waved through are under two locks,    *)
(* and spending a token takes the one and then the other.  Hosts are named *)
(* by their key.  Tokens are numbered as they are made; 0 is the empty one *)
(* that stands for a generator that failed.  Nothing here is on disk.      *)
(***************************************************************************)
EXTENDS Clock, Sequences

CONSTANTS
    Hosts,
    Tasks,       \* requests that may be served at once
    MaxTokens,   \* bounds the tokens made
    OfferTtl,    \* OFFER_TTL
    BypassTtl    \* Config::bypass_ttl

ASSUME BypassAssumption ==
    /\ MaxTokens \in Nat
    /\ OfferTtl \in Nat
    /\ BypassTtl \in Nat

VARIABLES
    hosts,     \* waved through: [host, expiry]
    offered,   \* tokens that may be spent: [host, token, expiry]
    task,      \* what each request is doing
    madeFor,   \* for each token made, the host whose warning page has it
    spent,     \* the tokens that were spent, each with the host it was spent for
    again,     \* one of them was spent twice
    granted    \* what was answered 204, and when: [host, at]

bypassVars == <<hosts, offered, task, madeFor, spent, again, granted>>

BypassInit ==
    /\ hosts = {}
    /\ offered = {}
    /\ task = [t \in Tasks |-> [pc |-> "idle"]]
    /\ madeFor = <<>>
    /\ spent = {}
    /\ again = FALSE
    /\ granted = {}

TaskGoes(t, state) == task' = [task EXCEPT ![t] = state]

Live(entries) == {e \in entries : e.expiry > now}

-----------------------------------------------------------------------------
(* allows(): whether a fetch takes the agent that validates nothing. *)
AskAllowed(t, host) ==
    /\ task[t].pc = "idle"
    /\ hosts' = Live(hosts)
    /\ TaskGoes(t, [pc |-> IF \E e \in Live(hosts) : e.host = host
                           THEN "unverified" ELSE "validating", host |-> host])
    /\ UNCHANGED <<offered, madeFor, spent, again, granted>>

(* The answer came, whoever it was from. *)
Fetched(t) ==
    /\ task[t].pc \in {"unverified", "validating"}
    /\ TaskGoes(t, [pc |-> "idle"])
    /\ UNCHANGED <<hosts, offered, madeFor, spent, again, granted>>

(* failure_page(): the certificate did not validate, and the page that says
   so carries a token for its host, in place of the one before it. *)
OfferToken(t, token) ==
    LET host == task[t].host IN
    /\ task[t].pc = "validating"
    /\ offered' = {e \in Live(offered) : e.host # host}
                    \cup {[host |-> host, token |-> token, expiry |-> now + OfferTtl]}
    /\ TaskGoes(t, [pc |-> "idle"])
    /\ UNCHANGED <<hosts, spent, again, granted>>

Offer(t) ==
    \/ /\ Len(madeFor) < MaxTokens
       /\ OfferToken(t, Len(madeFor) + 1)
       /\ madeFor' = Append(madeFor, task[t].host)
    \/ OfferToken(t, 0) /\ UNCHANGED madeFor

(* The token is in force for this host.  The empty one matches nothing. *)
Matches(host, token) ==
    token # 0 /\ \E e \in Live(offered) : e.host = host /\ e.token = token

(* Mutant: the token is taken out of the offers later, with the other lock. *)
SpendKeepsOffer(t, host, token) ==
    /\ offered' = Live(offered)
    /\ spent' = spent \cup {[host |-> host, token |-> token]}
    /\ again' = (again \/ \E s \in spent : s.token = token)
    /\ TaskGoes(t, [pc |-> "spending", host |-> host])

Spend(t, host, token) ==
    /\ offered' = {e \in Live(offered) : e.host # host}
    /\ spent' = spent \cup {[host |-> host, token |-> token]}
    /\ again' = (again \/ \E s \in spent : s.token = token)
    /\ TaskGoes(t, [pc |-> "spending", host |-> host])

(* redeem(), under the lock of the offers: POST /.mach5/bypass, with any token
   that was ever seen, from the page of any host. *)
Redeem(t, host, token) ==
    /\ task[t].pc = "idle"
    /\ Matches(host, token)
    /\ Spend(t, host, token)
    /\ UNCHANGED <<hosts, madeFor, granted>>

RedeemRefused(t, host, token) ==
    /\ task[t].pc = "idle"
    /\ ~Matches(host, token)
    /\ offered' = Live(offered)
    /\ UNCHANGED <<hosts, task, madeFor, spent, again, granted>>

(* Mutant: a host that is there already keeps the time it has. *)
AllowOnce(t) ==
    LET host == task[t].host IN
    /\ task[t].pc = "spending"
    /\ hosts' = IF \E e \in hosts : e.host = host THEN hosts
                ELSE hosts \cup {[host |-> host, expiry |-> now + BypassTtl]}
    /\ granted' = granted \cup {[host |-> host, at |-> now]}
    /\ TaskGoes(t, [pc |-> "idle"])
    /\ UNCHANGED <<offered, madeFor, spent, again>>

(* allow(), under the lock of the hosts, and the answer. *)
Allow(t) ==
    LET host == task[t].host IN
    /\ task[t].pc = "spending"
    /\ hosts' = {e \in hosts : e.host # host}
                    \cup {[host |-> host, expiry |-> now + BypassTtl]}
    /\ granted' = granted \cup {[host |-> host, at |-> now]}
    /\ TaskGoes(t, [pc |-> "idle"])
    /\ UNCHANGED <<offered, madeFor, spent, again>>

BypassNext ==
    \E t \in Tasks :
        \/ \E h \in Hosts : AskAllowed(t, h)
        \/ Fetched(t) \/ Offer(t) \/ Allow(t)
        \/ \E h \in Hosts, k \in 0 .. Len(madeFor) :
            Redeem(t, h, k) \/ RedeemRefused(t, h, k)

-----------------------------------------------------------------------------
(* bypass(): "The token is the whole of the check."  A token opens the host
   whose warning page it was given to, once, however many requests carry it at
   the same time. *)
TokensAreSpentOnce ==
    /\ ~again
    /\ \A s \in spent : s.token \in DOMAIN madeFor /\ madeFor[s.token] = s.host

(* "A bypass expires", and does not before.  A fetch that asks now is waved
   through exactly when a token was answered 204 for its host less than the
   time of a bypass ago: the two locks of redeem leave no grant behind, and no
   later warning or refusal takes one back. *)
WavedThroughAsGranted ==
    \A h \in Hosts :
        (\E e \in Live(hosts) : e.host = h)
            <=> \E g \in granted : g.host = h /\ now < g.at + BypassTtl
=============================================================================

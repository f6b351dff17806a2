-------------------------------- MODULE Links --------------------------------
(***************************************************************************)
(* How fast each client is, and what that earns it: Tier, Thresholds and   *)
(* Links of src/proxy/src/link.rs.                                         *)
(*                                                                         *)
(* A tier is its degradation: 0 is full quality and 4 no images at all.    *)
(* Rates come from both front ends, for a client named by its address.     *)
(***************************************************************************)
EXTENDS Clock, Sequences

CONSTANTS
    Clients,
    Samples,        \* rates that may be measured, in kbps
    ConfigFloors,   \* what each tier of the ladder wants, as configured
    UpgradeSamples, \* UPGRADE_SAMPLES
    LinkTtl,        \* Links::ttl
    MaxClients      \* Links::max

ASSUME LinkAssumption ==
    /\ Samples \subseteq Nat
    /\ ConfigFloors \in [1 .. 4 -> Nat]
    /\ UpgradeSamples \in Nat \ {0}
    /\ LinkTtl \in Nat
    /\ MaxClients \in Nat \ {0}

VARIABLES
    clients,   \* what is known of each client that is tracked
    streak     \* for each of those, the estimates since it was, newest last,
               \* as far back as an upgrade looks

linkVars == <<clients, streak>>

Tiers == 0 .. 4

ColdStart == 0

Entry == [peer : Clients, kbps : Nat, tier : Tiers, upgrades : Nat, used : Nat]

-----------------------------------------------------------------------------
(* "Clamped rather than validated": a floor above an earlier one is lowered
   to it. *)
Floor(i) == CHOOSE f \in {ConfigFloors[j] : j \in 1 .. i} :
                \A j \in 1 .. i : f <= ConfigFloors[j]

(* Thresholds::tier_for: the first rung of the ladder whose floor is met. *)
TierFor(kbps) ==
    IF \E i \in 1 .. 4 : kbps >= Floor(i)
    THEN CHOOSE t \in 0 .. 3 : kbps >= Floor(t + 1) /\ \A i \in 1 .. t : kbps < Floor(i)
    ELSE 4

(* A fifth worse than it measures, in whole numbers. *)
Margin(kbps) == (kbps \div 5) * 4

(* Down at once and up slowly. *)
Blend(previous, sample) ==
    IF sample < previous
    THEN (previous + sample) \div 2
    ELSE (previous * 3 + sample) \div 4

-----------------------------------------------------------------------------
LinkInit ==
    /\ clients = {}
    /\ streak = [c \in Clients |-> <<>>]

Known(e) == now < e.used + LinkTtl

(* A first measurement is taken at face value. *)
FirstEntry(c, kbps) ==
    [peer |-> c, kbps |-> kbps, tier |-> TierFor(kbps), upgrades |-> 0, used |-> now]

(* Mutant: the count of good estimates survives one that is not. *)
StepForgets(e, kbps) ==
    LET candidate == TierFor(kbps)
        confident == TierFor(Margin(kbps))
        seen == [e EXCEPT !.kbps = kbps, !.used = now] IN
    CASE candidate >= e.tier -> [seen EXCEPT !.tier = candidate, !.upgrades = 0]
      [] candidate < e.tier /\ confident < e.tier /\ e.upgrades + 1 >= UpgradeSamples ->
            [seen EXCEPT !.tier = confident, !.upgrades = 0]
      [] candidate < e.tier /\ confident < e.tier /\ e.upgrades + 1 < UpgradeSamples ->
            [seen EXCEPT !.upgrades = @ + 1]
      [] OTHER -> seen

(* What another estimate makes of an entry: worse at once, better when
   UpgradeSamples of them in a row leave a margin. *)
Step(e, kbps) ==
    LET candidate == TierFor(kbps)
        confident == TierFor(Margin(kbps))
        seen == [e EXCEPT !.kbps = kbps, !.used = now] IN
    CASE candidate >= e.tier -> [seen EXCEPT !.tier = candidate, !.upgrades = 0]
      [] candidate < e.tier /\ confident < e.tier /\ e.upgrades + 1 >= UpgradeSamples ->
            [seen EXCEPT !.tier = confident, !.upgrades = 0]
      [] candidate < e.tier /\ confident < e.tier /\ e.upgrades + 1 < UpgradeSamples ->
            [seen EXCEPT !.upgrades = @ + 1]
      [] OTHER -> [seen EXCEPT !.upgrades = 0]

(* The last UpgradeSamples of a sequence with one more at its end. *)
Lately(s, x) ==
    LET longer == Append(s, x) IN
    SubSeq(longer, IF Len(longer) > UpgradeSamples THEN 2 ELSE 1, Len(longer))

(* Another measurement of a client that is known. *)
RecordKnown(c, sample) ==
    \E e \in clients :
        /\ e.peer = c /\ Known(e)
        /\ LET kbps == Blend(e.kbps, sample) IN
            /\ clients' = (clients \ {e}) \cup {Step(e, kbps)}
            /\ streak' = [streak EXCEPT ![c] = Lately(@, kbps)]

(* Mutant: looked at before the newcomer is put with them. *)
BoundedEarly(entries) ==
    IF Cardinality(entries) <= MaxClients + 1 THEN {entries}
    ELSE CutTo({e \in entries : Known(e)}, MaxClients)

(* bound(): what stays when a client comes that was not known. *)
Bounded(entries) ==
    IF Cardinality(entries) <= MaxClients THEN {entries}
    ELSE CutTo({e \in entries : Known(e)}, MaxClients)

(* The first of a client, or the first since what was known expired. *)
RecordNew(c, sample) ==
    /\ \A e \in clients : e.peer = c => ~Known(e)
    /\ clients' \in Bounded({e \in clients : e.peer # c} \cup {FirstEntry(c, sample)})
    /\ streak' = [d \in Clients |->
                    IF d = c THEN <<sample>>
                    ELSE IF \E e \in clients' : e.peer = d THEN streak[d] ELSE <<>>]

(* record(), which nothing that measured nothing gets past. *)
Record(c, sample) == sample # 0 /\ (RecordKnown(c, sample) \/ RecordNew(c, sample))

LinkNext == \E c \in Clients, k \in Samples : Record(c, k)

(* tier(): what a client is served. *)
ServedTier(c) ==
    IF \E e \in clients : e.peer = c /\ Known(e)
    THEN (CHOOSE e \in clients : e.peer = c).tier
    ELSE ColdStart

-----------------------------------------------------------------------------
(* The tier of a client is never better than its estimate earns without any
   margin, so a link that collapses is answered at once; and no more clients
   are remembered than may be, each of them once. *)
TierIsEarned ==
    /\ Cardinality(clients) <= MaxClients
    /\ \A d, e \in clients : d.peer = e.peer => d = e
    /\ \A e \in clients : e.tier >= TierFor(e.kbps)

(* UPGRADE_SAMPLES: "Consecutive samples that must all argue for a better tier
   before one is served", with the margin that keeps a link at a threshold
   from flapping.  A client is only served better than before when each of its
   last estimates, less a fifth, was of a better tier than it was served, and
   then as the last of them says; or when what was known of it is no longer. *)
UpgradesAreEarned ==
    \A c \in Clients :
        /\ ServedTier(c)' < ServedTier(c)
        /\ \E e \in clients' : e.peer = c /\ (Known(e))'
        /\ Len(streak'[c]) > 1
        => /\ Len(streak'[c]) = UpgradeSamples
           /\ ServedTier(c)' = TierFor(Margin(streak'[c][UpgradeSamples]))
           /\ \A i \in 1 .. UpgradeSamples : TierFor(Margin(streak'[c][i])) < ServedTier(c)
=============================================================================

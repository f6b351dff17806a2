-------------------------- MODULE Registries_proofs --------------------------
(***************************************************************************)
(* The registries of Registries.tla, proved for every number of clients,   *)
(* every bound and every length of time.                                   *)
(***************************************************************************)
EXTENDS Registries, FiniteSetTheorems, SequenceTheorems, TLAPS

-----------------------------------------------------------------------------
(* What every registry that is full keeps. *)
LEMMA CutToFits ==
    ASSUME NEW S, IsFiniteSet(S), NEW n \in Nat, NEW kept \in CutTo(S, n)
    PROVE  kept \subseteq S /\ IsFiniteSet(kept) /\ Cardinality(kept) <= n
<1>1. CASE Cardinality(S) <= n
  BY <1>1 DEF CutTo
<1>2. CASE ~(Cardinality(S) <= n)
  <2>1. kept \subseteq S /\ Cardinality(kept) = n
    BY <1>2 DEF CutTo, MostRecent
  <2>2. QED
    BY <2>1, FS_Subset
<1>3. QED
  BY <1>1, <1>2

LEMMA AddOne ==
    ASSUME NEW S, IsFiniteSet(S), NEW n \in Nat, Cardinality(S) <= n, NEW x
    PROVE  IsFiniteSet(S \cup {x}) /\ Cardinality(S \cup {x}) <= n + 1
<1>1. Cardinality(S) \in Nat
  BY FS_CardinalityType
<1>2. IsFiniteSet(S \cup {x}) /\
        Cardinality(S \cup {x}) = IF x \in S THEN Cardinality(S) ELSE Cardinality(S) + 1
  BY FS_AddElement
<1>3. QED
  BY <1>1, <1>2

(* The clock goes on, and only forward. *)
ClockOK == now \in Nat

(* Any step of the process, as one of the parts sees it. *)
LEMMA PartStep ==
    ASSUME ClockOK, [Next]_vars
    PROVE  /\ ClockOK' /\ now' >= now
           /\ (LeafNext /\ now' = now) \/ UNCHANGED leafVars
           /\ (LinkNext /\ now' = now) \/ UNCHANGED linkVars
           /\ (BypassNext /\ now' = now) \/ UNCHANGED bypassVars
           /\ (ConnectionNext /\ now' = now) \/ UNCHANGED connectionVars
           /\ DrainNext \/ DrainTick \/ UNCHANGED drainVars
<1>1. CASE Leaves /\ UNCHANGED now
  BY <1>1 DEF ClockOK, Leaves
<1>2. CASE Bypassing /\ UNCHANGED now
  BY <1>2 DEF ClockOK, Bypassing
<1>3. CASE Measuring /\ UNCHANGED now
  BY <1>3 DEF ClockOK, Measuring
<1>4. CASE (Draining \/ Budgeting) /\ UNCHANGED now
  BY <1>4 DEF ClockOK, Draining, Budgeting
<1>5. CASE Connecting /\ UNCHANGED now
  BY <1>5 DEF ClockOK, Connecting
<1>6. CASE TimePasses
  BY <1>6 DEF ClockOK, TimePasses, Tick, parts, DrainTick
<1>7. CASE UNCHANGED vars
  BY <1>7 DEF ClockOK, vars, parts
<1>8. QED
  BY <1>1, <1>2, <1>3, <1>4, <1>5, <1>6, <1>7 DEF Next

-----------------------------------------------------------------------------
(* The leaves. *)

HandshakeStates ==
    [pc : {"idle"}] \cup [pc : {"minting"}, sni : Sni]
        \cup [pc : {"minted", "installed"}, sni : Sni, leaf : Leaf]

LeafInv ==
    /\ held \subseteq Held
    /\ handshake \in [Handshakes -> HandshakeStates]
    /\ IsFiniteSet(held) /\ Cardinality(held) <= MaxLeaves
    /\ \A d, e \in held : d.key = e.key => d = e
    /\ \A e \in held : e.leaf.san = e.key
    /\ \A h \in Handshakes : handshake[h].pc \in {"minted", "installed"} =>
            handshake[h].leaf.san = Key(handshake[h].sni)

(* The key of a name is the name, spelled plainly. *)
LEMMA KeyIsPlain ==
    ASSUME NEW sni \in Sni
    PROVE  Key(sni) \in Sni /\ Key(sni) = [name |-> sni.name, spelling |-> "plain"]
  BY LeafAssumption DEF Sni, Key

(* A handshake that goes on with a leaf that says its name. *)
LEMMA GoesKeeps ==
    ASSUME LeafInv, NEW h \in Handshakes, NEW next \in HandshakeStates,
           next.pc \in {"minted", "installed"} => next.leaf.san = Key(next.sni),
           Goes(h, next)
    PROVE  /\ handshake' \in [Handshakes -> HandshakeStates]
           /\ \A g \in Handshakes : handshake'[g].pc \in {"minted", "installed"} =>
                handshake'[g].leaf.san = Key(handshake'[g].sni)
  BY DEF LeafInv, Goes

LEMMA LeafInitInv == LeafInit => LeafInv
  BY FS_EmptySet, LeafAssumption DEF LeafInit, LeafInv, HandshakeStates

LEMMA HitStep ==
    ASSUME LeafInv, ClockOK, NEW h \in Handshakes, Hit(h)
    PROVE  LeafInv'
<1>1. PICK sni \in Sni : \E e \in Cached(Key(sni)) :
        /\ held' = (held \ {e}) \cup {[e EXCEPT !.used = now]}
        /\ Goes(h, [pc |-> "installed", sni |-> sni, leaf |-> e.leaf])
  BY DEF Hit
<1>2. PICK e \in Cached(Key(sni)) :
        /\ held' = (held \ {e}) \cup {[e EXCEPT !.used = now]}
        /\ Goes(h, [pc |-> "installed", sni |-> sni, leaf |-> e.leaf])
  BY <1>1
<1> DEFINE f == [e EXCEPT !.used = now]
<1>3. /\ e \in held /\ e.key = Key(sni) /\ e \in Held /\ f \in Held
      /\ f.key = e.key /\ f.leaf = e.leaf /\ e.leaf \in Leaf /\ e.leaf.san = Key(sni)
  BY <1>2 DEF ClockOK, Cached, LeafInv, Held
<1> HIDE DEF f
<1>4. held' = (held \ {e}) \cup {f}
  BY <1>2 DEF f
<1>5. IsFiniteSet(held') /\ Cardinality(held') <= MaxLeaves
  <2>1. IsFiniteSet(held \ {e}) /\ Cardinality(held \ {e}) = Cardinality(held) - 1
    BY <1>3, FS_RemoveElement DEF LeafInv
  <2>2. Cardinality(held \ {e}) <= MaxLeaves - 1 /\ MaxLeaves - 1 \in Nat
    BY <2>1, FS_CardinalityType, LeafAssumption DEF LeafInv
  <2>3. IsFiniteSet(held') /\ Cardinality(held') <= (MaxLeaves - 1) + 1
    BY <1>4, <2>1, <2>2, AddOne, Zenon
  <2>4. QED
    BY <2>3, LeafAssumption
<1>6. held' \subseteq Held /\ \A d \in held' : d.leaf.san = d.key
  BY <1>3, <1>4 DEF LeafInv
<1>7. \A c, d \in held' : c.key = d.key => c = d
  BY <1>3, <1>4 DEF LeafInv
<1>8. [pc |-> "installed", sni |-> sni, leaf |-> e.leaf] \in HandshakeStates
  BY <1>3 DEF HandshakeStates
<1>9. QED
  BY <1>2, <1>3, <1>5, <1>6, <1>7, <1>8, GoesKeeps DEF LeafInv

LEMMA RememberStep ==
    ASSUME LeafInv, ClockOK, NEW h \in Handshakes, Remember(h)
    PROVE  LeafInv'
<1> DEFINE sni == handshake[h].sni
           key == Key(sni)
           leaf == handshake[h].leaf
           entry == [key |-> key, leaf |-> leaf, used |-> now]
<1>1. sni \in Sni /\ leaf \in Leaf /\ leaf.san = key
  BY DEF Remember, LeafInv, HandshakeStates
<1>2. key \in Sni /\ entry \in Held
  BY <1>1, KeyIsPlain DEF ClockOK, Held
<1>3. PICK kept \in Room(key) : held' = {e \in kept : e.key # key} \cup {entry}
  BY DEF Remember
<1> DEFINE others == {e \in kept : e.key # key}
<1>4. /\ IsFiniteSet(others) /\ others \subseteq held
      /\ Cardinality(others) <= MaxLeaves - 1
  <2>1. CASE Cardinality(held) < MaxLeaves
    <3>1. kept = held
      BY <1>3, <2>1 DEF Room
    <3>2. IsFiniteSet(others) /\ Cardinality(others) <= Cardinality(held)
      BY <3>1, FS_Subset DEF LeafInv
    <3>3. QED
      BY <2>1, <3>1, <3>2, FS_CardinalityType, LeafAssumption DEF LeafInv
  <2>2. CASE \E e \in held : e.key = key
    <3>1. kept = held
      BY <1>3, <2>2 DEF Room
    <3>2. PICK e \in held : e.key = key
      BY <2>2
    <3>3. others \in SUBSET (held \ {e})
      BY <3>1, <3>2
    <3>4. IsFiniteSet(held \ {e}) /\ Cardinality(held \ {e}) = Cardinality(held) - 1
      BY <3>2, FS_RemoveElement DEF LeafInv
    <3>5. IsFiniteSet(others) /\ Cardinality(others) <= Cardinality(held) - 1
      BY <3>3, <3>4, FS_Subset
    <3>6. QED
      BY <3>3, <3>5, FS_CardinalityType, LeafAssumption DEF LeafInv
  <2>3. CASE ~(Cardinality(held) < MaxLeaves) /\ ~(\E e \in held : e.key = key)
    <3>1. kept \in CutTo(Unexpired, MaxLeaves - 1)
      BY <1>3, <2>3 DEF Room
    <3>2. Unexpired \in SUBSET held /\ IsFiniteSet(Unexpired)
      BY FS_Subset DEF Unexpired, LeafInv
    <3>3. MaxLeaves - 1 \in Nat
      BY LeafAssumption
    <3>4. kept \subseteq held /\ IsFiniteSet(kept) /\ Cardinality(kept) <= MaxLeaves - 1
      BY <3>1, <3>2, <3>3, CutToFits
    <3>5. IsFiniteSet(others) /\ Cardinality(others) <= Cardinality(kept)
      BY <3>4, FS_Subset
    <3>6. QED
      BY <3>3, <3>4, <3>5, FS_CardinalityType
  <2>4. QED
    BY <2>1, <2>2, <2>3
<1>5. IsFiniteSet(held') /\ Cardinality(held') <= MaxLeaves
  <2>1. MaxLeaves - 1 \in Nat
    BY LeafAssumption
  <2>2. IsFiniteSet(held') /\ Cardinality(held') <= (MaxLeaves - 1) + 1
    BY <1>3, <1>4, <2>1, AddOne, Zenon
  <2>3. QED
    BY <2>2, LeafAssumption
<1>6. held' \subseteq Held /\ \A d \in held' : d.leaf.san = d.key
  BY <1>1, <1>2, <1>3, <1>4 DEF LeafInv
<1>7. \A c, d \in held' : c.key = d.key => c = d
  BY <1>3, <1>4 DEF LeafInv
<1>8. [pc |-> "installed", sni |-> sni, leaf |-> leaf] \in HandshakeStates
  BY <1>1 DEF HandshakeStates
<1>9. Goes(h, [pc |-> "installed", sni |-> sni, leaf |-> leaf])
  BY DEF Remember
<1> HIDE DEF sni, key, leaf, entry, others
<1>10. leaf.san = Key(sni)
  BY <1>1 DEF key
<1>11. QED
  BY <1>5, <1>6, <1>7, <1>8, <1>9, <1>10, GoesKeeps DEF LeafInv

LEMMA LeafStep ==
    ASSUME LeafInv, ClockOK, LeafNext
    PROVE  LeafInv'
<1> PICK h \in Handshakes :
        Hit(h) \/ Miss(h) \/ Mint(h) \/ MintFails(h) \/ Remember(h) \/ HandshakeEnds(h)
  BY DEF LeafNext
<1>1. CASE Hit(h)
  BY <1>1, HitStep
<1>2. CASE Miss(h)
  <2>1. PICK sni \in Sni : Goes(h, [pc |-> "minting", sni |-> sni])
    BY <1>2 DEF Miss
  <2>2. [pc |-> "minting", sni |-> sni] \in HandshakeStates
    BY DEF HandshakeStates
  <2>3. QED
    BY <1>2, <2>1, <2>2, GoesKeeps DEF LeafInv, Miss
<1>3. CASE Mint(h)
  <2> DEFINE sni == handshake[h].sni
             next == [pc |-> "minted", sni |-> sni, leaf |-> Minted(sni)]
  <2>1. sni \in Sni
    BY <1>3 DEF Mint, LeafInv, HandshakeStates
  <2>2. Minted(sni) \in Leaf /\ Minted(sni).san = Key(sni)
    BY <2>1, KeyIsPlain, LeafAssumption DEF ClockOK, Minted, Leaf
  <2>3. next \in HandshakeStates
    BY <2>1, <2>2 DEF HandshakeStates
  <2>4. QED
    BY <1>3, <2>2, <2>3, GoesKeeps DEF LeafInv, Mint
<1>4. CASE MintFails(h) \/ HandshakeEnds(h)
  <2>1. [pc |-> "idle"] \in HandshakeStates
    BY DEF HandshakeStates
  <2>2. QED
    BY <1>4, <2>1, GoesKeeps DEF LeafInv, MintFails, HandshakeEnds
<1>5. CASE Remember(h)
  BY <1>5, RememberStep
<1>6. QED
  BY <1>1, <1>2, <1>3, <1>4, <1>5

(* ca.rs, remember() and leaf_for(): at most MAX_LEAVES leaves and one for a
   name, and the leaf of every handshake says the name it asked for, whoever
   minted it. *)
THEOREM Leafs == Spec => []LeavesAreSound
<1>1. Init => LeafInv /\ ClockOK
  BY LeafInitInv DEF Init, ClockOK
<1>2. LeafInv /\ ClockOK /\ [Next]_vars => LeafInv' /\ ClockOK'
  <2> SUFFICES ASSUME LeafInv, ClockOK, [Next]_vars PROVE LeafInv' /\ ClockOK'
    OBVIOUS
  <2>1. ClockOK' /\ (LeafNext \/ UNCHANGED leafVars)
    BY PartStep
  <2>2. CASE UNCHANGED leafVars
    BY <2>1, <2>2 DEF leafVars, LeafInv
  <2>3. QED
    BY <2>1, <2>2, LeafStep
<1>3. LeafInv => LeavesAreSound
  <2> SUFFICES ASSUME LeafInv, NEW h \in Handshakes, handshake[h].pc = "installed"
               PROVE  handshake[h].leaf.san = [name |-> handshake[h].sni.name, spelling |-> "plain"]
    BY DEF LeafInv, LeavesAreSound
  <2>1. handshake[h].sni \in Sni
    BY DEF LeafInv, HandshakeStates
  <2>2. QED
    BY <2>1, KeyIsPlain DEF LeafInv
<1>4. QED
  BY <1>1, <1>2, <1>3, PTL DEF Spec
(* A leaf that is still good and goes, went because the cache was at its bound
   with nothing worse to give up. *)
LEMMA RememberEvicts ==
    ASSUME LeafInv, NEW h \in Handshakes, Remember(h)
    PROVE  GoodLeavesStay
<1> DEFINE key == Key(handshake[h].sni)
           entry == [key |-> key, leaf |-> handshake[h].leaf, used |-> now]
<1>1. PICK kept \in Room(key) : held' = {e \in kept : e.key # key} \cup {entry}
  BY DEF Remember
<1>2. entry.key = key
  OBVIOUS
<1> HIDE DEF key, entry
<1> SUFFICES ASSUME NEW e \in held, e.leaf.until > now, \A d \in held' : d.key # e.key
             PROVE  /\ Cardinality(held') = MaxLeaves
                    /\ \A d \in held \cap held' : d.leaf.until > now /\ e.used <= d.used
  BY DEF GoodLeavesStay
<1>3. e.key # key /\ e \notin kept
  BY <1>1, <1>2
<1>4. kept \in CutTo(Unexpired, MaxLeaves - 1) /\ ~(\E d \in held : d.key = key)
  BY <1>3 DEF Room, key
<1>5. e \in Unexpired /\ Unexpired \in SUBSET held /\ IsFiniteSet(Unexpired)
  BY FS_Subset DEF Unexpired, LeafInv
<1>6. kept \in MostRecent(Unexpired, MaxLeaves - 1)
  BY <1>3, <1>4, <1>5 DEF CutTo
<1>7. /\ kept \subseteq Unexpired /\ IsFiniteSet(kept) /\ Cardinality(kept) = MaxLeaves - 1
      /\ \A d \in kept : e.used <= d.used
  <2>1. /\ kept \in SUBSET Unexpired /\ Cardinality(kept) = MaxLeaves - 1
        /\ \A d \in kept, gone \in Unexpired \ kept : gone.used <= d.used
    BY <1>6 DEF MostRecent
  <2>2. IsFiniteSet(kept)
    BY <1>5, <2>1, FS_Subset
  <2>3. QED
    BY <1>3, <1>5, <2>1, <2>2
<1>8. held' = kept \cup {entry} /\ entry \notin kept /\ entry \notin held
  BY <1>1, <1>2, <1>4, <1>5, <1>7
<1>9. Cardinality(held') = MaxLeaves
  <2>1. Cardinality(held') = Cardinality(kept) + 1
    BY <1>7, <1>8, FS_AddElement
  <2>2. QED
    BY <1>7, <2>1, LeafAssumption
<1>10. \A d \in held \cap held' : d.leaf.until > now /\ e.used <= d.used
  BY <1>7, <1>8 DEF Unexpired
<1>11. QED
  BY <1>9, <1>10

(* ca.rs, remember(): "Expired first, since nothing wants those", and of the
   rest the one that was used the longest ago. *)
THEOREM Evicts == Spec => EvictsTheIdle
<1>1. Init => LeafInv /\ ClockOK
  BY LeafInitInv DEF Init, ClockOK
<1>2. LeafInv /\ ClockOK /\ [Next]_vars => LeafInv' /\ ClockOK' /\ [GoodLeavesStay]_vars
  <2> SUFFICES ASSUME LeafInv, ClockOK, [Next]_vars
               PROVE  LeafInv' /\ ClockOK' /\ GoodLeavesStay
    OBVIOUS
  <2>1. ClockOK' /\ (LeafNext \/ UNCHANGED leafVars)
    BY PartStep
  <2>2. CASE UNCHANGED leafVars
    BY <2>1, <2>2 DEF leafVars, LeafInv, GoodLeavesStay
  <2>3. CASE LeafNext
    <3> PICK h \in Handshakes :
            Hit(h) \/ Miss(h) \/ Mint(h) \/ MintFails(h) \/ Remember(h) \/ HandshakeEnds(h)
      BY <2>3 DEF LeafNext
    <3>1. CASE Hit(h)
      <4>1. PICK sni \in Sni : \E e \in Cached(Key(sni)) :
                held' = (held \ {e}) \cup {[e EXCEPT !.used = now]}
        BY <3>1 DEF Hit
      <4>2. PICK e \in held :
                held' = (held \ {e}) \cup {[e EXCEPT !.used = now]}
        BY <4>1 DEF Cached
      <4>3. [e EXCEPT !.used = now].key = e.key
        BY DEF LeafInv, Held
      <4>4. \A d \in held : \E f \in held' : f.key = d.key
        BY <4>2, <4>3
      <4>5. QED
        BY <2>1, <2>3, <4>4, LeafStep DEF GoodLeavesStay
    <3>2. CASE UNCHANGED held
      BY <2>1, <2>3, <3>2, LeafStep DEF GoodLeavesStay
    <3>3. CASE Remember(h)
      BY <2>1, <2>3, <3>3, LeafStep, RememberEvicts
    <3>4. QED
      BY <3>1, <3>2, <3>3 DEF Miss, Mint, MintFails, HandshakeEnds
  <2>4. QED
    BY <2>1, <2>2, <2>3
<1>3. QED
  BY <1>1, <1>2, PTL DEF Spec, EvictsTheIdle

-----------------------------------------------------------------------------
(* The links. *)

LinkInv ==
    /\ clients \subseteq Entry
    /\ IsFiniteSet(clients) /\ Cardinality(clients) <= MaxClients
    /\ \A d, e \in clients : d.peer = e.peer => d = e
    /\ \A e \in clients : e.tier >= TierFor(e.kbps)

LEMMA FloorIsLeast ==
    ASSUME NEW i \in 1 .. 4
    PROVE  Floor(i) \in Nat
<1> DEFINE floors == {ConfigFloors[j] : j \in 1 .. i}
<1>1. \A j \in 1 .. 4 : ConfigFloors[j] \in Nat
  BY LinkAssumption
<1>2. \E f \in floors : \A j \in 1 .. i : f <= ConfigFloors[j]
  <2>1. CASE i = 1
    BY <1>1, <2>1
  <2>2. CASE i = 2
    BY <1>1, <2>2
  <2>3. CASE i = 3
    BY <1>1, <2>3
  <2>4. CASE i = 4
    BY <1>1, <2>4
  <2>5. QED
    BY <2>1, <2>2, <2>3, <2>4
<1>3. Floor(i) \in floors
  BY <1>2, Zenon DEF Floor
<1>4. QED
  BY <1>1, <1>3

(* The rung of a rate is one whose floor it meets, below all it does not. *)
LEMMA Ladder ==
    ASSUME NEW kbps \in Nat
    PROVE  /\ TierFor(kbps) \in Tiers
           /\ TierFor(kbps) < 4 => kbps >= Floor(TierFor(kbps) + 1)
           /\ \A i \in 1 .. TierFor(kbps) : kbps < Floor(i)
<1>1. \A i \in 1 .. 4 : Floor(i) \in Nat
  BY FloorIsLeast
<1>2. CASE \E i \in 1 .. 4 : kbps >= Floor(i)
  <2>1. \E t \in 0 .. 3 : kbps >= Floor(t + 1) /\ \A i \in 1 .. t : kbps < Floor(i)
    <3>1. CASE kbps >= Floor(1)
      BY <3>1
    <3>2. CASE kbps < Floor(1) /\ kbps >= Floor(2)
      BY <3>2
    <3>3. CASE kbps < Floor(1) /\ kbps < Floor(2) /\ kbps >= Floor(3)
      BY <3>3
    <3>4. CASE kbps < Floor(1) /\ kbps < Floor(2) /\ kbps < Floor(3) /\ kbps >= Floor(4)
      BY <3>4
    <3>5. QED
      BY <1>1, <1>2, <3>1, <3>2, <3>3, <3>4
  <2>2. TierFor(kbps) = CHOOSE t \in 0 .. 3 : kbps >= Floor(t + 1) /\ \A i \in 1 .. t : kbps < Floor(i)
    BY <1>2, Zenon DEF TierFor
  <2>3. /\ TierFor(kbps) \in 0 .. 3
        /\ kbps >= Floor(TierFor(kbps) + 1)
        /\ \A i \in 1 .. TierFor(kbps) : kbps < Floor(i)
    BY <2>1, <2>2, Zenon
  <2>4. QED
    BY <2>3 DEF Tiers
<1>3. CASE ~(\E i \in 1 .. 4 : kbps >= Floor(i))
  <2>1. TierFor(kbps) = 4
    BY <1>3 DEF TierFor
  <2>2. QED
    BY <1>1, <1>3, <2>1 DEF Tiers
<1>4. QED
  BY <1>2, <1>3

(* A worse rate earns no better tier. *)
LEMMA NoBetterForLess ==
    ASSUME NEW more \in Nat, NEW less \in Nat, less <= more
    PROVE  TierFor(more) <= TierFor(less)
<1> DEFINE t == TierFor(less)
           u == TierFor(more)
<1>1. t \in Tiers /\ u \in Tiers
  BY Ladder
<1>2. t < 4 => less >= Floor(t + 1)
  BY Ladder
<1>3. \A i \in 1 .. u : more < Floor(i)
  BY Ladder
<1>4. ASSUME t < u PROVE FALSE
  <2>1. t + 1 \in 1 .. u /\ t + 1 \in 1 .. 4 /\ t < 4
    BY <1>1, <1>4 DEF Tiers
  <2>2. more < Floor(t + 1) /\ less >= Floor(t + 1) /\ Floor(t + 1) \in Nat
    BY <1>2, <1>3, <2>1, FloorIsLeast
  <2>3. QED
    BY <2>2
<1>5. QED
  BY <1>1, <1>4 DEF Tiers

(* What an entry becomes is of the same client, and no better than earned. *)
LEMMA StepEarns ==
    ASSUME ClockOK, NEW e \in Entry, NEW kbps \in Nat
    PROVE  /\ Step(e, kbps) \in Entry
           /\ Step(e, kbps).peer = e.peer
           /\ Step(e, kbps).tier >= TierFor(Step(e, kbps).kbps)
<1> DEFINE candidate == TierFor(kbps)
           confident == TierFor(Margin(kbps))
           noted == [e EXCEPT !.kbps = kbps, !.used = now]
<1>1. Margin(kbps) \in Nat /\ Margin(kbps) <= kbps
  BY DEF Margin
<1>2. candidate \in Tiers /\ confident \in Tiers /\ candidate <= confident
  BY <1>1, Ladder, NoBetterForLess
<1>3. noted \in Entry /\ noted.peer = e.peer /\ noted.kbps = kbps /\ noted.tier = e.tier
  BY DEF Entry, ClockOK
<1>4. e.tier \in Tiers /\ e.upgrades \in Nat /\ UpgradeSamples \in Nat
  BY LinkAssumption DEF Entry
<1> HIDE DEF candidate, confident, noted
<1>5. Step(e, kbps) =
        CASE candidate >= e.tier -> [noted EXCEPT !.tier = candidate, !.upgrades = 0]
          [] candidate < e.tier /\ confident < e.tier /\ e.upgrades + 1 >= UpgradeSamples ->
                [noted EXCEPT !.tier = confident, !.upgrades = 0]
          [] candidate < e.tier /\ confident < e.tier /\ e.upgrades + 1 < UpgradeSamples ->
                [noted EXCEPT !.upgrades = @ + 1]
          [] OTHER -> [noted EXCEPT !.upgrades = 0]
  BY Zenon DEF Step, candidate, confident, noted
<1>6. candidate = TierFor(kbps)
  BY DEF candidate
<1> DEFINE Better(t) == [noted EXCEPT !.tier = t, !.upgrades = 0]
<1>7. ASSUME NEW t \in Tiers
       PROVE  /\ Better(t) \in Entry
              /\ Better(t).peer = e.peer /\ Better(t).kbps = kbps /\ Better(t).tier = t
  <2> DEFINE moved == [noted EXCEPT !.tier = t]
             entry == [moved EXCEPT !.upgrades = 0]
  <2>1. Better(t) = entry
    OBVIOUS
  <2>2. moved \in Entry /\ moved.peer = e.peer /\ moved.kbps = kbps /\ moved.tier = t
    BY <1>3 DEF Entry
  <2> HIDE DEF moved, Better
  <2>3. entry \in Entry /\ entry.peer = e.peer /\ entry.kbps = kbps /\ entry.tier = t
    BY <2>2 DEF Entry
  <2> HIDE DEF entry
  <2>4. QED
    BY <2>1, <2>3
<1>8. CASE candidate >= e.tier
  <2>1. Step(e, kbps) = Better(candidate)
    BY <1>2, <1>4, <1>5, <1>8 DEF Tiers
  <2> HIDE DEF Better
  <2>2. QED
    BY <1>2, <1>6, <1>7, <2>1 DEF Tiers
<1>9. CASE candidate < e.tier /\ confident < e.tier /\ e.upgrades + 1 >= UpgradeSamples
  <2>1. Step(e, kbps) = Better(confident)
    BY <1>2, <1>4, <1>5, <1>9 DEF Tiers
  <2> HIDE DEF Better
  <2>2. QED
    BY <1>2, <1>6, <1>7, <2>1 DEF Tiers
<1>10. CASE candidate < e.tier /\ confident < e.tier /\ e.upgrades + 1 < UpgradeSamples
  <2>1. Step(e, kbps) = [noted EXCEPT !.upgrades = @ + 1]
    BY <1>2, <1>4, <1>5, <1>10 DEF Tiers
  <2>2. QED
    BY <1>2, <1>3, <1>4, <1>6, <1>10, <2>1 DEF Entry, Tiers
<1>11. CASE candidate < e.tier /\ ~(confident < e.tier)
  <2>1. Step(e, kbps) = [noted EXCEPT !.upgrades = 0]
    BY <1>2, <1>4, <1>5, <1>11 DEF Tiers
  <2>2. QED
    BY <1>2, <1>3, <1>6, <1>11, <2>1 DEF Entry, Tiers
<1>12. QED
  BY <1>2, <1>4, <1>8, <1>9, <1>10, <1>11 DEF Tiers
LEMMA LinkInitInv == LinkInit => LinkInv
  BY FS_EmptySet, LinkAssumption DEF LinkInit, LinkInv

LEMMA RecordKnownStep ==
    ASSUME LinkInv, ClockOK, NEW c \in Clients, NEW sample \in Samples, RecordKnown(c, sample)
    PROVE  LinkInv'
<1>1. PICK e \in clients :
        clients' = (clients \ {e}) \cup {Step(e, Blend(e.kbps, sample))}
  BY DEF RecordKnown
<1> DEFINE f == Step(e, Blend(e.kbps, sample))
<1>2. e \in Entry /\ e.kbps \in Nat /\ sample \in Nat
  BY LinkAssumption DEF LinkInv, Entry
<1>3. Blend(e.kbps, sample) \in Nat
  BY <1>2 DEF Blend
<1>4. f \in Entry /\ f.peer = e.peer /\ f.tier >= TierFor(f.kbps)
  BY <1>2, <1>3, StepEarns
<1>5. clients' = (clients \ {e}) \cup {f}
  BY <1>1
<1> HIDE DEF f
<1>6. IsFiniteSet(clients') /\ Cardinality(clients') <= MaxClients
  <2>1. IsFiniteSet(clients \ {e}) /\ Cardinality(clients \ {e}) = Cardinality(clients) - 1
    BY FS_RemoveElement DEF LinkInv
  <2>2. Cardinality(clients \ {e}) <= MaxClients - 1 /\ MaxClients - 1 \in Nat
    BY <2>1, FS_CardinalityType, LinkAssumption DEF LinkInv
  <2>3. IsFiniteSet(clients') /\ Cardinality(clients') <= (MaxClients - 1) + 1
    BY <1>5, <2>1, <2>2, AddOne, Zenon
  <2>4. QED
    BY <2>3, LinkAssumption
<1>7. clients' \subseteq Entry /\ \A d \in clients' : d.tier >= TierFor(d.kbps)
  BY <1>4, <1>5 DEF LinkInv
<1>8. \A d, g \in clients' : d.peer = g.peer => d = g
  BY <1>4, <1>5 DEF LinkInv
<1>9. QED
  BY <1>6, <1>7, <1>8 DEF LinkInv

LEMMA RecordNewStep ==
    ASSUME LinkInv, ClockOK, NEW c \in Clients, NEW sample \in Samples, RecordNew(c, sample)
    PROVE  LinkInv'
<1> DEFINE others == {e \in clients : e.peer # c}
           first == FirstEntry(c, sample)
           all == others \cup {first}
<1>1. clients' \in Bounded(all)
  BY DEF RecordNew
<1>2. /\ first \in Entry /\ first.peer = c
      /\ first.tier >= TierFor(first.kbps)
  <2>1. sample \in Nat
    BY LinkAssumption
  <2>2. TierFor(sample) \in Tiers
    BY <2>1, Ladder
  <2>3. QED
    BY <2>1, <2>2 DEF FirstEntry, Entry, ClockOK, Tiers
<1> HIDE DEF first
<1>3. /\ all \subseteq Entry
      /\ \A e \in all : e.tier >= TierFor(e.kbps)
      /\ \A d, e \in all : d.peer = e.peer => d = e
  BY <1>2 DEF LinkInv
<1>4. IsFiniteSet(all)
  BY FS_Subset, FS_AddElement DEF LinkInv
<1> HIDE DEF all
<1>5. clients' \subseteq all /\ IsFiniteSet(clients') /\ Cardinality(clients') <= MaxClients
  <2>1. CASE Cardinality(all) <= MaxClients
    BY <1>1, <1>4, <2>1 DEF Bounded
  <2>2. CASE ~(Cardinality(all) <= MaxClients)
    <3> DEFINE known == {e \in all : Known(e)}
    <3>1. known \subseteq all /\ IsFiniteSet(known)
      BY <1>4, FS_Subset
    <3>2. clients' \in CutTo(known, MaxClients)
      BY <1>1, <2>2 DEF Bounded
    <3>3. MaxClients \in Nat
      BY LinkAssumption
    <3> HIDE DEF known
    <3>4. clients' \subseteq known /\ IsFiniteSet(clients') /\ Cardinality(clients') <= MaxClients
      BY <3>1, <3>2, <3>3, CutToFits
    <3>5. QED
      BY <3>1, <3>4
  <2>3. QED
    BY <2>1, <2>2
<1>6. QED
  BY <1>3, <1>5 DEF LinkInv

(* link.rs, record_at(): at most `max' clients, each once, and none with a
   better tier than its estimate earns; whatever is measured, of whom, and
   whatever thresholds are configured. *)
THEOREM Tiered == Spec => []TierIsEarned
<1>1. Init => LinkInv /\ ClockOK
  BY LinkInitInv DEF Init, ClockOK
<1>2. LinkInv /\ ClockOK /\ [Next]_vars => LinkInv' /\ ClockOK'
  <2> SUFFICES ASSUME LinkInv, ClockOK, [Next]_vars PROVE LinkInv' /\ ClockOK'
    OBVIOUS
  <2>1. ClockOK' /\ (LinkNext \/ UNCHANGED linkVars)
    BY PartStep
  <2>2. CASE UNCHANGED linkVars
    BY <2>1, <2>2 DEF linkVars, LinkInv
  <2>3. CASE LinkNext
    BY <2>1, <2>3, RecordKnownStep, RecordNewStep DEF LinkNext, Record
  <2>4. QED
    BY <2>1, <2>2, <2>3
<1>3. LinkInv => TierIsEarned
  BY DEF LinkInv, TierIsEarned
<1>4. QED
  BY <1>1, <1>2, <1>3, PTL DEF Spec

(* What another estimate does to the count of good ones. *)
LEMMA StepCounts ==
    ASSUME ClockOK, NEW e \in Entry, NEW kbps \in Nat
    PROVE  /\ Step(e, kbps).used = now
           /\ \/ Step(e, kbps).upgrades = 0 /\ Step(e, kbps).tier >= e.tier
              \/ /\ e.upgrades + 1 >= UpgradeSamples /\ TierFor(Margin(kbps)) < e.tier
                 /\ Step(e, kbps).upgrades = 0
                 /\ Step(e, kbps).tier = TierFor(Margin(kbps))
              \/ /\ e.upgrades + 1 < UpgradeSamples /\ TierFor(Margin(kbps)) < e.tier
                 /\ Step(e, kbps).upgrades = e.upgrades + 1
                 /\ Step(e, kbps).tier = e.tier
<1> DEFINE candidate == TierFor(kbps)
           confident == TierFor(Margin(kbps))
           noted == [e EXCEPT !.kbps = kbps, !.used = now]
           Better(t) == [noted EXCEPT !.tier = t, !.upgrades = 0]
<1>1. Margin(kbps) \in Nat
  BY DEF Margin
<1>2. candidate \in Tiers /\ confident \in Tiers
  BY <1>1, Ladder
<1>3. /\ noted \in Entry /\ noted.used = now
      /\ noted.tier = e.tier /\ noted.upgrades = e.upgrades
  BY DEF Entry, ClockOK
<1>4. e.tier \in Tiers /\ e.upgrades \in Nat /\ UpgradeSamples \in Nat
  BY LinkAssumption DEF Entry
<1> HIDE DEF candidate, confident, noted
<1>5. Step(e, kbps) =
        CASE candidate >= e.tier -> Better(candidate)
          [] candidate < e.tier /\ confident < e.tier /\ e.upgrades + 1 >= UpgradeSamples ->
                Better(confident)
          [] candidate < e.tier /\ confident < e.tier /\ e.upgrades + 1 < UpgradeSamples ->
                [noted EXCEPT !.upgrades = @ + 1]
          [] OTHER -> [noted EXCEPT !.upgrades = 0]
  BY Zenon DEF Step, candidate, confident, noted
<1>6. ASSUME NEW t
      PROVE  Better(t).used = now /\ Better(t).upgrades = 0 /\ Better(t).tier = t
  <2> DEFINE moved == [noted EXCEPT !.tier = t]
             entry == [moved EXCEPT !.upgrades = 0]
  <2>1. Better(t) = entry
    OBVIOUS
  <2>2. moved \in [peer : Clients, kbps : Nat, tier : {t}, upgrades : Nat, used : Nat]
        /\ moved.used = now /\ moved.tier = t
    BY <1>3 DEF Entry
  <2> HIDE DEF moved, Better
  <2>3. entry.used = now /\ entry.upgrades = 0 /\ entry.tier = t
    BY <2>2
  <2> HIDE DEF entry
  <2>4. QED
    BY <2>1, <2>3
<1>7. CASE candidate >= e.tier
  <2>1. Step(e, kbps) = Better(candidate)
    BY <1>2, <1>4, <1>5, <1>7 DEF Tiers
  <2> HIDE DEF Better
  <2>2. QED
    BY <1>6, <1>7, <2>1
<1>8. CASE candidate < e.tier /\ confident < e.tier /\ e.upgrades + 1 >= UpgradeSamples
  <2>1. Step(e, kbps) = Better(confident)
    BY <1>2, <1>4, <1>5, <1>8 DEF Tiers
  <2> HIDE DEF Better
  <2>2. Step(e, kbps).used = now /\ Step(e, kbps).upgrades = 0 /\ Step(e, kbps).tier = confident
    BY <1>6, <2>1
  <2>3. QED
    BY <1>8, <2>2 DEF confident
<1>9. CASE candidate < e.tier /\ confident < e.tier /\ e.upgrades + 1 < UpgradeSamples
  <2>1. Step(e, kbps) = [noted EXCEPT !.upgrades = @ + 1]
    BY <1>2, <1>4, <1>5, <1>9 DEF Tiers
  <2>2. /\ Step(e, kbps).used = now
        /\ Step(e, kbps).upgrades = e.upgrades + 1 /\ Step(e, kbps).tier = e.tier
    BY <1>3, <2>1 DEF Entry
  <2>3. QED
    BY <1>9, <2>2 DEF confident
<1>10. CASE candidate < e.tier /\ ~(confident < e.tier)
  <2>1. Step(e, kbps) = [noted EXCEPT !.upgrades = 0]
    BY <1>2, <1>4, <1>5, <1>10 DEF Tiers
  <2>2. /\ Step(e, kbps).used = now
        /\ Step(e, kbps).upgrades = 0 /\ Step(e, kbps).tier = e.tier
    BY <1>3, <2>1 DEF Entry
  <2>3. QED
    BY <1>4, <2>2 DEF Tiers
<1>11. QED
  BY <1>2, <1>4, <1>7, <1>8, <1>9, <1>10 DEF Tiers

(* The newest of a streak is the one that was added, and those before it stay
   in their places, counted from the end. *)
LEMMA LatelyEnds ==
    ASSUME NEW s \in Seq(Nat), Len(s) \in 1 .. UpgradeSamples, NEW x \in Nat
    PROVE  LET longer == Lately(s, x) IN
            /\ longer \in Seq(Nat)
            /\ Len(longer) = IF Len(s) < UpgradeSamples THEN Len(s) + 1 ELSE UpgradeSamples
            /\ longer[Len(longer)] = x
            /\ \A i \in 1 .. Len(longer) - 1 :
                    /\ Len(s) - (Len(longer) - 1 - i) \in 1 .. Len(s)
                    /\ longer[i] = s[Len(s) - (Len(longer) - 1 - i)]
<1> DEFINE all == Append(s, x)
           longer == Lately(s, x)
<1>1. /\ all \in Seq(Nat) /\ Len(all) = Len(s) + 1
      /\ all[Len(s) + 1] = x /\ \A i \in 1 .. Len(s) : all[i] = s[i]
  OBVIOUS
<1>2. UpgradeSamples \in Nat \ {0} /\ Len(s) \in Nat
  BY LinkAssumption
<1>3. \A i \in 1 .. Len(all) : all[i] \in Nat
  BY <1>1
<1> HIDE DEF all
<1>4. CASE Len(s) < UpgradeSamples
  <2>1. longer = SubSeq(all, 1, Len(all))
    BY <1>1, <1>2, <1>4 DEF Lately, all
  <2>2. longer = all
    BY <1>1, <2>1, SubSeqFull
  <2> HIDE DEF longer
  <2>3. /\ Len(all) - 1 = Len(s)
        /\ \A i \in 1 .. Len(s) : Len(s) - (Len(s) - i) = i
    BY <1>1, <1>2
  <2>4. \A i \in 1 .. Len(all) - 1 :
            /\ Len(s) - (Len(all) - 1 - i) \in 1 .. Len(s)
            /\ all[i] = s[Len(s) - (Len(all) - 1 - i)]
    BY <1>1, <2>3
  <2>5. QED
    BY <1>1, <1>2, <1>4, <2>2, <2>4 DEF longer
<1>5. CASE ~(Len(s) < UpgradeSamples)
  <2>1. Len(s) = UpgradeSamples
    BY <1>2, <1>5
  <2>2. longer = SubSeq(all, 2, Len(all))
    BY <1>1, <1>2, <2>1 DEF Lately, all
  <2>3. /\ longer \in Seq(Nat) /\ Len(longer) = UpgradeSamples
        /\ \A i \in 1 .. UpgradeSamples : longer[i] = all[i + 1]
    <3>1. \A i \in 2 .. Len(all) : all[i] \in Nat
      BY <1>1, <1>3
    <3>2. 2 \in Int /\ Len(all) \in Int
      BY <1>1, <1>2
    <3> HIDE DEF longer
    <3>3. /\ longer \in Seq(Nat)
          /\ Len(longer) = IF 2 <= Len(all) THEN Len(all) - 2 + 1 ELSE 0
          /\ \A i \in 1 .. Len(all) - 2 + 1 : longer[i] = all[2 + i - 1]
      BY <2>2, <3>1, <3>2, SubSeqProperties
    <3>4. QED
      BY <1>1, <1>2, <2>1, <3>3
  <2> HIDE DEF longer
  <2>4. QED
    BY <1>1, <1>2, <2>1, <2>3 DEF longer
<1>6. QED
  BY <1>4, <1>5

(* The count of an entry is of the last of its estimates, each of which leaves
   a margin above the next tier. *)
StreakInv ==
    /\ streak = [c \in Clients |-> streak[c]]
    /\ \A e \in clients :
        /\ streak[e.peer] \in Seq(Nat)
        /\ Len(streak[e.peer]) \in 1 .. UpgradeSamples
        /\ e.upgrades < Len(streak[e.peer])
        /\ \A i \in 1 .. Len(streak[e.peer]) :
            i > Len(streak[e.peer]) - e.upgrades => TierFor(Margin(streak[e.peer][i])) < e.tier

(* What a client that is known is served is what its one entry says. *)
LEMMA ServedIsKept ==
    ASSUME LinkInv, NEW e \in clients, Known(e)
    PROVE  ServedTier(e.peer) = e.tier
<1>1. (CHOOSE d \in clients : d.peer = e.peer) = e
  BY DEF LinkInv
<1>2. QED
  BY <1>1 DEF ServedTier

LEMMA ServedIsKeptNext ==
    ASSUME LinkInv', NEW e \in clients', (Known(e))'
    PROVE  ServedTier(e.peer)' = e.tier
<1>1. (CHOOSE d \in clients' : d.peer = e.peer) = e
  BY DEF LinkInv
<1>2. QED
  BY <1>1 DEF ServedTier

(* Another estimate of a client that is known. *)
LEMMA KnownStreak ==
    ASSUME LinkInv, LinkInv', StreakInv, ClockOK, now' = now,
           NEW c \in Clients, NEW sample \in Samples, RecordKnown(c, sample)
    PROVE  StreakInv' /\ UpgradesAreEarned
<1>1. PICK e \in clients :
        /\ e.peer = c /\ Known(e)
        /\ clients' = (clients \ {e}) \cup {Step(e, Blend(e.kbps, sample))}
        /\ streak' = [streak EXCEPT ![c] = Lately(@, Blend(e.kbps, sample))]
  BY DEF RecordKnown
<1> DEFINE kbps == Blend(e.kbps, sample)
           f == Step(e, kbps)
           old == streak[c]
           new == Lately(old, kbps)
<1>2. e \in Entry /\ e.kbps \in Nat /\ e.upgrades \in Nat /\ e.tier \in Nat /\ sample \in Nat
  BY LinkAssumption DEF LinkInv, Entry, Tiers
<1>3. kbps \in Nat
  BY <1>2 DEF Blend
<1>4. f \in Entry /\ f.peer = c
  BY <1>1, <1>2, <1>3, StepEarns
<1>5. /\ old \in Seq(Nat) /\ Len(old) \in 1 .. UpgradeSamples
      /\ e.upgrades < Len(old)
      /\ \A i \in 1 .. Len(old) : i > Len(old) - e.upgrades => TierFor(Margin(old[i])) < e.tier
  BY <1>1 DEF StreakInv
<1>6. /\ new \in Seq(Nat)
      /\ Len(new) = IF Len(old) < UpgradeSamples THEN Len(old) + 1 ELSE UpgradeSamples
      /\ new[Len(new)] = kbps
      /\ \A i \in 1 .. Len(new) - 1 :
            /\ Len(old) - (Len(new) - 1 - i) \in 1 .. Len(old)
            /\ new[i] = old[Len(old) - (Len(new) - 1 - i)]
  BY <1>3, <1>5, LatelyEnds
<1>7. /\ f.used = now
      /\ \/ f.upgrades = 0 /\ f.tier >= e.tier
         \/ /\ e.upgrades + 1 >= UpgradeSamples /\ TierFor(Margin(kbps)) < e.tier
            /\ f.upgrades = 0
            /\ f.tier = TierFor(Margin(kbps))
         \/ /\ e.upgrades + 1 < UpgradeSamples /\ TierFor(Margin(kbps)) < e.tier
            /\ f.upgrades = e.upgrades + 1
            /\ f.tier = e.tier
  BY <1>2, <1>3, StepCounts
<1>8. clients' = (clients \ {e}) \cup {f} /\ streak' = [streak EXCEPT ![c] = new]
  BY <1>1
<1>9. /\ streak' = [d \in Clients |-> streak'[d]] /\ streak'[c] = new
      /\ \A d \in Clients : d # c => streak'[d] = streak[d]
  BY <1>8 DEF StreakInv
<1>10. UpgradeSamples \in Nat \ {0} /\ Len(old) \in Nat /\ Len(new) \in Nat
  BY <1>5, <1>6, LinkAssumption
<1> HIDE DEF kbps, f, old, new
(* The estimates that count, and the one that was added, all earn it. *)
<1>11. ASSUME TierFor(Margin(kbps)) < e.tier,
              NEW i \in 1 .. Len(new), i > Len(new) - (e.upgrades + 1)
       PROVE  TierFor(Margin(new[i])) < e.tier
  <2>1. CASE i = Len(new)
    BY <1>6, <1>11, <2>1
  <2>2. CASE i # Len(new)
    <3> DEFINE j == Len(old) - (Len(new) - 1 - i)
    <3>1. i \in 1 .. Len(new) - 1
      BY <1>10, <2>2
    <3>2. j \in 1 .. Len(old) /\ new[i] = old[j]
      BY <1>6, <3>1
    <3>3. j > Len(old) - e.upgrades
      BY <1>2, <1>10, <1>11
    <3> HIDE DEF j
    <3>4. QED
      BY <1>5, <3>2, <3>3
  <2>3. QED
    BY <2>1, <2>2
<1>12. /\ new \in Seq(Nat) /\ Len(new) \in 1 .. UpgradeSamples /\ f.upgrades < Len(new)
       /\ \A i \in 1 .. Len(new) : i > Len(new) - f.upgrades => TierFor(Margin(new[i])) < f.tier
  <2>1. Len(new) \in 1 .. UpgradeSamples
    BY <1>5, <1>6, <1>10
  <2>2. f.upgrades < Len(new)
    BY <1>2, <1>5, <1>6, <1>7, <1>10
  <2>3. ASSUME NEW i \in 1 .. Len(new), i > Len(new) - f.upgrades
        PROVE  TierFor(Margin(new[i])) < f.tier
    <3>1. f.upgrades # 0
      BY <1>10, <2>3
    <3>2. QED
      BY <1>7, <1>11, <2>3, <3>1
  <2>4. QED
    BY <1>6, <2>1, <2>2, <2>3
<1>13. \A d \in clients' : d = f \/ (d \in clients /\ d.peer # c /\ d.peer \in Clients)
  BY <1>1, <1>8 DEF LinkInv, Entry
<1>14. StreakInv'
  <2>1. ASSUME NEW d \in clients'
        PROVE  /\ streak'[d.peer] \in Seq(Nat)
               /\ Len(streak'[d.peer]) \in 1 .. UpgradeSamples
               /\ d.upgrades < Len(streak'[d.peer])
               /\ \A i \in 1 .. Len(streak'[d.peer]) :
                    i > Len(streak'[d.peer]) - d.upgrades =>
                        TierFor(Margin(streak'[d.peer][i])) < d.tier
    <3>1. CASE d = f
      BY <1>4, <1>9, <1>12, <3>1
    <3>2. CASE d \in clients /\ d.peer # c /\ d.peer \in Clients
      <4>1. streak'[d.peer] = streak[d.peer]
        BY <1>9, <3>2
      <4>2. QED
        BY <3>2, <4>1 DEF StreakInv
    <3>3. QED
      BY <1>13, <3>1, <3>2
  <2>2. QED
    BY <1>9, <2>1 DEF StreakInv
<1>15. ASSUME NEW d \in Clients, ServedTier(d)' < ServedTier(d), NEW g \in clients', g.peer = d,
              (Known(g))', Len(streak'[d]) > 1
       PROVE  /\ Len(streak'[d]) = UpgradeSamples
              /\ ServedTier(d)' = TierFor(Margin(streak'[d][UpgradeSamples]))
              /\ \A i \in 1 .. UpgradeSamples : TierFor(Margin(streak'[d][i])) < ServedTier(d)
  <2>1. ServedTier(d)' = g.tier
    BY <1>15, ServedIsKeptNext
  <2>2. CASE g = f
    <3>1. d = c /\ ServedTier(d) = e.tier
      BY <1>1, <1>4, <1>15, <2>2, ServedIsKept
    <3>2. /\ e.upgrades + 1 >= UpgradeSamples /\ TierFor(Margin(kbps)) < e.tier
          /\ f.tier = TierFor(Margin(kbps))
      <4>1. f.tier < e.tier /\ f.tier \in Nat
        BY <1>4, <1>15, <2>1, <2>2, <3>1 DEF Entry, Tiers
      <4>2. QED
        BY <1>2, <1>7, <4>1
    <3>3. Len(new) = UpgradeSamples /\ streak'[d] = new
      BY <1>2, <1>5, <1>6, <1>9, <1>10, <3>1, <3>2
    <3>4. \A i \in 1 .. UpgradeSamples : TierFor(Margin(new[i])) < e.tier
      BY <1>2, <1>10, <1>11, <3>2, <3>3
    <3>5. QED
      BY <1>6, <2>1, <2>2, <3>1, <3>2, <3>3, <3>4
  <2>3. CASE g \in clients /\ g.peer # c
    <3>1. Known(g)
      BY <1>15 DEF Known
    <3>2. ServedTier(d) = g.tier /\ g.tier \in Nat
      BY <1>15, <2>3, <3>1, ServedIsKept DEF LinkInv, Entry, Tiers
    <3>3. QED
      BY <1>15, <2>1, <3>2
  <2>4. QED
    BY <1>13, <2>2, <2>3
<1>16. UpgradesAreEarned
  BY <1>15 DEF UpgradesAreEarned
<1>17. QED
  BY <1>14, <1>16

(* A client that was not known starts anew, and whoever stays is as it was. *)
LEMMA NewStreak ==
    ASSUME LinkInv, LinkInv', StreakInv, ClockOK, now' = now,
           NEW c \in Clients, NEW sample \in Samples, RecordNew(c, sample)
    PROVE  StreakInv' /\ UpgradesAreEarned
<1> DEFINE first == FirstEntry(c, sample)
           all == {e \in clients : e.peer # c} \cup {first}
<1>1. clients' \in Bounded(all)
  BY DEF RecordNew
<1>2. streak' = [d \in Clients |->
                    IF d = c THEN <<sample>>
                    ELSE IF \E e \in clients' : e.peer = d THEN streak[d] ELSE <<>>]
  BY DEF RecordNew
<1>3. first.peer = c /\ first.upgrades = 0
  BY DEF FirstEntry
<1> HIDE DEF first
<1>4. clients' \subseteq all
  BY <1>1 DEF Bounded, CutTo, MostRecent
<1>5. \A d \in clients' : d = first \/ (d \in clients /\ d.peer # c /\ d.peer \in Clients)
  BY <1>4 DEF LinkInv, Entry
<1>6. \A d \in clients' : d # first => streak'[d.peer] = streak[d.peer]
  BY <1>2, <1>5
<1> DEFINE one == <<sample>>
<1>7. streak'[c] = one /\ one \in Seq(Nat) /\ Len(one) = 1 /\ UpgradeSamples \in Nat \ {0}
  <2>1. sample \in Nat
    BY LinkAssumption
  <2>2. one \in Seq(Nat) /\ Len(one) = 1
    BY <2>1
  <2>3. streak'[c] = one
    BY <1>2
  <2>4. QED
    BY <2>2, <2>3, LinkAssumption
<1> HIDE DEF one
<1>8. StreakInv'
  <2>1. ASSUME NEW d \in clients'
        PROVE  /\ streak'[d.peer] \in Seq(Nat)
               /\ Len(streak'[d.peer]) \in 1 .. UpgradeSamples
               /\ d.upgrades < Len(streak'[d.peer])
               /\ \A i \in 1 .. Len(streak'[d.peer]) :
                    i > Len(streak'[d.peer]) - d.upgrades =>
                        TierFor(Margin(streak'[d.peer][i])) < d.tier
    <3>1. CASE d = first
      <4>1. streak'[d.peer] = one /\ d.upgrades = 0
        BY <1>3, <1>7, <3>1
      <4>2. /\ one \in Seq(Nat) /\ Len(one) \in 1 .. UpgradeSamples /\ 0 < Len(one)
            /\ \A i \in 1 .. Len(one) : ~(i > Len(one) - 0)
        BY <1>7
      <4>3. QED
        BY <4>1, <4>2, Zenon
    <3>2. CASE d # first
      BY <1>5, <1>6, <3>2 DEF StreakInv
    <3>3. QED
      BY <3>1, <3>2
  <2>2. streak' = [d \in Clients |-> streak'[d]]
    BY <1>2
  <2>3. QED
    BY <2>1, <2>2 DEF StreakInv
<1>9. ASSUME NEW d \in Clients, ServedTier(d)' < ServedTier(d), NEW g \in clients', g.peer = d,
              (Known(g))', Len(streak'[d]) > 1
      PROVE  FALSE
  <2>1. g # first
    <3>1. g = first => streak'[d] = one
      BY <1>3, <1>7, <1>9, Zenon
    <3>2. ~(Len(one) > 1)
      BY <1>7
    <3>3. QED
      BY <1>9, <3>1, <3>2, Zenon
  <2>2. g \in clients /\ g.peer # c
    BY <1>5, <1>9, <2>1
  <2>3. Known(g)
    BY <1>9 DEF Known
  <2>4. ServedTier(d)' = g.tier /\ ServedTier(d) = g.tier /\ g.tier \in Nat
    BY <1>9, <2>2, <2>3, ServedIsKept, ServedIsKeptNext DEF LinkInv, Entry, Tiers
  <2>5. QED
    BY <1>9, <2>4
<1>10. UpgradesAreEarned
  BY <1>9, Zenon DEF UpgradesAreEarned
<1>11. QED
  BY <1>8, <1>10

(* Nobody is measured: what a client is served changes only when what was
   known of it is no longer. *)
LEMMA UnmeasuredStreak ==
    ASSUME LinkInv, LinkInv', StreakInv, ClockOK, ClockOK', now' >= now, UNCHANGED linkVars
    PROVE  StreakInv' /\ UpgradesAreEarned
<1>1. StreakInv'
  BY DEF linkVars, StreakInv
<1>2. ASSUME NEW d \in Clients, ServedTier(d)' < ServedTier(d), NEW g \in clients', g.peer = d,
             (Known(g))'
      PROVE  FALSE
  <2>1. g \in clients /\ g \in Entry
    BY DEF linkVars, LinkInv
  <2>2. Known(g)
    BY <1>2, <2>1, LinkAssumption DEF Known, ClockOK, Entry
  <2>3. ServedTier(d)' = g.tier /\ ServedTier(d) = g.tier /\ g.tier \in Nat
    BY <1>2, <2>1, <2>2, ServedIsKept, ServedIsKeptNext DEF Entry, Tiers
  <2>4. QED
    BY <1>2, <2>3
<1>3. QED
  BY <1>1, <1>2, Zenon DEF UpgradesAreEarned

(* link.rs, record_at(): a client is served better than before when the last
   UPGRADE_SAMPLES of its estimates each leave the margin, and is served what
   the newest of them leaves; for every ladder and every number of samples. *)
THEOREM Upgraded == Spec => NoFlapping
<1> DEFINE Inv == LinkInv /\ StreakInv /\ ClockOK
<1>1. Init => Inv
  BY LinkInitInv DEF Init, ClockOK, LinkInit, StreakInv
<1>2. Inv /\ [Next]_vars => Inv' /\ [UpgradesAreEarned]_vars
  <2> SUFFICES ASSUME Inv, [Next]_vars PROVE Inv' /\ UpgradesAreEarned
    OBVIOUS
  <2>1. ClockOK' /\ now' >= now /\ ((LinkNext /\ now' = now) \/ UNCHANGED linkVars)
    BY PartStep
  <2>2. CASE UNCHANGED linkVars
    <3>1. LinkInv'
      BY <2>2 DEF linkVars, LinkInv
    <3>2. QED
      BY <2>1, <2>2, <3>1, UnmeasuredStreak
  <2>3. CASE LinkNext /\ now' = now
    <3>1. PICK c \in Clients, k \in Samples : RecordKnown(c, k) \/ RecordNew(c, k)
      BY <2>3 DEF LinkNext, Record
    <3>2. LinkInv'
      BY <3>1, RecordKnownStep, RecordNewStep
    <3>3. QED
      BY <2>1, <2>3, <3>1, <3>2, KnownStreak, NewStreak
  <2>4. QED
    BY <2>1, <2>2, <2>3
<1>3. QED
  BY <1>1, <1>2, PTL DEF Spec, NoFlapping
-----------------------------------------------------------------------------
(* The bypasses. *)

TaskStates ==
    [pc : {"idle"}] \cup [pc : {"unverified", "validating", "spending"}, host : Hosts]

(* A token that is offered or was spent is of the host its page was for, and
   what was spent is offered no more. *)
BypassInv ==
    /\ madeFor \in Seq(Hosts)
    /\ task \in [Tasks -> TaskStates]
    /\ \A e \in offered : e.token # 0 =>
            e.token \in DOMAIN madeFor /\ madeFor[e.token] = e.host
    /\ \A s \in spent : s.token \in DOMAIN madeFor /\ madeFor[s.token] = s.host
    /\ \A e \in offered, s \in spent : e.token # 0 => e.token # s.token
    /\ ~again

LEMMA BypassInitInv == BypassInit => BypassInv
  BY DEF BypassInit, BypassInv, TaskStates

(* Tokens are only taken out of the offers, and a task goes on. *)
LEMMA FewerOffers ==
    ASSUME BypassInv, offered' \subseteq offered,
           UNCHANGED <<madeFor, spent, again>>, task' \in [Tasks -> TaskStates]
    PROVE  BypassInv'
  BY DEF BypassInv

LEMMA OfferStep ==
    ASSUME BypassInv, NEW t \in Tasks, Offer(t)
    PROVE  BypassInv'
<1> DEFINE host == task[t].host
<1>1. task[t].pc = "validating" /\ TaskGoes(t, [pc |-> "idle"])
  BY DEF Offer, OfferToken
<1>2. host \in Hosts
  BY <1>1 DEF BypassInv, TaskStates
<1>3. task' \in [Tasks -> TaskStates]
  BY <1>1 DEF TaskGoes, BypassInv, TaskStates
<1>4. UNCHANGED <<spent, again>>
  BY DEF Offer, OfferToken
<1>5. CASE OfferToken(t, 0) /\ UNCHANGED madeFor
  <2>1. \A e \in offered' : e \in offered \/ e.token = 0
    BY <1>5 DEF OfferToken, Live
  <2>2. QED
    BY <1>3, <1>4, <1>5, <2>1 DEF BypassInv
<1>6. CASE OfferToken(t, Len(madeFor) + 1) /\ madeFor' = Append(madeFor, host)
  <2> DEFINE n == Len(madeFor) + 1
  <2>1. \A e \in offered' : e \in offered \/ (e.token = n /\ e.host = host)
    BY <1>6 DEF OfferToken, Live
  <2>2. /\ madeFor' \in Seq(Hosts) /\ n \in DOMAIN madeFor' /\ madeFor'[n] = host
        /\ n \notin DOMAIN madeFor
        /\ \A i \in DOMAIN madeFor : i \in DOMAIN madeFor' /\ madeFor'[i] = madeFor[i]
    BY <1>2, <1>6 DEF BypassInv
  <2> HIDE DEF n, host
  <2>3. \A e \in offered' : e.token # 0 =>
            e.token \in DOMAIN madeFor' /\ madeFor'[e.token] = e.host
    BY <2>1, <2>2 DEF BypassInv
  <2>4. \A s \in spent' : s.token \in DOMAIN madeFor' /\ madeFor'[s.token] = s.host
    BY <1>4, <2>2 DEF BypassInv
  <2>5. \A e \in offered', s \in spent' : e.token # 0 => e.token # s.token
    BY <1>4, <2>1, <2>2 DEF BypassInv
  <2>6. QED
    BY <1>3, <1>4, <2>2, <2>3, <2>4, <2>5 DEF BypassInv
<1>7. QED
  BY <1>5, <1>6 DEF Offer

(* What is spent was offered, so it had not been spent; and the offers of its
   host, which are all it can be among, are gone. *)
LEMMA RedeemStep ==
    ASSUME BypassInv, NEW t \in Tasks, NEW host \in Hosts, NEW token, Redeem(t, host, token)
    PROVE  BypassInv'
<1>1. /\ token # 0
      /\ offered' \subseteq {e \in offered : e.host # host}
      /\ spent' = spent \cup {[host |-> host, token |-> token]}
      /\ again' = (again \/ \E s \in spent : s.token = token)
      /\ UNCHANGED madeFor
  BY DEF Redeem, Matches, Spend, Live
<1>2. PICK e \in offered : e.host = host /\ e.token = token
  BY DEF Redeem, Matches, Live
<1>3. token \in DOMAIN madeFor /\ madeFor[token] = host
  BY <1>1, <1>2 DEF BypassInv
<1>4. task' \in [Tasks -> TaskStates]
  BY DEF Redeem, Spend, TaskGoes, BypassInv, TaskStates
<1>5. ~again'
  BY <1>1, <1>2 DEF BypassInv
<1>6. \A s \in spent' : s.token \in DOMAIN madeFor' /\ madeFor'[s.token] = s.host
  BY <1>1, <1>3 DEF BypassInv
<1>7. \A d \in offered', s \in spent' : d.token # 0 => d.token # s.token
  <2> SUFFICES ASSUME NEW d \in offered', NEW s \in spent', d.token # 0, d.token = s.token
               PROVE  FALSE
    OBVIOUS
  <2>1. d \in offered /\ d.host # host /\ madeFor[d.token] = d.host
    BY <1>1 DEF BypassInv
  <2>2. CASE s \in spent
    BY <2>1, <2>2 DEF BypassInv
  <2>3. CASE s = [host |-> host, token |-> token]
    BY <1>3, <2>1, <2>3
  <2>4. QED
    BY <1>1, <2>2, <2>3
<1>8. \A d \in offered' : d.token # 0 =>
            d.token \in DOMAIN madeFor' /\ madeFor'[d.token] = d.host
  BY <1>1 DEF BypassInv
<1>9. madeFor' \in Seq(Hosts)
  BY <1>1 DEF BypassInv
<1>10. QED
  BY <1>4, <1>5, <1>6, <1>7, <1>8, <1>9 DEF BypassInv

LEMMA BypassStep ==
    ASSUME BypassInv, BypassNext
    PROVE  BypassInv'
<1> PICK t \in Tasks :
        \/ \E h \in Hosts : AskAllowed(t, h)
        \/ Fetched(t) \/ Offer(t) \/ Allow(t)
        \/ \E h \in Hosts, k \in 0 .. Len(madeFor) : Redeem(t, h, k) \/ RedeemRefused(t, h, k)
  BY DEF BypassNext
<1>1. ASSUME NEW h \in Hosts, AskAllowed(t, h) PROVE BypassInv'
  <2>1. task' \in [Tasks -> TaskStates]
    BY <1>1 DEF AskAllowed, TaskGoes, BypassInv, TaskStates
  <2>2. QED
    BY <1>1, <2>1, FewerOffers DEF AskAllowed
<1>2. CASE Fetched(t) \/ Allow(t)
  <2>1. task' \in [Tasks -> TaskStates]
    BY <1>2 DEF Fetched, Allow, TaskGoes, BypassInv, TaskStates
  <2>2. QED
    BY <1>2, <2>1, FewerOffers DEF Fetched, Allow
<1>3. CASE Offer(t)
  BY <1>3, OfferStep
<1>4. ASSUME NEW h \in Hosts, NEW k, Redeem(t, h, k) PROVE BypassInv'
  BY <1>4, RedeemStep
<1>5. ASSUME NEW h \in Hosts, NEW k, RedeemRefused(t, h, k) PROVE BypassInv'
  <2>1. offered' \subseteq offered /\ UNCHANGED <<task, madeFor, spent, again>>
    BY <1>5 DEF RedeemRefused, Live
  <2>2. QED
    BY <2>1, FewerOffers DEF BypassInv
<1>6. QED
  BY <1>1, <1>2, <1>3, <1>4, <1>5

(* insecure.rs, redeem(): "The token is the whole of the check", so it opens
   the host it was made for, and once. *)
THEOREM Tokens == Spec => []TokensAreSpentOnce
<1>1. Init => BypassInv /\ ClockOK
  BY BypassInitInv DEF Init, ClockOK
<1>2. BypassInv /\ ClockOK /\ [Next]_vars => BypassInv' /\ ClockOK'
  <2> SUFFICES ASSUME BypassInv, ClockOK, [Next]_vars PROVE BypassInv' /\ ClockOK'
    OBVIOUS
  <2>1. ClockOK' /\ (BypassNext \/ UNCHANGED bypassVars)
    BY PartStep
  <2>2. CASE UNCHANGED bypassVars
    BY <2>1, <2>2 DEF bypassVars, BypassInv
  <2>3. QED
    BY <2>1, <2>2, BypassStep
<1>3. BypassInv => TokensAreSpentOnce
  BY DEF BypassInv, TokensAreSpentOnce
<1>4. QED
  BY <1>1, <1>2, <1>3, PTL DEF Spec
(* A host that is waved through was granted that, for as long as it is; and
   what was granted and is not over has its host waved through as long. *)
GrantInv ==
    /\ \A g \in granted : g.at \in Nat /\ g.at <= now
    /\ \A e \in hosts : \E g \in granted :
            g.host = e.host /\ e.expiry = g.at + BypassTtl
    /\ \A g \in granted : now < g.at + BypassTtl =>
            \E e \in hosts : e.host = g.host /\ e.expiry >= g.at + BypassTtl

LEMMA AllowGrants ==
    ASSUME GrantInv, ClockOK, now' = now, NEW t \in Tasks, Allow(t)
    PROVE  GrantInv'
<1> DEFINE host == task[t].host
           entry == [host |-> host, expiry |-> now + BypassTtl]
           grant == [host |-> host, at |-> now]
<1>1. /\ hosts' = {e \in hosts : e.host # host} \cup {entry}
      /\ granted' = granted \cup {grant}
  BY DEF Allow
<1>2. BypassTtl \in Nat /\ now \in Nat
  BY BypassAssumption DEF ClockOK
<1>3. entry.host = host /\ entry.expiry = now + BypassTtl /\ grant.host = host /\ grant.at = now
  OBVIOUS
<1> HIDE DEF host, entry, grant
<1>4. \A g \in granted' : g.at \in Nat /\ g.at <= now'
  BY <1>1, <1>2, <1>3 DEF GrantInv
<1>5. \A e \in hosts' : \E g \in granted' : g.host = e.host /\ e.expiry = g.at + BypassTtl
  BY <1>1, <1>3 DEF GrantInv
<1>6. ASSUME NEW g \in granted', now' < g.at + BypassTtl
      PROVE  \E e \in hosts' : e.host = g.host /\ e.expiry >= g.at + BypassTtl
  <2>1. CASE g.host = host
    BY <1>1, <1>2, <1>3, <1>4, <2>1
  <2>2. CASE g.host # host
    BY <1>1, <1>3, <1>6, <2>2 DEF GrantInv
  <2>3. QED
    BY <2>1, <2>2
<1>7. QED
  BY <1>4, <1>5, <1>6 DEF GrantInv

LEMMA GrantStep ==
    ASSUME GrantInv, ClockOK, [Next]_vars
    PROVE  GrantInv'
<1>1. (BypassNext /\ now' = now) \/ UNCHANGED bypassVars
  BY PartStep
<1>2. now \in Nat /\ now' \in Nat /\ now' >= now /\ BypassTtl \in Nat
  BY PartStep, BypassAssumption DEF ClockOK
<1>3. CASE UNCHANGED <<hosts, granted>>
  BY <1>2, <1>3 DEF GrantInv
<1>4. ASSUME now' = now, NEW t \in Tasks, NEW h \in Hosts, AskAllowed(t, h) PROVE GrantInv'
  <2>1. hosts' = {e \in hosts : e.expiry > now} /\ granted' = granted
    BY <1>4 DEF AskAllowed, Live
  <2>2. \A g \in granted' : now' < g.at + BypassTtl =>
            \E e \in hosts' : e.host = g.host /\ e.expiry >= g.at + BypassTtl
    <3> SUFFICES ASSUME NEW g \in granted, now < g.at + BypassTtl
                 PROVE  \E e \in hosts' : e.host = g.host /\ e.expiry >= g.at + BypassTtl
      BY <1>4, <2>1
    <3>1. PICK e \in hosts : e.host = g.host /\ e.expiry >= g.at + BypassTtl
      BY DEF GrantInv
    <3>2. PICK f \in granted : e.expiry = f.at + BypassTtl /\ f.at \in Nat
      BY DEF GrantInv
    <3>3. e.expiry > now
      BY <1>2, <3>1, <3>2 DEF GrantInv
    <3>4. QED
      BY <2>1, <3>1, <3>3
  <2>3. QED
    BY <1>4, <2>1, <2>2 DEF GrantInv
<1>5. ASSUME now' = now, NEW t \in Tasks, Allow(t) PROVE GrantInv'
  BY <1>5, AllowGrants
<1>6. QED
  BY <1>1, <1>3, <1>4, <1>5 DEF BypassNext, bypassVars, Fetched, Offer, OfferToken, Redeem, Spend, RedeemRefused

(* insecure.rs, allows() and allow(): a host is waved through from when its
   token was answered until the time of a bypass is over, and at no other. *)
THEOREM Bypassed == Spec => []WavedThroughAsGranted
<1>1. Init => GrantInv /\ ClockOK
  BY DEF Init, BypassInit, GrantInv, ClockOK
<1>2. GrantInv /\ ClockOK /\ [Next]_vars => GrantInv' /\ ClockOK'
  BY GrantStep, PartStep
<1>3. GrantInv /\ ClockOK => WavedThroughAsGranted
  <2> SUFFICES ASSUME GrantInv, ClockOK, NEW h \in Hosts
               PROVE  (\E e \in Live(hosts) : e.host = h)
                        <=> \E g \in granted : g.host = h /\ now < g.at + BypassTtl
    BY DEF WavedThroughAsGranted
  <2>1. \A e \in Live(hosts) : \E g \in granted : g.host = e.host /\ now < g.at + BypassTtl
    BY BypassAssumption DEF GrantInv, Live, ClockOK
  <2>2. ASSUME NEW g \in granted, now < g.at + BypassTtl
        PROVE  \E e \in Live(hosts) : e.host = g.host
    <3>1. PICK e \in hosts : e.host = g.host /\ e.expiry >= g.at + BypassTtl
      BY <2>2 DEF GrantInv
    <3>2. PICK f \in granted : e.expiry = f.at + BypassTtl /\ f.at \in Nat
      BY DEF GrantInv
    <3>3. e.expiry > now
      BY <2>2, <3>1, <3>2, BypassAssumption DEF GrantInv, ClockOK
    <3>4. QED
      BY <3>1, <3>3 DEF Live
  <2>3. QED
    BY <2>1, <2>2
<1>4. QED
  BY <1>1, <1>2, <1>3, PTL DEF Spec

-----------------------------------------------------------------------------
(* The connections. *)

(* A Retry says who it was sent to and when; a token that is sent back is that
   of a Retry; and a connection came of one in the time it was good for. *)
ConnectionInv ==
    /\ \A r \in retries :
        /\ r.at \in Nat /\ r.at <= now
        /\ r.token.signed = r.to /\ r.token.until = r.at + TokenTtl
    /\ \A i \in initials : i.token # NoToken => \E r \in retries : r.token = i.token
    /\ ConnectionsAreVouchedFor

LEMMA AcceptStep ==
    ASSUME ConnectionInv, ClockOK, now' = now, NEW i \in initials, AcceptConnection(i)
    PROVE  ConnectionInv'
<1> DEFINE new == [key |-> i.dcid, odcid |-> i.token.odcid, peer |-> i.from, since |-> now]
<1>1. /\ connections' = connections \cup {new}
      /\ UNCHANGED <<epoch, initials, retries>>
      /\ i.token # NoToken /\ Valid(i.token, i.from) /\ ~HasConnection(i.dcid)
  BY DEF AcceptConnection
<1>2. PICK r \in retries : r.token = i.token
  BY <1>1 DEF ConnectionInv
<1>3. new.key = i.dcid /\ new.odcid = i.token.odcid /\ new.peer = i.from /\ new.since = now
  OBVIOUS
<1> HIDE DEF new
<1>4. /\ r.to = new.peer
      /\ r.token.odcid = new.odcid
      /\ r.token.by = epoch
      /\ r.at <= new.since /\ new.since <= r.at + TokenTtl
  BY <1>1, <1>2, <1>3 DEF ConnectionInv, Valid
<1>5. \A c \in connections : c.key # new.key
  BY <1>1, <1>3 DEF HasConnection
<1>6. \A c \in connections : c.odcid = new.odcid => ~(AsGiven(c) /\ AsGiven(new))
  BY <1>5 DEF AsGiven
<1>7. ConnectionsAreVouchedFor'
  <2>1. \A c \in connections' : \E s \in retries' :
            /\ s.to = c.peer
            /\ s.token.odcid = c.odcid
            /\ s.token.by = epoch'
            /\ s.at <= c.since /\ c.since <= s.at + TokenTtl
    BY <1>1, <1>4 DEF ConnectionInv, ConnectionsAreVouchedFor
  <2>2. \A c, d \in connections' : c.odcid = d.odcid /\ AsGiven(c) /\ AsGiven(d) => c = d
    BY <1>1, <1>6 DEF ConnectionInv, ConnectionsAreVouchedFor
  <2>3. QED
    BY <2>1, <2>2 DEF ConnectionsAreVouchedFor
<1>8. QED
  BY <1>1, <1>7 DEF ConnectionInv

LEMMA ConnectionStep ==
    ASSUME ConnectionInv, ClockOK, [Next]_vars
    PROVE  ConnectionInv'
<1>1. (ConnectionNext /\ now' = now) \/ UNCHANGED connectionVars
  BY PartStep
<1>2. now \in Nat /\ now' \in Nat /\ now' >= now /\ TokenTtl \in Nat
  BY PartStep, ConnectionsAssumption DEF ClockOK
<1>3. CASE UNCHANGED connectionVars
  BY <1>2, <1>3 DEF connectionVars, ConnectionInv, ConnectionsAreVouchedFor
<1>4. ASSUME now' = now, NEW a \in Addresses, NEW d \in Firsts, Begins(a, d) PROVE ConnectionInv'
  BY <1>4 DEF Begins, ConnectionInv, ConnectionsAreVouchedFor
<1>5. ASSUME now' = now, NEW r \in retries, NEW a \in Addresses, ComesAgain(r, a) PROVE ConnectionInv'
  BY <1>5 DEF ComesAgain, ConnectionInv, ConnectionsAreVouchedFor
<1>6. ASSUME now' = now, NEW i \in initials, SendRetry(i) PROVE ConnectionInv'
  <2> DEFINE new == [to |-> i.from, token |-> Token(i.dcid, i.from), at |-> now]
  <2>1. retries' = retries \cup {new} /\ UNCHANGED <<epoch, initials, connections>>
    BY <1>6 DEF SendRetry
  <2>2. new.at = now /\ new.token.signed = new.to /\ new.token.until = new.at + TokenTtl
    BY DEF Token
  <2> HIDE DEF new
  <2>3. \A r \in retries' :
            /\ r.at \in Nat /\ r.at <= now'
            /\ r.token.signed = r.to /\ r.token.until = r.at + TokenTtl
    BY <1>2, <1>6, <2>1, <2>2 DEF ConnectionInv
  <2>4. QED
    BY <2>1, <2>3 DEF ConnectionInv, ConnectionsAreVouchedFor
<1>7. ASSUME now' = now, NEW i \in initials, AcceptConnection(i) PROVE ConnectionInv'
  BY <1>7, AcceptStep
<1>8. ASSUME now' = now, NEW c \in connections, ConnectionCloses(c) PROVE ConnectionInv'
  BY <1>8 DEF ConnectionCloses, ConnectionInv, ConnectionsAreVouchedFor
<1>9. ASSUME now' = now, ConnectionsRestart PROVE ConnectionInv'
  BY <1>9 DEF ConnectionsRestart, ConnectionInv, ConnectionsAreVouchedFor
<1>10. QED
  BY <1>1, <1>3, <1>4, <1>5, <1>6, <1>7, <1>8, <1>9 DEF ConnectionNext

(* main.rs, recv_packet and validate_token: whatever is lost, repeated or
   delayed, and sent from wherever, each connection is with an address that
   sent back what this process had sent it; and of those that have the id that was
   in the Retry it is the only one about its client's first id. *)
THEOREM Vouched == Spec => []ConnectionsAreVouchedFor
<1>1. Init => ConnectionInv /\ ClockOK
  BY DEF Init, ConnectionInit, ConnectionInv, ConnectionsAreVouchedFor, ClockOK
<1>2. ConnectionInv /\ ClockOK /\ [Next]_vars => ConnectionInv' /\ ClockOK'
  BY ConnectionStep, PartStep
<1>3. ConnectionInv => ConnectionsAreVouchedFor
  BY DEF ConnectionInv
<1>4. QED
  BY <1>1, <1>2, <1>3, PTL DEF Spec

-----------------------------------------------------------------------------
(* The window of a rate. *)

Varies == LargestChunk - SmallestChunk

(* As many bytes as n chunks may have. *)
BytesOf(n, bytes) == n * SmallestChunk <= bytes /\ bytes <= n * LargestChunk

(* The bytes of a queue from each place in it to its end, at `rest'. *)
Rests(q, rest) ==
    /\ rest \in [1 .. Len(q) + 1 -> Nat]
    /\ rest[Len(q) + 1] = 0
    /\ \A i \in 1 .. Len(q) :
        rest[i] = q[i] + rest[i + 1] /\ BytesOf(Len(q) + 1 - i, rest[i])

(* So many bytes wait. *)
Waits(q, bytes) == \E rest : Rests(q, rest) /\ rest[1] = bytes

(* The backlog the window counts from, and the bytes pushed since, with the
   chunk that is in the channel and not yet measured. *)
From == IF window.open THEN window.backlog ELSE relay.backlog

PushedSince == window.pushed + (IF relay.pc = "sent" THEN relay.size ELSE 0)

(* What waits and what was taken is what waited and what was sent since. *)
Accounted ==
    \E bytes, first \in Nat :
        /\ Waits(queue, bytes)
        /\ window.open \/ relay.pc # "reading" =>
            /\ BytesOf(From, first)
            /\ consumed + bytes = first + PushedSince

(* Nothing is lost between the thread and the client; and a client that had
   nothing to take is found out by the next chunk, before the window it idled
   in is measured. *)
DrainInv ==
    /\ queue \in Seq(Nat)
    /\ \/ relay \in [pc : {"reading"}]
       \/ relay \in [pc : {"sending", "sent"}, size : SmallestChunk .. LargestChunk, backlog : Nat]
    /\ {window.chunks, window.backlog, window.pushed, consumed, idle} \subseteq Nat
    /\ window.open \in BOOLEAN
    /\ ~window.open => window.chunks = 0 /\ idle = 0
    /\ BytesOf(window.chunks, window.pushed)
    /\ idle > 0 => IF relay.pc = "reading" THEN queue = <<>> ELSE relay.backlog = 0
    /\ Accounted
    /\ MeasuresTheClient

(* One chunk more is that much more. *)
LEMMA OneMore ==
    ASSUME NEW n \in Nat, NEW bytes \in Nat, BytesOf(n, bytes),
           NEW size \in SmallestChunk .. LargestChunk
    PROVE  BytesOf(n + 1, bytes + size)
<1>1. SmallestChunk \in Nat /\ LargestChunk \in Nat
  BY DrainAssumption
<1>2. (n + 1) * SmallestChunk = n * SmallestChunk + SmallestChunk
  BY <1>1
<1>3. (n + 1) * LargestChunk = n * LargestChunk + LargestChunk
  BY <1>1
<1>4. n * SmallestChunk \in Nat /\ n * LargestChunk \in Nat
  BY <1>1
<1>5. QED
  BY <1>1, <1>2, <1>3, <1>4 DEF BytesOf

LEMMA NoBytes == BytesOf(0, 0)
  BY DrainAssumption DEF BytesOf

(* The queue at rest, with a chunk more, and with its first gone. *)
LEMMA NoneWait == Waits(<<>>, 0)
<1> DEFINE rest == [i \in 1 .. 1 |-> 0]
<1>1. Rests(<<>>, rest) /\ rest[1] = 0
  BY DEF Rests
<1>2. QED
  BY <1>1 DEF Waits

LEMMA WaitingBytes ==
    ASSUME NEW q \in Seq(Nat), NEW bytes, Waits(q, bytes)
    PROVE  bytes \in Nat /\ BytesOf(Len(q), bytes)
<1>1. PICK rest : Rests(q, rest) /\ rest[1] = bytes
  BY DEF Waits
<1>2. Len(q) \in Nat
  OBVIOUS
<1>3. CASE Len(q) = 0
  BY <1>1, <1>3, NoBytes DEF Rests
<1>4. CASE Len(q) # 0
  <2>1. 1 \in 1 .. Len(q) /\ 1 \in 1 .. Len(q) + 1 /\ Len(q) + 1 - 1 = Len(q)
    BY <1>2, <1>4
  <2>2. QED
    BY <1>1, <2>1 DEF Rests
<1>5. QED
  BY <1>3, <1>4

LEMMA OneMoreWaits ==
    ASSUME NEW q \in Seq(Nat), NEW bytes \in Nat, Waits(q, bytes),
           NEW size \in SmallestChunk .. LargestChunk
    PROVE  Waits(Append(q, size), bytes + size)
<1>1. PICK rest : Rests(q, rest) /\ rest[1] = bytes
  BY DEF Waits
<1>2. PICK n \in Nat : n = Len(q)
  OBVIOUS
<1>3. size \in Nat
  BY DrainAssumption
<1>4. /\ rest \in [1 .. n + 1 -> Nat] /\ rest[n + 1] = 0
      /\ \A i \in 1 .. n : rest[i] = q[i] + rest[i + 1] /\ BytesOf(n + 1 - i, rest[i])
  BY <1>1, <1>2 DEF Rests
<1>5. /\ Len(Append(q, size)) = n + 1 /\ Append(q, size)[n + 1] = size
      /\ \A i \in 1 .. n : Append(q, size)[i] = q[i] /\ q[i] \in Nat
  BY <1>2, <1>3
<1> DEFINE more == [i \in 1 .. n + 2 |-> IF i = n + 2 THEN 0 ELSE rest[i] + size]
<1>6. more[n + 2] = 0 /\ \A i \in 1 .. n + 1 : more[i] = rest[i] + size
  OBVIOUS
<1>7. more \in [1 .. n + 2 -> Nat]
  BY <1>3, <1>4
<1> HIDE DEF more
<1>8. ASSUME NEW i \in 1 .. n + 1
      PROVE  more[i] = Append(q, size)[i] + more[i + 1] /\ BytesOf(n + 2 - i, more[i])
  <2>1. CASE i = n + 1
    <3>1. more[i] = size /\ more[i + 1] = 0 /\ Append(q, size)[i] = size /\ n + 2 - i = 1
      BY <1>3, <1>4, <1>5, <1>6, <2>1
    <3>2. BytesOf(0 + 1, 0 + size)
      BY NoBytes, OneMore
    <3>3. QED
      BY <1>3, <3>1, <3>2
  <2>2. CASE i # n + 1
    <3>1. i \in 1 .. n /\ i + 1 \in 1 .. n + 1 /\ n + 1 - i \in Nat /\ n + 2 - i = (n + 1 - i) + 1
      BY <2>2
    <3>2. /\ rest[i] = q[i] + rest[i + 1] /\ BytesOf(n + 1 - i, rest[i])
          /\ rest[i] \in Nat /\ rest[i + 1] \in Nat /\ q[i] \in Nat
      BY <1>4, <1>5, <3>1
    <3>3. BytesOf((n + 1 - i) + 1, rest[i] + size)
      BY <3>1, <3>2, OneMore
    <3>4. more[i] = rest[i] + size /\ more[i + 1] = rest[i + 1] + size
      BY <1>6, <3>1
    <3>5. Append(q, size)[i] = q[i]
      BY <1>5, <3>1
    <3>6. rest[i] + size = q[i] + (rest[i + 1] + size)
      BY <1>3, <3>2
    <3>7. QED
      BY <3>1, <3>3, <3>4, <3>5, <3>6
  <2>3. QED
    BY <2>1, <2>2
<1>9. PICK longer : longer = Append(q, size)
  OBVIOUS
<1>10. Rests(Append(q, size), more)
  <2>1. Len(longer) = n + 1 /\ (n + 1) + 1 = n + 2
    BY <1>5, <1>9
  <2>2. \A i \in 1 .. n + 1 : more[i] = longer[i] + more[i + 1] /\ BytesOf(n + 2 - i, more[i])
    BY <1>8, <1>9
  <2>3. Rests(longer, more)
    BY <1>6, <1>7, <2>1, <2>2 DEF Rests
  <2>4. QED
    BY <1>9, <2>3
<1>11. more[1] = bytes + size
  BY <1>1, <1>6
<1>12. QED
  BY <1>10, <1>11 DEF Waits

LEMMA OneLessWaits ==
    ASSUME NEW q \in Seq(Nat), q # <<>>, NEW bytes \in Nat, Waits(q, bytes)
    PROVE  \E left \in Nat : Waits(Tail(q), left) /\ bytes = Head(q) + left
<1>1. PICK rest : Rests(q, rest) /\ rest[1] = bytes
  BY DEF Waits
<1>2. PICK n \in Nat \ {0} : n = Len(q)
  BY EmptySeq
<1>3. /\ rest \in [1 .. n + 1 -> Nat] /\ rest[n + 1] = 0
      /\ \A i \in 1 .. n : rest[i] = q[i] + rest[i + 1] /\ BytesOf(n + 1 - i, rest[i])
  BY <1>1, <1>2 DEF Rests
<1>4. /\ Len(Tail(q)) = n - 1 /\ Head(q) = q[1]
      /\ \A i \in 1 .. n - 1 : Tail(q)[i] = q[i + 1]
  BY <1>2
<1> DEFINE fewer == [i \in 1 .. n |-> rest[i + 1]]
<1>5. \A i \in 1 .. n : fewer[i] = rest[i + 1] /\ i + 1 \in 1 .. n + 1
  OBVIOUS
<1>6. fewer \in [1 .. n -> Nat]
  BY <1>3, <1>5
<1> HIDE DEF fewer
<1>7. ASSUME NEW i \in 1 .. n - 1
      PROVE  fewer[i] = Tail(q)[i] + fewer[i + 1] /\ BytesOf(n - i, fewer[i])
  <2>1. i \in 1 .. n /\ i + 1 \in 1 .. n /\ n + 1 - (i + 1) = n - i
    OBVIOUS
  <2>2. rest[i + 1] = q[i + 1] + rest[(i + 1) + 1] /\ BytesOf(n - i, rest[i + 1])
    BY <1>3, <2>1
  <2>3. QED
    BY <1>4, <1>5, <2>1, <2>2
<1>8. (n - 1) + 1 = n /\ n \in 1 .. n /\ 1 \in 1 .. n
  OBVIOUS
<1>9. fewer[n] = 0
  BY <1>3, <1>5, <1>8
<1>10. PICK shorter : shorter = Tail(q)
  OBVIOUS
<1>11. Rests(Tail(q), fewer)
  <2>1. Len(shorter) = n - 1 /\ \A i \in 1 .. n - 1 : (n - 1) + 1 - i = n - i
    BY <1>4, <1>10
  <2>2. \A i \in 1 .. n - 1 : fewer[i] = shorter[i] + fewer[i + 1] /\ BytesOf(n - i, fewer[i])
    BY <1>7, <1>10
  <2>3. Rests(shorter, fewer)
    BY <1>6, <1>8, <1>9, <2>1, <2>2 DEF Rests
  <2>4. QED
    BY <1>10, <2>3
<1>12. rest[1] = q[1] + rest[1 + 1] /\ fewer[1] = rest[1 + 1]
  BY <1>3, <1>5, <1>8
<1>13. fewer[1] \in Nat
  BY <1>6, <1>8
<1>14. QED
  BY <1>1, <1>4, <1>11, <1>12, <1>13 DEF Waits

(* The mean of some chunks is the size of one that there may be. *)
LEMMA MeanOfChunks ==
    ASSUME NEW n \in Nat \ {0}, NEW bytes \in Nat, BytesOf(n, bytes)
    PROVE  bytes \div n \in SmallestChunk .. LargestChunk
<1>1. SmallestChunk \in Nat /\ LargestChunk \in Nat
  BY DrainAssumption
<1> DEFINE q == bytes \div n
           m == bytes % n
<1>2. q \in Nat /\ m \in 0 .. n - 1 /\ bytes = n * q + m
  OBVIOUS
<1> HIDE DEF q, m
<1>3. ASSUME q < SmallestChunk PROVE FALSE
  <2>1. n * (q + 1) <= n * SmallestChunk
    BY <1>1, <1>2, <1>3
  <2>2. n * (q + 1) = n * q + n
    BY <1>2
  <2>3. QED
    BY <1>1, <1>2, <2>1, <2>2 DEF BytesOf
<1>4. ASSUME q > LargestChunk PROVE FALSE
  <2>1. n * (LargestChunk + 1) <= n * q
    BY <1>1, <1>2, <1>4
  <2>2. n * (LargestChunk + 1) = n * LargestChunk + n
    BY <1>1
  <2>3. QED
    BY <1>1, <1>2, <2>1, <2>2 DEF BytesOf
<1>5. QED
  BY <1>1, <1>2, <1>3, <1>4 DEF q

(* At the size of any chunk, chunks are converted to bytes with an error that
   is at most what each may differ by. *)
LEMMA Converted ==
    ASSUME NEW n \in Nat, NEW bytes \in Nat, BytesOf(n, bytes),
           NEW size \in SmallestChunk .. LargestChunk
    PROVE  Apart(bytes, n * size) <= n * Varies
<1>1. SmallestChunk \in Nat /\ LargestChunk \in Nat /\ Varies \in Nat
  BY DrainAssumption DEF Varies
<1>2. n * SmallestChunk <= n * size /\ n * size <= n * LargestChunk
  BY <1>1
<1>3. n * Varies = n * LargestChunk - n * SmallestChunk
  BY <1>1 DEF Varies
<1>4. {n * SmallestChunk, n * LargestChunk, n * size} \subseteq Nat
  BY <1>1
<1>5. QED
  BY <1>2, <1>3, <1>4 DEF BytesOf, Apart

(* So is what is reported: of the chunks that waited when the window opened,
   and of those that wait when it is measured. *)
LEMMA DrainedIsTaken ==
    ASSUME NEW w, w.chunks \in Nat \ {0}, w.backlog \in Nat, w.pushed \in Nat,
           BytesOf(w.chunks, w.pushed),
           NEW left \in Nat, NEW last \in Nat, BytesOf(left, last),
           NEW first \in Nat, BytesOf(w.backlog, first),
           NEW took \in Nat, took + last = first + w.pushed
    PROVE  Apart(Drained(w, left), took) <= (w.backlog + left) * Varies
<1> DEFINE size == w.pushed \div w.chunks
           b == w.backlog
           p == w.pushed
           d == Drained(w, left)
<1>1. size \in SmallestChunk .. LargestChunk
  BY MeanOfChunks
<1>2. Varies \in Nat /\ size \in Nat /\ b \in Nat /\ p \in Nat
  BY <1>1, DrainAssumption DEF Varies
<1>3. d = IF p - (left - b) * size < 0 THEN 0 ELSE p - (left - b) * size
  BY DEF Drained
<1>4. Apart(last, left * size) <= left * Varies /\ Apart(first, b * size) <= b * Varies
  BY <1>1, Converted
<1>5. took + last = first + p
  OBVIOUS
<1> HIDE DEF size, b, p, d
<1>6. (left - b) * size = left * size - b * size
  BY <1>2
<1>7. (b + left) * Varies = b * Varies + left * Varies
  BY <1>2
<1>8. {left * size, b * size, left * Varies, b * Varies} \subseteq Nat
  BY <1>2
<1> DEFINE ls == left * size
           bs == b * size
           lv == left * Varies
           bv == b * Varies
<1>9. /\ d = IF p - (ls - bs) < 0 THEN 0 ELSE p - (ls - bs)
      /\ Apart(last, ls) <= lv /\ Apart(first, bs) <= bv
      /\ {ls, bs, lv, bv} \subseteq Nat
  BY <1>3, <1>4, <1>6, <1>8
<1> HIDE DEF ls, bs, lv, bv
<1>10. Apart(d, took) <= bv + lv
  BY <1>2, <1>5, <1>9 DEF Apart
<1>11. QED
  BY <1>7, <1>10 DEF bv, lv, d, b

LEMMA MeasureStep ==
    ASSUME DrainInv, Measure
    PROVE  DrainInv'
<1> DEFINE w == Pushed(relay.size, relay.backlog)
<1>1. /\ relay.size \in SmallestChunk .. LargestChunk /\ relay.size \in Nat
      /\ relay.backlog \in Nat /\ relay.pc = "sent"
  BY DrainAssumption DEF Measure, DrainInv
<1>2. PICK bytes \in Nat, first \in Nat :
        /\ Waits(queue, bytes)
        /\ BytesOf(From, first)
        /\ consumed + bytes = first + PushedSince
  BY <1>1 DEF DrainInv, Accounted
<1>3. Len(queue) \in Nat /\ relay' = [pc |-> "reading"] /\ queue' = queue
  BY DEF DrainInv, Measure
<1>4. Waits(queue', bytes)
  BY <1>2, <1>3
<1>5. CASE relay.backlog = 0
  <2>1. w = NoWindow
    BY <1>5 DEF Pushed
  <2>2. window' = NoWindow /\ idle' = 0 /\ consumed' = 0 /\ UNCHANGED rate
    BY <2>1 DEF Measure, Reportable, NoWindow
  <2>3. Accounted'
    BY <1>2, <1>3, <1>4, <2>2 DEF Accounted, NoWindow
  <2>4. QED
    BY <1>3, <2>2, <2>3, NoBytes DEF DrainInv, NoWindow, MeasuresTheClient
<1>6. CASE relay.backlog # 0
  <2>1. idle = 0
    BY <1>1, <1>6 DEF DrainInv
  <2>2. /\ w.open /\ w.chunks = window.chunks + 1
        /\ w.pushed = window.pushed + relay.size
        /\ w.backlog = IF window.open THEN window.backlog ELSE relay.backlog
    BY <1>6 DEF Pushed
  <2>3. w.chunks \in Nat \ {0} /\ w.backlog \in Nat /\ w.pushed \in Nat
    BY <1>1, <2>2 DEF DrainInv
  <2>4. BytesOf(w.chunks, w.pushed)
    <3>1. window.chunks \in Nat /\ window.pushed \in Nat /\ BytesOf(window.chunks, window.pushed)
      BY DEF DrainInv
    <3>2. QED
      BY <1>1, <2>2, <3>1, OneMore
  <2>5. BytesOf(w.backlog, first) /\ consumed + bytes = first + w.pushed
    BY <1>1, <1>2, <2>2 DEF From, PushedSince
  <2>6. BytesOf(Len(queue), bytes)
    BY <1>2, WaitingBytes DEF DrainInv
  <2>7. CASE Reportable(w, Len(queue))
    <3>1. /\ rate'.idle = idle /\ rate'.drained = Drained(w, Len(queue)) /\ rate'.taken = consumed
          /\ rate'.waited = w.backlog + Len(queue)
          /\ window' = NoWindow /\ idle' = 0 /\ consumed' = 0
      BY <2>7 DEF Measure
    <3>2. MeasuresTheClient'
      <4>1. consumed \in Nat
        BY DEF DrainInv
      <4> HIDE DEF w
      <4>2. Apart(Drained(w, Len(queue)), consumed) <= (w.backlog + Len(queue)) * Varies
        BY <1>3, <2>3, <2>4, <2>5, <2>6, <4>1, DrainedIsTaken
      <4>3. QED
        BY <2>1, <3>1, <4>2 DEF MeasuresTheClient, Varies
    <3>3. Accounted'
      BY <1>2, <1>3, <1>4, <3>1 DEF Accounted, NoWindow
    <3>4. QED
      BY <1>3, <3>1, <3>2, <3>3, NoBytes DEF DrainInv, NoWindow
  <2>8. CASE ~Reportable(w, Len(queue))
    <3>1. window' = w /\ idle' = idle /\ consumed' = consumed /\ rate' = rate
      BY <2>2, <2>8 DEF Measure
    <3>2. From' = w.backlog /\ PushedSince' = w.pushed
      <4>1. relay'.pc = "reading" /\ window'.open /\ window'.backlog = w.backlog
            /\ window'.pushed = w.pushed
        BY <1>3, <2>2, <3>1
      <4>2. QED
        BY <2>3, <4>1 DEF From, PushedSince
    <3>3. Accounted'
      <4>1. BytesOf(From', first) /\ consumed' + bytes = first + PushedSince'
        BY <2>5, <3>1, <3>2
      <4>2. QED
        BY <1>2, <1>4, <4>1 DEF Accounted, BytesOf
    <3>4. /\ {window.chunks, window.backlog, window.pushed, consumed, idle}' \subseteq Nat
          /\ window'.open /\ BytesOf(window.chunks, window.pushed)' /\ idle' = 0
      <4>1. consumed \in Nat
        BY DEF DrainInv
      <4> HIDE DEF w
      <4>2. QED
        BY <2>1, <2>2, <2>3, <2>4, <3>1, <4>1 DEF BytesOf
    <3>5. MeasuresTheClient'
      BY <3>1 DEF DrainInv, MeasuresTheClient
    <3> HIDE DEF w
    <3>6. QED
      BY <1>3, <3>3, <3>4, <3>5 DEF DrainInv
  <2>9. QED
    BY <2>7, <2>8
<1>7. QED
  BY <1>5, <1>6

LEMMA DrainStep ==
    ASSUME DrainInv, DrainNext \/ DrainTick \/ UNCHANGED drainVars
    PROVE  DrainInv'
<1>1. SmallestChunk \in Nat /\ LargestChunk \in Nat /\ Depth \in Nat \ {0}
  BY DrainAssumption
<1>2. PICK bytes \in Nat, first \in Nat :
        /\ Waits(queue, bytes)
        /\ window.open \/ relay.pc # "reading" =>
            /\ BytesOf(From, first)
            /\ consumed + bytes = first + PushedSince
  BY DEF DrainInv, Accounted
<1>3. Len(queue) \in Nat /\ consumed \in Nat
  BY DEF DrainInv
<1>4. CASE ReadChunk
  <2>1. /\ relay.pc = "reading" /\ UNCHANGED <<queue, window, idle, rate>>
        /\ consumed' = IF window.open THEN consumed ELSE 0
    BY <1>4 DEF ReadChunk
  <2>2. PICK size \in SmallestChunk .. LargestChunk :
            relay' = [pc |-> "sending", size |-> size, backlog |-> Len(queue)]
    BY <1>4 DEF ReadChunk
  <2>3. idle' > 0 => relay'.backlog = 0
    BY <2>1, <2>2 DEF DrainInv
  <2>4. Accounted'
    <3>1. CASE window.open
      <4>1. From' = From /\ PushedSince' = PushedSince
        BY <2>1, <2>2, <3>1 DEF From, PushedSince
      <4>2. QED
        BY <1>2, <2>1, <3>1, <4>1 DEF Accounted, BytesOf
    <3>2. CASE ~window.open
      <4>1. From' = Len(queue) /\ PushedSince' = 0
        BY <1>1, <2>1, <2>2, <3>2 DEF From, PushedSince, DrainInv, BytesOf
      <4>2. BytesOf(Len(queue), bytes)
        BY <1>2, WaitingBytes DEF DrainInv
      <4>3. BytesOf(From', bytes) /\ consumed' + bytes = bytes + PushedSince'
        BY <2>1, <3>2, <4>1, <4>2
      <4>4. QED
        BY <1>2, <2>1, <4>3 DEF Accounted, BytesOf
    <3>3. QED
      BY <3>1, <3>2
  <2>5. relay' \in [pc : {"sending", "sent"}, size : SmallestChunk .. LargestChunk, backlog : Nat]
    BY <1>3, <2>2
  <2>6. consumed' \in Nat
    BY <1>3, <2>1
  <2>7. QED
    BY <2>1, <2>3, <2>4, <2>5, <2>6 DEF DrainInv, MeasuresTheClient
<1>5. CASE SendChunk
  <2>1. /\ relay.pc = "sending" /\ UNCHANGED <<window, idle, consumed, rate>>
        /\ queue' = Append(queue, relay.size)
        /\ relay' = [relay EXCEPT !.pc = "sent"]
    BY <1>5 DEF SendChunk
  <2>2. /\ relay' \in [pc : {"sending", "sent"}, size : SmallestChunk .. LargestChunk, backlog : Nat]
        /\ relay'.pc = "sent" /\ relay'.backlog = relay.backlog /\ relay.backlog \in Nat
        /\ relay'.size = relay.size /\ relay.size \in SmallestChunk .. LargestChunk
    BY <2>1 DEF DrainInv
  <2>3. queue' \in Seq(Nat) /\ relay.size \in Nat
    BY <1>1, <2>1, <2>2 DEF DrainInv
  <2>4. Waits(queue', bytes + relay.size)
    BY <1>2, <2>1, <2>2, OneMoreWaits DEF DrainInv
  <2>5. From' = From /\ PushedSince' = PushedSince + relay.size /\ PushedSince \in Nat
    <3>1. relay.pc = "sending" /\ relay'.pc = "sent" /\ relay'.size = relay.size
          /\ relay'.backlog = relay.backlog /\ window' = window /\ window.pushed \in Nat
      BY <2>1, <2>2 DEF DrainInv
    <3>2. QED
      BY <2>3, <3>1 DEF From, PushedSince
  <2>6. BytesOf(From', first) /\ consumed' + (bytes + relay.size) = first + PushedSince'
    <3>1. BytesOf(From, first) /\ consumed + bytes = first + PushedSince
      BY <1>2, <2>1
    <3>2. BytesOf(From', first)
      BY <2>5, <3>1, Zenon
    <3>3. consumed' = consumed /\ PushedSince' = PushedSince + relay.size
      BY <2>1, <2>5
    <3>4. PICK p \in Nat, size \in Nat : p = PushedSince /\ size = relay.size
      BY <2>3, <2>5
    <3>5. consumed + bytes = first + p
      BY <3>1, <3>4
    <3>6. consumed' + (bytes + size) = first + (p + size)
      BY <1>3, <3>3, <3>5
    <3>7. QED
      BY <3>2, <3>3, <3>4, <3>6, Zenon
  <2>7. Accounted'
    <3>1. bytes + relay.size \in Nat
      BY <2>3
    <3>2. QED
      BY <2>4, <2>6, <3>1 DEF Accounted, BytesOf
  <2>8. QED
    BY <2>1, <2>2, <2>3, <2>7 DEF DrainInv, MeasuresTheClient
<1>6. CASE Measure
  BY <1>6, MeasureStep
<1>7. CASE ClientTakes
  <2>1. /\ queue # <<>> /\ UNCHANGED <<relay, window, idle, rate>>
        /\ queue' = Tail(queue) /\ consumed' = consumed + Head(queue)
    BY <1>7 DEF ClientTakes
  <2>2. queue' \in Seq(Nat) /\ Head(queue) \in Nat
    BY <2>1 DEF DrainInv
  <2>3. PICK left \in Nat : Waits(queue', left) /\ bytes = Head(queue) + left
    BY <1>2, <2>1, OneLessWaits DEF DrainInv
  <2>4. From' = From /\ PushedSince' = PushedSince
    BY <2>1 DEF From, PushedSince
  <2>5. consumed' + left = consumed + bytes /\ consumed' \in Nat
    BY <1>3, <2>1, <2>2, <2>3
  <2>6. Accounted'
    BY <1>2, <2>1, <2>3, <2>4, <2>5 DEF Accounted, BytesOf
  <2>7. idle' > 0 => IF relay'.pc = "reading" THEN queue' = <<>> ELSE relay'.backlog = 0
    BY <2>1 DEF DrainInv
  <2>8. QED
    BY <2>1, <2>2, <2>5, <2>6, <2>7 DEF DrainInv, MeasuresTheClient
<1>8. CASE DrainTick
  <2>1. /\ relay.pc = "reading" \/ Len(queue) = Depth
        /\ UNCHANGED <<queue, relay, window, consumed, rate>>
        /\ idle' = IF queue = <<>> /\ window.open THEN idle + 1 ELSE idle
    BY <1>8 DEF DrainTick
  <2>2. queue = <<>> => relay.pc = "reading"
    BY <1>1, <2>1
  <2>3. Accounted'
    BY <1>2, <2>1 DEF Accounted, From, PushedSince, BytesOf
  <2>4. idle' \in Nat /\ (idle' > 0 /\ relay.pc = "reading" => queue = <<>>)
        /\ (idle' > 0 /\ relay.pc # "reading" => relay.backlog = 0)
    BY <2>1, <2>2 DEF DrainInv
  <2>5. ~window.open => idle' = 0
    BY <2>1 DEF DrainInv
  <2>6. QED
    BY <2>1, <2>3, <2>4, <2>5 DEF DrainInv, MeasuresTheClient
<1>9. CASE UNCHANGED drainVars
  BY <1>9 DEF drainVars, DrainInv, Accounted, From, PushedSince, BytesOf, MeasuresTheClient
<1>10. QED
  BY <1>4, <1>5, <1>6, <1>7, <1>8, <1>9 DEF DrainNext

(* tcp.rs, fetch_blocking, and link.rs, from_drain: the rate that is reported
   is of what the client took, over a time in which it always had something
   to take, whatever the depth of the channel; and what chunks of every size
   make the conversion of the backlog wrong by is bounded by what waits. *)
THEOREM Measured == Spec => []MeasuresTheClient
<1>1. Init => DrainInv /\ ClockOK
  <2> SUFFICES ASSUME Init PROVE DrainInv /\ ClockOK
    OBVIOUS
  <2>1. /\ queue = <<>> /\ relay = [pc |-> "reading"] /\ window = NoWindow
        /\ idle = 0 /\ consumed = 0 /\ rate = NoRate /\ now = 0
    BY DEF Init, DrainInit
  <2>2. Accounted
    BY <2>1, NoneWait DEF Accounted, NoWindow
  <2>3. MeasuresTheClient
    <3>1. 0 * (LargestChunk - SmallestChunk) = 0
      BY DrainAssumption
    <3>2. QED
      BY <2>1, <3>1 DEF MeasuresTheClient, NoRate, Apart
  <2>4. QED
    BY <2>1, <2>2, <2>3, NoBytes DEF DrainInv, NoWindow, ClockOK
<1>2. DrainInv /\ ClockOK /\ [Next]_vars => DrainInv' /\ ClockOK'
  BY DrainStep, PartStep
<1>3. DrainInv => MeasuresTheClient
  BY DEF DrainInv
<1>4. QED
  BY <1>1, <1>2, <1>3, PTL DEF Spec

-----------------------------------------------------------------------------
(* The budget of a response. *)

(* The pieces in flight lie between what was given back and what was taken. *)
CutsBetween == \A c \in cuts : freed < c /\ c <= taken

(* While the stream lives, the piece claimed last is among them. *)
LastCut == ~state.closed /\ freed < taken => taken \in cuts

(* The inductive invariant.  BooksBalance ties the counter to `taken' and
   `freed', CutsBetween ties those to the pieces: together they say that an
   empty budget has nothing in flight, which is what NothingBehindAnOvershoot
   needs when an oversize piece is let in. *)
BudgetInv ==
    /\ BudgetTypeOK
    /\ BooksBalance
    /\ CutsBetween
    /\ LastCut
    /\ NothingBehindAnOvershoot
    /\ NoMissedWakeup

-----------------------------------------------------------------------------
(* Claiming counts the bytes and leaves the rest of the record alone. *)
LEMMA ClaimedType ==
    ASSUME NEW b \in BudgetState, NEW n \in Nat
    PROVE  /\ Claimed(b, n) \in BudgetState
           /\ Claimed(b, n).outstanding = b.outstanding + n
           /\ Claimed(b, n).progress = b.progress
           /\ Claimed(b, n).closed = b.closed
  BY DEF Claimed, BudgetState

(* Giving back no more than is outstanding is an exact subtraction. *)
LEMMA ReleasedType ==
    ASSUME NEW b \in BudgetState, NEW n \in Nat, n <= b.outstanding
    PROVE  /\ Released(b, n) \in BudgetState
           /\ Released(b, n).outstanding = b.outstanding - n
           /\ Released(b, n).closed = b.closed
<1>1. (b.progress + 1) % ProgressWrap \in 0 .. ProgressWrap - 1
  BY BudgetAssumption DEF BudgetState
<1>2. b.outstanding - n \in Nat
  BY DEF BudgetState
<1>3. (IF b.outstanding > n THEN b.outstanding - n ELSE 0) = b.outstanding - n
  BY DEF BudgetState
<1>4. QED
  BY <1>1, <1>2, <1>3 DEF Released, BudgetState

(* Closing touches the flag alone. *)
LEMMA ClosedType ==
    ASSUME NEW b \in BudgetState
    PROVE  /\ Closed(b) \in BudgetState
           /\ Closed(b).outstanding = b.outstanding
           /\ Closed(b).progress = b.progress
           /\ Closed(b).closed
  BY DEF Closed, BudgetState

-----------------------------------------------------------------------------
LEMMA BudgetInitInv == BudgetInit => BudgetInv
<1> SUFFICES ASSUME BudgetInit PROVE BudgetInv
  OBVIOUS
<1>1. NewBudget \in BudgetState
  BY BudgetAssumption DEF NewBudget, BudgetState
<1>2. BudgetTypeOK
  <2>1. 0 \in 0 .. ProgressWrap - 1
    BY BudgetAssumption
  <2>2. want \in Sizes \cup {0} /\ woken \in BOOLEAN
    BY DEF BudgetInit
  <2>3. taken \in Nat /\ freed \in Nat /\ cuts \in SUBSET Nat
    BY DEF BudgetInit
  <2>4. QED
    BY <1>1, <2>1, <2>2, <2>3 DEF BudgetInit, BudgetTypeOK
<1>3. state.outstanding = 0
  BY DEF BudgetInit, NewBudget
<1>4. BooksBalance /\ CutsBetween /\ LastCut
  BY <1>3 DEF BudgetInit, BooksBalance, CutsBetween, LastCut
<1>5. NothingBehindAnOvershoot
  BY DEF BudgetInit, NothingBehindAnOvershoot
<1>6. NoMissedWakeup
  BY DEF BudgetInit, NoMissedWakeup, Parked
<1>7. QED
  BY <1>2, <1>4, <1>5, <1>6 DEF BudgetInv

(* Taking room, from claim() at once or after a wait. *)
LEMMA TakeStep ==
    ASSUME BudgetInv, NEW n \in Sizes, Take(n)
    PROVE  BudgetInv'
<1>1. n \in Nat \ {0}
  BY BudgetAssumption
<1>2. state \in BudgetState /\ state.outstanding \in Nat /\ Limit \in Nat
  BY BudgetAssumption DEF BudgetInv, BudgetTypeOK, BudgetState
<1>3. /\ state' \in BudgetState
      /\ state'.outstanding = state.outstanding + n
      /\ state'.progress = state.progress
      /\ ~state'.closed
  BY <1>1, <1>2, ClaimedType DEF Take
<1>4. taken \in Nat /\ freed \in Nat /\ cuts \in SUBSET Nat
  BY DEF BudgetInv, BudgetTypeOK
<1>5. BudgetTypeOK'
  BY <1>1, <1>3, <1>4 DEF Take, BudgetInv, BudgetTypeOK
<1>6. BooksBalance'
  BY <1>1, <1>3, <1>4 DEF Take, BudgetInv, BooksBalance
<1>7. CutsBetween'
  BY <1>1, <1>4 DEF Take, BudgetInv, BooksBalance, CutsBetween
<1>8. LastCut'
  BY DEF Take, LastCut
<1>9. NothingBehindAnOvershoot'
  <2>1. CASE state.outstanding = 0
    <3>1. cuts = {}
      BY <2>1, <1>4 DEF BudgetInv, BooksBalance, CutsBetween
    <3>2. cuts' = {taken + n}
      BY <3>1 DEF Take
    <3>3. QED
      BY <3>2 DEF NothingBehindAnOvershoot
  <2>2. CASE state.outstanding + n <= Limit
    BY <2>2, <1>1, <1>2, <1>3 DEF NothingBehindAnOvershoot
  <2>3. QED
    BY <2>1, <2>2, <1>1, <1>2 DEF Take, Full
<1>10. NoMissedWakeup'
  BY DEF Take, NoMissedWakeup, Parked
<1>11. QED
  BY <1>5, <1>6, <1>7, <1>8, <1>9, <1>10 DEF BudgetInv

(* Going to sleep, at first or again. *)
LEMMA ParkStep ==
    ASSUME BudgetInv, NEW n \in Sizes,
           ~state.closed, Full(state, n),
           want' = n, seen' = state.progress, woken' = FALSE,
           UNCHANGED <<state, taken, freed, cuts>>
    PROVE  BudgetInv'
<1>1. BudgetTypeOK'
  BY DEF BudgetInv, BudgetTypeOK, BudgetState
<1>2. BooksBalance' /\ CutsBetween' /\ LastCut' /\ NothingBehindAnOvershoot'
  BY DEF BudgetInv, BooksBalance, CutsBetween, LastCut, NothingBehindAnOvershoot
<1>3. NoMissedWakeup'
  BY DEF NoMissedWakeup, Full
<1>4. QED
  BY <1>1, <1>2, <1>3 DEF BudgetInv

LEMMA RefuseStep == ASSUME BudgetInv, Refuse PROVE BudgetInv'
<1>1. BudgetTypeOK'
  BY DEF BudgetInv, BudgetTypeOK, Refuse
<1>2. BooksBalance' /\ CutsBetween' /\ LastCut' /\ NothingBehindAnOvershoot'
  BY DEF BudgetInv, BooksBalance, CutsBetween, LastCut, NothingBehindAnOvershoot, Refuse
<1>3. NoMissedWakeup'
  BY DEF NoMissedWakeup, Parked, Refuse
<1>4. QED
  BY <1>1, <1>2, <1>3 DEF BudgetInv

LEMMA ExpireStep == ASSUME BudgetInv, Expire PROVE BudgetInv'
<1>1. /\ state' \in BudgetState
      /\ state'.outstanding = state.outstanding
      /\ state'.closed
  BY ClosedType DEF BudgetInv, BudgetTypeOK, Expire
<1>2. BudgetTypeOK'
  BY <1>1 DEF BudgetInv, BudgetTypeOK, Expire
<1>3. BooksBalance' /\ CutsBetween' /\ LastCut' /\ NothingBehindAnOvershoot'
  BY <1>1 DEF BudgetInv, BooksBalance, CutsBetween, LastCut, NothingBehindAnOvershoot, Expire
<1>4. NoMissedWakeup'
  BY DEF NoMissedWakeup, Parked, Expire
<1>5. QED
  BY <1>2, <1>3, <1>4 DEF BudgetInv

LEMMA ReleaseStep == ASSUME BudgetInv, Release PROVE BudgetInv'
<1>1. PICK c \in cuts :
        /\ \A d \in cuts : c <= d
        /\ state' = Released(state, c - freed)
        /\ freed' = c
        /\ cuts' = cuts \ {c}
        /\ woken' = Parked
        /\ UNCHANGED <<want, seen, taken>>
  BY DEF Release
<1>2. /\ taken \in Nat /\ freed \in Nat /\ c \in Nat
      /\ freed < c /\ c <= taken
      /\ state.outstanding = taken - freed
      /\ state \in BudgetState
  BY DEF BudgetInv, BudgetTypeOK, BooksBalance, CutsBetween
<1>3. c - freed \in Nat /\ c - freed <= state.outstanding
  BY <1>2
<1>4. /\ state' \in BudgetState
      /\ state'.outstanding = state.outstanding - (c - freed)
      /\ state'.closed = state.closed
  BY <1>1, <1>2, <1>3, ReleasedType
<1>5. BudgetTypeOK'
  BY <1>1, <1>2, <1>4 DEF BudgetInv, BudgetTypeOK, Parked
<1>6. BooksBalance'
  BY <1>1, <1>2, <1>4 DEF BooksBalance
<1>7. CutsBetween'
  <2> SUFFICES ASSUME NEW d \in cuts, d # c PROVE c < d /\ d <= taken
    BY <1>1 DEF CutsBetween
  <2>1. d \in Nat /\ d <= taken /\ c <= d
    BY <1>1 DEF BudgetInv, BudgetTypeOK, CutsBetween
  <2>2. QED
    BY <2>1, <1>2
<1>8. LastCut'
  BY <1>1, <1>2, <1>4 DEF BudgetInv, LastCut
<1>9. NothingBehindAnOvershoot'
  BY <1>1, <1>2, <1>4, BudgetAssumption DEF BudgetInv, NothingBehindAnOvershoot
<1>10. NoMissedWakeup'
  BY <1>1 DEF NoMissedWakeup, Parked
<1>11. QED
  BY <1>5, <1>6, <1>7, <1>8, <1>9, <1>10 DEF BudgetInv

LEMMA CloseStep == ASSUME BudgetInv, Close PROVE BudgetInv'
<1>1. /\ state' \in BudgetState
      /\ state'.outstanding = state.outstanding
      /\ state'.closed
  BY ClosedType DEF BudgetInv, BudgetTypeOK, Close
<1>2. BudgetTypeOK'
  BY <1>1 DEF BudgetInv, BudgetTypeOK, Close, Parked
<1>3. BooksBalance' /\ CutsBetween' /\ LastCut' /\ NothingBehindAnOvershoot'
  BY <1>1 DEF BudgetInv, BooksBalance, CutsBetween, LastCut, NothingBehindAnOvershoot, Close
<1>4. NoMissedWakeup'
  BY DEF NoMissedWakeup, Parked, Close
<1>5. QED
  BY <1>2, <1>3, <1>4 DEF BudgetInv

LEMMA BudgetNextInv == BudgetInv /\ [BudgetNext]_budgetVars => BudgetInv'
<1> SUFFICES ASSUME BudgetInv, [BudgetNext]_budgetVars PROVE BudgetInv'
  OBVIOUS
<1>1. ASSUME NEW n \in Sizes, Claim(n) PROVE BudgetInv'
  BY <1>1, TakeStep DEF Claim
<1>2. ASSUME NEW n \in Sizes, Park(n) PROVE BudgetInv'
  BY <1>2, ParkStep DEF Park
<1>3. CASE Resume
  <2>1. want \in Sizes
    BY <1>3, BudgetAssumption DEF BudgetInv, BudgetTypeOK, Resume, Parked
  <2>2. QED
    BY <1>3, <2>1, TakeStep DEF Resume
<1>4. CASE ParkAgain
  <2>1. want \in Sizes
    BY <1>4, BudgetAssumption DEF BudgetInv, BudgetTypeOK, ParkAgain, Parked
  <2>2. QED
    BY <1>4, <2>1, ParkStep DEF ParkAgain
<1>5. CASE Refuse
  BY <1>5, RefuseStep
<1>6. CASE Expire
  BY <1>6, ExpireStep
<1>7. CASE Release
  BY <1>7, ReleaseStep
<1>8. CASE Close
  BY <1>8, CloseStep
<1>9. CASE UNCHANGED budgetVars
  BY <1>9 DEF budgetVars, BudgetInv, BudgetTypeOK, BooksBalance, CutsBetween, LastCut,
              NothingBehindAnOvershoot, NoMissedWakeup, Parked
<1>10. QED
  BY <1>1, <1>2, <1>3, <1>4, <1>5, <1>6, <1>7, <1>8, <1>9 DEF BudgetNext, Worker, EventLoop

-----------------------------------------------------------------------------
(* The inductive invariant holds in every reachable state. *)
THEOREM BudgetInvariant == BudgetSpec => []BudgetInv
  BY BudgetInitInv, BudgetNextInv, PTL DEF BudgetSpec

(* State::outstanding, State::progress and the rest keep their types. *)
THEOREM BudgetTyped == BudgetSpec => []BudgetTypeOK
<1>1. BudgetInv => BudgetTypeOK
  BY DEF BudgetInv
<1>2. QED
  BY <1>1, BudgetInvariant, PTL

(* A release never saturates: the budget counts the bytes in flight. *)
THEOREM Books == BudgetSpec => []BooksBalance
<1>1. BudgetInv => BooksBalance
  BY DEF BudgetInv
<1>2. QED
  BY <1>1, BudgetInvariant, PTL

(* Past the limit there is one piece in flight, whatever the sizes. *)
THEOREM Overshoot == BudgetSpec => []NothingBehindAnOvershoot
<1>1. BudgetInv => NothingBehindAnOvershoot
  BY DEF BudgetInv
<1>2. QED
  BY <1>1, BudgetInvariant, PTL

(* No wakeup is missed: a worker asleep has nothing to wake up for. *)
THEOREM Wakeups == BudgetSpec => []NoMissedWakeup
<1>1. BudgetInv => NoMissedWakeup
  BY DEF BudgetInv
<1>2. QED
  BY <1>1, BudgetInvariant, PTL

(* A worker asleep waits for a piece that is really in flight, so the wait on
   an empty budget, which nobody would end, does not happen. *)
THEOREM NoDeadlock == BudgetSpec => []SomethingToWaitFor
<1>1. BudgetInv => SomethingToWaitFor
  <2> SUFFICES ASSUME BudgetInv, Parked, ~woken PROVE cuts # {}
    BY DEF SomethingToWaitFor
  <2>1. state.outstanding > 0 /\ ~state.closed
    BY DEF BudgetInv, NoMissedWakeup, Full
  <2>2. freed < taken
    BY <2>1 DEF BudgetInv, BudgetTypeOK, BooksBalance
  <2>3. QED
    BY <2>1, <2>2 DEF BudgetInv, LastCut
<1>2. QED
  BY <1>1, BudgetInvariant, PTL

(* The registries leave a budget to its own steps, so what is proved of one
   holds of theirs. *)
LEMMA BudgetAlone == Spec => BudgetSpec
<1>1. Init => BudgetInit
  BY DEF Init
<1>2. [Next]_vars => [BudgetNext]_budgetVars
  BY DEF Next, Leaves, Bypassing, Measuring, Draining, Budgeting, Connecting, TimePasses,
         vars, parts
<1>3. QED
  BY <1>1, <1>2, PTL DEF Spec, BudgetSpec

(* budget.rs, claim() and release(): neither a missed wakeup nor a wait that
   nobody would end. *)
THEOREM Woken == Spec => []SleepersAreWoken
<1>1. BudgetInv /\ SomethingToWaitFor => SleepersAreWoken
  BY DEF BudgetInv, SleepersAreWoken
<1>2. QED
  BY <1>1, BudgetAlone, BudgetInvariant, NoDeadlock, PTL

(* A closed budget stays closed and gives no room. *)
THEOREM ClosedStays == BudgetSpec => ClosedForGood
<1>1. BudgetInv /\ [BudgetNext]_budgetVars => [state.closed => state'.closed /\ taken' = taken]_budgetVars
  <2> SUFFICES ASSUME BudgetInv, BudgetNext, state.closed
               PROVE  state'.closed /\ taken' = taken
    OBVIOUS
  <2>1. state \in BudgetState
    BY DEF BudgetInv, BudgetTypeOK
  <2>2. CASE Refuse
    BY <2>2 DEF Refuse
  <2>3. CASE Expire
    BY <2>1, <2>3, ClosedType DEF Expire
  <2>4. CASE Release
    BY <2>1, <2>4 DEF Release, Released, BudgetState
  <2>5. CASE Close
    BY <2>1, <2>5, ClosedType DEF Close
  <2>6. QED
    BY <2>2, <2>3, <2>4, <2>5
    DEF BudgetNext, Worker, EventLoop, Claim, Park, Resume, ParkAgain, Take
<1>2. QED
  BY <1>1, BudgetInvariant, PTL DEF BudgetSpec, ClosedForGood
=============================================================================

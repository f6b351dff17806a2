------------------------------ MODULE LeafCache ------------------------------
(***************************************************************************)
(* The certificates mach5 mints, one for each name a client asks for, and  *)
(* the cache of them: leaf_for, cached, remember, mint and install of      *)
(* src/proxy/src/ca.rs.                                                    *)
(*                                                                         *)
(* A handshake runs on a thread of either front end.  It looks the name up *)
(* under the lock, mints with the lock not held, and takes the lock again  *)
(* to remember what it minted.  The SNI is a name in some spelling; the    *)
(* key is the name spelled plainly.                                        *)
(***************************************************************************)
EXTENDS Clock

CONSTANTS
    Names,
    Spellings,     \* with a trailing dot, in capitals; "plain" is neither
    Handshakes,    \* those that may be going on at once
    MaxLeaves,     \* MAX_LEAVES
    LeafTtl,       \* Validity::ttl
    RefreshMargin  \* Validity::refresh_margin

ASSUME LeafAssumption ==
    /\ "plain" \in Spellings
    /\ MaxLeaves \in Nat \ {0}
    /\ LeafTtl \in Nat
    /\ RefreshMargin \in Nat

VARIABLES
    held,      \* the cache: leaves, each with when it was last handed out
    handshake  \* what each handshake is doing, for which SNI, and its leaf

leafVars == <<held, handshake>>

Sni == [name : Names, spelling : Spellings]

(* A leaf says one name, `san', and is good until `until'. *)
Leaf == [san : Sni, until : Nat]

Held == [key : Sni, leaf : Leaf, used : Nat]

-----------------------------------------------------------------------------
(* "A name is a name whatever it was capitalised as." *)
Key(sni) == [sni EXCEPT !.spelling = "plain"]

LeafInit ==
    /\ held = {}
    /\ handshake = [h \in Handshakes |-> [pc |-> "idle"]]

Goes(h, state) == handshake' = [handshake EXCEPT ![h] = state]

(* Good, and not about to expire. *)
Fresh(e) == e.leaf.until > now + RefreshMargin

Cached(key) == {e \in held : e.key = key /\ Fresh(e)}

Hit(h) ==
    /\ handshake[h].pc = "idle"
    /\ \E sni \in Sni : \E e \in Cached(Key(sni)) :
        /\ held' = (held \ {e}) \cup {[e EXCEPT !.used = now]}
        /\ Goes(h, [pc |-> "installed", sni |-> sni, leaf |-> e.leaf])

Miss(h) ==
    /\ handshake[h].pc = "idle"
    /\ \E sni \in Sni :
        /\ Cached(Key(sni)) = {}
        /\ Goes(h, [pc |-> "minting", sni |-> sni])
    /\ UNCHANGED held

(* Mutant: the SNI, not the key it is remembered under. *)
MintedRaw(sni) == [san |-> sni, until |-> now + LeafTtl]

(* A leaf says the name it was minted for. *)
Minted(sni) == [san |-> Key(sni), until |-> now + LeafTtl]

Mint(h) ==
    /\ handshake[h].pc = "minting"
    /\ LET sni == handshake[h].sni IN
        Goes(h, [pc |-> "minted", sni |-> sni, leaf |-> Minted(sni)])
    /\ UNCHANGED held

(* No key pair, or a name no certificate can carry: install answers false and
   the handshake goes on with the context's own certificate. *)
MintFails(h) ==
    /\ handshake[h].pc = "minting"
    /\ Goes(h, [pc |-> "idle"])
    /\ UNCHANGED held

Unexpired == {e \in held : e.leaf.until > now}

(* Mutant: the least recently used go, and the expired stay in their place. *)
RoomKeepsExpired(key) ==
    IF Cardinality(held) < MaxLeaves \/ \E e \in held : e.key = key
    THEN {held}
    ELSE CutTo(held, MaxLeaves - 1)

(* What stays of the cache when a leaf for this key comes in: at the bound,
   and unless it takes its own place, the expired go and then the oldest. *)
Room(key) ==
    IF Cardinality(held) < MaxLeaves \/ \E e \in held : e.key = key
    THEN {held}
    ELSE CutTo(Unexpired, MaxLeaves - 1)

Remember(h) ==
    /\ handshake[h].pc = "minted"
    /\ LET key == Key(handshake[h].sni)
           leaf == handshake[h].leaf IN
        /\ \E kept \in Room(key) :
            held' = {e \in kept : e.key # key}
                        \cup {[key |-> key, leaf |-> leaf, used |-> now]}
        /\ Goes(h, [pc |-> "installed", sni |-> handshake[h].sni, leaf |-> leaf])

(* The handshake is over, and another may begin. *)
HandshakeEnds(h) ==
    /\ handshake[h].pc = "installed"
    /\ Goes(h, [pc |-> "idle"])
    /\ UNCHANGED held

LeafNext ==
    \E h \in Handshakes :
        Hit(h) \/ Miss(h) \/ Mint(h) \/ MintFails(h) \/ Remember(h) \/ HandshakeEnds(h)

-----------------------------------------------------------------------------
(* MAX_LEAVES: "It has to be bounded".  Whoever mints at once, the cache is
   within its bound and holds one leaf for a name.  And leaf_for(): "They used
   to disagree: [...] the leaf's only SAN written as `example.com.`, which no
   client accepts".  Whatever a name was spelled as by whoever had it minted,
   the leaf a handshake is given carries the name it asked for, spelled as a
   client compares it. *)
LeavesAreSound ==
    /\ Cardinality(held) <= MaxLeaves
    /\ \A d, e \in held : d.key = e.key => d = e
    /\ \A h \in Handshakes : handshake[h].pc = "installed" =>
            handshake[h].leaf.san = [name |-> handshake[h].sni.name, spelling |-> "plain"]

(* remember(): "Expired first, since nothing wants those."  A leaf that is
   still good makes room only when there is no other way: what is left is as
   much as may be, all of it good, and none of it less recently used. *)
GoodLeavesStay ==
    \A e \in held :
        e.leaf.until > now /\ (\A d \in held' : d.key # e.key) =>
            /\ Cardinality(held') = MaxLeaves
            /\ \A d \in held \cap held' : d.leaf.until > now /\ e.used <= d.used
=============================================================================

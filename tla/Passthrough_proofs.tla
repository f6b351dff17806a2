-------------------------- MODULE Passthrough_proofs --------------------------
(***************************************************************************)
(* What is not decrypted: the lists and the learned hosts of               *)
(* Exemptions.tla for every set of lists, texts, hosts and savers, and any *)
(* number of restarts, and what Hello.tla decides about a host for every   *)
(* framing of the hello, size of a record and change of the lists.         *)
(***************************************************************************)
EXTENDS Exemptions, Hello, WellFoundedInduction, TLAPS

(* While everything was in order one thread saves at a time, *)
OneSaver ==
    orderly => \A s, t \in Savers : saver[s] # {} /\ saver[t] # {} => s = t

(* and what it has to write is what is in memory, but for hosts whose time
   ran out since. *)
SavesWhatIsHeld ==
    orderly => \A t \in Savers : \A names \in saver[t] :
        learned \subseteq names /\ names \subseteq learned \cup expired

(* The inductive invariant of the learned hosts.  LearnedIsSaved says nothing
   while a thread saves; the other two carry it across the save. *)
LearnedInv == LearnedTypeOK /\ OneSaver /\ SavesWhatIsHeld /\ LearnedIsSaved

(* The refresh thread knows which list it asks for. *)
AtAList ==
    refresher.pc \in {"asking", "storing", "tagging", "updating"} => refresher.url \in Urls

ListInv == ListTypeOK /\ AtAList

-----------------------------------------------------------------------------
(* What a list contributes is a text, or still nothing. *)
LEMMA ContributionType ==
    ASSUME NEW had \in Texts \cup {{}}, NEW got \in Texts \cup {None}
    PROVE  /\ Contribution(had, got) \in Texts \cup {{}}
           /\ had # {} => Contribution(had, got) # {}
  BY DEF Contribution

(* The copies on disk contribute texts. *)
LEMMA CachedType ==
    ASSUME ListTypeOK
    PROVE  Cached \in [Urls -> Texts \cup {{}}]
  BY DEF ListTypeOK, Cached

LEMMA InitInv == Init => ListInv /\ LearnedInv
<1> SUFFICES ASSUME Init PROVE ListInv /\ LearnedInv
  OBVIOUS
<1>1. ListTypeOK
  BY DEF Init, ListInit, ListTypeOK, Asleep
<1>2. AtAList
  BY DEF Init, ListInit, AtAList, Asleep
<1>3. LearnedInv
  BY DEF Init, LearnedInit, LearnedInv, LearnedTypeOK, OneSaver, SavesWhatIsHeld, LearnedIsSaved
<1>4. QED
  BY <1>1, <1>2, <1>3 DEF ListInv

(* The world changes, or the refresh thread steps. *)
LEMMA ListStep ==
    ASSUME ListInv, ListNext
    PROVE  ListInv'
<1> USE DEF ListInv, ListTypeOK, AtAList
<1>1. CASE ListChanges
  BY <1>1 DEF ListChanges, diskVars
<1>2. CASE NetworkChanges
  BY <1>2 DEF NetworkChanges, diskVars
<1>3. CASE Wake
  BY <1>3 DEF Wake, worldVars, diskVars
<1>4. CASE Ask
  BY <1>4 DEF Ask, worldVars, diskVars
<1>5. CASE AnswerWhole
  <2>1. origin[refresher.url] \in Texts
    BY <1>5 DEF AnswerWhole
  <2>2. refresher' = [refresher EXCEPT !.pc = "storing", !.got = origin[refresher.url]]
    BY <1>5 DEF AnswerWhole, Got
  <2>3. QED
    BY <1>5, <2>1, <2>2 DEF AnswerWhole, worldVars, diskVars
<1>6. CASE AnswerCached
  <2>1. text[refresher.url] \in Texts \cup {None}
    BY <1>6 DEF AnswerCached
  <2>2. refresher' = [refresher EXCEPT !.pc = "updating", !.got = text[refresher.url]]
    BY <1>6 DEF AnswerCached, Got
  <2>3. QED
    BY <1>6, <2>1, <2>2 DEF AnswerCached, worldVars, diskVars
<1>7. CASE StoreText
  BY <1>7 DEF StoreText, worldVars
<1>8. CASE StoreFails
  BY <1>8 DEF StoreFails, worldVars, diskVars
<1>9. CASE StoreTags
  BY <1>9 DEF StoreTags, worldVars
<1>10. CASE TagsFail
  BY <1>10 DEF TagsFail, worldVars, diskVars
<1>11. CASE Update
  <2>1. Contribution(held[refresher.url], refresher.got) \in Texts \cup {{}}
    BY <1>11, ContributionType DEF Update
  <2>2. held' \in [Urls -> Texts \cup {{}}]
    BY <1>11, <2>1 DEF Update
  <2>3. QED
    BY <1>11, <2>2 DEF Update, Asleep, worldVars, diskVars
<1>12. CASE Swap
  <2>1. fetched' \in SUBSET UNION Texts
    BY <1>12 DEF Swap
  <2>2. QED
    BY <1>12, <2>1 DEF Swap, Asleep, worldVars, diskVars
<1>13. QED
  BY <1>1, <1>2, <1>3, <1>4, <1>5, <1>6, <1>7, <1>8, <1>9, <1>10, <1>11, <1>12
  DEF ListNext, Refresh

(* The lists are read from disk again. *)
LEMMA ListRestartStep ==
    ASSUME ListInv, ListRestart
    PROVE  ListInv'
<1> USE DEF ListInv, ListTypeOK, AtAList
<1>1. Cached \in [Urls -> Texts \cup {{}}]
  BY CachedType
<1>2. UNION {Cached[u] : u \in Urls} \in SUBSET UNION Texts
  BY <1>1
<1>3. QED
  BY <1>1, <1>2 DEF ListRestart, Asleep, worldVars, diskVars

-----------------------------------------------------------------------------
(* A thread changes the learned hosts and goes on to save them.  Either it is
   the only one that saves, or order is lost. *)
LEMMA ToSaveStep ==
    ASSUME LearnedInv, NEW t \in Savers, NEW to \in SUBSET Sites, ToSave(t, to),
           expired' \in SUBSET Sites
    PROVE  LearnedInv'
<1> USE DEF LearnedInv, LearnedTypeOK, ToSave
<1>1. saver' \in [Savers -> SUBSET SUBSET Sites] /\ saver'[t] = {to}
  OBVIOUS
<1>2. LearnedTypeOK'
  BY <1>1 DEF Quiet
<1>3. ASSUME orderly' PROVE \A s \in Savers : s # t => saver'[s] = {}
  BY <1>3 DEF Quiet
<1>4. OneSaver'
  BY <1>1, <1>3 DEF OneSaver
<1>5. SavesWhatIsHeld'
  BY <1>1, <1>3 DEF SavesWhatIsHeld
<1>6. LearnedIsSaved'
  BY <1>1 DEF LearnedIsSaved, Quiet
<1>7. QED
  BY <1>2, <1>4, <1>5, <1>6

(* The threads that learn and forget, and the time that passes. *)
LEMMA LearnedStep ==
    ASSUME LearnedInv, LearnedNext
    PROVE  LearnedInv'
<1> USE DEF LearnedInv, LearnedTypeOK
<1>1. ASSUME NEW t \in Savers, NEW h \in Sites, Add(t, h)
      PROVE  LearnedInv'
  BY <1>1, ToSaveStep DEF Add
<1>2. ASSUME NEW t \in Savers, NEW h \in Sites, Remove(t, h)
      PROVE  LearnedInv'
  BY <1>2, ToSaveStep DEF Remove
<1>3. ASSUME NEW t \in Savers, Save(t)
      PROVE  LearnedInv'
  <2>1. PICK names \in saver[t] : saved' = names
    BY <1>3 DEF Save
  <2>2. saver' \in [Savers -> SUBSET SUBSET Sites] /\ saver'[t] = {}
    BY <1>3 DEF Save
  <2>3. \A s \in Savers : s # t => saver'[s] = saver[s]
    BY <1>3 DEF Save
  <2>4. LearnedTypeOK'
    BY <1>3, <2>1, <2>2 DEF Save
  <2>5. OneSaver' /\ SavesWhatIsHeld'
    BY <1>3, <2>2, <2>3 DEF Save, OneSaver, SavesWhatIsHeld
  <2>6. LearnedIsSaved'
    BY <1>3, <2>1 DEF Save, LearnedIsSaved, SavesWhatIsHeld
  <2>7. QED
    BY <2>4, <2>5, <2>6
<1>4. ASSUME NEW h \in Sites, Expire(h)
      PROVE  LearnedInv'
  <2>1. LearnedTypeOK'
    BY <1>4 DEF Expire
  <2>2. OneSaver' /\ SavesWhatIsHeld' /\ LearnedIsSaved'
    BY <1>4 DEF Expire, OneSaver, SavesWhatIsHeld, LearnedIsSaved, Quiet
  <2>3. QED
    BY <2>1, <2>2
<1>5. QED
  BY <1>1, <1>2, <1>3, <1>4 DEF LearnedNext

(* A save that fails is the end of order. *)
LEMMA SaveFailsStep ==
    ASSUME LearnedInv, NEW t \in Savers, SaveFails(t)
    PROVE  LearnedInv'
<1> USE DEF LearnedInv, LearnedTypeOK, SaveFails
<1>1. LearnedTypeOK'
  OBVIOUS
<1>2. QED
  BY <1>1 DEF OneSaver, SavesWhatIsHeld, LearnedIsSaved

(* Memory is what the file was, and nobody is saving. *)
LEMMA LearnedRestartStep ==
    ASSUME LearnedInv, LearnedRestart
    PROVE  LearnedInv'
  BY DEF LearnedInv, LearnedTypeOK, LearnedRestart, OneSaver, SavesWhatIsHeld, LearnedIsSaved

-----------------------------------------------------------------------------
Inv == ListInv /\ LearnedInv /\ restarts \in 0 .. MaxRestarts

(* Every step keeps the invariant: the two halves share nothing but the
   restart. *)
LEMMA InvStep == Inv /\ [Next]_vars => Inv'
<1> SUFFICES ASSUME Inv, [Next]_vars PROVE Inv'
  OBVIOUS
<1>1. ASSUME UNCHANGED listVars PROVE ListInv'
  BY <1>1 DEF Inv, ListInv, ListTypeOK, AtAList, listVars, worldVars, diskVars
<1>2. ASSUME UNCHANGED learnedVars PROVE LearnedInv'
  BY <1>2 DEF Inv, LearnedInv, LearnedTypeOK, OneSaver, SavesWhatIsHeld, LearnedIsSaved,
      Quiet, learnedVars
<1>3. CASE ListNext /\ UNCHANGED <<learnedVars, restarts>>
  BY <1>2, <1>3, ListStep DEF Inv
<1>4. CASE LearnedNext /\ UNCHANGED <<listVars, restarts>>
  BY <1>1, <1>4, LearnedStep DEF Inv
<1>5. CASE (\E t \in Savers : SaveFails(t)) /\ UNCHANGED <<listVars, restarts>>
  BY <1>1, <1>5, SaveFailsStep DEF Inv
<1>6. CASE Restart
  <2>1. restarts' \in 0 .. MaxRestarts
    BY <1>6, RestartsAssumption DEF Restart, Inv
  <2>2. QED
    BY <1>6, <2>1, ListRestartStep, LearnedRestartStep DEF Restart, Inv
<1>7. CASE UNCHANGED vars
  BY <1>1, <1>2, <1>7 DEF vars, Inv
<1>8. QED
  BY <1>3, <1>4, <1>5, <1>6, <1>7 DEF Next

(* The invariant holds in every state that can be reached. *)
THEOREM Invariance == Spec => []Inv
<1>1. Init => Inv
  BY InitInv, RestartsAssumption DEF Inv, Init
<1>2. QED
  BY <1>1, InvStep, PTL DEF Spec

(* The types of both halves. *)
THEOREM TypeCorrect == Spec => []TypeOK
<1>1. Inv => TypeOK
  BY DEF Inv, ListInv, LearnedInv, TypeOK
<1>2. QED
  BY <1>1, Invariance, PTL

(* With nobody saving, and as long as saves did not overlap or fail, the file
   holds what was learned, so a restart loses no host. *)
THEOREM LearnedSaved == Spec => []LearnedIsSaved
<1>1. Inv => LearnedIsSaved
  BY DEF Inv, LearnedInv
<1>2. QED
  BY <1>1, Invariance, PTL

(* Whatever the origins answer, a list that contributed hosts contributes
   hosts until the process stops. *)
THEOREM OneWay == Spec => FailsOneWay
<1>1. ASSUME Inv, [Next]_vars
      PROVE  [~Restart => \A u \in Urls : held[u] # {} => held'[u] # {}]_vars
  <2>1. held \in [Urls -> Texts \cup {{}}] /\ refresher.got \in Texts \cup {None}
    BY <1>1 DEF Inv, ListInv, ListTypeOK
  <2>2. CASE ListNext
    <3>1. CASE Update
      <4> DEFINE u == refresher.url
      <4>1. u \in Urls
        BY <1>1, <3>1 DEF Inv, ListInv, AtAList, Update
      <4>2. held[u] # {} => Contribution(held[u], refresher.got) # {}
        BY <2>1, <4>1, ContributionType
      <4>3. QED
        BY <2>1, <3>1, <4>1, <4>2 DEF Update
    <3>2. CASE ~Update
      <4>1. held' = held
        BY <2>2, <3>2 DEF ListNext, ListChanges, NetworkChanges, Refresh, Wake, Ask,
            AnswerWhole, AnswerCached, StoreText, StoreFails, StoreTags, TagsFail, Swap
      <4>2. QED
        BY <4>1
    <3>3. QED
      BY <3>1, <3>2
  <2>3. CASE UNCHANGED listVars
    BY <2>3 DEF listVars
  <2>4. CASE UNCHANGED vars
    BY <2>4
  <2>5. QED
    BY <1>1, <2>2, <2>3, <2>4 DEF Next
<1>2. QED
  BY <1>1, Invariance, PTL DEF Spec, FailsOneWay

-----------------------------------------------------------------------------
(* What the list says now is what it said all along, when it never changed. *)
HistoryHolds ==
    /\ always => listed
    /\ never => ~listed

(* The lists are frozen once the connection is decided upon, so what the
   decision was says what the lists were. *)
DecisionHolds ==
    /\ phase = "decrypted" => ~always
    /\ phase \in {"splicing", "spliced", "refused"} => ~never

HInv == HistoryHolds /\ DecisionHolds

-----------------------------------------------------------------------------
LEMMA HelloInitInv == HelloInit => HInv
<1> SUFFICES ASSUME HelloInit PROVE HInv
  OBVIOUS
<1>1. always = listed /\ never = ~listed
  BY DEF HelloInit
<1>2. HistoryHolds
  BY <1>1, Zenon DEF HistoryHolds
<1>3. DecisionHolds
  BY DEF HelloInit, DecisionHolds
<1>4. QED
  BY <1>2, <1>3 DEF HInv

(* The lists change while nothing is decided. *)
LEMMA ListsStep ==
    ASSUME HInv, ListsChange
    PROVE  HInv'
<1>1. PICK l, a \in BOOLEAN :
        /\ l => a
        /\ listed' = l
        /\ any' = a
        /\ always' = (always /\ l)
        /\ never' = (never /\ ~l)
  BY DEF ListsChange
<1>2. HistoryHolds'
  BY <1>1 DEF HInv, HistoryHolds
<1>3. DecisionHolds'
  BY DEF ListsChange, Deciding, DecisionHolds
<1>4. QED
  BY <1>2, <1>3 DEF HInv

(* A connection that goes on with the lists as they are keeps the invariant if
   where it goes agrees with them. *)
LEMMA GoesStep ==
    ASSUME HInv, NEW to, Goes(to),
           to = "decrypted" => ~listed,
           to \in {"splicing", "spliced", "refused"} => listed \/ ~never
    PROVE  HInv'
  BY DEF HInv, HistoryHolds, DecisionHolds, Goes, nameVars

LEMMA ServeStep ==
    ASSUME HInv, Serve
    PROVE  HInv'
<1>1. CASE Accept
  BY <1>1, GoesStep DEF Accept
<1>2. CASE PeekLate \/ PeekClosed \/ PeekNotTls \/ PeekTooLarge
  BY <1>2, GoesStep DEF PeekLate, PeekClosed, PeekNotTls, PeekTooLarge
<1>3. CASE PeekComplete
  BY <1>3, GoesStep DEF PeekComplete
<1>4. CASE Spliced
  BY <1>4, GoesStep DEF Spliced, HInv, DecisionHolds
<1>5. CASE SpliceEnds \/ HandshakeFails
  BY <1>5, GoesStep DEF SpliceEnds, HandshakeFails
<1>6. CASE Decrypt
  BY <1>6, GoesStep DEF Decrypt
<1>7. CASE Refuse
  BY <1>7, GoesStep DEF Refuse
<1>8. QED
  BY <1>1, <1>2, <1>3, <1>4, <1>5, <1>6, <1>7 DEF Serve

LEMMA HelloStep == HInv /\ [HelloNext]_helloVars => HInv'
<1> SUFFICES ASSUME HInv, [HelloNext]_helloVars PROVE HInv'
  OBVIOUS
<1>1. CASE Arrive \/ ClientCloses \/ Deadline
  BY <1>1 DEF Arrive, ClientCloses, Deadline, nameVars, HInv, HistoryHolds, DecisionHolds
<1>2. CASE ListsChange
  BY <1>2, ListsStep
<1>3. CASE Serve
  BY <1>3, ServeStep
<1>4. CASE UNCHANGED helloVars
  BY <1>4 DEF helloVars, clientVars, nameVars, HInv, HistoryHolds, DecisionHolds
<1>5. QED
  BY <1>1, <1>2, <1>3, <1>4 DEF HelloNext

(* The histories and the decision agree, always. *)
THEOREM HelloInvariance == HelloSpec => []HInv
<1>1. QED
  BY HelloInitInv, HelloStep, PTL DEF HelloSpec

-----------------------------------------------------------------------------
(* The largest of some numbers, for Whole. *)
LEMMA Smallest ==
    ASSUME NEW T, T \subseteq Nat, T # {}
    PROVE  \E x \in T : \A y \in T : x <= y
<1> DEFINE R == OpToRel(<, Nat)
<1>1. IsWellFoundedOn(R, Nat)
  BY NatLessThanWellFounded
<1>2. \A x, y \in Nat : x < y => <<x, y>> \in R
  BY DEF OpToRel
<1> HIDE DEF R
<1>3. PICK x \in T : \A y \in T : ~ (<<y, x>> \in R)
  BY <1>1, WFMin
<1>4. \A y \in T : ~(y < x)
  BY <1>2, <1>3
<1>5. QED
  BY <1>4

LEMMA Largest ==
    ASSUME NEW n \in Nat, NEW S, S \subseteq 0 .. n, S # {}
    PROVE  Max(S) \in S /\ \A y \in S : y <= Max(S)
<1> DEFINE T == {n - k : k \in S}
<1>1. T \subseteq Nat
  OBVIOUS
<1>2. T # {}
  OBVIOUS
<1>3. PICK t \in T : \A y \in T : t <= y
  BY <1>1, <1>2, Smallest
<1>4. PICK k \in S : t = n - k
  OBVIOUS
<1>5. \A y \in S : n - k <= n - y
  BY <1>3, <1>4
<1>6. \A y \in S : k >= y
  BY <1>5
<1>7. QED
  BY <1>4, <1>6 DEF Max

LEMMA Smaller ==
    ASSUME NEW a \in Nat, NEW b \in Nat
    PROVE  /\ Min({a, b}) \in {a, b} /\ Min({a, b}) <= a /\ Min({a, b}) <= b
  BY DEF Min

-----------------------------------------------------------------------------
(* How records lie in a stream. *)
LEMMA Ends ==
    ASSUME NEW s \in Streams, NEW k \in 0 .. Len(s.ends)
    PROVE  /\ Len(s.ends) \in Nat
           /\ EndOf(s, k) \in Nat
           /\ \A j \in 0 .. Len(s.ends) : k <= j => EndOf(s, k) <= EndOf(s, j)
           /\ k < Len(s.ends) => EndOf(s, k) + RecordHeader <= EndOf(s, k + 1)
<1>1. s.ends \in Seq(Nat) /\ RecordHeader \in Nat
  BY StreamAssumption, HelloAssumption
<1>2. \A j \in 0 .. Len(s.ends) : EndOf(s, j) \in Nat
  BY <1>1 DEF EndOf
<1>3. \A j \in 0 .. Len(s.ends) : k <= j =>
        EndOf(s, k) - k * RecordHeader <= EndOf(s, j) - j * RecordHeader
  BY StreamAssumption
<1>4. \A i, j \in Nat : i <= j => i * RecordHeader <= j * RecordHeader
  BY <1>1
<1>5. (k + 1) * RecordHeader = k * RecordHeader + RecordHeader
  BY <1>1
<1>6. /\ \A i \in Nat : i * RecordHeader \in Nat
      /\ Len(s.ends) \in Nat
  BY <1>1
<1>7. ASSUME NEW j \in 0 .. Len(s.ends), k <= j PROVE EndOf(s, k) <= EndOf(s, j)
  <2>1. PICK x \in Nat, y \in Nat : x = k * RecordHeader /\ y = j * RecordHeader
    BY <1>6
  <2>2. x <= y
    BY <1>4, <1>6, <1>7, <2>1
  <2>3. EndOf(s, k) - x <= EndOf(s, j) - y
    BY <1>3, <1>7, <2>1
  <2>4. EndOf(s, k) \in Nat /\ EndOf(s, j) \in Nat
    BY <1>2
  <2>5. QED
    BY <2>2, <2>3, <2>4
<1>8. ASSUME k < Len(s.ends) PROVE EndOf(s, k) + RecordHeader <= EndOf(s, k + 1)
  <2>1. k + 1 \in 0 .. Len(s.ends) /\ k <= k + 1
    BY <1>6, <1>8
  <2>2. EndOf(s, k) - k * RecordHeader <= EndOf(s, k + 1) - (k * RecordHeader + RecordHeader)
    BY <1>3, <1>5, <2>1
  <2>3. k * RecordHeader \in Nat
    BY <1>6
  <2>4. QED
    BY <1>1, <1>2, <2>1, <2>2, <2>3
<1>9. QED
  BY <1>2, <1>6, <1>7, <1>8

(* The records that are whole, among the first n bytes. *)
LEMMA Front ==
    ASSUME NEW s \in Streams, NEW n \in Nat
    PROVE  /\ Whole(s, n) \in 0 .. Len(s.ends)
           /\ Consumed(s, n) \in Nat /\ Consumed(s, n) <= n
           /\ \A k \in 0 .. Len(s.ends) : EndOf(s, k) <= n => k <= Whole(s, n)
<1> DEFINE S == {k \in 0 .. Len(s.ends) : EndOf(s, k) <= n}
<1>1. s.ends \in Seq(Nat) /\ Len(s.ends) \in Nat
  BY StreamAssumption
<1>2. S \subseteq 0 .. Len(s.ends) /\ 0 \in S
  BY <1>1 DEF EndOf
<1>3. Max(S) \in S /\ \A y \in S : y <= Max(S)
  BY <1>1, <1>2, Largest
<1>4. Whole(s, n) = Max(S)
  BY DEF Whole
<1>5. QED
  BY <1>3, <1>4, Ends DEF Consumed

LEMMA Records == \A s \in Streams : Len(s.ends) \in Nat /\ s.declared \in Nat /\ Size(s) \in Nat
<1> SUFFICES ASSUME NEW s \in Streams PROVE Len(s.ends) \in Nat /\ s.declared \in Nat /\ Size(s) \in Nat
  OBVIOUS
<1>1. Len(s.ends) \in Nat /\ s.declared \in Nat /\ s.tail \in Nat
  BY StreamAssumption
<1>2. QED
  BY <1>1, Ends DEF Size

LEMMA AtLeast == \A d \in Nat \ {0}, h \in Nat : d * h >= h
  OBVIOUS

LEMMA FrontGrows ==
    ASSUME NEW s \in Streams, NEW r \in Nat, NEW n \in Nat, r <= n
    PROVE  Whole(s, r) <= Whole(s, n)
<1>1. Whole(s, r) \in 0 .. Len(s.ends) /\ EndOf(s, Whole(s, r)) <= n
  BY Front, Ends DEF Consumed
<1>2. QED
  BY <1>1, Front

(* More bytes do not make a stream TLS. *)
LEMMA NotTlsStays ==
    ASSUME NEW s \in Streams, NEW r \in Nat, NEW n \in Nat, r <= n, NotTls(s, r)
    PROVE  NotTls(s, n)
<1>1. CASE s.ends = <<>>
  BY <1>1 DEF NotTls
<1>2. CASE Absurd(s, r)
  <2>1. PICK k \in 1 .. Whole(s, r) + (IF Begun(s, r) THEN 1 ELSE 0) : PayloadOf(s, k) > MaxRecord
    BY <1>2 DEF Absurd
  <2>2. Whole(s, r) \in Nat /\ Whole(s, n) \in Nat /\ Whole(s, r) <= Whole(s, n)
    <3>1. Whole(s, r) \in 0 .. Len(s.ends) /\ Whole(s, n) \in 0 .. Len(s.ends)
      BY Front
    <3>2. QED
      BY <3>1, FrontGrows, Records
  <2>3. Whole(s, r) = Whole(s, n) /\ Begun(s, r) => Begun(s, n)
    BY Front, HelloAssumption DEF Begun, Consumed
  <2>4. k \in 1 .. Whole(s, n) + (IF Begun(s, n) THEN 1 ELSE 0)
    BY <2>1, <2>2, <2>3
  <2>5. QED
    BY <2>1, <2>4 DEF Absurd, NotTls
<1>3. QED
  BY <1>1, <1>2 DEF NotTls

-----------------------------------------------------------------------------
(* have_hello(): a front that holds the whole hello holds what was asked for.
   It has a record more, and every record is a header longer than it carries. *)
LEMMA WantIsEnough ==
    ASSUME NEW s \in Streams, NEW r \in Nat, NEW n \in Nat, r <= n, r > 0,
           ~NotTls(s, r), ~Complete(s, r), Complete(s, n)
    PROVE  Want(s, r) <= n
<1> DEFINE W == Whole(s, r)
           V == Whole(s, n)
           C == Consumed(s, r)
           D == Consumed(s, n)
<1>1. /\ W \in Nat /\ V \in Nat /\ C \in Nat /\ D \in Nat
      /\ W \in 0 .. Len(s.ends) /\ V \in 0 .. Len(s.ends) /\ Len(s.ends) \in Nat
      /\ D <= n /\ W <= V
  <2>1. W \in 0 .. Len(s.ends) /\ V \in 0 .. Len(s.ends)
    BY Front
  <2>2. C \in Nat /\ D \in Nat /\ D <= n
    BY Front
  <2>3. QED
    BY <2>1, <2>2, FrontGrows, Records
<1>2. RecordHeader \in Nat /\ MessageHeader \in Nat /\ s.declared \in Nat
  BY HelloAssumption, StreamAssumption
<1>3. /\ C = EndOf(s, W) /\ D = EndOf(s, V)
      /\ Payload(s, r) = C - W * RecordHeader
      /\ Payload(s, n) = D - V * RecordHeader
  BY DEF Consumed, Payload
<1>4. Needed(s) \in Nat /\ Payload(s, r) < Needed(s) /\ Needed(s) <= Payload(s, n)
  BY <1>1, <1>2, <1>3 DEF Complete, Needed
<1>5. W < V
  <2>1. W = V => Payload(s, r) = Payload(s, n)
    BY <1>3
  <2>2. Payload(s, r) \in Int /\ Payload(s, n) \in Int
    BY <1>1, <1>2, <1>3
  <2>3. QED
    BY <1>1, <1>4, <2>1, <2>2
<1>6. (V - W) * RecordHeader >= RecordHeader
  <2>1. V - W \in Nat \ {0}
    BY <1>1, <1>5
  <2>2. QED
    BY <1>2, <2>1, AtLeast
<1>7. V * RecordHeader = W * RecordHeader + (V - W) * RecordHeader
  BY <1>1, <1>2
<1>8. C + RecordHeader + (Needed(s) - Payload(s, r)) <= n
  <2>1. W * RecordHeader \in Nat /\ V * RecordHeader \in Nat /\ (V - W) * RecordHeader \in Int
    BY <1>1, <1>2
  <2>2. V * RecordHeader >= W * RecordHeader + RecordHeader
    BY <1>2, <1>6, <1>7, <2>1
  <2> DEFINE w == W * RecordHeader
             v == V * RecordHeader
  <2>3. /\ w \in Nat /\ v \in Nat /\ v >= w + RecordHeader
        /\ Payload(s, r) = C - w /\ Payload(s, n) = D - v
    BY <1>3, <2>1, <2>2
  <2> HIDE DEF w, v
  <2>4. Payload(s, n) - Payload(s, r) = (D - C) - (v - w)
    BY <1>1, <2>3
  <2>5. QED
    BY <1>1, <1>2, <1>4, <2>3, <2>4
<1>9. W + 1 \in 0 .. Len(s.ends) /\ EndOf(s, W + 1) \in Nat /\ EndOf(s, W + 1) <= n
  <2>1. W + 1 \in 0 .. Len(s.ends) /\ W + 1 <= V
    BY <1>1, <1>5
  <2>2. EndOf(s, W + 1) <= EndOf(s, V) /\ EndOf(s, W + 1) \in Nat
    BY <1>1, <2>1, Ends
  <2>3. QED
    BY <1>1, <1>3, <2>1, <2>2
<1>10. Needed(s) - Payload(s, r) \in Nat
  BY <1>1, <1>2, <1>3, <1>4
<1>11. Max({EndOf(s, W + 1), C + (Needed(s) - Payload(s, r))})
            \in {EndOf(s, W + 1), C + (Needed(s) - Payload(s, r))}
  BY <1>1, <1>9, <1>10 DEF Max
<1> HIDE DEF W, V, C, D
<1>12. QED
  BY <1>1, <1>2, <1>8, <1>9, <1>10, <1>11 DEF Want, W, C

LEMMA WantIsANumber ==
    ASSUME NEW s \in Streams, NEW r \in Nat
    PROVE  Want(s, r) \in Int
<1> DEFINE W == Whole(s, r)
           C == Consumed(s, r)
<1>1. W \in 0 .. Len(s.ends) /\ C \in Nat
  BY Front
<1>2. /\ RecordHeader \in Nat /\ MessageHeader \in Nat /\ s.declared \in Nat /\ Len(s.ends) \in Nat
  BY HelloAssumption, Records
<1>3. Needed(s) - Payload(s, r) \in Int
  BY <1>1, <1>2 DEF Needed, Payload
<1>4. Begun(s, r) => EndOf(s, W + 1) \in Nat
  <2>1. Begun(s, r) => W + 1 \in 0 .. Len(s.ends)
    BY <1>1, <1>2 DEF Begun
  <2>2. QED
    BY <2>1, Ends
<1>5. \A a, b \in Int : Max({a, b}) \in Int
  BY DEF Max
<1> HIDE DEF W, C
<1>6. QED
  BY <1>1, <1>2, <1>3, <1>4, <1>5 DEF Want, W, C

(* And a front of nothing but the hello's records that is not the whole of it
   is short of what is asked for. *)
LEMMA WantIsMore ==
    ASSUME NEW s \in Streams, NEW r \in Nat, r <= Size(s), r > 0, s.tail = 0,
           ~NotTls(s, r), ~Complete(s, r)
    PROVE  Want(s, r) > r
<1> DEFINE W == Whole(s, r)
           C == Consumed(s, r)
<1>1. /\ W \in Nat /\ C \in Nat /\ W \in 0 .. Len(s.ends) /\ Len(s.ends) \in Nat
      /\ C <= r /\ C = EndOf(s, W)
  <2>1. W \in 0 .. Len(s.ends) /\ C \in Nat /\ C <= r
    BY Front
  <2>2. QED
    BY <2>1, Records DEF Consumed
<1>2. RecordHeader \in Nat \ {0} /\ s.declared \in Nat /\ MessageHeader \in Nat
  BY HelloAssumption, StreamAssumption
<1>3. W < Len(s.ends) => EndOf(s, W + 1) \in Nat /\ EndOf(s, W + 1) > r
  <2>1. ASSUME W < Len(s.ends) PROVE W + 1 \in 0 .. Len(s.ends)
    BY <1>1, <2>1
  <2>2. ASSUME W < Len(s.ends) PROVE EndOf(s, W + 1) \in Nat
    BY <2>1, <2>2, Ends
  <2>3. ASSUME W < Len(s.ends) PROVE ~(EndOf(s, W + 1) <= r)
    <3>1. \A k \in 0 .. Len(s.ends) : EndOf(s, k) <= r => k <= W
      BY Front
    <3>2. QED
      BY <1>1, <2>1, <2>3, <3>1
  <2>4. QED
    BY <2>2, <2>3
<1>4. W = Len(s.ends) => C = r
  BY <1>1 DEF Size
<1>5. ~Begun(s, r) => C + RecordHeader > r
  BY <1>1, <1>2, <1>4 DEF Begun
<1>6. Payload(s, r) \in Int /\ Needed(s) \in Nat /\ Needed(s) - Payload(s, r) > 0
  BY <1>1, <1>2 DEF Complete, Needed, Payload
<1>7. W < Len(s.ends) =>
        LET both == {EndOf(s, W + 1), C + (Needed(s) - Payload(s, r))} IN
        Max(both) \in Int /\ Max(both) >= EndOf(s, W + 1)
  <2>1. \A a, b \in Int : Max({a, b}) \in Int /\ Max({a, b}) >= a
    BY DEF Max
  <2>2. C + (Needed(s) - Payload(s, r)) \in Int
    BY <1>1, <1>6
  <2>3. QED
    BY <1>3, <2>1, <2>2
<1> HIDE DEF W, C
<1>8. QED
  BY <1>1, <1>2, <1>3, <1>5, <1>6, <1>7 DEF Want, Begun, W, C
-----------------------------------------------------------------------------
(* A connection whose host is listed gets to a handshake only when the deadline
   was missed, when a peek will never show the whole hello, or when the client
   left without a byte. *)
MissedOnly ==
    /\ stream \in Streams /\ arrived \in Nat /\ arrived <= Size(stream)
    /\ always => any
    /\ always /\ ~late /\ phase = "handshake" =>
            ~Complete(stream, Shown) \/ (fin /\ arrived = 0)
    /\ always /\ ~late /\ phase = "refused" => ~Complete(stream, Shown)

LEMMA ReadIsShown ==
    ASSUME MissedOnly
    PROVE  /\ Read \in Nat /\ Shown \in Nat /\ Read <= Shown /\ Shown <= PeekBytes
           /\ Read <= Size(stream)
<1>1. Size(stream) \in Nat /\ PeekBytes \in Nat
  BY Records, HelloAssumption DEF MissedOnly, PeekBytes
<1>2. arrived \in Nat /\ arrived <= Size(stream)
  BY DEF MissedOnly
<1>3. \A a \in Nat, b \in Nat : Min({a, b}) \in {a, b} /\ Min({a, b}) <= a /\ Min({a, b}) <= b
  BY Smaller
<1>4. /\ Read \in {arrived, PeekBytes} /\ Read <= arrived /\ Read <= PeekBytes
      /\ Shown \in {Size(stream), PeekBytes} /\ Shown <= PeekBytes
  BY <1>1, <1>2, <1>3 DEF Read, Shown
<1>5. QED
  BY <1>1, <1>2, <1>4

LEMMA MissedInit == HelloInit => MissedOnly
<1> SUFFICES ASSUME HelloInit PROVE MissedOnly
  OBVIOUS
<1>1. stream \in Streams /\ arrived = 0 /\ phase = "accepted" /\ (listed => any) /\ always = listed
  BY DEF HelloInit
<1>2. Size(stream) \in Nat
  BY <1>1, Records
<1>3. QED
  BY <1>1, <1>2 DEF MissedOnly

LEMMA MissedStep ==
    ASSUME HInv, MissedOnly, [HelloNext]_helloVars
    PROVE  MissedOnly'
<1>1. CASE Arrive
  <2>1. PICK n \in arrived + 1 .. Size(stream) : arrived' = n
    BY <1>1 DEF Arrive
  <2>2. Size(stream) \in Nat
    BY Records DEF MissedOnly
  <2>3. ~fin /\ UNCHANGED <<stream, fin, late, nameVars, phase>>
    BY <1>1 DEF Arrive
  <2>4. QED
    BY <2>1, <2>2, <2>3 DEF MissedOnly, Shown, Size, EndOf, nameVars
<1>2. CASE ClientCloses \/ Deadline \/ UNCHANGED helloVars
  BY <1>2 DEF ClientCloses, Deadline, helloVars, clientVars, nameVars, MissedOnly, Shown
<1>3. CASE ListsChange
  <2>1. always' => always /\ any'
    <3>1. PICK l, a \in BOOLEAN : (l => a) /\ any' = a /\ always' = (always /\ l)
      BY <1>3 DEF ListsChange
    <3>2. QED
      BY <3>1, Zenon
  <2>2. UNCHANGED <<clientVars, phase>>
    BY <1>3 DEF ListsChange
  <2>3. QED
    BY <2>1, <2>2 DEF MissedOnly, Shown, clientVars
<1>4. CASE Serve
  <2>1. UNCHANGED <<clientVars, nameVars>>
    BY <1>4 DEF Serve, Accept, PeekLate, PeekClosed, PeekNotTls, PeekTooLarge, PeekComplete, Spliced,
       SpliceEnds, Decrypt, Refuse, HandshakeFails, Goes
  <2>2. /\ Read \in Nat /\ Shown \in Nat /\ Read <= Shown /\ Shown <= PeekBytes
    BY ReadIsShown
  <2>3. ASSUME always, ~late, phase' \in {"handshake", "refused"}
        PROVE  ~Complete(stream, Shown) \/ (fin /\ arrived = 0 /\ phase' = "handshake")
    <3>1. CASE Accept
      BY <2>3, <3>1 DEF Accept, Goes, MissedOnly
    <3>2. CASE PeekClosed
      BY <3>2 DEF PeekClosed, Goes
    <3>3. CASE PeekNotTls
      <4>1. NotTls(stream, Shown)
        BY <2>2, <3>3, NotTlsStays DEF PeekNotTls, MissedOnly
      <4>2. QED
        BY <4>1 DEF Complete
    <3>4. CASE PeekTooLarge
      <4>1. Wanting /\ Want(stream, Read) > PeekBytes
        BY <3>4 DEF PeekTooLarge
      <4>2. Complete(stream, Shown) => Want(stream, Read) <= Shown
        BY <2>2, <4>1, WantIsEnough DEF Wanting, MissedOnly
      <4>3. Complete(stream, Shown) => ~(Want(stream, Read) > PeekBytes)
        BY <2>2, <4>1, <4>2, WantIsANumber, HelloAssumption DEF PeekBytes, Wanting, MissedOnly
      <4>4. QED
        BY <4>1, <4>3
    <3>5. CASE Refuse
      <4>1. phase = "handshake" /\ Complete(stream, arrived)
        BY <3>5 DEF Refuse, HelloRead
      <4>2. arrived > 0
        BY <4>1 DEF Complete
      <4>3. QED
        BY <2>3, <4>1, <4>2 DEF MissedOnly
    <3>6. QED
      BY <1>4, <2>3, <3>1, <3>2, <3>3, <3>4, <3>5
         DEF Serve, PeekLate, PeekComplete, Spliced, SpliceEnds, Decrypt, HandshakeFails, Goes, HInv,
             HistoryHolds
  <2>4. MissedOnly'
    BY <2>1, <2>3 DEF MissedOnly, Shown, clientVars, nameVars
  <2>5. QED
    BY <2>4
<1>5. QED
  BY <1>1, <1>2, <1>3, <1>4 DEF HelloNext

(* tcp.rs, build_acceptor(): "The backstop for the whole passthrough promise".
   A host listed throughout is never decrypted: the callback asks the list
   again.  And it is turned away, instead of passed through, only when its hello
   was late or does not fit a peek: with any other, however it is framed and
   delivered, the peek neither gives up nor gets to the handshake.  A host that
   is not listed is neither tunnelled nor turned away, whatever else is. *)
THEOREM Backstop == HelloSpec => []ListsAreKeptTo
<1>1. HInv /\ MissedOnly => ListsAreKeptTo
  BY DEF HInv, DecisionHolds, MissedOnly, ListsAreKeptTo
<1>2. QED
  BY <1>1, MissedInit, MissedStep, HelloInitInv, HelloStep, PTL DEF HelloSpec

(* passthrough.rs, have_hello(): "so it stays a bound and never a guess".  What
   the peek waits for is more than is there and no more than the hello takes,
   for every framing of it, in one record or in many. *)
THEOREM Bound == HelloSpec => []WantIsABound
<1>1. MissedOnly => WantIsABound
  <2> SUFFICES ASSUME MissedOnly PROVE WantIsABound
    OBVIOUS
  <2>1. /\ Read \in Nat /\ Read <= Size(stream) /\ stream \in Streams
    BY ReadIsShown DEF MissedOnly
  <2>2. ASSUME Wanting, stream.tail = 0 PROVE Want(stream, Read) > Read
    BY <2>1, <2>2, WantIsMore DEF Wanting
  <2>3. ASSUME Wanting, NEW n \in Read .. Size(stream), Complete(stream, n) PROVE Want(stream, Read) <= n
    <3>1. n \in Nat /\ Read <= n
      BY <2>1
    <3>2. QED
      BY <2>1, <2>3, <3>1, WantIsEnough DEF Wanting
  <2>4. QED
    BY <2>2, <2>3 DEF WantIsABound
<1>2. QED
  BY <1>1, MissedInit, MissedStep, HelloInitInv, HelloStep, PTL DEF HelloSpec
===============================================================================

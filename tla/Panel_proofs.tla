---------------------------- MODULE Panel_proofs ----------------------------
(***************************************************************************)
(* What the pages under /.mach5/ keep and serve, proved for every set of   *)
(* sites, selectors and lists and every number of requests and crashes.    *)
(***************************************************************************)
EXTENDS Panel, TLAPS

Lists == [Sites -> SUBSET Selectors]

Values(k) == IF k = "settings" THEN Choices ELSE Lists

(* The four functions are of the two stores. *)
OfKinds ==
    /\ memory = [k \in Kinds |-> memory[k]]
    /\ file = [k \in Kinds |-> file[k]]
    /\ told = [k \in Kinds |-> told[k]]
    /\ lock = [k \in Kinds |-> lock[k]]
    /\ unsaved = [k \in Kinds |-> unsaved[k]]

(* While a change is under the lock, the value is what its page asked for, and
   the file is still the old one until it is written. *)
StoreOK(k) ==
    /\ memory[k] \in Values(k)
    /\ file[k] \in Values(k) \cup {NoFile, Garbled}
    /\ lock[k] = [pc |-> lock[k].pc, asked |-> lock[k].asked]
    /\ lock[k].pc \in {"free", "writing", "written"}
    /\ unsaved[k] \in BOOLEAN
    /\ lock[k].pc = "free" => memory[k] = told[k]
    /\ lock[k].pc # "free" => memory[k] = lock[k].asked
    /\ ~unsaved[k] => Load(k) = IF lock[k].pc = "writing" THEN told[k] ELSE memory[k]

StoreInv == OfKinds /\ \A k \in Kinds : StoreOK(k)

LEMMA NoValue == \A k \in Kinds : NoFile \notin Values(k) /\ Garbled \notin Values(k)
  BY StoreAssumption DEF Values, Lists

LEMMA EmptyIsValue == \A k \in Kinds : Empty[k] \in Values(k)
  BY StoreAssumption DEF Empty, Values, Lists, Kinds

LEMMA StoreStarts == StoreInit => StoreInv
<1> SUFFICES ASSUME StoreInit PROVE StoreInv
  OBVIOUS
<1>1. /\ file \in [settings : {NoFile, Garbled} \cup Choices, hidden : {NoFile, Garbled} \cup KeptLists]
      /\ memory = [k \in Kinds |-> Load(k)]
      /\ lock = [k \in Kinds |-> Unlocked]
      /\ told = memory
      /\ unsaved = [k \in Kinds |-> FALSE]
  BY DEF StoreInit
<1>2. KeptLists \subseteq Lists
  BY DEF KeptLists, Lists
<1>3. /\ file = [k \in Kinds |-> file[k]]
      /\ \A k \in Kinds : file[k] \in Values(k) \cup {NoFile, Garbled}
  BY <1>1, <1>2 DEF Kinds, Values
<1>4. OfKinds
  BY <1>1, <1>3 DEF OfKinds
<1>5. ASSUME NEW k \in Kinds PROVE StoreOK(k)
  <2>1. /\ memory[k] = Load(k) /\ told[k] = Load(k) /\ lock[k] = Unlocked /\ ~unsaved[k]
        /\ unsaved[k] \in BOOLEAN
    BY <1>1, <1>5
  <2>2. Load(k) \in Values(k)
    BY <1>3, <1>5, EmptyIsValue DEF Load
  <2>3. QED
    BY <1>3, <2>1, <2>2 DEF StoreOK, Unlocked
<1>6. QED
  BY <1>4, <1>5 DEF StoreInv

(* One store moves on, and the other stays as it is. *)
LEMMA OneStore ==
    ASSUME StoreInv, NEW k \in Kinds, StoreOK(k)', OfKinds',
           \A j \in Kinds : j # k =>
               /\ memory'[j] = memory[j] /\ file'[j] = file[j] /\ told'[j] = told[j]
               /\ lock'[j] = lock[j] /\ unsaved'[j] = unsaved[j]
    PROVE  StoreInv'
<1>1. ASSUME NEW j \in Kinds, j # k PROVE StoreOK(j)'
  <2>1. /\ memory'[j] = memory[j] /\ file'[j] = file[j] /\ told'[j] = told[j]
        /\ lock'[j] = lock[j] /\ unsaved'[j] = unsaved[j]
    BY <1>1
  <2>2. Load(j)' = Load(j)
    BY <2>1 DEF Load
  <2>3. StoreOK(j)
    BY DEF StoreInv
  <2>4. QED
    BY <2>1, <2>2, <2>3 DEF StoreOK
<1>2. QED
  BY <1>1 DEF StoreInv

LEMMA ChangeKeeps ==
    ASSUME StoreInv, NEW k \in Kinds, NEW value \in Values(k), NEW asked, Change(k, value, asked),
           memory[k] = told[k] => asked = value
    PROVE  StoreInv'
<1>1. OfKinds /\ StoreOK(k) /\ lock[k].pc = "free"
  BY DEF StoreInv, Change
<1>2. asked = value
  BY <1>1 DEF StoreOK
<1>3. CASE value = memory[k]
  <2>1. told' = [told EXCEPT ![k] = asked] /\ UNCHANGED <<memory, file, lock, unsaved>>
    BY <1>3 DEF Change
  <2>2. OfKinds' /\ told'[k] = memory[k] /\ \A j \in Kinds : j # k => told'[j] = told[j]
    BY <1>1, <1>2, <1>3, <2>1 DEF OfKinds
  <2>3. StoreOK(k)'
    BY <1>1, <2>1, <2>2 DEF StoreOK, Load
  <2>4. QED
    BY <2>1, <2>2, <2>3, OneStore
<1>4. CASE value # memory[k]
  <2> DEFINE locked == [pc |-> "writing", asked |-> asked]
  <2>1. /\ memory' = [memory EXCEPT ![k] = value] /\ lock' = [lock EXCEPT ![k] = locked]
        /\ file' = [file EXCEPT ![k] = file[k]] /\ UNCHANGED <<told, unsaved>>
    BY <1>4 DEF Change, Meanwhile
  <2>2. locked.pc = "writing" /\ locked.asked = value /\ locked = [pc |-> locked.pc, asked |-> locked.asked]
    BY <1>2
  <2> HIDE DEF locked
  <2>3. /\ OfKinds' /\ memory'[k] = value /\ lock'[k] = locked /\ file' = file
        /\ \A j \in Kinds : j # k => memory'[j] = memory[j] /\ lock'[j] = lock[j]
    BY <1>1, <2>1 DEF OfKinds
  <2>4. StoreOK(k)'
    BY <1>1, <2>1, <2>2, <2>3 DEF StoreOK, Load
  <2>5. QED
    BY <2>1, <2>3, <2>4, OneStore
<1>5. QED
  BY <1>3, <1>4

LEMMA PublishKeeps ==
    ASSUME StoreInv, NEW k \in Kinds, Publish(k)
    PROVE  StoreInv'
<1> DEFINE locked == [lock[k] EXCEPT !.pc = "written"]
<1>1. OfKinds /\ StoreOK(k) /\ lock[k].pc = "writing"
  BY DEF StoreInv, Publish
<1>2. /\ file' = [file EXCEPT ![k] = memory[k]] /\ lock' = [lock EXCEPT ![k] = locked]
      /\ unsaved' = [unsaved EXCEPT ![k] = FALSE] /\ UNCHANGED <<memory, told>>
  BY DEF Publish
<1>3. /\ locked.pc = "written" /\ locked.asked = lock[k].asked
      /\ locked = [pc |-> locked.pc, asked |-> locked.asked]
  BY <1>1 DEF StoreOK
<1> HIDE DEF locked
<1>4. /\ OfKinds' /\ file'[k] = memory[k] /\ lock'[k] = locked /\ unsaved'[k] = FALSE
      /\ \A j \in Kinds : j # k => file'[j] = file[j] /\ lock'[j] = lock[j] /\ unsaved'[j] = unsaved[j]
  BY <1>1, <1>2 DEF OfKinds
<1>5. memory[k] \notin {NoFile, Garbled}
  BY <1>1, NoValue DEF StoreOK
<1>6. Load(k)' = memory[k]
  BY <1>2, <1>4, <1>5 DEF Load
<1>7. StoreOK(k)'
  BY <1>1, <1>2, <1>3, <1>4, <1>6 DEF StoreOK
<1>8. QED
  BY <1>2, <1>4, <1>7, OneStore

LEMMA PublishFailsKeeps ==
    ASSUME StoreInv, NEW k \in Kinds, PublishFails(k)
    PROVE  StoreInv'
<1> DEFINE locked == [lock[k] EXCEPT !.pc = "written"]
<1>1. OfKinds /\ StoreOK(k) /\ lock[k].pc = "writing"
  BY DEF StoreInv, PublishFails
<1>2. /\ lock' = [lock EXCEPT ![k] = locked]
      /\ unsaved' = [unsaved EXCEPT ![k] = TRUE] /\ UNCHANGED <<memory, file, told>>
  BY DEF PublishFails
<1>3. /\ locked.pc = "written" /\ locked.asked = lock[k].asked
      /\ locked = [pc |-> locked.pc, asked |-> locked.asked]
  BY <1>1 DEF StoreOK
<1> HIDE DEF locked
<1>4. /\ OfKinds' /\ lock'[k] = locked /\ unsaved'[k] = TRUE
      /\ \A j \in Kinds : j # k => lock'[j] = lock[j] /\ unsaved'[j] = unsaved[j]
  BY <1>1, <1>2 DEF OfKinds
<1>5. StoreOK(k)'
  BY <1>1, <1>2, <1>3, <1>4 DEF StoreOK
<1>6. QED
  BY <1>2, <1>4, <1>5, OneStore

LEMMA AnswerKeeps ==
    ASSUME StoreInv, NEW k \in Kinds, Answer(k)
    PROVE  StoreInv'
<1>1. OfKinds /\ StoreOK(k) /\ lock[k].pc = "written"
  BY DEF StoreInv, Answer
<1>2. /\ lock' = [lock EXCEPT ![k] = Unlocked]
      /\ told' = [told EXCEPT ![k] = lock[k].asked] /\ UNCHANGED <<memory, file, unsaved>>
  BY DEF Answer
<1>3. Unlocked.pc = "free" /\ Unlocked = [pc |-> Unlocked.pc, asked |-> Unlocked.asked]
  BY DEF Unlocked
<1>4. /\ OfKinds' /\ lock'[k] = Unlocked /\ told'[k] = lock[k].asked
      /\ \A j \in Kinds : j # k => lock'[j] = lock[j] /\ told'[j] = told[j]
  BY <1>1, <1>2 DEF OfKinds
<1>5. Load(k)' = Load(k)
  BY <1>2 DEF Load
<1>6. StoreOK(k)'
  BY <1>1, <1>2, <1>3, <1>4, <1>5 DEF StoreOK
<1>7. QED
  BY <1>2, <1>4, <1>6, OneStore

LEMMA RequestKeeps ==
    ASSUME StoreInv, NEW site \in Sites, NEW page \in Sites \cup {NoPage},
           \/ \E s \in Selectors : Hide(site, page, s) \/ Unhide(site, page, s)
           \/ Clear(site, page)
           \/ \E c \in Choices : ChangeSettings(site, page, c)
    PROVE  StoreInv'
<1>1. "hidden" \in Kinds /\ "settings" \in Kinds
  BY DEF Kinds
<1>2. memory.hidden \in Lists
  BY <1>1 DEF StoreInv, StoreOK, Values
<1>3. SameOrigin(site, page) => \A k, value : Own(site, page, k, value) = value
  BY DEF SameOrigin, Own
<1>4. \A selectors \in SUBSET Selectors : Put(memory.hidden, site, selectors) \in Values("hidden")
  BY <1>2 DEF Put, Lists, Values
<1>5. memory.hidden[site] \in SUBSET Selectors
  BY <1>2 DEF Lists
<1>6. ASSUME NEW s \in Selectors, Hide(site, page, s) PROVE StoreInv'
  <2> DEFINE value == Put(memory.hidden, site, memory.hidden[site] \cup {s})
             asked == Own(site, page, "hidden", Put(told.hidden, site, told.hidden[site] \cup {s}))
  <2>1. Change("hidden", value, asked) /\ SameOrigin(site, page)
    BY <1>6 DEF Hide
  <2>2. value \in Values("hidden")
    BY <1>4, <1>5
  <2>3. memory["hidden"] = told["hidden"] => asked = value
    BY <1>3, <2>1
  <2> HIDE DEF value, asked
  <2>4. QED
    BY <1>1, <2>1, <2>2, <2>3, ChangeKeeps
<1>7. ASSUME NEW s \in Selectors, Unhide(site, page, s) PROVE StoreInv'
  <2> DEFINE value == Put(memory.hidden, site, memory.hidden[site] \ {s})
             asked == Own(site, page, "hidden", Put(told.hidden, site, told.hidden[site] \ {s}))
  <2>1. Change("hidden", value, asked) /\ SameOrigin(site, page)
    BY <1>7 DEF Unhide
  <2>2. value \in Values("hidden")
    BY <1>4, <1>5
  <2>3. memory["hidden"] = told["hidden"] => asked = value
    BY <1>3, <2>1
  <2> HIDE DEF value, asked
  <2>4. QED
    BY <1>1, <2>1, <2>2, <2>3, ChangeKeeps
<1>8. ASSUME Clear(site, page) PROVE StoreInv'
  <2> DEFINE value == Put(memory.hidden, site, {})
             asked == Own(site, page, "hidden", Put(told.hidden, site, {}))
  <2>1. Change("hidden", value, asked) /\ SameOrigin(site, page)
    BY <1>8 DEF Clear
  <2>2. value \in Values("hidden")
    BY <1>4
  <2>3. memory["hidden"] = told["hidden"] => asked = value
    BY <1>3, <2>1
  <2> HIDE DEF value, asked
  <2>4. QED
    BY <1>1, <2>1, <2>2, <2>3, ChangeKeeps
<1>9. ASSUME NEW c \in Choices, ChangeSettings(site, page, c) PROVE StoreInv'
  <2> DEFINE asked == Own(site, page, "settings", c)
  <2>1. Change("settings", c, asked) /\ SameOrigin(site, page)
    BY <1>9 DEF ChangeSettings
  <2>2. c \in Values("settings") /\ asked = c
    BY <1>3, <2>1 DEF Values
  <2> HIDE DEF asked
  <2>3. QED
    BY <1>1, <2>1, <2>2, ChangeKeeps
<1>10. QED
  BY <1>6, <1>7, <1>8, <1>9

(* The process comes back to what is on disk. *)
LEMMA StoreRestartKeeps ==
    ASSUME StoreInv, StoreRestart
    PROVE  StoreInv'
<1>1. OfKinds /\ \A k \in Kinds : StoreOK(k)
  BY DEF StoreInv
<1>2. UNCHANGED file /\ \A k \in Kinds : Load(k)' = Load(k)
  BY DEF StoreRestart, Load
<1>3. \A k \in Kinds : memory'[k] = Load(k) /\ lock'[k] = Unlocked /\ ~unsaved'[k] /\ unsaved'[k] \in BOOLEAN
  BY DEF StoreRestart
<1>4. OfKinds'
  <2>1. /\ memory' = [k \in Kinds |-> memory'[k]] /\ lock' = [k \in Kinds |-> lock'[k]]
        /\ unsaved' = [k \in Kinds |-> unsaved'[k]]
    BY DEF StoreRestart
  <2>2. told' = [k \in Kinds |-> told'[k]]
    BY DEF StoreRestart
  <2>3. QED
    BY <1>1, <1>2, <2>1, <2>2 DEF OfKinds
<1>5. ASSUME NEW k \in Kinds PROVE told'[k] = Load(k)
  <2>1. told'[k] = IF unsaved[k] \/ (lock[k].pc # "free" /\ Load(k) = lock[k].asked)
                   THEN Load(k) ELSE told[k]
    BY DEF StoreRestart
  <2>2. StoreOK(k)
    BY <1>1
  <2>3. QED
    BY <2>1, <2>2 DEF StoreOK
<1>6. ASSUME NEW k \in Kinds PROVE StoreOK(k)'
  <2>1. Load(k) \in Values(k) /\ file[k] \in Values(k) \cup {NoFile, Garbled}
    BY <1>1, EmptyIsValue DEF StoreOK, Load
  <2>2. /\ memory'[k] = Load(k) /\ told'[k] = Load(k) /\ lock'[k] = Unlocked /\ ~unsaved'[k]
        /\ unsaved'[k] \in BOOLEAN /\ file'[k] = file[k] /\ Load(k)' = Load(k)
    BY <1>2, <1>3, <1>5
  <2>3. QED
    BY <2>1, <2>2 DEF StoreOK, Unlocked
<1>7. QED
  BY <1>4, <1>6 DEF StoreInv

(* What is in force is what the requests that were answered asked for, and is
   so after every crash that no failed write came before: persist() of
   settings.rs and internal.rs, under the lock each store has. *)
THEOREM Kept == Spec => []AnsweredIsKept
<1>1. Init => StoreInv
  BY StoreStarts DEF Init
<1>2. StoreInv /\ [Next]_vars => StoreInv'
  <2> SUFFICES ASSUME StoreInv, [Next]_vars PROVE StoreInv'
    OBVIOUS
  <2>1. CASE UNCHANGED storeVars
    <3>1. UNCHANGED <<memory, file, lock, told, unsaved>>
      BY <2>1 DEF storeVars
    <3>2. \A k \in Kinds : Load(k)' = Load(k)
      BY <3>1 DEF Load
    <3>3. QED
      BY <3>1, <3>2 DEF StoreInv, OfKinds, StoreOK
  <2>2. CASE (part \in Kinds /\ StoreNext(part)) \/ StoreNext("hidden")
    <3>1. PICK k \in Kinds : StoreNext(k)
      BY <2>2 DEF Kinds
    <3>2. QED
      BY <3>1, PublishKeeps, PublishFailsKeeps, AnswerKeeps, RequestKeeps DEF StoreNext
  <2>3. CASE StoreRestart
    BY <2>3, StoreRestartKeeps
  <2>4. QED
    BY <2>1, <2>2, <2>3 DEF Next, Storing, Listing, ServingSheet, Restart, vars
<1>3. StoreInv => AnsweredIsKept
  BY DEF StoreInv, StoreOK, AnsweredIsKept
<1>4. QED
  BY <1>1, <1>2, <1>3, PTL DEF Spec

-----------------------------------------------------------------------------
(* What is in force is in the configured file or in the copy on disk, but for
   a text that could not be written or is still on its way. *)
OnDisk == FileText[registry] \cup (IF text = NoText THEN {} ELSE text)

Underway == refresher.fresh /\ refresher.pc # "storing"

OutageInv ==
    /\ refresher = [pc |-> refresher.pc, got |-> refresher.got, fresh |-> refresher.fresh]
    /\ refresher.pc \in {"asleep", "asking", "storing", "tagging", "building"}
    /\ refresher.fresh \in BOOLEAN
    /\ refresher.pc \in {"asleep", "asking"} => ~refresher.fresh
    /\ refresher.pc \in {"storing", "tagging"} => refresher.fresh
    /\ refresher.pc = "building" /\ (refresher.fresh => ~unwritten) => refresher.got = text
    /\ refresher.pc = "tagging" => refresher.got = text
    /\ ~unwritten /\ ~Underway => force \subseteq OnDisk

LEMMA BuildIsOnDisk ==
    /\ Build(text) \subseteq OnDisk
    /\ readable => Build(text) = OnDisk
  BY DEF Build, OnDisk

LEMMA OutageStarts == ListInit => OutageInv
  BY BuildIsOnDisk DEF ListInit, OutageInv, Asleep

LEMMA ListKeeps ==
    ASSUME OutageInv, ListNext
    PROVE  OutageInv' /\ OutageKeeps
<1>1. CASE WorldChanges
  BY <1>1 DEF WorldChanges, OutageInv, OutageKeeps, OnDisk, Underway
<1>2. CASE Wake
  BY <1>2 DEF Wake, Goes, OutageInv, OutageKeeps, OnDisk, Underway
<1>3. CASE AnswerWhole
  BY <1>3 DEF AnswerWhole, Goes, OutageInv, OutageKeeps, OnDisk, Underway
<1>4. CASE AnswerCached
  BY <1>4 DEF AnswerCached, WithoutAnswer, Goes, OutageInv, OutageKeeps, OnDisk, Underway
<1>5. CASE StoreText
  BY <1>5 DEF StoreText, Goes, OutageInv, OutageKeeps, OnDisk, Underway
<1>6. CASE StoreFails
  BY <1>6 DEF StoreFails, Goes, OutageInv, OutageKeeps, OnDisk, Underway
<1>7. CASE StoreTags
  BY <1>7 DEF StoreTags, Goes, OutageInv, OutageKeeps, OnDisk, Underway
<1>8. CASE Swap
  <2>1. /\ refresher.pc = "building" /\ force' = Build(refresher.got) /\ refresher' = Asleep
        /\ UNCHANGED <<registry, readable, text, unwritten>>
    BY <1>8 DEF Swap
  <2>2. ~unwritten => refresher.got = text
    BY <2>1 DEF OutageInv
  <2>3. ~unwritten => force' \subseteq OnDisk /\ OnDisk' = OnDisk
    BY <2>1, <2>2, BuildIsOnDisk DEF OnDisk
  <2>4. OutageInv'
    BY <2>1, <2>3 DEF OutageInv, Asleep, Underway
  <2>5. OutageKeeps
    BY <2>1, <2>2, BuildIsOnDisk DEF OutageInv, OutageKeeps, Underway
  <2>6. QED
    BY <2>4, <2>5
<1>9. QED
  BY <1>1, <1>2, <1>3, <1>4, <1>5, <1>6, <1>7, <1>8 DEF ListNext

LEMMA ListRestartKeeps ==
    ASSUME OutageInv, ListRestart
    PROVE  OutageInv' /\ OutageKeeps
<1>1. /\ force' = Build(text) /\ refresher' = Asleep /\ unwritten' = FALSE
      /\ UNCHANGED <<registry, readable, text>>
  BY DEF ListRestart
<1>2. force' \subseteq OnDisk /\ OnDisk' = OnDisk
  BY <1>1, BuildIsOnDisk DEF OnDisk
<1>3. OutageInv'
  BY <1>1, <1>2 DEF OutageInv, Asleep, Underway
<1>4. OutageKeeps
  BY <1>1, BuildIsOnDisk DEF OutageInv, OutageKeeps, Underway
<1>5. QED
  BY <1>3, <1>4

(* Nothing that is in force goes without a new text from the origin, neither
   by a refresh nor by a restart: refresh() of blocklist.rs and cosmetic.rs,
   over fetch() and store() of fetch.rs. *)
THEOREM Outage == Spec => OutageKeepsRules
<1>1. Init => OutageInv
  BY OutageStarts DEF Init
<1>2. OutageInv /\ [Next]_vars => OutageInv' /\ [OutageKeeps]_vars
  <2> SUFFICES ASSUME OutageInv, [Next]_vars PROVE OutageInv' /\ OutageKeeps
    OBVIOUS
  <2>1. CASE UNCHANGED listVars
    BY <2>1 DEF listVars, OutageInv, OutageKeeps, OnDisk, Underway
  <2>2. CASE ListNext
    BY <2>2, ListKeeps
  <2>3. CASE ListRestart
    BY <2>3, ListRestartKeeps
  <2>4. QED
    BY <2>1, <2>2, <2>3 DEF Next, Storing, Listing, ServingSheet, Restart, vars
<1>3. QED
  BY <1>1, <1>2, PTL DEF Spec, OutageKeepsRules

-----------------------------------------------------------------------------
(* What is to be hidden now. *)
Due(host) == Picked(host) \cup ListedFor(host)

OnlyListed(host) == ListedFor(host) \ Picked(host)
OnlyPicked(host) == Picked(host) \ ListedFor(host)

(* While a sheet is made, what had to be in it all the time is due now, what
   is due now may be in it, and what only a rule hides, or what a pick took over
   from one, is on record.  Once the picks are read, what had to be in it and is
   not is what only a rule hid then. *)
Making == sheet.pc \in {"picking", "listing"}

SheetInv ==
    /\ sheet.pc \in {"none", "picking", "listing", "sent"}
    /\ Making =>
        /\ sheet = [pc |-> sheet.pc, host |-> sheet.host, body |-> sheet.body,
                    must |-> sheet.must, may |-> sheet.may,
                    listed |-> sheet.listed, moved |-> sheet.moved]
        /\ sheet.must \subseteq Due(sheet.host)
        /\ Due(sheet.host) \subseteq sheet.may
        /\ OnlyListed(sheet.host) \subseteq sheet.listed
        /\ sheet.listed \cap OnlyPicked(sheet.host) \subseteq sheet.moved
    /\ sheet.pc = "listing" =>
        /\ sheet.must \ sheet.body \subseteq sheet.listed
        /\ sheet.body \subseteq sheet.may
    /\ SheetIsCurrent

LEMMA SourcesStay ==
    ASSUME UNCHANGED <<storeVars, listVars>>
    PROVE  \A h : /\ Picked(h)' = Picked(h) /\ ListedFor(h)' = ListedFor(h)
                  /\ Due(h)' = Due(h)
                  /\ OnlyListed(h)' = OnlyListed(h) /\ OnlyPicked(h)' = OnlyPicked(h)
  BY DEF Due, OnlyListed, OnlyPicked, Picked, ListedFor, storeVars, listVars

LEMMA AskedKeeps ==
    ASSUME SheetInv, SheetAsked, UNCHANGED <<storeVars, listVars>>
    PROVE  SheetInv'
<1>1. PICK h \in Sites :
        sheet' = [pc |-> "picking", host |-> h, body |-> {}, must |-> Due(h), may |-> Due(h),
                  listed |-> OnlyListed(h), moved |-> {}]
  BY DEF SheetAsked, Due, OnlyListed
<1>2. /\ Due(h)' = Due(h)
      /\ OnlyListed(h)' = OnlyListed(h) /\ OnlyPicked(h)' = OnlyPicked(h)
  BY SourcesStay
<1>3. OnlyListed(h) \cap OnlyPicked(h) = {}
  BY DEF OnlyListed, OnlyPicked
<1>4. QED
  BY <1>1, <1>2, <1>3 DEF SheetInv, SheetIsCurrent, Making

LEMMA PicksKeeps ==
    ASSUME SheetInv, SheetPicks, UNCHANGED <<storeVars, listVars>>
    PROVE  SheetInv'
<1>1. PICK h : h = sheet.host
  OBVIOUS
<1>2. /\ sheet.pc = "picking"
      /\ sheet.must \subseteq Due(h) /\ Due(h) \subseteq sheet.may
      /\ OnlyListed(h) \subseteq sheet.listed
      /\ sheet.listed \cap OnlyPicked(h) \subseteq sheet.moved
      /\ sheet' = [pc |-> "listing", host |-> h, body |-> Picked(h),
                   must |-> sheet.must, may |-> sheet.may,
                   listed |-> sheet.listed, moved |-> sheet.moved]
  BY <1>1 DEF SheetPicks, SheetInv, Making
<1>3. /\ Due(h)' = Due(h)
      /\ OnlyListed(h)' = OnlyListed(h) /\ OnlyPicked(h)' = OnlyPicked(h)
  BY SourcesStay
<1>4. Due(h) \ Picked(h) = OnlyListed(h) /\ Picked(h) \subseteq Due(h)
  BY DEF Due, OnlyListed
<1>5. QED
  BY <1>2, <1>3, <1>4 DEF SheetInv, SheetIsCurrent, Making

LEMMA ListsKeeps ==
    ASSUME SheetInv, SheetLists
    PROVE  SheetInv'
<1>1. PICK h : h = sheet.host
  OBVIOUS
<1> DEFINE body == sheet.body \cup ListedFor(h)
<1>2. /\ sheet.pc = "listing"
      /\ sheet.must \subseteq Due(h) /\ Due(h) \subseteq sheet.may
      /\ sheet.listed \cap OnlyPicked(h) \subseteq sheet.moved
      /\ sheet' = [pc |-> "sent", host |-> h, body |-> body, must |-> sheet.must, may |-> sheet.may,
                   listed |-> sheet.listed, moved |-> sheet.moved]
  BY <1>1 DEF SheetLists, SheetInv, Making
<1>3. sheet.must \ sheet.body \subseteq sheet.listed /\ sheet.body \subseteq sheet.may
  BY <1>2 DEF SheetInv
<1>4. Due(h) \ ListedFor(h) = OnlyPicked(h) /\ ListedFor(h) \subseteq Due(h)
  BY DEF Due, OnlyPicked
<1>5. sheet.must \ sheet.moved \subseteq body
  BY <1>2, <1>3, <1>4
<1>6. body \subseteq sheet.may
  BY <1>2, <1>3, <1>4
<1> HIDE DEF body
<1>7. QED
  BY <1>2, <1>5, <1>6 DEF SheetInv, SheetIsCurrent, Making

LEMMA WatchedKeeps ==
    ASSUME SheetInv, Watched
    PROVE  SheetInv'
<1>1. CASE Making
  <2>1. PICK h : h = sheet.host
    OBVIOUS
  <2> DEFINE must == sheet.must \cap Due(h)'
             may == sheet.may \cup Due(h)'
             listed == sheet.listed \cup OnlyListed(h)'
             moved == sheet.moved \cup (sheet.listed \cap OnlyPicked(h)')
  <2>2. sheet' = [sheet EXCEPT !.must = must, !.may = may, !.listed = listed, !.moved = moved]
    <3>1. PICK picked \in {Picked(h)'}, mine \in {ListedFor(h)'} :
            sheet' = [sheet EXCEPT !.must = @ \cap (picked \cup mine),
                                   !.may = @ \cup picked \cup mine,
                                   !.listed = @ \cup (mine \ picked),
                                   !.moved = @ \cup (sheet.listed \cap (picked \ mine))]
      BY <1>1, <2>1 DEF Watched, Making
    <3>2. picked \cup mine = Due(h)' /\ mine \ picked = OnlyListed(h)' /\ picked \ mine = OnlyPicked(h)'
      BY DEF Due, OnlyListed, OnlyPicked
    <3>3. sheet.may \cup picked \cup mine = may
      BY <3>2
    <3>4. QED
      BY <3>1, <3>2, <3>3
  <2>3. sheet' = [pc |-> sheet.pc, host |-> h, body |-> sheet.body, must |-> must, may |-> may,
                  listed |-> listed, moved |-> moved]
    BY <1>1, <2>1, <2>2 DEF SheetInv
  <2>4. OnlyListed(h)' \cap OnlyPicked(h)' = {}
    BY DEF OnlyListed, OnlyPicked
  <2>5. /\ must \subseteq Due(h)' /\ Due(h)' \subseteq may
        /\ must \subseteq sheet.must /\ sheet.may \subseteq may
        /\ OnlyListed(h)' \subseteq listed /\ sheet.listed \subseteq listed
        /\ listed \cap OnlyPicked(h)' \subseteq moved
    BY <2>4
  <2> HIDE DEF must, may, listed, moved
  <2>6. QED
    BY <1>1, <2>3, <2>5 DEF SheetInv, SheetIsCurrent, Making
<1>2. CASE ~Making
  <2>1. sheet'.pc = "none"
    BY <1>2 DEF Watched, Making, NoSheet
  <2>2. QED
    BY <2>1 DEF SheetInv, SheetIsCurrent, Making
<1>3. QED
  BY <1>1, <1>2

(* A stylesheet hides nothing that was neither picked nor listed at any time
   while it was made, and whatever was the one or the other all the while, but
   for what a rule hid first and then a pick alone: stylesheet() of internal.rs,
   which reads the picks before the rules, each under a lock of its own. *)
THEOREM Sheets == Spec => []SheetIsCurrent
<1>1. Init => SheetInv
  BY DEF Init, NoSheet, SheetInv, SheetIsCurrent, Making
<1>2. SheetInv /\ [Next]_vars => SheetInv'
  <2> SUFFICES ASSUME SheetInv, [Next]_vars PROVE SheetInv'
    OBVIOUS
  <2>1. CASE UNCHANGED vars
    <3>1. /\ UNCHANGED sheet /\ Due(sheet.host)' = Due(sheet.host)
          /\ OnlyListed(sheet.host)' = OnlyListed(sheet.host)
          /\ OnlyPicked(sheet.host)' = OnlyPicked(sheet.host)
      BY <2>1 DEF vars, storeVars, listVars, Due, OnlyListed, OnlyPicked, Picked, ListedFor
    <3>2. QED
      BY <3>1 DEF SheetInv, SheetIsCurrent, Making
  <2>2. CASE Watched
    BY <2>2, WatchedKeeps
  <2>3. CASE ServingSheet
    BY <2>3, AskedKeeps, PicksKeeps, ListsKeeps DEF ServingSheet
  <2>4. CASE Restart
    BY <2>4 DEF Restart, NoSheet, SheetInv, SheetIsCurrent, Making
  <2>5. QED
    BY <2>1, <2>2, <2>3, <2>4 DEF Next, Storing, Listing
<1>3. SheetInv => SheetIsCurrent
  BY DEF SheetInv
<1>4. QED
  BY <1>1, <1>2, <1>3, PTL DEF Spec

-----------------------------------------------------------------------------
(* The sets a blocklist is kept as say what its lines say, one by one. *)
LEMMA CoveredByOne ==
    ASSUME NEW lines, NEW which, NEW host
    PROVE  Covers(In(lines, which), host) <=>
               \E l \in lines : Into(l) = which /\ Covers(Readable(l.names), host)
  BY DEF Covers, In, Readable

LEMMA WhereItGoes ==
    ASSUME NEW line, line.path \in BOOLEAN
    PROVE  /\ Into(line) = "blocked" <=>
                \/ line.form = "hosts"
                \/ line.form = "anchor" /\ ~line.path /\ line.option = "none"
           /\ Into(line) = "blocked_embedded" <=>
                line.form = "anchor" /\ ~line.path /\ line.option = "third-party"
           /\ Into(line) = "allowed" <=>
                line.form = "exception" /\ ~line.path /\ line.option = "none"
           /\ Into(line) = "allowed_embedded" <=>
                line.form = "exception" /\ ~line.path /\ line.option = "third-party"
<1>1. Anchored(line) = "plain" <=> ~line.path /\ line.option = "none"
  BY DEF Anchored
<1>2. Anchored(line) = "third-party" <=> ~line.path /\ line.option = "third-party"
  BY DEF Anchored
<1>3. QED
  BY <1>1, <1>2 DEF Into

Lines == FileText[registry] \cup UNION Texts[registry]

SomeText == {NoText} \cup Texts[registry]

ForceInv ==
    /\ registry \in Registries
    /\ origin \in Texts[registry]
    /\ text \in SomeText
    /\ refresher.got \in SomeText
    /\ force \subseteq Lines

LEMMA BuildIsLines ==
    ASSUME NEW got \in SomeText
    PROVE  Build(got) \subseteq Lines
  BY DEF Build, Lines, SomeText

LEMMA ForceKeeps ==
    ASSUME ForceInv, ListNext \/ ListRestart
    PROVE  ForceInv'
<1>1. UNCHANGED registry
  BY DEF ListNext, ListRestart, WorldChanges, Wake, AnswerWhole, AnswerCached, StoreText, StoreFails, StoreTags, Swap
<1>2. Lines' = Lines /\ SomeText' = SomeText /\ Texts[registry]' = Texts[registry]
  BY <1>1 DEF Lines, SomeText
<1>3. NoText \in SomeText /\ origin \in SomeText
  BY DEF SomeText, ForceInv
<1>4. CASE WorldChanges \/ Wake \/ AnswerWhole \/ AnswerCached
  BY <1>1, <1>2, <1>3, <1>4 DEF ForceInv, WorldChanges, Wake, AnswerWhole, AnswerCached, WithoutAnswer, Goes
<1>5. CASE StoreText \/ StoreFails \/ StoreTags
  BY <1>1, <1>2, <1>5 DEF ForceInv, StoreText, StoreFails, StoreTags, Goes
<1>6. CASE Swap
  BY <1>1, <1>2, <1>3, <1>6, BuildIsLines DEF ForceInv, Swap, Asleep
<1>7. CASE ListRestart
  BY <1>1, <1>2, <1>3, <1>7, BuildIsLines DEF ForceInv, ListRestart, Asleep
<1>8. QED
  BY <1>4, <1>5, <1>6, <1>7 DEF ListNext

LEMMA Blocklisted ==
    ASSUME ForceInv, registry = "blocklist"
    PROVE  BlocklistObeyed
<1> SUFFICES ASSUME NEW req \in Requests
             PROVE  Blocks(force, req) <=>
                        /\ \E l \in force : l.form \in {"hosts", "anchor"} /\ Concerns(l, req)
                        /\ ~\E l \in force : l.form = "exception" /\ Concerns(l, req)
                        /\ ~Covers(Allowed, req.host)
  BY DEF BlocklistObeyed
<1>1. \A l \in force : l.path \in BOOLEAN /\ (l.form = "hosts" => l.option = "none")
  BY ListAssumption DEF ForceInv, Lines
<1>2. Covers(In(force, "blocked"), req.host) <=>
        \E l \in force : /\ \/ l.form = "hosts"
                            \/ l.form = "anchor" /\ ~l.path /\ l.option = "none"
                         /\ Covers(Readable(l.names), req.host)
  BY <1>1, CoveredByOne, WhereItGoes
<1>3. Covers(In(force, "blocked_embedded"), req.host) <=>
        \E l \in force : /\ l.form = "anchor" /\ ~l.path /\ l.option = "third-party"
                         /\ Covers(Readable(l.names), req.host)
  BY <1>1, CoveredByOne, WhereItGoes
<1>4. Covers(In(force, "allowed"), req.host) <=>
        \E l \in force : /\ l.form = "exception" /\ ~l.path /\ l.option = "none"
                         /\ Covers(Readable(l.names), req.host)
  BY <1>1, CoveredByOne, WhereItGoes
<1>5. Covers(In(force, "allowed_embedded"), req.host) <=>
        \E l \in force : /\ l.form = "exception" /\ ~l.path /\ l.option = "third-party"
                         /\ Covers(Readable(l.names), req.host)
  BY <1>1, CoveredByOne, WhereItGoes
<1>6. Covers(In(force, "allowed") \cup Readable(Allowed), req.host) <=>
        Covers(In(force, "allowed"), req.host) \/ Covers(Readable(Allowed), req.host)
  BY DEF Covers
<1>7. Covers(Readable(Allowed), req.host) <=> Covers(Allowed, req.host)
  BY PanelAssumption DEF Requests, Covers, Readable
<1>8. Blocks(force, req) <=>
        /\ ~Covers(In(force, "allowed"), req.host) /\ ~Covers(Allowed, req.host)
        /\ ~(Embedded(req) /\ Covers(In(force, "allowed_embedded"), req.host))
        /\ \/ Covers(In(force, "blocked"), req.host)
           \/ Embedded(req) /\ Covers(In(force, "blocked_embedded"), req.host)
  BY <1>6, <1>7 DEF Blocks
<1>9. \A l \in force : l.form \in {"hosts", "anchor"} /\ Concerns(l, req) <=>
        /\ Covers(Readable(l.names), req.host)
        /\ \/ l.form = "hosts"
           \/ l.form = "anchor" /\ ~l.path /\ l.option = "none"
           \/ l.form = "anchor" /\ ~l.path /\ l.option = "third-party" /\ Embedded(req)
  BY <1>1 DEF Concerns
<1>10. \A l \in force : l.form = "exception" /\ Concerns(l, req) <=>
        /\ l.form = "exception" /\ ~l.path /\ Covers(Readable(l.names), req.host)
        /\ l.option = "none" \/ (l.option = "third-party" /\ Embedded(req))
  BY <1>1 DEF Concerns
<1>11. QED
  BY <1>2, <1>3, <1>4, <1>5, <1>8, <1>9, <1>10

(* The same of the cosmetic rules. *)
LEMMA Cosmetic ==
    ASSUME ForceInv
    PROVE  CosmeticsObeyed
<1> SUFFICES ASSUME NEW host \in Sites, NEW s \in Hideable
             PROVE  s \in Listed(force, host) <=>
                        /\ \E l \in force : l.selector = s /\ l.except \subseteq Domains /\ Hides(l, host)
                        /\ ~\E l \in force : l.selector = s /\ TakesBack(l, host)
  BY DEF CosmeticsObeyed
<1> DEFINE from(pairs) == \E p \in pairs : p[1] \in Above[host] /\ p[2] = s
<1>1. s \in Listed(force, host) <=>
        /\ (Generic /\ s \in GenericSet(force)) \/ from(HideSet(force))
        /\ ~from(UnhideSet(force))
  BY FilterAssumption DEF Listed
<1>2. \A names : Covers(Readable(names), host) <=> Covers(names, host)
  BY PanelAssumption DEF Covers, Readable
<1>3. \A names, x : from(Readable(names) \X {x}) <=> x = s /\ Covers(names, host)
  <2> SUFFICES ASSUME NEW names, NEW x PROVE from(Readable(names) \X {x}) <=> x = s /\ Covers(names, host)
    OBVIOUS
  <2>1. \A p \in Readable(names) \X {x} : p[1] \in Readable(names) /\ p[2] = x
    OBVIOUS
  <2>2. \A d \in Readable(names) :
            <<d, x>> \in Readable(names) \X {x} /\ <<d, x>>[1] = d /\ <<d, x>>[2] = x
    OBVIOUS
  <2>3. Covers(Readable(names), host) <=> \E d \in Readable(names) : d \in Above[host]
    BY DEF Covers
  <2>4. QED
    BY <1>2, <2>1, <2>2, <2>3
<1>4. s \in GenericSet(force) <=>
        \E l \in force : IsRule(l) /\ l.form = "hide" /\ l.selector = s /\ Readable(l.names) = {}
  BY DEF GenericSet, Rules
<1>5. from(HideSet(force)) <=>
        \E l \in force : IsRule(l) /\ l.form = "hide" /\ l.selector = s /\ Covers(l.names, host)
  <2>1. from(HideSet(force)) <=> \E l \in Rules(force, "hide") : from(Readable(l.names) \X {l.selector})
    BY DEF HideSet
  <2>2. QED
    BY <1>3, <2>1 DEF Rules
<1>6. from(UnhideSet(force)) <=>
        \E l \in force : /\ IsRule(l) /\ l.selector = s
                         /\ \/ l.form = "hide" /\ Covers(l.except, host)
                            \/ l.form = "unhide" /\ Covers(l.names, host)
  <2> DEFINE Carved == UNION {Readable(l.except) \X {l.selector} : l \in Rules(force, "hide")}
             Lifted == UNION {Readable(l.names) \X {l.selector} : l \in Rules(force, "unhide")}
  <2>1. UnhideSet(force) = Carved \cup Lifted
    BY DEF UnhideSet
  <2>2. from(Carved) <=> \E l \in Rules(force, "hide") : from(Readable(l.except) \X {l.selector})
    OBVIOUS
  <2>3. from(Lifted) <=> \E l \in Rules(force, "unhide") : from(Readable(l.names) \X {l.selector})
    OBVIOUS
  <2>4. from(Carved) <=>
            \E l \in force : IsRule(l) /\ l.selector = s /\ l.form = "hide" /\ Covers(l.except, host)
    BY <1>3, <2>2 DEF Rules
  <2>5. from(Lifted) <=>
            \E l \in force : IsRule(l) /\ l.selector = s /\ l.form = "unhide" /\ Covers(l.names, host)
    BY <1>3, <2>3 DEF Rules
  <2> HIDE DEF Carved, Lifted
  <2>6. from(Carved \cup Lifted) <=> from(Carved) \/ from(Lifted)
    OBVIOUS
  <2> HIDE DEF from
  <2>7. QED
    BY <2>1, <2>4, <2>5, <2>6
<1> HIDE DEF from
<1>7. \A names : Covers(names, host) => Readable(names) # {} /\ names # {}
  BY PanelAssumption DEF Covers, Readable
<1>8. \A l : l.selector = s =>
        /\ (IsRule(l) /\ l.form = "hide" /\ Covers(l.names, host))
                <=> (l.form = "hide" /\ l.except \subseteq Domains /\ Covers(l.names, host))
        /\ (IsRule(l) /\ l.form = "hide" /\ Covers(l.except, host))
                <=> (l.form = "hide" /\ l.except \subseteq Domains /\ Covers(l.except, host))
        /\ (IsRule(l) /\ l.form = "unhide" /\ Covers(l.names, host))
                <=> (l.form = "unhide" /\ l.except \subseteq Domains /\ Covers(l.names, host))
        /\ (IsRule(l) /\ l.form = "hide" /\ Readable(l.names) = {})
                <=> (/\ l.form = "hide" /\ l.except \subseteq Domains /\ Readable(l.names) = {}
                     /\ l.names # {} => l.except # {})
  BY <1>7 DEF IsRule
<1>9. QED
  BY <1>1, <1>2, <1>4, <1>5, <1>6, <1>8, FilterAssumption DEF Hides, TakesBack

(* A request is refused, and an element hidden, when a line of the lists says
   so and none takes it back: the sets that blocklist.rs and cosmetic.rs keep,
   and the order they look at them in, say no more and no less than that, for
   every list. *)
THEOREM Obeyed == Spec => []ListsAreObeyed
<1>1. Init => ForceInv
  <2> SUFFICES ASSUME Init PROVE ForceInv
    OBVIOUS
  <2>1. /\ registry \in Registries /\ origin \in Texts[registry]
        /\ text \in SomeText /\ force = Build(text) /\ refresher = Asleep
    BY DEF Init, ListInit, SomeText
  <2>2. NoText \in SomeText
    BY DEF SomeText
  <2>3. QED
    BY <2>1, <2>2, BuildIsLines DEF ForceInv, Asleep
<1>2. ForceInv /\ [Next]_vars => ForceInv'
  <2> SUFFICES ASSUME ForceInv, [Next]_vars PROVE ForceInv'
    OBVIOUS
  <2>1. CASE UNCHANGED listVars
    BY <2>1 DEF listVars, ForceInv, SomeText, Lines
  <2>2. CASE ListNext \/ ListRestart
    BY <2>2, ForceKeeps
  <2>3. QED
    BY <2>1, <2>2 DEF Next, Storing, Listing, ServingSheet, Restart, vars
<1>3. ForceInv => ListsAreObeyed
  BY Blocklisted, Cosmetic DEF ListsAreObeyed
<1>4. QED
  BY <1>1, <1>2, <1>3, PTL DEF Spec
=============================================================================

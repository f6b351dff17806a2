-------------------------------- MODULE Stores --------------------------------
(***************************************************************************)
(* What the pages under /.mach5/ keep on disk: Store of                    *)
(* src/proxy/src/settings.rs, Store of src/proxy/src/internal.rs and the   *)
(* requests that change them.                                              *)
(*                                                                         *)
(* Each is a value in memory and a file, and one lock, which is held from  *)
(* the change until the file is written; every read waits for it.  The     *)
(* file is written beside the old one and renamed.  An empty set of        *)
(* selectors stands for a site that is not in the map, as removing the     *)
(* last one takes the site out of it.                                      *)
(***************************************************************************)
EXTENDS Naturals, FiniteSets

CONSTANTS
    Sites,        \* hosts whose pages the proxy serves
    Selectors,    \* what a page may ask to hide
    TooLong,      \* those that are empty, or longer than MAX_SELECTOR_BYTES
    MaxSites,     \* MAX_HOSTS
    MaxPerSite,   \* MAX_SELECTORS_PER_HOST
    Choices,      \* values of Settings
    Default,      \* Settings::default()
    NoPage,       \* a request that no page sent, or that does not say
    NoFile,
    Garbled       \* a file that does not parse

ASSUME StoreAssumption ==
    /\ {MaxSites, MaxPerSite} \subseteq Nat \ {0}
    /\ Default \in Choices
    /\ TooLong \subseteq Selectors
    /\ {NoFile, Garbled} \cap (Choices \cup [Sites -> SUBSET Selectors]) = {}

VARIABLES
    memory,   \* the two values
    file,     \* the two files
    lock,     \* who holds each: nobody, one that writes, one that has written
    told,     \* what the requests that were answered add up to
    unsaved   \* a write failed, and none has succeeded since

storeVars == <<memory, file, lock, told, unsaved>>

Kinds == {"settings", "hidden"}

Unlocked == [pc |-> "free", asked |-> NoFile]

(* Lists of hidden elements that keep the two caps. *)
KeptLists == {l \in [Sites -> SUBSET (Selectors \ TooLong)] :
            /\ Cardinality({s \in Sites : l[s] # {}}) <= MaxSites
            /\ \A s \in Sites : Cardinality(l[s]) <= MaxPerSite}

Empty == [settings |-> Default, hidden |-> [s \in Sites |-> {}]]

(* load(): a file that is missing or cannot be read is an empty one. *)
Load(k) == IF file[k] \in {NoFile, Garbled} THEN Empty[k] ELSE file[k]

StoreInit ==
    /\ file \in [settings : {NoFile, Garbled} \cup Choices,
                 hidden : {NoFile, Garbled} \cup KeptLists]
    /\ memory = [k \in Kinds |-> Load(k)]
    /\ lock = [k \in Kinds |-> Unlocked]
    /\ told = memory
    /\ unsaved = [k \in Kinds |-> FALSE]

-----------------------------------------------------------------------------
(* Mutant: the file itself is opened for writing, which empties it. *)
MeanwhileEmptied(k) == Garbled

(* What is at the file's name while a new one is written beside it. *)
Meanwhile(k) == file[k]

(* One change under the lock.  One that changes nothing writes nothing.
   `asked' is what the requests add up to with this one. *)
Change(k, value, asked) ==
    /\ lock[k].pc = "free"
    /\ IF value = memory[k]
       THEN /\ told' = [told EXCEPT ![k] = asked]
            /\ UNCHANGED <<memory, file, lock>>
       ELSE /\ memory' = [memory EXCEPT ![k] = value]
            /\ lock' = [lock EXCEPT ![k] = [pc |-> "writing", asked |-> asked]]
            /\ file' = [file EXCEPT ![k] = Meanwhile(k)]
            /\ UNCHANGED told
    /\ UNCHANGED unsaved

(* persist(): the rename; and then the lock goes and the answer. *)
Publish(k) ==
    /\ lock[k].pc = "writing"
    /\ file' = [file EXCEPT ![k] = memory[k]]
    /\ lock' = [lock EXCEPT ![k].pc = "written"]
    /\ unsaved' = [unsaved EXCEPT ![k] = FALSE]
    /\ UNCHANGED <<memory, told>>

Answer(k) ==
    /\ lock[k].pc = "written"
    /\ lock' = [lock EXCEPT ![k] = Unlocked]
    /\ told' = [told EXCEPT ![k] = lock[k].asked]
    /\ UNCHANGED <<memory, file, unsaved>>

(* A warning, and the answer is the same. *)
PublishFails(k) ==
    /\ lock[k].pc = "writing"
    /\ lock' = [lock EXCEPT ![k].pc = "written"]
    /\ unsaved' = [unsaved EXCEPT ![k] = TRUE]
    /\ UNCHANGED <<memory, file, told>>

-----------------------------------------------------------------------------
(* same_origin(): of a request that is not a GET. *)
SameOrigin(site, page) == page \in {site, NoPage}

(* The requests so far, and this one when it is from the site's own page. *)
Own(site, page, k, value) == IF page \in {site, NoPage} THEN value ELSE told[k]

Put(lists, site, selectors) == [lists EXCEPT ![site] = selectors]

(* add(): the caps, which never refuse what is there already. *)
Room(site, selector) ==
    LET mine == memory.hidden[site]
        sites == {s \in Sites : memory.hidden[s] # {}}
    IN  /\ site \in sites \/ Cardinality(sites) < MaxSites
        /\ selector \in mine \/ Cardinality(mine) < MaxPerSite

Hide(site, page, selector) ==
    /\ SameOrigin(site, page)
    /\ selector \notin TooLong
    /\ Room(site, selector)
    /\ Change("hidden",
              Put(memory.hidden, site, memory.hidden[site] \cup {selector}),
              Own(site, page, "hidden",
                  Put(told.hidden, site, told.hidden[site] \cup {selector})))

Unhide(site, page, selector) ==
    /\ SameOrigin(site, page)
    /\ Change("hidden",
              Put(memory.hidden, site, memory.hidden[site] \ {selector}),
              Own(site, page, "hidden",
                  Put(told.hidden, site, told.hidden[site] \ {selector})))

Clear(site, page) ==
    /\ SameOrigin(site, page)
    /\ Change("hidden",
              Put(memory.hidden, site, {}),
              Own(site, page, "hidden", Put(told.hidden, site, {})))

ChangeSettings(site, page, wanted) ==
    /\ SameOrigin(site, page)
    /\ Change("settings", wanted, Own(site, page, "settings", wanted))

(* The process goes and comes back.  A change that was on its way may have
   reached the disk or not, and its page was told neither. *)
StoreRestart ==
    /\ memory' = [k \in Kinds |-> Load(k)]
    /\ lock' = [k \in Kinds |-> Unlocked]
    /\ told' = [k \in Kinds |->
                    IF unsaved[k] \/ (lock[k].pc # "free" /\ Load(k) = lock[k].asked)
                    THEN Load(k) ELSE told[k]]
    /\ unsaved' = [k \in Kinds |-> FALSE]
    /\ UNCHANGED file

StoreNext(k) ==
    \/ Publish(k) \/ Answer(k) \/ PublishFails(k)
    \/ /\ k = "hidden"
       /\ \E site \in Sites, page \in Sites \cup {NoPage} :
            \/ \E s \in Selectors : Hide(site, page, s) \/ Unhide(site, page, s)
            \/ Clear(site, page)
    \/ /\ k = "settings"
       /\ \E site \in Sites, page \in Sites \cup {NoPage}, c \in Choices :
            ChangeSettings(site, page, c)

-----------------------------------------------------------------------------
(* persist(): "a crash mid-write cannot truncate a list someone built up by
   hand".  What is in force is what the answered requests add up to, each
   counted for the site its own page asked for and no other; and it is so after
   any crash, unless a write to the disk failed. *)
AnsweredIsKept ==
    \A k \in Kinds : lock[k].pc = "free" => memory[k] = told[k]
=============================================================================

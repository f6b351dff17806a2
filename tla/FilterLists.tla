----------------------------- MODULE FilterLists -----------------------------
(***************************************************************************)
(* How a filter list is kept up to date: refresh, build and load of        *)
(* src/proxy/src/blocklist.rs, and the same of cosmetic.rs, over fetch and *)
(* store of fetch.rs.                                                      *)
(*                                                                         *)
(* One registry with one configured file and one URL.  On disk the URL has *)
(* two files, the text and the validators it came with, that only the      *)
(* refresh thread writes; the etag of a text is the text again.  What is   *)
(* in force is the lines it was built from.  A page that is no list but    *)
(* came with a 200 is a text too.                                          *)
(***************************************************************************)
EXTENDS Filters

CONSTANTS
    Registries,   \* the blocklist and the cosmetic rules
    Texts,        \* what the origin of each may serve
    FileText,     \* the configured file of each
    NoText        \* no file, no answer

(* What can be taken apart into lines: only a rule has options. *)
ASSUME ListAssumption ==
    /\ Registries \subseteq {"blocklist", "cosmetic"}
    /\ "blocklist" \in Registries =>
        \A lines \in Texts["blocklist"] \cup {FileText["blocklist"]} : \A l \in lines :
            l.path \in BOOLEAN /\ (l.form = "hosts" => l.option = "none")

VARIABLES
    registry,    \* which of them this is
    origin,      \* what its URL serves
    answering,   \* it answers, and answers whole
    readable,    \* the configured file can be read
    text,        \* the .txt file
    tags,        \* the .meta file: the text that the validators are of
    force,       \* the lines in force
    refresher,   \* where the refresh thread is
    unwritten    \* the last text that came could not be written

listVars == <<registry, origin, answering, readable, text, tags, force, refresher, unwritten>>

Asleep == [pc |-> "asleep", got |-> NoText, fresh |-> FALSE]

(* build(): the file, then what the URL most recently gave us. *)
Build(got) ==
    (IF readable THEN FileText[registry] ELSE {}) \cup (IF got = NoText THEN {} ELSE got)

ListInit ==
    /\ registry \in Registries
    /\ origin \in Texts[registry]
    /\ answering = TRUE
    /\ readable = TRUE
    /\ text \in {NoText} \cup Texts[registry]
    /\ tags = text
    /\ force = Build(text)
    /\ refresher = Asleep
    /\ unwritten = FALSE

-----------------------------------------------------------------------------
WorldChanges ==
    /\ \/ origin' \in Texts[registry] /\ UNCHANGED <<answering, readable>>
       \/ answering' = ~answering /\ UNCHANGED <<origin, readable>>
       \/ readable' = ~readable /\ UNCHANGED <<origin, answering>>
    /\ UNCHANGED <<registry, text, tags, force, refresher, unwritten>>

Goes(pc, got, fresh) == refresher' = [pc |-> pc, got |-> got, fresh |-> fresh]

Wake ==
    /\ refresher.pc = "asleep"
    /\ Goes("asking", NoText, FALSE)
    /\ UNCHANGED <<registry, origin, answering, readable, text, tags, force, unwritten>>

(* The validators are sent while there is a text for them to be about. *)
NotModified == text # NoText /\ tags = origin

AnswerWhole ==
    /\ refresher.pc = "asking"
    /\ answering /\ ~NotModified
    /\ Goes("storing", origin, TRUE)
    /\ UNCHANGED <<registry, origin, answering, readable, text, tags, force, unwritten>>

(* Mutant: a list that does not answer contributes nothing. *)
WithoutAnswerNothing == IF answering THEN text ELSE NoText

WithoutAnswer == text

(* A 304, an error, a body that breaks off or is over the ceiling: the copy on
   disk, if there is one. *)
AnswerCached ==
    /\ refresher.pc = "asking"
    /\ answering => NotModified
    /\ Goes("building", WithoutAnswer, FALSE)
    /\ UNCHANGED <<registry, origin, answering, readable, text, tags, force, unwritten>>

(* store(): the text and then its validators, each by a rename.  What cannot
   be written is used all the same. *)
StoreText ==
    /\ refresher.pc = "storing"
    /\ text' = refresher.got
    /\ unwritten' = FALSE
    /\ Goes("tagging", refresher.got, TRUE)
    /\ UNCHANGED <<registry, origin, answering, readable, tags, force>>

StoreFails ==
    /\ refresher.pc = "storing"
    /\ unwritten' = TRUE
    /\ Goes("building", refresher.got, TRUE)
    /\ UNCHANGED <<registry, origin, answering, readable, text, tags, force>>

StoreTags ==
    /\ refresher.pc = "tagging"
    /\ tags' \in {refresher.got, tags}
    /\ Goes("building", refresher.got, TRUE)
    /\ UNCHANGED <<registry, origin, answering, readable, text, force, unwritten>>

(* refresh(): built whole, and then swapped in. *)
Swap ==
    /\ refresher.pc = "building"
    /\ force' = Build(refresher.got)
    /\ refresher' = Asleep
    /\ UNCHANGED <<registry, origin, answering, readable, text, tags, unwritten>>

(* shared(): what is on disk already, and no waiting for the network. *)
ListRestart ==
    /\ force' = Build(text)
    /\ refresher' = Asleep
    /\ unwritten' = FALSE
    /\ UNCHANGED <<registry, origin, answering, readable, text, tags>>

ListNext ==
    \/ WorldChanges
    \/ Wake \/ AnswerWhole \/ AnswerCached
    \/ StoreText \/ StoreFails \/ StoreTags
    \/ Swap

-----------------------------------------------------------------------------
(* refresh(): "a source that fails cannot empty what is already in force".
   Without a new text from the origin nothing that is in force goes, neither
   by a refresh nor by a restart: not while the network is down, not after an
   answer that changed nothing.  That takes a copy that could be written, and
   the configured file, which is read again every time and has no copy. *)
OutageKeeps ==
    readable /\ ~unwritten /\ ~(refresher.fresh /\ refresher.pc # "storing")
        => force \subseteq force'
=============================================================================

-------------------------------- MODULE Panel --------------------------------
(***************************************************************************)
(* The endpoints under /.mach5/ that keep something, and the filter lists: *)
(* Internal of src/proxy/src/internal.rs over the two stores, and the      *)
(* stylesheet, which is put together from the list of hidden elements and  *)
(* the cosmetic rules, each read under a lock of its own.                  *)
(*                                                                         *)
(* `part' is what changes in a behaviour: one of the stores, a registry of  *)
(* lists, or both of what a stylesheet is made of, as long as nothing      *)
(* fails.  The others stay as the process found them on disk.              *)
(***************************************************************************)
EXTENDS Stores, FilterLists

CONSTANT Usable   \* the selectors that usable() accepts

(* The name of a site, and every name above it, can be read. *)
ASSUME PanelAssumption ==
    /\ Hideable \subseteq Usable /\ Usable \subseteq Selectors
    /\ \A site \in Sites : Above[site] \subseteq Domains

VARIABLES
    part,
    sheet   \* one request for a stylesheet

vars == <<storeVars, listVars, part, sheet>>

NoSheet == [pc |-> "none"]

Init ==
    /\ part \in Kinds \cup {"lists", "both"}
    /\ StoreInit
    /\ ListInit
    /\ \A k \in Kinds : part # k => file[k] = NoFile
    /\ part # "lists" => registry = "cosmetic" /\ text = origin
    /\ sheet = NoSheet

-----------------------------------------------------------------------------
Picked(host) == memory.hidden[host] \cap Usable

ListedFor(host) == IF registry = "cosmetic" THEN Listed(force, host) ELSE {}

(* GET /.mach5/hidden.css *)
SheetAsked ==
    /\ sheet.pc \in {"none", "sent"}
    /\ \E h \in Sites :
        LET picked == Picked(h)
            listed == ListedFor(h)
        IN  sheet' = [pc |-> "picking", host |-> h, body |-> {},
                      must |-> picked \cup listed, may |-> picked \cup listed,
                      listed |-> listed \ picked, moved |-> {}]

(* stylesheet(): what somebody picked, under the lock of the store. *)
SheetPicks ==
    /\ sheet.pc = "picking"
    /\ lock["hidden"].pc = "free"
    /\ sheet' = [sheet EXCEPT !.pc = "listing", !.body = Picked(sheet.host)]

(* Mutant: the rules as they were when the stylesheet was asked for the first
   time, and none of those that a refresh brought. *)
SheetListsFile ==
    /\ sheet.pc = "listing"
    /\ sheet' = [sheet EXCEPT !.pc = "sent",
                    !.body = @ \cup Listed(FileText[registry], sheet.host)]

(* And what the rules that are in force say about this host. *)
SheetLists ==
    /\ sheet.pc = "listing"
    /\ sheet' = [sheet EXCEPT !.pc = "sent", !.body = @ \cup ListedFor(sheet.host)]

(* While a request is on its way: what was to be hidden all the time, and at
   some time; what only a rule hid at some time, and of that what only a pick
   hid at a later one.  One that was answered is forgotten. *)
Watched ==
    IF sheet.pc \in {"picking", "listing"}
    THEN \E h \in {sheet.host} : \E picked \in {Picked(h)'}, listed \in {ListedFor(h)'} :
            sheet' = [sheet EXCEPT !.must = @ \cap (picked \cup listed),
                                   !.may = @ \cup picked \cup listed,
                                   !.listed = @ \cup (listed \ picked),
                                   !.moved = @ \cup (sheet.listed \cap (picked \ listed))]
    ELSE sheet' = NoSheet

Storing ==
    /\ \/ part \in Kinds /\ StoreNext(part)
       \/ part = "both" /\ StoreNext("hidden")
    /\ UNCHANGED listVars
    /\ Watched

Listing == part \in {"lists", "both"} /\ ListNext /\ UNCHANGED storeVars /\ Watched

(* Where something changes that a stylesheet is made of. *)
ServingSheet ==
    /\ part # "settings" /\ registry = "cosmetic"
    /\ SheetAsked \/ SheetPicks \/ SheetLists
    /\ UNCHANGED <<storeVars, listVars>>

Restart == StoreRestart /\ ListRestart /\ sheet' = NoSheet

(* Every write succeeds, and the origin and the file can be read. *)
Calm ==
    /\ answering /\ readable /\ ~unwritten /\ ~unsaved.hidden
    /\ refresher.pc # "tagging" => tags = text

Next ==
    /\ Storing \/ Listing \/ ServingSheet \/ Restart
    /\ part = "both" => Calm'
    /\ UNCHANGED part

Spec == Init /\ [][Next]_vars

-----------------------------------------------------------------------------
(* stylesheet(): whoever else picks or refreshes between its two reads, a page
   gets a sheet that hides nothing that was not to be hidden at some time since
   it asked, and all that was to be hidden at every time, with one exception:
   what a rule hid first and, after somebody had picked it too, the pick alone.
   The picks are read first, so that one may be in neither; one that passes from
   the picks to the rules never is. *)
SheetIsCurrent ==
    sheet.pc = "sent" =>
        /\ sheet.must \ sheet.moved \subseteq sheet.body
        /\ sheet.body \subseteq sheet.may

(* OutageKeeps, of every step. *)
OutageKeepsRules == [][OutageKeeps]_vars

-----------------------------------------------------------------------------
(* What the lists mean, line by line. *)
Requests == [host : Sites, site : {"cross-site", "other"}, dest : {"document", "other"}]

Concerns(line, req) ==
    /\ Covers(Readable(line.names), req.host)
    /\ line.form = "hosts" \/ (~line.path /\ line.option \in {"none", "third-party"})
    /\ line.option = "third-party" => Embedded(req)

BlocklistObeyed ==
    \A req \in Requests :
        Blocks(force, req) <=>
            /\ \E l \in force : l.form \in {"hosts", "anchor"} /\ Concerns(l, req)
            /\ ~\E l \in force : l.form = "exception" /\ Concerns(l, req)
            /\ ~Covers(Allowed, req.host)

(* A list that takes a selector back, for this host or one above it. *)
TakesBack(line, host) ==
    /\ line.except \subseteq Domains
    /\ \/ line.form = "unhide" /\ Covers(line.names, host)
       \/ line.form = "hide" /\ Covers(line.except, host)

(* A rule with names hides where they are, except one whose names cannot be
   read and that carves something out: the code takes it for a generic one. *)
Hides(line, host) ==
    /\ line.form = "hide"
    /\ \/ Covers(Readable(line.names), host)
       \/ /\ Generic /\ Readable(line.names) = {}
          /\ line.names # {} => line.except # {}

CosmeticsObeyed ==
    \A host \in Sites, s \in Hideable :
        s \in Listed(force, host) <=>
            /\ \E l \in force : l.selector = s /\ l.except \subseteq Domains /\ Hides(l, host)
            /\ ~\E l \in force : l.selector = s /\ TakesBack(l, host)

(* "An exception cancels whatever matched, as long as its own scope applies",
   in whichever list and line it is; "a top-level navigation is never
   third-party"; and a rule whose scope cannot be read is not honoured. *)
ListsAreObeyed ==
    IF registry = "blocklist" THEN BlocklistObeyed ELSE CosmeticsObeyed
=============================================================================

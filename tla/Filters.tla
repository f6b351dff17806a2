------------------------------- MODULE Filters -------------------------------
(***************************************************************************)
(* What filter lists say: parse, Blocklist and blocks_request of           *)
(* src/proxy/src/blocklist.rs, and parse, Cosmetic and selectors of        *)
(* src/proxy/src/cosmetic.rs.                                              *)
(*                                                                         *)
(* A text is a set of lines, each taken apart: the form it has, the names  *)
(* in it, what they are kept to.  The names in Domains are those that      *)
(* normalize() accepts.                                                    *)
(***************************************************************************)
CONSTANTS
    Domains,    \* the names that can be read
    Above,      \* for each site, its name and those of the domains above it
    Allowed,    \* [blocklist] allow
    Hideable,   \* the selectors that hideable() accepts
    Generic     \* [cosmetic] generic

ASSUME FilterAssumption == Generic \in BOOLEAN

Readable(names) == names \cap Domains

-----------------------------------------------------------------------------
(* Lines of a blocklist are [form, option, path, names]. *)

(* anchored(): a scope that cannot be told is not ours to honour. *)
Anchored(line) ==
    IF line.path THEN "unreadable"
    ELSE CASE line.option = "none" -> "plain"
           [] line.option = "third-party" -> "third-party"
           [] OTHER -> "unreadable"

(* The set that a line adds to, if any: parse() and add(). *)
Into(line) ==
    CASE line.form = "hosts" -> "blocked"
      [] line.form = "anchor" /\ Anchored(line) = "plain" -> "blocked"
      [] line.form = "anchor" /\ Anchored(line) = "third-party" -> "blocked_embedded"
      [] line.form = "exception" /\ Anchored(line) = "plain" -> "allowed"
      [] line.form = "exception" /\ Anchored(line) = "third-party" -> "allowed_embedded"
      [] OTHER -> "none"

In(lines, which) == UNION {Readable(l.names) : l \in {x \in lines : Into(x) = which}}

Covers(names, host) == Above[host] \cap names # {}

(* sec-fetch-site and sec-fetch-dest: part of another site's page. *)
Embedded(req) == req.site = "cross-site" /\ req.dest # "document"

(* Mutant: an exception counts where its own scope does not apply. *)
BlocksExceptedAnywhere(lines, req) ==
    /\ ~Covers(In(lines, "allowed") \cup Readable(Allowed), req.host)
    /\ ~Covers(In(lines, "allowed_embedded"), req.host)
    /\ \/ Covers(In(lines, "blocked"), req.host)
       \/ Embedded(req) /\ Covers(In(lines, "blocked_embedded"), req.host)

(* blocks_request() *)
Blocks(lines, req) ==
    /\ ~Covers(In(lines, "allowed") \cup Readable(Allowed), req.host)
    /\ ~(Embedded(req) /\ Covers(In(lines, "allowed_embedded"), req.host))
    /\ \/ Covers(In(lines, "blocked"), req.host)
       \/ Embedded(req) /\ Covers(In(lines, "blocked_embedded"), req.host)

-----------------------------------------------------------------------------
(* Lines of a cosmetic list are [form, selector, names, except]. *)

(* parse(): whether the line is a rule. *)
IsRule(line) ==
    /\ line.form \in {"hide", "unhide"}
    /\ line.selector \in Hideable
    /\ line.except \subseteq Domains
    /\ line.names # {} => Readable(line.names) \cup line.except # {}
    /\ line.form = "unhide" => Readable(line.names) # {}

Rules(lines, form) == {l \in lines : IsRule(l) /\ l.form = form}

(* insert(): three sets, and a rule's exclusions are exceptions of its own. *)
HideSet(lines) == UNION {Readable(l.names) \X {l.selector} : l \in Rules(lines, "hide")}

GenericSet(lines) == {l.selector : l \in {x \in Rules(lines, "hide") : Readable(x.names) = {}}}

UnhideSet(lines) ==
    (UNION {Readable(l.except) \X {l.selector} : l \in Rules(lines, "hide")})
    \cup
    (UNION {Readable(l.names) \X {l.selector} : l \in Rules(lines, "unhide")})

(* selectors(): everything that hides, and then the exceptions. *)
Listed(lines, host) ==
    LET from(pairs) == {p[2] : p \in {q \in pairs : q[1] \in Above[host]}}
    IN  ((IF Generic THEN GenericSet(lines) ELSE {}) \cup from(HideSet(lines)))
            \ from(UnhideSet(lines))
=============================================================================

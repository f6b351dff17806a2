------------------------------- MODULE MCPanel -------------------------------
(***************************************************************************)
(* An instance of Panel.tla: a site and a subdomain of it.                 *)
(***************************************************************************)
EXTENDS Panel, TLC

MCAbove == [site |-> {"site"}, sub |-> {"sub", "site"}]

Anchor(form, option, names) ==
    [form |-> form, option |-> option, path |-> FALSE, names |-> names]

Rule(form, selector, names, except) ==
    [form |-> form, selector |-> selector, names |-> names, except |-> except]

MCFileText ==
    [blocklist |-> {Anchor("hosts", "none", {"sub", "local"}),
                    [Anchor("anchor", "none", {"site"}) EXCEPT !.path = TRUE]},
     cosmetic |-> {Rule("hide", "ad", {}, {}), Rule("hide", "box", {"site"}, {})}]

(* The first of each is a page that is no list. *)
MCTexts ==
    [blocklist |->
        {{},
         {Anchor("anchor", "third-party", {"site"}), Anchor("exception", "other", {"site"})},
         {Anchor("anchor", "none", {"site"}), Anchor("exception", "none", {"sub"})},
         {Anchor("anchor", "third-party", {"sub"}), Anchor("exception", "third-party", {"sub"})}},
     cosmetic |->
        {{},
         {Rule("hide", "box", {"unread"}, {"sub"}), Rule("unhide", "ad", {"site"}, {})},
         {Rule("hide", "box", {}, {"sub"}), Rule("hide", "ad", {"sub"}, {"unread"}),
          Rule("hide", "bad", {"site"}, {}), Rule("hide", "box", {"unread"}, {}),
          Rule("unhide", "ad", {"unread"}, {}), Rule("unhide", "ad", {"sub", "unread"}, {})}}]
=============================================================================

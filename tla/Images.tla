-------------------------------- MODULE Images --------------------------------
(***************************************************************************)
(* What a picture is served as: Images of src/proxy/src/images.rs, Quality *)
(* of settings.rs and Cache of imagecache.rs.                              *)
(*                                                                         *)
(* The panel and the client's link each ask for something, and either may  *)
(* change while a request is under way.  A picture is known by its         *)
(* content; converting one is a function of it, the quality and the form.  *)
(***************************************************************************)
EXTENDS Codings, FiniteSets

CONSTANTS
    Settings,          \* of the panel's image_quality
    Configured,       \* [images] quality
    ReducedQuality,   \* the most that the reduced tier is served
    GreyQuality,      \* and the grey one
    MaxCopies         \* what the budget of the cache of copies holds

VARIABLES
    quality,   \* the panel's image_quality
    tier,      \* what the client's link has earned
    copies     \* the cache on disk: [key, holds]

imageVars == <<quality, tier, copies>>

ASSUME ImagesAssumption == Settings \subseteq {"auto", "high", "low", "off", "none"}

Tiers == <<"full", "reduced", "grey", "placeholder", "nothing">>

PlaceholderQuality == 40

Least(a, b) == IF a <= b THEN a ELSE b

Most(a, b) == IF a >= b THEN a ELSE b

(* Quality::applied_to(), a number; "off" and "none" have none. *)
AppliedTo(q) ==
    CASE q = "high" -> Least(Configured + 12, 95)
      [] q = "low" -> Most(IF Configured > 35 THEN Configured - 35 ELSE 0, 20)
      [] OTHER -> Configured

Untouched == [as |-> "untouched"]

Nothing == [as |-> "nothing"]

Convert(number, form) == [as |-> "encoded", quality |-> number, form |-> form]

Degradation(t) == CHOOSE i \in DOMAIN Tiers : Tiers[i] = t

(* serving(): whichever of the two asks for less. *)
Serving(q, t) ==
    LET asked == IF q = "none" THEN "nothing" ELSE "full"
        worse == IF Degradation(t) >= Degradation(asked) THEN t ELSE asked
    IN  CASE worse = "full" -> IF q = "off" THEN Untouched ELSE Convert(AppliedTo(q), "colour")
          [] worse = "reduced" -> Convert(Least(AppliedTo(q), ReducedQuality), "colour")
          [] worse = "grey" -> Convert(Least(AppliedTo(q), GreyQuality), "grey")
          [] worse = "placeholder" -> Convert(PlaceholderQuality, "placeholder")
          [] worse = "nothing" -> Nothing

Now == Serving(quality, tier)

-----------------------------------------------------------------------------
IsImage(resp) == resp.type \in {"jpeg", "svg"}

(* claims(): it can be converted, for a client that takes the result. *)
Claims(req, resp) == resp.status = 200 /\ req.webp /\ resp.type = "jpeg"

WantsBody(req, resp) ==
    CASE Now.as = "nothing" -> IsImage(resp)
      [] Now.as = "untouched" -> FALSE
      [] Now.as = "encoded" -> Claims(req, resp)

(* The origin's own picture, under a coding that could be taken off. *)
Readable(resp) == resp.what = [is |-> "original"] /\ resp.under = Identity /\ resp.picture

NotKept(resp) == [resp EXCEPT !.kept = "no-store"]

Pixel == [is |-> "pixel"]

Copy(serving) == [is |-> "copy", quality |-> serving.quality, form |-> serving.form]

(* strip(): the body, what described it, and every validator. *)
Stripped(resp) ==
    [NotKept(resp) EXCEPT !.type = "gif", !.what = Pixel, !.declared = Identity,
                          !.under = Identity, !.long = FALSE]

(* Mutant: two pictures at one quality are one picture. *)
KeyOfNumber(resp, serving) == <<resp.id, serving.quality>>

(* name_for() *)
Key(resp, serving) == <<resp.id, serving.quality, serving.form>>

Hits(resp, serving) == {c \in copies : c.key = Key(resp, serving)}

(* put() and sweep(): the oldest go, which may be any. *)
Put(resp, serving) ==
    LET made == [key |-> Key(resp, serving), holds |-> Copy(serving)]
    IN  {left \in SUBSET (copies \cup {made}) : Cardinality(left) <= MaxCopies}

Converted(resp, copy) ==
    LET webp == [resp EXCEPT !.type = "webp", !.what = copy]
    IN  IF copy.form \in {"grey", "placeholder"} THEN NotKept(webp) ELSE webp

(* What is found, or made now and kept, for a picture that can be read. *)
Copies(resp, serving) ==
    IF Hits(resp, serving) # {}
    THEN {[copy |-> c.holds, copies |-> copies] : c \in Hits(resp, serving)}
    ELSE {[copy |-> Copy(serving), copies |-> left] : left \in Put(resp, serving)}

(* on_response(): the response it leaves, and the copies.  What did not get any
   smaller is not served. *)
Looks(req, resp) ==
    CASE Now.as = "nothing" /\ IsImage(resp) -> {[resp |-> Stripped(resp), copies |-> copies]}
      [] Now.as = "encoded" /\ Claims(req, resp) /\ resp.large /\ Readable(resp) ->
            {[resp |-> IF resp.shrinks THEN Converted(resp, c.copy) ELSE resp,
              copies |-> c.copies] : c \in Copies(resp, Now)}
      [] OTHER -> {[resp |-> resp, copies |-> copies]}

PanelChanges == quality' \in Settings \ {quality} /\ UNCHANGED <<tier, copies>>

LinkChanges ==
    /\ tier' \in {Tiers[i] : i \in DOMAIN Tiers} \ {tier}
    /\ UNCHANGED <<quality, copies>>

(* clear_caches() *)
CopiesCleared == copies # {} /\ copies' = {} /\ UNCHANGED <<quality, tier>>
=============================================================================

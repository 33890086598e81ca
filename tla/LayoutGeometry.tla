--------------------------- MODULE LayoutGeometry ---------------------------
(***************************************************************************)
(* The boxes the agent worker gives to the parts of a draft:               *)
(* apps/agent-worker/src/phases/layoutGeometry.ts.  A box is a record      *)
(* [x, y, w, h] in canvas pixels.  A page is the argument list of          *)
(* createLayoutGeometry:                                                   *)
(*   [width, height, profile, mode, decoration, headlineHeight, spacing].  *)
(* Boxes nobody reads (heroCaption, secondaryAccent) are left out.         *)
(***************************************************************************)
EXTENDS Integers, FiniteSets

Least(a, b) == IF a <= b THEN a ELSE b
Most(a, b) == IF a >= b THEN a ELSE b

\* Math.round of p percent of n, and of half of n
Percent(n, p) == (n * p + 50) \div 100
Half(n) == (n + 1) \div 2

Box(x, y, w, h) == [x |-> x, y |-> y, w |-> w, h |-> h]

\* Seeded fault: shrink the box, never push it inside.
ShrinkOnly(width, height, box) ==
  [box EXCEPT !.w = Most(1, Least(@, width)), !.h = Most(1, Least(@, height))]

\* fitBounds: shrink to the canvas, then push inside it
FitBounds(width, height, box) ==
  LET w == Most(1, Least(box.w, width))
      h == Most(1, Least(box.h, height))
  IN  Box(Most(0, Least(box.x, width - w)), Most(0, Least(box.y, height - h)), w, h)

OnCanvas(box, width, height) ==
  /\ box.x >= 0 /\ box.y >= 0
  /\ box.w >= 1 /\ box.h >= 1
  /\ box.x + box.w <= width /\ box.y + box.h <= height

\* boundsOverlap: two boxes share an area (touching edges do not count)
BoundsOverlap(a, b) ==
  /\ a.x < b.x + b.w /\ b.x < a.x + a.w
  /\ a.y < b.y + b.h /\ b.y < a.y + a.h

\* estimateTextHeight: 72 pixels for each started line of 24 characters
TextHeight(length) == Most(1, (length + 23) \div 24) * 72

(* --- The quantities createLayoutGeometry computes first ----------------- *)

Stacked(page) == page.profile \in {"promo_center", "promo_badge"}
Centered(page) == page.profile = "promo_center"
PhotoLayout(page) == page.profile = "subject_hero"
HeavyWide(page) == page.profile \in {"promo_split", "promo_frame"}

BySpacing(page, airy, dense) ==
  CASE page.spacing = "airy"  -> airy
    [] page.spacing = "dense" -> dense
    [] OTHER                  -> 0

\* Seeded fault: a denser dense stack.
TightGap(page) == BySpacing(page, 18, -60)

VerticalGap(page) == BySpacing(page, 18, -14)
CtaOffset(page) == BySpacing(page, 16, -10)
ClusterShift(page) == BySpacing(page, -8, 10)
AccentSize(page) == BySpacing(page, -10, 14)

MarginX(page) == Most(48, Percent(page.width, 7))
TopY(page) == Most(40, Percent(page.height, 12))
FooterY(page) == page.height - 44
InnerWidth(page) == page.width - 2 * MarginX(page)
LeftColumn(page) == Least(Most(340, Percent(page.width, 38)), InnerWidth(page) - 220)
RightColumn(page) == Least(Most(200, Percent(page.width, 28)), InnerWidth(page) - 200)
RightX(page) == page.width - MarginX(page) - RightColumn(page)
CenterWidth(page) == Least(InnerWidth(page), 700)
BadgeWidth(page) == Least(220, InnerWidth(page))
CenteredX(page, w) == Half(page.width - w)

(* --- The two sets of boxes ---------------------------------------------- *)

\* The stack of promo_center and promo_badge
StackedBox(page, part) ==
  LET top == TopY(page)
      gap == VerticalGap(page)
      size == 74 + AccentSize(page) \div 2
  IN CASE part = "heroPanel" ->
            Box(CenteredX(page, 280), top, Least(280, InnerWidth(page)),
                Least(112, Percent(page.height, 18)))
       [] part = "badge" ->
            Box(IF Centered(page) THEN CenteredX(page, BadgeWidth(page)) ELSE MarginX(page),
                top + 10, BadgeWidth(page), 36)
       [] part = "ribbon" -> Box(CenteredX(page, 180), page.height - 86, 180, 18)
       [] part = "headline" ->
            Box(CenteredX(page, CenterWidth(page)), top + 82, CenterWidth(page),
                Most(72, page.headlineHeight))
       [] part = "supportingCopy" ->
            LET w == Least(CenterWidth(page), page.width - 180)
            IN  Box(CenteredX(page, w), top + 176 + gap, w, 72)
       [] part = "priceCallout" -> Box(CenteredX(page, 280), top + 292 + gap, 280, 52)
       [] part = "cta" ->
            Box(CenteredX(page, 240), top + 430 + gap + CtaOffset(page), 240, 64)
       [] part = "decoration" ->
            Box(page.width - MarginX(page) - 130, top + 8 + ClusterShift(page),
                130 + AccentSize(page), 130 + AccentSize(page))
       [] part = "cornerAccent" ->
            Box(page.width - MarginX(page) - 74, FooterY(page) - 118, size, size)
       [] part = "frame" ->
            LET w == Least(CenterWidth(page) + 120, page.width - MarginX(page))
            IN  Box(CenteredX(page, w), top + 52, w, Least(440, page.height - top - 120))
       [] part = "footerNote" ->
            LET w == Least(360, page.width - 120)
            IN  Box(CenteredX(page, w), FooterY(page), w, 24)

\* The two columns of promo_split, promo_frame and subject_hero
ColumnBox(page, part) ==
  LET top == TopY(page)
      left == MarginX(page)
      gap == VerticalGap(page)
      right == RightColumn(page)
      size == 82 + AccentSize(page) \div 2
      Either(photo, heavy, plain) ==
        IF PhotoLayout(page) THEN photo ELSE IF HeavyWide(page) THEN heavy ELSE plain
  IN CASE part = "heroPanel" ->
            LET wide == Most(280, Percent(page.width, 30))
            IN  Box(RightX(page), top,
                    Either(Least(wide, right + 40), Least(wide, right + 64), right),
                    Either(Least(324, Percent(page.height, 62)),
                           Least(340, Percent(page.height, 56)),
                           Least(264, Percent(page.height, 42))))
       [] part = "badge" -> Box(left, top, BadgeWidth(page), 36)
       [] part = "ribbon" -> Box(left, FooterY(page) - 22, 180, 18)
       [] part = "headline" ->
            Box(left, top + 42, LeftColumn(page), Most(72, page.headlineHeight))
       [] part = "supportingCopy" ->
            Box(left, top + (IF HeavyWide(page) THEN 166 ELSE 148) + gap,
                LeftColumn(page) + 24, 70)
       [] part = "priceCallout" ->
            Box(left, top + (IF HeavyWide(page) THEN 278 ELSE 238) + gap,
                Least(320, LeftColumn(page)), 48)
       [] part = "cta" ->
            Box(left, top + (IF HeavyWide(page) THEN 392 ELSE 320) + gap + CtaOffset(page),
                230, 64)
       [] part = "decoration" ->
            Box(RightX(page) + Either(12, Most(6, Percent(right, 5)), Most(12, Percent(right, 16))),
                top + Either(Least(356, Percent(page.height, 58)), 18,
                             Least(312, Percent(page.height, 50))) + ClusterShift(page),
                IF page.decoration = "ribbon_badge" THEN Least(150, right - 24)
                  ELSE Either(Least(120, right - 24), Least(220, right - 16), Least(180, right - 24)),
                (IF page.decoration = "ribbon_badge" THEN Least(90, page.height - top - 120)
                  ELSE Either(Least(92, page.height - top - 120),
                              Least(220, page.height - top - 180),
                              Least(140, page.height - top - 120))) + AccentSize(page))
       [] part = "cornerAccent" ->
            Box(page.width - left - 82, top - 6, size, size)
       [] part = "frame" ->
            Box(left - 12, top + 8, InnerWidth(page) + 24,
                Least(430, page.height - top - 98))
       [] part = "footerNote" ->
            Box(left, FooterY(page), Least(360, InnerWidth(page)), 24)

\* createLayoutGeometry: fit each box, then the badge-led and the framed corrections
LayoutBox(page, part) ==
  LET Fit(box) == FitBounds(page.width, page.height, box)
      Moved(box, dy) == Fit([box EXCEPT !.y = @ + dy])
      badgeLed == page.profile = "promo_badge" \/ page.mode = "badge_led"
      band == Box(IF Centered(page) THEN CenteredX(page, BadgeWidth(page)) ELSE MarginX(page),
                  TopY(page) - 4, BadgeWidth(page), 40)
      Led(box) == CASE badgeLed /\ part = "badge" -> Fit(band)
                    [] badgeLed /\ part = "cta"   -> Moved(box, -24)
                    [] OTHER -> box
      Framed(box) == IF part = "cta" /\ page.mode = "framed_promo" THEN Moved(box, 12) ELSE box
  IN  Framed(Led(Fit(IF Stacked(page) THEN StackedBox(page, part) ELSE ColumnBox(page, part))))

(* --- Presets, anchors and zones ----------------------------------------- *)

\* createGeometryPresets: "current" is the page itself
Preset(page, name) ==
  LET As(profile, mode) == [page EXCEPT !.profile = profile, !.mode = mode]
  IN CASE name = "current" -> page
       [] name = "split"   -> As("promo_split", "left_copy_right_graphic")
       [] name = "center"  -> As("promo_center", "center_stack_promo")
       [] name = "badge"   -> As("promo_badge", "badge_promo_stack")
       [] name = "framed"  -> As("promo_frame", "framed_promo")
       [] name = "hero"    -> As("subject_hero", "copy_left_with_right_photo")

CopySlots == {"headline", "subheadline", "offer_line", "cta", "footer_note", "badge_text"}

\* resolveLeftPresetBounds and resolveCenterPresetBounds: the part of a copy slot
CopyPart(slot) ==
  CASE slot = "headline"    -> "headline"
    [] slot = "subheadline" -> "supportingCopy"
    [] slot = "offer_line"  -> "priceCallout"
    [] slot = "cta"         -> "cta"
    [] slot = "footer_note" -> "footerNote"
    [] slot = "badge_text"  -> "badge"

\* resolveBoundsForAnchor
AnchorBox(page, anchor, slot) ==
  LET preset == CASE anchor \in {"center_copy_stack", "bottom_center"} -> "center"
                  [] anchor = "framed_copy_column" -> "framed"
                  [] anchor = "top_badge_band"     -> "badge"
                  [] anchor = "footer_strip"       -> "current"
                  [] OTHER -> "split"
      part == CASE anchor = "top_badge_band" -> "badge"
                [] anchor = "footer_strip"   -> "footerNote"
                [] OTHER -> CopyPart(slot)
  IN  LayoutBox(Preset(page, preset), part)

\* resolveCopySlotBounds: the bounds planned for a slot win over the box of its
\* anchor.  anchors and planned are functions on some of the copy slots; a slot
\* without an anchor follows the headline, the cta falls to bottom_center
CopyAnchor(anchors, slot) ==
  CASE slot = "footer_note" -> "footer_strip"
    [] slot # "footer_note" /\ slot \in DOMAIN anchors -> anchors[slot]
    [] slot = "badge_text" /\ slot \notin DOMAIN anchors -> "top_badge_band"
    [] slot = "cta" /\ slot \notin DOMAIN anchors -> "bottom_center"
    [] OTHER -> IF "headline" \in DOMAIN anchors THEN anchors["headline"] ELSE "left_copy_column"

\* Seeded fault: the anchor wins over the planned bounds.
AnchoredBox(page, anchors, planned, slot) ==
  AnchorBox(page, CopyAnchor(anchors, slot), slot)

CopySlotBox(page, anchors, planned, slot) ==
  IF slot \in DOMAIN planned THEN planned[slot]
  ELSE AnchorBox(page, CopyAnchor(anchors, slot), slot)

\* createClusterZoneBounds: a zone the plan does not use is the decoration box
ZoneBox(page, zones, zone) ==
  LET place == CASE zone \notin zones       -> <<"current", "decoration">>
                 [] zone = "hero_panel"     -> <<"hero", "heroPanel">>
                 [] zone = "right_cluster"  -> <<"split", "decoration">>
                 [] zone = "center_cluster" -> <<"center", "decoration">>
                 [] zone = "top_corner"     -> <<"current", "cornerAccent">>
                 [] zone = "bottom_strip"   -> <<"current", "ribbon">>
                 [] zone = "frame"          -> <<"framed", "frame">>
  IN  LayoutBox(Preset(page, place[1]), place[2])

\* resolveGraphicBindingBounds: the container of the cta grows around the cta box,
\* everything else takes its zone
ContainerBox(cta) == Box(Most(0, cta.x - 12), Most(0, cta.y - 6), cta.w + 24, cta.h + 12)

GraphicBox(page, zones, role, zone, cta) ==
  IF role = "cta_container" THEN ContainerBox(cta) ELSE ZoneBox(page, zones, zone)
=============================================================================

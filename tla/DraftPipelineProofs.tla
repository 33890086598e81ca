-------------------------- MODULE DraftPipelineProofs --------------------------
(* What a draft promises, for every brief. *)
EXTENDS DraftPipeline, FiniteSetTheorems, TLAPS

(* --- The boxes ----------------------------------------------------------- *)

Boxes == [x : Int, y : Int, w : Int, h : Int]
Spacings == {"airy", "balanced", "dense"}
Profiles == {"promo_split", "promo_center", "promo_badge", "promo_frame", "subject_hero"}
PageModes == {"left_copy_right_graphic", "framed_promo", "center_stack_promo",
              "badge_promo_stack", "copy_left_with_right_decoration",
              "copy_left_with_right_photo", "center_stack", "badge_led"}
PageDecorations == {"photo_support", "promo_multi_graphic", "graphic_cluster", "ribbon_badge"}
Parts == {"heroPanel", "badge", "ribbon", "headline", "supportingCopy", "priceCallout",
          "cta", "decoration", "cornerAccent", "frame", "footerNote"}
Pages == [width : Nat \ {0}, height : Nat \ {0}, profile : Profiles, mode : PageModes,
          decoration : PageDecorations, headlineHeight : Nat, spacing : Spacings]

\* least and most are one of the two
LEMMA LeastType == \A a, b \in Int : Least(a, b) \in Int /\ Most(a, b) \in Int
BY DEF Least, Most

\* rounded halves and percentages are integers, also of negative widths
LEMMA RoundType ==
  \A n \in Int : Half(n) \in Int /\ \A p \in Int : Percent(n, p) \in Int
<1>1. \A n \in Int : (n + 1) \div 2 \in Int OBVIOUS
<1>2. \A n, p \in Int : (n * p + 50) \in Int OBVIOUS
<1>3. \A m \in Int : m \div 100 \in Int OBVIOUS
<1>4. QED BY <1>1, <1>2, <1>3 DEF Half, Percent

\* A box of any place and size is shrunk and pushed onto any canvas.
LEMMA FitBoundsFits ==
  ASSUME NEW width \in Nat \ {0}, NEW height \in Nat \ {0}, NEW box \in Boxes
  PROVE  /\ FitBounds(width, height, box) \in Boxes
         /\ OnCanvas(FitBounds(width, height, box), width, height)
<1>0. box.x \in Int /\ box.y \in Int /\ box.w \in Int /\ box.h \in Int BY DEF Boxes
<1>1. ASSUME NEW size \in Nat \ {0}, NEW start \in Int, NEW extent \in Int
      PROVE  LET e == Most(1, Least(extent, size))
                 s == Most(0, Least(start, size - e))
             IN  e \in Int /\ s \in Int /\ s >= 0 /\ e >= 1 /\ s + e <= size
  BY <1>1 DEF Least, Most
<1> DEFINE w == Most(1, Least(box.w, width))
           h == Most(1, Least(box.h, height))
           x == Most(0, Least(box.x, width - w))
           y == Most(0, Least(box.y, height - h))
<1>2. w \in Int /\ x \in Int /\ x >= 0 /\ w >= 1 /\ x + w <= width BY <1>0, <1>1
<1>3. h \in Int /\ y \in Int /\ y >= 0 /\ h >= 1 /\ y + h <= height BY <1>0, <1>1
<1>4. FitBounds(width, height, box) = [x |-> x, y |-> y, w |-> w, h |-> h]
  BY DEF FitBounds, Box
<1> HIDE DEF x, y, w, h
<1>5. QED BY <1>2, <1>3, <1>4 DEF OnCanvas, Boxes

\* a box of integers
LEMMA BoxType ==
  \A x, y, w, h \in Int : Box(x, y, w, h) \in Boxes
BY DEF Box, Boxes

\* the gaps of every density are integers, some negative
LEMMA SpacingType ==
  ASSUME NEW page \in Pages
  PROVE  /\ VerticalGap(page) \in Int /\ CtaOffset(page) \in Int
         /\ ClusterShift(page) \in Int /\ AccentSize(page) \in Int
BY DEF Pages, VerticalGap, CtaOffset, ClusterShift, AccentSize, BySpacing

\* the quantities the layout is computed from are integers
LEMMA QuantityType ==
  ASSUME NEW page \in Pages
  PROVE  /\ MarginX(page) \in Int /\ TopY(page) \in Int /\ FooterY(page) \in Int
         /\ InnerWidth(page) \in Int /\ LeftColumn(page) \in Int
         /\ RightColumn(page) \in Int /\ RightX(page) \in Int
         /\ CenterWidth(page) \in Int /\ BadgeWidth(page) \in Int
         /\ \A w \in Int : CenteredX(page, w) \in Int
<1>1. page.width \in Int /\ page.height \in Int BY DEF Pages
<1>a. /\ Percent(page.width, 7) \in Int /\ Percent(page.height, 12) \in Int
      /\ Percent(page.width, 38) \in Int /\ Percent(page.width, 28) \in Int
  BY <1>1 DEF Percent
<1>2. MarginX(page) \in Int /\ TopY(page) \in Int
  BY <1>a DEF MarginX, TopY, Most
<1>3. FooterY(page) \in Int /\ InnerWidth(page) \in Int
  BY <1>1, <1>2 DEF FooterY, InnerWidth
<1>4. LeftColumn(page) \in Int /\ RightColumn(page) \in Int
  BY <1>3, <1>a DEF LeftColumn, RightColumn, Least, Most
<1>5. RightX(page) \in Int BY <1>1, <1>2, <1>4 DEF RightX
<1>6. CenterWidth(page) \in Int /\ BadgeWidth(page) \in Int
  BY <1>3 DEF CenterWidth, Least, BadgeWidth
<1>7. \A w \in Int : CenteredX(page, w) \in Int BY <1>1, RoundType DEF CenteredX
<1>8. QED BY <1>2, <1>3, <1>4, <1>5, <1>6, <1>7

\* every part of a stacked layout has a box
LEMMA StackedBoxType ==
  ASSUME NEW page \in Pages, NEW part \in Parts
  PROVE  StackedBox(page, part) \in Boxes
<1>1. page.width \in Int /\ page.height \in Int /\ page.headlineHeight \in Int BY DEF Pages
<1>2. /\ Half(page.width - BadgeWidth(page)) \in Int /\ AccentSize(page) \div 2 \in Int
      /\ Percent(page.height, 18) \in Int
  BY <1>1, SpacingType, QuantityType DEF Half, Percent
<1>3. /\ CenteredX(page, 280) \in Int /\ CenteredX(page, 240) \in Int
      /\ CenteredX(page, 180) \in Int
  BY <1>1 DEF CenteredX, Half
<1> USE <1>1, <1>2, <1>3, SpacingType, QuantityType
<1> USE DEF StackedBox
<1>heroPanel.      CASE part = "heroPanel" BY <1>heroPanel DEF Least, Box, Boxes
<1>badge.          CASE part = "badge" BY <1>badge DEF Box, Boxes
<1>ribbon.         CASE part = "ribbon" BY <1>ribbon DEF Box, Boxes
<1>headline.       CASE part = "headline" BY <1>headline DEF Most, Box, Boxes
<1>supportingCopy. CASE part = "supportingCopy" BY <1>supportingCopy DEF Least, Box, Boxes
<1>priceCallout.   CASE part = "priceCallout" BY <1>priceCallout DEF Box, Boxes
<1>cta.            CASE part = "cta" BY <1>cta DEF Box, Boxes
<1>decoration.     CASE part = "decoration" BY <1>decoration DEF Box, Boxes
<1>cornerAccent.   CASE part = "cornerAccent" BY <1>cornerAccent DEF Box, Boxes
<1>frame.          CASE part = "frame" BY <1>frame DEF Least, Box, Boxes
<1>footerNote.     CASE part = "footerNote" BY <1>footerNote DEF Least, Box, Boxes
<1> QED BY <1>heroPanel, <1>badge, <1>ribbon, <1>headline, <1>supportingCopy,
           <1>priceCallout, <1>cta, <1>decoration, <1>cornerAccent, <1>frame,
           <1>footerNote DEF Parts

\* every part of a layout in columns has a box
LEMMA ColumnBoxType ==
  ASSUME NEW page \in Pages, NEW part \in Parts
  PROVE  ColumnBox(page, part) \in Boxes
<1>1. page.width \in Int /\ page.height \in Int /\ page.headlineHeight \in Int BY DEF Pages
<1>2. /\ AccentSize(page) \div 2 \in Int /\ Percent(page.width, 30) \in Int
      /\ Percent(page.height, 62) \in Int /\ Percent(page.height, 56) \in Int
      /\ Percent(page.height, 42) \in Int /\ Percent(page.height, 58) \in Int
      /\ Percent(page.height, 50) \in Int
      /\ Percent(RightColumn(page), 5) \in Int /\ Percent(RightColumn(page), 16) \in Int
  BY <1>1, SpacingType, QuantityType DEF Percent
<1> USE <1>1, <1>2, SpacingType, QuantityType
<1> USE DEF ColumnBox
<1>heroPanel.      CASE part = "heroPanel" BY <1>heroPanel DEF Least, Most, Box, Boxes
<1>badge.          CASE part = "badge" BY <1>badge DEF Box, Boxes
<1>ribbon.         CASE part = "ribbon" BY <1>ribbon DEF Box, Boxes
<1>headline.       CASE part = "headline" BY <1>headline DEF Most, Box, Boxes
<1>supportingCopy. CASE part = "supportingCopy" BY <1>supportingCopy DEF Box, Boxes
<1>priceCallout.   CASE part = "priceCallout" BY <1>priceCallout DEF Least, Box, Boxes
<1>cta.            CASE part = "cta" BY <1>cta DEF Box, Boxes
<1>decoration.     CASE part = "decoration" BY <1>decoration DEF Least, Most, Box, Boxes
<1>cornerAccent.   CASE part = "cornerAccent" BY <1>cornerAccent DEF Box, Boxes
<1>frame.          CASE part = "frame" BY <1>frame DEF Least, Box, Boxes
<1>footerNote.     CASE part = "footerNote" BY <1>footerNote DEF Least, Box, Boxes
<1> QED BY <1>heroPanel, <1>badge, <1>ribbon, <1>headline, <1>supportingCopy,
           <1>priceCallout, <1>cta, <1>decoration, <1>cornerAccent, <1>frame,
           <1>footerNote DEF Parts

\* a fitted box is on the canvas of its page
LEMMA FitType ==
  ASSUME NEW page \in Pages, NEW box \in Boxes
  PROVE  /\ FitBounds(page.width, page.height, box) \in Boxes
         /\ OnCanvas(FitBounds(page.width, page.height, box), page.width, page.height)
<1>1. page.width \in Nat \ {0} /\ page.height \in Nat \ {0} BY DEF Pages
<1>2. QED BY <1>1, FitBoundsFits

\* Fits(page, box): a box that is on the canvas of the page
Fits(page, box) == box \in Boxes /\ OnCanvas(box, page.width, page.height)

\* createLayoutGeometry: every part of every family is on the canvas, also after the
\* corrections for a badge and a frame.
LEMMA LayoutBoxFits ==
  ASSUME NEW page \in Pages, NEW part \in Parts
  PROVE  Fits(page, LayoutBox(page, part))
<1> DEFINE Fit(box) == FitBounds(page.width, page.height, box)
           Moved(box, dy) == Fit([box EXCEPT !.y = @ + dy])
           badgeLed == page.profile = "promo_badge" \/ page.mode = "badge_led"
           band == Box(IF Centered(page) THEN CenteredX(page, BadgeWidth(page))
                                         ELSE MarginX(page),
                       TopY(page) - 4, BadgeWidth(page), 40)
           Led(box) == CASE badgeLed /\ part = "badge" -> Fit(band)
                         [] badgeLed /\ part = "cta"   -> Moved(box, -24)
                         [] OTHER -> box
           Framed(box) == IF part = "cta" /\ page.mode = "framed_promo"
                          THEN Moved(box, 12) ELSE box
           raw == IF Stacked(page) THEN StackedBox(page, part) ELSE ColumnBox(page, part)
<1>1. \A box \in Boxes : Fits(page, Fit(box)) BY FitType DEF Fits
<1>2. \A box \in Boxes, dy \in Int : Fits(page, Moved(box, dy))
  <2> TAKE box \in Boxes, dy \in Int
  <2>1. [box EXCEPT !.y = @ + dy] \in Boxes BY DEF Boxes
  <2>2. QED BY <2>1, <1>1
<1>3. raw \in Boxes BY StackedBoxType, ColumnBoxType
<1>4. band \in Boxes
  <2> DEFINE x == IF Centered(page) THEN CenteredX(page, BadgeWidth(page)) ELSE MarginX(page)
  <2>1. x \in Int /\ TopY(page) - 4 \in Int /\ BadgeWidth(page) \in Int BY QuantityType
  <2> HIDE DEF x
  <2>2. Box(x, TopY(page) - 4, BadgeWidth(page), 40) \in Boxes BY <2>1 DEF Box, Boxes
  <2>3. QED BY <2>2 DEF x
<1>5. ASSUME NEW box, Fits(page, box)
      PROVE  Fits(page, Led(box)) /\ Fits(page, Framed(box))
  <2>1. box \in Boxes /\ -24 \in Int /\ 12 \in Int BY <1>5 DEF Fits
  <2> HIDE DEF band, Fit, Moved
  <2>2. Fits(page, Fit(band)) BY <1>1, <1>4
  <2>3. Fits(page, Moved(box, -24)) /\ Fits(page, Moved(box, 12)) BY <1>2, <2>1
  <2>4. QED BY <1>5, <2>2, <2>3
<1>6. LayoutBox(page, part) = Framed(Led(Fit(raw))) BY DEF LayoutBox
<1> HIDE DEF raw, Fit, Led, Framed
<1>7. QED BY <1>1, <1>3, <1>5, <1>6

\* createGeometryPresets: a preset is another page of the same canvas.
LEMMA PresetType ==
  ASSUME NEW page \in Pages,
         NEW name \in {"current", "split", "center", "badge", "framed", "hero"}
  PROVE  /\ Preset(page, name) \in Pages
         /\ Preset(page, name).width = page.width /\ Preset(page, name).height = page.height
<1> DEFINE As(p, m) == [page EXCEPT !.profile = p, !.mode = m]
           Same(other) == /\ other \in Pages
                          /\ other.width = page.width /\ other.height = page.height
<1>2. /\ Same(As("promo_split", "left_copy_right_graphic"))
      /\ Same(As("promo_center", "center_stack_promo"))
      /\ Same(As("promo_badge", "badge_promo_stack"))
      /\ Same(As("promo_frame", "framed_promo"))
      /\ Same(As("subject_hero", "copy_left_with_right_photo"))
  BY DEF Pages, Profiles, PageModes
<1>page. Same(page) OBVIOUS
<1>3. Preset(page, name) \in {page, As("promo_split", "left_copy_right_graphic"),
         As("promo_center", "center_stack_promo"), As("promo_badge", "badge_promo_stack"),
         As("promo_frame", "framed_promo"),
         As("subject_hero", "copy_left_with_right_photo")}
  <2> HIDE DEF As
  <2> QED BY DEF Preset, As
<1> HIDE DEF As
<1>4. QED BY <1>2, <1>page, <1>3

\* so is every part of every preset, whatever page it is made for
LEMMA PresetBoxFits ==
  ASSUME NEW page \in Pages, NEW part \in Parts,
         NEW name \in {"current", "split", "center", "badge", "framed", "hero"}
  PROVE  Fits(page, LayoutBox(Preset(page, name), part))
BY PresetType, LayoutBoxFits DEF Fits

\* every copy slot is laid out as a part
LEMMA CopyPartType == \A slot \in CopySlots : CopyPart(slot) \in Parts
BY DEF CopySlots, CopyPart, Parts

\* a copy slot fits wherever it is anchored
LEMMA AnchorBoxFits ==
  ASSUME NEW page \in Pages, NEW anchor, NEW slot \in CopySlots
  PROVE  Fits(page, AnchorBox(page, anchor, slot))
<1>1. CopyPart(slot) \in Parts /\ "badge" \in Parts /\ "footerNote" \in Parts
  BY CopyPartType DEF Parts
<1>2. QED BY <1>1, PresetBoxFits DEF AnchorBox

\* resolveCopySlotBounds: the box of a copy slot is on the canvas when the planned
\* ones are.
LEMMA CopySlotBoxFits ==
  ASSUME NEW page \in Pages, NEW anchors, NEW planned, NEW slot \in CopySlots,
         \A s \in DOMAIN planned : Fits(page, planned[s])
  PROVE  Fits(page, CopySlotBox(page, anchors, planned, slot))
BY AnchorBoxFits DEF CopySlotBox

\* a zone fits
LEMMA ZoneBoxFits ==
  ASSUME NEW page \in Pages, NEW zones, NEW zone \in zones,
         zones \subseteq {"hero_panel", "right_cluster", "center_cluster", "top_corner",
                         "bottom_strip", "frame"}
  PROVE  Fits(page, ZoneBox(page, zones, zone))
<1>1. {"heroPanel", "decoration", "cornerAccent", "ribbon", "frame"} \subseteq Parts BY DEF Parts
<1>2. QED BY <1>1, PresetBoxFits, LayoutBoxFits DEF ZoneBox

(* --- The copy stack ------------------------------------------------------- *)

\* a box from y to y + h of the page
At(box, y, h) == box.y = y /\ box.h = h

\* fitting leaves the rows of a box alone that is within the height of the canvas
LEMMA FitRow ==
  ASSUME NEW width \in Nat \ {0}, NEW height \in Nat \ {0}, NEW box,
         NEW y \in Int, NEW h \in Int, At(box, y, h), y >= 0, h >= 1, y + h <= height
  PROVE  At(FitBounds(width, height, box), y, h)
<1>1. box.y = y /\ box.h = h BY DEF At
<1>2. Most(1, Least(h, height)) = h BY DEF Least, Most
<1>3. Most(0, Least(y, height - h)) = y BY DEF Least, Most
<1>4. /\ FitBounds(width, height, box).y = Most(0, Least(y, height - Most(1, Least(h, height))))
      /\ FitBounds(width, height, box).h = Most(1, Least(h, height))
  BY <1>1 DEF FitBounds, Box
<1>5. QED BY <1>2, <1>3, <1>4 DEF At

RawBox(page, part) == IF Stacked(page) THEN StackedBox(page, part) ELSE ColumnBox(page, part)

\* away from the corrections for badge and frame, a part that fits is where its family
\* puts it
LEMMA PlainRow ==
  ASSUME NEW page \in Pages, NEW part,
         part # "badge",
         part = "cta" => page.profile # "promo_badge" /\ page.mode # "badge_led",
         NEW y \in Int, NEW h \in Int, At(RawBox(page, part), y, h),
         y >= 0, h >= 1, y + h + 12 <= page.height
  PROVE  At(LayoutBox(page, part),
            IF part = "cta" /\ page.mode = "framed_promo" THEN y + 12 ELSE y, h)
<1> DEFINE Fit(box) == FitBounds(page.width, page.height, box)
           Moved(box, dy) == Fit([box EXCEPT !.y = @ + dy])
           raw == RawBox(page, part)
<1>1. page.width \in Nat \ {0} /\ page.height \in Nat \ {0} BY DEF Pages
<1>2. At(Fit(raw), y, h)
  <2>1. y + h <= page.height BY <1>1
  <2>2. QED BY <1>1, <2>1, FitRow
<1>3. LayoutBox(page, part) =
        IF part = "cta" /\ page.mode = "framed_promo" THEN Moved(Fit(raw), 12) ELSE Fit(raw)
  BY DEF LayoutBox, RawBox
<1>4. At(Moved(Fit(raw), 12), y + 12, h)
  <2> DEFINE box == Fit(raw)
             down == [box EXCEPT !.y = @ + 12]
  <2>1. box = [x |-> box.x, y |-> box.y, w |-> box.w, h |-> box.h]
    BY DEF FitBounds, Box
  <2> HIDE DEF box
  <2>2. down.y = y + 12 /\ down.h = h BY <1>2, <2>1 DEF At, box
  <2> HIDE DEF down
  <2>3. At(down, y + 12, h) BY <2>2 DEF At
  <2>4. y + 12 \in Int /\ y + 12 >= 0 /\ y + 12 + h <= page.height BY <1>1
  <2>5. At(FitBounds(page.width, page.height, down), y + 12, h) BY <1>1, <2>3, <2>4, FitRow
  <2>6. QED BY <2>5 DEF down, box
<1> HIDE DEF Fit, Moved, raw
<1>5. QED BY <1>2, <1>3, <1>4

\* a preset changes profile and mode, and nothing else of its page
LEMMA PresetFields ==
  ASSUME NEW page \in Pages
  PROVE  LET Same(other) == /\ other \in Pages
                            /\ other.width = page.width /\ other.height = page.height
                            /\ other.spacing = page.spacing
                            /\ other.headlineHeight = page.headlineHeight
             Is(name, profile, mode) ==
               /\ Same(Preset(page, name))
               /\ Preset(page, name).profile = profile /\ Preset(page, name).mode = mode
         IN  /\ Is("split", "promo_split", "left_copy_right_graphic")
             /\ Is("center", "promo_center", "center_stack_promo")
             /\ Is("badge", "promo_badge", "badge_promo_stack")
             /\ Is("framed", "promo_frame", "framed_promo")
<1> DEFINE As(p, m) == [page EXCEPT !.profile = p, !.mode = m]
<1>1. ASSUME NEW p, NEW m
      PROVE  /\ As(p, m).width = page.width /\ As(p, m).height = page.height
             /\ As(p, m).spacing = page.spacing
             /\ As(p, m).headlineHeight = page.headlineHeight
             /\ As(p, m).profile = p /\ As(p, m).mode = m
  BY DEF Pages
<1>2. /\ Preset(page, "split") = As("promo_split", "left_copy_right_graphic")
      /\ Preset(page, "center") = As("promo_center", "center_stack_promo")
      /\ Preset(page, "badge") = As("promo_badge", "badge_promo_stack")
      /\ Preset(page, "framed") = As("promo_frame", "framed_promo")
  BY DEF Preset
<1> HIDE DEF As
<1>3. QED BY <1>1, <1>2, PresetType

\* The three preset canvases, a headline of one line, and no airy stack on the wide one.
Roomy(page) ==
  /\ page \in Pages /\ page.headlineHeight = 72
  /\ page.height \in {628, 1080, 1920}
  /\ page.height = 628 => page.spacing # "airy"

\* where the copy begins on the three preset canvases
LEMMA RoomyTop ==
  ASSUME NEW page, Roomy(page)
  PROVE  \/ TopY(page) = 75 /\ page.height = 628
         \/ TopY(page) = 130 /\ page.height = 1080
         \/ TopY(page) = 230 /\ page.height = 1920
BY DEF Roomy, TopY, Percent, Most

\* the gaps of the three densities; an airy wide canvas is excluded
LEMMA RoomySpacing ==
  ASSUME NEW page, Roomy(page)
  PROVE  \/ VerticalGap(page) = 0 /\ CtaOffset(page) = 0
         \/ VerticalGap(page) = -14 /\ CtaOffset(page) = -10
         \/ VerticalGap(page) = 18 /\ CtaOffset(page) = 16 /\ page.height # 628
BY DEF Roomy, Pages, VerticalGap, CtaOffset, BySpacing

\* neither spreading nor fitting moves the rows of a copy box that has room below
LEMMA CopyRow ==
  ASSUME NEW page \in Pages, NEW part,
         part # "badge",
         part = "cta" => page.profile # "promo_badge"
                         /\ page.mode \notin {"badge_led", "framed_promo"},
         NEW y \in Int, NEW h \in Int, At(RawBox(page, part), y, h),
         y >= 0, h >= 1, h <= 72, y + 72 + 12 <= page.height
  PROVE  At(LayoutBox(page, part), y, h)
<1>1. page.height \in Nat BY DEF Pages
<1>2. y + h + 12 <= page.height BY <1>1
<1>3. QED BY <1>2, PlainRow

\* the rows of the centered stack
LEMMA CenterRows ==
  ASSUME NEW page, Roomy(page)
  PROVE  LET center == Preset(page, "center")
             top == TopY(page)
             gap == VerticalGap(page)
         IN  /\ At(LayoutBox(center, "headline"), top + 82, 72)
             /\ At(LayoutBox(center, "supportingCopy"), top + 176 + gap, 72)
             /\ At(LayoutBox(center, "priceCallout"), top + 292 + gap, 52)
             /\ At(LayoutBox(center, "cta"), top + 430 + gap + CtaOffset(page), 64)
<1> DEFINE center == Preset(page, "center")
           top == TopY(page)
           gap == VerticalGap(page)
           headline == top + 82
           supporting == top + 176 + gap
           price == top + 292 + gap
           cta == top + 430 + gap + CtaOffset(page)
<1>1. /\ center \in Pages /\ center.height = page.height /\ center.spacing = page.spacing
      /\ center.headlineHeight = 72
      /\ center.profile = "promo_center" /\ center.mode = "center_stack_promo"
  BY PresetFields DEF Roomy
<1> HIDE DEF center
<1>2. /\ TopY(center) = top /\ VerticalGap(center) = gap
      /\ CtaOffset(center) = CtaOffset(page)
  BY <1>1 DEF TopY, VerticalGap, CtaOffset, BySpacing
<1>3. \A part : RawBox(center, part) = StackedBox(center, part)
  BY <1>1 DEF RawBox, Stacked
<1>4. /\ At(RawBox(center, "headline"), headline, 72)
      /\ At(RawBox(center, "supportingCopy"), supporting, 72)
      /\ At(RawBox(center, "priceCallout"), price, 52)
      /\ At(RawBox(center, "cta"), cta, 64)
  <2>1. Most(72, center.headlineHeight) = 72 BY <1>1 DEF Most
  <2>2. QED BY <1>2, <1>3, <2>1 DEF At, StackedBox, Box
<1>5. /\ center.height \in Nat
      /\ \A y \in {headline, supporting, price, cta} :
           y \in Int /\ y >= 0 /\ y + 72 + 12 <= center.height
  <2>1. cta + 72 + 12 <= center.height
    BY <1>1, RoomyTop, RoomySpacing
  <2>2. QED BY <1>1, RoomyTop, RoomySpacing
<1> HIDE DEF top, gap, headline, supporting, price, cta
<1>6. At(LayoutBox(center, "headline"), headline, 72) BY <1>1, <1>4, <1>5, CopyRow
<1>7. At(LayoutBox(center, "supportingCopy"), supporting, 72) BY <1>1, <1>4, <1>5, CopyRow
<1>8. At(LayoutBox(center, "priceCallout"), price, 52) BY <1>1, <1>4, <1>5, CopyRow
<1>9. At(LayoutBox(center, "cta"), cta, 64) BY <1>1, <1>4, <1>5, CopyRow
<1>10. QED
  BY <1>6, <1>7, <1>8, <1>9 DEF center, top, gap, headline, supporting, price, cta

\* the rows of the copy column, plain or framed
LEMMA ColumnRows ==
  ASSUME NEW page, Roomy(page), NEW name \in {"split", "framed"}
  PROVE  LET column == Preset(page, name)
             top == TopY(page)
             gap == VerticalGap(page)
         IN  /\ At(LayoutBox(column, "headline"), top + 42, 72)
             /\ At(LayoutBox(column, "supportingCopy"), top + 166 + gap, 70)
             /\ At(LayoutBox(column, "priceCallout"), top + 278 + gap, 48)
             /\ \E down \in {0, 12} :
                  At(LayoutBox(column, "cta"), top + 392 + gap + CtaOffset(page) + down, 64)
<1> DEFINE column == Preset(page, name)
           top == TopY(page)
           gap == VerticalGap(page)
           headline == top + 42
           supporting == top + 166 + gap
           price == top + 278 + gap
           cta == top + 392 + gap + CtaOffset(page)
<1>1. /\ column \in Pages /\ column.height = page.height /\ column.spacing = page.spacing
      /\ column.headlineHeight = 72
      /\ column.profile \in {"promo_split", "promo_frame"}
      /\ column.mode \in {"left_copy_right_graphic", "framed_promo"}
  BY PresetFields DEF Roomy
<1> HIDE DEF column
<1>2. /\ TopY(column) = top /\ VerticalGap(column) = gap
      /\ CtaOffset(column) = CtaOffset(page)
  BY <1>1 DEF TopY, VerticalGap, CtaOffset, BySpacing
<1>3. /\ \A part : RawBox(column, part) = ColumnBox(column, part)
      /\ HeavyWide(column)
  BY <1>1 DEF RawBox, Stacked, HeavyWide
<1>4. /\ At(RawBox(column, "headline"), headline, 72)
      /\ At(RawBox(column, "supportingCopy"), supporting, 70)
      /\ At(RawBox(column, "priceCallout"), price, 48)
      /\ At(RawBox(column, "cta"), cta, 64)
  <2>1. Most(72, column.headlineHeight) = 72 BY <1>1 DEF Most
  <2>2. QED BY <1>2, <1>3, <2>1 DEF At, ColumnBox, Box
<1>5. /\ column.height \in Nat
      /\ \A y \in {headline, supporting, price, cta} :
           y \in Int /\ y >= 0 /\ y + 72 + 12 <= column.height
  BY <1>1, RoomyTop, RoomySpacing
<1> HIDE DEF top, gap, headline, supporting, price, cta
<1>6. At(LayoutBox(column, "headline"), headline, 72) BY <1>1, <1>4, <1>5, CopyRow
<1>7. At(LayoutBox(column, "supportingCopy"), supporting, 70) BY <1>1, <1>4, <1>5, CopyRow
<1>8. At(LayoutBox(column, "priceCallout"), price, 48) BY <1>1, <1>4, <1>5, CopyRow
<1>9. \E down \in {0, 12} : At(LayoutBox(column, "cta"), cta + down, 64)
  <2>1. At(LayoutBox(column, "cta"), IF column.mode = "framed_promo" THEN cta + 12 ELSE cta, 64)
    BY <1>1, <1>4, <1>5, PlainRow
  <2>2. cta + 0 = cta BY <1>5
  <2>3. QED BY <2>1, <2>2
<1>10. QED
  BY <1>6, <1>7, <1>8, <1>9 DEF column, top, gap, headline, supporting, price, cta

\* the badge is above the copy and the footer below it
LEMMA BadgeAndFooterRows ==
  ASSUME NEW page, Roomy(page)
  PROVE  /\ At(LayoutBox(Preset(page, "badge"), "badge"), TopY(page) - 4, 40)
         /\ At(LayoutBox(Preset(page, "current"), "footerNote"), page.height - 44, 24)
<1>1. At(LayoutBox(Preset(page, "badge"), "badge"), TopY(page) - 4, 40)
  <2> DEFINE badge == Preset(page, "badge")
             band == Box(IF Centered(badge) THEN CenteredX(badge, BadgeWidth(badge))
                                            ELSE MarginX(badge),
                         TopY(badge) - 4, BadgeWidth(badge), 40)
  <2>1. /\ badge \in Pages /\ badge.height = page.height /\ badge.profile = "promo_badge"
        /\ TopY(badge) = TopY(page)
    BY PresetFields DEF Roomy, TopY
  <2> HIDE DEF badge
  <2>2. LayoutBox(badge, "badge") = FitBounds(badge.width, badge.height, band)
    BY <2>1 DEF LayoutBox
  <2>3. At(band, TopY(page) - 4, 40) BY <2>1 DEF At, Box
  <2>4. badge.width \in Nat \ {0} /\ badge.height \in Nat \ {0} BY <2>1 DEF Pages
  <2>5. /\ TopY(page) - 4 \in Int /\ TopY(page) - 4 >= 0
        /\ TopY(page) - 4 + 40 <= badge.height
    BY <2>1, RoomyTop
  <2> HIDE DEF band
  <2>6. At(LayoutBox(badge, "badge"), TopY(page) - 4, 40) BY <2>2, <2>3, <2>4, <2>5, FitRow
  <2>7. QED BY <2>6 DEF badge
<1>2. At(LayoutBox(Preset(page, "current"), "footerNote"), page.height - 44, 24)
  <2>1. Preset(page, "current") = page BY DEF Preset
  <2>2. page \in Pages /\ page.height \in {628, 1080, 1920} BY DEF Roomy
  <2>3. At(RawBox(page, "footerNote"), page.height - 44, 24)
    <3>1. CASE Stacked(page) BY <3>1 DEF RawBox, StackedBox, At, Box, FooterY
    <3>2. CASE ~Stacked(page) BY <3>2 DEF RawBox, ColumnBox, At, Box, FooterY
    <3>3. QED BY <3>1, <3>2
  <2>4. QED BY <2>1, <2>2, <2>3, PlainRow
<1>3. QED BY <1>1, <1>2

\* Boxes of which one ends where, or before, the other starts are apart.
Above(a, b) == a.y + a.h <= b.y

\* boxes one above the other do not overlap
LEMMA AboveIsApart ==
  ASSUME NEW a \in Boxes, NEW b \in Boxes, Above(a, b)
  PROVE  ~BoundsOverlap(a, b) /\ ~BoundsOverlap(b, a)
BY DEF Boxes, Above, BoundsOverlap

\* badge, headline, supporting copy, price, cta and footer come one below the other
LEMMA StackIsOrdered ==
  ASSUME NEW page, Roomy(page), NEW name \in {"center", "split", "framed"}
  PROVE  LET badge == LayoutBox(Preset(page, "badge"), "badge")
             headline == LayoutBox(Preset(page, name), "headline")
             supporting == LayoutBox(Preset(page, name), "supportingCopy")
             price == LayoutBox(Preset(page, name), "priceCallout")
             cta == LayoutBox(Preset(page, name), "cta")
             footer == LayoutBox(Preset(page, "current"), "footerNote")
         IN  /\ Above(badge, headline) /\ Above(badge, supporting) /\ Above(badge, price)
             /\ Above(badge, cta) /\ Above(badge, footer)
             /\ Above(headline, supporting) /\ Above(headline, price)
             /\ Above(headline, cta) /\ Above(headline, footer)
             /\ Above(supporting, price) /\ Above(supporting, cta)
             /\ Above(supporting, footer)
             /\ Above(price, cta) /\ Above(price, footer) /\ Above(cta, footer)
<1> DEFINE badge == LayoutBox(Preset(page, "badge"), "badge")
           headline == LayoutBox(Preset(page, name), "headline")
           supporting == LayoutBox(Preset(page, name), "supportingCopy")
           price == LayoutBox(Preset(page, name), "priceCallout")
           cta == LayoutBox(Preset(page, name), "cta")
           footer == LayoutBox(Preset(page, "current"), "footerNote")
           top == TopY(page)
           gap == VerticalGap(page)
           offset == CtaOffset(page)
           height == page.height
<1>1. At(badge, top - 4, 40) /\ At(footer, height - 44, 24) BY BadgeAndFooterRows
<1>2. \/ /\ At(headline, top + 82, 72) /\ At(supporting, top + 176 + gap, 72)
         /\ At(price, top + 292 + gap, 52) /\ At(cta, top + 430 + gap + offset, 64)
      \/ /\ At(headline, top + 42, 72) /\ At(supporting, top + 166 + gap, 70)
         /\ At(price, top + 278 + gap, 48)
         /\ \E down \in {0, 12} : At(cta, top + 392 + gap + offset + down, 64)
  BY CenterRows, ColumnRows
<1>3. \/ top = 75 /\ height = 628
      \/ top = 130 /\ height = 1080
      \/ top = 230 /\ height = 1920
  BY RoomyTop
<1>4. \/ gap = 0 /\ offset = 0
      \/ gap = -14 /\ offset = -10
      \/ gap = 18 /\ offset = 16 /\ height # 628
  BY RoomySpacing
<1> HIDE DEF badge, headline, supporting, price, cta, footer, top, gap, offset, height
<1>5. /\ Above(badge, headline) /\ Above(badge, supporting) /\ Above(badge, price)
      /\ Above(badge, cta) /\ Above(badge, footer)
      /\ Above(headline, supporting) /\ Above(headline, price)
      /\ Above(headline, cta) /\ Above(headline, footer)
      /\ Above(supporting, price) /\ Above(supporting, cta)
      /\ Above(supporting, footer)
      /\ Above(price, cta) /\ Above(price, footer) /\ Above(cta, footer)
  BY <1>1, <1>2, <1>3, <1>4 DEF At, Above
<1>6. QED BY <1>5 DEF badge, headline, supporting, price, cta, footer

(* --- The plan ------------------------------------------------------------ *)

GraphicModes == {"left_copy_right_graphic", "center_stack_promo", "badge_promo_stack",
                 "copy_left_with_right_decoration"}
RoleNames == {"primary_accent", "cta_container", "secondary_accent", "corner_accent",
              "badge_or_ribbon", "frame"}
ZoneNames == {"hero_panel", "right_cluster", "center_cluster", "top_corner", "bottom_strip",
              "frame"}

\* The base layout is the first preferred one, which is always offered.
LEMMA BaseModeIsFirst ==
  ASSUME NEW b \in BriefRecords
  PROVE  /\ BaseMode(b) = PreferredModes(b)[1]
         /\ BaseMode(b) \in GraphicModes
<1> DEFINE preferred == PreferredModes(b)
           Offered(i) == preferred[i] \in Modes \ {"copy_left_with_right_photo"}
           First(i) == Offered(i) /\ \A j \in DOMAIN preferred : Offered(j) => i <= j
<1>1. /\ 1 \in DOMAIN preferred /\ DOMAIN preferred \subseteq Nat \ {0}
      /\ preferred[1] \in GraphicModes
  BY DEF PreferredModes, GraphicModes
<1>2. Offered(1) BY <1>1 DEF GraphicModes, Modes
<1>3. First(1) BY <1>1, <1>2
<1>4. \A i \in DOMAIN preferred : First(i) => i = 1 BY <1>1, <1>2
<1>5. (CHOOSE i \in DOMAIN preferred : First(i)) = 1
  <2> HIDE DEF First, preferred
  <2> QED BY <1>1, <1>3, <1>4
<1>6. BaseMode(b) = preferred[CHOOSE i \in DOMAIN preferred : First(i)] BY DEF BaseMode
<1>7. QED BY <1>1, <1>5, <1>6

\* every brief leads to a layout the page knows
LEMMA ModeType ==
  ASSUME NEW b \in BriefRecords
  PROVE  LayoutMode(b) \in PageModes /\ ResolvedMode(b) \in PageModes
BY BaseModeIsFirst DEF LayoutMode, ResolvedMode, PageModes, GraphicModes

\* and to a family and a density
LEMMA FamilyType ==
  ASSUME NEW b \in BriefRecords
  PROVE  LayoutFamily(b) \in Profiles /\ LayoutFamily(b) \in Families /\ Density(b) \in Spacings
BY DEF BriefRecords, LayoutFamily, RepairedFamily, Density, Profiles, Families, Densities,
       Spacings

\* the height of a text is a number
LEMMA TextHeightType == \A n \in Nat : TextHeight(n) \in Nat
BY DEF TextHeight, Most

\* the page of a brief has its size
LEMMA PageType ==
  ASSUME NEW b \in BriefRecords, NEW mode \in PageModes, NEW spacing \in Spacings
  PROVE  /\ PageOf(b, mode, spacing) \in Pages
         /\ PageOf(b, mode, spacing).width = b.width
         /\ PageOf(b, mode, spacing).height = b.height
<1>1. b.width \in Nat \ {0} /\ b.height \in Nat \ {0} /\ b.headline \in Nat
  BY DEF BriefRecords
<1>2. TextHeight(Least(48, b.headline)) \in Nat
  <2>1. Least(48, b.headline) \in Nat BY <1>1 DEF Least
  <2>2. QED BY <2>1, TextHeightType
<1>3. Decoration(b) \in PageDecorations BY DEF Decoration, PageDecorations
<1>4. QED BY <1>1, <1>2, <1>3, FamilyType DEF PageOf, Pages

\* Whatever the number of candidates, no role is dropped: below four the later roles
\* may use one twice, from four on each has its own.
LEMMA GraphicRolesAreFull ==
  ASSUME NEW n \in Nat \ {0}, NEW mode
  PROVE  /\ GraphicRoles(n, mode) \subseteq RoleNames
         /\ {"primary_accent", "cta_container", "secondary_accent", "corner_accent"}
              \subseteq GraphicRoles(n, mode)
<1> DEFINE Take(used, meant, reuse) ==
             IF reuse \/ meant \notin used THEN meant
             ELSE IF 1..n \ used = {} THEN 0
             ELSE CHOOSE c \in 1..n \ used : \A d \in 1..n \ used : c <= d
           container == Take({1}, Least(2, n), n < 2)
           secondary == Take({1, container}, IF n >= 3 THEN 3 ELSE 1, CanReuse(n))
           corner == Take({1, container, secondary}, IF n >= 4 THEN 4 ELSE Least(2, n),
                          CanReuse(n))
<1>1. container # 0 /\ (n >= 4 => container = 2) BY DEF Least
<1>2. secondary # 0 /\ (n >= 4 => secondary = 3) BY <1>1 DEF CanReuse
<1>3. corner # 0
  <2> HIDE DEF container, secondary
  <2>1. CASE n >= 4
    <3>1. 4 \notin {1, container, secondary} BY <1>1, <1>2, <2>1
    <3>2. corner = 4 BY <2>1, <3>1
    <3> HIDE DEF corner
    <3> QED BY <3>2
  <2>2. CASE n < 4
    <3>1. CanReuse(n) /\ ~(n >= 4) BY <2>2 DEF CanReuse
    <3>2. corner = Least(2, n) BY <3>1
    <3> HIDE DEF corner
    <3> QED BY <3>2 DEF Least
  <2> QED BY <2>1, <2>2
<1>4. GraphicRoles(n, mode)
        = {"primary_accent"}
          \cup When(container # 0, {"cta_container"})
          \cup When(secondary # 0, {"secondary_accent"})
          \cup When(corner # 0, {"corner_accent"})
          \cup When(mode \in {"badge_promo_stack", "badge_led"}, {"badge_or_ribbon"})
          \cup When(mode = "framed_promo", {"frame"})
  BY DEF GraphicRoles
<1> HIDE DEF container, secondary, corner
<1>5. QED BY <1>1, <1>2, <1>3, <1>4 DEF When, RoleNames

BasicRoles == {"primary_accent", "cta_container", "secondary_accent", "corner_accent"}

\* the four roles are four
LEMMA FourBasicRoles == IsFiniteSet(BasicRoles) /\ Cardinality(BasicRoles) = 4
<1>1. IsFiniteSet({"primary_accent"}) /\ Cardinality({"primary_accent"}) = 1
  BY FS_Singleton
<1>2. /\ IsFiniteSet({"primary_accent"} \cup {"cta_container"})
      /\ Cardinality({"primary_accent"} \cup {"cta_container"}) = 2
  BY <1>1, FS_AddElement
<1>3. /\ IsFiniteSet({"primary_accent", "cta_container"} \cup {"secondary_accent"})
      /\ Cardinality({"primary_accent", "cta_container"} \cup {"secondary_accent"}) = 3
  <2>1. {"primary_accent"} \cup {"cta_container"} = {"primary_accent", "cta_container"}
    OBVIOUS
  <2>2. QED BY <1>2, <2>1, FS_AddElement
<1>4. IsFiniteSet(BasicRoles) /\ Cardinality(BasicRoles) = 4
  <2>1. {"primary_accent", "cta_container"} \cup {"secondary_accent"}
          = {"primary_accent", "cta_container", "secondary_accent"}
    OBVIOUS
  <2>2. BasicRoles = {"primary_accent", "cta_container", "secondary_accent"} \cup {"corner_accent"}
    BY DEF BasicRoles
  <2>3. QED BY <1>3, <2>1, <2>2, FS_AddElement
<1>5. QED BY <1>4

\* the roles are known ones, among them, without a photo, the basic four
LEMMA RolesType ==
  ASSUME NEW b \in BriefRecords
  PROVE  /\ Roles(b) \subseteq RoleNames /\ IsFiniteSet(Roles(b))
         /\ ~PhotoSelected(b) => BasicRoles \subseteq Roles(b)
<1>1. b.candidates \in Nat \ {0} BY DEF BriefRecords
<1>2. Roles(b) \subseteq RoleNames
  BY <1>1, GraphicRolesAreFull DEF Roles, RoleNames
<1>3. IsFiniteSet(RoleNames)
  <2>1. IsFiniteSet(BasicRoles \cup {"badge_or_ribbon"}) BY FourBasicRoles, FS_AddElement
  <2>2. IsFiniteSet((BasicRoles \cup {"badge_or_ribbon"}) \cup {"frame"})
    BY <2>1, FS_AddElement
  <2>3. RoleNames = (BasicRoles \cup {"badge_or_ribbon"}) \cup {"frame"}
    BY DEF RoleNames, BasicRoles
  <2>4. QED BY <2>2, <2>3
<1>4. IsFiniteSet(Roles(b)) BY <1>2, <1>3, FS_Subset
<1>5. QED BY <1>1, <1>2, <1>4, GraphicRolesAreFull DEF Roles, BasicRoles

\* a plan with the four basic roles is not thin
LEMMA NotThin ==
  ASSUME NEW b \in BriefRecords, ~PhotoSelected(b)
  PROVE  Cardinality(Roles(b)) >= 4
<1>1. BasicRoles \subseteq Roles(b) /\ IsFiniteSet(Roles(b)) BY RolesType
<1>2. Cardinality(BasicRoles) <= Cardinality(Roles(b)) BY <1>1, FS_Subset
<1>3. Cardinality(Roles(b)) \in Nat BY <1>1, FS_CardinalityType
<1>4. QED BY <1>2, <1>3, FourBasicRoles

\* so preflight finds nothing to warn of
LEMMA PreflightOfGraphics ==
  ASSUME NEW b \in BriefRecords, ~PhotoSelected(b)
  PROVE  PreflightIssues(b) \cap {"cta_copy_overlap_risk", "excessive_empty_space"} = {}
<1>1. LayoutMode(b) \in GraphicModes BY BaseModeIsFirst DEF LayoutMode
<1>2. ~(Cardinality(Roles(b)) < 4)
  BY NotThin, RolesType, FS_CardinalityType
<1>3. StructureIssues(b) = {} BY <1>1, <1>2 DEF StructureIssues, When, GraphicModes
<1>4. QED BY <1>3 DEF PreflightIssues, When

\* Every graphic goes to a zone the plan has.
LEMMA ZonesType ==
  ASSUME NEW b \in BriefRecords
  PROVE  /\ ClusterZones(b) \subseteq ZoneNames
         /\ {"top_corner", "bottom_strip"} \subseteq ClusterZones(b)
         /\ MainZone(ClusterZones(b)) \in ClusterZones(b)
         /\ \A role, preferred :
              PlacementZone(ClusterZones(b), role, preferred) \in ClusterZones(b)
<1>1. ClusterZones(b) \subseteq ZoneNames BY DEF ClusterZones, ZoneNames
<1>2. {"top_corner", "bottom_strip"} \subseteq ClusterZones(b) BY DEF ClusterZones
<1>3. \E zone \in ClusterZones(b) \ {"top_corner", "bottom_strip", "frame"} : TRUE
  BY DEF ClusterZones
<1>4. MainZone(ClusterZones(b)) \in ClusterZones(b) BY <1>3 DEF MainZone
<1>5. ASSUME NEW role, NEW preferred
      PROVE  PlacementZone(ClusterZones(b), role, preferred) \in ClusterZones(b)
  BY <1>2, <1>4 DEF PlacementZone
<1>6. QED BY <1>1, <1>2, <1>4, <1>5

\* every planned copy box is on the canvas
LEMMA PlannedBoundsFit ==
  ASSUME NEW b \in BriefRecords
  PROVE  \A slot \in DOMAIN PlannedBounds(b) : Fits(b, PlannedBounds(b)[slot])
<1> DEFINE page == PageOf(b, ResolvedMode(b), Density(b))
<1>1. page \in Pages /\ page.width = b.width /\ page.height = b.height
  BY PageType, ModeType, FamilyType
<1>2. DOMAIN SlotAnchors(b) \subseteq CopySlots
  BY DEF SlotAnchors, Slots, BriefRecords, OptionalSlots, CopySlots
<1>3. DOMAIN PlannedBounds(b) = DOMAIN SlotAnchors(b)
      /\ \A slot \in DOMAIN SlotAnchors(b) :
           PlannedBounds(b)[slot] = AnchorBox(page, SlotAnchors(b)[slot], slot)
  BY DEF PlannedBounds
<1> HIDE DEF page
<1>4. QED BY <1>1, <1>2, <1>3, AnchorBoxFits DEF Fits

\* What every step keeps of a plan: refinement changes anchors, spacing and whether a
\* container is expected.
PlanFields == {"slots", "required", "roles", "photo", "anchors", "planned", "heroImage",
               "zones", "hints", "page", "ctaContainerExpected", "density", "preflight",
               "includeBadge", "includeHeroCaption", "includeHeroPanel", "includeFrame",
               "includeRibbon"}

GoodPlan(b, p) ==
  /\ PlanFields \subseteq DOMAIN p
  /\ p.page \in Pages /\ p.page.width = b.width /\ p.page.height = b.height
  /\ p.slots \subseteq CopySlots /\ ("badge_text" \in p.slots => p.includeBadge)
  /\ p.roles \subseteq RoleNames
  /\ p.zones \subseteq ZoneNames /\ \A role \in p.roles : p.hints[role] \in p.zones
  /\ \A slot \in DOMAIN p.planned : Fits(b, p.planned[slot])
  /\ Fits(b, p.heroImage)
  /\ ~p.photo => /\ BasicRoles \subseteq p.roles
                 /\ p.preflight \cap {"cta_copy_overlap_risk", "excessive_empty_space"} = {}

\* what a brief leads to is a good plan
LEMMA TemplatePlanIsGood ==
  ASSUME NEW b \in BriefRecords
  PROVE  GoodPlan(b, TemplatePlan(b))
<1> DEFINE p == TemplatePlan(b)
<1>1. PlanFields \subseteq DOMAIN p BY DEF TemplatePlan, PlanFields
<1>2. /\ p.page = PageOf(b, LayoutMode(b), Density(b))
      /\ p.heroImage = LayoutBox(PageOf(b, ResolvedMode(b), Density(b)), "heroPanel")
      /\ p.planned = PlannedBounds(b)
  BY DEF TemplatePlan
<1>3. /\ p.slots = Slots(b) /\ p.roles = Roles(b) /\ p.zones = ClusterZones(b)
      /\ p.preflight = PreflightIssues(b) /\ (~p.photo => ~PhotoSelected(b))
      /\ ("badge_text" \in Slots(b) => p.includeBadge)
  BY DEF TemplatePlan
<1>4. \A role \in Roles(b) : p.hints[role] \in ClusterZones(b)
  BY ZonesType DEF TemplatePlan
<1>5. p.page \in Pages /\ p.page.width = b.width /\ p.page.height = b.height
  BY <1>2, PageType, ModeType, FamilyType
<1>6. Fits(b, p.heroImage)
  <2>1. "heroPanel" \in Parts BY DEF Parts
  <2>2. QED BY <1>2, <2>1, PageType, ModeType, FamilyType, LayoutBoxFits DEF Fits
<1>7. Slots(b) \subseteq CopySlots BY DEF Slots, BriefRecords, OptionalSlots, CopySlots
<1> SUFFICES GoodPlan(b, p) OBVIOUS
<1> HIDE DEF p
<1>8. QED
  BY <1>1, <1>2, <1>3, <1>4, <1>5, <1>6, <1>7, RolesType, ZonesType, PlannedBoundsFit,
     PreflightOfGraphics DEF GoodPlan

\* and stays one when it is patched
LEMMA ApplyPatchIsGood ==
  ASSUME NEW b, NEW p, NEW operations, GoodPlan(b, p)
  PROVE  /\ GoodPlan(b, ApplyPatch(p, operations))
         /\ ApplyPatch(p, operations).slots = p.slots
         /\ ApplyPatch(p, operations).photo = p.photo
<1> DEFINE q == ApplyPatch(p, operations)
<1>1. DOMAIN q = DOMAIN p BY DEF ApplyPatch
<1>2. \A field \in PlanFields \ {"anchors", "page", "ctaContainerExpected"} :
        q[field] = p[field]
  BY DEF GoodPlan, PlanFields, ApplyPatch
<1>3. q.page \in Pages /\ q.page.width = p.page.width /\ q.page.height = p.page.height
  <2>1. p.page \in Pages /\ {"anchors", "page", "ctaContainerExpected"} \subseteq DOMAIN p
    BY DEF GoodPlan, PlanFields
  <2>2. \E spacing \in {"balanced", "airy", p.page.spacing} :
          q.page = [p.page EXCEPT !.spacing = spacing]
    BY <2>1 DEF ApplyPatch
  <2>3. PICK spacing \in {"balanced", "airy", p.page.spacing} :
          q.page = [p.page EXCEPT !.spacing = spacing]
    BY <2>2
  <2>4. spacing \in Spacings BY <2>1 DEF Pages, Spacings
  <2>5. QED BY <2>1, <2>3, <2>4 DEF Pages
<1>4. /\ q.slots = p.slots /\ q.roles = p.roles /\ q.photo = p.photo /\ q.planned = p.planned
      /\ q.heroImage = p.heroImage /\ q.zones = p.zones /\ q.hints = p.hints
      /\ q.preflight = p.preflight /\ q.includeBadge = p.includeBadge
  BY <1>2 DEF PlanFields
<1> SUFFICES GoodPlan(b, q) /\ q.slots = p.slots /\ q.photo = p.photo OBVIOUS
<1> HIDE DEF q
<1>5. QED BY <1>1, <1>3, <1>4 DEF GoodPlan

(* --- The commands -------------------------------------------------------- *)

\* A command has an identity buildCreateLayerCommand accepts and a box on the canvas.
CommandFields == {"op", "key", "slotKey", "executionSlotKey", "role", "box", "target"}

Sound(b, c) ==
  /\ CommandFields \subseteq DOMAIN c
  /\ IdentityValid(c)
  /\ c.role # "cta_container" => OnCanvas(c.box, b.width, b.height)

SoundCommands(b, commands) == \A c \in commands : Sound(b, c)

\* a created layer is sound if its box fits and its slot and role name it
LEMMA CreateSound ==
  ASSUME NEW b, NEW key, NEW slotKey, NEW executionSlotKey, NEW role, NEW box,
         role # "cta_container" => Fits(b, box),
         \/ executionSlotKey = None
              /\ role \notin {"background", "headline", "supporting_copy", "price_callout",
                              "cta", "footer_note", "badge", "hero_image"}
         \/ executionSlotKey # None
              /\ \/ ExecutionSlotOf(slotKey, role) = executionSlotKey
                 \/ slotKey = CompatSlotKey(executionSlotKey)
  PROVE  Sound(b, Create(key, slotKey, executionSlotKey, role, box))
BY DEF Sound, Create, CommandFields, IdentityValid, Fits

\* the box of a copy slot fits, planned or anchored
LEMMA CopyBoxFits ==
  ASSUME NEW b, NEW p, GoodPlan(b, p), NEW slot \in CopySlots
  PROVE  Fits(b, CopyBox(p, slot))
<1>1. p.page \in Pages /\ p.page.width = b.width /\ p.page.height = b.height
  BY DEF GoodPlan
<1>2. \A s \in DOMAIN p.planned : Fits(p.page, p.planned[s]) BY <1>1 DEF GoodPlan, Fits
<1>3. Fits(p.page, CopySlotBox(p.page, p.anchors, p.planned, slot))
  BY <1>1, <1>2, CopySlotBoxFits
<1>4. QED BY <1>1, <1>3 DEF CopyBox, Fits

\* so does every part of the page
LEMMA PageBoxFits ==
  ASSUME NEW b, NEW p, GoodPlan(b, p), NEW part \in Parts
  PROVE  Fits(b, LayoutBox(p.page, part))
BY LayoutBoxFits DEF GoodPlan, Fits

\* the foundation is sound
LEMMA FoundationSound ==
  ASSUME NEW b, NEW p, GoodPlan(b, p)
  PROVE  SoundCommands(b, FoundationCommands(p))
<1>1. Fits(b, Box(0, 0, p.page.width, p.page.height))
  BY DEF GoodPlan, Fits, Pages, Boxes, Box, OnCanvas
<1>2. Sound(b, Create("background", "background", "background", "background",
                      Box(0, 0, p.page.width, p.page.height)))
  BY <1>1, CreateSound DEF None, ExecutionSlotOf
<1>3. /\ Fits(b, LayoutBox(p.page, "heroPanel")) /\ Fits(b, LayoutBox(p.page, "ribbon"))
      /\ Fits(b, LayoutBox(p.page, "frame"))
  BY PageBoxFits DEF Parts
<1>4. \A slotKey : \A role \in {"spotlight_panel", "hero_panel"} :
        Sound(b, Create("hero_panel", slotKey, None, role, LayoutBox(p.page, "heroPanel")))
  BY <1>3, CreateSound
<1>5. Fits(b, CopyBox(p, "badge_text")) BY CopyBoxFits DEF CopySlots
<1>6. Sound(b, Create("badge", "badge", "badge_text", "badge", CopyBox(p, "badge_text")))
  BY <1>5, CreateSound DEF None, ExecutionSlotOf
<1>7. Sound(b, Create("ribbon_strip", None, None, "ribbon_strip", LayoutBox(p.page, "ribbon")))
  BY <1>3, CreateSound
<1>8. Sound(b, Create("frame", None, None, "frame", LayoutBox(p.page, "frame")))
  BY <1>3, CreateSound
<1> HIDE DEF Sound
<1>9. QED BY <1>2, <1>4, <1>6, <1>7, <1>8 DEF SoundCommands, FoundationCommands, When

\* so is the photo
LEMMA PhotoSound ==
  ASSUME NEW b, NEW p, GoodPlan(b, p)
  PROVE  SoundCommands(b, PhotoCommands(p))
<1>1. Fits(b, p.heroImage) BY DEF GoodPlan
<1>2. QED BY <1>1, CreateSound DEF SoundCommands, PhotoCommands, None, ExecutionSlotOf

\* so is the copy
LEMMA CopySound ==
  ASSUME NEW b, NEW p, GoodPlan(b, p)
  PROVE  SoundCommands(b, CopyCommands(p))
<1>1. /\ Fits(b, CopyBox(p, "headline")) /\ Fits(b, CopyBox(p, "subheadline"))
      /\ Fits(b, CopyBox(p, "offer_line"))
  BY CopyBoxFits DEF CopySlots
<1>2. Sound(b, Create("headline", "headline", "headline", "headline", CopyBox(p, "headline")))
  BY <1>1, CreateSound DEF None, ExecutionSlotOf
<1>3. Sound(b, Create("supporting_copy", "supporting_copy", "subheadline", "supporting_copy",
                      CopyBox(p, "subheadline")))
  BY <1>1, CreateSound DEF None, ExecutionSlotOf
<1>4. Sound(b, Create("price_callout", None, "offer_line", "price_callout",
                      CopyBox(p, "offer_line")))
  BY <1>1, CreateSound DEF None, ExecutionSlotOf
<1>5. Sound(b, Create("hero_caption", None, None, "hero_caption", CopyBox(p, "subheadline")))
  BY <1>1, CreateSound
<1>6. QED BY <1>2, <1>3, <1>4, <1>5 DEF SoundCommands, CopyCommands, When

\* so is the polish, all but the container of the cta on the canvas
LEMMA PolishSound ==
  ASSUME NEW b, NEW p, GoodPlan(b, p)
  PROVE  SoundCommands(b, PolishCommands(p))
<1>1. Fits(b, CopyBox(p, "cta")) /\ Fits(b, CopyBox(p, "footer_note"))
  BY CopyBoxFits DEF CopySlots
<1>2. Sound(b, Create("cta", "cta", "cta", "cta", CopyBox(p, "cta")))
  BY <1>1, CreateSound DEF None, ExecutionSlotOf
<1>3. Sound(b, Create("footer_note", None, "footer_note", "footer_note",
                      CopyBox(p, "footer_note")))
  BY <1>1, CreateSound DEF None, ExecutionSlotOf
<1> DEFINE BoxOf(role, zone) == GraphicBox(p.page, p.zones, role, zone, CopyBox(p, "cta"))
<1>4. ASSUME NEW role \in p.roles
      PROVE  Sound(b, Create(role, RoleSlotKey(role), None, role, BoxOf(role, p.hints[role])))
  <2>1. role # "cta_container" => Fits(b, BoxOf(role, p.hints[role]))
    BY ZoneBoxFits DEF GoodPlan, GraphicBox, ZoneNames, Fits
  <2>2. role \notin {"background", "headline", "supporting_copy", "price_callout",
                     "cta", "footer_note", "badge", "hero_image"}
    BY DEF GoodPlan, RoleNames
  <2> HIDE DEF BoxOf
  <2>3. QED BY <2>1, <2>2, CreateSound
<1>5. Sound(b, Create("cta_container_fallback", None, None, "cta_container",
                      BoxOf("cta_container", "bottom_strip")))
  <2> HIDE DEF BoxOf
  <2> QED BY CreateSound
<1>6. SoundCommands(b, RoleCommands(p)) BY <1>4, <1>5 DEF SoundCommands, RoleCommands, When
<1>7. QED BY <1>2, <1>3, <1>6 DEF SoundCommands, PolishCommands

\* An update keeps the role, the identity and the box of the command it was.
LEMMA PatchSound ==
  ASSUME NEW b, NEW scene, NEW commands, SoundCommands(b, commands)
  PROVE  SoundCommands(b, PatchCommands(scene, commands))
<1>1. ASSUME NEW c \in commands
      PROVE  Sound(b, [c EXCEPT !.op = "updateLayer", !.target = ExistingLayer(scene, c)])
  <2> DEFINE d == [c EXCEPT !.op = "updateLayer", !.target = ExistingLayer(scene, c)]
  <2>1. Sound(b, c) BY DEF SoundCommands
  <2>2. DOMAIN d = DOMAIN c OBVIOUS
  <2>3. /\ d.role = c.role /\ d.box = c.box /\ d.slotKey = c.slotKey
        /\ d.executionSlotKey = c.executionSlotKey
    BY <2>1 DEF Sound, CommandFields
  <2> HIDE DEF d
  <2>4. Sound(b, d) BY <2>1, <2>2, <2>3 DEF Sound, IdentityValid
  <2>5. QED BY <2>4 DEF d
<1>2. QED BY <1>1 DEF PatchCommands, SoundCommands

\* so is the refinement
LEMMA RefinementSound ==
  ASSUME NEW b, NEW p, NEW scene, GoodPlan(b, p)
  PROVE  SoundCommands(b, RefinementCommands(p, scene))
<1>1. /\ SoundCommands(b, PatchCommands(scene, CopyCommands(p)))
      /\ SoundCommands(b, PatchCommands(scene, PolishCommands(p)))
  BY CopySound, PolishSound, PatchSound
<1>2. QED BY <1>1 DEF RefinementCommands, SoundCommands

(* --- The rows ------------------------------------------------------------ *)

StageNames == {"foundation", "photo", "copy", "polish", "refine", "save"}

SoundStage(b, stage) == stage.stage \in StageNames /\ SoundCommands(b, stage.commands)
SoundRow(b, row) == SoundStage(b, row) /\ row.answer \in Answers

SoundStages(b, s) == \E S : s \in Seq(S) /\ \A stage \in S : SoundStage(b, stage)
SoundRows(b, s) == \E S : s \in Seq(S) /\ \A row \in S : SoundRow(b, row)

\* every copy slot of the plan, and the background, is created by some stage
CreatesAll(p, s) ==
  \A slot \in p.slots \cup {"background"} : \E i \in DOMAIN s : CreatesSlot(s[i], slot)

\* a command that creates a layer creates its slot
LEMMA CreateCreates ==
  ASSUME NEW row, NEW key, NEW slotKey, NEW slot, NEW role, NEW box,
         Create(key, slotKey, slot, role, box) \in row.commands
  PROVE  CreatesSlot(row, slot)
BY DEF CreatesSlot, Create

\* a skeleton has sound stages, at least one, that create every slot of the plan
LEMMA SkeletonIsSound ==
  ASSUME NEW b, NEW p, GoodPlan(b, p)
  PROVE  /\ SoundStages(b, Skeleton(p)) /\ Len(Skeleton(p)) \in Nat /\ Len(Skeleton(p)) >= 1
         /\ CreatesAll(p, Skeleton(p))
<1> DEFINE f == [stage |-> "foundation", commands |-> FoundationCommands(p)]
           h == [stage |-> "photo", commands |-> PhotoCommands(p)]
           c == [stage |-> "copy", commands |-> CopyCommands(p)]
           o == [stage |-> "polish", commands |-> PolishCommands(p)]
           S == {f, h, c, o}
<1>1. \A stage \in S : SoundStage(b, stage)
  BY FoundationSound, PhotoSound, CopySound, PolishSound DEF SoundStage, StageNames
<1>2. /\ CreatesSlot(f, "background") /\ ("badge_text" \in p.slots => CreatesSlot(f, "badge_text"))
      /\ \A slot \in {"headline", "subheadline", "offer_line"} : CreatesSlot(c, slot)
      /\ \A slot \in {"cta", "footer_note"} : CreatesSlot(o, slot)
  <2>1. CreatesSlot(f, "background")
    <3>1. Create("background", "background", "background", "background",
                 Box(0, 0, p.page.width, p.page.height)) \in f.commands
      BY DEF FoundationCommands
    <3> HIDE DEF f
    <3>2. QED BY <3>1, CreateCreates
  <2>2. ASSUME "badge_text" \in p.slots PROVE CreatesSlot(f, "badge_text")
    <3>1. Create("badge", "badge", "badge_text", "badge", CopyBox(p, "badge_text"))
            \in f.commands
      BY <2>2 DEF GoodPlan, FoundationCommands, When
    <3> HIDE DEF f
    <3>2. QED BY <3>1, CreateCreates
  <2>3. \A slot \in {"headline", "subheadline", "offer_line"} : CreatesSlot(c, slot)
    <3>1. /\ Create("headline", "headline", "headline", "headline", CopyBox(p, "headline"))
               \in c.commands
          /\ Create("supporting_copy", "supporting_copy", "subheadline", "supporting_copy",
                    CopyBox(p, "subheadline")) \in c.commands
          /\ Create("price_callout", None, "offer_line", "price_callout",
                    CopyBox(p, "offer_line")) \in c.commands
      BY DEF CopyCommands
    <3> HIDE DEF c
    <3>2. /\ CreatesSlot(c, "headline") /\ CreatesSlot(c, "subheadline")
          /\ CreatesSlot(c, "offer_line")
      BY <3>1, CreateCreates
    <3>3. QED BY <3>2
  <2>4. \A slot \in {"cta", "footer_note"} : CreatesSlot(o, slot)
    <3>1. /\ Create("cta", "cta", "cta", "cta", CopyBox(p, "cta")) \in o.commands
          /\ Create("footer_note", None, "footer_note", "footer_note",
                    CopyBox(p, "footer_note")) \in o.commands
      BY DEF PolishCommands
    <3> HIDE DEF o
    <3>2. CreatesSlot(o, "cta") /\ CreatesSlot(o, "footer_note") BY <3>1, CreateCreates
    <3>3. QED BY <3>2
  <2>5. QED BY <2>1, <2>2, <2>3, <2>4
<1>3. Skeleton(p) = IF p.photo THEN <<f, h, c, o>> ELSE <<f, c, o>>
  BY DEF Skeleton
<1>4. p.slots \subseteq CopySlots BY DEF GoodPlan
<1> SUFFICES ASSUME NEW s, s \in {<<f, h, c, o>>, <<f, c, o>>}
             PROVE  /\ SoundStages(b, s) /\ Len(s) \in Nat /\ Len(s) >= 1
                    /\ CreatesAll(p, s)
  BY <1>3
<1> HIDE DEF f, h, c, o
<1>5. s \in Seq(S) /\ Len(s) \in Nat /\ Len(s) >= 1
  <2>1. CASE s = <<f, h, c, o>>
    <3>1. <<f, h, c, o>> \in Seq(S) /\ Len(<<f, h, c, o>>) = 4 OBVIOUS
    <3>2. QED BY <2>1, <3>1
  <2>2. CASE s = <<f, c, o>>
    <3>1. <<f, c, o>> \in Seq(S) /\ Len(<<f, c, o>>) = 3 OBVIOUS
    <3>2. QED BY <2>2, <3>1
  <2>3. QED BY <2>1, <2>2
<1>6. SoundStages(b, s) BY <1>1, <1>5 DEF SoundStages
<1>7. CreatesAll(p, s)
  <2>1. \E i, j, k \in DOMAIN s : s[i] = f /\ s[j] = c /\ s[k] = o
    <3>1. CASE s = <<f, h, c, o>>
      <4>1. 1 \in DOMAIN s /\ 3 \in DOMAIN s /\ 4 \in DOMAIN s /\ s[1] = f /\ s[3] = c /\ s[4] = o
        BY <3>1
      <4>2. QED BY <4>1
    <3>2. CASE s = <<f, c, o>>
      <4>1. 1 \in DOMAIN s /\ 2 \in DOMAIN s /\ 3 \in DOMAIN s /\ s[1] = f /\ s[2] = c /\ s[3] = o
        BY <3>2
      <4>2. QED BY <4>1
    <3>3. QED BY <3>1, <3>2
  <2>2. QED BY <1>2, <1>4, <2>1 DEF CreatesAll, CopySlots
<1>8. QED BY <1>5, <1>6, <1>7

\* rows with one more sound row
LEMMA AppendIsSound ==
  ASSUME NEW b, NEW s, SoundRows(b, s), NEW row, SoundRow(b, row)
  PROVE  /\ SoundRows(b, Append(s, row))
         /\ Len(s) \in Nat /\ DOMAIN s = 1..Len(s)
         /\ Len(Append(s, row)) = Len(s) + 1
         /\ DOMAIN Append(s, row) = 1..(Len(s) + 1)
         /\ \A i \in 1..Len(s) : Append(s, row)[i] = s[i]
         /\ Append(s, row)[Len(s) + 1] = row
<1>1. PICK S : s \in Seq(S) /\ \A r \in S : SoundRow(b, r) BY DEF SoundRows
<1>2. s \in Seq(S \cup {row}) BY <1>1
<1>3. \A r \in S \cup {row} : SoundRow(b, r) BY <1>1
<1>4. SoundRows(b, Append(s, row)) BY <1>2, <1>3 DEF SoundRows
<1>5. QED BY <1>2, <1>4

\* what a sequence of sound rows is
LEMMA RowsFacts ==
  ASSUME NEW b, NEW s, SoundRows(b, s)
  PROVE  /\ Len(s) \in Nat /\ DOMAIN s = 1..Len(s)
         /\ \A i \in DOMAIN s : SoundRow(b, s[i])
BY DEF SoundRows

\* what a sequence of sound stages is
LEMMA StagesFacts ==
  ASSUME NEW b, NEW s, SoundStages(b, s)
  PROVE  /\ Len(s) \in Nat /\ DOMAIN s = 1..Len(s)
         /\ \A i \in DOMAIN s : SoundStage(b, s[i])
BY DEF SoundStages

(* --- The invariant ------------------------------------------------------- *)

\* the sent stages are the proposals, in their order, whatever comes after them
Matches(h, q) ==
  \A i \in DOMAIN h :
    i <= Len(q) => h[i].stage = q[i].stage /\ h[i].commands = q[i].commands

AllAcked(h) == \A i \in DOMAIN h : h[i].answer = "acked"
AckedButLast(h) == \A i \in DOMAIN h : i < Len(h) => h[i].answer = "acked"

Nodes == {"plan", "prepare_execution", "emit_stage", "judge", "emit_refinement_patch",
          "emit_save_stage", "prepare_finalize", "finalize", "done"}
Unsent == {"plan", "prepare_execution"}
Sent == Nodes \ {"plan", "prepare_execution", "emit_stage"}

\* the plan and the proposals are what the lemmas above say of them
PlanPart ==
  /\ brief \in BriefRecords
  /\ pc # "plan" => GoodPlan(brief, plan)
  /\ pc \notin Unsent => SoundStages(brief, proposals) /\ CreatesAll(plan, proposals)

\* the rows: one per stage in order, all acked but possibly the last; the stages end
\* early only after a stage that was not acked
RowsPart ==
  /\ SoundRows(brief, history)
  /\ pc \in Unsent => history = << >>
  /\ pc = "emit_stage" =>
       Len(history) < Len(proposals) /\ AllAcked(history) /\ Matches(history, proposals)
  /\ pc \in Sent =>
       /\ Len(history) >= 1 /\ AckedButLast(history) /\ Matches(history, proposals)
       /\ LastAnswer = "acked" => Len(history) >= Len(proposals)
  /\ pc = "emit_save_stage" => LastAnswer = "acked"

JudgePart ==
  /\ pc \in Nodes /\ refineAttempt \in {0, 1}
  /\ judge.recommendation \in {None, "keep", "refine", "warn_only"}

\* a completed request rests on the evidence of an acked save
OutcomePart ==
  /\ pc \in {"finalize", "done"} =>
       /\ request.status \in Statuses
       /\ Completed(request.status) =>
            request.evidence = TRUE /\ LastAnswer = "acked" /\ Last(history).stage = "save"
  /\ pc = "done" =>
       /\ record.terminalStatus \in Statuses
       /\ Completed(record.terminalStatus) =>
            Completed(request.status) /\ record.saved = TRUE
       /\ DOMAIN record.slotBindings = BindingSlots(history)

DraftInv == PlanPart /\ RowsPart /\ JudgePart /\ OutcomePart

\* no plan, no row
LEMMA InitDraft == Init => DraftInv
<1> SUFFICES ASSUME Init PROVE DraftInv OBVIOUS
<1>1. brief \in BriefRecords BY BriefsAssumption DEF Init
<1>2. SoundRows(brief, << >>)
  <2> DEFINE none == {}
  <2>1. << >> \in Seq(none) /\ \A row \in none : SoundRow(brief, row) OBVIOUS
  <2> HIDE DEF none
  <2>2. QED BY <2>1 DEF SoundRows
<1>3. QED BY <1>1, <1>2 DEF Init, DraftInv, PlanPart, RowsPart, JudgePart, OutcomePart, Nodes,
                          Unsent, Sent

\* the plan is one its brief leads to
LEMMA BuildPlanKeeps == DraftInv /\ BuildPlan => DraftInv'
<1> SUFFICES ASSUME DraftInv, BuildPlan PROVE DraftInv' OBVIOUS
<1>1. GoodPlan(brief, plan)'
  BY TemplatePlanIsGood DEF DraftInv, PlanPart, BuildPlan
<1>2. PlanPart' BY <1>1 DEF DraftInv, PlanPart, BuildPlan, Unsent
<1>3. RowsPart' BY DEF DraftInv, RowsPart, BuildPlan, Unsent, Sent
<1>4. JudgePart' /\ OutcomePart'
  BY DEF DraftInv, JudgePart, OutcomePart, BuildPlan, Nodes
<1>5. QED BY <1>2, <1>3, <1>4 DEF DraftInv

\* every command has a valid identity, so the execution is prepared
LEMMA PrepareExecutionKeeps == DraftInv /\ PrepareExecution => DraftInv'
<1> SUFFICES ASSUME DraftInv, PrepareExecution PROVE DraftInv' OBVIOUS
<1>1. GoodPlan(brief, plan) BY DEF DraftInv, PlanPart, PrepareExecution
<1>2. proposals' = Skeleton(plan) BY DEF PrepareExecution
<1>3. /\ SoundStages(brief, proposals') /\ CreatesAll(plan, proposals')
      /\ Len(proposals') \in Nat /\ Len(proposals') >= 1
  BY <1>1, <1>2, SkeletonIsSound
<1>4. pc' = "emit_stage"
  <2>1. \A i \in DOMAIN proposals' : \A c \in proposals'[i].commands : IdentityValid(c)
    BY <1>3, StagesFacts DEF SoundStage, SoundCommands, Sound
  <2>2. QED BY <2>1 DEF PrepareExecution
<1>5. PlanPart' BY <1>1, <1>3, <1>4 DEF DraftInv, PlanPart, PrepareExecution
<1>6. history' = << >> BY DEF DraftInv, RowsPart, PrepareExecution, Unsent
<1>7. RowsPart'
  BY <1>3, <1>4, <1>6
     DEF DraftInv, RowsPart, PrepareExecution, Unsent, Sent, AllAcked, Matches
<1>8. JudgePart' /\ OutcomePart'
  BY <1>4 DEF DraftInv, JudgePart, OutcomePart, PrepareExecution, Nodes
<1>9. QED BY <1>5, <1>7, <1>8 DEF DraftInv

\* the row of a sound stage is sound
LEMMA RowIsSound ==
  ASSUME NEW b, NEW stage \in StageNames, NEW commands, SoundCommands(b, commands),
         NEW answer \in Answers
  PROVE  /\ SoundRow(b, Row(stage, commands, answer))
         /\ Row(stage, commands, answer).stage = stage
         /\ Row(stage, commands, answer).commands = commands
         /\ Row(stage, commands, answer).answer = answer
BY DEF Row, SoundRow, SoundStage

\* One more row after acked ones: only the last may be unacked, and the stages before
\* it stay what they were.
LEMMA AppendKeepsOrder ==
  ASSUME NEW b, NEW h, NEW q, SoundRows(b, h), SoundStages(b, q), AllAcked(h), Matches(h, q),
         NEW row, SoundRow(b, row),
         Len(h) < Len(q) => /\ row.stage = q[Len(h) + 1].stage
                            /\ row.commands = q[Len(h) + 1].commands
  PROVE  LET t == Append(h, row)
         IN  /\ SoundRows(b, t) /\ Matches(t, q) /\ AckedButLast(t)
             /\ row.answer = "acked" => AllAcked(t)
             /\ Len(t) = Len(h) + 1 /\ Len(t) \in Nat /\ Len(t) >= 1
             /\ Last(t) = row
<1> DEFINE t == Append(h, row)
<1>1. /\ SoundRows(b, t) /\ Len(h) \in Nat /\ DOMAIN h = 1..Len(h) /\ Len(t) = Len(h) + 1
      /\ DOMAIN t = 1..(Len(h) + 1) /\ \A i \in 1..Len(h) : t[i] = h[i]
      /\ t[Len(h) + 1] = row
  BY AppendIsSound
<1>2. Len(q) \in Nat BY StagesFacts
<1> HIDE DEF t
<1>3. Matches(t, q) BY <1>1, <1>2 DEF Matches
<1>4. AckedButLast(t) BY <1>1 DEF AckedButLast, AllAcked
<1>5. row.answer = "acked" => AllAcked(t) BY <1>1 DEF AllAcked
<1>6. Last(t) = row BY <1>1 DEF Last
<1>7. QED BY <1>1, <1>3, <1>4, <1>5, <1>6 DEF t

\* a stage is sent after all before it were acked
LEMMA RunStageKeeps == DraftInv /\ RunStage => DraftInv'
<1> SUFFICES ASSUME DraftInv, RunStage PROVE DraftInv' OBVIOUS
<1> DEFINE next == proposals[Len(history) + 1]
<1>1. PICK answer \in Answers :
        /\ history' = Append(history, Row(next.stage, next.commands, answer))
        /\ pc' = AfterAck(answer, history')
  BY DEF RunStage
<1>2. /\ SoundRows(brief, history) /\ SoundStages(brief, proposals)
      /\ Len(history) < Len(proposals) /\ AllAcked(history) /\ Matches(history, proposals)
  BY DEF DraftInv, PlanPart, RowsPart, RunStage, Unsent
<1>3. /\ Len(history) \in Nat /\ Len(proposals) \in Nat
      /\ Len(history) + 1 \in DOMAIN proposals
  BY <1>2, RowsFacts, StagesFacts
<1>4. SoundStage(brief, next) BY <1>2, <1>3, StagesFacts
<1> DEFINE row == Row(next.stage, next.commands, answer)
<1>5. /\ SoundRow(brief, row) /\ row.answer = answer
      /\ row.stage = next.stage /\ row.commands = next.commands
  BY <1>4, RowIsSound DEF SoundStage
<1>6. /\ SoundRows(brief, history') /\ Matches(history', proposals) /\ AckedButLast(history')
      /\ answer = "acked" => AllAcked(history')
      /\ Len(history') = Len(history) + 1 /\ Len(history') \in Nat /\ Len(history') >= 1
      /\ Last(history') = row
  <2> HIDE DEF row
  <2>1. history' = Append(history, row) BY <1>1 DEF row
  <2>2. QED BY <1>2, <1>5, <2>1, AppendKeepsOrder
<1>7. /\ UNCHANGED <<brief, plan, proposals, refineAttempt, judge, request, record>>
      /\ pc = "emit_stage"
  BY DEF RunStage
<1>8. pc' \in {"emit_stage", "judge"}
      /\ (pc' = "emit_stage" => answer = "acked" /\ Len(history') < Len(proposals))
      /\ (pc' = "judge" /\ answer = "acked" => ~(Len(history') < Len(proposals)))
  BY <1>1 DEF AfterAck
<1>9. LastAnswer' = answer BY <1>5, <1>6 DEF LastAnswer
<1> HIDE DEF row, next
<1>10. PlanPart' BY <1>7, <1>8 DEF DraftInv, PlanPart, Unsent
<1>11. RowsPart'
  BY <1>3, <1>6, <1>7, <1>8, <1>9 DEF RowsPart, Unsent, Sent, Nodes
<1>12. JudgePart' /\ OutcomePart'
  BY <1>7, <1>8 DEF DraftInv, JudgePart, OutcomePart, Nodes
<1>13. QED BY <1>10, <1>11, <1>12 DEF DraftInv

\* the judge asks for one patch at most
LEMMA JudgeSceneKeeps == DraftInv /\ JudgeScene => DraftInv'
<1> SUFFICES ASSUME DraftInv, JudgeScene PROVE DraftInv' OBVIOUS
<1>1. PICK issues, operations :
        /\ judge' = [recommendation |-> Recommendation(issues, refineAttempt),
                     issues |-> issues, operations |-> operations]
        /\ pc' = AfterDecision(operations)
  BY DEF JudgeScene
<1>2. Recommendation(issues, refineAttempt) \in {"keep", "refine", "warn_only"}
  BY DEF Recommendation
<1>3. /\ pc' \in {"emit_refinement_patch", "emit_save_stage", "prepare_finalize"}
      /\ pc' = "emit_save_stage" => LastAnswer = "acked"
  BY <1>1 DEF AfterDecision
<1>4. /\ UNCHANGED <<brief, plan, proposals, history, refineAttempt, request, record>>
      /\ pc = "judge" /\ LastAnswer' = LastAnswer
  BY DEF JudgeScene, LastAnswer
<1>5. PlanPart' BY <1>3, <1>4 DEF DraftInv, PlanPart, Unsent
<1>6. RowsPart' BY <1>3, <1>4 DEF DraftInv, RowsPart, Unsent, Sent, Nodes
<1>7. JudgePart' BY <1>1, <1>2, <1>3, <1>4 DEF DraftInv, JudgePart, Nodes
<1>8. OutcomePart' BY <1>3, <1>4 DEF OutcomePart
<1>9. QED BY <1>5, <1>6, <1>7, <1>8 DEF DraftInv

\* a refinement or a save adds its row to a draft whose rows are all acked
LEMMA AddedRow ==
  ASSUME DraftInv, pc \in Sent, LastAnswer = "acked",
         NEW row, SoundRow(brief, row), history' = Append(history, row), UNCHANGED proposals
  PROVE  /\ SoundRows(brief, history') /\ Matches(history', proposals)
         /\ AckedButLast(history') /\ Len(history') \in Nat /\ Len(history') >= 1
         /\ Len(history') >= Len(proposals) /\ Last(history') = row
         /\ LastAnswer' = row.answer
<1>1. /\ SoundRows(brief, history) /\ SoundStages(brief, proposals)
      /\ Len(history) >= Len(proposals) /\ Len(history) >= 1
      /\ AckedButLast(history) /\ Matches(history, proposals)
  BY DEF DraftInv, PlanPart, RowsPart, Sent, Nodes, Unsent
<1>2. Len(history) \in Nat /\ Len(proposals) \in Nat /\ DOMAIN history = 1..Len(history)
  BY <1>1, RowsFacts, StagesFacts
<1>3. AllAcked(history) BY <1>1, <1>2 DEF AllAcked, AckedButLast, LastAnswer, Last
<1>4. /\ SoundRows(brief, Append(history, row)) /\ Matches(Append(history, row), proposals)
      /\ AckedButLast(Append(history, row)) /\ Len(Append(history, row)) = Len(history) + 1
      /\ Last(Append(history, row)) = row
  BY <1>1, <1>2, <1>3, AppendKeepsOrder
<1>5. QED BY <1>1, <1>2, <1>4 DEF LastAnswer

\* a patch leaves a good plan and adds one row
LEMMA EmitRefinementKeeps == DraftInv /\ EmitRefinement => DraftInv'
<1> SUFFICES ASSUME DraftInv, EmitRefinement PROVE DraftInv' OBVIOUS
<1>1. /\ pc = "emit_refinement_patch" /\ pc \in Sent /\ refineAttempt' = 1
      /\ UNCHANGED <<brief, proposals, judge, request, record>>
  BY DEF EmitRefinement, Sent, Nodes
<1>2. /\ GoodPlan(brief, plan) /\ SoundStages(brief, proposals)
      /\ CreatesAll(plan, proposals)
  BY <1>1 DEF DraftInv, PlanPart, Unsent
<1>3. CASE pc' = "prepare_finalize" /\ UNCHANGED <<plan, history>>
  <2>1. LastAnswer' = LastAnswer BY <1>3 DEF LastAnswer
  <2>2. PlanPart' BY <1>1, <1>2, <1>3 DEF DraftInv, PlanPart
  <2>3. RowsPart' BY <1>1, <1>3, <2>1 DEF DraftInv, RowsPart, Unsent, Sent, Nodes
  <2>4. JudgePart' /\ OutcomePart'
    BY <1>1, <1>3 DEF DraftInv, JudgePart, OutcomePart, Nodes
  <2>5. QED BY <2>2, <2>3, <2>4 DEF DraftInv
<1>4. CASE LastAnswer = "acked"
  <2> DEFINE refined == ApplyPatch(plan, judge.operations)
             commands == RefinementCommands(refined, SceneOf(plan, history))
  <2>1. plan' = refined BY <1>4 DEF EmitRefinement
  <2>2. GoodPlan(brief, plan') /\ CreatesAll(plan', proposals)
    BY <1>2, <2>1, ApplyPatchIsGood DEF CreatesAll
  <2>3. CASE pc' = "prepare_finalize" /\ UNCHANGED history
    <3>1. LastAnswer' = LastAnswer BY <2>3 DEF LastAnswer
    <3>2. PlanPart' BY <1>1, <1>2, <2>2 DEF DraftInv, PlanPart
    <3>3. RowsPart' BY <1>1, <2>3, <3>1 DEF DraftInv, RowsPart, Unsent, Sent, Nodes
    <3>4. JudgePart' /\ OutcomePart'
      BY <1>1, <2>3 DEF DraftInv, JudgePart, OutcomePart, Nodes
    <3>5. QED BY <3>2, <3>3, <3>4 DEF DraftInv
  <2>4. CASE \E answer \in Answers :
               /\ history' = Append(history, Row("refine", commands, answer))
               /\ pc' = "judge"
    <3>1. PICK answer \in Answers :
            /\ history' = Append(history, Row("refine", commands, answer))
            /\ pc' = "judge"
      BY <2>4
    <3>2. SoundCommands(brief, commands) BY <2>1, <2>2, RefinementSound
    <3> DEFINE row == Row("refine", commands, answer)
    <3> HIDE DEF commands
    <3>3. SoundRow(brief, row) BY <3>2, RowIsSound DEF StageNames
    <3>4. history' = Append(history, row) BY <3>1
    <3> HIDE DEF row
    <3>5. /\ SoundRows(brief, history') /\ Matches(history', proposals)
          /\ AckedButLast(history') /\ Len(history') \in Nat /\ Len(history') >= 1
          /\ Len(history') >= Len(proposals)
      BY <1>1, <1>4, <3>3, <3>4, AddedRow
    <3>6. PlanPart' BY <1>1, <1>2, <2>2, <3>1 DEF DraftInv, PlanPart
    <3>7. RowsPart' BY <1>1, <3>1, <3>5 DEF RowsPart, Unsent, Sent, Nodes
    <3>8. JudgePart' /\ OutcomePart'
      BY <1>1, <3>1 DEF DraftInv, JudgePart, OutcomePart, Nodes
    <3>9. QED BY <3>6, <3>7, <3>8 DEF DraftInv
  <2>5. QED BY <1>4, <2>3, <2>4 DEF EmitRefinement
<1>5. QED BY <1>3, <1>4 DEF EmitRefinement

\* the save adds one row to a draft that was acked
LEMMA SaveDraftKeeps == DraftInv /\ SaveDraft => DraftInv'
<1> SUFFICES ASSUME DraftInv, SaveDraft PROVE DraftInv' OBVIOUS
<1>1. /\ pc = "emit_save_stage" /\ pc \in Sent /\ pc' = "prepare_finalize"
      /\ UNCHANGED <<brief, plan, proposals, refineAttempt, judge, request, record>>
      /\ LastAnswer = "acked"
  BY DEF DraftInv, RowsPart, SaveDraft, Sent, Nodes
<1>2. PICK answer \in Answers : history' = Append(history, Row("save", {}, answer))
  BY DEF SaveDraft
<1> DEFINE row == Row("save", {}, answer)
<1>3. SoundRow(brief, row)
  <2>1. SoundCommands(brief, {}) BY DEF SoundCommands
  <2>2. QED BY <2>1, RowIsSound DEF StageNames
<1>4. history' = Append(history, row) BY <1>2
<1> HIDE DEF row
<1>5. /\ SoundRows(brief, history') /\ Matches(history', proposals)
      /\ AckedButLast(history') /\ Len(history') \in Nat /\ Len(history') >= 1
      /\ Len(history') >= Len(proposals)
  BY <1>1, <1>3, <1>4, AddedRow
<1>6. PlanPart' BY <1>1 DEF DraftInv, PlanPart, Unsent
<1>7. RowsPart' BY <1>1, <1>5 DEF RowsPart, Unsent, Sent, Nodes
<1>8. JudgePart' /\ OutcomePart'
  BY <1>1 DEF DraftInv, JudgePart, OutcomePart, Nodes
<1>9. QED BY <1>6, <1>7, <1>8 DEF DraftInv

\* only evidence of an acked save completes
LEMMA FinalStatusType ==
  ASSUME LastAnswer \in Answers, NEW warnings, NEW evidence \in BOOLEAN
  PROVE  /\ FinalStatus(warnings, evidence) \in Statuses
         /\ Completed(FinalStatus(warnings, evidence)) => evidence = TRUE /\ LastAnswer = "acked"
BY DEF FinalStatus, Statuses, Completed, Answers

\* a draft that was sent has a last answer
LEMMA LastAnswerType ==
  ASSUME DraftInv, pc \in Sent
  PROVE  LastAnswer \in Answers
<1>1. SoundRows(brief, history) /\ Len(history) >= 1 BY DEF DraftInv, RowsPart
<1>2. Len(history) \in DOMAIN history BY <1>1, RowsFacts
<1>3. QED BY <1>1, <1>2, RowsFacts DEF SoundRow, LastAnswer, Last

\* the request says what the last answer allows
LEMMA PrepareFinalizeKeeps == DraftInv /\ PrepareFinalize => DraftInv'
<1> SUFFICES ASSUME DraftInv, PrepareFinalize PROVE DraftInv' OBVIOUS
<1>1. /\ pc = "prepare_finalize" /\ pc \in Sent /\ pc' = "finalize"
      /\ UNCHANGED <<brief, plan, proposals, history, refineAttempt, judge, record>>
      /\ LastAnswer' = LastAnswer
  BY DEF PrepareFinalize, Sent, Nodes, LastAnswer
<1> DEFINE Status(e) == FinalStatus(Warnings, e)
<1>2. PICK evidence \in BOOLEAN :
        /\ evidence => LastAnswer = "acked" /\ Last(history).stage = "save"
        /\ request' = [status |-> Status(evidence), warnings |-> Warnings,
                       finalRevision |-> IF LastAnswer = "acked" THEN Revision ELSE 0,
                       evidence |-> evidence
                                    /\ Status(evidence) \in {"completed", "completed_with_warning"}]
  BY DEF PrepareFinalize
<1>3. /\ Status(evidence) \in Statuses
      /\ Completed(Status(evidence)) => evidence = TRUE /\ LastAnswer = "acked"
  BY <1>1, LastAnswerType, FinalStatusType
<1> HIDE DEF Status
<1>4. /\ request'.status = Status(evidence)
      /\ Completed(Status(evidence)) => request'.evidence = TRUE
  BY <1>2, <1>3 DEF Completed
<1>5. PlanPart' BY <1>1 DEF DraftInv, PlanPart, Unsent
<1>6. RowsPart' BY <1>1 DEF DraftInv, RowsPart, Unsent, Sent, Nodes
<1>7. JudgePart' BY <1>1 DEF DraftInv, JudgePart, Nodes
<1>8. OutcomePart' BY <1>1, <1>2, <1>3, <1>4 DEF OutcomePart, Completed
<1>9. QED BY <1>5, <1>6, <1>7, <1>8 DEF DraftInv

\* the record binds the slots of the rows
LEMMA FinalizeKeeps == DraftInv /\ Finalize => DraftInv'
<1> SUFFICES ASSUME DraftInv, Finalize PROVE DraftInv' OBVIOUS
<1> DEFINE minimum == MinimumDraft(history)
           saved == request.evidence /\ TerminalStatus(request.status, minimum) = request.status
<1>1. /\ pc = "finalize" /\ pc \in Sent /\ pc' = "done"
      /\ UNCHANGED <<brief, plan, proposals, history, refineAttempt, judge, request>>
      /\ LastAnswer' = LastAnswer
  BY DEF Finalize, Sent, Nodes, LastAnswer
<1>2. /\ record'.terminalStatus = TerminalStatus(request.status, minimum)
      /\ record'.slotBindings = SlotBindings(history)
      /\ record'.saved = saved
  BY DEF Finalize
<1>3. /\ request.status \in Statuses
      /\ Completed(request.status) =>
           request.evidence = TRUE /\ LastAnswer = "acked" /\ Last(history).stage = "save"
  BY <1>1 DEF DraftInv, OutcomePart
<1>4. /\ TerminalStatus(request.status, minimum) \in Statuses
      /\ Completed(TerminalStatus(request.status, minimum)) =>
           /\ TerminalStatus(request.status, minimum) = request.status
           /\ Completed(request.status)
  BY <1>3 DEF TerminalStatus, Statuses, Completed
<1>5. Completed(TerminalStatus(request.status, minimum)) => saved = TRUE
  BY <1>3, <1>4
<1>6. DOMAIN record'.slotBindings = BindingSlots(history) BY <1>2 DEF SlotBindings
<1>7. BindingSlots(history)' = BindingSlots(history) BY <1>1
<1> HIDE DEF saved, minimum
<1>8. PlanPart' BY <1>1 DEF DraftInv, PlanPart, Unsent
<1>9. RowsPart' BY <1>1 DEF DraftInv, RowsPart, Unsent, Sent, Nodes
<1>10. JudgePart' BY <1>1 DEF DraftInv, JudgePart, Nodes
<1>11. OutcomePart' BY <1>1, <1>2, <1>3, <1>4, <1>5, <1>6, <1>7 DEF OutcomePart
<1>12. QED BY <1>8, <1>9, <1>10, <1>11 DEF DraftInv

\* nothing changes
LEMMA StutterKeeps == DraftInv /\ UNCHANGED vars => DraftInv'
<1> SUFFICES ASSUME DraftInv, UNCHANGED vars PROVE DraftInv' OBVIOUS
<1>1. /\ UNCHANGED <<brief, plan, pc, proposals, history, refineAttempt, judge, request, record>>
      /\ LastAnswer' = LastAnswer
  BY DEF vars, LastAnswer
<1>2. PlanPart' BY <1>1 DEF DraftInv, PlanPart
<1>3. RowsPart' BY <1>1 DEF DraftInv, RowsPart
<1>4. JudgePart' BY <1>1 DEF DraftInv, JudgePart
<1>5. OutcomePart' BY <1>1 DEF DraftInv, OutcomePart
<1>6. QED BY <1>2, <1>3, <1>4, <1>5 DEF DraftInv

\* every reachable state of a draft satisfies the invariant
LEMMA DraftInvariant == Spec => []DraftInv
<1>1. DraftInv /\ [Next]_vars => DraftInv'
  BY BuildPlanKeeps, PrepareExecutionKeeps, RunStageKeeps, JudgeSceneKeeps,
     EmitRefinementKeeps, SaveDraftKeeps, PrepareFinalizeKeeps, FinalizeKeeps, StutterKeeps
     DEF Next
<1>2. QED BY InitDraft, <1>1, PTL DEF Spec

(* --- What follows from it ------------------------------------------------- *)

\* The types hold for every brief.
THEOREM DraftTypeCorrect == Spec => []TypeOK
<1>1. DraftInv => TypeOK
  <2> SUFFICES ASSUME DraftInv PROVE TypeOK OBVIOUS
  <2>1. pc # "plan" => /\ plan.page.profile \in Families /\ plan.page.mode \in Modes
                       /\ plan.page.spacing \in Densities /\ plan.slots \subseteq CopySlots
                       /\ \A role \in plan.roles : plan.hints[role] \in plan.zones
    BY DEF DraftInv, PlanPart, GoodPlan, Pages, Profiles, Families, PageModes, Modes, Spacings,
           Densities
  <2>2. \A i \in DOMAIN history :
          history[i].stage \in StageNames /\ history[i].answer \in Answers
    BY RowsFacts DEF DraftInv, RowsPart, SoundRow, SoundStage
  <2>3. QED BY <2>1, <2>2 DEF TypeOK, DraftInv, JudgePart, OutcomePart, Nodes, StageNames
<1>2. QED BY DraftInvariant, <1>1, PTL

\* No brief makes prepare_execution throw: every command of every skeleton has an
\* identity that buildCreateLayerCommand accepts.
THEOREM EmissionNeverFails == Spec => []EmissionNeverThrows
<1>1. DraftInv => EmissionNeverThrows BY DEF DraftInv, JudgePart, Nodes, EmissionNeverThrows
<1>2. QED BY DraftInvariant, <1>1, PTL

\* However few decoration candidates there are, a graphic plan has its four basic roles
\* and none of the warnings about thin plans.
THEOREM GraphicsAreFull == Spec => []GraphicPlansAreFull
<1>1. DraftInv => GraphicPlansAreFull
  BY DEF DraftInv, PlanPart, GoodPlan, GraphicPlansAreFull, BasicRoles
<1>2. QED BY DraftInvariant, <1>1, PTL

\* On a canvas of any size nothing that was sent, in a stage or in the refinement,
\* sticks out, except for the container of the cta.
THEOREM EverythingFits == Spec => []LayersOnCanvas
<1>1. DraftInv => LayersOnCanvas
  BY RowsFacts
     DEF DraftInv, RowsPart, SoundRow, SoundStage, SoundCommands, Sound, LayersOnCanvas
<1>2. QED BY DraftInvariant, <1>1, PTL

\* A draft that is recorded as completed has all its stages, its refinement and its save
\* acked, and a layer for every copy slot of its plan.
THEOREM CompletedDraftIsWhole == Spec => []RecordedDraftIsComplete
<1>1. DraftInv => RecordedDraftIsComplete
  <2> SUFFICES ASSUME DraftInv, pc = "done", Completed(record.terminalStatus)
               PROVE  /\ \A i \in DOMAIN history : Applied(i)
                      /\ \A i \in DOMAIN proposals : history[i].stage = proposals[i].stage
                      /\ Last(history).stage = "save" /\ record.saved
                      /\ plan.slots \cup {"background"} \subseteq DOMAIN record.slotBindings
    BY DEF RecordedDraftIsComplete
  <2>1. /\ record.saved = TRUE /\ LastAnswer = "acked" /\ Last(history).stage = "save"
        /\ DOMAIN record.slotBindings = BindingSlots(history)
    BY DEF DraftInv, OutcomePart
  <2>2. /\ SoundRows(brief, history) /\ SoundStages(brief, proposals)
        /\ Len(history) >= 1 /\ AckedButLast(history) /\ Matches(history, proposals)
        /\ Len(history) >= Len(proposals)
        /\ CreatesAll(plan, proposals) /\ GoodPlan(brief, plan)
    BY <2>1 DEF DraftInv, PlanPart, RowsPart, Unsent, Sent, Nodes
  <2>3. /\ Len(history) \in Nat /\ DOMAIN history = 1..Len(history)
        /\ Len(proposals) \in Nat /\ DOMAIN proposals = 1..Len(proposals)
    BY <2>2, RowsFacts, StagesFacts
  <2>4. \A i \in DOMAIN history : Applied(i)
    BY <2>1, <2>2, <2>3 DEF AckedButLast, LastAnswer, Last, Applied
  <2>5. \A i \in DOMAIN proposals :
          /\ i \in DOMAIN history /\ history[i].stage = proposals[i].stage
          /\ history[i].commands = proposals[i].commands
    BY <2>2, <2>3 DEF Matches
  <2>6. ASSUME NEW slot \in plan.slots \cup {"background"} PROVE slot \in BindingSlots(history)
    <3>1. PICK i \in DOMAIN proposals : CreatesSlot(proposals[i], slot)
      BY <2>2 DEF CreatesAll
    <3>2. i \in DOMAIN history /\ CreatesSlot(history[i], slot)
      BY <2>5, <3>1 DEF CreatesSlot
    <3>3. slot \in CopySlots \cup {"background", "hero_image"} BY <2>2 DEF GoodPlan
    <3>4. QED BY <3>2, <3>3 DEF BindingSlots
  <2>7. QED BY <2>1, <2>4, <2>5, <2>6
<1>2. QED BY DraftInvariant, <1>1, PTL

(* --- What the stages put where ------------------------------------------- *)

\* Every plan gives the cta a container and every copy slot a box of its own.
WholePlan(p) ==
  /\ "cta_container" \in p.roles /\ "frame" \notin p.roles
  /\ p.ctaContainerExpected = TRUE
  /\ {"headline", "cta"} \subseteq p.required /\ p.required \subseteq p.slots
  /\ p.slots \subseteq DOMAIN p.planned

StageKeys(stage) ==
  CASE stage = "foundation" -> {"background", "hero_panel", "badge", "ribbon_strip", "frame"}
    [] stage = "photo"      -> {"hero_image"}
    [] stage = "copy"       -> {"headline", "supporting_copy", "price_callout", "hero_caption"}
    [] stage = "polish"     -> {"cta", "footer_note", "primary_accent", "cta_container",
                                "secondary_accent", "corner_accent", "badge_or_ribbon"}

\* A copy slot has one key and its planned box, in the stages as in the refinement; the
\* container of the cta goes around the planned box of the cta.
Placed(p, c) ==
  /\ \A slot \in CopySlots : c.key = SlotKey(slot) <=> c.executionSlotKey = slot
  /\ c.executionSlotKey \in p.slots => c.box = p.planned[c.executionSlotKey]
  /\ c.executionSlotKey \in CopySlots => c.role \notin RoleNames
  /\ c.role = "cta_container" <=> c.key = "cta_container"
  /\ c.key = "cta_container" =>
       c.box = ContainerBox(p.planned["cta"]) /\ c.executionSlotKey = None

Fresh(c) == c.op = "createLayer" /\ c.target = NoLayer

Staged(p, stage) ==
  /\ stage.stage \in {"foundation", "photo", "copy", "polish"}
  /\ \A c \in stage.commands :
       Placed(p, c) /\ Fresh(c) /\ c.key \in StageKeys(stage.stage)

Stages(p, q) ==
  /\ Len(q) <= 4
  /\ \A i \in DOMAIN q : Staged(p, q[i])
  /\ \A i, j \in DOMAIN q : q[i].stage = q[j].stage => i = j
  /\ \E i \in DOMAIN q : \E c \in q[i].commands : c.role = "cta_container"
  /\ ~p.photo => MinimumDraft(q)

\* A command of the refinement updates the layer its slot got, when the client names
\* layers, or else creates the container again.
Patched(p, q, c) ==
  /\ Placed(p, c) /\ c.op \in {"createLayer", "updateLayer"}
  /\ c.op = "createLayer" =>
       ~brief.names /\ c.target = NoLayer /\ c.role = "cta_container"
  /\ c.op = "updateLayer" =>
       /\ brief.names /\ (c.role = "cta_container" => c.target # NoLayer)
       /\ \A i \in DOMAIN q :
            c.executionSlotKey \in p.slots /\ CreatesSlot(q[i], c.executionSlotKey) =>
              c.target = Layer(i, c.key)

Extra(p, q, h) ==
  \A i \in DOMAIN h :
    i > Len(q) => /\ i > Len(q) + 1 => h[i].commands = {}
                  /\ \A c \in h[i].commands : Patched(p, q, c)

Clear(p) == \A a, b \in p.slots : a # b => ~BoundsOverlap(p.planned[a], p.planned[b])

\* what the judge says of a draft all of whose stages were acked
SettledIssues(p) ==
  (p.preflight \cap MappedIssues)
  \cup When(~brief.names,
            {"slot_materialization_missing", "cta_container_missing_after_execution"}
            \cup When("badge_text" \in p.slots, {"badge_zone_mismatch"})
            \cup When("footer_note" \in p.slots, {"footer_zone_mismatch"}))
  \cup When(brief.names,
            When(~Clear(p), {"topology_bounds_conflict"})
            \cup When(p.density = "dense" /\ Cardinality(p.slots) >= 4,
                      {"copy_stack_spacing_weak"}))

Settled(h, q) == Len(h) >= Len(q) /\ \A i \in 1 .. Len(q) : h[i].answer = "acked"

\* a draft: its plan, the stages that come of it and the rows that come of those
Content(p, q, h) ==
  /\ GoodPlan(brief, p) /\ WholePlan(p)
  /\ SoundStages(brief, q) /\ CreatesAll(p, q) /\ Stages(p, q)
  /\ SoundRows(brief, h) /\ Matches(h, q) /\ AckedButLast(h)
  /\ \A i \in DOMAIN h : h[i].named = (h[i].answer = "acked" /\ brief.names)
  /\ Extra(p, q, h)

StagesPart ==
  /\ pc # "plan" => WholePlan(plan)
  /\ pc \notin Unsent => Stages(plan, proposals)

LayersPart ==
  /\ \A i \in DOMAIN history :
       history[i].named = (history[i].answer = "acked" /\ brief.names)
  /\ pc \notin Unsent => Extra(plan, proposals, history)

\* one refinement at most, and only of a draft whose stages were all judged
PassPart ==
  /\ pc \in Unsent \cup {"emit_stage", "emit_refinement_patch"} => refineAttempt = 0
  /\ pc \in {"judge", "emit_refinement_patch"} /\ refineAttempt = 0 =>
       Len(history) <= Len(proposals)
  /\ pc = "emit_refinement_patch" /\ LastAnswer = "acked" =>
       judge.issues = SettledIssues(plan)
  /\ pc = "judge" /\ refineAttempt = 1 =>
       Len(history) > Len(proposals) /\ judge.issues = SettledIssues(plan)

\* a draft that is kept, all of it acked, has its layers and its copy apart
VerdictPart ==
  /\ judge.issues = {} => judge.recommendation \in {None, "keep"}
  /\ judge.recommendation = None => pc \in Unsent \cup {"emit_stage", "judge"}
  /\ pc \in Unsent \cup {"emit_stage"} => judge.recommendation = None
  /\ pc = "emit_refinement_patch" => judge.recommendation = "refine"
  /\ pc \in Sent \ {"judge"} /\ judge.recommendation = "keep" /\ LastAnswer = "acked" =>
       brief.names /\ Clear(plan)

RecordPart ==
  /\ pc \in {"finalize", "done"} =>
       /\ request.status = "completed" => judge.recommendation = "keep"
       /\ request.finalRevision = IF LastAnswer = "acked" THEN Revision ELSE 0
  /\ pc = "done" =>
       /\ record.terminalStatus = TerminalStatus(request.status, MinimumDraft(history))
       /\ record.runStatus = request.status
       /\ record.slotBindings = SlotBindings(history)
       /\ record.latestSavedRevision = IF record.saved THEN request.finalRevision ELSE 0

ContentParts == StagesPart /\ LayersPart /\ PassPart /\ VerdictPart /\ RecordPart

ContentInv == DraftInv /\ ContentParts

(* --- The stages put everything in its place -------------------------------- *)

\* what a brief leads to is a whole plan
LEMMA TemplatePlanIsWhole ==
  ASSUME NEW b \in BriefRecords
  PROVE  WholePlan(TemplatePlan(b))
<1> DEFINE p == TemplatePlan(b)
<1>1. /\ p.slots = Slots(b) /\ p.required = RequiredSlots(b) /\ p.roles = Roles(b)
      /\ p.planned = PlannedBounds(b)
      /\ p.ctaContainerExpected = (~PhotoSelected(b) \/ "cta_container" \in Roles(b))
  BY DEF TemplatePlan
<1>2. "cta_container" \in Roles(b)
  BY RolesType DEF BasicRoles, Roles
<1>3. "frame" \notin Roles(b)
  <2>1. CASE PhotoSelected(b) BY <2>1 DEF Roles
  <2>2. CASE ~PhotoSelected(b)
    <3>1. BaseMode(b) # "framed_promo" BY BaseModeIsFirst DEF GraphicModes
    <3>2. "frame" \notin GraphicRoles(b.candidates, BaseMode(b))
      BY <3>1 DEF GraphicRoles, When
    <3>3. QED BY <2>2, <3>2 DEF Roles
  <2>3. QED BY <2>1, <2>2
<1>4. DOMAIN PlannedBounds(b) = DOMAIN SlotAnchors(b) BY DEF PlannedBounds
<1>5. Slots(b) \subseteq DOMAIN SlotAnchors(b)
  BY DEF SlotAnchors, Slots, BriefRecords, OptionalSlots, CopySlots
<1>6. {"headline", "cta"} \subseteq RequiredSlots(b) /\ RequiredSlots(b) \subseteq Slots(b)
  BY DEF RequiredSlots, Slots
<1> HIDE DEF p
<1>7. WholePlan(p) BY <1>1, <1>2, <1>3, <1>4, <1>5, <1>6 DEF WholePlan
<1>8. QED BY <1>7 DEF p

\* A patch moves anchors and spacing; what the stages and the judge look at stays.
LEMMA PatchKeeps ==
  ASSUME NEW b, NEW p, NEW operations, GoodPlan(b, p)
  PROVE  LET q == ApplyPatch(p, operations)
         IN  /\ q.slots = p.slots /\ q.required = p.required /\ q.roles = p.roles
             /\ q.planned = p.planned /\ q.photo = p.photo
             /\ q.preflight = p.preflight /\ q.density = p.density
             /\ (WholePlan(p) => WholePlan(q))
<1> DEFINE q == ApplyPatch(p, operations)
<1>1. \A field \in PlanFields \ {"anchors", "page", "ctaContainerExpected"} :
        q[field] = p[field]
  BY DEF GoodPlan, PlanFields, ApplyPatch
<1>2. p.ctaContainerExpected = TRUE => q.ctaContainerExpected = TRUE
  BY DEF GoodPlan, PlanFields, ApplyPatch
<1> HIDE DEF q
<1>3. /\ q.slots = p.slots /\ q.required = p.required /\ q.roles = p.roles
      /\ q.planned = p.planned /\ q.photo = p.photo
      /\ q.preflight = p.preflight /\ q.density = p.density
  BY <1>1 DEF PlanFields
<1>4. WholePlan(p) => WholePlan(q) BY <1>2, <1>3 DEF WholePlan
<1>5. QED BY <1>3, <1>4 DEF q

\* the key of each copy slot
LEMMA SlotKeys ==
  /\ SlotKey("headline") = "headline" /\ SlotKey("subheadline") = "supporting_copy"
  /\ SlotKey("offer_line") = "price_callout" /\ SlotKey("cta") = "cta"
  /\ SlotKey("footer_note") = "footer_note" /\ SlotKey("badge_text") = "badge"
BY DEF SlotKey

KeyNames == {"headline", "supporting_copy", "price_callout", "cta", "footer_note", "badge"}

\* what a create command carries
LEMMA CreateFields ==
  ASSUME NEW key, NEW slotKey, NEW slot, NEW role, NEW box
  PROVE  LET c == Create(key, slotKey, slot, role, box)
         IN  /\ c.key = key /\ c.slotKey = slotKey /\ c.executionSlotKey = slot
             /\ c.role = role /\ c.box = box /\ Fresh(c)
BY DEF Create, Fresh

\* a copy layer goes to its planned box
LEMMA PlacedCopy ==
  ASSUME NEW p, GoodPlan(brief, p), WholePlan(p),
         NEW slot \in CopySlots, NEW slotKey, NEW role, role \notin RoleNames
  PROVE  LET c == Create(SlotKey(slot), slotKey, slot, role, CopyBox(p, slot))
         IN  Placed(p, c) /\ Fresh(c)
<1> DEFINE c == Create(SlotKey(slot), slotKey, slot, role, CopyBox(p, slot))
<1>1. /\ c.key = SlotKey(slot) /\ c.executionSlotKey = slot /\ c.role = role
      /\ c.box = CopyBox(p, slot) /\ Fresh(c)
  BY CreateFields
<1>2. slot \in p.slots => CopyBox(p, slot) = p.planned[slot]
  BY DEF WholePlan, CopyBox, CopySlotBox
<1> HIDE DEF c
<1>3. \A s \in CopySlots : c.key = SlotKey(s) <=> c.executionSlotKey = s
  BY <1>1, SlotKeys DEF CopySlots
<1>4. c.key # "cta_container" /\ c.role # "cta_container"
  BY <1>1, SlotKeys DEF CopySlots, RoleNames
<1>5. Placed(p, c) BY <1>1, <1>2, <1>3, <1>4 DEF Placed
<1>6. QED BY <1>1, <1>5 DEF c

\* a layer that is no copy has no key of a copy slot
LEMMA PlacedOther ==
  ASSUME NEW p, WholePlan(p), NEW key, key \notin KeyNames, key # "cta_container",
         NEW slotKey, NEW slot, slot \notin CopySlots, NEW role, role # "cta_container",
         NEW box, p.slots \subseteq CopySlots
  PROVE  LET c == Create(key, slotKey, slot, role, box)
         IN  Placed(p, c) /\ Fresh(c)
<1> DEFINE c == Create(key, slotKey, slot, role, box)
<1>1. c.key = key /\ c.executionSlotKey = slot /\ c.role = role /\ Fresh(c)
  BY CreateFields
<1> HIDE DEF c
<1>2. \A s \in CopySlots : c.key # SlotKey(s) /\ c.executionSlotKey # s
  BY <1>1, SlotKeys DEF CopySlots, KeyNames
<1>3. c.executionSlotKey \notin p.slots BY <1>1
<1>4. Placed(p, c) BY <1>1, <1>2, <1>3 DEF Placed
<1>5. QED BY <1>1, <1>4 DEF c

\* the container goes around the planned box of the cta
LEMMA PlacedContainer ==
  ASSUME NEW p, GoodPlan(brief, p), WholePlan(p), NEW slotKey, NEW zone
  PROVE  LET c == Create("cta_container", slotKey, None, "cta_container",
                         GraphicBox(p.page, p.zones, "cta_container", zone, CopyBox(p, "cta")))
         IN  Placed(p, c) /\ Fresh(c)
<1> DEFINE c == Create("cta_container", slotKey, None, "cta_container",
                       GraphicBox(p.page, p.zones, "cta_container", zone, CopyBox(p, "cta")))
<1>1. /\ c.key = "cta_container" /\ c.executionSlotKey = None /\ c.role = "cta_container"
      /\ c.box = ContainerBox(CopyBox(p, "cta")) /\ Fresh(c)
  BY CreateFields DEF GraphicBox
<1>2. CopyBox(p, "cta") = p.planned["cta"]
  BY DEF WholePlan, CopyBox, CopySlotBox
<1> HIDE DEF c
<1>3. \A s \in CopySlots : c.key # SlotKey(s) /\ c.executionSlotKey # s
  BY <1>1, SlotKeys DEF CopySlots, None
<1>4. None \notin CopySlots BY DEF None, CopySlots
<1>5. p.slots \subseteq CopySlots BY DEF GoodPlan
<1>6. Placed(p, c) BY <1>1, <1>2, <1>3, <1>4, <1>5 DEF Placed
<1>7. QED BY <1>1, <1>6 DEF c

\* the foundation puts everything in its place
LEMMA FoundationPlaced ==
  ASSUME NEW p, GoodPlan(brief, p), WholePlan(p)
  PROVE  \A c \in FoundationCommands(p) :
           Placed(p, c) /\ Fresh(c) /\ c.key \in StageKeys("foundation")
<1>0. p.slots \subseteq CopySlots BY DEF GoodPlan
<1> DEFINE Good(c) == Placed(p, c) /\ Fresh(c) /\ c.key \in StageKeys("foundation")
<1>1. Good(Create("background", "background", "background", "background",
                  Box(0, 0, p.page.width, p.page.height)))
  BY <1>0, PlacedOther, CreateFields DEF KeyNames, CopySlots, StageKeys
<1>2. \A slotKey : \A role \in {"spotlight_panel", "hero_panel"} :
        Good(Create("hero_panel", slotKey, None, role, LayoutBox(p.page, "heroPanel")))
  BY <1>0, PlacedOther, CreateFields DEF KeyNames, CopySlots, StageKeys, None
<1>3. Good(Create("badge", "badge", "badge_text", "badge", CopyBox(p, "badge_text")))
  <2>1. "badge_text" \in CopySlots /\ "badge" \notin RoleNames BY DEF CopySlots, RoleNames
  <2>2. QED BY <2>1, PlacedCopy, SlotKeys, CreateFields DEF StageKeys
<1>4. Good(Create("ribbon_strip", None, None, "ribbon_strip", LayoutBox(p.page, "ribbon")))
  BY <1>0, PlacedOther, CreateFields DEF KeyNames, CopySlots, StageKeys, None
<1>5. Good(Create("frame", None, None, "frame", LayoutBox(p.page, "frame")))
  BY <1>0, PlacedOther, CreateFields DEF KeyNames, CopySlots, StageKeys, None
<1> HIDE DEF Good
<1>6. \A c \in FoundationCommands(p) : Good(c)
  BY <1>1, <1>2, <1>3, <1>4, <1>5 DEF FoundationCommands, When
<1>7. QED BY <1>6 DEF Good

\* so does the photo
LEMMA PhotoPlaced ==
  ASSUME NEW p, GoodPlan(brief, p), WholePlan(p)
  PROVE  \A c \in PhotoCommands(p) : Placed(p, c) /\ Fresh(c) /\ c.key \in StageKeys("photo")
<1>0. p.slots \subseteq CopySlots BY DEF GoodPlan
<1>1. QED
  BY <1>0, PlacedOther, CreateFields DEF PhotoCommands, KeyNames, CopySlots, StageKeys

\* so does the copy
LEMMA CopyPlaced ==
  ASSUME NEW p, GoodPlan(brief, p), WholePlan(p)
  PROVE  \A c \in CopyCommands(p) : Placed(p, c) /\ Fresh(c) /\ c.key \in StageKeys("copy")
<1>0. p.slots \subseteq CopySlots BY DEF GoodPlan
<1> DEFINE Good(c) == Placed(p, c) /\ Fresh(c) /\ c.key \in StageKeys("copy")
<1>1. /\ {"headline", "subheadline", "offer_line"} \subseteq CopySlots
      /\ \A role \in {"headline", "supporting_copy", "price_callout"} : role \notin RoleNames
  BY DEF CopySlots, RoleNames
<1>2. Good(Create("headline", "headline", "headline", "headline", CopyBox(p, "headline")))
  BY <1>1, PlacedCopy, SlotKeys, CreateFields DEF StageKeys
<1>3. Good(Create("supporting_copy", "supporting_copy", "subheadline", "supporting_copy",
                  CopyBox(p, "subheadline")))
  BY <1>1, PlacedCopy, SlotKeys, CreateFields DEF StageKeys
<1>4. Good(Create("price_callout", None, "offer_line", "price_callout", CopyBox(p, "offer_line")))
  BY <1>1, PlacedCopy, SlotKeys, CreateFields DEF StageKeys
<1>5. Good(Create("hero_caption", None, None, "hero_caption", CopyBox(p, "subheadline")))
  BY <1>0, PlacedOther, CreateFields DEF KeyNames, CopySlots, StageKeys, None
<1> HIDE DEF Good
<1>6. \A c \in CopyCommands(p) : Good(c)
  BY <1>2, <1>3, <1>4, <1>5 DEF CopyCommands, When
<1>7. QED BY <1>6 DEF Good

\* so does the polish, with the container of the cta
LEMMA PolishPlaced ==
  ASSUME NEW p, GoodPlan(brief, p), WholePlan(p)
  PROVE  /\ \A c \in PolishCommands(p) :
              Placed(p, c) /\ Fresh(c) /\ c.key \in StageKeys("polish")
         /\ \E c \in PolishCommands(p) : c.role = "cta_container"
<1>0. p.slots \subseteq CopySlots BY DEF GoodPlan
<1> DEFINE Good(c) == Placed(p, c) /\ Fresh(c) /\ c.key \in StageKeys("polish")
           BoxOf(role, zone) == GraphicBox(p.page, p.zones, role, zone, CopyBox(p, "cta"))
           RoleCommand(role) == Create(role, RoleSlotKey(role), None, role,
                                       BoxOf(role, p.hints[role]))
<1>1. /\ {"cta", "footer_note"} \subseteq CopySlots
      /\ \A role \in {"cta", "footer_note"} : role \notin RoleNames
  BY DEF CopySlots, RoleNames
<1>2. Good(Create("cta", "cta", "cta", "cta", CopyBox(p, "cta")))
  BY <1>1, PlacedCopy, SlotKeys, CreateFields DEF StageKeys
<1>3. Good(Create("footer_note", None, "footer_note", "footer_note", CopyBox(p, "footer_note")))
  BY <1>1, PlacedCopy, SlotKeys, CreateFields DEF StageKeys
<1>4. ASSUME NEW role \in p.roles PROVE Good(RoleCommand(role))
  <2>1. role \in RoleNames /\ role # "frame" BY DEF GoodPlan, WholePlan
  <2>2. RoleCommand(role).key \in StageKeys("polish")
    BY <2>1, CreateFields DEF StageKeys, RoleNames
  <2>3. CASE role = "cta_container"
    BY <2>2, <2>3, PlacedContainer
  <2>4. CASE role # "cta_container"
    <3>1. role \notin KeyNames /\ None \notin CopySlots
      BY <2>1 DEF RoleNames, KeyNames, None, CopySlots
    <3> HIDE DEF BoxOf
    <3>2. QED BY <1>0, <2>2, <2>4, <3>1, PlacedOther
  <2>5. QED BY <2>3, <2>4
<1>5. RoleCommands(p) = {RoleCommand(role) : role \in p.roles}
  BY DEF RoleCommands, When, WholePlan
<1> HIDE DEF Good
<1>6. \A c \in PolishCommands(p) : Good(c)
  <2> HIDE DEF RoleCommand
  <2>1. QED BY <1>2, <1>3, <1>4, <1>5 DEF PolishCommands
<1>7. \E c \in PolishCommands(p) : c.role = "cta_container"
  <2>1. RoleCommand("cta_container").role = "cta_container" BY CreateFields
  <2>2. RoleCommand("cta_container") \in PolishCommands(p)
    BY <1>5 DEF PolishCommands, WholePlan
  <2>3. QED BY <2>1, <2>2
<1>8. QED BY <1>6, <1>7 DEF Good

\* A stage that creates a slot under its compat key has it for the minimum draft.
LEMMA CreateRequires ==
  ASSUME NEW row, NEW key, NEW slotKey, NEW slot, NEW role, NEW box,
         Create(key, slotKey, slot, role, box) \in row.commands
  PROVE  \E c \in row.commands :
           c.op = "createLayer" /\ RequiredSlot(c) =
             IF slot \in {"background", "headline", "subheadline", "cta"}
             THEN CompatSlotKey(slot) ELSE slotKey
BY DEF Create, RequiredSlot

\* a skeleton has each stage once, and one of them makes the container
LEMMA SkeletonIsStaged ==
  ASSUME NEW p, GoodPlan(brief, p), WholePlan(p)
  PROVE  Stages(p, Skeleton(p))
<1> DEFINE f == [stage |-> "foundation", commands |-> FoundationCommands(p)]
           h == [stage |-> "photo", commands |-> PhotoCommands(p)]
           c == [stage |-> "copy", commands |-> CopyCommands(p)]
           o == [stage |-> "polish", commands |-> PolishCommands(p)]
           Requires(row, slot) ==
             \E d \in row.commands : d.op = "createLayer" /\ RequiredSlot(d) = slot
<1>1. Staged(p, f) /\ Staged(p, h) /\ Staged(p, c) /\ Staged(p, o)
  BY FoundationPlaced, PhotoPlaced, CopyPlaced, PolishPlaced DEF Staged
<1>2. \E d \in o.commands : d.role = "cta_container" BY PolishPlaced
<1>3. /\ f.stage = "foundation" /\ h.stage = "photo"
      /\ c.stage = "copy" /\ o.stage = "polish"
  OBVIOUS
<1>4. Requires(f, "background")
  <2>1. Create("background", "background", "background", "background",
               Box(0, 0, p.page.width, p.page.height)) \in f.commands
    BY DEF FoundationCommands
  <2> HIDE DEF f
  <2>2. QED BY <2>1, CreateRequires DEF CompatSlotKey
<1>5. Requires(c, "headline") /\ Requires(c, "supporting_copy")
  <2>1. /\ Create("headline", "headline", "headline", "headline", CopyBox(p, "headline"))
             \in c.commands
        /\ Create("supporting_copy", "supporting_copy", "subheadline", "supporting_copy",
                  CopyBox(p, "subheadline")) \in c.commands
    BY DEF CopyCommands
  <2> HIDE DEF c
  <2>2. CompatSlotKey("headline") = "headline"
        /\ CompatSlotKey("subheadline") = "supporting_copy"
    BY DEF CompatSlotKey
  <2>3. Requires(c, "headline") BY <2>1, <2>2, CreateRequires
  <2>4. Requires(c, "supporting_copy") BY <2>1, <2>2, CreateRequires
  <2>5. QED BY <2>3, <2>4
<1>6. Requires(o, "cta")
  <2>1. Create("cta", "cta", "cta", "cta", CopyBox(p, "cta")) \in o.commands
    BY DEF PolishCommands
  <2> HIDE DEF o
  <2>2. QED BY <2>1, CreateRequires DEF CompatSlotKey
<1>7. ASSUME ~p.photo PROVE Requires(o, "decoration")
  <2> DEFINE box == GraphicBox(p.page, p.zones, "primary_accent", p.hints["primary_accent"],
                               CopyBox(p, "cta"))
  <2>1. "primary_accent" \in p.roles BY <1>7 DEF GoodPlan, BasicRoles
  <2>2. RoleSlotKey("primary_accent") = "decoration" BY DEF RoleSlotKey
  <2>3. Create("primary_accent", RoleSlotKey("primary_accent"), None, "primary_accent", box)
          \in o.commands
    BY <2>1 DEF PolishCommands, RoleCommands
  <2>4. None \notin {"background", "headline", "subheadline", "cta"} BY DEF None
  <2> HIDE DEF o, box
  <2>5. QED BY <2>2, <2>3, <2>4, CreateRequires
<1>8. Skeleton(p) = IF p.photo THEN <<f, h, c, o>> ELSE <<f, c, o>>
  BY DEF Skeleton
<1> SUFFICES ASSUME NEW s, s \in {<<f, h, c, o>>, <<f, c, o>>}
             PROVE  Stages(p, s)
  BY <1>8
<1> HIDE DEF f, h, c, o, Requires
<1>9. /\ Len(s) <= 4
      /\ \A i \in DOMAIN s : s[i] \in {f, h, c, o}
      /\ \A i, j \in DOMAIN s : i # j => s[i].stage # s[j].stage
      /\ \E i, j, k \in DOMAIN s : s[i] = f /\ s[j] = c /\ s[k] = o
  <2>1. CASE s = <<f, h, c, o>>
    <3>1. /\ DOMAIN s = {1, 2, 3, 4} /\ Len(s) = 4
          /\ s[1] = f /\ s[2] = h /\ s[3] = c /\ s[4] = o
      BY <2>1
    <3>2. QED BY <1>3, <3>1
  <2>2. CASE s = <<f, c, o>>
    <3>1. DOMAIN s = {1, 2, 3} /\ Len(s) = 3 /\ s[1] = f /\ s[2] = c /\ s[3] = o
      BY <2>2
    <3>2. QED BY <1>3, <3>1
  <2>3. QED BY <2>1, <2>2
<1>10. PICK i, j, k \in DOMAIN s : s[i] = f /\ s[j] = c /\ s[k] = o BY <1>9
<1>11. ASSUME ~p.photo PROVE MinimumDraft(s)
  <2>1. \A slot \in REQUIRED_SLOTS : \E n \in DOMAIN s : Requires(s[n], slot)
    BY <1>4, <1>5, <1>6, <1>7, <1>10, <1>11 DEF REQUIRED_SLOTS
  <2>2. QED BY <2>1 DEF MinimumDraft, Requires
<1>12. \A n \in DOMAIN s : Staged(p, s[n]) BY <1>1, <1>9
<1>13. \E n \in DOMAIN s : \E d \in s[n].commands : d.role = "cta_container"
  BY <1>2, <1>10
<1>14. \A n, m \in DOMAIN s : s[n].stage = s[m].stage => n = m BY <1>9
<1>15. QED BY <1>9, <1>11, <1>12, <1>13, <1>14 DEF Stages

\* What the stages are is kept by a plan with the same slots and boxes.
LEMMA StagesFollowPlan ==
  ASSUME NEW p, NEW q, NEW s, Stages(p, s),
         q.slots = p.slots, q.planned = p.planned, q.photo = p.photo
  PROVE  Stages(q, s)
<1>1. \A d : Placed(p, d) => Placed(q, d) BY DEF Placed
<1>2. \A stage : Staged(p, stage) => Staged(q, stage) BY <1>1 DEF Staged
<1>3. QED BY <1>2 DEF Stages

\* A stage's rows have keys of their own: what has a key of a copy slot, or of the
\* container, is in the one row of its stage.
LEMMA OneStagePerKey ==
  ASSUME NEW p, NEW s, Stages(p, s),
         NEW i \in DOMAIN s, NEW j \in DOMAIN s,
         NEW c \in s[i].commands, NEW d \in s[j].commands, c.key = d.key
  PROVE  i = j
<1>1. /\ s[i].stage \in {"foundation", "photo", "copy", "polish"}
      /\ s[j].stage \in {"foundation", "photo", "copy", "polish"}
      /\ c.key \in StageKeys(s[i].stage) /\ d.key \in StageKeys(s[j].stage)
  BY DEF Stages, Staged
<1>2. s[i].stage = s[j].stage BY <1>1 DEF StageKeys
<1>3. QED BY <1>2 DEF Stages

(* --- The scene and the judge ----------------------------------------------- *)

\* a draft has four stages at most and, after them, a refinement and a save
LEMMA RowNumbers ==
  ASSUME NEW p, NEW q, NEW h, Content(p, q, h)
  PROVE  /\ Len(q) \in Nat /\ DOMAIN q = 1..Len(q) /\ Len(q) <= 4
         /\ Len(h) \in Nat /\ DOMAIN h = 1..Len(h)
         /\ p.slots \subseteq CopySlots /\ None \notin CopySlots /\ "hero_image" \notin CopySlots
         /\ \A j \in DOMAIN h :
              /\ j \in DOMAIN q => h[j].commands = q[j].commands
              /\ j \notin DOMAIN q => j > Len(q)
              /\ \A c \in h[j].commands : j \in 1..5 /\ CommandFields \subseteq DOMAIN c
<1>1. Len(q) \in Nat /\ DOMAIN q = 1..Len(q) /\ Len(q) <= 4
  BY StagesFacts DEF Content, Stages
<1>2. /\ Len(h) \in Nat /\ DOMAIN h = 1..Len(h)
      /\ \A i \in DOMAIN h : SoundRow(brief, h[i])
  BY RowsFacts DEF Content
<1>3. p.slots \subseteq CopySlots /\ None \notin CopySlots /\ "hero_image" \notin CopySlots
  BY DEF Content, GoodPlan, CopySlots, None
<1>4. ASSUME NEW j \in DOMAIN h
      PROVE  /\ j \in DOMAIN q => h[j].commands = q[j].commands
             /\ j \notin DOMAIN q => j > Len(q)
             /\ \A c \in h[j].commands : j \in 1..5 /\ CommandFields \subseteq DOMAIN c
  <2>1. j \in Nat /\ 1 <= j /\ j <= Len(h) BY <1>2
  <2>2. j \in DOMAIN q => h[j].commands = q[j].commands
    BY <1>1 DEF Content, Matches
  <2>3. j \notin DOMAIN q => j > Len(q) BY <1>1, <2>1
  <2>4. h[j].commands # {} => j <= Len(q) + 1
    BY <1>1, <2>1, <2>3 DEF Content, Extra
  <2>5. \A c \in h[j].commands : CommandFields \subseteq DOMAIN c
    BY <1>2 DEF SoundRow, SoundStage, SoundCommands, Sound
  <2>6. \A c \in h[j].commands : j \in 1..5 BY <1>1, <2>1, <2>4
  <2>7. QED BY <2>2, <2>3, <2>5, <2>6
<1>5. QED BY <1>1, <1>2, <1>3, <1>4

\* the newest of a few rows is one of them
LEMMA MaxIsIn ==
  ASSUME NEW S \in SUBSET (1..5), S # {}
  PROVE  Max(S) \in S
<1>1. \E x \in S : \A y \in S : x >= y
  <2>1. CASE 5 \in S BY <2>1
  <2>2. CASE 5 \notin S /\ 4 \in S BY <2>2
  <2>3. CASE 5 \notin S /\ 4 \notin S /\ 3 \in S BY <2>3
  <2>4. CASE 5 \notin S /\ 4 \notin S /\ 3 \notin S /\ 2 \in S BY <2>4
  <2>5. CASE 5 \notin S /\ 4 \notin S /\ 3 \notin S /\ 2 \notin S
    <3>1. \A x \in S : x = 1 BY <2>5
    <3>2. 1 \in S BY <3>1
    <3>3. \A y \in S : 1 >= y BY <3>1
    <3>4. QED BY <3>2, <3>3
  <2>6. QED BY <2>1, <2>2, <2>3, <2>4, <2>5
<1>2. QED BY <1>1 DEF Max

\* Latest gives the layer and the box of a command with the value, or nothing when no
\* row has one.
Absent(h, field, value) ==
  /\ \A j \in DOMAIN h : \A c \in h[j].commands : c[field] # value
  /\ Latest(h, field, value).observed = FALSE
  /\ Latest(h, field, value).layer = NoLayer

Found(h, field, value) ==
  \E j \in DOMAIN h : \E c \in h[j].commands :
    /\ c[field] = value
    /\ Latest(h, field, value).observed = TRUE
    /\ Latest(h, field, value).layer = LayerOf(h, j, c)
    /\ Latest(h, field, value).box = c.box

\* the scene has either no row for a value or the newest one that has it
LEMMA LatestIsFound ==
  ASSUME NEW p, NEW q, NEW h, Content(p, q, h), NEW field, NEW value
  PROVE  Absent(h, field, value) \/ Found(h, field, value)
<1> DEFINE found == {i \in DOMAIN h : \E c \in h[i].commands : c[field] = value}
           command(i) == CHOOSE c \in h[i].commands : c[field] = value
<1>1. found \in SUBSET (1..5) BY RowNumbers
<1>2. Latest(h, field, value) =
        IF found = {} THEN [observed |-> FALSE, layer |-> NoLayer, box |-> Box(0, 0, 1, 1)]
        ELSE [observed |-> TRUE, layer |-> LayerOf(h, Max(found), command(Max(found))),
              box |-> command(Max(found)).box]
  BY DEF Latest
<1>3. \A i \in found : command(i) \in h[i].commands /\ command(i)[field] = value
  OBVIOUS
<1>4. found \subseteq DOMAIN h OBVIOUS
<1>5. found = {} => \A j \in DOMAIN h : \A c \in h[j].commands : c[field] # value
  OBVIOUS
<1> HIDE DEF found, command
<1>6. CASE found = {} BY <1>2, <1>5, <1>6 DEF Absent
<1>7. CASE found # {}
  <2> DEFINE m == Max(found)
  <2>1. m \in found BY <1>1, <1>7, MaxIsIn
  <2>2. m \in DOMAIN h /\ command(m) \in h[m].commands /\ command(m)[field] = value
    BY <1>3, <1>4, <2>1
  <2>3. /\ Latest(h, field, value).observed = TRUE
        /\ Latest(h, field, value).layer = LayerOf(h, m, command(m))
        /\ Latest(h, field, value).box = command(m).box
    BY <1>2, <1>7
  <2> HIDE DEF m
  <2>4. QED BY <2>2, <2>3 DEF Found
<1>8. QED BY <1>6, <1>7

\* A copy slot of the plan has one stage that creates it.
LEMMA SlotHasStage ==
  ASSUME NEW p, NEW q, NEW h, Content(p, q, h), NEW slot \in p.slots
  PROVE  \E i \in DOMAIN q :
           /\ CreatesSlot(q[i], slot)
           /\ \A j \in DOMAIN q : \A c \in q[j].commands :
                c.executionSlotKey = slot \/ c.key = SlotKey(slot) => j = i
<1>1. PICK i \in DOMAIN q : CreatesSlot(q[i], slot) BY DEF Content, CreatesAll
<1>2. PICK d \in q[i].commands : d.executionSlotKey = slot BY <1>1 DEF CreatesSlot
<1>3. slot \in CopySlots BY RowNumbers
<1>4. \A j \in DOMAIN q : \A c \in q[j].commands :
        c.key = SlotKey(slot) <=> c.executionSlotKey = slot
  BY <1>3 DEF Content, Stages, Staged, Placed
<1>5. \A j \in DOMAIN q : \A c \in q[j].commands : c.executionSlotKey = slot => j = i
  BY <1>2, <1>4, OneStagePerKey DEF Content
<1>6. QED BY <1>1, <1>4, <1>5

\* Whatever row it is in, stage or refinement, a command of a copy slot stands for the
\* layer its stage made, at the planned place.
LEMMA SlotCommand ==
  ASSUME NEW p, NEW q, NEW h, Content(p, q, h), NEW slot \in p.slots,
         NEW i \in DOMAIN q, CreatesSlot(q[i], slot),
         NEW j \in DOMAIN h, NEW c \in h[j].commands, c.executionSlotKey = slot
  PROVE  /\ i \in DOMAIN h /\ c.key = SlotKey(slot) /\ c.box = p.planned[slot]
         /\ LayerOf(h, j, c) = IF h[i].named THEN Layer(i, SlotKey(slot)) ELSE NoLayer
         /\ (c.op = "createLayer" => j = i)
<1>1. slot \in CopySlots /\ slot # None BY RowNumbers
<1>2. CASE j \in DOMAIN q
  <2>1. c \in q[j].commands BY <1>2, RowNumbers
  <2>2. j = i BY <1>2, <2>1, SlotHasStage DEF CreatesSlot
  <2>3. Placed(p, c) /\ Fresh(c) BY <1>2, <2>1 DEF Content, Stages, Staged
  <2>4. c.key = SlotKey(slot) /\ c.box = p.planned[slot] BY <1>1, <2>3 DEF Placed
  <2>5. QED BY <2>2, <2>3, <2>4 DEF Fresh, LayerOf
<1>3. CASE j \notin DOMAIN q
  <2>1. j > Len(q) BY <1>3, RowNumbers
  <2>2. Patched(p, q, c) BY <2>1 DEF Content, Extra
  <2>3. i \in 1..Len(q) /\ j \in 1..Len(h) /\ Len(q) \in Nat /\ Len(h) \in Nat
    BY RowNumbers
  <2>4. i \in DOMAIN h /\ i < Len(h) BY <2>1, <2>3, RowNumbers
  <2>5. h[i].named <=> brief.names BY <2>4 DEF Content, AckedButLast
  <2>6. c.key = SlotKey(slot) /\ c.box = p.planned[slot]
    BY <1>1, <2>2 DEF Patched, Placed
  <2>7. c.op # "createLayer" BY <1>1, <2>2 DEF Patched, Placed
  <2>8. brief.names /\ c.target = Layer(i, c.key) BY <2>2, <2>7 DEF Patched
  <2>9. QED BY <2>4, <2>5, <2>6, <2>7, <2>8 DEF LayerOf
<1>4. QED BY <1>2, <1>3

\* a slot whose stage was answered is seen in the scene, under the id of that answer
LEMMA SlotScene ==
  ASSUME NEW p, NEW q, NEW h, Content(p, q, h), NEW slot \in p.slots,
         NEW i \in DOMAIN q, CreatesSlot(q[i], slot), i \in DOMAIN h
  PROVE  LET seen == Latest(h, "executionSlotKey", slot)
         IN  /\ seen.observed = TRUE /\ seen.box = p.planned[slot]
             /\ seen.layer = IF h[i].named THEN Layer(i, SlotKey(slot)) ELSE NoLayer
<1>1. h[i].commands = q[i].commands BY RowNumbers
<1>2. PICK d \in h[i].commands : d.executionSlotKey = slot BY <1>1 DEF CreatesSlot
<1> DEFINE seen == Latest(h, "executionSlotKey", slot)
<1>3. \E j \in DOMAIN h : \E c \in h[j].commands :
        /\ c["executionSlotKey"] = slot /\ seen.observed = TRUE
        /\ seen.layer = LayerOf(h, j, c) /\ seen.box = c.box
  <2>1. i \in DOMAIN h /\ d \in h[i].commands /\ d["executionSlotKey"] = slot BY <1>2
  <2>2. ~Absent(h, "executionSlotKey", slot) BY <2>1 DEF Absent
  <2>3. Found(h, "executionSlotKey", slot) BY <2>2, LatestIsFound
  <2>4. QED BY <2>3 DEF Found
<1>4. QED BY <1>3, SlotCommand

\* the container of the cta has a layer when the client names layers, and none otherwise
LEMMA ContainerScene ==
  ASSUME NEW p, NEW q, NEW h, Content(p, q, h), Settled(h, q)
  PROVE  Latest(h, "role", "cta_container").layer # NoLayer <=> brief.names
<1>0. PICK i \in DOMAIN q : \E d \in q[i].commands : d.role = "cta_container"
  BY DEF Content, Stages
<1>1. PICK d \in q[i].commands : d.role = "cta_container" BY <1>0
<1>2. DOMAIN q \subseteq DOMAIN h /\ \A j \in DOMAIN q : (h[j].named <=> brief.names)
  <2>1. DOMAIN q \subseteq DOMAIN h BY RowNumbers DEF Settled
  <2>2. QED BY <2>1, RowNumbers DEF Settled, Content
<1>3. d \in h[i].commands /\ i \in DOMAIN h BY <1>2, RowNumbers
<1> DEFINE seen == Latest(h, "role", "cta_container")
<1>a. PICK j \in DOMAIN h : \E c \in h[j].commands :
        c["role"] = "cta_container" /\ seen.layer = LayerOf(h, j, c)
  <2>1. d["role"] = "cta_container" BY <1>1
  <2>2. ~Absent(h, "role", "cta_container") BY <1>3, <2>1 DEF Absent
  <2>3. Found(h, "role", "cta_container") BY <2>2, LatestIsFound
  <2>4. QED BY <2>3 DEF Found
<1>4. PICK c \in h[j].commands : c["role"] = "cta_container" /\ seen.layer = LayerOf(h, j, c)
  BY <1>a
<1>5. CASE j \in DOMAIN q
  <2>1. c \in q[j].commands BY <1>5, RowNumbers
  <2>2. Fresh(c) BY <1>5, <2>1 DEF Content, Stages, Staged
  <2>3. (h[j].named <=> brief.names) /\ j # 0 BY <1>2, <1>5, RowNumbers
  <2>4. Layer(j, c.key) # NoLayer BY <2>3 DEF Layer, NoLayer
  <2>5. QED BY <1>4, <2>2, <2>3, <2>4 DEF Fresh, LayerOf
<1>6. CASE j \notin DOMAIN q
  <2>1. Patched(p, q, c) BY <1>6, RowNumbers DEF Content, Extra
  <2>2. h[j].named => brief.names BY DEF Content
  <2>3. CASE c.op = "createLayer" BY <1>4, <2>1, <2>2, <2>3 DEF Patched, LayerOf
  <2>4. CASE c.op = "updateLayer" BY <1>4, <2>1, <2>4 DEF Patched, LayerOf
  <2>5. QED BY <2>1, <2>3, <2>4 DEF Patched
<1>7. QED BY <1>5, <1>6

\* before the refinement, a client that names no layers leaves the scene without any
LEMMA UnnamedScene ==
  ASSUME NEW p, NEW q, NEW h, Content(p, q, h), ~brief.names, Len(h) <= Len(q),
         NEW field, NEW value
  PROVE  Latest(h, field, value).layer = NoLayer
<1>1. ASSUME NEW j \in DOMAIN h, NEW c \in h[j].commands PROVE LayerOf(h, j, c) = NoLayer
  <2>1. j \in DOMAIN q BY RowNumbers
  <2>2. c \in q[j].commands BY <2>1, RowNumbers
  <2>3. Fresh(c) BY <2>1, <2>2 DEF Content, Stages, Staged
  <2>4. ~h[j].named BY DEF Content
  <2>5. QED BY <2>3, <2>4 DEF Fresh, LayerOf
<1>2. Found(h, field, value) => Latest(h, field, value).layer = NoLayer
  BY <1>1 DEF Found
<1>3. QED BY <1>2, LatestIsFound DEF Absent

\* the scene of an acked draft shows every slot at its planned place, refined or not
LEMMA SettledScene ==
  ASSUME NEW p, NEW q, NEW h, Content(p, q, h), Settled(h, q)
  PROVE  LET scene == SceneOf(p, h)
         IN  /\ DOMAIN scene.copy = p.slots /\ DOMAIN scene.graphic = p.roles
             /\ \A slot \in p.slots :
                  /\ scene.copy[slot].observed = TRUE
                  /\ scene.copy[slot].box = p.planned[slot]
                  /\ Visible(scene, slot) <=> brief.names
             /\ CtaContainerResolved(scene) <=> brief.names
<1> DEFINE scene == SceneOf(p, h)
<1>1. /\ DOMAIN scene.copy = p.slots /\ DOMAIN scene.graphic = p.roles
      /\ \A slot \in p.slots : scene.copy[slot] = Latest(h, "executionSlotKey", slot)
      /\ \A role \in p.roles : scene.graphic[role] = Latest(h, "role", role).layer
  BY DEF SceneOf
<1>2. ASSUME NEW slot \in p.slots
      PROVE  /\ scene.copy[slot].observed = TRUE /\ scene.copy[slot].box = p.planned[slot]
             /\ Visible(scene, slot) <=> brief.names
  <2>1. PICK i \in DOMAIN q : CreatesSlot(q[i], slot) BY SlotHasStage
  <2>2. i \in DOMAIN h /\ i # 0 /\ h[i].answer = "acked"
    BY RowNumbers DEF Settled
  <2>3. h[i].named <=> brief.names BY <2>2 DEF Content
  <2>4. Layer(i, SlotKey(slot)) # NoLayer BY <2>2 DEF Layer, NoLayer
  <2> DEFINE seen == Latest(h, "executionSlotKey", slot)
  <2>5. /\ seen.observed = TRUE /\ seen.box = p.planned[slot]
        /\ seen.layer = IF h[i].named THEN Layer(i, SlotKey(slot)) ELSE NoLayer
    BY <2>1, <2>2, SlotScene
  <2>6. scene.copy[slot] = seen BY <1>1
  <2> HIDE DEF scene, seen
  <2>7. QED BY <2>3, <2>4, <2>5, <2>6 DEF Visible
<1>3. CtaContainerResolved(scene) <=> brief.names
  <2>1. "cta_container" \in p.roles BY DEF Content, WholePlan
  <2>2. QED BY <1>1, <2>1, ContainerScene DEF CtaContainerResolved
<1>4. QED BY <1>1, <1>2, <1>3

\* The judge of a draft all of whose stages were acked does not look at the refinement.
LEMMA SettledJudgement ==
  ASSUME NEW p, NEW q, NEW h, Content(p, q, h), Settled(h, q)
  PROVE  JudgeIssues(p, SceneOf(p, h)) = SettledIssues(p)
<1> DEFINE scene == SceneOf(p, h)
           seen == {slot \in p.slots : Visible(scene, slot)}
<1>1. /\ DOMAIN scene.copy = p.slots
      /\ \A slot \in p.slots :
           /\ scene.copy[slot].observed = TRUE
           /\ scene.copy[slot].box = p.planned[slot]
           /\ Visible(scene, slot) <=> brief.names
      /\ CtaContainerResolved(scene) <=> brief.names
  BY SettledScene
<1> DEFINE issues == JudgeIssues(p, scene)
<1>2. issues =
        (p.preflight \cap MappedIssues)
        \cup When(\E slot \in p.required : ~scene.copy[slot].observed,
                  {"execution_slot_identity_missing"})
        \cup When(\E slot \in p.required : scene.copy[slot].observed /\ ~Visible(scene, slot),
                  {"slot_materialization_missing"})
        \cup When(CopyConflict(scene), {"topology_bounds_conflict"})
        \cup When(p.ctaContainerExpected /\ ~CtaContainerResolved(scene),
                  {"cta_container_missing_after_execution"})
        \cup When(p.density = "dense" /\ Cardinality(seen) >= 4, {"copy_stack_spacing_weak"})
        \cup When("badge_text" \in p.slots /\ ~Visible(scene, "badge_text"),
                  {"badge_zone_mismatch"})
        \cup When("footer_note" \in p.slots /\ ~Visible(scene, "footer_note"),
                  {"footer_zone_mismatch"})
  BY DEF JudgeIssues
<1>3. WholePlan(p) BY DEF Content
<1>4. /\ ~(\E slot \in p.required : ~scene.copy[slot].observed)
      /\ (\E slot \in p.required : scene.copy[slot].observed /\ ~Visible(scene, slot))
           <=> ~brief.names
      /\ p.ctaContainerExpected /\ ~CtaContainerResolved(scene) <=> ~brief.names
  BY <1>1, <1>3 DEF WholePlan
<1>5. CopyConflict(scene) <=> brief.names /\ ~Clear(p)
  <2> HIDE DEF scene
  <2>1. QED BY <1>1 DEF CopyConflict, Clear
<1>6. seen = IF brief.names THEN p.slots ELSE {}
  <2> HIDE DEF scene
  <2>1. QED BY <1>1
<1>7. Cardinality({}) = 0 BY FS_EmptySet
<1>8. Cardinality(seen) >= 4 <=> brief.names /\ Cardinality(p.slots) >= 4
  <2> HIDE DEF seen
  <2>1. CASE brief.names BY <1>6, <2>1
  <2>2. CASE ~brief.names
    <3>1. Cardinality(seen) = 0 BY <1>6, <1>7, <2>2
    <3>2. ~(Cardinality(seen) >= 4) BY <3>1
    <3>3. QED BY <2>2, <3>2
  <2>3. QED BY <2>1, <2>2
<1>9. \A slot \in {"badge_text", "footer_note"} :
        slot \in p.slots /\ ~Visible(scene, slot) <=> ~brief.names /\ slot \in p.slots
  BY <1>1
<1> HIDE DEF scene, seen, issues
<1>10. issues = SettledIssues(p)
  <2>1. CASE brief.names
    BY <1>2, <1>4, <1>5, <1>8, <1>9, <2>1 DEF SettledIssues, When
  <2>2. CASE ~brief.names
    BY <1>2, <1>4, <1>5, <1>8, <1>9, <2>2 DEF SettledIssues, When
  <2>3. QED BY <2>1, <2>2
<1>11. QED BY <1>10 DEF issues, scene

\* which issues are found depends on four fields of the plan
LEMMA SettledIssuesFollowPlan ==
  ASSUME NEW p, NEW q, q.slots = p.slots, q.planned = p.planned,
         q.preflight = p.preflight, q.density = p.density
  PROVE  SettledIssues(q) = SettledIssues(p) /\ (Clear(q) <=> Clear(p))
<1>1. Clear(q) <=> Clear(p) BY DEF Clear
<1>2. QED BY <1>1 DEF SettledIssues, When

\* nothing to report, or nothing to patch, leaves a draft of separate copy boxes with
\* layers
LEMMA NoIssueIsClear ==
  ASSUME NEW p, SettledIssues(p) = {}
  PROVE  brief.names /\ Clear(p)
BY DEF SettledIssues, When

(* --- The refinement ------------------------------------------------------ *)

\* the layer a refinement finds for a command is the one its stage made
LEMMA PatchedLayer ==
  ASSUME NEW p, NEW q, NEW h, Content(p, q, h), Settled(h, q), Len(h) <= Len(q),
         NEW c, Placed(p, c)
  PROVE  LET layer == ExistingLayer(SceneOf(p, h), c)
         IN  /\ ~brief.names => layer = NoLayer
             /\ c.role = "cta_container" => (layer # NoLayer <=> brief.names)
             /\ \A i \in DOMAIN q :
                  /\ c.executionSlotKey \in p.slots
                  /\ CreatesSlot(q[i], c.executionSlotKey)
                  /\ brief.names
                  => layer = Layer(i, c.key)
<1> DEFINE scene == SceneOf(p, h)
           layer == ExistingLayer(scene, c)
           slot == c.executionSlotKey
           byRole == IF c.role \in DOMAIN scene.graphic THEN scene.graphic[c.role] ELSE NoLayer
<1>1. /\ DOMAIN scene.copy = p.slots /\ DOMAIN scene.graphic = p.roles
      /\ \A s \in p.slots : scene.copy[s] = Latest(h, "executionSlotKey", s)
      /\ \A role \in p.roles : scene.graphic[role] = Latest(h, "role", role).layer
      /\ scene.photo = Latest(h, "executionSlotKey", "hero_image").layer
  BY DEF SceneOf
<1>2. layer = CASE slot = "hero_image" -> scene.photo
                [] slot \in DOMAIN scene.copy /\ Visible(scene, slot) -> scene.copy[slot].layer
                [] OTHER -> byRole
  BY DEF ExistingLayer
<1>3. ~brief.names => layer = NoLayer
  <2>1. ASSUME ~brief.names
        PROVE  /\ scene.photo = NoLayer /\ byRole = NoLayer
               /\ \A s \in p.slots : scene.copy[s].layer = NoLayer
    BY <1>1, <2>1, UnnamedScene
  <2> HIDE DEF scene, layer, slot, byRole
  <2>2. QED BY <1>1, <1>2, <2>1
<1>4. c.role = "cta_container" => (layer # NoLayer <=> brief.names)
  <2>1. ASSUME c.role = "cta_container"
        PROVE  slot = None /\ byRole = Latest(h, "role", "cta_container").layer
    BY <1>1, <2>1 DEF Placed, Content, WholePlan
  <2>2. None # "hero_image" /\ None \notin p.slots BY RowNumbers DEF None
  <2>3. ASSUME c.role = "cta_container"
        PROVE  Latest(h, "role", "cta_container").layer # NoLayer <=> brief.names
    BY ContainerScene
  <2> HIDE DEF scene, layer, slot, byRole
  <2>4. QED BY <1>1, <1>2, <2>1, <2>2, <2>3
<1>5. ASSUME NEW i \in DOMAIN q, slot \in p.slots, CreatesSlot(q[i], slot), brief.names
      PROVE  layer = Layer(i, c.key)
  <2>1. i \in DOMAIN h /\ h[i].answer = "acked" BY RowNumbers DEF Settled
  <2>2. h[i].named <=> brief.names BY <2>1 DEF Content
  <2> DEFINE seen == Latest(h, "executionSlotKey", slot)
  <2>a. seen.layer = IF h[i].named THEN Layer(i, SlotKey(slot)) ELSE NoLayer
    BY <1>5, <2>1, SlotScene
  <2>b. scene.copy[slot] = seen BY <1>1, <1>5
  <2>3. scene.copy[slot].layer = Layer(i, SlotKey(slot))
    <3> HIDE DEF seen, scene, slot
    <3>1. QED BY <1>5, <2>2, <2>a, <2>b
  <2>4. Visible(scene, slot) BY <1>5, SettledScene
  <2>5. slot # "hero_image" /\ slot \in CopySlots BY <1>5, RowNumbers
  <2>6. c.key = SlotKey(slot) BY <2>5 DEF Placed
  <2> HIDE DEF scene, layer, slot, byRole
  <2>7. slot \in DOMAIN scene.copy /\ Visible(scene, slot) BY <1>1, <1>5, <2>4
  <2>8. layer = scene.copy[slot].layer BY <1>2, <2>5, <2>7
  <2>9. QED BY <2>3, <2>6, <2>8
<1> HIDE DEF layer, scene
<1>6. /\ ~brief.names => layer = NoLayer
      /\ c.role = "cta_container" => (layer # NoLayer <=> brief.names)
      /\ \A i \in DOMAIN q :
           /\ c.executionSlotKey \in p.slots
           /\ CreatesSlot(q[i], c.executionSlotKey)
           /\ brief.names
           => layer = Layer(i, c.key)
  BY <1>3, <1>4, <1>5
<1>7. QED BY <1>6 DEF layer, scene

\* so each command updates that layer, or makes the container a nameless client is not
\* known to have
LEMMA CommandIsPatched ==
  ASSUME NEW p, NEW q, NEW h, Content(p, q, h), Settled(h, q), Len(h) <= Len(q),
         NEW commands,
         \A c \in commands : Placed(p, c) /\ Fresh(c) /\ CommandFields \subseteq DOMAIN c
  PROVE  \A c \in PatchCommands(SceneOf(p, h), commands) : Patched(p, q, c)
<1> DEFINE scene == SceneOf(p, h)
<1>1. ASSUME NEW c \in commands, ExistingLayer(scene, c) # NoLayer
      PROVE  Patched(p, q, [c EXCEPT !.op = "updateLayer", !.target = ExistingLayer(scene, c)])
  <2> DEFINE layer == ExistingLayer(scene, c)
             d == [c EXCEPT !.op = "updateLayer", !.target = layer]
  <2>1. /\ d.op = "updateLayer" /\ d.target = layer /\ d.key = c.key /\ d.box = c.box
        /\ d.executionSlotKey = c.executionSlotKey /\ d.role = c.role
    BY DEF CommandFields
  <2>2. Placed(p, c) OBVIOUS
  <2>3. /\ ~brief.names => layer = NoLayer
        /\ \A i \in DOMAIN q :
             /\ c.executionSlotKey \in p.slots
             /\ CreatesSlot(q[i], c.executionSlotKey)
             /\ brief.names
             => layer = Layer(i, c.key)
    BY <2>2, PatchedLayer
  <2>4. layer # NoLayer BY <1>1
  <2> HIDE DEF d, layer, scene
  <2>5. Placed(p, d) BY <2>1, <2>2 DEF Placed
  <2>6. Patched(p, q, d) BY <2>1, <2>3, <2>4, <2>5 DEF Patched
  <2>7. QED BY <2>6 DEF d, layer
<1>2. ASSUME NEW c \in commands, ExistingLayer(scene, c) = NoLayer, c.role = "cta_container"
      PROVE  Patched(p, q, c)
  <2>1. Placed(p, c) /\ Fresh(c) OBVIOUS
  <2>2. ExistingLayer(scene, c) # NoLayer <=> brief.names BY <1>2, <2>1, PatchedLayer
  <2>3. QED BY <1>2, <2>1, <2>2 DEF Patched, Fresh
<1> HIDE DEF scene
<1>3. \A c \in PatchCommands(scene, commands) : Patched(p, q, c)
  BY <1>1, <1>2 DEF PatchCommands
<1>4. QED BY <1>3 DEF scene

\* a patched plan has the same stages and the same rows
LEMMA ContentFollowsPlan ==
  ASSUME NEW p, NEW q, NEW h, Content(p, q, h), Len(h) <= Len(q), NEW operations
  PROVE  Content(ApplyPatch(p, operations), q, h)
<1> DEFINE r == ApplyPatch(p, operations)
<1>1. GoodPlan(brief, p) /\ WholePlan(p) BY DEF Content
<1>2. /\ GoodPlan(brief, r) /\ WholePlan(r)
      /\ r.slots = p.slots /\ r.planned = p.planned /\ r.photo = p.photo
  BY <1>1, ApplyPatchIsGood, PatchKeeps
<1> HIDE DEF r
<1>3. Stages(r, q) BY <1>2, StagesFollowPlan DEF Content
<1>4. CreatesAll(r, q) BY <1>2 DEF Content, CreatesAll
<1>5. Extra(r, q, h) BY RowNumbers DEF Extra
<1>6. Content(r, q, h) BY <1>2, <1>3, <1>4, <1>5 DEF Content
<1>7. QED BY <1>6 DEF r

\* Every command of the refinement stands for the layer its stage made.
LEMMA RefinementIsPatched ==
  ASSUME NEW p, NEW q, NEW h, Content(p, q, h), Settled(h, q), Len(h) <= Len(q),
         NEW operations
  PROVE  LET r == ApplyPatch(p, operations)
         IN  \A c \in RefinementCommands(r, SceneOf(p, h)) : Patched(r, q, c)
<1> DEFINE r == ApplyPatch(p, operations)
<1>1. GoodPlan(brief, p) /\ WholePlan(p) BY DEF Content
<1>2. r.slots = p.slots /\ r.roles = p.roles BY <1>1, PatchKeeps
<1>3. SceneOf(r, h) = SceneOf(p, h) BY <1>2 DEF SceneOf
<1>4. Content(r, q, h) BY ContentFollowsPlan
<1> HIDE DEF r
<1>5. GoodPlan(brief, r) /\ WholePlan(r) BY <1>4 DEF Content
<1>6. \A c \in CopyCommands(r) : Placed(r, c) /\ Fresh(c) /\ CommandFields \subseteq DOMAIN c
  BY <1>5, CopyPlaced, CopySound DEF SoundCommands, Sound
<1>7. \A c \in PolishCommands(r) : Placed(r, c) /\ Fresh(c) /\ CommandFields \subseteq DOMAIN c
  BY <1>5, PolishPlaced, PolishSound DEF SoundCommands, Sound
<1>8. \A c \in PatchCommands(SceneOf(r, h), CopyCommands(r)) : Patched(r, q, c)
  BY <1>4, <1>6, CommandIsPatched
<1>9. \A c \in PatchCommands(SceneOf(r, h), PolishCommands(r)) : Patched(r, q, c)
  BY <1>4, <1>7, CommandIsPatched
<1>10. \A c \in RefinementCommands(r, SceneOf(p, h)) : Patched(r, q, c)
  BY <1>3, <1>8, <1>9 DEF RefinementCommands
<1>11. QED BY <1>10 DEF r

\* what the invariant says of a draft that has stages
LEMMA ContentHolds ==
  ASSUME ContentInv, pc \notin Unsent
  PROVE  Content(plan, proposals, history)
<1>1. pc = "emit_stage" \/ pc \in Sent BY DEF ContentInv, DraftInv, JudgePart, Sent, Unsent
<1>2. /\ GoodPlan(brief, plan) /\ SoundStages(brief, proposals) /\ CreatesAll(plan, proposals)
      /\ SoundRows(brief, history)
  BY DEF ContentInv, DraftInv, PlanPart, RowsPart, Unsent
<1>3. AckedButLast(history) /\ Matches(history, proposals)
  BY <1>1 DEF ContentInv, DraftInv, RowsPart, AllAcked, AckedButLast
<1>4. /\ WholePlan(plan) /\ Stages(plan, proposals) /\ Extra(plan, proposals, history)
      /\ \A i \in DOMAIN history :
           history[i].named = (history[i].answer = "acked" /\ brief.names)
  BY DEF ContentInv, ContentParts, StagesPart, LayersPart, Unsent
<1>5. QED BY <1>2, <1>3, <1>4 DEF Content

\* a draft whose last row was acked has all its stages acked, and so has one with a row
\* after them
LEMMA AckedIsSettled ==
  ASSUME ContentInv, pc \in Sent,
         LastAnswer = "acked" \/ Len(history) > Len(proposals)
  PROVE  Settled(history, proposals)
<1>1. pc \notin Unsent BY DEF Sent, Unsent
<1>2. Content(plan, proposals, history) BY <1>1, ContentHolds
<1>3. /\ Len(history) \in Nat /\ DOMAIN history = 1..Len(history) /\ Len(proposals) \in Nat
  BY <1>2, RowNumbers
<1>4. /\ LastAnswer = "acked" => Len(history) >= Len(proposals)
      /\ AckedButLast(history)
  BY DEF ContentInv, DraftInv, RowsPart
<1>5. QED BY <1>3, <1>4 DEF Settled, AckedButLast, LastAnswer, Last

\* no plan, no row
LEMMA InitContent == Init => ContentInv
<1> SUFFICES ASSUME Init PROVE ContentInv OBVIOUS
<1>1. DraftInv BY InitDraft
<1>2. StagesPart /\ LayersPart /\ PassPart /\ VerdictPart /\ RecordPart
  BY DEF Init, StagesPart, LayersPart, PassPart, VerdictPart, RecordPart, Unsent, Sent
<1>3. QED BY <1>1, <1>2 DEF ContentInv, ContentParts

\* the plan is whole and nothing is sent
LEMMA BuildPlanContent == ContentInv /\ BuildPlan => ContentParts'
<1> SUFFICES ASSUME ContentInv, BuildPlan PROVE ContentParts' OBVIOUS
<1>1. /\ pc = "plan" /\ pc' = "prepare_execution" /\ plan' = TemplatePlan(brief)
      /\ UNCHANGED <<brief, proposals, history, refineAttempt, judge, request, record>>
      /\ history = << >>
  BY DEF BuildPlan, ContentInv, DraftInv, RowsPart, Unsent
<1>2. WholePlan(plan') BY <1>1, TemplatePlanIsWhole DEF ContentInv, DraftInv, PlanPart
<1>3. StagesPart' BY <1>1, <1>2 DEF StagesPart, Unsent
<1>4. LayersPart' BY <1>1 DEF LayersPart, Unsent
<1>5. PassPart' BY <1>1 DEF ContentInv, ContentParts, PassPart, Unsent
<1>6. VerdictPart' BY <1>1 DEF ContentInv, ContentParts, VerdictPart, Unsent, Sent
<1>7. RecordPart' BY <1>1 DEF RecordPart
<1>8. QED BY <1>3, <1>4, <1>5, <1>6, <1>7 DEF ContentParts

\* the stages are those of the plan
LEMMA PrepareExecutionContent == ContentInv /\ PrepareExecution /\ DraftInv' => ContentParts'
<1> SUFFICES ASSUME ContentInv, PrepareExecution, DraftInv' PROVE ContentParts' OBVIOUS
<1>1. /\ pc = "prepare_execution" /\ proposals' = Skeleton(plan)
      /\ UNCHANGED <<brief, plan, history, refineAttempt, judge, request, record>>
      /\ history = << >>
  BY DEF PrepareExecution, ContentInv, DraftInv, RowsPart, Unsent
<1>2. pc' = "emit_stage" BY DEF PrepareExecution, DraftInv, JudgePart, Nodes
<1>3. GoodPlan(brief, plan) /\ WholePlan(plan)
  BY <1>1 DEF ContentInv, ContentParts, DraftInv, PlanPart, StagesPart
<1>4. Stages(plan, proposals') BY <1>1, <1>3, SkeletonIsStaged
<1>5. Stages(plan, proposals)' BY <1>1, <1>4 DEF Stages, MinimumDraft, Staged, Placed, Fresh
<1>6. StagesPart' BY <1>1, <1>3, <1>5 DEF StagesPart, WholePlan
<1>7. LayersPart' BY <1>1 DEF LayersPart, Extra
<1>8. PassPart' BY <1>1, <1>2 DEF ContentInv, ContentParts, PassPart, Unsent
<1>9. VerdictPart' BY <1>1, <1>2 DEF ContentInv, ContentParts, VerdictPart, Unsent, Sent
<1>10. RecordPart' BY <1>2 DEF RecordPart
<1>11. QED BY <1>6, <1>7, <1>8, <1>9, <1>10 DEF ContentParts

\* one more row, of a draft with its plan as it was
LEMMA RowsGrow ==
  ASSUME ContentInv, NEW stage \in StageNames, NEW commands, NEW answer \in Answers,
         SoundCommands(brief, commands),
         history' = Append(history, Row(stage, commands, answer)), UNCHANGED brief
  PROVE  /\ Len(history) \in Nat /\ DOMAIN history = 1..Len(history)
         /\ Len(history') = Len(history) + 1 /\ DOMAIN history' = 1..(Len(history) + 1)
         /\ \A i \in 1..Len(history) : history'[i] = history[i]
         /\ history'[Len(history) + 1].commands = commands
         /\ \A i \in DOMAIN history' :
              history'[i].named = (history'[i].answer = "acked" /\ brief'.names)
<1> DEFINE row == Row(stage, commands, answer)
<1>1. /\ SoundRow(brief, row) /\ row.commands = commands /\ row.answer = answer
  BY RowIsSound
<1>2. row.named = (row.answer = "acked" /\ brief.names) BY DEF Row
<1>3. SoundRows(brief, history) BY DEF ContentInv, DraftInv, RowsPart
<1>4. history' = Append(history, row) OBVIOUS
<1> HIDE DEF row
<1>5. /\ Len(history) \in Nat /\ DOMAIN history = 1..Len(history)
      /\ Len(history') = Len(history) + 1 /\ DOMAIN history' = 1..(Len(history) + 1)
      /\ \A i \in 1..Len(history) : history'[i] = history[i]
      /\ history'[Len(history) + 1] = row
  BY <1>1, <1>3, <1>4, AppendIsSound
<1>6. \A i \in DOMAIN history :
        history[i].named = (history[i].answer = "acked" /\ brief.names)
  BY DEF ContentInv, ContentParts, LayersPart
<1>7. ASSUME NEW i \in DOMAIN history'
      PROVE  history'[i].named = (history'[i].answer = "acked" /\ brief'.names)
  <2>1. CASE i = Len(history) + 1 BY <1>2, <1>5, <2>1
  <2>2. CASE i # Len(history) + 1
    <3>1. i \in 1..Len(history) BY <1>5, <2>2
    <3>2. QED BY <1>5, <1>6, <3>1
  <2>3. QED BY <2>1, <2>2
<1>8. QED BY <1>1, <1>5, <1>7

\* a stage is sent as proposed
LEMMA RunStageContent == ContentInv /\ RunStage => ContentParts'
<1> SUFFICES ASSUME ContentInv, RunStage PROVE ContentParts' OBVIOUS
<1> DEFINE next == proposals[Len(history) + 1]
<1>1. PICK answer \in Answers :
        /\ history' = Append(history, Row(next.stage, next.commands, answer))
        /\ pc' = AfterAck(answer, history')
  BY DEF RunStage
<1>2. /\ pc = "emit_stage" /\ pc' \in {"emit_stage", "judge"}
      /\ UNCHANGED <<brief, plan, proposals, refineAttempt, judge, request, record>>
  BY <1>1 DEF RunStage, AfterAck
<1>3. /\ SoundRows(brief, history) /\ SoundStages(brief, proposals)
      /\ Len(history) < Len(proposals)
  BY <1>2 DEF ContentInv, DraftInv, PlanPart, RowsPart, Unsent
<1>4. /\ Len(history) \in Nat /\ Len(proposals) \in Nat
      /\ Len(history) + 1 \in DOMAIN proposals
  BY <1>3, RowsFacts, StagesFacts
<1>5. next.stage \in StageNames /\ SoundCommands(brief, next.commands)
  BY <1>3, <1>4, StagesFacts DEF SoundStage
<1> HIDE DEF next
<1>6. /\ Len(history') = Len(history) + 1 /\ DOMAIN history' = 1..(Len(history) + 1)
      /\ \A i \in DOMAIN history' :
           history'[i].named = (history'[i].answer = "acked" /\ brief'.names)
  BY <1>1, <1>2, <1>5, RowsGrow
<1>7. Len(history') <= Len(proposals') BY <1>2, <1>3, <1>4, <1>6
<1>8. StagesPart'
  BY <1>2 DEF ContentInv, ContentParts, StagesPart, Unsent, Stages, MinimumDraft, Staged,
              Placed, Fresh
<1>9. Extra(plan, proposals, history)'
  <2>1. \A i \in DOMAIN history' : ~(i > Len(proposals')) BY <1>2, <1>4, <1>6, <1>7
  <2>2. QED BY <2>1 DEF Extra
<1>10. LayersPart' BY <1>6, <1>9 DEF LayersPart
<1>11. PassPart' BY <1>2, <1>7 DEF ContentInv, ContentParts, PassPart, Unsent
<1>12. VerdictPart' BY <1>2 DEF ContentInv, ContentParts, VerdictPart, Unsent, Sent
<1>13. RecordPart' BY <1>2 DEF RecordPart
<1>14. QED BY <1>8, <1>10, <1>11, <1>12, <1>13 DEF ContentParts

\* a judge of a settled draft finds what its plan alone tells
LEMMA JudgeSceneContent == ContentInv /\ JudgeScene => ContentParts'
<1> SUFFICES ASSUME ContentInv, JudgeScene PROVE ContentParts' OBVIOUS
<1> DEFINE issues == JudgeIssues(plan, SceneOf(plan, history))
           operations == PatchOperations(issues, refineAttempt, plan.page.spacing)
<1>1. /\ pc = "judge" /\ judge'.recommendation = Recommendation(issues, refineAttempt)
      /\ judge'.issues = issues /\ pc' = AfterDecision(operations)
      /\ UNCHANGED <<brief, plan, proposals, history, refineAttempt, request, record>>
      /\ LastAnswer' = LastAnswer
  BY DEF JudgeScene, LastAnswer
<1>2. /\ pc \in Sent /\ pc \notin Unsent
      /\ pc' \in {"emit_refinement_patch", "emit_save_stage", "prepare_finalize"}
  BY <1>1 DEF Sent, Nodes, Unsent, AfterDecision
<1>3. LastAnswer = "acked" => issues = SettledIssues(plan)
  BY <1>2, AckedIsSettled, ContentHolds, SettledJudgement
<1>4. pc' = "emit_refinement_patch" =>
        Recommendation(issues, refineAttempt) = "refine" /\ refineAttempt = 0
  BY <1>1 DEF AfterDecision, PatchOperations, When
<1>5. /\ Recommendation(issues, refineAttempt) \in {"keep", "refine", "warn_only"}
      /\ (issues = {} <=> Recommendation(issues, refineAttempt) = "keep")
  BY DEF Recommendation
<1> HIDE DEF issues, operations
<1>6. StagesPart'
  BY <1>1, <1>2 DEF ContentInv, ContentParts, StagesPart, Unsent, Stages, MinimumDraft, Staged,
                    Placed, Fresh
<1>7. LayersPart'
  BY <1>1, <1>2 DEF ContentInv, ContentParts, LayersPart, Unsent, Extra, Patched, Placed
<1>8. PassPart'
  BY <1>1, <1>2, <1>3, <1>4
     DEF ContentInv, ContentParts, PassPart, Unsent, SettledIssues, Clear
<1>9. VerdictPart'
  <2>1. judge'.recommendation = "keep" /\ LastAnswer = "acked" => brief.names /\ Clear(plan)
    BY <1>1, <1>3, <1>5, NoIssueIsClear
  <2>2. QED BY <1>1, <1>2, <1>4, <1>5, <2>1 DEF VerdictPart, Unsent, Sent, Clear, None
<1>10. RecordPart' BY <1>2 DEF RecordPart
<1>11. QED BY <1>6, <1>7, <1>8, <1>9, <1>10 DEF ContentParts

\* the save is an empty row
LEMMA SaveDraftContent == ContentInv /\ SaveDraft => ContentParts'
<1> SUFFICES ASSUME ContentInv, SaveDraft PROVE ContentParts' OBVIOUS
<1>1. /\ pc = "emit_save_stage" /\ pc' = "prepare_finalize"
      /\ UNCHANGED <<brief, plan, proposals, refineAttempt, judge, request, record>>
      /\ pc \in Sent \ {"judge"} /\ pc \notin Unsent
  BY DEF SaveDraft, Sent, Nodes, Unsent
<1>2. PICK answer \in Answers : history' = Append(history, Row("save", {}, answer))
  BY DEF SaveDraft
<1>3. SoundCommands(brief, {}) BY DEF SoundCommands
<1>4. /\ Len(history) \in Nat /\ DOMAIN history = 1..Len(history)
      /\ DOMAIN history' = 1..(Len(history) + 1)
      /\ \A i \in 1..Len(history) : history'[i] = history[i]
      /\ history'[Len(history) + 1].commands = {}
      /\ \A i \in DOMAIN history' :
           history'[i].named = (history'[i].answer = "acked" /\ brief'.names)
  BY <1>1, <1>2, <1>3, RowsGrow DEF StageNames
<1>5. LastAnswer = "acked" BY <1>1 DEF ContentInv, DraftInv, RowsPart
<1>6. StagesPart'
  BY <1>1 DEF ContentInv, ContentParts, StagesPart, Unsent, Stages, MinimumDraft, Staged,
              Placed, Fresh
<1>7. Extra(plan, proposals, history')
  <2>1. Extra(plan, proposals, history)
    BY <1>1 DEF ContentInv, ContentParts, LayersPart
  <2>2. ASSUME NEW i \in DOMAIN history', i > Len(proposals)
        PROVE  /\ i > Len(proposals) + 1 => history'[i].commands = {}
               /\ \A c \in history'[i].commands : Patched(plan, proposals, c)
    <3>1. CASE i = Len(history) + 1 BY <1>4, <3>1
    <3>2. CASE i # Len(history) + 1
      <4>1. i \in 1..Len(history) BY <1>4, <3>2
      <4>2. QED BY <1>4, <2>1, <2>2, <4>1 DEF Extra
    <3>3. QED BY <3>1, <3>2
  <2>3. QED BY <2>2 DEF Extra
<1>8. LayersPart' BY <1>1, <1>4, <1>7 DEF LayersPart, Extra, Patched, Placed
<1>9. PassPart' BY <1>1 DEF PassPart, Unsent
<1>10. VerdictPart'
  BY <1>1, <1>5 DEF ContentInv, ContentParts, VerdictPart, Unsent, Sent, Clear
<1>11. RecordPart' BY <1>1 DEF RecordPart
<1>12. QED BY <1>6, <1>8, <1>9, <1>10, <1>11 DEF ContentParts

\* completed means kept
LEMMA PrepareFinalizeContent == ContentInv /\ PrepareFinalize => ContentParts'
<1> SUFFICES ASSUME ContentInv, PrepareFinalize PROVE ContentParts' OBVIOUS
<1>1. /\ pc = "prepare_finalize" /\ pc' = "finalize"
      /\ UNCHANGED <<brief, plan, proposals, history, refineAttempt, judge, record>>
      /\ pc \in Sent \ {"judge"} /\ pc \notin Unsent
      /\ LastAnswer' = LastAnswer /\ Revision' = Revision
  BY DEF PrepareFinalize, Sent, Nodes, Unsent, LastAnswer, Revision
<1>2. PICK evidence \in BOOLEAN :
        /\ request'.status = FinalStatus(Warnings, evidence)
        /\ request'.finalRevision = IF LastAnswer = "acked" THEN Revision ELSE 0
  BY DEF PrepareFinalize
<1>3. LastAnswer \in Answers BY <1>1, LastAnswerType DEF ContentInv
<1>4. request'.status = "completed" => Warnings = {}
  BY <1>2, <1>3 DEF FinalStatus, Answers
<1>5. Warnings = {} => judge.recommendation = "keep"
  BY <1>1 DEF Warnings, ContentInv, ContentParts, VerdictPart, Unsent
<1>6. StagesPart'
  BY <1>1 DEF ContentInv, ContentParts, StagesPart, Unsent, Stages, MinimumDraft, Staged,
              Placed, Fresh
<1>7. LayersPart'
  BY <1>1 DEF ContentInv, ContentParts, LayersPart, Unsent, Extra, Patched, Placed
<1>8. PassPart' BY <1>1 DEF PassPart, Unsent
<1>9. VerdictPart' BY <1>1 DEF ContentInv, ContentParts, VerdictPart, Unsent, Sent, Clear
<1>10. RecordPart' BY <1>1, <1>2, <1>4, <1>5 DEF RecordPart
<1>11. QED BY <1>6, <1>7, <1>8, <1>9, <1>10 DEF ContentParts

\* the record is computed from the rows
LEMMA FinalizeContent == ContentInv /\ Finalize => ContentParts'
<1> SUFFICES ASSUME ContentInv, Finalize PROVE ContentParts' OBVIOUS
<1>1. /\ pc = "finalize" /\ pc' = "done"
      /\ UNCHANGED <<brief, plan, proposals, history, refineAttempt, judge, request>>
      /\ pc \in Sent \ {"judge"} /\ pc \notin Unsent
      /\ LastAnswer' = LastAnswer /\ Revision' = Revision
  BY DEF Finalize, Sent, Nodes, Unsent, LastAnswer, Revision
<1>2. /\ record'.terminalStatus = TerminalStatus(request.status, MinimumDraft(history))
      /\ record'.runStatus = request.status
      /\ record'.slotBindings = SlotBindings(history)
      /\ record'.latestSavedRevision = IF record'.saved THEN request.finalRevision ELSE 0
  BY DEF Finalize
<1>3. StagesPart'
  BY <1>1 DEF ContentInv, ContentParts, StagesPart, Unsent, Stages, MinimumDraft, Staged,
              Placed, Fresh
<1>4. LayersPart'
  BY <1>1 DEF ContentInv, ContentParts, LayersPart, Unsent, Extra, Patched, Placed
<1>5. PassPart' BY <1>1 DEF PassPart, Unsent
<1>6. VerdictPart' BY <1>1 DEF ContentInv, ContentParts, VerdictPart, Unsent, Sent, Clear
<1>7. /\ MinimumDraft(history)' = MinimumDraft(history)
      /\ SlotBindings(history)' = SlotBindings(history)
  BY <1>1
<1>8. RecordPart' BY <1>1, <1>2, <1>7 DEF ContentInv, ContentParts, RecordPart
<1>9. QED BY <1>3, <1>4, <1>5, <1>6, <1>8 DEF ContentParts

\* the refinement is one row of patched commands
LEMMA EmitRefinementContent == ContentInv /\ EmitRefinement => ContentParts'
<1> SUFFICES ASSUME ContentInv, EmitRefinement PROVE ContentParts' OBVIOUS
<1>1. /\ pc = "emit_refinement_patch" /\ pc \in Sent /\ pc \notin Unsent
      /\ refineAttempt' = 1 /\ pc' \in {"prepare_finalize", "judge"}
      /\ UNCHANGED <<brief, proposals, judge, request, record>>
  BY DEF EmitRefinement, Sent, Nodes, Unsent
<1>2. /\ Content(plan, proposals, history) /\ judge.recommendation = "refine"
      /\ Len(history) <= Len(proposals)
      /\ LastAnswer = "acked" => judge.issues = SettledIssues(plan)
  BY <1>1, ContentHolds DEF ContentInv, ContentParts, VerdictPart, PassPart
<1>3. VerdictPart'
  BY <1>1, <1>2 DEF ContentInv, ContentParts, VerdictPart, Unsent, Sent, None
<1>4. RecordPart' BY <1>1 DEF RecordPart
<1>5. CASE pc' = "prepare_finalize" /\ UNCHANGED <<plan, history>>
  <2>1. StagesPart'
    BY <1>1, <1>5 DEF ContentInv, ContentParts, StagesPart, Unsent, Stages, MinimumDraft,
                      Staged, Placed, Fresh
  <2>2. LayersPart'
    BY <1>1, <1>5
       DEF ContentInv, ContentParts, LayersPart, Unsent, Extra, Patched, Placed
  <2>3. PassPart' BY <1>5 DEF PassPart, Unsent
  <2>4. QED BY <1>3, <1>4, <2>1, <2>2, <2>3 DEF ContentParts
<1>6. CASE LastAnswer = "acked"
  <2> DEFINE refined == ApplyPatch(plan, judge.operations)
             commands == RefinementCommands(refined, SceneOf(plan, history))
  <2>1. plan' = refined BY <1>6 DEF EmitRefinement
  <2>2. Content(refined, proposals, history) BY <1>2, ContentFollowsPlan
  <2>3. SettledIssues(refined) = SettledIssues(plan)
    <3>1. GoodPlan(brief, plan) /\ WholePlan(plan) BY <1>2 DEF Content
    <3>2. /\ refined.slots = plan.slots /\ refined.planned = plan.planned
          /\ refined.preflight = plan.preflight /\ refined.density = plan.density
      BY <3>1, PatchKeeps
    <3> HIDE DEF refined
    <3>3. QED BY <3>2, SettledIssuesFollowPlan
  <2>4. \A c \in commands : Patched(refined, proposals, c)
    BY <1>1, <1>2, <1>6, AckedIsSettled, RefinementIsPatched
  <2>5. SoundCommands(brief, commands)
    <3>1. GoodPlan(brief, refined) BY <2>2 DEF Content
    <3> HIDE DEF refined
    <3>2. QED BY <3>1, RefinementSound
  <2>6. \/ pc' = "prepare_finalize" /\ UNCHANGED history
        \/ \E answer \in Answers :
             /\ history' = Append(history, Row("refine", commands, answer))
             /\ pc' = "judge"
    BY <1>6 DEF EmitRefinement
  <2> HIDE DEF refined, commands
  <2>7. WholePlan(plan') /\ Stages(plan, proposals)'
    <3>1. WholePlan(refined) /\ Stages(refined, proposals) BY <2>2 DEF Content
    <3>2. QED BY <1>1, <2>1, <3>1 DEF Stages, MinimumDraft, Staged, Placed, Fresh
  <2>8. StagesPart' BY <2>7 DEF StagesPart, WholePlan
  <2>9. CASE pc' = "prepare_finalize" /\ UNCHANGED history
    <3>1. Extra(plan, proposals, history)'
      <4>1. Extra(refined, proposals, history) BY <2>2 DEF Content
      <4>2. QED BY <1>1, <2>1, <2>9, <4>1 DEF Extra, Patched, Placed
    <3>2. LayersPart'
      BY <1>1, <2>9, <3>1 DEF ContentInv, ContentParts, LayersPart
    <3>3. PassPart' BY <2>9 DEF PassPart, Unsent
    <3>4. QED BY <1>3, <1>4, <2>8, <3>2, <3>3 DEF ContentParts
  <2>10. CASE pc' = "judge" /\ ~UNCHANGED history
    <3>1. PICK answer \in Answers :
            /\ history' = Append(history, Row("refine", commands, answer))
      BY <2>6, <2>10
    <3>2. /\ Len(history) \in Nat /\ DOMAIN history = 1..Len(history)
          /\ Len(history') = Len(history) + 1
          /\ DOMAIN history' = 1..(Len(history) + 1)
          /\ \A i \in 1..Len(history) : history'[i] = history[i]
          /\ history'[Len(history) + 1].commands = commands
          /\ \A i \in DOMAIN history' :
               history'[i].named = (history'[i].answer = "acked" /\ brief'.names)
      BY <1>1, <2>5, <3>1, RowsGrow DEF StageNames
    <3>3. Len(history) = Len(proposals) /\ Len(proposals) \in Nat
      <4>1. Len(proposals) \in Nat BY <1>2, RowNumbers
      <4>2. Len(history) >= Len(proposals)
        BY <1>1, <1>6, AckedIsSettled DEF Settled
      <4>3. QED BY <1>2, <3>2, <4>1, <4>2
    <3>4. Extra(plan, proposals, history)'
      <4>1. ASSUME NEW i \in DOMAIN history', i > Len(proposals)
            PROVE  /\ ~(i > Len(proposals) + 1)
                   /\ history'[i].commands = commands
        <5>1. i = Len(history) + 1 BY <3>2, <3>3, <4>1
        <5>2. QED BY <3>2, <3>3, <5>1
      <4>2. Extra(refined, proposals, history') BY <2>4, <4>1 DEF Extra
      <4>3. QED BY <1>1, <2>1, <4>2 DEF Extra, Patched, Placed
    <3>5. LayersPart' BY <3>2, <3>4 DEF LayersPart
    <3>6. judge'.issues = SettledIssues(plan)'
      <4>1. judge.issues = SettledIssues(refined) BY <1>2, <1>6, <2>3
      <4>2. QED BY <1>1, <2>1, <4>1 DEF SettledIssues, Clear
    <3>7. Len(history') > Len(proposals') BY <1>1, <3>2, <3>3
    <3>8. PassPart' BY <1>1, <2>10, <3>6, <3>7 DEF PassPart, Unsent
    <3>9. QED BY <1>3, <1>4, <2>8, <3>5, <3>8 DEF ContentParts
  <2>11. QED
    <3>1. CASE pc' = "prepare_finalize" /\ UNCHANGED history BY <2>9, <3>1
    <3>2. ASSUME NEW answer \in Answers,
                 history' = Append(history, Row("refine", commands, answer)), pc' = "judge"
          PROVE  ~UNCHANGED history
      <4>1. Len(history') = Len(history) + 1 /\ Len(history) \in Nat
        BY <1>1, <2>5, <3>2, RowsGrow DEF StageNames
      <4>2. QED BY <4>1
    <3>3. QED BY <2>6, <2>10, <3>1, <3>2
<1>7. QED BY <1>5, <1>6 DEF EmitRefinement

\* nothing changes
LEMMA StutterContent == ContentInv /\ UNCHANGED vars => ContentParts'
<1> SUFFICES ASSUME ContentInv, UNCHANGED vars PROVE ContentParts' OBVIOUS
<1>1. /\ UNCHANGED <<brief, plan, pc, proposals, history, refineAttempt, judge, request, record>>
      /\ LastAnswer' = LastAnswer /\ Revision' = Revision
      /\ MinimumDraft(history)' = MinimumDraft(history)
      /\ SlotBindings(history)' = SlotBindings(history)
      /\ SettledIssues(plan)' = SettledIssues(plan)
  BY DEF vars, LastAnswer, Revision, SettledIssues, Clear
<1>2. StagesPart'
  BY <1>1 DEF ContentInv, ContentParts, StagesPart, Stages, MinimumDraft, Staged, Placed, Fresh
<1>3. LayersPart' BY <1>1 DEF ContentInv, ContentParts, LayersPart, Extra, Patched, Placed
<1>4. PassPart' BY <1>1 DEF ContentInv, ContentParts, PassPart
<1>5. VerdictPart' BY <1>1 DEF ContentInv, ContentParts, VerdictPart, Clear
<1>6. RecordPart' BY <1>1 DEF ContentInv, ContentParts, RecordPart
<1>7. QED BY <1>2, <1>3, <1>4, <1>5, <1>6 DEF ContentParts

\* the content invariant holds in every reachable state
LEMMA ContentInvariant == Spec => []ContentInv
<1>1. ContentInv /\ [Next]_vars => ContentInv'
  <2> SUFFICES ASSUME ContentInv, [Next]_vars PROVE ContentInv' OBVIOUS
  <2>1. DraftInv'
    BY BuildPlanKeeps, PrepareExecutionKeeps, RunStageKeeps, JudgeSceneKeeps,
       EmitRefinementKeeps, SaveDraftKeeps, PrepareFinalizeKeeps, FinalizeKeeps, StutterKeeps
       DEF Next, ContentInv
  <2>2. ContentParts'
    BY <2>1, BuildPlanContent, PrepareExecutionContent, RunStageContent, JudgeSceneContent,
       EmitRefinementContent, SaveDraftContent, PrepareFinalizeContent, FinalizeContent,
       StutterContent DEF Next
  <2>3. QED BY <2>1, <2>2 DEF ContentInv
<1>2. QED BY InitContent, <1>1, PTL DEF Spec

(* --- What the content promises --------------------------------------------- *)

\* everything that was sent is where the plan puts it, and what created it is in a stage
LEMMA SentIsPlaced ==
  ASSUME NEW p, NEW q, NEW h, Content(p, q, h), NEW j \in DOMAIN h, NEW c \in h[j].commands
  PROVE  /\ Placed(p, c)
         /\ c.op = "createLayer" /\ brief.names => j \in DOMAIN q /\ c \in q[j].commands
<1>1. CASE j \in DOMAIN q
  <2>1. c \in q[j].commands BY <1>1, RowNumbers
  <2>2. QED BY <1>1, <2>1 DEF Content, Stages, Staged
<1>2. CASE j \notin DOMAIN q
  <2>1. Patched(p, q, c) BY <1>2, RowNumbers DEF Content, Extra
  <2>2. QED BY <2>1 DEF Patched
<1>3. QED BY <1>1, <1>2

\* what the editor shows under a key is the box of a command with the key
LEMMA ShownIsSent ==
  ASSUME ContentInv, pc \notin Unsent, NEW key \in ShownKeys
  PROVE  \E j \in DOMAIN history : \E c \in history[j].commands :
           c.key = key /\ ShownBox(key) = c.box
<1> DEFINE HasKey(i) == \E c \in history[i].commands : c.key = key
           shown == {j \in DOMAIN history : Applied(j) /\ HasKey(j)}
           command(i) == CHOOSE c \in history[i].commands : c.key = key
<1>1. Content(plan, proposals, history) BY ContentHolds
<1>2. shown \in SUBSET (1..5) BY <1>1, RowNumbers
<1>3. shown # {} BY DEF ShownKeys
<1>4. \A i \in shown : command(i) \in history[i].commands /\ command(i).key = key
  OBVIOUS
<1>5. ShownBox(key) = command(Max(shown)).box BY DEF ShownBox
<1>6. shown \subseteq DOMAIN history OBVIOUS
<1> HIDE DEF shown, command
<1>7. Max(shown) \in shown BY <1>2, <1>3, MaxIsIn
<1> DEFINE m == Max(shown)
<1>8. /\ m \in DOMAIN history /\ command(m) \in history[m].commands
      /\ command(m).key = key /\ ShownBox(key) = command(m).box
  BY <1>4, <1>5, <1>6, <1>7
<1> HIDE DEF m
<1>9. QED BY <1>8

\* before the stages nothing is shown
LEMMA NothingShown ==
  ASSUME ContentInv, pc \in Unsent
  PROVE  ShownKeys = {} /\ DOMAIN history = {}
<1>1. history = << >> BY DEF ContentInv, DraftInv, RowsPart
<1>2. QED BY <1>1 DEF ShownKeys

\* A client that names its layers is never asked to make one of them twice: the
\* refinement updates what the stages made.
THEOREM LayersAreUnique == Spec => []NamedLayersAreUnique
<1>1. ContentInv => NamedLayersAreUnique
  <2> SUFFICES ASSUME ContentInv, brief.names,
                      NEW i \in DOMAIN history, NEW j \in DOMAIN history, i < j,
                      NEW c \in history[i].commands, NEW d \in history[j].commands,
                      c.op = "createLayer", d.op = "createLayer", c.key = d.key
               PROVE  FALSE
    BY DEF NamedLayersAreUnique, CreatedTwice
  <2>1. pc \notin Unsent BY NothingShown
  <2>2. Content(plan, proposals, history) BY <2>1, ContentHolds
  <2>3. /\ i \in DOMAIN proposals /\ c \in proposals[i].commands
        /\ j \in DOMAIN proposals /\ d \in proposals[j].commands
    BY <2>2, SentIsPlaced
  <2>4. i = j BY <2>2, <2>3, OneStagePerKey DEF Content
  <2>5. i \in Nat BY <2>2, RowNumbers
  <2>6. QED BY <2>4, <2>5
<1>2. QED BY ContentInvariant, <1>1, PTL

\* For a graphic draft the completion record and the run row tell one outcome, and a
\* completed one has a saved revision.
THEOREM GraphicRecordsAgree == Spec => []GraphicRecordAgrees
<1>1. ContentInv => GraphicRecordAgrees
  <2> SUFFICES ASSUME ContentInv, pc = "done", ~plan.photo
               PROVE  /\ record.terminalStatus = record.runStatus
                      /\ Completed(record.runStatus) => record.latestSavedRevision > 0
    BY DEF GraphicRecordAgrees
  <2>1. /\ record.terminalStatus = TerminalStatus(request.status, MinimumDraft(history))
        /\ record.runStatus = request.status
        /\ record.latestSavedRevision = IF record.saved THEN request.finalRevision ELSE 0
        /\ request.finalRevision = IF LastAnswer = "acked" THEN Revision ELSE 0
    BY DEF ContentInv, ContentParts, RecordPart
  <2>2. /\ Completed(request.status) => LastAnswer = "acked"
        /\ Completed(record.terminalStatus) => record.saved = TRUE
    BY DEF ContentInv, DraftInv, OutcomePart
  <2>3. pc \in Sent /\ pc \notin Unsent BY DEF Sent, Nodes, Unsent
  <2>4. Content(plan, proposals, history) BY <2>3, ContentHolds
  <2>5. ASSUME LastAnswer = "acked" PROVE MinimumDraft(history)
    <3>1. Settled(history, proposals) BY <2>3, <2>5, AckedIsSettled
    <3>2. \A i \in DOMAIN proposals :
            i \in DOMAIN history /\ history[i].commands = proposals[i].commands
      BY <2>4, <3>1, RowNumbers DEF Settled
    <3>3. MinimumDraft(proposals) BY <2>4 DEF Content, Stages
    <3>4. QED BY <3>2, <3>3 DEF MinimumDraft
  <2>6. record.terminalStatus = request.status
    BY <2>1, <2>2, <2>5 DEF TerminalStatus, Completed
  <2>7. ASSUME LastAnswer = "acked" PROVE Revision > 0
    <3> DEFINE acked == {i \in DOMAIN history : history[i].answer = "acked"}
    <3>1. Len(history) \in Nat /\ DOMAIN history = 1..Len(history)
      BY <2>4, RowNumbers
    <3>2. Len(history) >= 1 BY <2>3 DEF ContentInv, DraftInv, RowsPart
    <3>3. Len(history) \in acked BY <2>7, <3>1, <3>2 DEF LastAnswer, Last
    <3>4. IsFiniteSet(1..Len(history)) BY <3>1, FS_Interval
    <3>5. acked \subseteq 1..Len(history) BY <3>1
    <3> HIDE DEF acked
    <3>6. IsFiniteSet(acked) BY <3>4, <3>5, FS_Subset
    <3>7. Cardinality(acked) \in Nat /\ Cardinality(acked) # 0
      BY <3>3, <3>6, FS_CardinalityType, FS_EmptySet
    <3>8. Revision = Cardinality(acked) BY DEF Revision, acked
    <3>9. QED BY <3>7, <3>8
  <2>8. QED BY <2>1, <2>2, <2>6, <2>7
<1>2. QED BY ContentInvariant, <1>1, PTL

\* The layers the worker judged are the layers the API's manifest binds.
THEOREM ManifestIsTheScene == Spec => []SceneMatchesManifest
<1>1. ContentInv => SceneMatchesManifest
  <2> SUFFICES ASSUME ContentInv, pc = "done",
                      NEW slot \in plan.slots \cap DOMAIN record.slotBindings
               PROVE  LET seen == SceneOf(plan, history).copy[slot].layer
                          bound == record.slotBindings[slot]
                      IN  IF bound.seq = 0 THEN seen = NoLayer ELSE seen = bound
    BY DEF SceneMatchesManifest
  <2>1. record.slotBindings = SlotBindings(history)
    BY DEF ContentInv, ContentParts, RecordPart
  <2>2. pc \notin Unsent BY DEF Unsent
  <2>3. Content(plan, proposals, history) BY <2>2, ContentHolds
  <2>4. PICK k \in DOMAIN history : CreatesSlot(history[k], slot)
    BY <2>1 DEF SlotBindings, BindingSlots
  <2>5. PICK i \in DOMAIN proposals : CreatesSlot(proposals[i], slot)
    BY <2>3, SlotHasStage
  <2> DEFINE creating == {j \in DOMAIN history : CreatesSlot(history[j], slot)}
             command == CHOOSE c \in history[i].commands : c.executionSlotKey = slot
  <2>6. \A j \in creating : j = i /\ i \in DOMAIN history
    BY <2>3, <2>5, SlotCommand DEF CreatesSlot
  <2>7. creating = {i} BY <2>4, <2>6
  <2>8. i \in DOMAIN history /\ i \in 1..5 /\ i # 0
    BY <2>3, <2>4, <2>6, RowNumbers DEF CreatesSlot
  <2>9. command \in history[i].commands /\ command.executionSlotKey = slot
    BY <2>4, <2>6 DEF CreatesSlot
  <2>10. command.key = SlotKey(slot) BY <2>3, <2>5, <2>8, <2>9, SlotCommand
  <2>11. Max(creating) = i
    <3>1. creating \in SUBSET (1..5) /\ creating # {} BY <2>7, <2>8
    <3> HIDE DEF creating
    <3>2. Max(creating) \in creating BY <3>1, MaxIsIn
    <3>3. QED BY <2>7, <3>2
  <2>12. record.slotBindings[slot] =
           IF history[i].named THEN Layer(i, SlotKey(slot)) ELSE Layer(0, SlotKey(slot))
    <3>1. slot \in BindingSlots(history) BY <2>1 DEF SlotBindings
    <3> DEFINE last == Max(creating)
               made(n) == CHOOSE c \in history[n].commands : c.executionSlotKey = slot
    <3>2. SlotBindings(history)[slot] =
            IF history[last].named THEN Layer(last, made(last).key)
                                   ELSE Layer(0, made(last).key)
      BY <3>1 DEF SlotBindings
    <3>3. made(i) = command OBVIOUS
    <3> HIDE DEF made, command, last
    <3>4. last = i BY <2>11 DEF last
    <3>5. QED BY <2>1, <2>10, <3>2, <3>3, <3>4
  <2>13. SceneOf(plan, history).copy[slot] = Latest(history, "executionSlotKey", slot)
    BY DEF SceneOf
  <2> DEFINE seen == Latest(history, "executionSlotKey", slot)
  <2>14. seen.layer = IF history[i].named THEN Layer(i, SlotKey(slot)) ELSE NoLayer
    BY <2>3, <2>5, <2>8, SlotScene
  <2>15. Layer(i, SlotKey(slot)).seq = i /\ Layer(0, SlotKey(slot)).seq = 0 BY DEF Layer
  <2> HIDE DEF seen
  <2>16. SceneOf(plan, history).copy[slot].layer = seen.layer BY <2>13 DEF seen
  <2>17. CASE history[i].named BY <2>8, <2>12, <2>14, <2>15, <2>16, <2>17
  <2>18. CASE ~history[i].named BY <2>12, <2>14, <2>15, <2>16, <2>18
  <2>19. QED BY <2>17, <2>18
<1>2. QED BY ContentInvariant, <1>1, PTL

\* The judge says of the refined draft what it said before.
THEOREM PatchIsHarmless == Spec => PatchWorsensNothing
<1>1. ContentInv /\ [Next]_vars
        => [pc = "judge" /\ refineAttempt = 1 => judge'.issues \subseteq judge.issues]_vars
  <2> SUFFICES ASSUME ContentInv, Next, pc = "judge", refineAttempt = 1
               PROVE  judge'.issues \subseteq judge.issues
    OBVIOUS
  <2>1. pc \in Sent /\ pc \notin Unsent BY DEF Sent, Nodes, Unsent
  <2>2. JudgeScene
    BY DEF Next, BuildPlan, PrepareExecution, RunStage, EmitRefinement, SaveDraft,
           PrepareFinalize, Finalize
  <2>3. Len(history) > Len(proposals) /\ judge.issues = SettledIssues(plan)
    BY DEF ContentInv, ContentParts, PassPart
  <2>4. judge'.issues = JudgeIssues(plan, SceneOf(plan, history))
    BY <2>2 DEF JudgeScene
  <2>5. JudgeIssues(plan, SceneOf(plan, history)) = SettledIssues(plan)
    BY <2>1, <2>3, AckedIsSettled, ContentHolds, SettledJudgement
  <2>6. QED BY <2>3, <2>4, <2>5
<1>2. QED BY ContentInvariant, <1>1, PTL DEF Spec, PatchWorsensNothing

\* The container goes around the cta, at every moment of every draft.
THEOREM CtaIsContained == Spec => []CtaStaysOnItsContainer
<1>1. ContentInv => CtaStaysOnItsContainer
  <2> SUFFICES ASSUME ContentInv, {"cta", "cta_container"} \subseteq ShownKeys
               PROVE  Encloses(ShownBox("cta_container"), ShownBox("cta"))
    BY DEF CtaStaysOnItsContainer
  <2>1. pc \notin Unsent BY NothingShown
  <2>2. Content(plan, proposals, history) BY <2>1, ContentHolds
  <2>3. GoodPlan(brief, plan) /\ WholePlan(plan) BY <2>2 DEF Content
  <2> DEFINE box == plan.planned["cta"]
  <2>4. ShownBox("cta") = box
    <3>1. PICK j \in DOMAIN history : \E c \in history[j].commands :
            c.key = "cta" /\ ShownBox("cta") = c.box
      BY <2>1, ShownIsSent
    <3>2. PICK c \in history[j].commands : c.key = "cta" /\ ShownBox("cta") = c.box
      BY <3>1
    <3>3. Placed(plan, c) BY <2>2, SentIsPlaced
    <3>4. c.executionSlotKey = "cta" BY <3>2, <3>3, SlotKeys DEF Placed, CopySlots
    <3>5. "cta" \in plan.slots BY <2>3 DEF WholePlan
    <3>6. QED BY <3>2, <3>3, <3>4, <3>5 DEF Placed
  <2>5. ShownBox("cta_container") = ContainerBox(box)
    <3>1. PICK j \in DOMAIN history : \E c \in history[j].commands :
            c.key = "cta_container" /\ ShownBox("cta_container") = c.box
      BY <2>1, ShownIsSent
    <3>2. PICK c \in history[j].commands :
            c.key = "cta_container" /\ ShownBox("cta_container") = c.box
      BY <3>1
    <3>3. Placed(plan, c) BY <2>2, SentIsPlaced
    <3>4. QED BY <3>2, <3>3 DEF Placed
  <2>6. box \in Boxes /\ box.x >= 0 /\ box.y >= 0
    BY <2>3 DEF GoodPlan, WholePlan, Fits, OnCanvas
  <2> HIDE DEF box
  <2>7. box.x \in Int /\ box.y \in Int /\ box.w \in Int /\ box.h \in Int
    BY <2>6 DEF Boxes
  <2>8. Encloses(ContainerBox(box), box)
    BY <2>6, <2>7 DEF Encloses, ContainerBox, Box, Most
  <2>9. QED BY <2>4, <2>5, <2>8
<1>2. QED BY ContentInvariant, <1>1, PTL

\* A run that completes without a warning shows its copy, each part apart from the
\* others, and the container of the cta.
THEOREM CompletedRunIsClean == Spec => []CompletedIsClean
<1>1. ContentInv => CompletedIsClean
  <2> SUFFICES ASSUME ContentInv, pc = "finalize", request.status = "completed"
               PROVE  /\ {SlotKey(slot) : slot \in plan.slots} \cup {"cta_container"}
                           \subseteq ShownKeys
                      /\ \A a, b \in plan.slots :
                           a # b => ~BoundsOverlap(ShownBox(SlotKey(a)), ShownBox(SlotKey(b)))
    BY DEF CompletedIsClean
  <2>1. pc \in Sent \ {"judge"} /\ pc \notin Unsent BY DEF Sent, Nodes, Unsent
  <2>2. LastAnswer = "acked"
    BY DEF ContentInv, DraftInv, OutcomePart, Completed
  <2>3. brief.names /\ Clear(plan)
    BY <2>1, <2>2 DEF ContentInv, ContentParts, RecordPart, VerdictPart
  <2>4. Settled(history, proposals) BY <2>1, <2>2, AckedIsSettled
  <2>5. Content(plan, proposals, history) BY <2>1, ContentHolds
  <2>6. \A i \in DOMAIN proposals :
          /\ i \in DOMAIN history /\ Applied(i)
          /\ history[i].commands = proposals[i].commands
    BY <2>4, <2>5, RowNumbers DEF Settled, Applied
  <2>7. ASSUME NEW i \in DOMAIN proposals, NEW c \in proposals[i].commands
        PROVE  c.key \in ShownKeys
    BY <2>6 DEF ShownKeys
  <2>8. "cta_container" \in ShownKeys
    <3>1. PICK i \in DOMAIN proposals :
            \E c \in proposals[i].commands : c.role = "cta_container"
      BY <2>5 DEF Content, Stages
    <3>2. PICK c \in proposals[i].commands : c.role = "cta_container" BY <3>1
    <3>3. c.key = "cta_container" BY <2>5, <3>2 DEF Content, Stages, Staged, Placed
    <3>4. QED BY <2>7, <3>3
  <2>9. ASSUME NEW slot \in plan.slots
        PROVE  SlotKey(slot) \in ShownKeys /\ ShownBox(SlotKey(slot)) = plan.planned[slot]
    <3>0. slot \in CopySlots BY <2>5, RowNumbers
    <3>1. PICK i \in DOMAIN proposals : CreatesSlot(proposals[i], slot)
      BY <2>5, SlotHasStage
    <3>2. PICK c \in proposals[i].commands : c.executionSlotKey = slot
      BY <3>1 DEF CreatesSlot
    <3>3. c.key = SlotKey(slot)
      BY <2>5, <3>0, <3>2 DEF Content, Stages, Staged, Placed
    <3>4. SlotKey(slot) \in ShownKeys BY <2>7, <3>3
    <3>5. PICK j \in DOMAIN history : \E d \in history[j].commands :
            d.key = SlotKey(slot) /\ ShownBox(SlotKey(slot)) = d.box
      BY <2>1, <3>4, ShownIsSent
    <3>6. PICK d \in history[j].commands :
            d.key = SlotKey(slot) /\ ShownBox(SlotKey(slot)) = d.box
      BY <3>5
    <3>7. Placed(plan, d) BY <2>5, SentIsPlaced
    <3>8. d.executionSlotKey = slot BY <3>0, <3>6, <3>7 DEF Placed
    <3>9. QED BY <3>4, <3>6, <3>7, <3>8 DEF Placed
  <2>10. QED BY <2>3, <2>8, <2>9 DEF Clear
<1>2. QED BY ContentInvariant, <1>1, PTL

(* --- The planned copy stack ------------------------------------------------ *)

\* on the preset canvases the planned copy boxes are apart
LEMMA PlannedApart ==
  ASSUME NEW b \in BriefRecords, CanvasPreset(b.width, b.height) # "custom",
         b.headline <= 24, ~(Density(b) = "airy" /\ b.height = 628)
  PROVE  \A s, t \in DOMAIN PlannedBounds(b) :
           s # t => ~BoundsOverlap(PlannedBounds(b)[s], PlannedBounds(b)[t])
<1> DEFINE page == PageOf(b, ResolvedMode(b), Density(b))
           anchors == SlotAnchors(b)
<1>1. Roomy(page)
  <2>1. page \in Pages /\ page.height = b.height /\ page.spacing = Density(b)
    BY PageType, ModeType, FamilyType DEF PageOf
  <2>2. b.height \in {628, 1080, 1920} BY DEF CanvasPreset
  <2>3. page.headlineHeight = 72
    <3>1. b.headline \in 0..24 BY DEF BriefRecords
    <3>2. Least(48, b.headline) = b.headline BY <3>1 DEF Least
    <3>3. TextHeight(b.headline) = 72 BY <3>1 DEF TextHeight, Most
    <3>4. QED BY <3>2, <3>3 DEF PageOf
  <2> HIDE DEF page
  <2>4. QED BY <2>1, <2>2, <2>3 DEF Roomy
<1>2. /\ DOMAIN PlannedBounds(b) = DOMAIN anchors /\ DOMAIN anchors \subseteq CopySlots
      /\ \A s \in DOMAIN anchors : PlannedBounds(b)[s] = AnchorBox(page, anchors[s], s)
  BY DEF PlannedBounds, SlotAnchors, Slots, BriefRecords, OptionalSlots, CopySlots
<1>3. \E column \in {"center_copy_stack", "framed_copy_column", "left_copy_column"} :
        \A s \in DOMAIN anchors :
          /\ s = "badge_text" => anchors[s] = "top_badge_band"
          /\ s = "footer_note" => anchors[s] = "footer_strip"
          /\ s \in {"headline", "subheadline", "offer_line"} => anchors[s] = column
          /\ s = "cta" => anchors[s] = IF column = "center_copy_stack" THEN "bottom_center"
                                       ELSE column
  <2>1. CASE RepairedFamily(b) = "promo_center" BY <2>1 DEF SlotAnchors
  <2>2. CASE RepairedFamily(b) # "promo_center" /\ LayoutFamily(b) = "promo_frame"
    BY <2>2 DEF SlotAnchors
  <2>3. CASE RepairedFamily(b) # "promo_center" /\ LayoutFamily(b) # "promo_frame"
    BY <2>3 DEF SlotAnchors
  <2>4. QED BY <2>1, <2>2, <2>3
<1> DEFINE Parted(name, s) ==
             CASE s = "badge_text"  -> LayoutBox(Preset(page, "badge"), "badge")
               [] s = "footer_note" -> LayoutBox(Preset(page, "current"), "footerNote")
               [] s = "headline"    -> LayoutBox(Preset(page, name), "headline")
               [] s = "subheadline" -> LayoutBox(Preset(page, name), "supportingCopy")
               [] s = "offer_line"  -> LayoutBox(Preset(page, name), "priceCallout")
               [] s = "cta"         -> LayoutBox(Preset(page, name), "cta")
<1>4. \E name \in {"center", "split", "framed"} :
        \A s \in DOMAIN anchors : PlannedBounds(b)[s] = Parted(name, s)
  <2>1. PICK column \in {"center_copy_stack", "framed_copy_column", "left_copy_column"} :
          \A s \in DOMAIN anchors :
            /\ s = "badge_text" => anchors[s] = "top_badge_band"
            /\ s = "footer_note" => anchors[s] = "footer_strip"
            /\ s \in {"headline", "subheadline", "offer_line"} => anchors[s] = column
            /\ s = "cta" => anchors[s] = IF column = "center_copy_stack" THEN "bottom_center"
                                         ELSE column
    BY <1>3
  <2> DEFINE name == CASE column = "center_copy_stack"  -> "center"
                       [] column = "framed_copy_column" -> "framed"
                       [] column = "left_copy_column"   -> "split"
  <2>2. name \in {"center", "split", "framed"} OBVIOUS
  <2> HIDE DEF page, anchors
  <2>3. ASSUME NEW s \in DOMAIN anchors PROVE AnchorBox(page, anchors[s], s) = Parted(name, s)
    <3>1. s \in CopySlots BY <1>2
    <3>2. CASE s = "badge_text" BY <2>1, <3>2 DEF AnchorBox
    <3>3. CASE s = "footer_note" BY <2>1, <3>3 DEF AnchorBox
    <3>4. CASE s = "headline" BY <2>1, <3>4 DEF AnchorBox, CopyPart
    <3>5. CASE s = "subheadline" BY <2>1, <3>5 DEF AnchorBox, CopyPart
    <3>6. CASE s = "offer_line" BY <2>1, <3>6 DEF AnchorBox, CopyPart
    <3>7. CASE s = "cta" BY <2>1, <3>7 DEF AnchorBox, CopyPart
    <3>8. QED BY <3>1, <3>2, <3>3, <3>4, <3>5, <3>6, <3>7 DEF CopySlots
  <2> HIDE DEF Parted, name
  <2>4. QED BY <1>2, <2>2, <2>3
<1>5. PICK name \in {"center", "split", "framed"} :
        \A s \in DOMAIN anchors : PlannedBounds(b)[s] = Parted(name, s)
  BY <1>4
<1>6. \A s \in DOMAIN anchors : PlannedBounds(b)[s] \in Boxes
  BY <1>2, PlannedBoundsFit DEF Fits
<1> HIDE DEF page, anchors
<1>7. \A s, t \in CopySlots :
        s # t => Above(Parted(name, s), Parted(name, t)) \/ Above(Parted(name, t), Parted(name, s))
  BY <1>1, StackIsOrdered DEF CopySlots
<1> HIDE DEF Parted
<1>8. \A s, t \in DOMAIN anchors :
        s # t => ~BoundsOverlap(PlannedBounds(b)[s], PlannedBounds(b)[t])
  BY <1>2, <1>5, <1>6, <1>7, AboveIsApart
<1>9. QED BY <1>2, <1>8

\* the refinement moves no planned box
PlannedPart ==
  pc # "plan" => plan.planned = PlannedBounds(brief) /\ plan.density = Density(brief)

\* the planned boxes are those of the brief, to the end
LEMMA PlannedInvariant == Spec => []PlannedPart
<1>1. Init => PlannedPart BY DEF Init, PlannedPart
<1>2. DraftInv /\ PlannedPart /\ [Next]_vars => PlannedPart'
  <2> SUFFICES ASSUME DraftInv, PlannedPart, [Next]_vars PROVE PlannedPart' OBVIOUS
  <2>1. CASE BuildPlan BY <2>1 DEF BuildPlan, TemplatePlan, PlannedPart
  <2>2. CASE EmitRefinement
    <3>1. GoodPlan(brief, plan) /\ pc # "plan" /\ brief' = brief
      BY <2>2 DEF DraftInv, PlanPart, EmitRefinement
    <3>2. plan' = plan \/ plan' = ApplyPatch(plan, judge.operations)
      BY <2>2 DEF EmitRefinement
    <3>3. /\ ApplyPatch(plan, judge.operations).planned = plan.planned
          /\ ApplyPatch(plan, judge.operations).density = plan.density
      BY <3>1, PatchKeeps
    <3>4. plan'.planned = plan.planned /\ plan'.density = plan.density
      BY <3>2, <3>3
    <3>5. QED BY <3>1, <3>4 DEF PlannedPart
  <2>3. CASE UNCHANGED <<brief, plan>> /\ (pc = "plan" => pc' = "plan")
    BY <2>3 DEF PlannedPart
  <2>4. QED
    BY <2>1, <2>2, <2>3 DEF Next, PrepareExecution, RunStage, JudgeScene, SaveDraft,
                            PrepareFinalize, Finalize, vars
<1>3. QED BY <1>1, <1>2, DraftInvariant, PTL DEF Spec

\* On a preset canvas a headline of one line leaves the planned copy apart, for every
\* brief; only an airy stack is too tall for the wide canvas.
THEOREM CopyStackIsClear == Spec => []CopyStackClear
<1>1. DraftInv /\ PlannedPart => CopyStackClear
  <2> SUFFICES ASSUME DraftInv, PlannedPart, pc # "plan", PresetCanvas, brief.headline <= 24,
                      ~(plan.density = "airy" /\ brief.height = 628)
               PROVE  \A a, b \in DOMAIN plan.planned :
                        a # b => ~BoundsOverlap(plan.planned[a], plan.planned[b])
    BY DEF CopyStackClear
  <2>1. plan.planned = PlannedBounds(brief) /\ plan.density = Density(brief)
    BY DEF PlannedPart
  <2>2. brief \in BriefRecords BY DEF DraftInv, PlanPart
  <2>3. QED BY <2>1, <2>2, PlannedApart DEF PresetCanvas
<1>2. QED BY DraftInvariant, PlannedInvariant, <1>1, PTL
=============================================================================

---------------------------- MODULE TemplatePlan ----------------------------
(***************************************************************************)
(* How the agent worker turns a brief into a concrete plan: the layout     *)
(* mode, the photo branch, the graphic roles, the copy slots, their anchors *)
(* and boxes, and the preflight verdict.  A brief is what the planner, the *)
(* catalogues and the editor's client decide:                              *)
(*   width, height  the canvas                                             *)
(*   policy         the primary visual policy of the asset policy          *)
(*   general        domain general_marketing without a menu type           *)
(*   badgeLed       layoutIntent = "badge_led"                             *)
(*   photo          the best photo candidate: one of Photos                *)
(*   candidates     the number of distinct decoration candidates           *)
(*   family, density, drafted, headline, weakCta                           *)
(*                  the drafts: layout family, density, the optional copy  *)
(*                  slots with text, the length of the headline, whether   *)
(*                  its cta is one the preflight calls weak                *)
(*   otherWarning   any warning of the preflight or of the sources that    *)
(*                  the later judge does not look at                       *)
(*   names          the client reports the layers it made in its acks      *)
(***************************************************************************)
EXTENDS LayoutGeometry, Sequences

When(condition, elements) == IF condition THEN elements ELSE {}

Modes == {"left_copy_right_graphic", "framed_promo", "center_stack_promo",
          "badge_promo_stack", "copy_left_with_right_decoration",
          "copy_left_with_right_photo", "center_stack", "badge_led"}
Families == {"promo_split", "promo_center", "promo_badge", "promo_frame", "subject_hero"}
Policies == {"graphic_preferred", "photo_preferred", "balanced"}
Densities == {"airy", "balanced", "dense"}
OptionalSlots == CopySlots \ {"headline", "cta"}

\* none or not usable; then by how far its fit is behind the decoration's:
\* by at most 0.03, by at most 0.08, by more
Photos == {"not_allowed", "none", "not_executable", "portrait", "close", "behind", "far"}

\* the briefs the planner and the drafts can come up with
BriefRecords ==
  [width : Nat \ {0}, height : Nat \ {0}, policy : Policies, general : BOOLEAN,
   badgeLed : BOOLEAN, photo : Photos, candidates : Nat \ {0}, family : Families,
   density : Densities, drafted : SUBSET OptionalSlots, headline : Nat,
   weakCta : BOOLEAN, otherWarning : BOOLEAN, names : BOOLEAN]

(* --- Selection: layoutCandidateSet.ts, selectTemplateComposition.ts ------ *)

\* deriveCanvasPreset
CanvasPreset(width, height) ==
  CASE <<width, height>> = <<1200, 628>>  -> "wide_1200x628"
    [] <<width, height>> = <<1080, 1080>> -> "square_1080"
    [] <<width, height>> = <<1080, 1920>> -> "story_1080x1920"
    [] OTHER -> "custom"

\* createLayoutCandidateSet: every mode is offered, the photo layout can be
\* executed on a canvas that is not taller than wide
PhotoLayoutAllowed(brief) == brief.width >= brief.height

\* Seeded fault: a graphic promo starts from the frame.
FramedFirst(brief) ==
  IF brief.policy = "graphic_preferred" THEN <<"framed_promo", "center_stack_promo">>
                                        ELSE <<"copy_left_with_right_decoration">>

\* resolvePreferredLayoutModes
PreferredModes(brief) ==
  LET wide == CanvasPreset(brief.width, brief.height) \in {"wide_1200x628", "custom"}
      graphic == brief.policy = "graphic_preferred"
  IN CASE brief.badgeLed ->
            <<"badge_promo_stack", "badge_led", "center_stack_promo", "center_stack">>
       [] ~brief.badgeLed /\ graphic /\ wide ->
            <<"left_copy_right_graphic", "framed_promo", "center_stack_promo",
              "copy_left_with_right_decoration", "center_stack">>
       [] ~brief.badgeLed /\ graphic /\ ~wide ->
            <<"center_stack_promo", "framed_promo", "center_stack", "badge_promo_stack">>
       [] ~brief.badgeLed /\ ~graphic /\ wide ->
            <<"copy_left_with_right_decoration", "left_copy_right_graphic",
              "center_stack_promo", "center_stack">>
       [] OTHER -> <<"center_stack_promo", "center_stack", "badge_promo_stack">>

\* pickBaseLayout: the first preferred mode among the offered base layouts
BaseMode(brief) ==
  LET preferred == PreferredModes(brief)
      Offered(i) == preferred[i] \in Modes \ {"copy_left_with_right_photo"}
  IN  preferred[CHOOSE i \in DOMAIN preferred :
                  Offered(i) /\ \A j \in DOMAIN preferred : Offered(j) => i <= j]

\* decidePhotoBranch
PhotoSelected(brief) ==
  /\ brief.photo \notin {"not_allowed", "none"}
  /\ CanvasPreset(brief.width, brief.height) = "wide_1200x628"
  /\ BaseMode(brief) = "copy_left_with_right_decoration"
  /\ PhotoLayoutAllowed(brief)
  /\ brief.photo \notin {"not_executable", "portrait"}
  /\ \/ brief.photo = "close"
     \/ brief.photo = "behind" /\ brief.policy = "photo_preferred"

LayoutMode(brief) ==
  IF PhotoSelected(brief) THEN "copy_left_with_right_photo" ELSE BaseMode(brief)

\* buildGraphicCompositionSet: candidates 1..n, the best first.  A role takes the
\* candidate meant for it, or the first unused one when that one is taken and may
\* not be used twice, or is dropped (0) when there is none left
CanReuse(n) == n < 4

GraphicRoles(n, mode) ==
  LET Take(used, meant, reuse) ==
        IF reuse \/ meant \notin used THEN meant
        ELSE IF 1..n \ used = {} THEN 0
        ELSE CHOOSE c \in 1..n \ used : \A d \in 1..n \ used : c <= d
      container == Take({1}, Least(2, n), n < 2)
      secondary == Take({1, container}, IF n >= 3 THEN 3 ELSE 1, CanReuse(n))
      corner == Take({1, container, secondary}, IF n >= 4 THEN 4 ELSE Least(2, n), CanReuse(n))
  IN  {"primary_accent"}
      \cup When(container # 0, {"cta_container"})
      \cup When(secondary # 0, {"secondary_accent"})
      \cup When(corner # 0, {"corner_accent"})
      \cup When(mode \in {"badge_promo_stack", "badge_led"}, {"badge_or_ribbon"})
      \cup When(mode = "framed_promo", {"frame"})

\* buildPhotoSupportGraphicCompositionSet, or the graphic set
Roles(brief) ==
  IF PhotoSelected(brief) THEN {"cta_container", "corner_accent"}
  ELSE GraphicRoles(brief.candidates, BaseMode(brief))

Decoration(brief) ==
  CASE PhotoSelected(brief) -> "photo_support"
    [] ~PhotoSelected(brief) /\ Cardinality(Roles(brief)) >= 3 -> "promo_multi_graphic"
    [] OTHER -> "graphic_cluster"

\* resolveRoleZonePreference
ZonePreference(role, mode) ==
  CASE role = "frame" -> "frame"
    [] role = "cta_container" ->
         IF mode = "badge_promo_stack" THEN "center_cluster" ELSE "bottom_strip"
    [] role = "badge_or_ribbon" -> "bottom_strip"
    [] role = "corner_accent" -> "top_corner"
    [] OTHER -> IF mode \in {"center_stack", "center_stack_promo", "badge_promo_stack", "badge_led"}
                THEN "center_cluster" ELSE "right_cluster"

(* --- The drafts: buildCopyAndAbstractLayoutPlan.ts ----------------------- *)

\* isGenericPromoIntent
Generic(brief) == brief.general /\ brief.policy = "graphic_preferred"

\* normalizeCopyPlanSlots: the headline and the cta are always there
Slots(brief) == {"headline", "cta"} \cup brief.drafted

\* the slots the copy drafts mark as required
RequiredSlots(brief) == Slots(brief) \ {"footer_note", "badge_text"}

\* normalizeAbstractLayoutDraft: a generic promo has no subject, the anchors
\* follow the repaired family, a badge-led brief ends as a dense promo_badge
RepairedFamily(brief) ==
  IF Generic(brief) /\ brief.family = "subject_hero"
  THEN IF brief.badgeLed THEN "promo_badge" ELSE "promo_split"
  ELSE brief.family

LayoutFamily(brief) == IF brief.badgeLed THEN "promo_badge" ELSE RepairedFamily(brief)

Density(brief) ==
  IF brief.badgeLed /\ RepairedFamily(brief) # "promo_badge" THEN "dense" ELSE brief.density

(* --- The concrete layout: buildConcreteLayoutPlan.ts --------------------- *)

\* resolveLayoutMode
ResolvedMode(brief) ==
  CASE LayoutFamily(brief) = "promo_center" ->
         IF LayoutMode(brief) = "badge_led" THEN "center_stack" ELSE "center_stack_promo"
    [] LayoutFamily(brief) = "promo_badge" -> "badge_promo_stack"
    [] LayoutFamily(brief) = "promo_frame" -> "framed_promo"
    [] OTHER -> IF PhotoSelected(brief) THEN "copy_left_with_right_photo"
                                        ELSE "left_copy_right_graphic"

\* resolveSlotAnchors and the slotAnchors of the plan
SlotAnchors(brief) ==
  LET centered == RepairedFamily(brief) = "promo_center"
      copy == IF centered THEN "center_copy_stack"
              ELSE IF LayoutFamily(brief) = "promo_frame" THEN "framed_copy_column"
              ELSE "left_copy_column"
      slots == {"headline", "subheadline", "cta", "footer_note"}
                 \cup (Slots(brief) \cap {"offer_line", "badge_text"})
  IN  [slot \in slots |->
         CASE slot = "cta" -> IF centered THEN "bottom_center" ELSE copy
           [] slot = "footer_note" -> "footer_strip"
           [] slot = "badge_text"  -> "top_badge_band"
           [] OTHER -> copy]

\* the page createGeometryPresets is called with, here and when a stage is emitted
PageOf(brief, mode, spacing) ==
  [width |-> brief.width, height |-> brief.height, profile |-> LayoutFamily(brief),
   mode |-> mode, decoration |-> Decoration(brief),
   headlineHeight |-> TextHeight(Least(48, brief.headline)), spacing |-> spacing]

\* buildResolvedSlotBounds
PlannedBounds(brief) ==
  LET page == PageOf(brief, ResolvedMode(brief), Density(brief))
  IN  [slot \in DOMAIN SlotAnchors(brief) |-> AnchorBox(page, SlotAnchors(brief)[slot], slot)]

\* resolveClusterZones
ClusterZones(brief) ==
  CASE LayoutFamily(brief) \in {"promo_center", "promo_badge"} ->
         {"center_cluster", "top_corner", "bottom_strip"}
    [] LayoutFamily(brief) = "promo_frame" ->
         {"frame", "right_cluster", "top_corner", "bottom_strip"}
    [] LayoutFamily(brief) = "subject_hero" /\ PhotoSelected(brief) ->
         {"hero_panel", "top_corner", "bottom_strip"}
    [] OTHER -> {"right_cluster", "top_corner", "bottom_strip"}

\* resolvePlacementZone: every set of zones has a bottom_strip, a top_corner and
\* one zone for the main graphics
MainZone(zones) == CHOOSE zone \in zones \ {"top_corner", "bottom_strip", "frame"} : TRUE

PlacementZone(zones, role, preferred) ==
  CASE preferred \in zones -> preferred
    [] preferred \notin zones /\ role = "corner_accent" -> "top_corner"
    [] preferred \notin zones /\ role = "badge_or_ribbon" -> "bottom_strip"
    [] preferred \notin zones /\ role = "cta_container" ->
         IF MainZone(zones) = "hero_panel" THEN "bottom_strip" ELSE MainZone(zones)
    [] OTHER -> MainZone(zones)

(* --- The preflight: ruleJudge.ts, ruleJudgeStructuralDetectors.ts -------- *)

\* hasResolvedSlotBoundsConflict: over the boxes of the plan, drafted or not
PlannedConflict(planned) ==
  \E a, b \in DOMAIN planned \ {"badge_text"} :
    a # b /\ BoundsOverlap(planned[a], planned[b])

\* detectGraphicPromoStructureIssues, the two issues the later judge looks at
StructureIssues(brief) ==
  LET thin == Cardinality(Roles(brief)) < 4
      graphic == ~PhotoSelected(brief) /\ brief.policy = "graphic_preferred"
  IN  When(graphic /\ (\/ LayoutMode(brief) = "center_stack"
                       \/ LayoutMode(brief) = "center_stack_promo" /\ thin),
           {"cta_copy_overlap_risk"})
      \cup When(graphic /\ thin /\ LayoutMode(brief) \in {"center_stack", "center_stack_promo"},
                {"excessive_empty_space"})

\* ruleJudgeCreateTemplate: a verdict with a warning recommends to refine
PreflightIssues(brief) ==
  When(brief.headline >= 28 - 2, {"headline_overflow_risk"})
  \cup When(brief.weakCta, {"cta_missing_or_weak"})
  \cup When(PlannedConflict(PlannedBounds(brief)), {"concrete_layout_slot_conflict"})
  \cup StructureIssues(brief)
  \cup When(brief.badgeLed /\ LayoutMode(brief) # "badge_led", {"layout_intent_mismatch"})
  \cup When(brief.policy = "photo_preferred" /\ ~PhotoSelected(brief),
            {"photo_preference_unmet"})
  \cup When(brief.otherWarning, {"other_warning"})

(* --- The executable plan: buildExecutablePlan.ts ------------------------- *)

\* everything the later phases read; refinement changes anchors and spacing only
TemplatePlan(brief) ==
  [slots |-> Slots(brief), required |-> RequiredSlots(brief),
   roles |-> Roles(brief), photo |-> PhotoSelected(brief),
   anchors |-> SlotAnchors(brief), planned |-> PlannedBounds(brief),
   heroImage |-> LayoutBox(PageOf(brief, ResolvedMode(brief), Density(brief)), "heroPanel"),
   zones |-> ClusterZones(brief),
   hints |-> [role \in Roles(brief) |->
                PlacementZone(ClusterZones(brief), role, ZonePreference(role, LayoutMode(brief)))],
   page |-> PageOf(brief, LayoutMode(brief), Density(brief)),
   ctaContainerExpected |-> ~PhotoSelected(brief) \/ "cta_container" \in Roles(brief),
   density |-> Density(brief),
   preflight |-> PreflightIssues(brief),
   includeBadge |-> "badge_text" \in Slots(brief) \/ "badge_or_ribbon" \in Roles(brief),
   includeHeroCaption |-> PhotoSelected(brief) /\ LayoutFamily(brief) = "subject_hero",
   includeHeroPanel |-> ~PhotoSelected(brief) /\ LayoutFamily(brief) = "subject_hero",
   includeFrame |-> LayoutFamily(brief) = "promo_frame" \/ "frame" \in Roles(brief),
   includeRibbon |-> "badge_or_ribbon" \in Roles(brief)]
=============================================================================

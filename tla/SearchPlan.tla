----------------------------- MODULE SearchPlan -----------------------------
(***************************************************************************)
(* From a normalized intent to the queries that are sent to the catalogue: *)
(* the template prior (buildTemplatePriorSummary.ts) and the search        *)
(* profile (buildSearchProfile.ts), and what the rule judge compares the   *)
(* profile with (ruleJudgeSelectionContext.ts).  No theme serial, price or *)
(* owner is ever set in this version; summaries and rationales, the fonts  *)
(* and the background's own queries are left out.                          *)
(***************************************************************************)
EXTENDS IntentRepair

Or(keyword, default) == IF keyword = None THEN default ELSE keyword
FirstKeyword(intent) == IF intent.keywords = <<>> THEN None ELSE intent.keywords[1]

\* isGenericPromoIntent, the same in both files
GenericPromo(intent) ==
  /\ intent.domain = "general_marketing" /\ intent.menuType = None
  /\ intent.style \in {"sale_campaign", "general_campaign"}

\* hasMenuSignal: drinks are no menu
MenuSignal == MenuStem \cup {"brunch"}
FashionWords == {"fashion", "style"}

(* --- The template prior -------------------------------------------------- *)

\* findKeyword of buildTemplatePriorSummary: in the order of the candidates
PriorOf(intent, candidates) ==
  First(candidates, ToSet(intent.keywords))

SaleWord(intent) == Or(PriorOf(intent, <<"sale", "coupon">>), "sale")
DrinkWord(intent) == Or(PriorOf(intent, <<"new-menu", "drink", "latte">>), "drink")
FoodWord(intent) == Or(PriorOf(intent, <<"new-menu", "menu", "brunch">>), "menu")

\* deriveTemplatePriorKeyword
PriorKeyword(intent) ==
  IF intent.seasonality = "spring" /\ "spring" \in ToSet(intent.keywords) THEN "spring"
  ELSE IF intent.style = "sale_campaign" THEN SaleWord(intent)
  ELSE IF GenericPromo(intent)
       THEN Or(PriorOf(intent, <<"promotion", "event">>), FirstKeyword(intent))
  ELSE IF intent.menuType = "drink_menu" THEN DrinkWord(intent)
  ELSE IF intent.menuType = "food_menu" THEN FoodWord(intent)
  ELSE IF intent.domain = "fashion_retail" THEN Or(PriorOf(intent, <<"fashion">>), "fashion")
  ELSE FirstKeyword(intent)

Only(condition, keyword) == IF condition THEN <<keyword>> ELSE <<>>

\* collectTemplatePriorCandidateInputs
PriorCandidates(intent) ==
  Distinct(Only(intent.seasonality = "spring", "spring")
           \o Only(intent.style = "sale_campaign", SaleWord(intent))
           \o Only(intent.menuType = "drink_menu", DrinkWord(intent))
           \o Only(intent.menuType = "food_menu", FoodWord(intent))
           \o Only(intent.domain = "fashion_retail",
                   Or(PriorOf(intent, <<"fashion">>), "fashion"))
           \o SubSeq(intent.keywords, 1, IF intent.keywords = <<>> THEN 0 ELSE 1))

\* deriveTemplateCategorySerial, deriveTemplatePriorStatus
PriorStatus(intent, preset, keyword) ==
  IF preset = "custom" \/ keyword = None THEN "unavailable"
  ELSE IF intent.templateKind = "seasonal_sale_banner" \/ preset = "wide_1200x628"
       THEN "competitive_only" ELSE "supportive_only"

\* determineDominantThemePrior
DominantPrior(intent, status) ==
  IF status # "unavailable" THEN "template_prior"
  ELSE IF intent.seasonality = "spring" \/ "spring" \in ToSet(intent.keywords)
       THEN "contents_theme_prior" ELSE "none"

\* buildTemplatePriorSummary
PriorSummary(intent, preset) ==
  LET status == PriorStatus(intent, preset, PriorKeyword(intent))
  IN  [keyword |-> PriorKeyword(intent), candidates |-> PriorCandidates(intent),
       status |-> status, dominant |-> DominantPrior(intent, status)]

(* --- The search profile -------------------------------------------------- *)

RetailMenuFlags ==
  {"fashion_menu_photo_contradiction", "menu_type_domain_conflict",
   "promotion_style_domain_conflict", "search_keyword_subject_drift"}

\* what both patterns below are matched against
SignalWords(intent) == ToSet(intent.goalSummary.words) \cup ToSet(intent.keywords)

\* hasFashionRetailMenuContradiction
RetailContradiction(intent, flags) ==
  /\ intent.domain = "fashion_retail"
  /\ \/ intent.menuType # None
     \/ intent.style = "seasonal_menu_launch"
     \/ intent.campaignGoal = "menu_discovery"
     \/ flags \cap RetailMenuFlags # {}
     \/ SignalWords(intent) \cap MenuSignal # {}

\* deriveSubjectKeyword
SubjectKeyword(intent, contradiction) ==
  IF GenericPromo(intent) THEN None
  ELSE IF contradiction THEN Or(First(intent.keywords, FashionWords), "fashion")
  ELSE IF intent.menuType = "food_menu"
       THEN Or(First(intent.keywords, {"menu", "brunch"}), "menu")
  ELSE IF intent.menuType = "drink_menu"
       THEN Or(First(intent.keywords, {"drink", "latte"}), "drink")
  ELSE IF intent.domain = "fashion_retail"
       THEN Or(First(intent.keywords, FashionWords), "fashion")
  ELSE First(intent.keywords, Vocabulary \ {"spring"})

\* derivePromotionKeyword; every list is searched in the order of the keywords
PromotionKeyword(intent, contradiction) ==
  IF GenericPromo(intent)
  THEN Or(First(intent.keywords, {"sale", "coupon", "event", "promotion"}),
          First(intent.keywords,
                Vocabulary \ ({"spring", "fashion", "diner", "cafe"} \cup MenuSignal)))
  ELSE IF contradiction
       THEN Or(First(intent.keywords, {"sale", "coupon", "promotion", "new-item", "launch",
                                       "launching"}), "sale")
  ELSE CASE intent.style = "seasonal_menu_launch" ->
              Or(First(intent.keywords, {"new-menu", "launch", "launching"}), "new-menu")
         [] intent.style = "new_product_promo" ->
              Or(First(intent.keywords, {"promotion", "new-item", "launch", "launching"}),
                 "promotion")
         [] intent.style = "sale_campaign" ->
              Or(First(intent.keywords, {"sale", "coupon"}), "sale")
         [] intent.style = "general_campaign" -> None

Points(condition, n) == IF condition THEN n ELSE 0

\* deriveShapeTypePlan, as the types to ask for in their order
ShapeTypes(intent, words) ==
  LET vector == Points(intent.layoutIntent = "badge_led", 1)
                + Points(intent.templateKind = "seasonal_sale_banner", 1)
                + Points(intent.domain = "fashion_retail", 1)
                + Points("icon" \in words, 2) + Points("calligraphy" \in words, 1)
      bitmap == Points("bitmap" \in words, 2) + Points("calligraphy" \in words, 1)
  IN  IF bitmap > vector
      THEN IF vector > 0 THEN <<"bitmap", "vector">> ELSE <<"bitmap">>
      ELSE IF bitmap > 0 THEN <<"vector", "bitmap">> ELSE <<"vector">>

\* deriveShapeMethod: conflicting cues leave the method open
ShapeMethod(words) ==
  IF ({"ai-made", "creator"} \cap words) \in {{}, {"ai-made", "creator"}} THEN None
  ELSE IF "ai-made" \in words THEN "ai" ELSE "creator"

\* deriveGraphicCategoryName
ShapeCategory(words, types) ==
  IF "calligraphy" \in words THEN "calligraphy"
  ELSE IF "icon" \in words THEN "icon"
  ELSE IF types[1] = "bitmap" THEN "bitmap" ELSE "illust"

Query(label, keyword, type) == [label |-> label, keyword |-> keyword, type |-> type]

\* pushQuery: a query that differs from an earlier one in its label only is dropped
DistinctQueries(queries) ==
  Picked(queries,
    {i \in DOMAIN queries :
       \A j \in 1 .. (i - 1) : \/ queries[j].keyword # queries[i].keyword
                              \/ queries[j].type # queries[i].type})

\* buildShapeQueries; method and category are those of the profile
ShapeQueries(types, primary, prior, subject, seasonal) ==
  DistinctQueries(
    [i \in DOMAIN types |->
       Query(IF i = 1 THEN "shape_primary_keyword" ELSE "shape_primary_type_repair",
             primary, types[i])]
    \o <<Query("shape_template_prior_support", prior, types[1]),
         Query("shape_subject_fallback", subject, types[1]),
         Query("shape_seasonal_fallback", seasonal, types[1])>>)

\* derivePhotoType
PhotoType(intent) ==
  IF /\ intent.layoutIntent = "hero_focused" /\ intent.campaignGoal = "product_trial"
     /\ intent.specificity = "single_product"
  THEN "rmbg" ELSE "pic"

\* a subject leads the picture query when it is a menu or when pictures are preferred;
\* a contradiction leaves the preference to decide
SubjectLeads(intent, contradiction) ==
  \/ PrefersPhoto(intent.assetPolicy)
  \/ ~contradiction /\ intent.menuType # None

PhotoKeyword(intent, contradiction, promotion, subject, season, others) ==
  IF GenericPromo(intent) THEN Or(promotion, Or(season, others))
  ELSE IF SubjectLeads(intent, contradiction) THEN Or(subject, Or(promotion, others))
  ELSE Or(promotion, Or(subject, others))

PhotoQueries(keyword, seasonal, type) ==
  <<Query("photo_primary_keyword", keyword, type),
    Query("photo_seasonal_fallback", seasonal, type),
    Query("photo_format_fallback", None, type)>>

\* the picture lane, closed when the policy does not allow pictures
PhotoLane(intent, keyword, seasonal) ==
  IF AllowsFamily(intent.assetPolicy, "photo")
  THEN PhotoQueries(keyword, seasonal, PhotoType(intent)) ELSE <<>>

ProfileWith(intent, contradiction, promotion, subject, prior, season, words) ==
  LET types == ShapeTypes(intent, words)
      first == FirstKeyword(intent)
      background == Or(season, Or(promotion, Or(subject, Or(prior, first))))
  IN  [carried     |-> [field \in DOMAIN intent \ {"goalSummary", "assetPolicy"} |-> intent[field]],
       assetPolicy |-> NormalizePolicy(intent.assetPolicy),
       method      |-> ShapeMethod(words),
       category    |-> ShapeCategory(words, types),
       graphic     |-> ShapeQueries(types,
                         Or(promotion, Or(subject, Or(prior, Or(season, first)))),
                         prior, subject, Or(season, first)),
       photo       |-> PhotoLane(intent,
                         PhotoKeyword(intent, contradiction, promotion, subject, season,
                                      Or(prior, background)),
                         Or(season, first))]

\* buildSearchProfile
SearchProfile(intent, flags, prior) ==
  LET contradiction == RetailContradiction(intent, flags)
  IN  ProfileWith(intent, contradiction, PromotionKeyword(intent, contradiction),
                  SubjectKeyword(intent, contradiction), prior,
                  IF intent.seasonality = "spring" THEN "spring" ELSE None,
                  SignalWords(intent))

(* --- What the judge compares --------------------------------------------- *)

\* collectSearchProfileContractMismatches; canvas and tone are copied the same way
ContractMismatches(intent, profile) ==
  {field \in DOMAIN profile.carried : profile.carried[field] # intent[field]}
  \cup {field \in {"assetPolicy"} : profile[field] # intent[field]}

Keywords(queries) == {queries[i].keyword : i \in DOMAIN queries} \ {None}
=============================================================================

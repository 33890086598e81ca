---------------------------- MODULE IntentRepair ----------------------------
(***************************************************************************)
(* From a prompt to a normalized intent: the heuristic planner             *)
(* (heuristicTemplatePlanner.ts) and the repair of a planner's draft       *)
(* (intentRepairPipeline.ts, intentInference.ts, intentKeywords.ts).       *)
(*                                                                         *)
(* A text is a sequence of words, a word a member of Vocabulary: one for   *)
(* every class of Korean words the code's tables and patterns tell apart.  *)
(* A pattern is the set of words it occurs in, a keyword table the set of  *)
(* words it lists.  "menu!" is a word with punctuation, "--" nothing but   *)
(* punctuation, "spring-menu" a compound that contains two stems and is in *)
(* no table, "overlong" a word of more than 20 characters.                 *)
(***************************************************************************)
EXTENDS AssetPolicy

None == "none"

Vocabulary ==
  {"spring", "sale", "coupon", "event", "promotion", "new-menu", "new-item", "launch",
   "launching", "diner", "cafe", "fashion", "style", "drink", "latte", "menu", "menu!",
   "brunch", "spring-menu", "icon", "bitmap", "calligraphy", "ai-made", "creator",
   "plain", "overlong", "--"}

Domains == {"restaurant", "cafe", "fashion_retail", "general_marketing"}
MenuTypes == {None, "food_menu", "drink_menu"}
Styles == {"seasonal_menu_launch", "new_product_promo", "sale_campaign", "general_campaign"}
Goals == {"menu_discovery", "product_trial", "sale_conversion", "promotion_awareness"}
Audiences == {"walk_in_customers", "local_visitors", "sale_shoppers", "general_consumers"}
LayoutIntents == {"copy_focused", "hero_focused", "badge_led"}
Kinds == {"promo_banner", "seasonal_sale_banner"}
Specificities == {"single_product", "multi_item", "broad_offer"}

\* A text and whether it is longer than 80 characters
Text(words, long) == [words |-> words, long |-> long]
Texts == [words : Seq(Vocabulary), long : BOOLEAN]
Mentions(words, pattern) == ToSet(words) \cap pattern # {}
First(keywords, table) ==
  LET hits == Kept(keywords, table)
  IN  IF hits = <<>> THEN None ELSE hits[1]

\* normalizeKeyword: punctuation is dropped; "--" becomes the empty keyword
NormalizeKeyword(word) == IF word = "menu!" THEN "menu" ELSE word

\* slice(0, 5)
FirstFive(keywords) == SubSeq(keywords, 1, IF Len(keywords) < 5 THEN Len(keywords) ELSE 5)

(* --- Patterns and tables ------------------------------------------------- *)

MenuStem == {"menu", "menu!", "new-menu", "spring-menu"}

\* menuDrivenPhotoSignalKeywords, fashionRetailBlockedKeywords, genericPromoBlockedKeywords
MenuDrivenKeywords == {"menu", "new-menu", "drink", "latte", "brunch"}
FashionBlockedKeywords == MenuDrivenKeywords \cup {"diner", "cafe"}
PromoBlockedKeywords == FashionBlockedKeywords \cup {"fashion", "style"}

\* menuDrivenPhotoSignalPattern, fashionRetailBlockedTextPattern
MenuDrivenPattern == MenuStem \cup {"drink", "latte", "brunch"}
FashionBlockedPattern == MenuDrivenPattern \cup {"diner", "cafe"}

\* extractPromptSignals
Signals(prompt) ==
  [spring     |-> Mentions(prompt, {"spring", "spring-menu"}),
   sale       |-> Mentions(prompt, {"sale"}),
   event      |-> Mentions(prompt, {"event", "promotion"}),
   newness    |-> Mentions(prompt, {"new-menu", "new-item"}),
   launch     |-> Mentions(prompt, {"launch", "launching"}),
   badge      |-> Mentions(prompt, {"coupon"}),
   restaurant |-> Mentions(prompt, {"diner"}),
   cafe       |-> Mentions(prompt, {"cafe"}),
   fashion    |-> Mentions(prompt, {"fashion"}),
   drink      |-> Mentions(prompt, {"drink"}),
   menu       |-> Mentions(prompt, MenuStem \cup {"brunch"})]

(* --- The heuristic planner ----------------------------------------------- *)

\* inferDomain and deriveExplicitDomain look for the same words
ExplicitDomain(s) ==
  IF s.restaurant THEN "restaurant"
  ELSE IF s.cafe THEN "cafe"
  ELSE IF s.fashion THEN "fashion_retail"
  ELSE None

DomainOr(domain, default) == IF domain = None THEN default ELSE domain

\* inferPromotionStyle; unlike the prompt's signals it does not know "launching"
InferStyle(prompt, s, domain) ==
  IF s.sale THEN "sale_campaign"
  ELSE IF s.newness /\ domain \in {"cafe", "restaurant"} THEN "seasonal_menu_launch"
  ELSE IF s.newness \/ Mentions(prompt, {"launch"}) THEN "new_product_promo"
  ELSE "general_campaign"

\* inferMenuType; it does not know "brunch"
InferMenuType(prompt, s, domain) ==
  IF s.drink THEN "drink_menu"
  ELSE IF domain = "restaurant" \/ Mentions(prompt, MenuStem) THEN "food_menu"
  ELSE None

\* inferCampaignGoal and deriveCampaignGoal, inferAudience and deriveAudience
CampaignGoal ==
  [seasonal_menu_launch |-> "menu_discovery", new_product_promo |-> "product_trial",
   sale_campaign |-> "sale_conversion", general_campaign |-> "promotion_awareness"]
Audience ==
  [restaurant |-> "walk_in_customers", cafe |-> "local_visitors",
   fashion_retail |-> "sale_shoppers", general_marketing |-> "general_consumers"]

KindOf(style) == IF style = "sale_campaign" THEN "seasonal_sale_banner" ELSE "promo_banner"
SpecificityOf(style, menuType) ==
  IF style = "sale_campaign" THEN "broad_offer"
  ELSE IF menuType = None THEN "multi_item" ELSE "single_product"

DomainWord ==
  [restaurant |-> "diner", cafe |-> "cafe", fashion_retail |-> "fashion",
   general_marketing |-> "promotion"]
StyleWords ==
  [seasonal_menu_launch |-> <<"new-menu">>, new_product_promo |-> <<"promotion">>,
   sale_campaign |-> <<"sale">>, general_campaign |-> <<>>]
MenuWords == [none |-> <<>>, food_menu |-> <<"menu">>, drink_menu |-> <<"drink">>]

\* inferSearchKeywords: spring first, whatever was asked; the prompt's words fill up
\* to five.  The word for spring has one character and is not taken from the prompt
InferKeywords(prompt, domain, style, menuType) ==
  LET tokens == Kept([i \in DOMAIN prompt |-> NormalizeKeyword(prompt[i])],
                     Vocabulary \ {"--", "spring"})
  IN  FirstFive(Distinct(<<"spring", DomainWord[domain]>> \o MenuWords[menuType]
                         \o StyleWords[style] \o tokens))

InferLayoutIntent(s, domain, style) ==
  IF s.badge THEN "badge_led"
  ELSE IF domain = "cafe" \/ style = "new_product_promo" THEN "hero_focused"
  ELSE "copy_focused"

\* the heuristic draft without its copy and layout drafts
HeuristicDraftOf(prompt, s, domain, style, menuType) ==
  [goalSummary  |-> prompt,
   domain       |-> domain,
   audience     |-> Audience[domain],
   campaignGoal |-> CampaignGoal[style],
   templateKind |-> KindOf(style),
   layoutIntent |-> InferLayoutIntent(s, domain, style),
   assetPolicy  |-> IF domain = "cafe" \/ menuType # None THEN PhotoFirst ELSE GraphicFirst,
   keywords     |-> InferKeywords(prompt.words, domain, style, menuType),
   seasonality  |-> IF s.spring THEN "spring" ELSE None,
   menuType     |-> menuType,
   style        |-> style,
   specificity  |-> SpecificityOf(style, menuType)]

\* createHeuristicTemplatePlanner's plan
HeuristicDraft(prompt) ==
  LET s      == Signals(prompt.words)
      domain == DomainOr(ExplicitDomain(s), "general_marketing")
  IN  HeuristicDraftOf(prompt, s, domain, InferStyle(prompt.words, s, domain),
                       InferMenuType(prompt.words, s, domain))

\* Seeded fault: the planner's policy is passed on as it came.
PolicyAsAnswered(answer) ==
  [answer EXCEPT !.keywords =
     IF "spring" \in ToSet(@) THEN @ ELSE FirstFive(<<"spring">> \o @)]

\* createLangChainTemplatePlanner's plan, from the model's answer
CompletedAnswer(answer) ==
  [answer EXCEPT
     !.assetPolicy = NormalizePolicy(@),
     !.keywords = IF "spring" \in ToSet(@) THEN @ ELSE FirstFive(<<"spring">> \o @)]

\* TemplateIntentDraftSchema, the parts that a planner can miss: a goal summary of 1
\* to 80 characters and keywords of at most 20
DraftFits(draft) ==
  /\ draft.goalSummary.words # <<>> /\ ~draft.goalSummary.long
  /\ Len(draft.keywords) \in 1..5
  /\ "overlong" \notin ToSet(draft.keywords)

(* --- The repair ---------------------------------------------------------- *)

\* shouldPreferGraphicPromoStructure
PromoFocus(s, draft) ==
  /\ ~s.restaurant /\ ~s.cafe /\ ~s.fashion
  /\ ~s.menu /\ ~s.drink /\ ~s.newness
  /\ s.sale \/ s.event \/ draft.style \in {"sale_campaign", "general_campaign"}

RepairedDomain(s, promo, drafted) ==
  DomainOr(ExplicitDomain(s), IF promo THEN "general_marketing" ELSE drafted)

\* deriveExpectedMenuType
ExpectedMenuType(s, domain) ==
  IF domain \notin {"restaurant", "cafe"} THEN None
  ELSE IF s.drink THEN "drink_menu"
  ELSE IF s.menu \/ s.newness THEN "food_menu"
  ELSE None

\* Seeded fault: only a generic promo loses its menu.
KeepMenuOfFashion(s, promo, domain, drafted) ==
  IF promo THEN None
  ELSE IF ExpectedMenuType(s, domain) # None THEN ExpectedMenuType(s, domain)
  ELSE drafted

RepairedMenuType(s, promo, domain, drafted) ==
  IF promo \/ domain = "fashion_retail" THEN None
  ELSE IF ExpectedMenuType(s, domain) # None THEN ExpectedMenuType(s, domain)
  ELSE drafted

\* deriveExpectedPromotionStyle; what was drafted does not count
RepairedStyle(s, domain, menuType, heuristic) ==
  IF s.sale THEN "sale_campaign"
  ELSE IF s.newness /\ menuType # None /\ domain \in {"restaurant", "cafe"}
       THEN "seasonal_menu_launch"
  ELSE IF s.newness \/ s.launch THEN "new_product_promo"
  ELSE heuristic

RepairedPolicy(promo, drafted) ==
  IF promo /\ NormalizePolicy(drafted).primary # "graphic_preferred"
  THEN GraphicFirst ELSE NormalizePolicy(drafted)

\* the keywords the repair drops
Blocked(promo, domain) ==
  (IF domain = "fashion_retail" THEN FashionBlockedKeywords ELSE {})
  \cup (IF promo THEN PromoBlockedKeywords ELSE {})

\* Seeded fault: only the planner's keywords are filtered, not the heuristic's.
FilterDraftedOnly(raw, heuristic, extra, blocked) ==
  FirstFive(Distinct(Kept([i \in DOMAIN raw |-> NormalizeKeyword(raw[i])],
                          Vocabulary \ (blocked \cup {"--"}))
                     \o heuristic \o extra))

\* buildNormalizedKeywords
NormalizedKeywords(raw, heuristic, extra, blocked) ==
  LET all == raw \o heuristic \o extra
  IN  FirstFive(Distinct(Kept([i \in DOMAIN all |-> NormalizeKeyword(all[i])],
                              Vocabulary \ (blocked \cup {"--"}))))

\* shouldResetGoalSummary, or a generic promo
RepairedSummary(promo, domain, drafted, prompt) ==
  IF \/ promo
     \/ domain = "fashion_retail" /\ Mentions(drafted.words, FashionBlockedPattern)
  THEN prompt ELSE drafted

\* collectFashionMenuPhotoContradictionFields, whether there is any
MenuDrivenDraft(draft) ==
  \/ \E i \in DOMAIN draft.keywords : NormalizeKeyword(draft.keywords[i]) \in MenuDrivenKeywords
  \/ Mentions(draft.goalSummary.words, MenuDrivenPattern)
  \/ draft.campaignGoal = "menu_discovery"
  \/ draft.style = "seasonal_menu_launch"

FlagIf(condition, code) == IF condition THEN {code} ELSE {}

\* the consistency flags of the repair of draft into intent
RepairFlags(s, promo, draft, intent) ==
  LET fashion == intent.domain = "fashion_retail"
  IN  FlagIf(ExplicitDomain(s) \notin {None, draft.domain}, "prompt_domain_signal_mismatch")
      \cup FlagIf(promo /\ draft.domain # "general_marketing", "generic_promo_domain_repair")
      \cup FlagIf(fashion /\ draft.menuType # None /\ MenuDrivenDraft(draft),
                  "fashion_menu_photo_contradiction")
      \cup FlagIf(fashion /\ draft.menuType # None, "menu_type_domain_conflict")
      \cup FlagIf(fashion /\ draft.style = "seasonal_menu_launch" /\ intent.style # draft.style,
                  "promotion_style_domain_conflict")
      \cup FlagIf(\E i \in DOMAIN draft.keywords :
                    NormalizeKeyword(draft.keywords[i]) \notin ToSet(intent.keywords),
                  "search_keyword_subject_drift")

\* the intent of a repair, from the parts that depend on one another
IntentOf(s, promo, domain, menuType, style, draft, heuristic, prompt) ==
  [goalSummary  |-> RepairedSummary(promo, domain, draft.goalSummary, prompt),
   domain       |-> domain,
   audience     |-> Audience[domain],
   campaignGoal |-> CampaignGoal[style],
   templateKind |-> KindOf(style),
   layoutIntent |-> IF s.badge THEN "badge_led" ELSE draft.layoutIntent,
   assetPolicy  |-> RepairedPolicy(promo, draft.assetPolicy),
   keywords     |-> NormalizedKeywords(draft.keywords, heuristic.keywords,
                      IF promo THEN <<>> ELSE MenuWords[menuType], Blocked(promo, domain)),
   seasonality  |-> IF s.spring THEN "spring" ELSE draft.seasonality,
   menuType     |-> menuType,
   style        |-> style,
   specificity  |-> SpecificityOf(style, menuType)]

\* repairTemplateIntentDraft: the domain first, what depends on it after it
Repair(s, promo, draft, heuristic, prompt) ==
  LET domain   == RepairedDomain(s, promo, draft.domain)
      menuType == RepairedMenuType(s, promo, domain, draft.menuType)
      style    == RepairedStyle(s, domain, menuType, heuristic.style)
  IN  IntentOf(s, promo, domain, menuType, style, draft, heuristic, prompt)

\* the fields recordRepair reports, the font hint and the colour apart.  A policy is
\* compared with the drafted one once that is normalized
\* (didCanonicalAssetPolicyMeaningfullyChange)
RepairedFields(draft, intent) ==
  {field \in DOMAIN draft \ {"assetPolicy"} : draft[field] # intent[field]}
  \cup {field \in {"assetPolicy"} : NormalizePolicy(draft[field]) # intent[field]}

\* the intent of a request that is no create_template
DefaultIntent(prompt, spring) ==
  [goalSummary |-> prompt, domain |-> "general_marketing", audience |-> "general_consumers",
   campaignGoal |-> "promotion_awareness", templateKind |-> "promo_banner",
   layoutIntent |-> "copy_focused", assetPolicy |-> GraphicFirst, keywords |-> <<"spring">>,
   seasonality |-> IF spring THEN "spring" ELSE None, menuType |-> None,
   style |-> "general_campaign", specificity |-> "multi_item"]
=============================================================================

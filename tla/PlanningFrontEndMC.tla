-------------------------- MODULE PlanningFrontEndMC --------------------------
(***************************************************************************)
(* The requests PlanningFrontEnd is checked with.  Each family varies the  *)
(* inputs that one part of the front end tells apart; only SearchRequests  *)
(* search a catalogue.                                                     *)
(***************************************************************************)
EXTENDS PlanningFrontEnd

Answer(domain, menuType, style, goal, keywords, summary, policy) ==
  [goalSummary |-> summary, domain |-> domain, audience |-> "general_consumers",
   campaignGoal |-> goal, templateKind |-> "promo_banner", layoutIntent |-> "hero_focused",
   assetPolicy |-> policy, keywords |-> keywords, seasonality |-> None,
   menuType |-> menuType, style |-> style, specificity |-> "single_product"]

Request(prompt, empty, preset, mode, answer, pictures, real) ==
  [prompt |-> prompt, empty |-> empty, preset |-> preset, mode |-> mode, answer |-> answer,
   pictures |-> pictures, real |-> real]

Asked(prompt, answer) ==
  Request(prompt, TRUE, "square_1080", "langchain", answer, TRUE, FALSE)

Short(words) == Text(words, FALSE)
Legacy(primary) == AssetPolicy("legacy", <<>>, <<>>, primary, <<>>)

PromptWords ==
  {"spring", "sale", "coupon", "event", "new-menu", "new-item", "launch", "launching",
   "diner", "cafe", "fashion", "style", "drink", "latte", "menu", "brunch", "spring-menu",
   "plain"}

\* one word, or one word after "fashion", "spring" or "event"
Prompts ==
  {Short(<<w>>) : w \in PromptWords}
  \cup {Short(<<v, w>>) : v \in {"fashion", "spring", "event"}, w \in PromptWords}

\* what the planner may have misread: every facet that the repair compares
FacetRequests ==
  {Asked(p, Answer(domain, menuType, style, goal, <<"spring", "menu", "style">>,
                   Short(<<"plain">>), Legacy("photo_preferred"))) :
     p \in Prompts, domain \in Domains, menuType \in MenuTypes, style \in Styles,
     goal \in {"menu_discovery", "promotion_awareness"}}

KeywordWords ==
  {"spring", "sale", "coupon", "promotion", "new-menu", "new-item", "launch", "diner",
   "fashion", "style", "latte", "menu!", "brunch", "spring-menu", "icon", "bitmap",
   "calligraphy", "ai-made", "creator", "overlong", "--"}

KeywordLists == {<<v>> : v \in KeywordWords} \cup (KeywordWords \X KeywordWords)

\* every pair of keywords for a business, a product, a promotion and neither
KeywordRequests ==
  {Asked(Short(p), Answer("fashion_retail", menuType, "general_campaign", "promotion_awareness", k,
                          Short(summary), Legacy("graphic_preferred"))) :
     p \in {<<"fashion">>, <<"fashion", "sale">>, <<"event", "latte">>,
             <<"cafe", "new-menu">>},
     menuType \in {None, "food_menu"}, k \in KeywordLists,
     summary \in {<<"plain">>, <<"brunch">>}}

FamilyLists ==
  {<<>>} \cup {<<f>> : f \in AssetFamilies}
  \cup {s \in AssetFamilies \X AssetFamilies : s[1] # s[2]}
  \cup {s \in AssetFamilies \X AssetFamilies \X AssetFamilies : Cardinality(ToSet(s)) = 3}

\* every policy without repetitions, for a promotion and for a café
PolicyRequests ==
  {Asked(Short(p), Answer("cafe", None, "new_product_promo", "product_trial", <<"spring">>,
                          Short(<<"plain">>),
                          AssetPolicy("structured", allowed, preferred, primary, avoid))) :
     p \in {<<"cafe">>, <<"event">>}, allowed \in FamilyLists, preferred \in FamilyLists,
     primary \in VisualPolicies \cup {Unset}, avoid \in {<<>>, <<"photo">>}}

\* a catalogue is searched; with two graphic types and with one
SearchRequests ==
  {Request(Short(p), TRUE, preset, "langchain",
           Answer("cafe", None, "new_product_promo", "product_trial", <<"spring", k>>,
                  Short(<<"plain">>), policy), pictures, TRUE) :
     p \in {<<"fashion", "sale">>, <<"event">>, <<"cafe", "menu">>, <<"plain", "launch">>},
     preset \in Presets, k \in {"calligraphy", "plain"},
     policy \in {Legacy("photo_preferred"),
                 AssetPolicy("structured", <<"graphic">>, <<>>, Unset, <<>>)},
     pictures \in BOOLEAN}

\* no model is asked or it does not answer, other operations, prompts at the limits
PromptRequests ==
  {Request(p, empty, "wide_1200x628", mode, Nothing, TRUE, FALSE) :
     p \in Prompts \cup {Short(<<>>), Text(<<"plain">>, TRUE), Short(<<"plain", "overlong">>)},
     empty \in BOOLEAN, mode \in {"heuristic", "langchain"}}

\* The set itself.  TLC sorts a set it filters, and joins sorted sets much faster.
Sorted(requests) == {r \in requests : TRUE}

MCRequests ==
  Sorted(FacetRequests) \cup
    (Sorted(KeywordRequests) \cup Sorted(PolicyRequests \cup SearchRequests \cup PromptRequests))
=============================================================================

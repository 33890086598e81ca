-------------------------- MODULE PlanningFrontEnd --------------------------
(***************************************************************************)
(* The nodes of the worker's graph before the selection: plan_intent_draft,*)
(* normalize_intent, gate_scope, build_template_prior_summary,             *)
(* build_search_profile and assemble_candidates.  The last one searches    *)
(* two catalogue surfaces at the same time, each through a ladder of       *)
(* queries that it climbs until one has an answer.  Cancellations and      *)
(* heartbeats of these nodes are in WorkerGraph, their content is here.    *)
(*                                                                         *)
(* A request is                                                            *)
(*   prompt      the trimmed prompt, a Text                                *)
(*   empty       the canvas is empty: create_template                      *)
(*   preset      the canvas preset                                         *)
(*   mode        the configured planner, "heuristic" or "langchain"        *)
(*   answer      what the language model answers, Nothing when the call    *)
(*               fails or its output does not parse                        *)
(*   pictures    the tool registry enables photo-catalog                   *)
(*   real        the catalogue is searched; otherwise placeholders are     *)
(*               listed and no query is sent                               *)
(***************************************************************************)
EXTENDS SearchPlan

CONSTANT Requests

Nothing == [kind |-> None]   \* an artifact that does not exist yet

Presets == {"wide_1200x628", "square_1080", "story_1080x1920", "custom"}

\* TemplateIntentDraftSchema, what an answer that parses is made of; its lengths are
\* checked where the draft is completed (DraftFits)
Answers ==
  [goalSummary : Texts, domain : Domains, audience : Audiences, campaignGoal : Goals,
   templateKind : Kinds, layoutIntent : LayoutIntents, assetPolicy : AssetPolicies,
   keywords : Seq(Vocabulary), seasonality : {None, "spring"}, menuType : MenuTypes,
   style : Styles, specificity : Specificities]

ASSUME RequestsAssumption ==
  \A r \in Requests :
    /\ r.prompt \in Texts /\ r.answer \in Answers \cup {Nothing}
    /\ r.empty \in BOOLEAN /\ r.pictures \in BOOLEAN /\ r.real \in BOOLEAN
    /\ r.preset \in Presets /\ r.mode \in {"heuristic", "langchain"}

VARIABLES
  request,
  node,       \* the next node, or the end
  draft,      \* normalizedIntentDraft, with the mode it was made in
  intent,     \* NormalizedIntent
  report,     \* consistency flags and repaired fields
  prior,      \* templatePriorSummary
  profile,    \* searchProfile
  attempts,   \* query attempts of each surface: "hit" or "empty", in their order
  failure     \* why the planning ended without candidates

vars == <<request, node, draft, intent, report, prior, profile, attempts, failure>>

Surfaces == {"graphic", "photo"}
Exists(artifact) == artifact # Nothing

Init ==
  /\ request \in Requests
  /\ node = "plan_intent_draft"
  /\ draft = Nothing /\ intent = Nothing /\ report = Nothing
  /\ prior = Nothing /\ profile = Nothing
  /\ attempts = [surface \in Surfaces |-> <<>>]
  /\ failure = None

Goto(next) == node' = next /\ failure' = failure
Fail(reason) == node' = "failed" /\ failure' = reason

(* --- plan_intent_draft: resolvePlannerDraft.ts --------------------------- *)

Drafted(mode, content) == [kind |-> "draft", mode |-> mode, content |-> content]

\* Not a create_template: no planner is asked
SkipPlanner ==
  /\ node = "plan_intent_draft" /\ ~request.empty
  /\ Goto("normalize_intent")
  /\ UNCHANGED <<request, draft, intent, report, prior, profile, attempts>>

\* the model's draft passes the schema once completed
AnswerUsable ==
  /\ request.mode = "langchain" /\ request.answer # Nothing
  /\ DraftFits(CompletedAnswer(request.answer))

PlanWithModel ==
  /\ node = "plan_intent_draft" /\ request.empty /\ AnswerUsable
  /\ draft' = Drafted("langchain", CompletedAnswer(request.answer))
  /\ Goto("normalize_intent")
  /\ UNCHANGED <<request, intent, report, prior, profile, attempts>>

\* The heuristic planner, configured or as the fallback; its own draft is checked by
\* the same schema and a draft that does not pass is thrown out of the node
PlanWithHeuristic ==
  /\ node = "plan_intent_draft" /\ request.empty /\ ~AnswerUsable
  /\ IF DraftFits(HeuristicDraft(request.prompt))
     THEN /\ draft' = Drafted("heuristic", HeuristicDraft(request.prompt))
          /\ Goto("normalize_intent")
     ELSE /\ draft' = draft
          /\ Fail("planner_draft_invalid")
  /\ UNCHANGED <<request, intent, report, prior, profile, attempts>>

(* --- normalize_intent, gate_scope ---------------------------------------- *)

Report(flags, repaired) == [kind |-> "report", flags |-> flags, repaired |-> repaired]

\* normalizeTemplateIntent without a draft: the defaults of the request
NormalizeDefaults ==
  /\ node = "normalize_intent" /\ draft = Nothing
  /\ intent' = DefaultIntent(request.prompt, Signals(request.prompt.words).spring)
  /\ report' = Report({}, {})
  /\ Goto("gate_scope")
  /\ UNCHANGED <<request, draft, prior, profile, attempts>>

\* the repair of the persisted draft against a heuristic draft of the same prompt
NormalizeDraft ==
  /\ node = "normalize_intent" /\ Exists(draft)
  /\ LET s == Signals(request.prompt.words)
         promo == PromoFocus(s, draft.content)
     IN  /\ intent' = Repair(s, promo, draft.content, HeuristicDraft(request.prompt),
                             request.prompt)
         /\ report' = Report(RepairFlags(s, promo, draft.content, intent'),
                             RepairedFields(draft.content, intent'))
  /\ Goto("gate_scope")
  /\ UNCHANGED <<request, draft, prior, profile, attempts>>

\* Only a create_template with a draft is supported in this version
GateScope ==
  /\ node = "gate_scope"
  /\ IF request.empty THEN Goto("build_template_prior_summary") ELSE Fail("unsupported")
  /\ UNCHANGED <<request, draft, intent, report, prior, profile, attempts>>

(* --- build_template_prior_summary, build_search_profile ------------------ *)

BuildTemplatePrior ==
  /\ node = "build_template_prior_summary"
  /\ prior' = PriorSummary(intent, request.preset)
  /\ Goto("build_search_profile")
  /\ UNCHANGED <<request, draft, intent, report, profile, attempts>>

BuildSearchProfile ==
  /\ node = "build_search_profile"
  /\ profile' = SearchProfile(intent, report.flags, prior.keyword)
  /\ Goto("assemble_candidates")
  /\ UNCHANGED <<request, draft, intent, report, prior, attempts>>

(* --- assemble_candidates: candidateSearchers.ts -------------------------- *)

\* the ladder of a surface; pictures are left out when their tool is disabled
Ladder(surface) ==
  IF surface = "graphic" THEN profile.graphic
  ELSE IF request.pictures THEN profile.photo ELSE <<>>

Answered(surface) == "hit" \in ToSet(attempts[surface])

\* searchGraphicCandidates, searchPhotoCandidates: no query is left or one has an answer
Searched(surface) ==
  Answered(surface) \/ Len(attempts[surface]) = Len(Ladder(surface))

\* listGraphicCandidates and listPhotoCandidates always have candidates
ListPlaceholders ==
  /\ node = "assemble_candidates" /\ ~request.real
  /\ Goto("select_composition")
  /\ UNCHANGED <<request, draft, intent, report, prior, profile, attempts>>

\* One answer of the catalogue.  The two searches run at the same time; when one of
\* them fails, the other goes on with its ladder although nobody waits for it.
Search(surface, answer) ==
  /\ Exists(profile) /\ request.real
  /\ node = "assemble_candidates" \/ failure = "catalogue_error"
  /\ ~Searched(surface)
  /\ "error" \notin ToSet(attempts[surface])
  /\ attempts' = [attempts EXCEPT ![surface] = Append(@, answer)]
  /\ IF answer = "error" THEN Fail("catalogue_error") ELSE UNCHANGED <<node, failure>>
  /\ UNCHANGED <<request, draft, intent, report, prior, profile>>

\* assembleTemplateCandidates after both searches: without a graphic the run is given
\* up, whatever pictures there are
Assemble ==
  /\ node = "assemble_candidates" /\ request.real
  /\ \A surface \in Surfaces : Searched(surface)
  /\ IF Answered("graphic") THEN Goto("select_composition")
                            ELSE Fail("graphic_candidates_empty")
  /\ UNCHANGED <<request, draft, intent, report, prior, profile, attempts>>

Next ==
  \/ SkipPlanner \/ PlanWithModel \/ PlanWithHeuristic
  \/ NormalizeDefaults \/ NormalizeDraft \/ GateScope
  \/ BuildTemplatePrior \/ BuildSearchProfile
  \/ ListPlaceholders \/ Assemble
  \/ \E surface \in Surfaces, answer \in {"hit", "empty", "error"} : Search(surface, answer)

Spec == Init /\ [][Next]_vars

(* --- Properties ---------------------------------------------------------- *)

SomeKeywords(words, table) == ToSet(words) \cap table # {}

\* TemplateAssetPolicySchema, which nothing parses with; a policy that allows the
\* background only keeps a primary policy for a family it does not allow
PolicyOK(policy) ==
  /\ policy.primary \in VisualPolicies
  /\ "background" \in ToSet(policy.allowed)
  /\ ToSet(policy.preferred) \subseteq ToSet(policy.allowed)
  /\ policy.allowed # <<"background">> =>
       PrimaryFamily[policy.primary] \in ToSet(policy.allowed) \cup {Unset}

IntentOK ==
  /\ intent.domain \in Domains /\ intent.audience \in Audiences
  /\ intent.style \in Styles /\ intent.campaignGoal \in Goals
  /\ intent.templateKind \in Kinds /\ intent.layoutIntent \in LayoutIntents
  /\ intent.menuType \in MenuTypes /\ intent.specificity \in Specificities
  /\ intent.seasonality \in {None, "spring"}
  /\ ToSet(intent.keywords) \subseteq Vocabulary \ {"menu!", "--"}
  /\ Len(intent.keywords) \in 1..5
  /\ PolicyOK(intent.assetPolicy)

\* The artifacts have the shape their consumers read: an intent has one to five
\* normalized keywords, a canonical policy that allows the background, and one value
\* of every facet; a surface has at most as many attempts as its ladder has queries.
TypeOK ==
  /\ node \in {"plan_intent_draft", "normalize_intent", "gate_scope",
               "build_template_prior_summary", "build_search_profile",
               "assemble_candidates", "select_composition", "failed"}
  /\ failure \in {None, "planner_draft_invalid", "unsupported", "catalogue_error",
                  "graphic_candidates_empty"}
  /\ (node = "failed") = (failure # None)
  /\ Exists(draft) => DraftFits(draft.content)
  /\ Exists(intent) => IntentOK
  /\ Exists(profile) => \A surface \in Surfaces :
                          Len(attempts[surface]) <= Len(Ladder(surface))

\* Whatever the planner drafted, an intent for fashion retail has no menu facet, style
\* or goal, none of its keywords is one of the blocked menu words, and the query each
\* surface is asked first is no menu signal.  (deriveExplicitDomain, the conflict
\* repairs of repairTemplateIntentDraft, hasFashionRetailMenuContradiction.)  The
\* tables compare whole keywords, so a compound such as spring-menu may stay among
\* the keywords and come up in a later query.
FashionStaysFashion ==
  (Exists(intent) /\ intent.domain = "fashion_retail") =>
    /\ intent.menuType = None
    /\ intent.style # "seasonal_menu_launch" /\ intent.campaignGoal # "menu_discovery"
    /\ ~SomeKeywords(intent.keywords, FashionBlockedKeywords)
    /\ Exists(profile) => \A queries \in {profile.graphic, profile.photo} :
                            queries # <<>> => queries[1].keyword \notin MenuSignal

\* A prompt that speaks of a sale or an event and of no business or product gets a
\* graphic-first plan without a subject: no business domain, menu or picture-first
\* policy of the planner's survives, nor any keyword for one, and no query of the
\* graphic ladder looks for one.  (shouldPreferGraphicPromoStructure and the repairs
\* it guards, deriveSubjectKeyword, derivePromotionKeyword, deriveTemplatePriorKeyword)
PromoStaysSubjectless ==
  (/\ Exists(intent) /\ Exists(draft)
   /\ PromoFocus(Signals(request.prompt.words), draft.content)) =>
    /\ intent.domain = "general_marketing" /\ intent.menuType = None
    /\ intent.assetPolicy.primary = "graphic_preferred"
    /\ ~SomeKeywords(intent.keywords, PromoBlockedKeywords)
    /\ Exists(profile) => Keywords(profile.graphic) \cap PromoBlockedKeywords = {}

\* The judge finds no field of the search profile that differs from the intent,
\* although the profile normalizes the policy once more and normalizing is not
\* idempotent for every policy a planner may answer; and no picture was asked for
\* against the policy.  (collectSearchProfileContractMismatches, buildSearchProfile)
ProfileMatchesIntent ==
  Exists(profile) =>
    /\ ContractMismatches(intent, profile) = {}
    /\ attempts["photo"] # <<>> => "photo" \in ToSet(intent.assetPolicy.allowed)

\* When the language model fails or its draft is not valid, the run goes on with the
\* draft of the heuristic planner (README.md:231).
FallbackDrafts == request.mode = "langchain" => failure # "planner_draft_invalid"
=============================================================================

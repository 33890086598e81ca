--------------------------- MODULE DraftPipelineMC ---------------------------
(***************************************************************************)
(* Briefs for TLC: one slice of the inputs varies what the selection looks *)
(* at, one what the layout looks at, one the client and its warnings.      *)
(***************************************************************************)
EXTENDS DraftPipeline

Wide == <<1200, 628>>
Canvases == {Wide, <<1080, 1080>>, <<1080, 1920>>, <<900, 700>>, <<320, 240>>}

Plain ==
  [width |-> 1200, height |-> 628, policy |-> "balanced", general |-> FALSE,
   badgeLed |-> FALSE, photo |-> "none", candidates |-> 4, family |-> "promo_split",
   density |-> "balanced", drafted |-> {"subheadline", "footer_note"}, headline |-> 12,
   weakCta |-> FALSE, otherWarning |-> FALSE, names |-> TRUE]

On(b, canvas) == [b EXCEPT !.width = canvas[1], !.height = canvas[2]]

\* what the selection looks at: canvas, policy, intent, photo, domain
SelectionBriefs ==
  {On([Plain EXCEPT !.policy = policy, !.general = general, !.badgeLed = badgeLed,
                    !.photo = photo, !.family = "subject_hero"], canvas) :
     canvas \in {Wide, <<1080, 1080>>, <<900, 700>>}, policy \in Policies,
     general \in BOOLEAN, badgeLed \in BOOLEAN, photo \in Photos}

\* what the layout looks at: canvas, family, density, slots, headline, and the names
\* the client reports or not
SlotChoices == {{}, {"offer_line", "badge_text"}, OptionalSlots}

LayoutBriefs ==
  {On([Plain EXCEPT !.photo = photo, !.family = family, !.density = density,
                    !.drafted = drafted, !.headline = headline, !.names = names], canvas) :
     canvas \in Canvases, photo \in {"none", "close"}, family \in Families,
     density \in Densities, drafted \in SlotChoices, headline \in {12, 25, 60},
     names \in BOOLEAN}

\* the client's names, the warnings, and how many decorations the catalogue has
ClientBriefs ==
  {On([Plain EXCEPT !.policy = "graphic_preferred", !.candidates = candidates,
                    !.family = family, !.weakCta = weakCta, !.badgeLed = badgeLed,
                    !.names = names], canvas) :
     canvas \in {Wide, <<1080, 1080>>}, candidates \in 1..5,
     family \in {"promo_frame", "promo_split"}, weakCta \in BOOLEAN, badgeLed \in BOOLEAN,
     names \in BOOLEAN}
  \cup
  {[Plain EXCEPT !.otherWarning = TRUE, !.names = names, !.density = density] :
     names \in BOOLEAN, density \in Densities}

AllBriefs == SelectionBriefs \cup LayoutBriefs \cup ClientBriefs
=============================================================================

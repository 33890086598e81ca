----------------------------- MODULE AssetPolicy -----------------------------
(***************************************************************************)
(* templatePlannerAssetPolicy.ts: which asset families a draft may use.    *)
(* A policy arrives as a legacy name or as a structure with parts left     *)
(* out, and is normalized wherever it is read: by the planner, by the      *)
(* repair, by the search profile and by the judge.                         *)
(***************************************************************************)
EXTENDS Positions, SequencesExt

AssetFamilies == {"background", "graphic", "photo"}
VisualPolicies == {"graphic_preferred", "photo_preferred", "balanced"}
Unset == "unset"

\* A policy as it arrives.  An absent list and an empty one are treated alike.  A
\* legacy name is [kind |-> "legacy"] with its primary policy and empty lists.
AssetPolicy(kind, allowed, preferred, primary, avoid) ==
  [kind |-> kind, allowed |-> allowed, preferred |-> preferred, primary |-> primary,
   avoid |-> avoid]

\* the policies a planner may answer; only a structure may leave its primary policy out
AssetPolicies ==
  {p \in [kind : {"legacy", "structured"}, allowed : Seq(AssetFamilies),
          preferred : Seq(AssetFamilies), primary : VisualPolicies \cup {Unset},
          avoid : Seq(AssetFamilies)] : p.kind = "legacy" => p.primary # Unset}

Canonical(allowed, preferred, primary, avoid) ==
  AssetPolicy("structured", allowed, preferred, primary, avoid)

\* legacyTemplateAssetPolicyMap and balancedTemplateAssetPolicy
GraphicFirst ==
  Canonical(<<"background", "graphic", "photo">>, <<"graphic">>, "graphic_preferred", <<>>)
PhotoFirst ==
  Canonical(<<"background", "photo", "graphic">>, <<"photo", "graphic">>, "photo_preferred",
            <<>>)
BalancedFamilies ==
  Canonical(<<"background", "graphic", "photo">>, <<"graphic", "photo">>, "balanced", <<>>)

DefaultPolicies ==
  [graphic_preferred |-> GraphicFirst, photo_preferred |-> PhotoFirst,
   balanced |-> BalancedFamilies]

\* the elements of a sequence in the order of their first occurrence
Distinct(s) == Picked(s, {i \in DOMAIN s : \A j \in 1 .. (i - 1) : s[j] # s[i]})

OrElse(list, default) == IF list = <<>> THEN default ELSE list
FirstOf(list) == IF list = <<>> THEN Unset ELSE list[1]
Both(list) == {"graphic", "photo"} \subseteq ToSet(list)

\* resolveTemplateAssetPolicyDefaults
DefaultPrimary(policy) ==
  IF policy.primary # Unset THEN policy.primary
  ELSE IF FirstOf(policy.preferred) = "photo" THEN "photo_preferred"
  ELSE IF FirstOf(policy.preferred) = "graphic" THEN "graphic_preferred"
  ELSE IF Both(policy.preferred) THEN "balanced"
  ELSE IF FirstOf(policy.allowed) = "photo" /\ Both(policy.allowed) THEN "photo_preferred"
  ELSE "graphic_preferred"

\* resolvePrimaryVisualFamily
PrimaryFamily ==
  [graphic_preferred |-> "graphic", photo_preferred |-> "photo", balanced |-> Unset]

\* resolveCompatiblePrimaryVisualPolicy: the policy asked for when its family is
\* allowed, else what the preferred families that are allowed say, else the first
\* allowed family that is not the background
CompatiblePrimary(asked, allowed, preferred, default) ==
  LET other == FirstOf(Kept(allowed, {"graphic", "photo"}))
  IN  IF asked # Unset /\ PrimaryFamily[asked] \in ToSet(allowed) \cup {Unset} THEN asked
      ELSE IF Both(preferred) THEN "balanced"
      ELSE IF FirstOf(preferred) = "photo" THEN "photo_preferred"
      ELSE IF FirstOf(preferred) = "graphic" THEN "graphic_preferred"
      ELSE IF other = "photo" THEN "photo_preferred"
      ELSE IF other = "graphic" THEN "graphic_preferred"
      ELSE default

\* ensureBackgroundFamily
WithBackground(list) ==
  IF "background" \in ToSet(list) THEN list ELSE <<"background">> \o list

\* the primary family leads the preferred ones
Leading(family, allowed, preferred) ==
  IF family \in ToSet(allowed)
  THEN <<family>> \o Kept(preferred, AssetFamilies \ {family})
  ELSE preferred

NormalizedParts(policy, allowed, preferred, primary) ==
  Canonical(allowed, Leading(PrimaryFamily[primary], allowed, Distinct(preferred)), primary,
            Distinct(policy.avoid))

\* normalizeTemplateAssetPolicy
NormalizePolicy(policy) ==
  IF policy.kind = "legacy" THEN DefaultPolicies[policy.primary]
  ELSE LET default == DefaultPolicies[DefaultPrimary(policy)]
           allowed == Distinct(WithBackground(OrElse(policy.allowed, default.allowed)))
           preferred == Kept(OrElse(policy.preferred, default.preferred), ToSet(allowed))
       IN  NormalizedParts(policy, allowed, preferred,
             CompatiblePrimary(policy.primary, allowed, preferred, default.primary))

\* templateAssetPolicyAllowsFamily and templateAssetPolicyPrefersPhoto
AllowsFamily(policy, family) == family \in ToSet(NormalizePolicy(policy).allowed)
PrefersPhoto(policy) ==
  NormalizePolicy(policy).primary = "photo_preferred" /\ AllowsFamily(policy, "photo")
=============================================================================

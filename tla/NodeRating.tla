------------------------------ MODULE NodeRating ------------------------------
(***************************************************************************)
(* The rules of server/node_rating.go: which work a node may receive, and  *)
(* the tier its provider is shown, from five scores each of which may be   *)
(* unknown; and the constraints that migration 000009 puts on the row in   *)
(* which a rating is kept.  The two functions are written separately, with *)
(* thresholds of their own, and nothing in the code relates them to each   *)
(* other or to the constraints: the properties do.                         *)
(*                                                                         *)
(* The functions keep no state.  Their argument is the state here, and a   *)
(* step gives one dimension a new score or takes its evidence away.  As in *)
(* the Go structure, a dimension that is not known still has a score.      *)
(***************************************************************************)
EXTENDS Integers

CONSTANTS
  Scores  \* the scores that are tried

ASSUME ScoreAssumption == Scores \subseteq Int

VARIABLES
  score,  \* ComputeScore, NetworkScore, ...
  known   \* ComputeKnown, NetworkKnown, ...

vars == <<score, known>>

Dimensions == {"compute", "network", "reliability", "availability", "trust"}
Workloads == {"text-inference", "large-data"}
Tiers == {"unrated", "basic", "standard", "gold", "platinum", "datacenter"}

TypeOK ==
  /\ score \in [Dimensions -> Scores]
  /\ known \in [Dimensions -> BOOLEAN]

-------------------------------------------------------------------------------
(* EvaluateNodeEligibility.                                                *)

TextInference ==
  [compute |-> 40, network |-> 25, reliability |-> 50, availability |-> 50, trust |-> 50]

\* Seeded fault: large-data trusts a node that text-inference does not.
LargeDataUntrusted ==
  [compute |-> 50, network |-> 70, reliability |-> 60, availability |-> 60, trust |-> 40]

LargeData ==
  [compute |-> 50, network |-> 70, reliability |-> 60, availability |-> 60, trust |-> 60]

Minimum(w, d) == IF w = "text-inference" THEN TextInference[d] ELSE LargeData[d]

\* Seeded fault: a dimension without evidence is passed over.
MinimumIfKnown(w, d) == known[d] => score[d] >= Minimum(w, d)

\* checkKnownMinimum adds no limitation.
CheckKnownMinimum(w, d) == known[d] /\ score[d] >= Minimum(w, d)

\* The dimensions named in result.Limitations; any other workload class is refused.
Limitations(w) == {d \in Dimensions : ~CheckKnownMinimum(w, d)}

Eligible(w) == w \in Workloads /\ Limitations(w) = {}

-------------------------------------------------------------------------------
(* DetermineNodeTier.                                                      *)

Least(a, b) == IF b < a THEN b ELSE a

\* The loop over values, which starts from the compute score.
Lowest ==
  Least(Least(Least(Least(score["compute"], score["network"]), score["reliability"]),
              score["availability"]), score["trust"])

AllKnown == \A d \in Dimensions : known[d]

DetermineNodeTier ==
  CASE ~AllKnown -> "unrated"
    [] AllKnown /\ Lowest >= 90 -> "datacenter"
    [] AllKnown /\ Lowest >= 80 /\ Lowest < 90 -> "platinum"
    [] AllKnown /\ Lowest >= 70 /\ Lowest < 80 -> "gold"
    [] AllKnown /\ Lowest >= 50 /\ Lowest < 70 -> "standard"
    [] AllKnown /\ Lowest < 50 -> "basic"

-------------------------------------------------------------------------------
(* The CHECK constraints that node_ratings puts on the tier.               *)

TierFits(tier) ==
  /\ tier \in Tiers
  /\ \/ tier # "unrated" /\ \A d \in Dimensions : known[d]
     \/ tier = "unrated" /\ \E d \in Dimensions : ~known[d]

-------------------------------------------------------------------------------

\* A measurement arrives for dimension d.
Measure(d, v) ==
  /\ score' = [score EXCEPT ![d] = v]
  /\ known' = [known EXCEPT ![d] = TRUE]

\* There is no evidence for d any more; the number stays where it is.
Forget(d) ==
  /\ known[d]
  /\ known' = [known EXCEPT ![d] = FALSE]
  /\ UNCHANGED score

Init == score \in [Dimensions -> Scores] /\ known = [d \in Dimensions |-> FALSE]

Next == \E d \in Dimensions : Forget(d) \/ \E v \in Scores : Measure(d, v)

Spec == Init /\ [][Next]_vars

-------------------------------------------------------------------------------
(* Properties.                                                             *)

\* The tier of DetermineNodeTier passes the two constraints that node_ratings has for it:
\* "unrated exactly when something is unknown" is stated again in the migration.  The range
\* of the scores and their evidence have constraints of their own, which are left out.
TierIsStorable == TierFits(DetermineNodeTier)

\* What the tier promises about all dimensions at once: a node has at least tier t if
\* and only if each of its five scores is known and reaches the threshold of t.
Reaches(v) == \A d \in Dimensions : known[d] /\ score[d] >= v
TierIsWeakest ==
  /\ DetermineNodeTier = "datacenter" <=> Reaches(90)
  /\ DetermineNodeTier \in {"datacenter", "platinum"} <=> Reaches(80)
  /\ DetermineNodeTier \in {"datacenter", "platinum", "gold"} <=> Reaches(70)
  /\ DetermineNodeTier \notin {"unrated", "basic"} <=> Reaches(50)

\* Tier and eligibility, computed apart, do not contradict each other: a gold node may
\* receive everything, a standard node text inference, an unrated node nothing; and who
\* may receive large data may receive text inference.
TierAgreesWithEligibility ==
  /\ DetermineNodeTier \in {"gold", "platinum", "datacenter"} => Eligible("large-data")
  /\ DetermineNodeTier = "standard" => Eligible("text-inference")
  /\ DetermineNodeTier = "unrated" => \A w \in Workloads : ~Eligible(w)
  /\ Eligible("large-data") => Eligible("text-inference")

\* No step that only adds evidence or raises a score takes work away from a node: a
\* provider never has a reason to withhold a measurement.
Improves == \A d \in Dimensions : known[d] => known'[d] /\ score'[d] >= score[d]
BetterIsNeverWorse ==
  [][Improves => \A w \in Workloads : Eligible(w) => Eligible(w)']_vars

===============================================================================

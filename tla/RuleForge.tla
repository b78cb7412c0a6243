----------------------------- MODULE RuleForge -----------------------------
(***************************************************************************)
(* The rule forge: failures are counted in clusters; a cluster that has    *)
(* been seen twice yields a candidate rule whenever it is asked for one,   *)
(* and a rule is verified, activated, challenged and rejected by the runs  *)
(* it shadows.  The forge has no thread of its own: its state is behind    *)
(* one lock and each call is one step.                                     *)
(*                                                                         *)
(* The consumers of RunMemory call the first two operations; nothing but   *)
(* tests calls the others yet.  Confidence is in tenths.                   *)
(***************************************************************************)
EXTENDS Integers

CONSTANTS Clusters,  \* cluster keys: error code and message without its digits
          MaxVerdicts \* bound: shadow results and promotions of a rule

ASSUME MaxVerdictsAssumption == MaxVerdicts \in Nat

MinClusterCount == 2
MinConfidence == 6

RuleStates == {"Candidate", "Draft", "Verified", "Active", "Challenged", "Rejected"}

VARIABLES clusters, \* clusters[k]: failures observed
          emitted,  \* emitted[k]: candidates emitted for k
          rule,     \* one of the rules
          verdicts, \* shadow results and promotions of it so far
          promoted  \* history: whether it was promoted by hand

forgeVars == <<clusters, emitted, rule, verdicts, promoted>>
lifeVars == <<rule, verdicts, promoted>>

NewRule == [state |-> "Candidate", confidence |-> 6, verified |-> 0, falsePositives |-> 0]

ForgeInit ==
    /\ clusters = [k \in Clusters |-> 0]
    /\ emitted = [k \in Clusters |-> 0]
    /\ rule = NewRule
    /\ verdicts = 0
    /\ promoted = FALSE

Observe(k) ==
    /\ clusters' = [clusters EXCEPT ![k] = @ + 1]
    /\ UNCHANGED <<emitted, lifeVars>>

\* Fault for Emits: a cluster must be above the threshold.
EmitsLate(k) == clusters[k] > MinClusterCount

Emits(k) == clusters[k] >= MinClusterCount

\* No candidate replaces an earlier one of its cluster.
MaybeEmitCandidate(k) ==
    /\ emitted' = IF Emits(k) THEN [emitted EXCEPT ![k] = @ + 1] ELSE emitted
    /\ UNCHANGED <<clusters, lifeVars>>

-----------------------------------------------------------------------------
(* The life of a rule *)

Least(x, y) == IF x < y THEN x ELSE y
Most(x, y) == IF x > y THEN x ELSE y

\* Fault for AfterPrevented: a challenged rule earns its way back like a draft.
AfterPreventedForgiving(r) ==
    LET better == [r EXCEPT !.verified = @ + 1, !.confidence = Least(@ + 1, 10)]
        earned == /\ r.state \in {"Draft", "Candidate", "Challenged"}
                  /\ better.verified >= 2 /\ better.confidence >= MinConfidence
        state == IF earned THEN "Verified" ELSE r.state
    IN [better EXCEPT !.state = IF state = "Verified" /\ better.verified >= 3 THEN "Active" ELSE state]

AfterPrevented(r) ==
    LET better == [r EXCEPT !.verified = @ + 1, !.confidence = Least(@ + 1, 10)]
        earned == /\ r.state \in {"Draft", "Candidate"}
                  /\ better.verified >= 2 /\ better.confidence >= MinConfidence
        state == IF earned THEN "Verified" ELSE r.state
    IN [better EXCEPT !.state = IF state = "Verified" /\ better.verified >= 3 THEN "Active" ELSE state]

AfterFalsePositive(r) ==
    [r EXCEPT !.falsePositives = @ + 1, !.confidence = Most(@ - 2, 0),
              !.state = IF r.falsePositives >= 1 THEN "Rejected" ELSE "Challenged"]

Judged(new) ==
    /\ verdicts < MaxVerdicts
    /\ verdicts' = verdicts + 1
    /\ rule' = new
    /\ UNCHANGED <<clusters, emitted>>

RecordShadowResult(prevented) ==
    /\ Judged(IF prevented THEN AfterPrevented(rule) ELSE AfterFalsePositive(rule))
    /\ UNCHANGED promoted

NextState ==
    [Candidate |-> "Draft", Draft |-> "Verified", Verified |-> "Active", Challenged |-> "Active",
     Active |-> "Active", Rejected |-> "Rejected"]

Promote ==
    /\ Judged([rule EXCEPT !.state = NextState[@]])
    /\ promoted' = TRUE

Life == (\E prevented \in BOOLEAN : RecordShadowResult(prevented)) \/ Promote

-----------------------------------------------------------------------------
(* Properties *)

\* Every variable keeps its type.
ForgeTypeOK ==
    /\ clusters \in [Clusters -> Nat] /\ emitted \in [Clusters -> Nat]
    /\ rule \in [state : RuleStates, confidence : 0..10, verified : Nat, falsePositives : Nat]
    /\ verdicts \in 0..MaxVerdicts /\ promoted \in BOOLEAN

\* A rule that is active has at most one false positive, however it was promoted; and one that
\* was never promoted by hand is active only by three prevented failures and none.
RulesEarned ==
    /\ rule.state = "Active" => rule.falsePositives <= 1
    /\ rule.state = "Active" /\ ~promoted => rule.verified >= 3 /\ rule.falsePositives = 0
    /\ rule.state = "Rejected" <=> rule.falsePositives >= 2
=============================================================================

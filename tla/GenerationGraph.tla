---------------------------- MODULE GenerationGraph ----------------------------
(***************************************************************************)
(* The LangGraph that turns a request into a plan.  Its state, the         *)
(* channels, is saved as the checkpoint of a thread after every node, and  *)
(* stays there: a later run of the same thread starts at the first node    *)
(* again, but with the channels as the earlier run left them.              *)
(*                                                                         *)
(* A plan is abstracted to whether there is one, the problems found in a   *)
(* candidate to their kind: "terminal" ones, which the data plane cannot   *)
(* do, and "fixable" ones, which the model may repair.                     *)
(***************************************************************************)
EXTENDS Naturals

CONSTANT MaxRepairs     \* max_repairs

ASSUME RepairsAssumption == MaxRepairs \in Nat

Nodes == {"intent_parse", "profile_enrichment", "candidate_generation",
          "schema_validation", "hocon_compile", "deterministic_gate", "repair",
          "human_interrupt", "end"}

ThreadStatus == {"none", "needs_clarification", "running", "candidate_generated",
                 "failed", "schema_valid", "validation_failed", "repairing", "completed"}

Issues == {"none", "fixable", "terminal"}

Channels == [status : ThreadStatus, questions : BOOLEAN, issues : Issues,
             plan : BOOLEAN, repairs : Nat]

NewThread == [status |-> "none", questions |-> FALSE, issues |-> "none",
              plan |-> FALSE, repairs |-> 0]

-----------------------------------------------------------------------------
(***************************************************************************)
(* What each node makes of the channels                                    *)
(***************************************************************************)
IntentParse(ch, asks) ==
    [ch EXCEPT !.questions = asks,
               !.status = IF asks THEN "needs_clarification" ELSE "running"]

\* The model answers, after a bounded number of retries, or is given up.
ModelOutcomes == {"candidate_generated", "failed"}

CandidateGeneration(ch) == {[ch EXCEPT !.status = s] : s \in ModelOutcomes}

\* validate_plan_payload returns a plan only if it finds no issue.
SchemaValidation(ch) ==
    {[ch EXCEPT !.issues = i,
                !.plan   = (i = "none"),
                !.status = IF i = "none" THEN "schema_valid" ELSE "validation_failed"]
        : i \in Issues}

DeterministicGate(ch) ==
    [ch EXCEPT !.status = IF ch.issues = "none" THEN "completed" ELSE "validation_failed"]

Repair(ch) == [ch EXCEPT !.repairs = @ + 1, !.status = "repairing"]

\* Profile enrichment and the interrupt only leave a trace.  So does the
\* compilation of HOCON: schema validation compiled the same text before.
Results(node, ch, asks) ==
    CASE node = "intent_parse"         -> {IntentParse(ch, asks)}
      [] node = "candidate_generation" -> CandidateGeneration(ch)
      [] node = "schema_validation"    -> SchemaValidation(ch)
      [] node = "deterministic_gate"   -> {DeterministicGate(ch)}
      [] node = "repair"               -> {Repair(ch)}
      [] OTHER                         -> {ch}

-----------------------------------------------------------------------------
(***************************************************************************)
(* The edges                                                               *)
(***************************************************************************)

\* Mutant: the bound is reached one repair later.
RepairOrStopMutant(ch) ==
    IF ch.issues # "terminal" /\ ch.repairs <= MaxRepairs THEN "repair" ELSE "human_interrupt"

RepairOrStop(ch) ==
    IF ch.issues # "terminal" /\ ch.repairs < MaxRepairs THEN "repair" ELSE "human_interrupt"

NextNode(node, ch) ==
    CASE node = "intent_parse" ->
            IF ch.status = "needs_clarification" THEN "human_interrupt" ELSE "profile_enrichment"
      [] node = "profile_enrichment"   -> "candidate_generation"
      [] node = "candidate_generation" ->
            IF ch.status = "failed" THEN "end" ELSE "schema_validation"
      [] node = "schema_validation"    -> IF ch.plan THEN "hocon_compile" ELSE RepairOrStop(ch)
      [] node = "hocon_compile"        -> "deterministic_gate"
      [] node = "deterministic_gate"   ->
            IF ch.status = "completed" THEN "end" ELSE RepairOrStop(ch)
      [] node = "repair"               -> "candidate_generation"
      [] OTHER                         -> "end"

===============================================================================

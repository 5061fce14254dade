----------------------------- MODULE AgentRun_proofs -----------------------------
(***************************************************************************)
(* The inductive invariant of AgentRun and what follows from it: type      *)
(* correctness, the bound on repairs and calls of the model, that only a   *)
(* task that passed the gate itself freezes the version, that an answered  *)
(* question is not asked again, and that a run which says completed when   *)
(* all is quiet has its version frozen.                                    *)
(***************************************************************************)
EXTENDS AgentRun, TLAPS

-----------------------------------------------------------------------------
(***************************************************************************)
(* The parts of the inductive invariant: what holds of the task k of a     *)
(* worker slot                                                             *)
(***************************************************************************)

\* A task that has run no node yet is at the first node, and the node whose
\* progress is to be saved was run.
RunsNodes(k) ==
    /\ k.ran = {} => /\ k.pc \in {"idle", "node"}
                     /\ k.node \in {"end", "intent_parse"}
                     /\ k.calls = 0
    /\ k.pc \in {"node", "save"} => k.node # "end"
    /\ k.pc = "save" => k.node \in k.ran

\* The graph ends with a status that the row knows.
EndsWithStatus(k) ==
    \/ k.pc = "persist"
    \/ k.pc \in {"node", "save"} /\ k.node = "human_interrupt"
    \/ k.pc = "save" /\ k.node = "schema_validation" /\ ~k.ch.plan
    \/ k.pc = "save" /\ k.node = "deterministic_gate"
    => k.ch.status \in RunStatus

\* No copy of the number of repairs exceeds the bound, and a repair that is
\* about to happen has room for it.
CountsBounded(k) ==
    /\ k.mine.repairs <= MaxRepairs
    /\ k.ch.repairs <= MaxRepairs
    /\ k.pc = "node" /\ k.node = "repair" => k.ran # {} /\ k.ch.repairs < MaxRepairs

\* A task calls the model once more than it repairs, and it has not yet
\* done so while it is on its way to the call.
CallPending(k) ==
    \/ k.pc = "node" /\ k.node \in {"intent_parse", "profile_enrichment", "candidate_generation"}
    \/ k.pc = "save" /\ k.node \in {"intent_parse", "profile_enrichment", "repair"}

CallsCounted(k) ==
    /\ k.calls <= 1 + k.ch.repairs
    /\ CallPending(k) => k.calls <= k.ch.repairs

\* A plan that a task validated has no issues, and the task goes straight on
\* to the gate, which it passes.
PlanGoesToGate(k) ==
    HasPlan(k) =>
        /\ k.ch.issues = "none"
        /\ \/ k.pc = "save" /\ k.node = "schema_validation"
           \/ k.pc \in {"node", "save"} /\ k.node = "hocon_compile"
           \/ k.pc = "node" /\ k.node = "deterministic_gate"
           \/ /\ \/ k.pc \in {"persist", "ack"}
                 \/ k.pc = "save" /\ k.node = "deterministic_gate"
              /\ k.ch.status = "completed"
              /\ "deterministic_gate" \in k.ran

\* Only a task with a plan is on its way to the gate.
GateNeedsPlan(k) ==
    k.pc \in {"node", "save"} /\ k.node \in {"hocon_compile", "deterministic_gate"} => HasPlan(k)

SlotInv(k) ==
    /\ RunsNodes(k)
    /\ EndsWithStatus(k)
    /\ CountsBounded(k)
    /\ CallsCounted(k)
    /\ PlanGoesToGate(k)
    /\ GateNeedsPlan(k)

\* What every task and the direct request keep to.
CoreInv ==
    /\ TypeOK
    /\ row.repairs <= MaxRepairs
    /\ thread.repairs <= MaxRepairs
    /\ \A w \in Workers : SlotInv(worker[w])
    /\ SlotInv(direct)

\* Before the run is started nothing has happened but direct requests, and only
\* then is there one.
NotStarted ==
    /\ req["start"] = "new" =>
           /\ row = NoRow
           /\ queue = 0
           /\ \A a \in Answers : req[a] = "new"
           /\ \A w \in Workers : worker[w].pc = "idle"
    /\ IF direct.pc = "idle" THEN direct = Idle ELSE req["start"] = "new"

\* As long as nothing died, a direct request finds no plan in its thread, and
\* the plan it has is one it validated.
OwnPlan ==
    crashes = 0 =>
        /\ req["start"] = "new" /\ direct.ran = {} => ~thread.plan
        /\ direct.ch.plan => "schema_validation" \in direct.ran

\* The part of the invariant that does without what the row says.
BaseInv == CoreInv /\ NotStarted /\ OwnPlan

-----------------------------------------------------------------------------
(***************************************************************************)
(* What the row says, and who is to say something else                     *)
(***************************************************************************)

\* Once a task has run its first node the channels say whether it asks, and
\* their status fits the node.
StatusFits(k) ==
    k.ran # {} =>
        /\ k.ch.questions = k.asks
        /\ IF k.asks
           THEN /\ k.ch.status = "needs_clarification"
                /\ \/ k.pc = "save" /\ k.node \in {"intent_parse", "human_interrupt"}
                   \/ k.pc = "node" /\ k.node = "human_interrupt"
                   \/ k.pc \in {"persist", "ack"}
           ELSE k.ch.status # "needs_clarification"
        /\ k.ch.status = "running" =>
               \/ k.pc = "save" /\ k.node \in {"intent_parse", "profile_enrichment"}
               \/ k.pc = "node" /\ k.node \in {"profile_enrichment", "candidate_generation"}
        /\ k.ch.status = "completed" =>
               /\ HasPlan(k)
               /\ \/ k.pc = "save" /\ k.node = "deterministic_gate"
                  \/ k.pc \in {"persist", "ack"}

Busy(w) == worker[w].pc # "idle"

\* A row that says completed while the version is a draft will be rewritten: a
\* task is about to freeze the version, or the one that died before it could is
\* delivered again and begins with another status.
CompletedCovered ==
    faults = 0 /\ row.status = "completed" /\ version = "draft" =>
        \/ queue > 0
        \/ \E w \in Workers :
               \/ worker[w].pc = "persist" /\ HasPlan(worker[w])
               \/ /\ worker[w].pc \in {"node", "save"} /\ worker[w].node = "intent_parse"
                  /\ worker[w].mine.status = "completed"

\* A row that says running will be rewritten: a task is queued or will be, or one
\* whose copy says so as well is on its way to another status.
RunningCovered ==
    faults = 0 /\ row.status = "running" =>
        \/ queue > 0
        \/ \E r \in Requests : req[r] = "queue"
        \/ \E w \in Workers :
               worker[w].pc \in {"node", "save"} /\ worker[w].mine.status = "running"

\* What is or was taken for the answers of the row has been sent.
AnswersSent == answers \subseteq Sent /\ \A a \in Answers : seen[a] \subseteq Sent

\* The start of the run is queued, or its task is, or a worker has it.
UnderWay == req["start"] = "queue" \/ queue > 0 \/ \E w \in Workers : Busy(w)

\* Before the first answer there is one task, and nobody else writes the row: so
\* its copy is the row, and a request that has read the question of a task that
\* is still under way finds the row unchanged when it answers.
FirstTask ==
    answers = {} =>
        /\ \A a \in Answers : req[a] # "queue"
        /\ queue <= 1
        /\ req["start"] = "queue" => queue = 0 /\ row.status = "running"
        /\ \A w \in Workers : Busy(w) =>
               /\ queue = 0 /\ req["start"] # "queue"
               /\ \A v \in Workers : Busy(v) => v = w
               /\ worker[w].asks = asks
               /\ worker[w].mine.status = row.status /\ worker[w].mine.questions = row.questions
        /\ row.status = "needs_clarification" => row.questions /\ asks
        /\ \A a \in Answers : req[a] = "read" /\ UnderWay => row.status = "needs_clarification"

\* After it a task that still asks has a copy that says so already: it will not
\* write it again.
AfterAnswer ==
    answers # {} /\ Sent \subseteq Useful =>
        /\ row.status # "needs_clarification" /\ ~row.questions
        /\ \A w \in Workers : Busy(w) /\ worker[w].asks =>
               worker[w].mine.status = "needs_clarification" /\ worker[w].mine.questions

\* The direct request read what the request says.
DirectAsks == direct.asks => asks

AllFit == StatusFits(direct) /\ \A w \in Workers : StatusFits(worker[w])

RowInv ==
    /\ AllFit /\ DirectAsks /\ CompletedCovered /\ RunningCovered
    /\ AnswersSent /\ FirstTask /\ AfterAnswer

\* The inductive invariant.
IInv == BaseInv /\ RowInv

-----------------------------------------------------------------------------
(***************************************************************************)
(* The graph                                                               *)
(***************************************************************************)

\* What a node may make of the channels.
LEMMA ResultFacts ==
    ASSUME NEW node \in Nodes, NEW ch \in Channels, NEW q \in BOOLEAN,
           NEW c \in Results(node, ch, q)
    PROVE  /\ c \in Channels
           /\ c.repairs = IF node = "repair" THEN ch.repairs + 1 ELSE ch.repairs
           /\ node # "schema_validation" => c.plan = ch.plan /\ c.issues = ch.issues
           /\ node = "schema_validation" =>
                  /\ c.plan <=> c.issues = "none"
                  /\ ~c.plan => c.status \in RunStatus
           /\ node = "deterministic_gate" =>
                  /\ c.status \in RunStatus
                  /\ ch.issues = "none" => c.status = "completed"
           /\ node = "human_interrupt" => c.status = ch.status
  <1>1. CASE node = "intent_parse"
    <2>1. c = [ch EXCEPT !.questions = q,
                         !.status = IF q THEN "needs_clarification" ELSE "running"]
      BY <1>1 DEF Results, IntentParse
    <2> QED
      BY <1>1, <2>1 DEF Channels, ThreadStatus
  <1>2. CASE node = "candidate_generation"
    <2>1. PICK s \in ModelOutcomes : c = [ch EXCEPT !.status = s]
      BY <1>2 DEF Results, CandidateGeneration
    <2> QED
      BY <1>2, <2>1 DEF Channels, ThreadStatus, ModelOutcomes
  <1>3. CASE node = "schema_validation"
    <2>1. PICK i \in Issues :
            c = [ch EXCEPT !.issues = i, !.plan = (i = "none"),
                           !.status = IF i = "none" THEN "schema_valid" ELSE "validation_failed"]
      BY <1>3 DEF Results, SchemaValidation
    <2>2. /\ c.issues = i /\ c.plan = (i = "none") /\ c.repairs = ch.repairs
          /\ i # "none" => c.status = "validation_failed"
      BY <2>1 DEF Channels
    <2>3. c \in Channels
      BY <2>1 DEF Channels, ThreadStatus
    <2> QED
      BY <1>3, <2>2, <2>3 DEF RunStatus
  <1>4. CASE node = "deterministic_gate"
    <2>1. c = [ch EXCEPT !.status =
                   IF ch.issues = "none" THEN "completed" ELSE "validation_failed"]
      BY <1>4 DEF Results, DeterministicGate
    <2> QED
      BY <1>4, <2>1 DEF Channels, ThreadStatus, RunStatus
  <1>5. CASE node = "repair"
    <2>1. PICK n \in Nat : n = ch.repairs + 1
      BY DEF Channels
    <2>2. c = [ch EXCEPT !.repairs = n, !.status = "repairing"]
      BY <1>5, <2>1 DEF Results, Repair
    <2>3. /\ c.repairs = ch.repairs + 1
          /\ c.plan = ch.plan
          /\ c.issues = ch.issues
      BY <2>1, <2>2 DEF Channels
    <2>4. c \in Channels
      BY <2>2 DEF Channels, ThreadStatus
    <2> QED
      BY <1>5, <2>3, <2>4
  <1>6. CASE node \notin {"intent_parse", "candidate_generation", "schema_validation",
                          "deterministic_gate", "repair"}
    <2>1. c = ch
      BY <1>6 DEF Results
    <2> QED
      BY <1>6, <2>1
  <1> QED
    BY <1>1, <1>2, <1>3, <1>4, <1>5, <1>6

\* Where the graph goes from a node.
LEMMA NextNodeFacts ==
    ASSUME NEW node \in Nodes, NEW ch \in Channels, NEW next, next = NextNode(node, ch)
    PROVE  /\ next \in Nodes
           /\ next # "intent_parse"
           /\ next \in {"human_interrupt", "end"} =>
                  \/ node = "intent_parse" /\ ch.status = "needs_clarification"
                  \/ node = "candidate_generation" /\ ch.status = "failed"
                  \/ node = "schema_validation" /\ ~ch.plan
                  \/ node \in {"deterministic_gate", "human_interrupt", "end"}
           /\ next = "repair" =>
                  /\ ch.repairs < MaxRepairs
                  /\ \/ node = "schema_validation" /\ ~ch.plan
                     \/ node = "deterministic_gate" /\ ch.status # "completed"
           /\ next = "profile_enrichment" => node = "intent_parse"
           /\ next = "candidate_generation" => node \in {"profile_enrichment", "repair"}
           /\ next = "hocon_compile" <=> node = "schema_validation" /\ ch.plan
           /\ next = "deterministic_gate" <=> node = "hocon_compile"
           /\ node = "deterministic_gate" /\ ch.status = "completed" => next = "end"
  <1>1. CASE node = "intent_parse"
    BY <1>1 DEF NextNode, Nodes
  <1>2. CASE node = "profile_enrichment"
    BY <1>2 DEF NextNode, Nodes
  <1>3. CASE node = "candidate_generation"
    BY <1>3 DEF NextNode, Nodes
  <1>4. CASE node = "schema_validation"
    BY <1>4 DEF NextNode, RepairOrStop, Nodes
  <1>5. CASE node = "hocon_compile"
    BY <1>5 DEF NextNode, Nodes
  <1>6. CASE node = "deterministic_gate"
    BY <1>6 DEF NextNode, RepairOrStop, Nodes
  <1>7. CASE node = "repair"
    BY <1>7 DEF NextNode, Nodes
  <1>8. CASE node \in {"human_interrupt", "end"}
    BY <1>8 DEF NextNode, Nodes
  <1> QED
    BY <1>1, <1>2, <1>3, <1>4, <1>5, <1>6, <1>7, <1>8 DEF Nodes

-----------------------------------------------------------------------------
(***************************************************************************)
(* What the steps make of a task                                           *)
(***************************************************************************)
LEMMA IdleInv == Idle \in Slot /\ SlotInv(Idle)
  BY RepairsAssumption
     DEF Idle, Slot, SlotInv, RunsNodes, EndsWithStatus, CountsBounded, CallsCounted, CallPending,
         PlanGoesToGate, GateNeedsPlan, HasPlan, NoRow, NewThread, Row, RunStatus, Channels,
         ThreadStatus, Issues, Nodes

LEMMA StartedInv ==
    ASSUME NEW r \in Row, r.repairs <= MaxRepairs, NEW q \in BOOLEAN
    PROVE  Started(q, r) \in Slot /\ SlotInv(Started(q, r))
  <1> DEFINE n == Started(q, r)
  <1>1. n = [pc |-> "node", node |-> "intent_parse", ran |-> {}, asks |-> q,
             ch |-> NewThread, mine |-> r, calls |-> 0]
    BY DEF Started
  <1>2. NewThread \in Channels /\ NewThread.repairs = 0
    BY DEF NewThread, Channels, ThreadStatus, Issues
  <1>3. n \in Slot
    BY <1>1, <1>2 DEF Slot, Nodes
  <1>4. /\ n.pc = "node" /\ n.node = "intent_parse" /\ n.ran = {} /\ n.calls = 0
        /\ n.mine.repairs <= MaxRepairs /\ n.ch.repairs = 0
    BY <1>1, <1>2
  <1> HIDE DEF n
  <1>5. RunsNodes(n) /\ EndsWithStatus(n)
    BY <1>4 DEF RunsNodes, EndsWithStatus
  <1>6. CountsBounded(n) /\ CallsCounted(n)
    BY <1>4, RepairsAssumption DEF CountsBounded, CallsCounted, CallPending
  <1>7. PlanGoesToGate(n) /\ GateNeedsPlan(n)
    BY <1>4 DEF PlanGoesToGate, GateNeedsPlan, HasPlan
  <1> QED
    BY <1>3, <1>5, <1>6, <1>7 DEF SlotInv, n

\* A node was run: th is the checkpoint of the thread, c the result.
LEMMA AfterNodeInv ==
    ASSUME NEW k \in Slot, SlotInv(k), k.pc = "node",
           NEW th \in Channels, th.repairs <= MaxRepairs,
           NEW c \in Results(k.node, IF k.ran = {} THEN th ELSE k.ch, k.asks)
    PROVE  /\ AfterNode(k, c) \in Slot /\ SlotInv(AfterNode(k, c))
           /\ c \in Channels /\ c.repairs <= MaxRepairs
  <1> DEFINE ch == IF k.ran = {} THEN th ELSE k.ch
             n == AfterNode(k, c)
  <1>1. k.node \in Nodes /\ ch \in Channels /\ k.asks \in BOOLEAN /\ k.calls \in Nat
        /\ k.ran \in SUBSET Nodes
    BY DEF Slot
  <1> HIDE DEF ch
  <1>2. /\ c \in Channels
        /\ c.repairs = IF k.node = "repair" THEN ch.repairs + 1 ELSE ch.repairs
        /\ k.node # "schema_validation" => c.plan = ch.plan /\ c.issues = ch.issues
        /\ k.node = "schema_validation" =>
               /\ c.plan <=> c.issues = "none"
               /\ ~c.plan => c.status \in RunStatus
        /\ k.node = "deterministic_gate" =>
               /\ c.status \in RunStatus
               /\ ch.issues = "none" => c.status = "completed"
        /\ k.node = "human_interrupt" => c.status = ch.status
    <2>1. c \in Results(k.node, ch, k.asks)
      BY DEF ch
    <2> QED
      BY <1>1, <2>1, ResultFacts
  <1>3. PICK m \in Nat : /\ m = IF k.node = "candidate_generation" THEN k.calls + 1 ELSE k.calls
                        /\ n = [pc |-> "save", node |-> k.node, ran |-> k.ran \cup {k.node},
                                asks |-> k.asks, ch |-> c, mine |-> k.mine, calls |-> m]
    <2>1. PICK m \in Nat :
            m = IF k.node = "candidate_generation" THEN k.calls + 1 ELSE k.calls
      BY <1>1
    <2>2. n = [k EXCEPT !.pc = "save", !.ch = c, !.ran = k.ran \cup {k.node}, !.calls = m]
      BY <2>1 DEF AfterNode
    <2>3. n = [pc |-> "save", node |-> k.node, ran |-> k.ran \cup {k.node},
               asks |-> k.asks, ch |-> c, mine |-> k.mine, calls |-> m]
      BY <2>2 DEF Slot
    <2> QED
      BY <2>1, <2>3
  <1>4. n \in Slot
    <2>1. k.ran \cup {k.node} \in SUBSET Nodes /\ k.mine \in Row
      BY <1>1 DEF Slot
    <2> QED
      BY <1>1, <1>2, <1>3, <2>1 DEF Slot
  <1>5. k.ran # {} => ch = k.ch
    BY DEF ch
  <1>6. c.repairs <= MaxRepairs
    <2>1. ch.repairs <= MaxRepairs
      BY DEF ch, SlotInv, CountsBounded
    <2>2. k.node = "repair" => ch.repairs < MaxRepairs
      BY <1>5 DEF SlotInv, CountsBounded
    <2> QED
      BY <1>1, <1>2, <2>1, <2>2, RepairsAssumption DEF Channels
  <1>7. RunsNodes(n)
    BY <1>3 DEF RunsNodes, SlotInv
  <1>8. EndsWithStatus(n)
    BY <1>2, <1>3, <1>5 DEF EndsWithStatus, SlotInv, RunsNodes
  <1>9. CountsBounded(n)
    BY <1>3, <1>6 DEF CountsBounded, SlotInv
  <1>10. CallsCounted(n)
    <2>1. k.calls <= 1 + ch.repairs /\ ch.repairs \in Nat
      BY <1>1, <1>5 DEF SlotInv, RunsNodes, CallsCounted, Channels
    <2>2. k.node \in {"intent_parse", "profile_enrichment", "candidate_generation"} =>
            k.calls <= ch.repairs
      BY <1>1, <1>5 DEF SlotInv, RunsNodes, CallsCounted, CallPending, Channels
    <2> QED
      BY <1>1, <1>2, <1>3, <2>1, <2>2 DEF CallsCounted, CallPending, Channels
  <1>11. HasPlan(k) => k.node \in {"hocon_compile", "deterministic_gate"} /\ ch.issues = "none"
    BY <1>5 DEF SlotInv, PlanGoesToGate, HasPlan
  <1>12. k.node # "schema_validation" => HasPlan(n) = HasPlan(k)
    <2>1. "schema_validation" \in k.ran => ch = k.ch
      BY <1>5
    <2>2. k.node # "schema_validation" =>
            ("schema_validation" \in n.ran <=> "schema_validation" \in k.ran)
      BY <1>1, <1>3
    <2>3. k.node # "schema_validation" =>
            ("schema_validation" \in k.ran => c.plan = k.ch.plan)
      BY <1>2, <2>1
    <2> SUFFICES ASSUME k.node # "schema_validation" PROVE HasPlan(n) = HasPlan(k)
      OBVIOUS
    <2>4. CASE "schema_validation" \in k.ran
      BY <1>3, <2>2, <2>3, <2>4 DEF HasPlan
    <2>5. CASE "schema_validation" \notin k.ran
      BY <1>3, <2>2, <2>5 DEF HasPlan
    <2> QED
      BY <2>4, <2>5
  <1>13. PlanGoesToGate(n)
    BY <1>2, <1>3, <1>11, <1>12 DEF PlanGoesToGate, HasPlan
  <1>14. GateNeedsPlan(n)
    BY <1>3, <1>12 DEF GateNeedsPlan, SlotInv
  <1> QED
    BY <1>2, <1>4, <1>6, <1>7, <1>8, <1>9, <1>10, <1>13, <1>14 DEF SlotInv

\* The progress of a node was saved.
LEMMA AfterSaveInv ==
    ASSUME NEW k \in Slot, SlotInv(k), k.pc = "save",
           NEW r \in Row, r.repairs <= MaxRepairs,
           NEW next, next = NextNode(k.node, k.ch)
    PROVE  AfterSave(k, next, r) \in Slot /\ SlotInv(AfterSave(k, next, r))
  <1> DEFINE n == AfterSave(k, next, r)
  <1>1. k.node \in Nodes /\ k.ch \in Channels
    BY DEF Slot
  <1>2. /\ next \in Nodes
        /\ next # "intent_parse"
        /\ next \in {"human_interrupt", "end"} =>
               \/ k.node = "intent_parse" /\ k.ch.status = "needs_clarification"
               \/ k.node = "candidate_generation" /\ k.ch.status = "failed"
               \/ k.node = "schema_validation" /\ ~k.ch.plan
               \/ k.node \in {"deterministic_gate", "human_interrupt", "end"}
        /\ next = "repair" =>
               /\ k.ch.repairs < MaxRepairs
               /\ \/ k.node = "schema_validation" /\ ~k.ch.plan
                  \/ k.node = "deterministic_gate" /\ k.ch.status # "completed"
        /\ next = "profile_enrichment" => k.node = "intent_parse"
        /\ next = "candidate_generation" => k.node \in {"profile_enrichment", "repair"}
        /\ next = "hocon_compile" <=> k.node = "schema_validation" /\ k.ch.plan
        /\ next = "deterministic_gate" <=> k.node = "hocon_compile"
        /\ k.node = "deterministic_gate" /\ k.ch.status = "completed" => next = "end"
    BY <1>1, NextNodeFacts
  <1>3. PICK p \in {"persist", "node"} :
            /\ p = IF next = "end" THEN "persist" ELSE "node"
            /\ n = [pc |-> p, node |-> next, ran |-> k.ran, asks |-> k.asks, ch |-> k.ch,
                    mine |-> r, calls |-> k.calls]
    <2>1. PICK p \in {"persist", "node"} : p = IF next = "end" THEN "persist" ELSE "node"
      OBVIOUS
    <2>2. n = [k EXCEPT !.pc = p, !.node = next, !.mine = r]
      BY <2>1 DEF AfterSave
    <2>3. n = [pc |-> p, node |-> next, ran |-> k.ran, asks |-> k.asks, ch |-> k.ch,
               mine |-> r, calls |-> k.calls]
      BY <2>2 DEF Slot
    <2> QED
      BY <2>1, <2>3
  <1>4. n \in Slot
    BY <1>2, <1>3 DEF Slot
  <1>5. RunsNodes(n)
    BY <1>3 DEF RunsNodes, SlotInv
  <1>6. EndsWithStatus(n)
    BY <1>2, <1>3 DEF EndsWithStatus, SlotInv, RunsNodes, RunStatus
  <1>7. CountsBounded(n)
    BY <1>2, <1>3 DEF CountsBounded, SlotInv, RunsNodes
  <1>8. CallsCounted(n)
    BY <1>2, <1>3 DEF CallsCounted, CallPending, SlotInv
  <1>9. PlanGoesToGate(n)
    <2>1. HasPlan(n) = HasPlan(k) /\ n.ch = k.ch /\ n.ran = k.ran /\ n.node = next
          /\ n.pc = IF next = "end" THEN "persist" ELSE "node"
      BY <1>3 DEF HasPlan
    <2> SUFFICES ASSUME HasPlan(n) PROVE PlanGoesToGate(n)
      BY DEF PlanGoesToGate
    <2>2. PlanGoesToGate(k) /\ k.ch.plan
      BY <2>1 DEF SlotInv, HasPlan
    <2>3. CASE k.node = "schema_validation"
      BY <1>2, <2>1, <2>2, <2>3 DEF PlanGoesToGate
    <2>4. CASE k.node = "hocon_compile"
      BY <1>2, <2>1, <2>2, <2>4 DEF PlanGoesToGate
    <2>5. CASE k.node = "deterministic_gate"
      BY <1>2, <2>1, <2>2, <2>5 DEF PlanGoesToGate
    <2> QED
      BY <2>1, <2>2, <2>3, <2>4, <2>5 DEF PlanGoesToGate
  <1>10. GateNeedsPlan(n)
    BY <1>2, <1>3 DEF GateNeedsPlan, HasPlan, SlotInv, RunsNodes
  <1> QED
    BY <1>4, <1>5, <1>6, <1>7, <1>8, <1>9, <1>10 DEF SlotInv

\* The result was persisted.
LEMMA AfterPersistInv ==
    ASSUME NEW k \in Slot, SlotInv(k), k.pc = "persist", NEW r \in Row, r.repairs <= MaxRepairs
    PROVE  AfterPersist(k, r) \in Slot /\ SlotInv(AfterPersist(k, r))
  <1> DEFINE n == AfterPersist(k, r)
  <1>1. n = [pc |-> "ack", node |-> k.node, ran |-> k.ran, asks |-> k.asks, ch |-> k.ch,
             mine |-> r, calls |-> k.calls]
    <2>1. n = [k EXCEPT !.pc = "ack", !.mine = r]
      BY DEF AfterPersist
    <2> QED
      BY <2>1 DEF Slot
  <1>2. n \in Slot
    BY <1>1 DEF Slot
  <1>3. SlotInv(n)
    BY <1>1 DEF SlotInv, RunsNodes, EndsWithStatus, CountsBounded, CallsCounted, CallPending,
                PlanGoesToGate, GateNeedsPlan, HasPlan
  <1> QED
    BY <1>2, <1>3

-----------------------------------------------------------------------------
(***************************************************************************)
(* The steps                                                               *)
(***************************************************************************)

\* A step that changes one task keeps the invariant of the others.
LEMMA OneSlotChanges ==
    ASSUME worker \in [Workers -> Slot], \A v \in Workers : SlotInv(worker[v]),
           NEW w \in Workers, NEW k \in Slot, SlotInv(k), worker' = [worker EXCEPT ![w] = k]
    PROVE  worker' \in [Workers -> Slot] /\ \A v \in Workers : SlotInv(worker[v])'
  <1>1. \A v \in Workers : worker'[v] = IF v = w THEN k ELSE worker[v]
    OBVIOUS
  <1>2. worker' \in [Workers -> Slot]
    OBVIOUS
  <1>3. ASSUME NEW v \in Workers PROVE SlotInv(worker'[v])
    BY <1>1
  <1> QED
    BY <1>2, <1>3

LEMMA WrittenFacts ==
    ASSUME NEW old \in Row, NEW mine \in Row, NEW new \in Row,
           old.repairs <= MaxRepairs, new.repairs <= MaxRepairs
    PROVE  Written(old, mine, new) \in Row /\ Written(old, mine, new).repairs <= MaxRepairs
  BY DEF Written, Column, Row

LEMMA InitCoreInv == Init => CoreInv
  <1> SUFFICES ASSUME Init PROVE CoreInv
    OBVIOUS
  <1>1. row \in Row /\ row.repairs = 0 /\ thread \in Channels /\ thread.repairs = 0
    BY DEF Init, NoRow, NewThread, Row, RunStatus, Channels, ThreadStatus, Issues
  <1>2. worker \in [Workers -> Slot] /\ \A w \in Workers : SlotInv(worker[w])
    BY IdleInv DEF Init
  <1>3. direct \in Slot /\ SlotInv(direct)
    BY IdleInv DEF Init
  <1>4. TypeOK
    BY <1>1, <1>2, <1>3, TroublesAssumption DEF Init, TypeOK, VersionStatus
  <1> QED
    BY <1>1, <1>2, <1>3, <1>4, RepairsAssumption DEF CoreInv

LEMMA ApiPreservesCoreInv ==
    ASSUME CoreInv,
           \/ StartGeneration
           \/ \E a \in Answers : ReadForAnswer(a) \/ WriteAnswer(a)
           \/ \E r \in Requests : QueueTask(r) \/ QueueUnavailable(r) \/ ApiDies(r)
    PROVE  CoreInv'
  <1>1. CASE StartGeneration
    BY <1>1 DEF CoreInv, TypeOK, StartGeneration, Row, RunStatus, Requests
  <1>2. ASSUME NEW a \in Answers, ReadForAnswer(a) PROVE CoreInv'
    BY <1>2 DEF CoreInv, TypeOK, ReadForAnswer, Requests
  <1>3. ASSUME NEW a \in Answers, WriteAnswer(a) PROVE CoreInv'
    BY <1>3 DEF CoreInv, TypeOK, WriteAnswer, Row, RunStatus, Requests
  <1>4. ASSUME NEW r \in Requests, QueueTask(r) PROVE CoreInv'
    BY <1>4 DEF CoreInv, TypeOK, QueueTask
  <1>5. ASSUME NEW r \in Requests, QueueUnavailable(r) PROVE CoreInv'
    BY <1>5, TroublesAssumption DEF CoreInv, TypeOK, QueueUnavailable, Row, RunStatus
  <1>6. ASSUME NEW r \in Requests, ApiDies(r) PROVE CoreInv'
    BY <1>6, TroublesAssumption DEF CoreInv, TypeOK, ApiDies
  <1> QED
    BY <1>1, <1>2, <1>3, <1>4, <1>5, <1>6

LEMMA StartTaskPreservesCoreInv ==
    ASSUME CoreInv, NEW w \in Workers, StartTask(w)
    PROVE  CoreInv'
  <1> DEFINE open == asks /\ answers \cap Useful = {}
  <1>1. open \in BOOLEAN
    OBVIOUS
  <1> HIDE DEF open
  <1>2. Started(open, row) \in Slot /\ SlotInv(Started(open, row))
    BY <1>1, StartedInv DEF CoreInv, TypeOK
  <1>3. worker' = [worker EXCEPT ![w] = Started(open, row)]
    BY DEF StartTask, open
  <1>4. worker' \in [Workers -> Slot] /\ \A v \in Workers : SlotInv(worker[v])'
    BY <1>2, <1>3, OneSlotChanges DEF CoreInv, TypeOK
  <1> QED
    BY <1>4 DEF CoreInv, TypeOK, StartTask

LEMMA RunNodePreservesCoreInv ==
    ASSUME CoreInv, NEW w \in Workers, RunNode(w)
    PROVE  CoreInv'
  <1> DEFINE k == worker[w]
  <1>1. k \in Slot /\ SlotInv(k) /\ thread \in Channels /\ thread.repairs <= MaxRepairs
    BY DEF CoreInv, TypeOK
  <1>2. PICK c \in Results(k.node, IF k.ran = {} THEN thread ELSE k.ch, k.asks) :
          /\ k.pc = "node"
          /\ thread' = c
          /\ worker' = [worker EXCEPT ![w] = AfterNode(k, c)]
          /\ UNCHANGED <<row, answers, version, asks, req, seen, queue, crashes, faults, direct>>
    BY DEF RunNode, Loaded
  <1>3. /\ AfterNode(k, c) \in Slot /\ SlotInv(AfterNode(k, c))
        /\ c \in Channels /\ c.repairs <= MaxRepairs
    BY <1>1, <1>2, AfterNodeInv
  <1>4. worker' \in [Workers -> Slot] /\ \A v \in Workers : SlotInv(worker[v])'
    BY <1>2, <1>3, OneSlotChanges DEF CoreInv, TypeOK
  <1> QED
    BY <1>2, <1>3, <1>4 DEF CoreInv, TypeOK

\* What a task writes into the row is within the bound.
LEMMA ProgressFacts ==
    ASSUME NEW k \in Slot, SlotInv(k)
    PROVE  Progress(k) \in Row /\ Progress(k).repairs <= MaxRepairs
  <1>1. ShownStatus(k.ch.status) \in RunStatus
    BY DEF ShownStatus, RunStatus
  <1> QED
    BY <1>1 DEF Progress, Row, Slot, Channels, SlotInv, CountsBounded

LEMMA ResultIsRow ==
    ASSUME NEW k \in Slot, SlotInv(k), k.pc = "persist"
    PROVE  Result(k) \in Row /\ Result(k).repairs <= MaxRepairs
  BY RepairsAssumption
     DEF Result, Row, Slot, Channels, SlotInv, CountsBounded, EndsWithStatus

LEMMA SaveProgressPreservesCoreInv ==
    ASSUME CoreInv, NEW w \in Workers, SaveProgress(w)
    PROVE  CoreInv'
  <1> DEFINE k == worker[w]
             new == Progress(k)
             next == NextNode(k.node, k.ch)
  <1>1. k \in Slot /\ SlotInv(k) /\ k.mine \in Row /\ row \in Row /\ row.repairs <= MaxRepairs
    BY DEF CoreInv, TypeOK, Slot
  <1>2. /\ k.pc = "save"
        /\ row' = Written(row, k.mine, new)
        /\ worker' = [worker EXCEPT ![w] = AfterSave(k, next, new)]
        /\ UNCHANGED <<answers, version, asks, req, seen, queue, thread, crashes, faults, direct>>
    BY DEF SaveProgress
  <1>3. new \in Row /\ new.repairs <= MaxRepairs
    BY <1>1, ProgressFacts
  <1>4. row' \in Row /\ row'.repairs <= MaxRepairs
    BY <1>1, <1>2, <1>3, WrittenFacts
  <1>5. AfterSave(k, next, new) \in Slot /\ SlotInv(AfterSave(k, next, new))
    BY <1>1, <1>2, <1>3, AfterSaveInv
  <1>6. worker' \in [Workers -> Slot] /\ \A v \in Workers : SlotInv(worker[v])'
    BY <1>2, <1>5, OneSlotChanges DEF CoreInv, TypeOK
  <1> QED
    BY <1>2, <1>4, <1>6 DEF CoreInv, TypeOK

LEMMA PersistResultPreservesCoreInv ==
    ASSUME CoreInv, NEW w \in Workers, PersistResult(w)
    PROVE  CoreInv'
  <1> DEFINE k == worker[w]
             new == Result(k)
  <1>1. k \in Slot /\ SlotInv(k) /\ k.mine \in Row /\ row \in Row /\ row.repairs <= MaxRepairs
    BY DEF CoreInv, TypeOK, Slot
  <1>2. /\ k.pc = "persist"
        /\ row' = Written(row, k.mine, new)
        /\ version' = IF HasPlan(k) THEN "ready" ELSE version
        /\ worker' = [worker EXCEPT ![w] = AfterPersist(k, new)]
        /\ UNCHANGED <<answers, asks, req, seen, queue, thread, crashes, faults, direct>>
    BY DEF PersistResult
  <1>3. new \in Row /\ new.repairs <= MaxRepairs
    BY <1>1, <1>2, ResultIsRow
  <1>4. row' \in Row /\ row'.repairs <= MaxRepairs
    BY <1>1, <1>2, <1>3, WrittenFacts
  <1>5. AfterPersist(k, new) \in Slot /\ SlotInv(AfterPersist(k, new))
    BY <1>1, <1>2, <1>3, AfterPersistInv
  <1>6. worker' \in [Workers -> Slot] /\ \A v \in Workers : SlotInv(worker[v])'
    BY <1>2, <1>5, OneSlotChanges DEF CoreInv, TypeOK
  <1> QED
    BY <1>2, <1>4, <1>6 DEF CoreInv, TypeOK, VersionStatus

\* The steps after which a worker is idle again.
LEMMA TaskEndPreservesCoreInv ==
    ASSUME CoreInv, NEW w \in Workers,
           Acknowledge(w) \/ WorkflowFails(w) \/ TaskGivesUp(w) \/ WorkerDies(w)
    PROVE  CoreInv'
  <1>1. worker' = [worker EXCEPT ![w] = Idle]
    BY DEF Acknowledge, WorkflowFails, TaskGivesUp, WorkerDies
  <1>2. worker' \in [Workers -> Slot] /\ \A v \in Workers : SlotInv(worker[v])'
    BY <1>1, IdleInv, OneSlotChanges DEF CoreInv, TypeOK
  <1>3. CASE Acknowledge(w)
    BY <1>2, <1>3 DEF CoreInv, TypeOK, Acknowledge
  <1>4. CASE WorkflowFails(w)
    <2> DEFINE mine == worker[w].mine
               new == [mine EXCEPT !.status = "failed"]
    <2>1. mine \in Row /\ mine.repairs <= MaxRepairs
      BY DEF CoreInv, TypeOK, Slot, SlotInv, CountsBounded
    <2>2. new \in Row /\ new.repairs <= MaxRepairs
      BY <2>1 DEF Row, RunStatus
    <2>3. row' \in Row /\ row'.repairs <= MaxRepairs
      BY <1>4, <2>1, <2>2, WrittenFacts DEF WorkflowFails, CoreInv, TypeOK
    <2> QED
      BY <1>2, <1>4, <2>3 DEF CoreInv, TypeOK, WorkflowFails
  <1>5. CASE TaskGivesUp(w)
    BY <1>2, <1>5, TroublesAssumption DEF CoreInv, TypeOK, TaskGivesUp
  <1>6. CASE WorkerDies(w)
    BY <1>2, <1>6, TroublesAssumption DEF CoreInv, TypeOK, WorkerDies
  <1> QED
    BY <1>3, <1>4, <1>5, <1>6

\* The steps of the direct request.
LEMMA DirectPreservesCoreInv ==
    ASSUME CoreInv, DirectStep
    PROVE  CoreInv'
  <1>1. /\ direct \in Slot /\ SlotInv(direct)
        /\ thread \in Channels /\ thread.repairs <= MaxRepairs
    BY DEF CoreInv, TypeOK
  <1>2. NoRow \in Row /\ NoRow.repairs <= MaxRepairs
    BY RepairsAssumption DEF NoRow, Row, RunStatus
  <1>3. CASE DirectStart
    <2>1. Started(asks, NoRow) \in Slot /\ SlotInv(Started(asks, NoRow))
      BY <1>2, StartedInv DEF CoreInv, TypeOK
    <2> QED
      BY <1>3, <2>1 DEF DirectStart, CoreInv, TypeOK
  <1>4. CASE DirectNode
    <2>1. PICK c \in Results(direct.node, IF direct.ran = {} THEN thread ELSE direct.ch,
                             direct.asks) :
            /\ direct.pc = "node"
            /\ thread' = c
            /\ direct' = AfterSave(AfterNode(direct, c), NextNode(direct.node, c), NoRow)
            /\ UNCHANGED <<row, answers, version, asks, req, seen, queue, worker, crashes, faults>>
      BY <1>4 DEF DirectNode, Loaded
    <2> DEFINE k == AfterNode(direct, c)
    <2>2. /\ k \in Slot /\ SlotInv(k)
          /\ c \in Channels /\ c.repairs <= MaxRepairs
      BY <1>1, <2>1, AfterNodeInv
    <2>3. k.pc = "save" /\ k.node = direct.node /\ k.ch = c
      BY <1>1 DEF AfterNode, Slot
    <2> HIDE DEF k
    <2>4. direct' = AfterSave(k, NextNode(k.node, k.ch), NoRow)
      BY <2>1, <2>3 DEF k
    <2>5. direct' \in Slot /\ SlotInv(direct')
      BY <1>2, <2>2, <2>3, <2>4, AfterSaveInv
    <2> QED
      BY <2>1, <2>2, <2>5 DEF CoreInv, TypeOK
  <1>5. CASE DirectPersist
    <2>1. DirectResult \in Row /\ DirectResult.repairs <= MaxRepairs
      BY <1>1, <1>5
         DEF DirectPersist, DirectResult, Row, Slot, Channels, SlotInv, CountsBounded, EndsWithStatus
    <2> QED
      BY <1>5, <2>1, IdleInv DEF DirectPersist, CoreInv, TypeOK, VersionStatus
  <1>6. CASE DirectFails
    <2>1. row' \in Row /\ row'.repairs <= MaxRepairs
      BY <1>2, <1>6 DEF DirectFails, Row, RunStatus
    <2> QED
      BY <1>6, <2>1, IdleInv DEF DirectFails, CoreInv, TypeOK
  <1>7. CASE DirectDies
    BY <1>7, IdleInv, TroublesAssumption DEF DirectDies, CoreInv, TypeOK
  <1> QED
    BY <1>3, <1>4, <1>5, <1>6, <1>7 DEF DirectStep

LEMMA NextCoreInv ==
    ASSUME CoreInv, [Next]_vars
    PROVE  CoreInv'
  <1>1. CASE \/ StartGeneration
             \/ \E a \in Answers : ReadForAnswer(a) \/ WriteAnswer(a)
             \/ \E r \in Requests : QueueTask(r) \/ QueueUnavailable(r) \/ ApiDies(r)
    BY <1>1, ApiPreservesCoreInv
  <1>2. ASSUME NEW w \in Workers, StartTask(w) PROVE CoreInv'
    BY <1>2, StartTaskPreservesCoreInv
  <1>3. ASSUME NEW w \in Workers, TaskStep(w) PROVE CoreInv'
    BY <1>3, RunNodePreservesCoreInv, SaveProgressPreservesCoreInv, PersistResultPreservesCoreInv,
       TaskEndPreservesCoreInv
       DEF TaskStep
  <1>4. ASSUME NEW w \in Workers, WorkflowFails(w) \/ TaskGivesUp(w) \/ WorkerDies(w)
        PROVE CoreInv'
    BY <1>4, TaskEndPreservesCoreInv
  <1>5. CASE UNCHANGED vars
    BY <1>5 DEF vars, CoreInv, TypeOK
  <1>6. CASE DirectStep
    BY <1>6, DirectPreservesCoreInv
  <1> QED
    BY <1>1, <1>2, <1>3, <1>4, <1>5, <1>6 DEF Next

\* A step of the direct request, before the run is started.
LEMMA DirectKeepsStart ==
    ASSUME BaseInv, DirectStep
    PROVE  NotStarted' /\ OwnPlan'
  <1>1. /\ req["start"] = "new"
        /\ direct.pc = "idle" => direct = Idle
        /\ row = NoRow
        /\ queue = 0
        /\ \A a \in Answers : req[a] = "new"
        /\ \A w \in Workers : worker[w].pc = "idle"
    BY DEF BaseInv, NotStarted, DirectStep, DirectStart, DirectNode, DirectPersist, DirectFails,
           DirectDies
  <1>2. /\ direct \in Slot /\ SlotInv(direct) /\ thread \in Channels /\ crashes \in Nat
        /\ req \in [Requests -> {"new", "read", "queue", "done"}] /\ "start" \in Requests
    BY DEF BaseInv, CoreInv, TypeOK, Requests
  <1>3. Idle.pc = "idle" /\ Idle.ran = {} /\ ~Idle.ch.plan
    BY DEF Idle, NewThread
  <1>4. CASE DirectStart
    <2>1. direct'.ran = {} /\ ~direct'.ch.plan /\ direct'.pc = "node"
      BY <1>4 DEF DirectStart, Started, NewThread
    <2> QED
      BY <1>1, <1>3, <1>4, <2>1 DEF DirectStart, BaseInv, NotStarted, OwnPlan
  <1>5. CASE DirectNode
    <2>1. PICK c \in Results(direct.node, IF direct.ran = {} THEN thread ELSE direct.ch,
                             direct.asks) :
            /\ direct.pc = "node"
            /\ direct' = AfterSave(AfterNode(direct, c), NextNode(direct.node, c), NoRow)
            /\ UNCHANGED <<row, req, queue, worker, crashes>>
      BY <1>5 DEF DirectNode, Loaded
    <2> DEFINE ch == IF direct.ran = {} THEN thread ELSE direct.ch
    <2>2. ch \in Channels /\ direct.node \in Nodes /\ direct.asks \in BOOLEAN
      BY <1>2 DEF Slot
    <2>3. direct.node # "schema_validation" => c.plan = ch.plan
      BY <2>1, <2>2, ResultFacts
    <2>4. /\ direct'.pc \in {"node", "persist"}
          /\ direct'.ran = direct.ran \cup {direct.node}
          /\ direct'.ch = c
      <3> DEFINE k == AfterNode(direct, c)
      <3>1. k \in [pc : {"save"}, node : Nodes, ran : {direct.ran \cup {direct.node}},
                   asks : BOOLEAN, ch : {c}, mine : Row, calls : {k.calls}]
        BY <1>2 DEF AfterNode, Slot
      <3> HIDE DEF k
      <3>2. direct' = AfterSave(k, NextNode(direct.node, c), NoRow)
        BY <2>1 DEF k
      <3> QED
        BY <3>1, <3>2 DEF AfterSave
    <2>5. ASSUME crashes = 0, c.plan PROVE "schema_validation" \in direct'.ran
      <3>1. CASE direct.node = "schema_validation"
        BY <2>4, <3>1
      <3>2. CASE direct.node # "schema_validation"
        BY <1>1, <2>3, <2>4, <2>5, <3>2 DEF BaseInv, OwnPlan
      <3> QED
        BY <3>1, <3>2
    <2>6. direct'.ran # {}
      BY <2>4
    <2> QED
      BY <1>1, <2>1, <2>4, <2>5, <2>6 DEF NotStarted, OwnPlan
  <1>6. CASE DirectPersist \/ DirectFails
    <2>1. req'["start"] = "done" /\ direct' = Idle
      BY <1>2, <1>6 DEF DirectPersist, DirectFails
    <2> QED
      BY <1>3, <2>1 DEF NotStarted, OwnPlan
  <1>7. CASE DirectDies
    <2>1. crashes' # 0 /\ direct' = Idle /\ UNCHANGED <<row, req, queue, worker>>
      BY <1>2, <1>7 DEF DirectDies
    <2> QED
      BY <1>1, <1>3, <2>1 DEF NotStarted, OwnPlan
  <1> QED
    BY <1>4, <1>5, <1>6, <1>7 DEF DirectStep

\* Every other step belongs to a run that was started.
LEMMA OthersKeepStart ==
    ASSUME BaseInv, Next, ~DirectStep
    PROVE  NotStarted' /\ OwnPlan'
  <1>1. /\ req \in [Requests -> {"new", "read", "queue", "done"}] /\ "start" \in Requests
        /\ \A a \in Answers : a \in Requests /\ a # "start"
    BY AnswersAssumption DEF BaseInv, CoreInv, TypeOK, Requests
  <1>2. UNCHANGED direct
    BY DEF Next, StartGeneration, ReadForAnswer, WriteAnswer, QueueTask, QueueUnavailable, ApiDies,
           StartTask, TaskStep, RunNode, SaveProgress, PersistResult, Acknowledge, WorkflowFails,
           TaskGivesUp, WorkerDies
  <1>3. CASE StartGeneration
    <2>1. req'["start"] = "queue" /\ direct.pc = "idle" /\ direct = Idle
      BY <1>1, <1>3 DEF StartGeneration, BaseInv, NotStarted
    <2> QED
      BY <1>2, <2>1 DEF NotStarted, OwnPlan, Idle, NewThread
  <1>4. CASE ~StartGeneration
    <2>1. ASSUME NEW a \in Answers, ReadForAnswer(a) \/ WriteAnswer(a)
          PROVE  req["start"] # "new" /\ req'["start"] = req["start"]
      BY <1>1, <2>1 DEF ReadForAnswer, WriteAnswer, BaseInv, NotStarted, NoRow
    <2>2. ASSUME NEW r \in Requests, QueueTask(r) \/ QueueUnavailable(r) \/ ApiDies(r)
          PROVE  req["start"] # "new" /\ req'["start"] # "new"
      <3>1. req[r] # "new" /\ req' = [req EXCEPT ![r] = "done"]
        BY <2>2 DEF QueueTask, QueueUnavailable, ApiDies
      <3>2. req["start"] # "new"
        BY <3>1 DEF BaseInv, NotStarted, Requests
      <3> QED
        BY <1>1, <3>1, <3>2
    <2>3. ASSUME NEW w \in Workers,
                 StartTask(w) \/ TaskStep(w) \/ WorkflowFails(w) \/ TaskGivesUp(w) \/ WorkerDies(w)
          PROVE  req["start"] # "new" /\ req'["start"] = req["start"]
      <3>1. UNCHANGED req /\ (queue > 0 \/ worker[w].pc # "idle")
        BY <2>3 DEF StartTask, TaskStep, RunNode, SaveProgress, PersistResult, Acknowledge,
                    WorkflowFails, TaskGivesUp, WorkerDies
      <3> QED
        BY <3>1 DEF BaseInv, NotStarted
    <2>4. req["start"] # "new" /\ req'["start"] # "new"
      BY <1>4, <2>1, <2>2, <2>3 DEF Next
    <2>5. direct = Idle /\ direct.pc = "idle"
      BY <2>4 DEF BaseInv, NotStarted, Idle
    <2> QED
      BY <1>2, <2>4, <2>5 DEF NotStarted, OwnPlan, Idle, NewThread
  <1> QED
    BY <1>3, <1>4

LEMMA InitBaseInv == Init => BaseInv
  BY InitCoreInv DEF Init, BaseInv, NotStarted, OwnPlan, Idle, NewThread, Requests

LEMMA NextBaseInv ==
    ASSUME BaseInv, [Next]_vars
    PROVE  BaseInv'
  <1>1. CoreInv'
    BY NextCoreInv DEF BaseInv
  <1>2. CASE UNCHANGED vars
    BY <1>1, <1>2 DEF vars, BaseInv, NotStarted, OwnPlan
  <1>3. CASE DirectStep
    BY <1>1, <1>3, DirectKeepsStart DEF BaseInv
  <1>4. CASE Next /\ ~DirectStep
    BY <1>1, <1>4, OthersKeepStart DEF BaseInv
  <1> QED
    BY <1>2, <1>3, <1>4

-----------------------------------------------------------------------------
(***************************************************************************)
(* The status of the channels fits the node                                *)
(***************************************************************************)

\* Which status and questions a node leaves.
LEMMA ResultStatus ==
    ASSUME NEW node \in Nodes, NEW ch \in Channels, NEW q \in BOOLEAN,
           NEW c \in Results(node, ch, q)
    PROVE  /\ IF node = "intent_parse"
              THEN /\ c.questions = q
                   /\ c.status = IF q THEN "needs_clarification" ELSE "running"
              ELSE c.questions = ch.questions
           /\ node = "candidate_generation" => c.status \in {"candidate_generated", "failed"}
           /\ node = "schema_validation" => c.status \in {"schema_valid", "validation_failed"}
           /\ node = "deterministic_gate" => c.status \in {"completed", "validation_failed"}
           /\ node = "repair" => c.status = "repairing"
           /\ node \in {"profile_enrichment", "hocon_compile", "human_interrupt", "end"} => c = ch
  <1>1. CASE node = "intent_parse"
    <2>1. c = [ch EXCEPT !.questions = q,
                         !.status = IF q THEN "needs_clarification" ELSE "running"]
      BY <1>1 DEF Results, IntentParse
    <2> QED
      BY <1>1, <2>1 DEF Channels
  <1>2. CASE node = "candidate_generation"
    <2>1. PICK s \in ModelOutcomes : c = [ch EXCEPT !.status = s]
      BY <1>2 DEF Results, CandidateGeneration
    <2> QED
      BY <1>2, <2>1 DEF Channels, ModelOutcomes
  <1>3. CASE node = "schema_validation"
    <2>1. PICK i \in Issues :
            c = [ch EXCEPT !.issues = i, !.plan = (i = "none"),
                           !.status = IF i = "none" THEN "schema_valid" ELSE "validation_failed"]
      BY <1>3 DEF Results, SchemaValidation
    <2> QED
      BY <1>3, <2>1 DEF Channels
  <1>4. CASE node = "deterministic_gate"
    <2>1. c = [ch EXCEPT !.status =
                   IF ch.issues = "none" THEN "completed" ELSE "validation_failed"]
      BY <1>4 DEF Results, DeterministicGate
    <2> QED
      BY <1>4, <2>1 DEF Channels
  <1>5. CASE node = "repair"
    <2>1. c = [ch EXCEPT !.repairs = ch.repairs + 1, !.status = "repairing"]
      BY <1>5 DEF Results, Repair
    <2> QED
      BY <1>5, <2>1 DEF Channels
  <1>6. CASE node \in {"profile_enrichment", "hocon_compile", "human_interrupt", "end"}
    BY <1>6 DEF Results
  <1> QED
    BY <1>1, <1>2, <1>3, <1>4, <1>5, <1>6 DEF Nodes

\* A task as it is after a node, its progress or its result.
LEMMA AfterNodeFields ==
    ASSUME NEW k \in Slot, NEW c
    PROVE  LET n == AfterNode(k, c)
           IN  /\ n.pc = "save" /\ n.node = k.node /\ n.ran = k.ran \cup {k.node}
               /\ n.asks = k.asks /\ n.ch = c /\ n.mine = k.mine
  BY DEF AfterNode, Slot

LEMMA AfterSaveFields ==
    ASSUME NEW k \in Slot, NEW next, NEW r
    PROVE  LET n == AfterSave(k, next, r)
           IN  /\ n.pc = IF next = "end" THEN "persist" ELSE "node"
               /\ n.node = next /\ n.ran = k.ran /\ n.asks = k.asks /\ n.ch = k.ch /\ n.mine = r
  BY DEF AfterSave, Slot

LEMMA AfterPersistFields ==
    ASSUME NEW k \in Slot, NEW r
    PROVE  LET n == AfterPersist(k, r)
           IN  /\ n.pc = "ack" /\ n.node = k.node /\ n.ran = k.ran /\ n.asks = k.asks
               /\ n.ch = k.ch /\ n.mine = r
  BY DEF AfterPersist, Slot

LEMMA AfterNodeFits ==
    ASSUME NEW k \in Slot, SlotInv(k), StatusFits(k), k.pc = "node", NEW th \in Channels,
           NEW c \in Results(k.node, IF k.ran = {} THEN th ELSE k.ch, k.asks)
    PROVE  StatusFits(AfterNode(k, c))
  <1> DEFINE ch == IF k.ran = {} THEN th ELSE k.ch
             n == AfterNode(k, c)
  <1>1. k.node \in Nodes /\ ch \in Channels /\ k.asks \in BOOLEAN /\ k.ran \in SUBSET Nodes
    BY DEF Slot
  <1>2. k.ran # {} => ch = k.ch
    OBVIOUS
  <1>3. c \in Results(k.node, ch, k.asks)
    OBVIOUS
  <1>4. k.node # "end" /\ (k.ran = {} => k.node = "intent_parse")
    BY DEF SlotInv, RunsNodes
  <1>5. /\ n.pc = "save" /\ n.node = k.node /\ n.ran = k.ran \cup {k.node}
        /\ n.asks = k.asks /\ n.ch = c
    BY AfterNodeFields
  <1> HIDE DEF ch, n
  <1>6. CASE k.node = "intent_parse"
    <2>1. c.questions = k.asks /\ c.status = IF k.asks THEN "needs_clarification" ELSE "running"
      BY <1>1, <1>3, <1>6, ResultStatus
    <2> QED
      BY <1>5, <1>6, <2>1 DEF StatusFits, n
  <1>7. CASE k.node # "intent_parse"
    <2>1. k.ran # {} /\ ch = k.ch
      BY <1>2, <1>4, <1>7
    <2>2. /\ k.ch.questions = k.asks
          /\ IF k.asks THEN k.ch.status = "needs_clarification" /\ k.node = "human_interrupt"
                       ELSE k.ch.status # "needs_clarification"
          /\ k.ch.status = "running" => k.node \in {"profile_enrichment", "candidate_generation"}
          /\ k.ch.status # "completed"
      BY <2>1 DEF StatusFits
    <2>3. /\ c.questions = k.asks
          /\ k.node = "candidate_generation" => c.status \in {"candidate_generated", "failed"}
          /\ k.node = "schema_validation" => c.status \in {"schema_valid", "validation_failed"}
          /\ k.node = "deterministic_gate" => c.status \in {"completed", "validation_failed"}
          /\ k.node = "repair" => c.status = "repairing"
          /\ k.node \in {"profile_enrichment", "hocon_compile", "human_interrupt"} => c = k.ch
      BY <1>1, <1>3, <1>7, <2>1, <2>2, ResultStatus
    <2>4. c.status = "completed" => k.node = "deterministic_gate"
      BY <1>1, <1>4, <1>7, <2>2, <2>3 DEF Nodes
    <2>5. c.status = "running" => k.node = "profile_enrichment"
      BY <1>1, <1>4, <1>7, <2>2, <2>3 DEF Nodes
    <2>6. IF k.asks THEN c.status = "needs_clarification" ELSE c.status # "needs_clarification"
      BY <1>1, <1>4, <1>7, <2>2, <2>3 DEF Nodes
    <2>7. k.node = "deterministic_gate" => HasPlan(n)
      <3>1. k.node = "deterministic_gate" => HasPlan(k) /\ c.plan = ch.plan
        BY <1>1, <1>3, ResultFacts DEF SlotInv, GateNeedsPlan
      <3> QED
        BY <1>5, <2>1, <3>1 DEF HasPlan
    <2> QED
      BY <1>1, <1>5, <2>2, <2>3, <2>4, <2>5, <2>6, <2>7 DEF StatusFits, n
  <1> QED
    BY <1>6, <1>7

LEMMA AfterSaveFits ==
    ASSUME NEW k \in Slot, SlotInv(k), StatusFits(k), k.pc = "save", NEW r
    PROVE  StatusFits(AfterSave(k, NextNode(k.node, k.ch), r))
  <1> DEFINE next == NextNode(k.node, k.ch)
             n == AfterSave(k, next, r)
  <1>1. /\ k.node = "intent_parse" =>
              next = IF k.ch.status = "needs_clarification" THEN "human_interrupt"
                                                            ELSE "profile_enrichment"
        /\ k.node = "profile_enrichment" => next = "candidate_generation"
        /\ k.node = "human_interrupt" => next = "end"
        /\ k.node = "deterministic_gate" /\ k.ch.status = "completed" => next = "end"
    BY DEF NextNode
  <1>2. /\ n.pc = IF next = "end" THEN "persist" ELSE "node"
        /\ n.node = next /\ n.ran = k.ran /\ n.asks = k.asks /\ n.ch = k.ch
    BY AfterSaveFields
  <1>3. HasPlan(n) = HasPlan(k) /\ k.asks \in BOOLEAN
    BY <1>2 DEF HasPlan, Slot
  <1> HIDE DEF next, n
  <1>4. SUFFICES ASSUME k.ran # {} PROVE StatusFits(n)
    BY <1>2 DEF StatusFits, n, next
  <1>5. k.asks => k.ch.status = "needs_clarification" /\ k.node \in {"intent_parse", "human_interrupt"}
    BY <1>4 DEF StatusFits
  <1>6. k.ch.status = "running" => k.node \in {"intent_parse", "profile_enrichment"}
    BY <1>4 DEF StatusFits
  <1>7. k.ch.status = "completed" => HasPlan(k) /\ k.node = "deterministic_gate"
    BY <1>4 DEF StatusFits
  <1>8. k.ch.questions = k.asks /\ (~k.asks => k.ch.status # "needs_clarification")
    BY <1>4 DEF StatusFits
  <1>9. n.asks => /\ n.ch.status = "needs_clarification"
                  /\ (n.pc = "node" /\ n.node = "human_interrupt") \/ n.pc = "persist"
    BY <1>1, <1>2, <1>5
  <1>10. n.ch.status = "running" =>
            n.pc = "node" /\ n.node \in {"profile_enrichment", "candidate_generation"}
    BY <1>1, <1>2, <1>6
  <1>11. n.ch.status = "completed" => HasPlan(n) /\ n.pc = "persist"
    BY <1>1, <1>2, <1>3, <1>7
  <1> QED
    BY <1>2, <1>3, <1>8, <1>9, <1>10, <1>11 DEF StatusFits

LEMMA AfterPersistFits ==
    ASSUME NEW k \in Slot, StatusFits(k), k.pc = "persist", NEW r
    PROVE  StatusFits(AfterPersist(k, r))
  BY AfterPersistFields DEF StatusFits, HasPlan

-----------------------------------------------------------------------------
(***************************************************************************)
(* What a task makes of the row                                            *)
(***************************************************************************)
Others(w) == \A v \in Workers : v # w => worker'[v] = worker[v]

\* SaveProgress(w), in terms of the status s that is written if it is new.
SaveWrites(w, s) ==
    /\ worker[w].pc = "save"
    /\ row'.status = Column(row.status, worker[w].mine.status, s)
    /\ row'.questions = Column(row.questions, worker[w].mine.questions, worker[w].asks)
    /\ worker'[w].pc = "node" \/ (worker'[w].pc = "persist" /\ s # "running")
    /\ worker'[w].asks = worker[w].asks
    /\ worker'[w].mine.status = s /\ worker'[w].mine.questions = worker[w].asks
    /\ s = "needs_clarification" <=> worker[w].asks
    /\ s = "completed" =>
           worker'[w].pc = "persist" /\ HasPlan(worker'[w]) /\ worker[w].node # "intent_parse"
    /\ Others(w)
    /\ UNCHANGED <<answers, version, asks, req, seen, queue, thread, crashes, faults, direct>>

\* PersistResult(w), likewise.
PersistWrites(w, s) ==
    /\ worker[w].pc = "persist"
    /\ row'.status = Column(row.status, worker[w].mine.status, s)
    /\ row'.questions = Column(row.questions, worker[w].mine.questions, worker[w].asks)
    /\ version' = IF HasPlan(worker[w]) THEN "ready" ELSE version
    /\ worker'[w].pc = "ack" /\ worker'[w].asks = worker[w].asks
    /\ worker'[w].mine.status = s /\ worker'[w].mine.questions = worker[w].asks
    /\ s # "running"
    /\ s = "needs_clarification" <=> worker[w].asks
    /\ s = "completed" => HasPlan(worker[w])
    /\ Others(w)
    /\ UNCHANGED <<answers, asks, req, seen, queue, thread, crashes, faults, direct>>

LEMMA WrittenColumns ==
    ASSUME NEW old, NEW mine, NEW new
    PROVE  /\ Written(old, mine, new).status = Column(old.status, mine.status, new.status)
           /\ Written(old, mine, new).questions = Column(old.questions, mine.questions, new.questions)
  BY DEF Written

LEMMA SaveSummary ==
    ASSUME BaseInv, AllFit, NEW w \in Workers, SaveProgress(w)
    PROVE  \E s \in RunStatus : SaveWrites(w, s)
  <1> DEFINE k == worker[w]
             new == Progress(k)
             next == NextNode(k.node, k.ch)
             n == AfterSave(k, next, new)
  <1>1. k \in Slot /\ SlotInv(k) /\ StatusFits(k) /\ worker \in [Workers -> Slot]
    BY DEF BaseInv, CoreInv, TypeOK, AllFit
  <1>2. /\ k.pc = "save" /\ row' = Written(row, k.mine, new)
        /\ worker' = [worker EXCEPT ![w] = n]
        /\ UNCHANGED <<answers, version, asks, req, seen, queue, thread, crashes, faults, direct>>
    BY DEF SaveProgress
  <1>3. worker'[w] = n /\ Others(w)
    BY <1>1, <1>2 DEF Others
  <1>4. /\ n.pc = IF next = "end" THEN "persist" ELSE "node"
        /\ n.ran = k.ran /\ n.asks = k.asks /\ n.ch = k.ch /\ n.mine = new
    BY <1>1, AfterSaveFields
  <1>5. StatusFits(n)
    BY <1>1, <1>2, AfterSaveFits
  <1>6. k.ran # {} /\ k.node \in Nodes /\ k.ch.status \in ThreadStatus
    BY <1>1, <1>2 DEF SlotInv, RunsNodes, Slot, Channels
  <1>7. /\ new \in Row /\ new.status = ShownStatus(k.ch.status)
        /\ new.questions = k.ch.questions
    BY <1>1, ProgressFacts DEF Progress
  <1> HIDE DEF k, new, next, n
  <1>8. /\ k.ch.questions = k.asks
        /\ k.asks => k.ch.status = "needs_clarification"
        /\ ~k.asks => k.ch.status # "needs_clarification"
        /\ k.ch.status = "completed" => k.node = "deterministic_gate"
    BY <1>1, <1>2, <1>6 DEF StatusFits
  <1>9. n.pc = "persist" => k.ch.status \notin {"running", "none"} /\ k.ch.status \in RunStatus
    <2>1. n.pc = "persist" => EndsWithStatus(n)
      <3>1. SlotInv(n)
        BY <1>1, <1>2, <1>7, ProgressFacts, AfterSaveInv DEF n, next, new
      <3> QED
        BY <3>1 DEF SlotInv
    <2> QED
      BY <1>4, <1>5, <1>6, <2>1 DEF EndsWithStatus, StatusFits, RunStatus
  <1>10. /\ new.status = "needs_clarification" <=> k.asks
         /\ new.status = "completed" => k.ch.status = "completed"
         /\ new.status = "running" => n.pc = "node"
    <2>1. new.status = "running" => k.ch.status = "running" \/ k.ch.status \notin RunStatus
      BY <1>7 DEF ShownStatus
    <2>2. n.pc \in {"node", "persist"}
      BY <1>4
    <2> QED
      BY <1>7, <1>8, <1>9, <2>1, <2>2 DEF ShownStatus, RunStatus
  <1>11. k.ch.status = "completed" => n.pc = "persist" /\ HasPlan(n)
    BY <1>4, <1>5, <1>6 DEF StatusFits
  <1>12. /\ row'.status = Column(row.status, k.mine.status, new.status)
         /\ row'.questions = Column(row.questions, k.mine.questions, k.asks)
    BY <1>2, <1>7, <1>8, WrittenColumns
  <1>13. new.status \in RunStatus
    BY <1>7 DEF Row
  <1>14. n.pc = "node" \/ (n.pc = "persist" /\ new.status # "running")
    BY <1>4, <1>10
  <1>15. SaveWrites(w, new.status)
    BY <1>2, <1>3, <1>4, <1>7, <1>8, <1>10, <1>11, <1>12, <1>14 DEF SaveWrites, k
  <1> QED
    BY <1>13, <1>15

LEMMA PersistSummary ==
    ASSUME BaseInv, AllFit, NEW w \in Workers, PersistResult(w)
    PROVE  \E s \in RunStatus : PersistWrites(w, s)
  <1> DEFINE k == worker[w]
             new == Result(k)
             n == AfterPersist(k, new)
  <1>1. k \in Slot /\ SlotInv(k) /\ StatusFits(k) /\ worker \in [Workers -> Slot]
    BY DEF BaseInv, CoreInv, TypeOK, AllFit
  <1>2. /\ k.pc = "persist" /\ row' = Written(row, k.mine, new)
        /\ version' = IF HasPlan(k) THEN "ready" ELSE version
        /\ worker' = [worker EXCEPT ![w] = n]
        /\ UNCHANGED <<answers, asks, req, seen, queue, thread, crashes, faults, direct>>
    BY DEF PersistResult
  <1>3. worker'[w] = n /\ Others(w)
    BY <1>1, <1>2 DEF Others
  <1>4. n.pc = "ack" /\ n.asks = k.asks /\ n.mine = new
    BY <1>1, AfterPersistFields
  <1>5. k.ran # {}
    BY <1>1, <1>2 DEF SlotInv, RunsNodes
  <1>6. new \in Row /\ new.status = k.ch.status /\ new.questions = k.ch.questions
    BY <1>1, <1>2, ResultIsRow DEF Result
  <1> HIDE DEF k, new, n
  <1>7. /\ k.ch.questions = k.asks
        /\ k.asks => k.ch.status = "needs_clarification"
        /\ ~k.asks => k.ch.status # "needs_clarification"
        /\ k.ch.status = "completed" => HasPlan(k)
        /\ k.ch.status # "running"
    BY <1>1, <1>2, <1>5 DEF StatusFits
  <1>8. /\ row'.status = Column(row.status, k.mine.status, new.status)
        /\ row'.questions = Column(row.questions, k.mine.questions, k.asks)
    BY <1>2, <1>6, <1>7, WrittenColumns
  <1>9. new.status \in RunStatus
    BY <1>6 DEF Row
  <1>10. PersistWrites(w, new.status)
    BY <1>2, <1>3, <1>4, <1>6, <1>7, <1>8 DEF PersistWrites, k
  <1> QED
    BY <1>9, <1>10

\* A node, and the end of a task, leave the row alone; a task that fails does not.
LEMMA NodeSummary ==
    ASSUME BaseInv, NEW w \in Workers, RunNode(w)
    PROVE  /\ worker[w].pc = "node" /\ worker'[w].pc = "save"
           /\ worker'[w].node = worker[w].node /\ worker'[w].asks = worker[w].asks
           /\ worker'[w].mine = worker[w].mine
           /\ Others(w)
           /\ UNCHANGED <<row, answers, version, asks, req, seen, queue, crashes, faults, direct>>
  <1>1. worker[w] \in Slot /\ worker \in [Workers -> Slot]
    BY DEF BaseInv, CoreInv, TypeOK
  <1>2. PICK c \in Results(worker[w].node, Loaded(worker[w]), worker[w].asks) :
          /\ worker[w].pc = "node" /\ worker' = [worker EXCEPT ![w] = AfterNode(worker[w], c)]
          /\ UNCHANGED <<row, answers, version, asks, req, seen, queue, crashes, faults, direct>>
    BY DEF RunNode
  <1>3. worker'[w] = AfterNode(worker[w], c) /\ Others(w)
    BY <1>1, <1>2 DEF Others
  <1> QED
    BY <1>1, <1>2, <1>3, AfterNodeFields

LEMMA StartSummary ==
    ASSUME BaseInv, NEW w \in Workers, StartTask(w)
    PROVE  /\ worker[w].pc = "idle" /\ queue > 0 /\ queue' = queue - 1
           /\ worker'[w].pc = "node" /\ worker'[w].node = "intent_parse"
           /\ worker'[w].ran = {} /\ worker'[w].mine = row
           /\ worker'[w].asks = (asks /\ answers \cap Useful = {})
           /\ Others(w)
           /\ UNCHANGED <<row, answers, version, asks, req, seen, thread, crashes, faults, direct>>
  <1>1. worker \in [Workers -> Slot]
    BY DEF BaseInv, CoreInv, TypeOK
  <1>2. worker'[w] = Started(asks /\ answers \cap Useful = {}, row) /\ Others(w)
    BY <1>1 DEF StartTask, Others
  <1>3. /\ worker'[w].pc = "node" /\ worker'[w].node = "intent_parse"
        /\ worker'[w].ran = {} /\ worker'[w].mine = row
        /\ worker'[w].asks = (asks /\ answers \cap Useful = {})
    BY <1>2 DEF Started
  <1> QED
    BY <1>2, <1>3 DEF StartTask

LEMMA FailSummary ==
    ASSUME BaseInv, NEW w \in Workers, WorkflowFails(w)
    PROVE  /\ worker[w].pc = "node" /\ worker'[w].pc = "idle" /\ worker'[w].ran = {}
           /\ row'.status = Column(row.status, worker[w].mine.status, "failed")
           /\ row'.questions = row.questions
           /\ Others(w)
           /\ UNCHANGED <<answers, version, asks, req, seen, queue, thread, crashes, faults, direct>>
  <1> DEFINE mine == worker[w].mine
             new == [mine EXCEPT !.status = "failed"]
  <1>1. worker \in [Workers -> Slot] /\ mine \in Row
    BY DEF BaseInv, CoreInv, TypeOK, Slot
  <1>2. new.status = "failed" /\ new.questions = mine.questions
    BY <1>1 DEF Row
  <1>3. row' = Written(row, mine, new) /\ worker' = [worker EXCEPT ![w] = Idle]
    BY DEF WorkflowFails
  <1>4. worker'[w].pc = "idle" /\ worker'[w].ran = {} /\ Others(w)
    BY <1>1, <1>3 DEF Others, Idle
  <1> HIDE DEF mine, new
  <1>5. /\ row'.status = Column(row.status, mine.status, new.status)
        /\ row'.questions = Column(row.questions, mine.questions, new.questions)
    BY <1>3, WrittenColumns
  <1>6. row'.questions = row.questions
    BY <1>2, <1>5 DEF Column
  <1> QED
    BY <1>2, <1>4, <1>5, <1>6 DEF WorkflowFails, mine

LEMMA EndSummary ==
    ASSUME BaseInv, NEW w \in Workers,
           Acknowledge(w) \/ WorkflowFails(w) \/ TaskGivesUp(w) \/ WorkerDies(w)
    PROVE  /\ Busy(w) /\ worker'[w].pc = "idle" /\ worker'[w].ran = {} /\ Others(w)
           /\ \/ Acknowledge(w) /\ worker[w].pc = "ack" /\ UNCHANGED <<row, queue, faults>>
              \/ /\ WorkflowFails(w) /\ UNCHANGED <<queue, faults>>
                 /\ row'.status = Column(row.status, worker[w].mine.status, "failed")
                 /\ row'.questions = row.questions
              \/ TaskGivesUp(w) /\ faults' = faults + 1 /\ UNCHANGED <<row, queue>>
              \/ WorkerDies(w) /\ queue' = queue + 1 /\ UNCHANGED <<row, faults>>
           /\ UNCHANGED <<answers, version, asks, req, seen, thread, direct>>
  <1>1. worker \in [Workers -> Slot] /\ worker[w].mine \in Row
    BY DEF BaseInv, CoreInv, TypeOK, Slot
  <1>2. worker' = [worker EXCEPT ![w] = Idle]
    BY DEF Acknowledge, WorkflowFails, TaskGivesUp, WorkerDies
  <1>3. worker'[w].pc = "idle" /\ worker'[w].ran = {} /\ Others(w)
    BY <1>1, <1>2 DEF Others, Idle
  <1>4. CASE Acknowledge(w)
    BY <1>3, <1>4 DEF Acknowledge, Busy
  <1>5. CASE WorkflowFails(w)
    BY <1>5, FailSummary DEF Busy
  <1>6. CASE TaskGivesUp(w)
    BY <1>3, <1>6 DEF TaskGivesUp, Busy
  <1>7. CASE WorkerDies(w)
    BY <1>3, <1>7 DEF WorkerDies, Busy
  <1> QED
    BY <1>4, <1>5, <1>6, <1>7

\* What a direct request makes of the row: nothing, or its result at the end.
LEMMA DirectSummary ==
    ASSUME BaseInv, AllFit, DirectAsks, DirectStep
    PROVE  /\ req["start"] = "new" /\ queue = 0 /\ \A w \in Workers : ~Busy(w)
           /\ \A a \in Answers : req[a] = "new" /\ req'[a] = "new"
           /\ UNCHANGED <<answers, asks, seen, queue, worker, faults>>
           /\ \/ row' = row /\ row.status = "absent" /\ req' = req
              \/ /\ req'["start"] = "done" /\ row'.status # "running"
                 /\ row'.status = "completed" => version' = "ready"
                 /\ row'.status = "needs_clarification" => row'.questions /\ asks
  <1>1. /\ req["start"] = "new" /\ row = NoRow /\ queue = 0
        /\ \A a \in Answers : req[a] = "new"
        /\ \A w \in Workers : worker[w].pc = "idle"
    BY DEF BaseInv, NotStarted, DirectStep, DirectStart, DirectNode, DirectPersist, DirectFails,
           DirectDies
  <1>2. /\ direct \in Slot /\ SlotInv(direct) /\ StatusFits(direct)
        /\ req \in [Requests -> {"new", "read", "queue", "done"}] /\ "start" \in Requests
        /\ \A a \in Answers : a \in Requests /\ a # "start"
    BY AnswersAssumption DEF BaseInv, CoreInv, TypeOK, Requests, AllFit
  <1>3. CASE DirectStart \/ DirectNode \/ DirectDies
    BY <1>1, <1>3 DEF DirectStart, DirectNode, DirectDies, Busy, NoRow
  <1>4. CASE DirectPersist
    <2>1. direct.ran # {}
      BY <1>2, <1>4 DEF SlotInv, RunsNodes, DirectPersist
    <2>2. /\ direct.ch.status = "needs_clarification" => direct.asks
          /\ direct.asks => direct.ch.questions
          /\ direct.ch.status # "running"
          /\ direct.ch.status = "completed" => direct.ch.plan
      BY <1>2, <1>4, <2>1 DEF StatusFits, DirectPersist, HasPlan
    <2>3. row'.status = direct.ch.status /\ row'.questions = direct.ch.questions
      BY <1>4 DEF DirectPersist, DirectResult
    <2> QED
      BY <1>1, <1>2, <1>4, <2>2, <2>3 DEF DirectPersist, DirectAsks, Busy
  <1>5. CASE DirectFails
    BY <1>1, <1>2, <1>5 DEF DirectFails, Busy, NoRow
  <1> QED
    BY <1>3, <1>4, <1>5 DEF DirectStep

LEMMA NextFits ==
    ASSUME BaseInv, AllFit, Next
    PROVE  AllFit'
  <1>0. /\ worker \in [Workers -> Slot] /\ direct \in Slot /\ thread \in Channels
        /\ SlotInv(direct) /\ StatusFits(direct)
        /\ \A w \in Workers : SlotInv(worker[w]) /\ StatusFits(worker[w])
    BY DEF BaseInv, CoreInv, TypeOK, AllFit
  <1>1. CASE \/ StartGeneration
             \/ \E a \in Answers : ReadForAnswer(a) \/ WriteAnswer(a)
             \/ \E r \in Requests : QueueTask(r) \/ QueueUnavailable(r) \/ ApiDies(r)
    <2>1. UNCHANGED <<worker, direct>>
      BY <1>1 DEF StartGeneration, ReadForAnswer, WriteAnswer, QueueTask, QueueUnavailable, ApiDies
    <2> QED
      BY <2>1 DEF AllFit
  <1>2. ASSUME NEW w \in Workers, Others(w), UNCHANGED direct, StatusFits(worker'[w]) PROVE AllFit'
    BY <1>0, <1>2 DEF AllFit, Others
  <1>3. ASSUME NEW w \in Workers, StartTask(w) PROVE AllFit'
    BY <1>2, <1>3, StartSummary DEF StatusFits
  <1>4. ASSUME NEW w \in Workers, RunNode(w) PROVE AllFit'
    <2>1. PICK c \in Results(worker[w].node,
                             IF worker[w].ran = {} THEN thread ELSE worker[w].ch, worker[w].asks) :
            worker[w].pc = "node" /\ worker' = [worker EXCEPT ![w] = AfterNode(worker[w], c)]
      BY <1>4 DEF RunNode, Loaded
    <2>2. StatusFits(AfterNode(worker[w], c))
      BY <1>0, <2>1, AfterNodeFits
    <2>3. worker'[w] = AfterNode(worker[w], c)
      BY <1>0, <2>1
    <2> QED
      BY <1>2, <1>4, <2>2, <2>3, NodeSummary
  <1>5. ASSUME NEW w \in Workers, SaveProgress(w) PROVE AllFit'
    <2> DEFINE k == worker[w]
               n == AfterSave(k, NextNode(k.node, k.ch), Progress(k))
    <2>1. k.pc = "save" /\ worker' = [worker EXCEPT ![w] = n] /\ UNCHANGED direct
      BY <1>5 DEF SaveProgress
    <2>2. StatusFits(n)
      BY <1>0, <2>1, AfterSaveFits
    <2>3. worker'[w] = n /\ Others(w)
      BY <1>0, <2>1 DEF Others
    <2> QED
      BY <1>2, <2>1, <2>2, <2>3
  <1>6. ASSUME NEW w \in Workers, PersistResult(w) PROVE AllFit'
    <2> DEFINE k == worker[w]
               n == AfterPersist(k, Result(k))
    <2>1. k.pc = "persist" /\ worker' = [worker EXCEPT ![w] = n] /\ UNCHANGED direct
      BY <1>6 DEF PersistResult
    <2>2. StatusFits(n)
      BY <1>0, <2>1, AfterPersistFits
    <2>3. worker'[w] = n /\ Others(w)
      BY <1>0, <2>1 DEF Others
    <2> QED
      BY <1>2, <2>1, <2>2, <2>3
  <1>7. ASSUME NEW w \in Workers,
               Acknowledge(w) \/ WorkflowFails(w) \/ TaskGivesUp(w) \/ WorkerDies(w)
        PROVE  AllFit'
    BY <1>2, <1>7, EndSummary DEF StatusFits
  <1>8. CASE DirectStep
    <2>1. StatusFits(Idle)
      BY DEF StatusFits, Idle
    <2>2. CASE DirectStart
      BY <1>0, <2>2 DEF DirectStart, Started, StatusFits, AllFit
    <2>3. CASE DirectNode
      <3>1. PICK c \in Results(direct.node, IF direct.ran = {} THEN thread ELSE direct.ch,
                               direct.asks) :
              /\ direct.pc = "node"
              /\ direct' = AfterSave(AfterNode(direct, c), NextNode(direct.node, c), NoRow)
              /\ UNCHANGED worker
        BY <2>3 DEF DirectNode, Loaded
      <3> DEFINE k == AfterNode(direct, c)
      <3>2. k \in Slot /\ SlotInv(k) /\ StatusFits(k)
        BY <1>0, <3>1, AfterNodeInv, AfterNodeFits DEF BaseInv, CoreInv
      <3>3. k.pc = "save" /\ k.node = direct.node /\ k.ch = c
        BY <1>0, AfterNodeFields
      <3> HIDE DEF k
      <3>4. direct' = AfterSave(k, NextNode(k.node, k.ch), NoRow)
        BY <3>1, <3>3 DEF k
      <3>5. StatusFits(direct')
        BY <3>2, <3>3, <3>4, AfterSaveFits
      <3> QED
        BY <1>0, <3>1, <3>5 DEF AllFit
    <2>4. CASE DirectPersist \/ DirectFails \/ DirectDies
      BY <1>0, <2>1, <2>4 DEF DirectPersist, DirectFails, DirectDies, AllFit
    <2> QED
      BY <1>8, <2>2, <2>3, <2>4 DEF DirectStep
  <1> QED
    BY <1>1, <1>3, <1>4, <1>5, <1>6, <1>7, <1>8 DEF Next, TaskStep

LEMMA NextDirectAsks ==
    ASSUME BaseInv, DirectAsks, Next
    PROVE  DirectAsks'
  <1>0. direct \in Slot
    BY DEF BaseInv, CoreInv, TypeOK
  <1>1. UNCHANGED asks
    BY DEF Next, StartGeneration, ReadForAnswer, WriteAnswer, QueueTask, QueueUnavailable, ApiDies,
           StartTask, TaskStep, RunNode, SaveProgress, PersistResult, Acknowledge, WorkflowFails,
           TaskGivesUp, WorkerDies, DirectStep, DirectStart, DirectNode, DirectPersist, DirectFails,
           DirectDies
  <1>2. CASE DirectStart
    BY <1>1, <1>2 DEF DirectStart, Started, DirectAsks
  <1>3. CASE DirectNode
    <2>1. PICK c \in Results(direct.node, Loaded(direct), direct.asks) :
            direct' = AfterSave(AfterNode(direct, c), NextNode(direct.node, c), NoRow)
      BY <1>3 DEF DirectNode
    <2>2. direct'.asks = direct.asks
      BY <1>0, <2>1 DEF AfterSave, AfterNode, Slot
    <2> QED
      BY <1>1, <2>2 DEF DirectAsks
  <1>4. CASE DirectPersist \/ DirectFails \/ DirectDies
    BY <1>4 DEF DirectPersist, DirectFails, DirectDies, DirectAsks, Idle
  <1>5. CASE ~DirectStep
    <2>1. UNCHANGED direct
      BY <1>5 DEF Next, StartGeneration, ReadForAnswer, WriteAnswer, QueueTask, QueueUnavailable,
                  ApiDies, StartTask, TaskStep, RunNode, SaveProgress, PersistResult, Acknowledge,
                  WorkflowFails, TaskGivesUp, WorkerDies
    <2> QED
      BY <1>1, <2>1 DEF DirectAsks
  <1> QED
    BY <1>2, <1>3, <1>4, <1>5 DEF DirectStep

-----------------------------------------------------------------------------
(***************************************************************************)
(* Who is to write the row                                                 *)
(***************************************************************************)
LEMMA NextCompletedCovered ==
    ASSUME BaseInv, AllFit, DirectAsks, CompletedCovered, Next
    PROVE  CompletedCovered'
  <1>0. /\ queue \in Nat /\ faults \in Nat /\ version \in {"draft", "ready"} /\ row \in Row
        /\ row'.status \in RunStatus
    <2>1. TypeOK /\ TypeOK'
      BY NextCoreInv DEF BaseInv, CoreInv
    <2> QED
      BY <2>1 DEF TypeOK, VersionStatus, Row
  <1> SUFFICES ASSUME faults' = 0, row'.status = "completed", version' = "draft"
               PROVE  \/ queue' > 0
                      \/ \E w \in Workers :
                             \/ worker'[w].pc = "persist" /\ HasPlan(worker'[w])
                             \/ /\ worker'[w].pc \in {"node", "save"}
                                /\ worker'[w].node = "intent_parse"
                                /\ worker'[w].mine.status = "completed"
    BY DEF CompletedCovered, HasPlan
  <1> DEFINE Covers(k) == \/ k.pc = "persist" /\ HasPlan(k)
                          \/ /\ k.pc \in {"node", "save"} /\ k.node = "intent_parse"
                             /\ k.mine.status = "completed"
  <1>1. ASSUME faults = 0, row.status = "completed", version = "draft"
        PROVE  queue > 0 \/ \E w \in Workers : Covers(worker[w])
    BY <1>1 DEF CompletedCovered
  <1> SUFFICES queue' > 0 \/ \E w \in Workers : Covers(worker'[w])
    OBVIOUS
  <1> HIDE DEF Covers
  <1>2. CASE StartGeneration \/ \E a \in Answers : WriteAnswer(a)
    BY <1>0, <1>2 DEF StartGeneration, WriteAnswer, Row
  <1>3. ASSUME NEW a \in Answers, ReadForAnswer(a) PROVE queue' > 0 \/ \E w \in Workers : Covers(worker'[w])
    BY <1>1, <1>3 DEF ReadForAnswer
  <1>4. ASSUME NEW r \in Requests, QueueTask(r) \/ QueueUnavailable(r) \/ ApiDies(r)
        PROVE  queue' > 0 \/ \E w \in Workers : Covers(worker'[w])
    BY <1>0, <1>1, <1>4 DEF QueueTask, QueueUnavailable, ApiDies, Row
  <1>5. CASE DirectStep
    <2>1. row'.status = "completed" => version' = "ready" \/ (row.status = "absent" /\ row' = row)
      BY <1>5, DirectSummary
    <2> QED
      BY <2>1
  <1>6. ASSUME NEW w \in Workers, StartTask(w) PROVE \E v \in Workers : Covers(worker'[v])
    BY <1>6, StartSummary DEF Covers
  <1>7. ASSUME NEW w \in Workers, RunNode(w)
        PROVE  queue' > 0 \/ \E v \in Workers : Covers(worker'[v])
    <2>1. queue > 0 \/ \E v \in Workers : Covers(worker[v])
      BY <1>1, <1>7, NodeSummary
    <2>2. Covers(worker[w]) => Covers(worker'[w])
      BY <1>7, NodeSummary DEF Covers
    <2> QED
      BY <1>7, <2>1, <2>2, NodeSummary DEF Others
  <1>8. ASSUME NEW w \in Workers, SaveProgress(w)
        PROVE  queue' > 0 \/ \E v \in Workers : Covers(worker'[v])
    <2>1. PICK t \in RunStatus : SaveWrites(w, t)
      BY <1>8, SaveSummary
    <2>2. CASE t = "completed"
      BY <2>1, <2>2 DEF SaveWrites, Covers
    <2>3. CASE t # "completed"
      <3>1. row.status = "completed" /\ worker[w].mine.status = t /\ worker[w].pc = "save"
        BY <2>1, <2>3 DEF SaveWrites, Column
      <3>2. ~Covers(worker[w])
        BY <2>3, <3>1 DEF Covers
      <3>3. queue > 0 \/ \E v \in Workers : Covers(worker[v])
        BY <1>1, <2>1, <3>1 DEF SaveWrites
      <3> QED
        BY <2>1, <3>2, <3>3 DEF SaveWrites, Others
    <2> QED
      BY <2>2, <2>3
  <1>9. ASSUME NEW w \in Workers, PersistResult(w)
        PROVE  queue' > 0 \/ \E v \in Workers : Covers(worker'[v])
    <2>1. PICK t \in RunStatus : PersistWrites(w, t)
      BY <1>9, PersistSummary
    <2>2. ~HasPlan(worker[w]) /\ version = "draft" /\ t # "completed"
      BY <1>0, <2>1 DEF PersistWrites
    <2>3. row.status = "completed" /\ worker[w].pc = "persist"
      BY <2>1, <2>2 DEF PersistWrites, Column
    <2>4. ~Covers(worker[w])
      BY <2>2, <2>3 DEF Covers
    <2>5. queue > 0 \/ \E v \in Workers : Covers(worker[v])
      BY <1>1, <2>1, <2>2, <2>3 DEF PersistWrites
    <2> QED
      BY <2>1, <2>4, <2>5 DEF PersistWrites, Others
  <1>10. ASSUME NEW w \in Workers,
                Acknowledge(w) \/ WorkflowFails(w) \/ TaskGivesUp(w) \/ WorkerDies(w)
         PROVE  queue' > 0 \/ \E v \in Workers : Covers(worker'[v])
    <2>1. CASE WorkerDies(w)
      BY <1>0, <2>1 DEF WorkerDies
    <2>2. CASE TaskGivesUp(w)
      BY <1>0, <2>2 DEF TaskGivesUp
    <2>3. CASE Acknowledge(w)
      <3>1. UNCHANGED <<row, queue, faults, version>> /\ Others(w) /\ worker[w].pc = "ack"
        BY <1>10, <2>3, EndSummary DEF Acknowledge
      <3>2. ~Covers(worker[w])
        BY <3>1 DEF Covers
      <3> QED
        BY <1>1, <3>1, <3>2 DEF Others
    <2>4. CASE WorkflowFails(w)
      <3>1. UNCHANGED <<queue, faults, version>> /\ Others(w) /\ worker[w].pc = "node"
            /\ row'.status = Column(row.status, worker[w].mine.status, "failed")
        BY <2>4, FailSummary
      <3>2. row.status = "completed" /\ worker[w].mine.status = "failed"
        BY <3>1 DEF Column
      <3>3. ~Covers(worker[w])
        BY <3>1, <3>2 DEF Covers
      <3> QED
        BY <1>1, <3>1, <3>2, <3>3 DEF Others
    <2> QED
      BY <1>10, <2>1, <2>2, <2>3, <2>4
  <1> QED
    BY <1>2, <1>3, <1>4, <1>5, <1>6, <1>7, <1>8, <1>9, <1>10 DEF Next, TaskStep

LEMMA NextRunningCovered ==
    ASSUME BaseInv, AllFit, DirectAsks, RunningCovered, Next
    PROVE  RunningCovered'
  <1>0. /\ queue \in Nat /\ faults \in Nat /\ row \in Row /\ "start" \in Requests
        /\ req \in [Requests -> {"new", "read", "queue", "done"}]
        /\ \A a \in Answers : a \in Requests
    BY DEF BaseInv, CoreInv, TypeOK, Requests
  <1> DEFINE Covers(k) == k.pc \in {"node", "save"} /\ k.mine.status = "running"
             Covered == \/ queue > 0 \/ \E r \in Requests : req[r] = "queue"
                        \/ \E w \in Workers : Covers(worker[w])
  <1>1. ASSUME faults = 0, row.status = "running" PROVE Covered
    BY <1>1 DEF RunningCovered
  <1>2. SUFFICES ASSUME faults' = 0, row'.status = "running"
                 PROVE  \/ queue' > 0 \/ \E r \in Requests : req'[r] = "queue"
                        \/ \E w \in Workers : Covers(worker'[w])
    BY DEF RunningCovered
  <1> HIDE DEF Covers
  <1>3. CASE StartGeneration
    <2>1. req'["start"] = "queue"
      BY <1>0, <1>3 DEF StartGeneration
    <2> QED
      BY <1>0, <2>1
  <1>4. ASSUME NEW a \in Answers, WriteAnswer(a) PROVE \E r \in Requests : req'[r] = "queue"
    <2>1. req'[a] = "queue"
      BY <1>0, <1>4 DEF WriteAnswer
    <2> QED
      BY <1>0, <2>1
  <1>5. ASSUME NEW a \in Answers, ReadForAnswer(a) PROVE Covered'
    BY <1>2, <1>5 DEF ReadForAnswer
  <1>6. ASSUME NEW r \in Requests, QueueTask(r) \/ QueueUnavailable(r) \/ ApiDies(r)
        PROVE  queue' > 0
    BY <1>0, <1>2, <1>6 DEF QueueTask, QueueUnavailable, ApiDies, Row
  <1>7. CASE DirectStep
    BY <1>2, <1>7, DirectSummary
  <1>8. ASSUME NEW w \in Workers, StartTask(w) PROVE Covers(worker'[w])
    BY <1>2, <1>8, StartSummary DEF Covers
  <1>9. ASSUME NEW w \in Workers, RunNode(w) PROVE Covered'
    <2>1. Covered /\ UNCHANGED <<queue, req>> /\ Others(w)
      BY <1>1, <1>2, <1>9, NodeSummary
    <2>2. Covers(worker[w]) => Covers(worker'[w])
      BY <1>9, NodeSummary DEF Covers
    <2> QED
      BY <2>1, <2>2 DEF Others
  <1>10. ASSUME NEW w \in Workers, SaveProgress(w) PROVE Covered'
    <2>1. PICK t \in RunStatus : SaveWrites(w, t)
      BY <1>10, SaveSummary
    <2>2. CASE t = "running"
      BY <2>1, <2>2 DEF SaveWrites, Covers
    <2>3. CASE t # "running"
      <3>1. row.status = "running" /\ worker[w].mine.status = t
        BY <1>2, <2>1, <2>3 DEF SaveWrites, Column
      <3>2. ~Covers(worker[w])
        BY <2>3, <3>1 DEF Covers
      <3>3. Covered /\ UNCHANGED <<queue, req>> /\ Others(w)
        BY <1>1, <1>2, <2>1, <3>1 DEF SaveWrites
      <3> QED
        BY <3>2, <3>3 DEF Others
    <2> QED
      BY <2>2, <2>3
  <1>11. ASSUME NEW w \in Workers, PersistResult(w) PROVE Covered'
    <2>1. PICK t \in RunStatus : PersistWrites(w, t)
      BY <1>11, PersistSummary
    <2>2. row.status = "running" /\ worker[w].pc = "persist"
      BY <1>2, <2>1 DEF PersistWrites, Column
    <2>3. ~Covers(worker[w])
      BY <2>2 DEF Covers
    <2>4. Covered /\ UNCHANGED <<queue, req>> /\ Others(w)
      BY <1>1, <1>2, <2>1, <2>2 DEF PersistWrites
    <2> QED
      BY <2>3, <2>4 DEF Others
  <1>12. ASSUME NEW w \in Workers,
                Acknowledge(w) \/ WorkflowFails(w) \/ TaskGivesUp(w) \/ WorkerDies(w)
         PROVE  Covered'
    <2>1. CASE WorkerDies(w)
      BY <1>0, <2>1 DEF WorkerDies
    <2>2. CASE TaskGivesUp(w)
      BY <1>0, <1>2, <2>2 DEF TaskGivesUp
    <2>3. CASE Acknowledge(w)
      <3>1. UNCHANGED <<row, queue, faults, req>> /\ Others(w) /\ worker[w].pc = "ack"
        BY <1>12, <2>3, EndSummary DEF Acknowledge
      <3>2. ~Covers(worker[w])
        BY <3>1 DEF Covers
      <3> QED
        BY <1>1, <1>2, <3>1, <3>2 DEF Others
    <2>4. CASE WorkflowFails(w)
      <3>1. UNCHANGED <<queue, faults, req>> /\ Others(w)
            /\ row'.status = Column(row.status, worker[w].mine.status, "failed")
        BY <2>4, FailSummary
      <3>2. row.status = "running" /\ worker[w].mine.status = "failed"
        BY <1>2, <3>1 DEF Column
      <3>3. ~Covers(worker[w])
        BY <3>2 DEF Covers
      <3> QED
        BY <1>1, <1>2, <3>1, <3>2, <3>3 DEF Others
    <2> QED
      BY <1>12, <2>1, <2>2, <2>3, <2>4
  <1> QED
    BY <1>3, <1>4, <1>5, <1>6, <1>7, <1>8, <1>9, <1>10, <1>11, <1>12 DEF Next, TaskStep

-----------------------------------------------------------------------------
(***************************************************************************)
(* The answers                                                             *)
(***************************************************************************)

\* What was sent stays sent, and only an answer changes the answers.
LEMMA NextAnswersSent ==
    ASSUME BaseInv, AllFit, DirectAsks, AnswersSent, Next
    PROVE  /\ AnswersSent'
           /\ Sent \subseteq Sent'
           /\ answers' = answers \/ \E a \in Answers : WriteAnswer(a)
  <1>0. /\ req \in [Requests -> {"new", "read", "queue", "done"}]
        /\ seen \in [Answers -> SUBSET Answers] /\ answers \subseteq Answers
        /\ \A a \in Answers : a \in Requests /\ a # "start"
    BY AnswersAssumption DEF BaseInv, CoreInv, TypeOK, Requests
  <1>1. ASSUME UNCHANGED <<answers, seen>>, \A a \in Answers : req[a] # "new" => req'[a] # "new"
        PROVE  AnswersSent' /\ Sent \subseteq Sent' /\ answers' = answers
    BY <1>1 DEF AnswersSent, Sent
  <1>2. CASE StartGeneration
    BY <1>0, <1>1, <1>2 DEF StartGeneration
  <1>3. ASSUME NEW a \in Answers, ReadForAnswer(a)
        PROVE  AnswersSent' /\ Sent \subseteq Sent' /\ answers' = answers
    <2>1. Sent \subseteq Sent' /\ answers' = answers
      BY <1>0, <1>3 DEF ReadForAnswer, Sent
    <2>2. seen' = [seen EXCEPT ![a] = answers]
      BY <1>3 DEF ReadForAnswer
    <2>3. ASSUME NEW b \in Answers PROVE seen'[b] \subseteq Sent'
      BY <1>0, <2>1, <2>2 DEF AnswersSent
    <2> QED
      BY <2>1, <2>3 DEF AnswersSent
  <1>4. ASSUME NEW a \in Answers, WriteAnswer(a) PROVE AnswersSent' /\ Sent \subseteq Sent'
    <2>1. Sent \subseteq Sent' /\ a \in Sent'
      BY <1>0, <1>4 DEF WriteAnswer, Sent
    <2>2. answers' = seen[a] \cup {a} /\ seen' = [seen EXCEPT ![a] = {}]
      BY <1>4 DEF WriteAnswer
    <2>3. ASSUME NEW b \in Answers PROVE seen'[b] \subseteq Sent'
      BY <1>0, <2>1, <2>2 DEF AnswersSent
    <2> QED
      BY <2>1, <2>2, <2>3 DEF AnswersSent
  <1>5. ASSUME NEW r \in Requests, QueueTask(r) \/ QueueUnavailable(r) \/ ApiDies(r)
        PROVE  AnswersSent' /\ Sent \subseteq Sent' /\ answers' = answers
    BY <1>0, <1>1, <1>5 DEF QueueTask, QueueUnavailable, ApiDies
  <1>6. CASE DirectStep
    BY <1>1, <1>6, DirectSummary
  <1>7. ASSUME NEW w \in Workers,
               \/ StartTask(w) \/ TaskStep(w) \/ WorkflowFails(w) \/ TaskGivesUp(w) \/ WorkerDies(w)
        PROVE  AnswersSent' /\ Sent \subseteq Sent' /\ answers' = answers
    <2>1. UNCHANGED <<answers, seen, req>>
      BY <1>7 DEF StartTask, TaskStep, RunNode, SaveProgress, PersistResult, Acknowledge,
                  WorkflowFails, TaskGivesUp, WorkerDies
    <2> QED
      BY <1>1, <2>1
  <1> QED
    BY <1>2, <1>3, <1>4, <1>5, <1>6, <1>7 DEF Next

\* Progress and result of a task: it writes s if that is new to it.
TaskWrites(w, s) ==
    /\ row'.status = Column(row.status, worker[w].mine.status, s)
    /\ row'.questions = Column(row.questions, worker[w].mine.questions, worker[w].asks)
    /\ Busy(w) /\ worker'[w].pc # "idle" /\ worker'[w].asks = worker[w].asks
    /\ worker'[w].mine.status = s /\ worker'[w].mine.questions = worker[w].asks
    /\ s = "needs_clarification" <=> worker[w].asks
    /\ Others(w)
    /\ UNCHANGED <<answers, asks, req, queue>>

LEMMA WritesSummary ==
    ASSUME BaseInv, AllFit, NEW w \in Workers, SaveProgress(w) \/ PersistResult(w)
    PROVE  \E s \in RunStatus : TaskWrites(w, s)
  <1>1. CASE SaveProgress(w)
    <2>1. PICK s \in RunStatus : SaveWrites(w, s)
      BY <1>1, SaveSummary
    <2> QED
      BY <2>1 DEF SaveWrites, TaskWrites, Busy
  <1>2. CASE PersistResult(w)
    <2>1. PICK s \in RunStatus : PersistWrites(w, s)
      BY <1>2, PersistSummary
    <2> QED
      BY <2>1 DEF PersistWrites, TaskWrites, Busy
  <1> QED
    BY <1>1, <1>2

LEMMA NextFirstTask ==
    ASSUME BaseInv, AllFit, DirectAsks, AnswersSent, FirstTask, Next
    PROVE  FirstTask'
  <1>0. /\ req \in [Requests -> {"new", "read", "queue", "done"}] /\ queue \in Nat
        /\ "start" \in Requests /\ Requests = Answers \cup {"start"}
        /\ \A a \in Answers : a \in Requests /\ a # "start"
        /\ row \in Row /\ asks \in BOOLEAN
        /\ \A w \in Workers : worker[w] \in Slot
    BY AnswersAssumption DEF BaseInv, CoreInv, TypeOK, Requests
  <1>1. SUFFICES ASSUME answers' = {} PROVE FirstTask'
    BY DEF FirstTask
  <1>2. answers = {} /\ \A a \in Answers : ~WriteAnswer(a)
    <2>1. ASSUME NEW a \in Answers, WriteAnswer(a) PROVE FALSE
      BY <1>1, <2>1 DEF WriteAnswer
    <2> QED
      BY <1>1, <2>1, NextAnswersSent
  <1>3. CASE StartGeneration
    <2>1. row = NoRow /\ queue = 0 /\ \A a \in Answers : req[a] = "new"
      BY <1>3 DEF StartGeneration, BaseInv, NotStarted
    <2>2. \A w \in Workers : ~Busy(w)
      BY <1>3 DEF StartGeneration, BaseInv, NotStarted, Busy
    <2>3. UNCHANGED <<queue, worker>> /\ row'.status = "running" /\ \A a \in Answers : req'[a] = "new"
      BY <1>0, <1>3, <2>1 DEF StartGeneration, Row
    <2> QED
      BY <2>1, <2>2, <2>3 DEF FirstTask, Busy
  <1>4. ASSUME NEW a \in Answers, ReadForAnswer(a) PROVE FirstTask'
    <2>1. /\ UNCHANGED <<row, asks, queue, worker>> /\ row.status = "needs_clarification"
          /\ \A r \in Requests : req'[r] = IF r = a THEN "read" ELSE req[r]
      BY <1>0, <1>4 DEF ReadForAnswer
    <2> QED
      BY <1>0, <1>2, <2>1 DEF FirstTask, Busy
  <1>5. ASSUME NEW r \in Requests, QueueTask(r) \/ QueueUnavailable(r) PROVE FirstTask'
    <2>1. r = "start" /\ req["start"] = "queue" /\ req' = [req EXCEPT !["start"] = "done"]
      BY <1>0, <1>2, <1>5 DEF FirstTask, QueueTask, QueueUnavailable
    <2>2. /\ queue = 0 /\ row.status = "running"
          /\ \A w \in Workers : ~Busy(w)
          /\ \A a \in Answers : req[a] # "queue" /\ req[a] # "read"
      BY <1>2, <2>1 DEF FirstTask, UnderWay
    <2>3. req'["start"] = "done" /\ \A a \in Answers : req'[a] = req[a]
      BY <1>0, <2>1
    <2>4. UNCHANGED worker /\ queue' \in {0, 1} /\ row'.status \in {"running", "failed"}
      BY <1>0, <1>5, <2>2 DEF QueueTask, QueueUnavailable, Row
    <2> QED
      BY <2>2, <2>3, <2>4 DEF FirstTask, Busy
  <1>6. ASSUME NEW r \in Requests, ApiDies(r) PROVE FirstTask'
    <2>1. /\ UNCHANGED <<row, asks, queue, worker>>
          /\ \A q \in Requests : req'[q] = req[q] \/ req'[q] = "done"
      BY <1>0, <1>6 DEF ApiDies
    <2> QED
      BY <1>0, <1>2, <2>1 DEF FirstTask, Busy, UnderWay
  <1>7. ASSUME NEW w \in Workers, StartTask(w) PROVE FirstTask'
    <2>1. /\ worker'[w].pc = "node" /\ worker'[w].mine = row /\ worker'[w].asks = asks
          /\ queue > 0 /\ queue' = queue - 1 /\ Others(w) /\ UNCHANGED <<row, asks, req>>
      <3>1. worker'[w].asks = (asks /\ {} \cap Useful = {})
        BY <1>2, <1>7, StartSummary
      <3> QED
        BY <1>0, <1>7, <3>1, StartSummary
    <2>2. /\ queue = 1 /\ queue' = 0 /\ req["start"] # "queue" /\ \A v \in Workers : ~Busy(v)
      BY <1>0, <1>2, <2>1 DEF FirstTask
    <2>3. \A v \in Workers : v # w => ~Busy(v)'
      BY <2>1, <2>2 DEF Others, Busy
    <2> QED
      BY <1>2, <2>1, <2>2, <2>3 DEF FirstTask, UnderWay
  <1>8. ASSUME NEW w \in Workers, RunNode(w) PROVE FirstTask'
    <2>1. /\ Busy(w) /\ Busy(w)' /\ worker'[w].asks = worker[w].asks
          /\ worker'[w].mine = worker[w].mine /\ Others(w)
          /\ UNCHANGED <<row, asks, req, queue>>
      BY <1>8, NodeSummary DEF Busy
    <2>2. \A v \in Workers : Busy(v)' <=> v = w
      BY <1>2, <2>1 DEF Others, Busy, FirstTask
    <2> QED
      BY <1>2, <2>1, <2>2 DEF FirstTask, UnderWay
  <1>9. ASSUME NEW w \in Workers, SaveProgress(w) \/ PersistResult(w) PROVE FirstTask'
    <2>1. PICK s \in RunStatus : TaskWrites(w, s)
      BY <1>9, WritesSummary
    <2>2. /\ Busy(w) /\ Busy(w)' /\ Others(w) /\ UNCHANGED <<asks, req, queue>>
      BY <2>1 DEF TaskWrites, Busy
    <2>3. /\ worker[w].asks = asks /\ queue = 0 /\ req["start"] # "queue"
          /\ worker[w].mine.status = row.status /\ worker[w].mine.questions = row.questions
      BY <1>2, <2>2 DEF FirstTask
    <2>4. \A v \in Workers : Busy(v)' <=> v = w
      BY <1>2, <2>2 DEF Others, Busy, FirstTask
    <2>5. row'.status = s /\ row'.questions = asks
      BY <2>1, <2>3 DEF TaskWrites, Column
    <2>6. /\ worker'[w].asks = asks /\ worker'[w].mine.status = s
          /\ worker'[w].mine.questions = asks /\ (s = "needs_clarification" <=> asks)
      BY <2>1, <2>3 DEF TaskWrites
    <2> QED
      BY <1>2, <2>2, <2>3, <2>4, <2>5, <2>6 DEF FirstTask, UnderWay
  <1>10. ASSUME NEW w \in Workers,
                Acknowledge(w) \/ WorkflowFails(w) \/ TaskGivesUp(w) \/ WorkerDies(w)
         PROVE  FirstTask'
    <2>1. Busy(w) /\ worker'[w].pc = "idle" /\ Others(w) /\ UNCHANGED <<req, asks>>
      BY <1>10, EndSummary
    <2>2. queue = 0 /\ req["start"] # "queue" /\ \A v \in Workers : ~Busy(v)'
      BY <1>2, <2>1 DEF FirstTask, Others, Busy
    <2>3. \A a \in Answers : req[a] = "read" => row.status = "needs_clarification"
      BY <1>2, <2>1 DEF FirstTask, UnderWay
    <2>4. CASE WorkflowFails(w)
      <3>1. UNCHANGED queue /\ row'.status = "failed"
        BY <1>2, <2>1, <2>4, FailSummary DEF FirstTask, Column
      <3> QED
        BY <1>2, <2>1, <2>2, <3>1 DEF FirstTask, UnderWay
    <2>5. CASE Acknowledge(w) \/ TaskGivesUp(w) \/ WorkerDies(w)
      <3>1. UNCHANGED row /\ queue' \in {0, 1}
        BY <2>2, <2>5 DEF Acknowledge, TaskGivesUp, WorkerDies
      <3> QED
        BY <1>2, <2>1, <2>2, <2>3, <3>1 DEF FirstTask, UnderWay
    <2> QED
      BY <1>10, <2>4, <2>5
  <1>11. CASE DirectStep
    <2>1. /\ req["start"] = "new" /\ queue = 0 /\ \A w \in Workers : ~Busy(w)
          /\ \A a \in Answers : req'[a] = "new"
          /\ UNCHANGED <<asks, queue, worker>>
          /\ req'["start"] # "queue"
          /\ row'.status = "needs_clarification" => row'.questions /\ asks
      BY <1>11, DirectSummary
    <2> QED
      BY <2>1 DEF FirstTask, Busy
  <1> QED
    BY <1>2, <1>3, <1>4, <1>5, <1>6, <1>7, <1>8, <1>9, <1>10, <1>11 DEF Next, TaskStep

LEMMA NextAfterAnswer ==
    ASSUME BaseInv, AllFit, DirectAsks, AnswersSent, FirstTask, AfterAnswer, Next
    PROVE  AfterAnswer'
  <1>0. /\ row \in Row /\ queue \in Nat /\ \A w \in Workers : worker[w] \in Slot
    BY DEF BaseInv, CoreInv, TypeOK
  <1>1. SUFFICES ASSUME answers' # {}, Sent' \subseteq Useful PROVE AfterAnswer'
    BY DEF AfterAnswer
  <1> DEFINE Holds(k) == k.mine.status = "needs_clarification" /\ k.mine.questions
             Kept == /\ row.status # "needs_clarification" /\ ~row.questions
                     /\ \A w \in Workers : Busy(w) /\ worker[w].asks => Holds(worker[w])
  <1>2. SUFFICES Kept'
    BY DEF AfterAnswer
  <1> HIDE DEF Holds
  <1>3. Sent \subseteq Useful
    BY <1>1, NextAnswersSent
  <1>4. CASE \E a \in Answers : WriteAnswer(a)
    <2>1. PICK a \in Answers : WriteAnswer(a)
      BY <1>4
    <2>2. row'.status = "running" /\ ~row'.questions /\ UNCHANGED worker
      BY <1>0, <2>1 DEF WriteAnswer, Row
    <2>3. ASSUME NEW w \in Workers, Busy(w), worker[w].asks PROVE Holds(worker[w])
      <3>1. CASE answers = {}
        <4>1. req[a] = "read" /\ UnderWay
          BY <2>1, <2>3 DEF WriteAnswer, UnderWay
        <4>2. row.status = "needs_clarification" /\ row.questions
          BY <3>1, <4>1 DEF FirstTask
        <4>3. worker[w].mine.status = row.status /\ worker[w].mine.questions = row.questions
          BY <2>3, <3>1 DEF FirstTask
        <4> QED
          BY <4>2, <4>3 DEF Holds
      <3>2. CASE answers # {}
        BY <1>3, <2>3, <3>2 DEF AfterAnswer, Holds
      <3> QED
        BY <3>1, <3>2
    <2> QED
      BY <2>2, <2>3 DEF Busy
  <1>5. CASE ~\E a \in Answers : WriteAnswer(a)
    <2>1. answers # {} /\ answers' = answers
      BY <1>1, <1>5, NextAnswersSent
    <2>2. Kept /\ answers \subseteq Useful /\ answers \subseteq Sent
      BY <1>3, <2>1 DEF AfterAnswer, Holds, AnswersSent
    <2>3. req["start"] # "new"
      <3>1. \E a \in Answers : req[a] # "new"
        BY <2>1, <2>2 DEF Sent
      <3> QED
        BY <3>1 DEF BaseInv, NotStarted
    <2>4. ~StartGeneration /\ ~DirectStep /\ \A a \in Answers : ~ReadForAnswer(a)
      BY <2>2, <2>3, DirectSummary DEF StartGeneration, ReadForAnswer
    <2>5. ASSUME NEW r \in Requests, QueueTask(r) \/ QueueUnavailable(r) \/ ApiDies(r) PROVE Kept'
      <3>1. UNCHANGED worker /\ row'.status \in {row.status, "failed"} /\ UNCHANGED row.questions
        BY <1>0, <2>5 DEF QueueTask, QueueUnavailable, ApiDies, Row
      <3> QED
        BY <2>2, <3>1 DEF Busy
    <2>6. ASSUME NEW w \in Workers, Others(w), row'.status # "needs_clarification", ~row'.questions,
                 Busy(w)' /\ worker'[w].asks => Holds(worker'[w])
          PROVE  Kept'
      BY <2>2, <2>6 DEF Others, Busy
    <2>7. ASSUME NEW w \in Workers, StartTask(w) PROVE Kept'
      <3>1. ~worker'[w].asks
        <4>1. answers \cap Useful # {}
          BY <2>1, <2>2
        <4>2. worker'[w].asks = (asks /\ answers \cap Useful = {})
          BY <2>7, StartSummary
        <4> QED
          BY <4>1, <4>2
      <3> QED
        BY <2>2, <2>6, <2>7, <3>1, StartSummary
    <2>8. ASSUME NEW w \in Workers, RunNode(w) PROVE Kept'
      <3>1. Busy(w) /\ worker'[w].asks = worker[w].asks /\ worker'[w].mine = worker[w].mine
            /\ Others(w) /\ UNCHANGED row
        BY <2>8, NodeSummary DEF Busy
      <3> QED
        BY <2>2, <2>6, <3>1 DEF Holds
    <2>9. ASSUME NEW w \in Workers, SaveProgress(w) \/ PersistResult(w) PROVE Kept'
      <3>1. PICK s \in RunStatus : TaskWrites(w, s)
        BY <2>9, WritesSummary
      <3>2. CASE worker[w].asks
        <4>1. /\ s = "needs_clarification" /\ worker[w].mine.status = s
              /\ worker[w].mine.questions
          BY <2>2, <3>1, <3>2 DEF TaskWrites, Holds
        <4>2. worker[w].mine.questions = worker[w].asks
          BY <1>0, <3>2, <4>1 DEF Slot, Row
        <4>3. row'.status = row.status /\ row'.questions = row.questions
          BY <3>1, <4>1, <4>2 DEF TaskWrites, Column
        <4>4. Holds(worker'[w])
          BY <3>1, <3>2, <4>1 DEF TaskWrites, Holds
        <4> QED
          BY <2>2, <2>6, <3>1, <4>3, <4>4 DEF TaskWrites
      <3>3. CASE ~worker[w].asks
        <4>1. row'.status \in {row.status, s} /\ s # "needs_clarification"
          BY <3>1, <3>3 DEF TaskWrites, Column
        <4>2. ~row'.questions
          BY <2>2, <3>1, <3>3 DEF TaskWrites, Column
        <4> QED
          BY <2>2, <2>6, <3>1, <3>3, <4>1, <4>2 DEF TaskWrites
      <3> QED
        BY <3>2, <3>3
    <2>10. ASSUME NEW w \in Workers,
                  Acknowledge(w) \/ WorkflowFails(w) \/ TaskGivesUp(w) \/ WorkerDies(w)
           PROVE  Kept'
      <3>1. /\ ~Busy(w)' /\ Others(w)
            /\ row'.status \in {row.status, "failed"} /\ row'.questions = row.questions
        BY <2>10, EndSummary DEF Busy, Column
      <3> QED
        BY <2>2, <2>6, <3>1
    <2> QED
      BY <1>5, <2>4, <2>5, <2>7, <2>8, <2>9, <2>10 DEF Next, TaskStep
  <1> QED
    BY <1>4, <1>5

LEMMA InitRowInv == Init => RowInv
  <1> SUFFICES ASSUME Init PROVE RowInv
    OBVIOUS
  <1>1. /\ row = NoRow /\ answers = {} /\ queue = 0 /\ direct = Idle
        /\ \A r \in Requests : req[r] = "new"
        /\ \A a \in Answers : a \in Requests /\ seen[a] = {}
        /\ "start" \in Requests
        /\ \A w \in Workers : worker[w] = Idle
    BY DEF Init, Requests
  <1>2. StatusFits(Idle) /\ Idle.pc = "idle" /\ ~Idle.asks
    BY DEF Idle, StatusFits
  <1>3. AllFit /\ DirectAsks
    BY <1>1, <1>2 DEF AllFit, DirectAsks
  <1>4. CompletedCovered /\ RunningCovered /\ AfterAnswer
    BY <1>1 DEF CompletedCovered, RunningCovered, AfterAnswer, NoRow
  <1>5. AnswersSent
    BY <1>1 DEF AnswersSent
  <1>6. FirstTask
    <2>1. row.status = "absent" /\ queue <= 1 /\ \A w \in Workers : ~Busy(w)
      BY <1>1, <1>2 DEF Busy, NoRow
    <2>2. req["start"] = "new" /\ \A a \in Answers : req[a] = "new"
      BY <1>1
    <2> QED
      BY <2>1, <2>2 DEF FirstTask
  <1> QED
    BY <1>3, <1>4, <1>5, <1>6 DEF RowInv

LEMMA NextRowInv ==
    ASSUME BaseInv, RowInv, [Next]_vars
    PROVE  RowInv'
  <1>1. /\ AllFit /\ DirectAsks /\ CompletedCovered /\ RunningCovered
        /\ AnswersSent /\ FirstTask /\ AfterAnswer
    BY DEF RowInv
  <1>2. CASE Next
    BY <1>1, <1>2, NextFits, NextDirectAsks, NextCompletedCovered, NextRunningCovered,
       NextAnswersSent, NextFirstTask, NextAfterAnswer DEF RowInv
  <1>3. CASE UNCHANGED vars
    <2>1. AllFit' /\ DirectAsks' /\ CompletedCovered' /\ RunningCovered'
      BY <1>1, <1>3 DEF vars, AllFit, DirectAsks, CompletedCovered, RunningCovered
    <2>2. AnswersSent' /\ FirstTask' /\ AfterAnswer'
      BY <1>1, <1>3 DEF vars, AnswersSent, Sent, FirstTask, UnderWay, Busy, AfterAnswer
    <2> QED
      BY <2>1, <2>2 DEF RowInv
  <1> QED
    BY <1>2, <1>3

-----------------------------------------------------------------------------
(***************************************************************************)
(* The theorems                                                            *)
(***************************************************************************)

\* Every reachable state satisfies the inductive invariant.
THEOREM Invariance == Spec => []IInv
  <1>1. Init => IInv
    BY InitBaseInv, InitRowInv DEF IInv
  <1>2. IInv /\ [Next]_vars => IInv'
    BY NextBaseInv, NextRowInv DEF IInv
  <1> QED
    BY <1>1, <1>2, PTL DEF Spec

\* The variables keep their types, whatever the bounds.
THEOREM TypeCorrect == Spec => []TypeOK
  <1>1. IInv => TypeOK
    BY DEF IInv, BaseInv, CoreInv
  <1> QED
    BY <1>1, Invariance, PTL

\* The repairs of a run and the calls of the model by a task are bounded, with
\* any number of workers, answers, redeliveries and failures.
THEOREM RepairsBoundedHolds == Spec => []RepairsBounded
  <1>1. ASSUME IInv PROVE RepairsBounded
    <2>1. ASSUME NEW k \in Tasks PROVE k.calls <= 1 + MaxRepairs
      <3>1. k \in Slot /\ CallsCounted(k) /\ CountsBounded(k)
        BY <1>1, <2>1 DEF IInv, BaseInv, CoreInv, TypeOK, SlotInv, Tasks
      <3>2. k.calls \in Nat /\ k.ch.repairs \in Nat
        BY <3>1 DEF Slot, Channels
      <3> QED
        BY <3>1, <3>2, RepairsAssumption DEF CallsCounted, CountsBounded
    <2> QED
      BY <1>1, <2>1 DEF IInv, BaseInv, CoreInv, RepairsBounded
  <1> QED
    BY <1>1, Invariance, PTL

\* Only a task that passed the gate itself freezes the version, and so it is
\* with direct requests as long as none of them died.
THEOREM FrozenOnlyIfPassedHolds == Spec => FrozenOnlyIfPassed
  <1> DEFINE Step ==
        version' # version =>
            \/ \E w \in Workers : Passed(worker[w])
            \/ direct.pc = "persist" /\ (crashes = 0 => Passed(direct))
  <1>1. ASSUME IInv, [Next]_vars PROVE [Step]_vars
    <2>1. CASE \E w \in Workers : PersistResult(w)
      <3>1. PICK w \in Workers : PersistResult(w)
        BY <2>1
      <3>2. worker[w].pc = "persist" /\ (HasPlan(worker[w]) \/ version' = version)
        BY <3>1 DEF PersistResult
      <3>3. PlanGoesToGate(worker[w])
        BY <1>1 DEF IInv, BaseInv, CoreInv, SlotInv
      <3> QED
        BY <3>2, <3>3 DEF PlanGoesToGate, Passed
    <2>2. CASE DirectPersist
      <3>1. direct.pc = "persist" /\ (direct.ch.plan \/ version' = version)
        BY <2>2 DEF DirectPersist
      <3>2. PlanGoesToGate(direct) /\ (crashes = 0 /\ direct.ch.plan => HasPlan(direct))
        BY <1>1 DEF IInv, BaseInv, CoreInv, SlotInv, OwnPlan, HasPlan
      <3> QED
        BY <3>1, <3>2 DEF PlanGoesToGate, Passed
    <2>3. CASE ~DirectPersist /\ ~(\E w \in Workers : PersistResult(w))
      <3>1. version' = version
        BY <1>1, <2>3
           DEF Next, vars, StartGeneration, ReadForAnswer, WriteAnswer, QueueTask,
               QueueUnavailable, ApiDies, StartTask, TaskStep, RunNode, SaveProgress,
               Acknowledge, WorkflowFails, TaskGivesUp, WorkerDies, DirectStep, DirectStart,
               DirectNode, DirectFails, DirectDies
      <3> QED
        BY <3>1
    <2> QED
      BY <2>1, <2>2, <2>3
  <1> QED
    BY <1>1, Invariance, PTL DEF Spec, FrozenOnlyIfPassed

\* A question that was answered is not asked again by a task that was under way
\* when the answer came or is delivered again, whatever fails, dies or is sent
\* twice, as long as every answer sent is one that settles it.
THEOREM AnsweredForGoodHolds == Spec => []AnsweredForGood
  <1>1. IInv => AnsweredForGood
    BY DEF IInv, RowInv, AfterAnswer, AnsweredForGood
  <1> QED
    BY <1>1, Invariance, PTL

\* Whatever the number of workers that write the row and die, once all is quiet a
\* row that says completed has its version frozen and none says running.
THEOREM CompletedIsFrozenHolds == Spec => []CompletedIsFrozen
  <1>1. ASSUME IInv PROVE CompletedIsFrozen
    <2>1. SUFFICES ASSUME Quiet, faults = 0
                   PROVE  /\ row.status = "completed" => version = "ready"
                          /\ row.status # "running"
      BY DEF CompletedIsFrozen
    <2>2. /\ ~(queue > 0) /\ \A r \in Requests : req[r] # "queue"
          /\ \A w \in Workers : worker[w].pc = "idle"
      BY <2>1 DEF Quiet
    <2>3. version \in {"draft", "ready"} /\ CompletedCovered /\ RunningCovered
      BY <1>1 DEF IInv, BaseInv, CoreInv, TypeOK, VersionStatus, RowInv
    <2>4. row.status = "completed" => version = "ready"
      BY <2>1, <2>2, <2>3 DEF CompletedCovered
    <2>5. row.status # "running"
      BY <2>1, <2>2, <2>3 DEF RunningCovered
    <2> QED
      BY <2>4, <2>5
  <1> QED
    BY <1>1, Invariance, PTL

=================================================================================

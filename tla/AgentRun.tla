-------------------------------- MODULE AgentRun --------------------------------
(***************************************************************************)
(* One agent run: the AgentRun row and its PipelineVersion, the requests   *)
(* that start it and answer its questions, and the Celery tasks that run   *)
(* the generation graph and write the row after every node.  A client may  *)
(* instead let the request itself run the graph (generate_version).        *)
(*                                                                         *)
(* Nobody locks the row.  A task reads it once, and a session writes a     *)
(* column only when the new value differs from the one it read or wrote    *)
(* itself last (SQLAlchemy tracks attributes), so each worker carries a    *)
(* copy of the columns it deals with.  A task whose worker dies is         *)
(* delivered again (task_acks_late, task_reject_on_worker_lost); a task    *)
(* that raises is not.                                                     *)
(***************************************************************************)
EXTENDS GenerationGraph

CONSTANTS
    Workers,        \* Celery worker slots
    Answers,        \* the answers a maker may send, each once
    Useful,         \* those that contain what was asked for
    MaxTroubles     \* bound: workers that die and whatever else fails

ASSUME AnswersAssumption == Useful \subseteq Answers /\ "start" \notin Answers
ASSUME TroublesAssumption == MaxTroubles \in Nat

Requests == Answers \cup {"start"}

VARIABLES
    row,        \* the AgentRun row
    answers,    \* the answers in its request_json
    version,    \* the PipelineVersion: "draft" or "ready"
    asks,       \* the request leaves something open that must be asked
    req,        \* req[r]: how far the API is with a request
    seen,       \* seen[a]: the answers that the handler of a has read, till it writes
    queue,      \* generation tasks in Celery that no worker has
    thread,     \* the checkpoint of the thread
    worker,     \* worker[w]: the task of a worker slot
    crashes,    \* workers that died, and direct requests that did
    faults,     \* what else failed
    direct      \* the request that runs the graph itself

vars == <<row, answers, version, asks, req, seen, queue, thread, worker, crashes, faults, direct>>

-----------------------------------------------------------------------------
(***************************************************************************)
(* Types and initial state                                                 *)
(***************************************************************************)
RunStatus == {"absent", "running", "needs_clarification", "completed", "failed",
              "validation_failed"}

\* The version is frozen when it becomes ready; nothing ever rejects one.
VersionStatus == {"draft", "ready"}

Row == [status : RunStatus, questions : BOOLEAN, repairs : Nat]

NoRow == [status |-> "absent", questions |-> FALSE, repairs |-> 0]

\* node: a node is to be run; save: its progress is to be written; persist:
\* the graph is over; ack: all is committed.  node is the node last run or to
\* be run, ran the nodes of this task, asks what the task read in the request,
\* mine its copy of the row, calls its calls of the model.
Slot == [pc : {"idle", "node", "save", "persist", "ack"}, node : Nodes, ran : SUBSET Nodes,
         asks : BOOLEAN, ch : Channels, mine : Row, calls : Nat]

Idle == [pc |-> "idle", node |-> "end", ran |-> {}, asks |-> FALSE, ch |-> NewThread,
         mine |-> NoRow, calls |-> 0]

TypeOK ==
    /\ row \in Row
    /\ answers \subseteq Answers
    /\ version \in VersionStatus
    /\ asks \in BOOLEAN
    /\ req \in [Requests -> {"new", "read", "queue", "done"}]
    /\ seen \in [Answers -> SUBSET Answers]
    /\ queue \in Nat
    /\ thread \in Channels
    /\ worker \in [Workers -> Slot]
    /\ crashes \in 0..MaxTroubles
    /\ faults \in 0..MaxTroubles
    /\ direct \in Slot

Init ==
    /\ row = NoRow
    /\ answers = {}
    /\ version = "draft"
    /\ asks \in BOOLEAN
    /\ req = [r \in Requests |-> "new"]
    /\ seen = [a \in Answers |-> {}]
    /\ queue = 0
    /\ thread = NewThread
    /\ worker = [w \in Workers |-> Idle]
    /\ crashes = 0
    /\ faults = 0
    /\ direct = Idle

-----------------------------------------------------------------------------
(***************************************************************************)
(* The API                                                                 *)
(***************************************************************************)

\* start_async_generation inserts the row and queues the task.  While a direct
\* request holds the thread's id, which is unique, the insert waits.
StartGeneration ==
    /\ req["start"] = "new"
    /\ direct.pc = "idle"
    /\ row' = [row EXCEPT !.status = "running"]
    /\ req' = [req EXCEPT !["start"] = "queue"]
    /\ UNCHANGED <<answers, version, asks, seen, queue, thread, worker, crashes, faults, direct>>

\* answer_agent_run reads the row, then looks up the roles of the user ...
ReadForAnswer(a) ==
    /\ req[a] = "new"
    /\ row.status = "needs_clarification"
    /\ req' = [req EXCEPT ![a] = "read"]
    /\ seen' = [seen EXCEPT ![a] = answers]
    /\ UNCHANGED <<row, answers, version, asks, queue, thread, worker, crashes, faults, direct>>

\* ... and writes what it makes of the answers it read.
WriteAnswer(a) ==
    /\ req[a] = "read"
    /\ req' = [req EXCEPT ![a] = "queue"]
    /\ answers' = seen[a] \cup {a}
    /\ seen' = [seen EXCEPT ![a] = {}]
    /\ row' = [row EXCEPT !.status = "running", !.questions = FALSE]
    /\ UNCHANGED <<version, asks, queue, thread, worker, crashes, faults, direct>>

QueueTask(r) ==
    /\ req[r] = "queue"
    /\ req' = [req EXCEPT ![r] = "done"]
    /\ queue' = queue + 1
    /\ UNCHANGED <<row, answers, version, asks, seen, thread, worker, crashes, faults, direct>>

\* delay() raises; the broker may have the message all the same.
QueueUnavailable(r) ==
    /\ req[r] = "queue"
    /\ req' = [req EXCEPT ![r] = "done"]
    /\ row' = [row EXCEPT !.status = "failed"]
    /\ \/ UNCHANGED <<queue, faults>>
       \/ /\ crashes + faults < MaxTroubles
          /\ faults' = faults + 1
          /\ queue' = queue + 1
    /\ UNCHANGED <<answers, version, asks, seen, thread, worker, crashes, direct>>

\* The API dies: nobody queues the task of what it committed.
ApiDies(r) ==
    /\ req[r] \in {"read", "queue"}
    /\ crashes + faults < MaxTroubles
    /\ faults' = faults + 1
    /\ req' = [req EXCEPT ![r] = "done"]
    /\ UNCHANGED <<row, answers, version, asks, seen, queue, thread, worker, crashes, direct>>

-----------------------------------------------------------------------------
(***************************************************************************)
(* The worker                                                              *)
(***************************************************************************)

\* Mutant: the whole row is written.
ColumnMutant(old, mine, new) == new

\* A column is written if it differs from the copy of the session.
Column(old, mine, new) == IF new # mine THEN new ELSE old

Written(old, mine, new) ==
    [status    |-> Column(old.status, mine.status, new.status),
     questions |-> Column(old.questions, mine.questions, new.questions),
     repairs   |-> Column(old.repairs, mine.repairs, new.repairs)]

Started(open, r) ==
    [pc |-> "node", node |-> "intent_parse", ran |-> {}, asks |-> open, ch |-> NewThread,
     mine |-> r, calls |-> 0]

\* Whatever state the row is in: a task delivered again starts all over.
StartTask(w) ==
    /\ worker[w].pc = "idle"
    /\ queue > 0
    /\ queue' = queue - 1
    /\ worker' = [worker EXCEPT ![w] = Started(asks /\ answers \cap Useful = {}, row)]
    /\ UNCHANGED <<row, answers, version, asks, req, seen, thread, crashes, faults, direct>>

\* The graph starts with the channels in the checkpoint of its thread.
Loaded(k) == IF k.ran = {} THEN thread ELSE k.ch

AfterNode(k, c) ==
    [k EXCEPT !.pc = "save", !.ch = c, !.ran = @ \cup {k.node},
              !.calls = IF k.node = "candidate_generation" THEN @ + 1 ELSE @]

\* A node runs and its result is saved as the checkpoint.
RunNode(w) ==
    \E c \in Results(worker[w].node, Loaded(worker[w]), worker[w].asks) :
        /\ worker[w].pc = "node"
        /\ thread' = c
        /\ worker' = [worker EXCEPT ![w] = AfterNode(@, c)]
        /\ UNCHANGED <<row, answers, version, asks, req, seen, queue, crashes, faults, direct>>

\* A status of the graph that the row does not know counts as running.
ShownStatus(s) == IF s \in RunStatus THEN s ELSE "running"

Progress(k) ==
    [status    |-> ShownStatus(k.ch.status),
     questions |-> k.ch.questions,
     repairs   |-> IF "repair" \in k.ran THEN k.ch.repairs ELSE k.mine.repairs]

AfterSave(k, next, new) ==
    [k EXCEPT !.pc = IF next = "end" THEN "persist" ELSE "node", !.node = next, !.mine = new]

\* persist_progress, after every node.
SaveProgress(w) ==
    LET new == Progress(worker[w])
        next == NextNode(worker[w].node, worker[w].ch)
    IN  /\ worker[w].pc = "save"
        /\ row' = Written(row, worker[w].mine, new)
        /\ worker' = [worker EXCEPT ![w] = AfterSave(@, next, new)]
        /\ UNCHANGED <<answers, version, asks, req, seen, queue, thread, crashes, faults, direct>>

\* Mutant: the result takes the plan from the checkpoint.
HasPlanMutant(k) == k.ch.plan

\* The result is put together from what the nodes of this task returned.
HasPlan(k) == "schema_validation" \in k.ran /\ k.ch.plan

Result(k) ==
    [status    |-> k.ch.status,
     questions |-> k.ch.questions,
     repairs   |-> IF "repair" \in k.ran THEN k.ch.repairs ELSE 0]

AfterPersist(k, new) == [k EXCEPT !.pc = "ack", !.mine = new]

PersistResult(w) ==
    LET k == worker[w]
        new == Result(k)
    IN  /\ k.pc = "persist"
        /\ row' = Written(row, k.mine, new)
        /\ version' = IF HasPlan(k) THEN "ready" ELSE version
        /\ worker' = [worker EXCEPT ![w] = AfterPersist(@, new)]
        /\ UNCHANGED <<answers, asks, req, seen, queue, thread, crashes, faults, direct>>

Acknowledge(w) ==
    /\ worker[w].pc = "ack"
    /\ worker' = [worker EXCEPT ![w] = Idle]
    /\ UNCHANGED <<row, answers, version, asks, req, seen, queue, thread, crashes, faults, direct>>

\* The provider is not configured, or the graph raises: the row says failed.
WorkflowFails(w) ==
    /\ worker[w].pc = "node"
    /\ row' = Written(row, worker[w].mine, [worker[w].mine EXCEPT !.status = "failed"])
    /\ worker' = [worker EXCEPT ![w] = Idle]
    /\ UNCHANGED <<answers, version, asks, req, seen, queue, thread, crashes, faults, direct>>

\* A commit fails, because the database is gone or because another version
\* has the digest of this plan already: the row stays as the progress left it,
\* for the failure cannot be written by a session that has failed either.
TaskGivesUp(w) ==
    /\ worker[w].pc \in {"node", "save", "persist"}
    /\ crashes + faults < MaxTroubles
    /\ faults' = faults + 1
    /\ worker' = [worker EXCEPT ![w] = Idle]
    /\ UNCHANGED <<row, answers, version, asks, req, seen, queue, thread, crashes, direct>>

\* Mutant: the task is acknowledged when it is delivered.
WorkerDiesMutant(w) ==
    /\ worker[w].pc # "idle"
    /\ crashes + faults < MaxTroubles
    /\ crashes' = crashes + 1
    /\ worker' = [worker EXCEPT ![w] = Idle]
    /\ UNCHANGED <<row, answers, version, asks, req, seen, queue, thread, faults, direct>>

WorkerDies(w) ==
    /\ worker[w].pc # "idle"
    /\ crashes + faults < MaxTroubles
    /\ crashes' = crashes + 1
    /\ worker' = [worker EXCEPT ![w] = Idle]
    /\ queue' = queue + 1
    /\ UNCHANGED <<row, answers, version, asks, req, seen, thread, faults, direct>>

-----------------------------------------------------------------------------
(***************************************************************************)
(* The synchronous endpoint, generate_version: the request runs the graph  *)
(* itself, in the transaction that inserts the row.  Nobody sees the row   *)
(* before it commits; the checkpoints are saved as they are made.          *)
(***************************************************************************)
DirectStart ==
    /\ req["start"] = "new"
    /\ direct.pc = "idle"
    /\ direct' = Started(asks, NoRow)
    /\ UNCHANGED <<row, answers, version, asks, req, seen, queue, thread, worker, crashes, faults>>

DirectNode ==
    \E c \in Results(direct.node, Loaded(direct), direct.asks) :
        /\ direct.pc = "node"
        /\ thread' = c
        /\ direct' = AfterSave(AfterNode(direct, c), NextNode(direct.node, c), NoRow)
        /\ UNCHANGED <<row, answers, version, asks, req, seen, queue, worker, crashes, faults>>

\* Here the result is the whole state of the thread, whatever part of it the
\* nodes of this request returned.
DirectResult ==
    [status |-> direct.ch.status, questions |-> direct.ch.questions, repairs |-> direct.ch.repairs]

\* Row and version are committed together.
DirectPersist ==
    /\ direct.pc = "persist"
    /\ row' = DirectResult
    /\ version' = IF direct.ch.plan THEN "ready" ELSE version
    /\ req' = [req EXCEPT !["start"] = "done"]
    /\ direct' = Idle
    /\ UNCHANGED <<answers, asks, seen, queue, thread, worker, crashes, faults>>

\* The graph raises: the row is committed as failed.
DirectFails ==
    /\ direct.pc = "node"
    /\ row' = [NoRow EXCEPT !.status = "failed"]
    /\ req' = [req EXCEPT !["start"] = "done"]
    /\ direct' = Idle
    /\ UNCHANGED <<answers, version, asks, seen, queue, thread, worker, crashes, faults>>

\* The API dies, or the commit is refused: there is no row, but a checkpoint
\* that the next request with the id of the thread will find.
DirectDies ==
    /\ direct.pc # "idle"
    /\ crashes + faults < MaxTroubles
    /\ crashes' = crashes + 1
    /\ direct' = Idle
    /\ UNCHANGED <<row, answers, version, asks, req, seen, queue, thread, worker, faults>>

-----------------------------------------------------------------------------
DirectStep == DirectStart \/ DirectNode \/ DirectPersist \/ DirectFails \/ DirectDies

TaskStep(w) ==
    RunNode(w) \/ SaveProgress(w) \/ PersistResult(w) \/ Acknowledge(w)

Next ==
    \/ StartGeneration
    \/ DirectStep
    \/ \E a \in Answers : ReadForAnswer(a) \/ WriteAnswer(a)
    \/ \E r \in Requests : QueueTask(r) \/ QueueUnavailable(r) \/ ApiDies(r)
    \/ \E w \in Workers :
           StartTask(w) \/ TaskStep(w) \/ WorkflowFails(w) \/ TaskGivesUp(w) \/ WorkerDies(w)

Spec == Init /\ [][Next]_vars

(***************************************************************************)
(* Fairness: a request that was read is carried through, Celery delivers   *)
(* queued tasks and a task goes on.  Nobody has to answer a question.      *)
(***************************************************************************)
Fairness ==
    /\ \A a \in Answers : WF_vars(WriteAnswer(a))
    /\ \A r \in Requests : WF_vars(QueueTask(r) \/ QueueUnavailable(r))
    /\ WF_vars(\E w \in Workers : StartTask(w))
    /\ \A w \in Workers : WF_vars(TaskStep(w))

FairSpec == Spec /\ Fairness

-----------------------------------------------------------------------------
(***************************************************************************)
(* Properties                                                              *)
(***************************************************************************)
\* What runs the graph, tasks and the direct request.
Tasks == {worker[w] : w \in Workers} \cup {direct}

Quiet ==
    /\ queue = 0
    /\ direct.pc = "idle"
    /\ \A w \in Workers : worker[w].pc = "idle"
    /\ \A r \in Requests : req[r] \in {"new", "done"}

\* However often a thread is run again, the row never shows more repairs than
\* are allowed, and a task calls the model once and once per repair.
RepairsBounded ==
    /\ row.repairs <= MaxRepairs
    /\ \A k \in Tasks : k.calls <= 1 + MaxRepairs

Passed(k) ==
    k.pc = "persist" /\ k.ch.status = "completed" /\ "deterministic_gate" \in k.ran

\* A version is frozen only by a task that passed the gate itself, never by
\* the plan that an earlier task left in the checkpoint.  The same holds of a
\* direct request as long as no earlier one died: it would take over the plan.
FrozenOnlyIfPassed ==
    [][version' # version =>
          \/ \E w \in Workers : Passed(worker[w])
          \/ direct.pc = "persist" /\ (crashes = 0 => Passed(direct))]_vars

\* The answers that were sent, whether or not they are still in the row.
Sent == {a \in Answers : req[a] # "new"}

\* A run whose question was answered does not ask it again, although the task
\* that asked may still be writing the row when the answer comes, or is delivered
\* again.  (Unless an answer that does not settle it was sent as well: the task
\* that one started asks again, and may write that after the other has settled it.)
AnsweredForGood ==
    answers # {} /\ Sent \subseteq Useful =>
        row.status # "needs_clarification" /\ ~row.questions

\* When all is quiet and nothing failed but workers, a run that says completed
\* has its version frozen, and none says running.
CompletedIsFrozen ==
    Quiet /\ faults = 0 =>
        /\ row.status = "completed" => version = "ready"
        /\ row.status # "running"

\* A started run, and an answered one, comes to rest with an end or with
\* questions, even if workers die.
GenerationEnds ==
    row.status = "running" ~> (Quiet /\ row.status # "running") \/ faults > 0

=================================================================================

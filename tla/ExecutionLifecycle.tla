-------------------------- MODULE ExecutionLifecycle --------------------------
(***************************************************************************)
(* The life of a committed execution: the ExecutionRun row, the            *)
(* transactional outbox, the Tool Broker that is the only one to call the  *)
(* data plane, the supervision tasks that turn job states into further     *)
(* outbox events, and the operator who cancels and rolls back.             *)
(*                                                                         *)
(* What is atomic.  Every handler takes the row lock of its execution      *)
(* (SELECT ... FOR UPDATE) and keeps it until it commits.  A handler that  *)
(* has no effect outside the database is one step, enabled when the row    *)
(* is not locked.  The broker calls the data plane and Redis while it      *)
(* holds the lock and can die in between, so its handler is split at       *)
(* those calls.                                                            *)
(*                                                                         *)
(* Everything that goes wrong by itself (a crash, an uncaught exception, a *)
(* refused or lost call, an expired token, an exhausted retry) is a step   *)
(* of the behaviour that also spends one unit of MaxFaults.                *)
(***************************************************************************)
EXTENDS DataPlane

CONSTANTS
    Workers,        \* Celery worker slots that run broker tasks
    NoEvent,        \* the event of an idle worker
    MaxAttempts,    \* bound: outbox events of one kind of one execution
    MaxPolls,       \* bound: queued supervision tasks of one execution
    MaxFaults       \* bound: faults in a behaviour

ASSUME BoundsAssumption ==
    /\ MaxAttempts \in Nat \ {0}
    /\ MaxPolls \in Nat \ {0}
    /\ MaxFaults \in Nat

Kinds == {"submit", "cancel", "cleanup", "swap", "rollback"}

\* The n-th outbox event of a kind for an execution.  The first one has the
\* deduplication key "kind:execution", a later one a key of its own.
EventId == Execs \X Kinds \X (1..MaxAttempts)

ASSUME NoEventAssumption == NoEvent \notin EventId

ExecOf(ev) == ev[1]
KindOf(ev) == ev[2]

VARIABLES
    run,        \* run[e]: the ExecutionRun row
    outbox,     \* outbox[ev]: the status of an OutboxEvent row
    spent,      \* the events whose capability Redis holds as consumed
    mail,       \* the events with a broker task queued in Celery
    polls,      \* polls[e]: supervision tasks that will observe the job
    acts,       \* acts[e]: supervision tasks between their two transactions
    broker,     \* broker[w]: what worker slot w is doing
    faults      \* faults so far

ctlVars == <<run, outbox, spent, mail, polls, acts, broker, faults>>
vars == <<planeVars, ctlVars>>

-----------------------------------------------------------------------------
(***************************************************************************)
(* Types                                                                   *)
(***************************************************************************)
RunStatus == {"absent", "QUEUED", "RUNNING", "SUCCEEDED", "FAILED",
              "CANCEL_REQUESTED", "CANCELLED"}

\* RollbackStatus.FAILED exists in the source and is never assigned.
Run == [status   : RunStatus,
        quality  : {"PENDING", "PASSED", "REJECTED", "FAILED"},
        publish  : {"NOT_STARTED", "SWAP_REQUESTED", "PUBLISHED", "CLEANED"},
        rollback : {"NOT_REQUESTED", "REQUESTED", "COMPLETED"},
        job      : BOOLEAN]         \* engine_job_id is known

EventStatus == {"absent", "PENDING", "PUBLISHED", "FAILED"}

\* picked: the worker knows the event id and waits for the row locks;
\* armed: capability consumed; done, error, raised: the call returned, raised
\* an error the broker handles, or raised one it does not; sched: committed,
\* the supervision task is not queued yet.
BrokerPC == {"idle", "picked", "armed", "done", "error", "raised", "sched"}

Slot == [pc : BrokerPC, ev : EventId \cup {NoEvent}, via : {"none", "beat", "task"}]
Idle == [pc |-> "idle", ev |-> NoEvent, via |-> "none"]

TypeOK ==
    /\ PlaneTypeOK
    /\ run \in [Execs -> Run]
    /\ outbox \in [EventId -> EventStatus]
    /\ spent \subseteq EventId
    /\ mail \subseteq EventId
    /\ polls \in [Execs -> 0..MaxPolls]
    /\ acts \in [Execs -> 0..MaxPolls]
    /\ broker \in [Workers -> Slot]
    /\ faults \in 0..MaxFaults

NoRun == [status |-> "absent", quality |-> "PENDING", publish |-> "NOT_STARTED",
          rollback |-> "NOT_REQUESTED", job |-> FALSE]

Init ==
    /\ PlaneInit
    /\ run = [e \in Execs |-> NoRun]
    /\ outbox = [ev \in EventId |-> "absent"]
    /\ spent = {}
    /\ mail = {}
    /\ polls = [e \in Execs |-> 0]
    /\ acts = [e \in Execs |-> 0]
    /\ broker = [w \in Workers |-> Idle]
    /\ faults = 0

-----------------------------------------------------------------------------
(***************************************************************************)
(* Helpers                                                                 *)
(***************************************************************************)
Fault   == faults < MaxFaults /\ faults' = faults + 1
NoFault == UNCHANGED faults

Holding == {"armed", "done", "error", "raised"}     \* inside the transaction

Works(w, e) == broker[w].ev # NoEvent /\ ExecOf(broker[w].ev) = e

Holds(w, e) == broker[w].pc \in Holding /\ Works(w, e)

\* Mutant: the row is read without FOR UPDATE.
UnlockedMutant(e) == e \in Execs

Unlocked(e) == \A w \in Workers : ~Holds(w, e)

\* Mutant: only pending events count as existing.
LiveMutant(e, k) == \E n \in 1..MaxAttempts : outbox[<<e, k, n>>] = "PENDING"

Live(e, k) ==
    \E n \in 1..MaxAttempts : outbox[<<e, k, n>>] \in {"PENDING", "PUBLISHED"}

\* The next event of kind k that e would get.
IsNext(e, k, n) ==
    /\ outbox[<<e, k, n>>] = "absent"
    /\ \A m \in 1..(n - 1) : outbox[<<e, k, m>>] # "absent"

Enqueue(ev) == outbox' = [outbox EXCEPT ![ev] = "PENDING"]

Settle(ev, s) == outbox' = [outbox EXCEPT ![ev] = s]

SetStatus(e, s) == run' = [run EXCEPT ![e].status = s]

Goto(w, pc) == broker' = [broker EXCEPT ![w].pc = pc]

\* The task ends and is acknowledged; an event id read by beat has no task.
Finish(w) ==
    /\ broker' = [broker EXCEPT ![w] = Idle]
    /\ mail' = IF broker[w].via = "task" THEN mail \ {broker[w].ev} ELSE mail

-----------------------------------------------------------------------------
(***************************************************************************)
(* The API: commit, cancel and rollback, each one transaction              *)
(***************************************************************************)

\* The tail of commit_preparation: the run and its submit event together.
CommitPreparation(e) ==
    /\ run[e].status = "absent"
    /\ SetStatus(e, "QUEUED")
    /\ Enqueue(<<e, "submit", 1>>)
    /\ UNCHANGED <<planeVars, spent, mail, polls, acts, broker, faults>>

\* _queue_execution_action: nothing when an event of that kind is live.
QueueIfNone(e, k) ==
    \/ Live(e, k) /\ UNCHANGED outbox
    \/ /\ ~Live(e, k)
       /\ \E n \in 1..MaxAttempts : IsNext(e, k, n) /\ Enqueue(<<e, k, n>>)

CancelRun(e) ==
    /\ Unlocked(e)
    /\ run[e].status \in {"QUEUED", "RUNNING", "CANCEL_REQUESTED"}
    /\ SetStatus(e, "CANCEL_REQUESTED")
    /\ QueueIfNone(e, "cancel")
    /\ UNCHANGED <<planeVars, spent, mail, polls, acts, broker, faults>>

RollbackRun(e) ==
    /\ Unlocked(e)
    /\ run[e].rollback # "COMPLETED"
    /\ run[e].status \in {"SUCCEEDED", "FAILED", "CANCELLED"}
    /\ run[e].job
    /\ run' = [run EXCEPT ![e].rollback = "REQUESTED"]
    /\ QueueIfNone(e, "rollback")
    /\ UNCHANGED <<planeVars, spent, mail, polls, acts, broker, faults>>

-----------------------------------------------------------------------------
(***************************************************************************)
(* The Tool Broker                                                         *)
(***************************************************************************)

\* Beat reads the ids of the pending events without locking them.
BeatPick(w, ev) ==
    /\ broker[w].pc = "idle"
    /\ outbox[ev] = "PENDING"
    /\ broker' = [broker EXCEPT ![w] = [pc |-> "picked", ev |-> ev, via |-> "beat"]]
    /\ UNCHANGED <<planeVars, run, outbox, spent, mail, polls, acts, faults>>

\* A queued broker task is delivered.  It leaves the queue when it ends.
TaskPick(w, ev) ==
    /\ broker[w].pc = "idle"
    /\ ev \in mail
    /\ \A v \in Workers : broker[v].via = "task" => broker[v].ev # ev
    /\ broker' = [broker EXCEPT ![w] = [pc |-> "picked", ev |-> ev, via |-> "task"]]
    /\ UNCHANGED <<planeVars, run, outbox, spent, mail, polls, acts, faults>>

\* Both rows are locked now; what the broker does depends on what it reads.
Locks(w, ev) ==
    /\ broker[w].pc = "picked"
    /\ ev = broker[w].ev
    /\ Unlocked(ExecOf(ev))

\* The event was settled by somebody else: report the known job.
FindSettled(w) ==
    \E ev \in EventId :
        /\ Locks(w, ev)
        /\ outbox[ev] # "PENDING"
        /\ \/ run[ExecOf(ev)].job /\ Goto(w, "sched") /\ UNCHANGED mail
           \/ ~run[ExecOf(ev)].job /\ Finish(w)
        /\ UNCHANGED <<planeVars, run, outbox, spent, polls, acts, faults>>

\* Mutant: only the confirmed cancellation stops a late submit.
CancelledBeforeMutant(ev) ==
    KindOf(ev) = "submit" /\ run[ExecOf(ev)].status = "CANCELLED"

CancelledBefore(ev) ==
    /\ KindOf(ev) = "submit"
    /\ run[ExecOf(ev)].status \in {"CANCEL_REQUESTED", "CANCELLED"}

\* A submit that comes after the cancellation is dropped.
DropLateSubmit(w) ==
    \E ev \in EventId :
        /\ Locks(w, ev)
        /\ outbox[ev] = "PENDING"
        /\ CancelledBefore(ev)
        /\ Settle(ev, "FAILED")
        /\ Finish(w)
        /\ UNCHANGED <<planeVars, run, spent, polls, acts, faults>>

\* Mutant: the failed event leaves its run as it was.
FailEventMutant(ev) == Settle(ev, "FAILED") /\ UNCHANGED run

\* The except branch: event and run become FAILED in one transaction.
FailEvent(ev) ==
    /\ Settle(ev, "FAILED")
    /\ SetStatus(ExecOf(ev), "FAILED")

\* Mutant: a refused token is an error the broker does not handle.
RefuseTokenMutant(w) ==
    \E ev \in EventId :
        /\ Locks(w, ev)
        /\ outbox[ev] = "PENDING"
        /\ ev \in spent
        /\ Finish(w)
        /\ UNCHANGED <<planeVars, run, outbox, spent, polls, acts, faults>>

\* The capability was consumed before, or has expired.  (Its subject always
\* fits: a project has one operator, who commits, cancels and rolls back.)
RefuseToken(w) ==
    \E ev \in EventId :
        /\ Locks(w, ev)
        /\ outbox[ev] = "PENDING"
        /\ ~CancelledBefore(ev)
        /\ \/ ev \in spent /\ NoFault
           \/ ev \notin spent /\ Fault
        /\ FailEvent(ev)
        /\ Finish(w)
        /\ UNCHANGED <<planeVars, spent, polls, acts>>

\* Mutant: the replay guard is not asked.
ConsumeTokenMutant(w) ==
    \E ev \in EventId :
        /\ Locks(w, ev)
        /\ outbox[ev] = "PENDING"
        /\ ~CancelledBefore(ev)
        /\ spent' = spent \cup {ev}
        /\ Goto(w, "armed")
        /\ UNCHANGED <<planeVars, run, outbox, mail, polls, acts, faults>>

\* consume_once succeeds: from here on the event can act.
ConsumeToken(w) ==
    \E ev \in EventId :
        /\ Locks(w, ev)
        /\ outbox[ev] = "PENDING"
        /\ ~CancelledBefore(ev)
        /\ ev \notin spent
        /\ spent' = spent \cup {ev}
        /\ Goto(w, "armed")
        /\ UNCHANGED <<planeVars, run, outbox, mail, polls, acts, faults>>

\* The call of the data plane.  A capability is good for one call.
CallSubmit(e, w) ==
    \/ SubmitAccepted(e)  /\ Goto(w, "done")   /\ NoFault
    \/ SubmitRejected(e)  /\ Goto(w, "error")  /\ Fault
    \/ SubmitReplyLost(e) /\ Goto(w, "error")  /\ Fault
    \/ SubmitBroken(e)    /\ Goto(w, "raised") /\ Fault

\* Without a job the payload of the event has None for its id, which str() makes
\* the text "None": the branch for an empty id is never taken, and SeaTunnel is
\* asked to stop a job of that name, which it refuses.
CallCancel(e, w) ==
    \/ ~run[e].job /\ UNCHANGED planeVars /\ Goto(w, "error") /\ NoFault
    \/ run[e].job /\ StopJob(e) /\ Goto(w, "done") /\ NoFault
    \/ run[e].job /\ StopJob(e) /\ Goto(w, "error") /\ Fault
    \/ run[e].job /\ UNCHANGED planeVars /\ Goto(w, "error") /\ Fault

\* Vault does not give the credentials of Doris, an error the broker handles.
NoCredentials(w) == UNCHANGED planeVars /\ Goto(w, "error") /\ Fault

CallCleanup(e, w) ==
    \/ DropShadow(e) /\ Goto(w, "done") /\ NoFault
    \/ NoCredentials(w)

\* pymysql errors of the exchange are not among those the broker catches.
NoShadow(e, w) ==
    shadow[e] = "absent" /\ UNCHANGED planeVars /\ Goto(w, "raised") /\ NoFault

\* Mutant: the swap is not awaited.
CallSwapMutant(e, w) == UNCHANGED planeVars /\ Goto(w, "done") /\ NoFault

CallSwap(e, w) ==
    \/ Exchange(e) /\ Goto(w, "done") /\ NoFault
    \/ NoShadow(e, w)
    \/ NoCredentials(w)

\* The second statement, DROP TABLE, may fail after the first took effect.
CallRollback(e, w) ==
    \/ ExchangeAndDrop(e) /\ Goto(w, "done") /\ NoFault
    \/ Exchange(e) /\ Goto(w, "raised") /\ Fault
    \/ NoShadow(e, w)
    \/ NoCredentials(w)

CallPlane(w) ==
    /\ broker[w].pc = "armed"
    /\ LET e == ExecOf(broker[w].ev)
           k == KindOf(broker[w].ev)
       IN  \/ k = "submit"   /\ CallSubmit(e, w)
           \/ k = "cancel"   /\ CallCancel(e, w)
           \/ k = "cleanup"  /\ CallCleanup(e, w)
           \/ k = "swap"     /\ CallSwap(e, w)
           \/ k = "rollback" /\ CallRollback(e, w)
    /\ UNCHANGED <<run, outbox, spent, mail, polls, acts>>

\* Mutant: the job id is not stored on submit.
ConfirmedMutant(r, k) ==
    CASE k = "submit"   -> [r EXCEPT !.status = "RUNNING"]
      [] k = "cancel"   -> [r EXCEPT !.status = "CANCELLED"]
      [] k = "cleanup"  -> [r EXCEPT !.publish = "CLEANED"]
      [] k = "swap"     -> [r EXCEPT !.status = "SUCCEEDED", !.publish = "PUBLISHED"]
      [] k = "rollback" -> [r EXCEPT !.rollback = "COMPLETED", !.publish = "CLEANED"]

\* What the row becomes when the call of kind k is confirmed.
Confirmed(r, k) ==
    CASE k = "submit"   -> [r EXCEPT !.status = "RUNNING", !.job = TRUE]
      [] k = "cancel"   -> [r EXCEPT !.status = "CANCELLED"]
      [] k = "cleanup"  -> [r EXCEPT !.publish = "CLEANED"]
      [] k = "swap"     -> [r EXCEPT !.status = "SUCCEEDED", !.publish = "PUBLISHED"]
      [] k = "rollback" -> [r EXCEPT !.rollback = "COMPLETED", !.publish = "CLEANED"]

\* The call returned: event and row change in one transaction, whose
\* result makes the worker queue a supervision task if a job is known.
ConfirmEvent(w) ==
    \E ev \in EventId :
        /\ broker[w].pc = "done"
        /\ ev = broker[w].ev
        /\ Settle(ev, "PUBLISHED")
        /\ run' = [run EXCEPT ![ExecOf(ev)] = Confirmed(@, KindOf(ev))]
        /\ IF run'[ExecOf(ev)].job THEN Goto(w, "sched") /\ UNCHANGED mail ELSE Finish(w)
        /\ UNCHANGED <<planeVars, spent, polls, acts, faults>>

\* The call raised an error the broker handles.
RejectEvent(w) ==
    \E ev \in EventId :
        /\ broker[w].pc = "error"
        /\ ev = broker[w].ev
        /\ FailEvent(ev)
        /\ Finish(w)
        /\ UNCHANGED <<planeVars, spent, polls, acts, faults>>

\* The call raised any other error: the transaction is rolled back.
RollBackBroker(w) ==
    /\ broker[w].pc = "raised"
    /\ Finish(w)
    /\ UNCHANGED <<planeVars, run, outbox, spent, polls, acts, faults>>

ScheduleSupervision(w) ==
    \E e \in Execs :
        /\ broker[w].pc = "sched"
        /\ Works(w, e)
        /\ polls[e] + acts[e] < MaxPolls
        /\ polls' = [polls EXCEPT ![e] = @ + 1]
        /\ Finish(w)
        /\ UNCHANGED <<planeVars, run, outbox, spent, acts, faults>>

\* The worker dies, Doris cannot be reached or does not answer, or the
\* transaction cannot commit (for instance because two appends to the ledger
\* collide).  Redis keeps the capability consumed.  A task whose worker died
\* is delivered again, one that raised is not.
AbortBroker(w) ==
    /\ broker[w].pc \in {"armed", "done", "sched"}
    /\ Fault
    /\ \/ Finish(w)
       \/ broker' = [broker EXCEPT ![w] = Idle] /\ UNCHANGED mail
    /\ UNCHANGED <<planeVars, run, outbox, spent, polls, acts>>

-----------------------------------------------------------------------------
(***************************************************************************)
(* Supervision: one task observes the job in a first transaction and       *)
(* queues what follows from the row in a second one                        *)
(***************************************************************************)
Passed(r) ==
    [r EXCEPT !.status = "SUCCEEDED", !.quality = "PASSED",
              !.publish = IF @ \in {"PUBLISHED", "CLEANED"} THEN @ ELSE "SWAP_REQUESTED"]

Rejected(r) == [r EXCEPT !.status = "FAILED", !.quality = "REJECTED"]

CaptureFailed(r) == [r EXCEPT !.status = "FAILED", !.quality = "FAILED"]

\* The rows one observation of a job in state s can leave.  The rejected
\* rows are counted again in the live source each time, and a running job
\* may or may not exceed its budget.
Observations(r, s) ==
    IF r.status \in {"CANCEL_REQUESTED", "CANCELLED"} THEN {r}
    ELSE CASE s \in {"RUNNING", "CANCELING"} ->
                    {r, [r EXCEPT !.status = "CANCEL_REQUESTED"]}
           [] s = "SUCCEEDED" -> {Passed(r), Rejected(r)}
           [] s = "FAILED"    -> {[r EXCEPT !.status = "FAILED"]}
           [] s = "CANCELLED" -> {[r EXCEPT !.status = "CANCELLED"]}
           [] OTHER           -> {r}

\* Observations with a failure in them: the rejected rows cannot be written
\* to the error table, or SeaTunnel answers with a state it does not map.
BadObservations(r, s) ==
    IF s = "SUCCEEDED" /\ r.status \notin {"CANCEL_REQUESTED", "CANCELLED"}
    THEN {r, CaptureFailed(r)} ELSE {r}

ObserveJob(e) ==
    /\ polls[e] > 0
    /\ Unlocked(e)
    /\ \/ \E r \in Observations(run[e], engine[e]) :
              run' = [run EXCEPT ![e] = r] /\ NoFault
       \/ \E r \in BadObservations(run[e], engine[e]) :
              run' = [run EXCEPT ![e] = r] /\ Fault
    /\ polls' = [polls EXCEPT ![e] = @ - 1]
    /\ acts' = [acts EXCEPT ![e] = @ + 1]
    /\ UNCHANGED <<planeVars, outbox, spent, mail, broker>>

\* get_status raises: the task fails and nothing queues it again.
ObservationFails(e) ==
    /\ polls[e] > 0
    /\ Fault
    /\ polls' = [polls EXCEPT ![e] = @ - 1]
    /\ UNCHANGED <<planeVars, run, outbox, spent, mail, acts, broker>>

\* Mutant: every run that is not published yet is swapped.
FollowUpEagerMutant(r) ==
    IF r.status = "CANCEL_REQUESTED" THEN "cancel"
    ELSE IF r.job /\ r.publish = "NOT_STARTED" THEN "swap" ELSE "none"

\* Mutant: failed runs are not cleaned up.
FollowUpNoCleanupMutant(r) ==
    IF r.status = "CANCEL_REQUESTED" THEN "cancel"
    ELSE IF r.publish = "SWAP_REQUESTED" THEN "swap" ELSE "none"

\* Mutant: supervision does not queue the cancellation it decided.
FollowUpNoCancelMutant(r) ==
    IF r.publish = "SWAP_REQUESTED" THEN "swap"
    ELSE IF r.status = "FAILED" /\ r.job THEN "cleanup" ELSE "none"

FollowUpKind(r) ==
    CASE r.status = "CANCEL_REQUESTED"      -> "cancel"
      [] r.status # "CANCEL_REQUESTED"
           /\ r.publish = "SWAP_REQUESTED"  -> "swap"
      [] r.status = "FAILED" /\ r.job
           /\ r.publish # "SWAP_REQUESTED"  -> "cleanup"
      [] OTHER                              -> "none"

\* queue_execution_action, then the broker task of the new event.
QueueFollowUp(e, k) ==
    \/ k = "none" /\ UNCHANGED <<outbox, mail>>
    \/ k # "none" /\ Live(e, k) /\ UNCHANGED <<outbox, mail>>
    \/ /\ k # "none" /\ ~Live(e, k)
       /\ \E n \in 1..MaxAttempts :
              /\ IsNext(e, k, n)
              /\ Enqueue(<<e, k, n>>)
              /\ mail' = mail \cup {<<e, k, n>>}

\* The task is queued again while the run is RUNNING, unless its 120 retries
\* are used up; a task whose worker dies before it ends is delivered again.
QueueAction(e) ==
    /\ acts[e] > 0
    /\ Unlocked(e)
    /\ QueueFollowUp(e, FollowUpKind(run[e]))
    /\ \E again \in BOOLEAN :
           /\ polls' = [polls EXCEPT ![e] = IF again THEN @ + 1 ELSE @]
           /\ \/ again = (run[e].status \in {"QUEUED", "RUNNING"}) /\ NoFault
              \/ again # (run[e].status \in {"QUEUED", "RUNNING"}) /\ Fault
    /\ acts' = [acts EXCEPT ![e] = @ - 1]
    /\ UNCHANGED <<planeVars, run, spent, broker>>

\* The worker dies between the two transactions.
RestartSupervision(e) ==
    /\ acts[e] > 0
    /\ Fault
    /\ acts' = [acts EXCEPT ![e] = @ - 1]
    /\ polls' = [polls EXCEPT ![e] = @ + 1]
    /\ UNCHANGED <<planeVars, run, outbox, spent, mail, broker>>

JobStep(e) == EngineStep(e) /\ UNCHANGED ctlVars

-----------------------------------------------------------------------------
BrokerStep(w) ==
    \/ FindSettled(w) \/ DropLateSubmit(w) \/ RefuseToken(w) \/ ConsumeToken(w)
    \/ CallPlane(w) \/ ConfirmEvent(w) \/ RejectEvent(w) \/ RollBackBroker(w)
    \/ ScheduleSupervision(w)

Next ==
    \/ \E e \in Execs :
           \/ CommitPreparation(e) \/ CancelRun(e) \/ RollbackRun(e)
           \/ ObserveJob(e) \/ ObservationFails(e)
           \/ QueueAction(e) \/ RestartSupervision(e)
           \/ JobStep(e)
    \/ \E w \in Workers :
           \/ BrokerStep(w) \/ AbortBroker(w)
           \/ \E ev \in EventId : BeatPick(w, ev) \/ TaskPick(w, ev)

Spec == Init /\ [][Next]_vars

(***************************************************************************)
(* Fairness.  Celery runs a queued task and Beat reads the outbox every    *)
(* few seconds, so broker and supervision steps that stay possible are     *)
(* taken; SeaTunnel jobs end.  Users owe nothing, and neither do faults.   *)
(***************************************************************************)
Fairness ==
    /\ \A w \in Workers : WF_vars(BrokerStep(w))
    /\ \A ev \in EventId : WF_vars(\E w \in Workers : BeatPick(w, ev) \/ TaskPick(w, ev))
    /\ \A e \in Execs : WF_vars(ObserveJob(e)) /\ WF_vars(QueueAction(e))
    /\ \A e \in Execs : WF_vars(JobStep(e))

FairSpec == Spec /\ Fairness

-----------------------------------------------------------------------------
(***************************************************************************)
(* Safety                                                                  *)
(***************************************************************************)

\* An execution has at most one event of a kind that is pending or took
\* effect, whoever queues it (operator, supervision) and however often.
OneLiveEvent ==
    \A e \in Execs, k \in Kinds : \A m, n \in 1..MaxAttempts :
        /\ outbox[<<e, k, m>>] \in {"PENDING", "PUBLISHED"}
        /\ outbox[<<e, k, n>>] \in {"PENDING", "PUBLISHED"}
        => m = n

\* No crash, redelivery or race of two workers makes SeaTunnel accept a
\* second job for an execution.
SubmitOnce == \A e \in Execs : submits[e] <= 1

\* SeaTunnel never accepts a job for a run that is marked as cancelled, however
\* the cancel request and the broker interleave.
NoSubmitOnceCancelled ==
    [][\A e \in Execs :
          submits'[e] # submits[e]
              => run[e].status \notin {"CANCEL_REQUESTED", "CANCELLED"}]_vars

\* The stage of an event, from its row, the tokens and the workers.
At(ev, pcs) == \E w \in Workers : broker[w].ev = ev /\ broker[w].pc \in pcs

Stage(ev) ==
    CASE outbox[ev] = "absent"    -> "none"
      [] outbox[ev] = "PUBLISHED" -> "published"
      [] outbox[ev] = "FAILED"    -> "failed"
      [] outbox[ev] = "PENDING"   -> IF At(ev, {"armed"}) THEN "armed"
                                     ELSE IF At(ev, {"done", "error", "raised"}) THEN "called"
                                     ELSE IF ev \in spent THEN "lost" ELSE "queued"

Promise == INSTANCE OutboxPromise
           WITH Numbers <- 1..MaxAttempts, stage <- [ev \in EventId |-> Stage(ev)],
                jobs <- submits, shown <- target

\* Whatever crashes, races, redeliveries and retries do, an event moves through
\* the stages of OutboxPromise: its one call happens after its capability was
\* consumed, a settled event is settled for good, an event that lost its worker
\* never acts again, a second event of its kind waits until it failed, two
\* events of an execution never act at the same time, and nothing but such a
\* call starts a job or touches the live table.
KeepsPromise == Promise!Spec

Published(e, k) == \E n \in 1..MaxAttempts : outbox[<<e, k, n>>] = "PUBLISHED"

\* The run row and the outbox never disagree, in any state a crash can
\* leave behind: a run waits only for an event that exists, and claims a
\* job, a publication or a rollback only if the event for it is published.
RunMatchesOutbox ==
    \A e \in Execs :
        /\ run[e].status = "QUEUED" => outbox[<<e, "submit", 1>>] = "PENDING"
        /\ run[e].job <=> Published(e, "submit")
        /\ run[e].status = "RUNNING" => run[e].job
        /\ run[e].publish = "PUBLISHED" => Published(e, "swap")
        /\ run[e].publish = "CLEANED"
              => Published(e, "cleanup") \/ Published(e, "rollback")
        /\ run[e].rollback = "COMPLETED" <=> Published(e, "rollback")

\* A swap is queued only after SeaTunnel finished the job, and only for a run whose
\* publication was asked for once (publish says how far it is, or that the tables
\* were removed since).  Whether the verdict still stands is not said here.
SwapNeedsVerdict ==
    \A e \in Execs, n \in 1..MaxAttempts :
        outbox[<<e, "swap", n>>] # "absent"
            => engine[e] = "SUCCEEDED" /\ run[e].publish # "NOT_STARTED"

-----------------------------------------------------------------------------
(***************************************************************************)
(* What holds as long as no fault happens: faults = 0 says so.             *)
(***************************************************************************)
Terminal == {"SUCCEEDED", "FAILED", "CANCELLED"}

InFlight(e) == \E w \in Workers : broker[w].pc # "idle" /\ Works(w, e)

\* A job that SeaTunnel runs is known to its run, so that it can be watched
\* and stopped, except while the broker is still at it.
NoOrphanJob ==
    faults = 0 =>
        \A e \in Execs : engine[e] = "RUNNING" /\ ~InFlight(e) => run[e].job

\* No other execution was ever asked to exchange the tables.
Alone(e) ==
    \A f \in Execs \ {e}, n \in 1..MaxAttempts :
        outbox[<<f, "swap", n>>] = "absent" /\ outbox[<<f, "rollback", n>>] = "absent"

\* A run that says PUBLISHED, and was not asked to roll back, is the one
\* whose rows the target holds, as long as no other run replaces them: a
\* worker may be restarted at any time and does not repeat what it did
\* outside the database.
PublishedIsLive ==
    \A e \in Execs :
        /\ run[e].publish = "PUBLISHED" /\ run[e].rollback = "NOT_REQUESTED"
        /\ Alone(e) /\ Unlocked(e)
        => target = e

\* The same, of behaviours without a fault: two workers, beat and task, that
\* race for the swap do not exchange the tables twice.
RacePublishesOnce == faults = 0 => PublishedIsLive

\* Every event is eventually settled, whatever fault hits it once: of its kind
\* there is no other meanwhile (OneLiveEvent).
EventsSettle ==
    \A e \in Execs, k \in Kinds :
        (\E n \in 1..MaxAttempts : outbox[<<e, k, n>>] = "PENDING")
            ~> \A n \in 1..MaxAttempts : outbox[<<e, k, n>>] # "PENDING"

\* Every committed run ends, unless a fault happens.
RunsEnd ==
    \A e \in Execs :
        run[e].status \in {"QUEUED", "RUNNING", "CANCEL_REQUESTED"}
            ~> run[e].status \in Terminal \/ faults > 0

\* A cancellation that is requested of a run with a job is carried out, by the
\* operator or by supervision, whatever became of an earlier one that came before
\* the job (see CancelStopsSubmit), unless a fault happens.
CancelCarriedOut ==
    \A e \in Execs :
        run[e].status = "CANCEL_REQUESTED" /\ run[e].job
            ~> run[e].status = "CANCELLED" \/ faults > 0

\* The shadow table of a failed run is removed in the end.
FailedIsCleaned ==
    \A e \in Execs :
        run[e].status = "FAILED"
            ~> shadow[e] = "absent" \/ run[e].status # "FAILED" \/ faults > 0

-----------------------------------------------------------------------------
(***************************************************************************)
(* What a document or a comment promises and the code does not keep.       *)
(* PublishedIsLive above is one of them.                                   *)
(***************************************************************************)
CallsFor(e, k) ==
    \E w \in Workers : Works(w, e) /\ KindOf(broker[w].ev) = k /\ CallPlane(w)


\* A rollback restores what the publication of its own run replaced.  When
\* the target does not hold the rows of that run, because it never published
\* or because another one published after it, there is nothing to restore.
RollbackUndoesItself ==
    [][\A e \in Execs :
          CallsFor(e, "rollback") /\ target # e => target' = target]_vars

=============================================================================

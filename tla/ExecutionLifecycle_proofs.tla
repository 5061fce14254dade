---------------------- MODULE ExecutionLifecycle_proofs ----------------------
(***************************************************************************)
(* The inductive invariant of ExecutionLifecycle and what follows from it: *)
(* type correctness, at most one live event of a kind per execution, at    *)
(* most one job per execution, no job for a run marked as cancelled, rows  *)
(* that agree with the outbox, and, as long as nothing fails, no job that  *)
(* its run does not know and no exchange that is made twice.               *)
(***************************************************************************)
EXTENDS ExecutionLifecycle, TLAPS

-----------------------------------------------------------------------------
(***************************************************************************)
(* The parts of the inductive invariant                                    *)
(***************************************************************************)

\* A task that is in the queue or in a worker is one of the bounded number.
PollsBounded == \A e \in Execs : polls[e] + acts[e] <= MaxPolls

\* Nothing works on an execution before its run is committed.
NothingBeforeRun ==
    \A e \in Execs : run[e].status = "absent" =>
        /\ polls[e] = 0 /\ acts[e] = 0
        /\ \A k \in Kinds, n \in 1..MaxAttempts : outbox[<<e, k, n>>] = "absent"

\* Queues and workers know only events that are in the outbox.
EventsExist ==
    /\ \A ev \in mail : outbox[ev] # "absent"
    /\ \A w \in Workers : broker[w].pc # "idle" =>
           broker[w].ev \in EventId /\ outbox[broker[w].ev] # "absent"
    /\ \A w \in Workers : broker[w].pc = "idle" => broker[w].ev = NoEvent

\* The row lock of an execution has one holder, whose event is pending.
LockExclusive ==
    \A v, w \in Workers, e \in Execs : Holds(v, e) /\ Holds(w, e) => v = w

HeldIsPending ==
    \A w \in Workers : broker[w].pc \in Holding =>
        outbox[broker[w].ev] = "PENDING" /\ broker[w].ev \in spent

\* Only the commit queues a submit.
OneSubmitEvent ==
    \A e \in Execs, n \in 1..MaxAttempts : n # 1 => outbox[<<e, "submit", n>>] = "absent"

\* No job exists before the capability of the submit is consumed, nor while
\* the worker that consumed it has not called SeaTunnel yet.
NoJobYet ==
    \A e \in Execs :
        /\ <<e, "submit", 1>> \notin spent => submits[e] = 0
        /\ \A w \in Workers :
               broker[w].pc = "armed" /\ broker[w].ev = <<e, "submit", 1>> => submits[e] = 0

\* A submit that is about to be called was not cancelled when it was locked,
\* and the lock keeps it so.
ArmedNotCancelled ==
    \A w \in Workers :
        broker[w].pc = "armed" /\ KindOf(broker[w].ev) = "submit"
            => run[ExecOf(broker[w].ev)].status \notin {"CANCEL_REQUESTED", "CANCELLED"}

\* The inductive invariant.
IInv ==
    /\ TypeOK
    /\ PollsBounded
    /\ NothingBeforeRun
    /\ EventsExist
    /\ LockExclusive
    /\ HeldIsPending
    /\ OneSubmitEvent
    /\ NoJobYet
    /\ ArmedNotCancelled
    /\ OneLiveEvent
    /\ SubmitOnce

-----------------------------------------------------------------------------
(***************************************************************************)
(* Facts about the helpers                                                 *)
(***************************************************************************)

\* An event has an execution, a kind and a number.
LEMMA EventIdFacts ==
    /\ \A e \in Execs, k \in Kinds, n \in 1..MaxAttempts :
           /\ <<e, k, n>> \in EventId
           /\ ExecOf(<<e, k, n>>) = e
           /\ KindOf(<<e, k, n>>) = k
    /\ \A ev \in EventId :
           /\ ExecOf(ev) \in Execs
           /\ KindOf(ev) \in Kinds
           /\ \E n \in 1..MaxAttempts : ev = <<ExecOf(ev), KindOf(ev), n>>
  BY DEF EventId, ExecOf, KindOf

\* Changing the status of a row changes nothing else, and gives a row.
LEMMA StatusUpdate ==
    ASSUME NEW r \in Run, NEW s \in RunStatus
    PROVE  /\ [r EXCEPT !.status = s] \in Run
           /\ [r EXCEPT !.status = s].status = s
  BY DEF Run

\* The initial states satisfy the inductive invariant.
LEMMA InitIInv == Init => IInv
  <1> SUFFICES ASSUME Init PROVE IInv
    OBVIOUS
  <1> USE BoundsAssumption, NoEventAssumption DEF Init, PlaneInit
  <1>1. TypeOK
    BY DEF TypeOK, PlaneTypeOK, EngineStates, MaxSubmits, Rows, NoRun, Run, RunStatus,
           EventStatus, Slot, Idle, BrokerPC
  <1>2. PollsBounded /\ NothingBeforeRun /\ OneSubmitEvent /\ OneLiveEvent
    BY EventIdFacts DEF PollsBounded, NothingBeforeRun, OneSubmitEvent, OneLiveEvent, Kinds
  <1>3. EventsExist /\ LockExclusive /\ HeldIsPending /\ ArmedNotCancelled
    BY DEF EventsExist, LockExclusive, HeldIsPending, ArmedNotCancelled, Idle, Holding, Holds
  <1>4. NoJobYet /\ SubmitOnce
    BY DEF NoJobYet, SubmitOnce, Idle
  <1> QED
    BY <1>1, <1>2, <1>3, <1>4 DEF IInv

\* A worker that goes on keeps its event; the others are not touched.
LEMMA GotoFacts ==
    ASSUME broker \in [Workers -> Slot], NEW w \in Workers, NEW pc \in BrokerPC, Goto(w, pc)
    PROVE  /\ broker' \in [Workers -> Slot]
           /\ broker'[w].pc = pc /\ broker'[w].ev = broker[w].ev
           /\ \A v \in Workers \ {w} : broker'[v] = broker[v]
  BY DEF Goto, Slot

\* A worker that is done is idle; at most its own task leaves the queue.
LEMMA FinishFacts ==
    ASSUME broker \in [Workers -> Slot], NEW w \in Workers,
           broker' = [broker EXCEPT ![w] = Idle]
    PROVE  /\ broker' \in [Workers -> Slot]
           /\ broker'[w].pc = "idle" /\ broker'[w].ev = NoEvent
           /\ \A v \in Workers \ {w} : broker'[v] = broker[v]
  BY DEF Idle, Slot, BrokerPC

\* The states a worker can be left in when it lets go of its event.
LetsGo(w) ==
    /\ broker' \in [Workers -> Slot]
    /\ \/ broker'[w].pc = "idle" /\ broker'[w].ev = NoEvent
       \/ broker'[w].pc = "sched" /\ broker'[w].ev = broker[w].ev
    /\ \A v \in Workers \ {w} : broker'[v] = broker[v]

\* A step that only lets a worker go, or only moves supervision tasks.
LEMMA QuietStep ==
    ASSUME IInv, UNCHANGED <<planeVars, run, outbox, spent>>,
           \/ UNCHANGED broker
           \/ \E w \in Workers : broker[w].pc # "idle" /\ LetsGo(w),
           mail' \subseteq mail, faults' \in 0..MaxFaults,
           polls' \in [Execs -> 0..MaxPolls], acts' \in [Execs -> 0..MaxPolls],
           PollsBounded',
           \A e \in Execs : run[e].status = "absent" => polls'[e] = 0 /\ acts'[e] = 0
    PROVE  IInv'
  <1> USE DEF IInv, LetsGo
  <1>1. TypeOK'
    BY DEF TypeOK, PlaneTypeOK, planeVars
  <1>2. (NothingBeforeRun /\ OneSubmitEvent /\ OneLiveEvent /\ SubmitOnce)'
    BY DEF NothingBeforeRun, OneSubmitEvent, OneLiveEvent, SubmitOnce, planeVars
  <1>3. EventsExist'
    BY DEF EventsExist
  <1>4. (LockExclusive /\ HeldIsPending)'
    BY DEF LockExclusive, HeldIsPending, Holds, Works, Holding
  <1>5. (NoJobYet /\ ArmedNotCancelled)'
    BY DEF NoJobYet, ArmedNotCancelled, planeVars
  <1> QED
    BY <1>1, <1>2, <1>3, <1>4, <1>5

\* A step in which the only worker at an execution settles its pending event
\* and may change the row of that execution.
LEMMA SettleStep ==
    ASSUME IInv, NEW w \in Workers, NEW ev \in EventId, broker[w].ev = ev,
           broker[w].pc # "idle", LetsGo(w),
           \A v \in Workers \ {w} : ~Holds(v, ExecOf(ev)),
           outbox[ev] = "PENDING",
           NEW s \in {"PUBLISHED", "FAILED"}, outbox' = [outbox EXCEPT ![ev] = s],
           run' \in [Execs -> Run], run'[ExecOf(ev)].status # "absent",
           \A e \in Execs : e # ExecOf(ev) => run'[e] = run[e],
           mail' \subseteq mail, faults' \in 0..MaxFaults,
           UNCHANGED <<planeVars, spent, polls, acts>>
    PROVE  IInv'
  <1> USE EventIdFacts DEF IInv, LetsGo
  <1>1. outbox' \in [EventId -> EventStatus]
    BY DEF TypeOK, EventStatus
  <1>2. TypeOK'
    BY <1>1 DEF TypeOK, PlaneTypeOK, planeVars
  <1>3. (PollsBounded /\ NothingBeforeRun)'
    BY DEF TypeOK, PollsBounded, NothingBeforeRun
  <1>4. (OneSubmitEvent /\ OneLiveEvent)'
    BY DEF TypeOK, OneSubmitEvent, OneLiveEvent
  <1>5. EventsExist'
    BY DEF TypeOK, EventsExist
  <1>6. LockExclusive'
    BY DEF LockExclusive, Holds, Works, Holding
  <1>7. HeldIsPending'
    <2> SUFFICES ASSUME NEW v \in Workers, broker'[v].pc \in Holding
                 PROVE  outbox'[broker'[v].ev] = "PENDING" /\ broker'[v].ev \in spent'
      BY DEF HeldIsPending
    <2>1. v # w /\ broker'[v] = broker[v]
      BY DEF Holding
    <2>2. broker[v].ev \in EventId /\ broker[v].ev # NoEvent
      BY <2>1, NoEventAssumption DEF EventsExist, Holding
    <2>3. broker[v].ev # ev
      BY <2>1, <2>2 DEF Holds, Works
    <2> QED
      BY <2>1, <2>2, <2>3 DEF HeldIsPending, TypeOK
  <1>8. (NoJobYet /\ SubmitOnce)'
    BY NoEventAssumption DEF NoJobYet, SubmitOnce, planeVars
  <1>9. ArmedNotCancelled'
    <2> SUFFICES ASSUME NEW v \in Workers, broker'[v].pc = "armed",
                        KindOf(broker'[v].ev) = "submit"
                 PROVE  run'[ExecOf(broker'[v].ev)].status
                            \notin {"CANCEL_REQUESTED", "CANCELLED"}
      BY DEF ArmedNotCancelled
    <2>1. v # w /\ broker'[v] = broker[v]
      OBVIOUS
    <2>2. broker[v].ev \in EventId /\ broker[v].ev # NoEvent
      BY <2>1, NoEventAssumption DEF EventsExist
    <2>3. ExecOf(broker[v].ev) # ExecOf(ev)
      BY <2>1, <2>2 DEF Holds, Works, Holding
    <2> QED
      BY <2>1, <2>2, <2>3 DEF ArmedNotCancelled
  <1> QED
    BY <1>2, <1>3, <1>4, <1>5, <1>6, <1>7, <1>8, <1>9

-----------------------------------------------------------------------------
(***************************************************************************)
(* Every action preserves the inductive invariant                          *)
(***************************************************************************)

\* The commit.
LEMMA CommitPreservesIInv ==
    ASSUME IInv, NEW e \in Execs, CommitPreparation(e)
    PROVE  IInv'
  <1> DEFINE ev == <<e, "submit", 1>>
  <1> USE BoundsAssumption, EventIdFacts DEF IInv
  <1>1. ev \in EventId /\ outbox[ev] = "absent" /\ "submit" \in Kinds
    BY DEF NothingBeforeRun, CommitPreparation, Kinds
  <1>2. /\ outbox' = [outbox EXCEPT ![ev] = "PENDING"]
        /\ run' = [run EXCEPT ![e].status = "QUEUED"]
        /\ UNCHANGED <<planeVars, spent, mail, polls, acts, broker, faults>>
    BY DEF CommitPreparation, Enqueue, SetStatus
  <1>3. TypeOK'
    <2>1. run' \in [Execs -> Run]
      BY <1>2, StatusUpdate DEF TypeOK, RunStatus
    <2>2. outbox' \in [EventId -> EventStatus]
      BY <1>1, <1>2 DEF TypeOK, EventStatus
    <2> QED
      BY <1>2, <2>1, <2>2 DEF TypeOK, PlaneTypeOK, planeVars
  <1>4. (PollsBounded /\ NothingBeforeRun /\ OneSubmitEvent)'
    BY <1>1, <1>2 DEF TypeOK, PollsBounded, NothingBeforeRun, OneSubmitEvent, Run
  <1>5. OneLiveEvent'
    BY <1>1, <1>2 DEF TypeOK, OneLiveEvent, NothingBeforeRun, CommitPreparation
  <1>6. (EventsExist /\ LockExclusive /\ HeldIsPending)'
    BY <1>1, <1>2 DEF TypeOK, EventsExist, LockExclusive, HeldIsPending, Holds, Works, Holding
  <1>7. (NoJobYet /\ SubmitOnce)'
    BY <1>1, <1>2 DEF NoJobYet, SubmitOnce, planeVars
  <1>8. ArmedNotCancelled'
    BY <1>1, <1>2 DEF TypeOK, ArmedNotCancelled, EventsExist, Run
  <1> QED
    BY <1>3, <1>4, <1>5, <1>6, <1>7, <1>8

\* A new event of a kind of which the execution has no live one.
LEMMA EnqueueFacts ==
    ASSUME IInv, NEW e \in Execs, NEW k \in Kinds \ {"submit"}, ~Live(e, k),
           NEW n \in 1..MaxAttempts, IsNext(e, k, n), Enqueue(<<e, k, n>>)
    PROVE  /\ outbox' \in [EventId -> EventStatus]
           /\ \A ev \in EventId : outbox[ev] # "absent" => outbox'[ev] = outbox[ev]
           /\ \A ev \in EventId : ExecOf(ev) # e => outbox'[ev] = outbox[ev]
           /\ outbox'[<<e, k, n>>] = "PENDING"
           /\ OneSubmitEvent' /\ OneLiveEvent'
  <1> USE EventIdFacts DEF IInv, TypeOK, Enqueue, IsNext
  <1>1. outbox' \in [EventId -> EventStatus]
    BY DEF EventStatus
  <1>2. OneSubmitEvent'
    BY DEF OneSubmitEvent
  <1>3. OneLiveEvent'
    BY DEF OneLiveEvent, Live
  <1> QED
    BY <1>1, <1>2, <1>3

\* A step that adds an event of an execution nobody holds, and may change
\* its row, keeps everything the invariant says of the broker.
LEMMA QueueStep ==
    ASSUME IInv, NEW e \in Execs, Unlocked(e), run[e].status # "absent",
           \/ UNCHANGED outbox
           \/ \E k \in Kinds \ {"submit"}, n \in 1..MaxAttempts :
                  ~Live(e, k) /\ IsNext(e, k, n) /\ Enqueue(<<e, k, n>>),
           run' \in [Execs -> Run], run'[e].status # "absent",
           \A f \in Execs : f # e => run'[f] = run[f],
           \A ev \in mail' : ev \in mail \/ (ev \in EventId /\ outbox'[ev] # "absent"),
           faults' \in 0..MaxFaults,
           polls' \in [Execs -> 0..MaxPolls], acts' \in [Execs -> 0..MaxPolls],
           PollsBounded', \A f \in Execs : f # e => polls'[f] = polls[f] /\ acts'[f] = acts[f],
           UNCHANGED <<planeVars, spent, broker>>
    PROVE  IInv'
  <1> USE EventIdFacts DEF IInv
  <1>1. /\ outbox' \in [EventId -> EventStatus]
        /\ \A ev \in EventId : outbox[ev] # "absent" => outbox'[ev] = outbox[ev]
        /\ \A ev \in EventId : ExecOf(ev) # e => outbox'[ev] = outbox[ev]
        /\ OneSubmitEvent' /\ OneLiveEvent'
    <2>1. CASE UNCHANGED outbox
      BY <2>1 DEF TypeOK, OneSubmitEvent, OneLiveEvent
    <2>2. CASE \E k \in Kinds \ {"submit"}, n \in 1..MaxAttempts :
                  ~Live(e, k) /\ IsNext(e, k, n) /\ Enqueue(<<e, k, n>>)
      BY <2>2, EnqueueFacts
    <2> QED
      BY <2>1, <2>2
  <1>2. TypeOK'
    BY <1>1 DEF TypeOK, PlaneTypeOK, planeVars
  <1>3. NothingBeforeRun'
    BY <1>1 DEF NothingBeforeRun
  <1>4. (EventsExist /\ LockExclusive /\ HeldIsPending)'
    <2>1. EventsExist'
      BY <1>1 DEF EventsExist, TypeOK
    <2>2. LockExclusive'
      BY DEF LockExclusive, Holds, Works
    <2>3. HeldIsPending'
      BY <1>1 DEF HeldIsPending, EventsExist, Holding
    <2> QED
      BY <2>1, <2>2, <2>3
  <1>5. (NoJobYet /\ SubmitOnce)'
    BY DEF NoJobYet, SubmitOnce, planeVars
  <1>6. ArmedNotCancelled'
    BY NoEventAssumption
       DEF ArmedNotCancelled, EventsExist, Unlocked, Holds, Works, Holding
  <1> QED
    BY <1>1, <1>2, <1>3, <1>4, <1>5, <1>6

\* What the API queues is a new event or nothing.
LEMMA QueueIfNoneFacts ==
    ASSUME NEW e \in Execs, NEW k \in Kinds \ {"submit"}, QueueIfNone(e, k)
    PROVE  \/ UNCHANGED outbox
           \/ \E j \in Kinds \ {"submit"}, n \in 1..MaxAttempts :
                  ~Live(e, j) /\ IsNext(e, j, n) /\ Enqueue(<<e, j, n>>)
  BY EventIdFacts DEF QueueIfNone

\* The operator's cancel request.
LEMMA CancelPreservesIInv ==
    ASSUME IInv, NEW e \in Execs, CancelRun(e)
    PROVE  IInv'
  <1>0. TypeOK /\ PollsBounded
    BY DEF IInv
  <1>1. /\ run' \in [Execs -> Run]
        /\ run'[e].status # "absent"
        /\ \A f \in Execs : f # e => run'[f] = run[f]
    BY <1>0, StatusUpdate DEF CancelRun, SetStatus, TypeOK, RunStatus
  <1>2. /\ Unlocked(e) /\ run[e].status # "absent"
        /\ QueueIfNone(e, "cancel")
        /\ UNCHANGED <<planeVars, spent, broker>>
        /\ polls' = polls /\ acts' = acts /\ mail' = mail /\ faults' = faults
    BY DEF CancelRun
  <1>3. "cancel" \in Kinds \ {"submit"}
    BY DEF Kinds
  <1>4. \/ UNCHANGED outbox
        \/ \E j \in Kinds \ {"submit"}, n \in 1..MaxAttempts :
               ~Live(e, j) /\ IsNext(e, j, n) /\ Enqueue(<<e, j, n>>)
    BY <1>2, <1>3, QueueIfNoneFacts
  <1>5. /\ polls' \in [Execs -> 0..MaxPolls] /\ acts' \in [Execs -> 0..MaxPolls]
        /\ PollsBounded' /\ faults' \in 0..MaxFaults
    BY <1>0, <1>2 DEF TypeOK, PollsBounded
  <1>6. /\ \A ev \in mail' : ev \in mail \/ (ev \in EventId /\ outbox'[ev] # "absent")
        /\ \A f \in Execs : f # e => polls'[f] = polls[f] /\ acts'[f] = acts[f]
    BY <1>2
  <1> QED
    BY <1>1, <1>2, <1>4, <1>5, <1>6, QueueStep

\* The operator's rollback request.
LEMMA RollbackPreservesIInv ==
    ASSUME IInv, NEW e \in Execs, RollbackRun(e)
    PROVE  IInv'
  <1>0. TypeOK /\ PollsBounded
    BY DEF IInv
  <1>1. /\ run' \in [Execs -> Run]
        /\ run'[e].status # "absent"
        /\ \A f \in Execs : f # e => run'[f] = run[f]
    BY <1>0 DEF RollbackRun, TypeOK, Run, RunStatus
  <1>2. /\ Unlocked(e) /\ run[e].status # "absent"
        /\ QueueIfNone(e, "rollback")
        /\ UNCHANGED <<planeVars, spent, broker>>
        /\ polls' = polls /\ acts' = acts /\ mail' = mail /\ faults' = faults
    BY DEF RollbackRun
  <1>3. "rollback" \in Kinds \ {"submit"}
    BY DEF Kinds
  <1>4. \/ UNCHANGED outbox
        \/ \E j \in Kinds \ {"submit"}, n \in 1..MaxAttempts :
               ~Live(e, j) /\ IsNext(e, j, n) /\ Enqueue(<<e, j, n>>)
    BY <1>2, <1>3, QueueIfNoneFacts
  <1>5. /\ polls' \in [Execs -> 0..MaxPolls] /\ acts' \in [Execs -> 0..MaxPolls]
        /\ PollsBounded' /\ faults' \in 0..MaxFaults
    BY <1>0, <1>2 DEF TypeOK, PollsBounded
  <1>6. /\ \A ev \in mail' : ev \in mail \/ (ev \in EventId /\ outbox'[ev] # "absent")
        /\ \A f \in Execs : f # e => polls'[f] = polls[f] /\ acts'[f] = acts[f]
    BY <1>2
  <1> QED
    BY <1>1, <1>2, <1>4, <1>5, <1>6, QueueStep

\* Beat reads an id, or a queued task is delivered.
LEMMA PickPreservesIInv ==
    ASSUME IInv, NEW w \in Workers, NEW ev \in EventId,
           BeatPick(w, ev) \/ TaskPick(w, ev)
    PROVE  IInv'
  <1> USE DEF IInv
  <1>1. /\ broker[w].pc = "idle" /\ outbox[ev] # "absent"
        /\ UNCHANGED <<planeVars, run, outbox, spent, mail, polls, acts, faults>>
    BY DEF BeatPick, TaskPick, EventsExist
  <1>2. PICK via \in {"beat", "task"} :
            broker' = [broker EXCEPT ![w] = [pc |-> "picked", ev |-> ev, via |-> via]]
    BY DEF BeatPick, TaskPick
  <1>3. /\ broker' \in [Workers -> Slot]
        /\ broker'[w].pc = "picked" /\ broker'[w].ev = ev
        /\ \A v \in Workers \ {w} : broker'[v] = broker[v]
    BY <1>2 DEF TypeOK, Slot, BrokerPC
  <1>4. TypeOK'
    BY <1>1, <1>3 DEF TypeOK, PlaneTypeOK, planeVars
  <1>5. (PollsBounded /\ NothingBeforeRun /\ OneSubmitEvent /\ OneLiveEvent /\ SubmitOnce)'
    BY <1>1 DEF PollsBounded, NothingBeforeRun, OneSubmitEvent, OneLiveEvent, SubmitOnce,
                planeVars
  <1>6. (EventsExist /\ LockExclusive /\ HeldIsPending)'
    BY <1>1, <1>3 DEF EventsExist, LockExclusive, HeldIsPending, Holds, Works, Holding
  <1>7. (NoJobYet /\ ArmedNotCancelled)'
    BY <1>1, <1>3 DEF NoJobYet, ArmedNotCancelled, planeVars
  <1> QED
    BY <1>4, <1>5, <1>6, <1>7

\* A worker lets go of its event without a change of the database.
LEMMA LetGoPreservesIInv ==
    ASSUME IInv, NEW w \in Workers,
           FindSettled(w) \/ RollBackBroker(w) \/ AbortBroker(w)
    PROVE  IInv'
  <1>0. TypeOK /\ PollsBounded /\ NothingBeforeRun
    BY DEF IInv
  <1>1. /\ broker[w].pc # "idle"
        /\ UNCHANGED <<planeVars, run, outbox, spent, polls, acts>>
        /\ faults' \in 0..MaxFaults
        /\ mail' \subseteq mail
        /\ broker' = [broker EXCEPT ![w] = Idle] \/ Goto(w, "sched")
    BY <1>0, BoundsAssumption
       DEF TypeOK, FindSettled, RollBackBroker, AbortBroker, Locks, Finish, Fault
  <1>2. LetsGo(w)
    BY <1>0, <1>1, GotoFacts, FinishFacts DEF LetsGo, TypeOK, BrokerPC
  <1>3. /\ polls' \in [Execs -> 0..MaxPolls] /\ acts' \in [Execs -> 0..MaxPolls]
        /\ PollsBounded'
        /\ \A e \in Execs : run[e].status = "absent" => polls'[e] = 0 /\ acts'[e] = 0
    BY <1>0, <1>1 DEF TypeOK, PollsBounded, NothingBeforeRun
  <1>4. UNCHANGED <<planeVars, run, outbox, spent>>
    BY <1>1
  <1> QED
    BY <1>1, <1>2, <1>3, <1>4, QuietStep

\* The supervision task is queued.
LEMMA SchedulePreservesIInv ==
    ASSUME IInv, NEW w \in Workers, ScheduleSupervision(w)
    PROVE  IInv'
  <1>0. TypeOK /\ PollsBounded /\ NothingBeforeRun /\ EventsExist
    BY DEF IInv
  <1>1. PICK e \in Execs :
            /\ broker[w].pc = "sched" /\ Works(w, e)
            /\ polls[e] + acts[e] < MaxPolls
            /\ polls' = [polls EXCEPT ![e] = @ + 1]
            /\ broker' = [broker EXCEPT ![w] = Idle]
            /\ mail' \subseteq mail
            /\ UNCHANGED <<planeVars, run, outbox, spent, acts, faults>>
    BY DEF ScheduleSupervision, Finish
  <1>2. LetsGo(w)
    BY <1>0, <1>1, FinishFacts DEF LetsGo, TypeOK
  <1>3. run[e].status # "absent"
    BY <1>0, <1>1, EventIdFacts DEF EventsExist, NothingBeforeRun, Works
  <1>4. /\ polls' \in [Execs -> 0..MaxPolls] /\ acts' \in [Execs -> 0..MaxPolls]
        /\ PollsBounded' /\ faults' \in 0..MaxFaults
        /\ \A f \in Execs : run[f].status = "absent" => polls'[f] = 0 /\ acts'[f] = 0
    BY <1>0, <1>1, <1>3, BoundsAssumption DEF TypeOK, PollsBounded, NothingBeforeRun
  <1>5. /\ UNCHANGED <<planeVars, run, outbox, spent>>
        /\ broker[w].pc # "idle" /\ mail' \subseteq mail
    BY <1>1
  <1> QED
    BY <1>2, <1>4, <1>5, QuietStep

\* A worker that has locked the rows, and settles the event, is alone.
LEMMA LocksFacts ==
    ASSUME IInv, NEW w \in Workers, NEW ev \in EventId, Locks(w, ev)
    PROVE  /\ broker[w].ev = ev /\ broker[w].pc # "idle"
           /\ \A v \in Workers : ~Holds(v, ExecOf(ev))
           /\ outbox[ev] # "absent" => run[ExecOf(ev)].status # "absent"
  BY EventIdFacts DEF Locks, Unlocked, IInv, NothingBeforeRun

\* The broker settles an event as failed before it calls anything.
LEMMA RefusePreservesIInv ==
    ASSUME IInv, NEW w \in Workers, DropLateSubmit(w) \/ RefuseToken(w)
    PROVE  IInv'
  <1>0. TypeOK
    BY DEF IInv
  <1>1. PICK ev \in EventId :
            /\ Locks(w, ev) /\ outbox[ev] = "PENDING"
            /\ outbox' = [outbox EXCEPT ![ev] = "FAILED"]
            /\ UNCHANGED run \/ run' = [run EXCEPT ![ExecOf(ev)].status = "FAILED"]
            /\ broker' = [broker EXCEPT ![w] = Idle]
            /\ mail' \subseteq mail
            /\ faults' \in 0..MaxFaults
            /\ UNCHANGED <<planeVars, spent, polls, acts>>
    BY <1>0, BoundsAssumption
       DEF DropLateSubmit, RefuseToken, FailEvent, Settle, SetStatus, Finish, Fault, NoFault,
           TypeOK
  <1>2. LetsGo(w)
    BY <1>0, <1>1, FinishFacts DEF LetsGo, TypeOK
  <1>3. /\ run' \in [Execs -> Run] /\ run'[ExecOf(ev)].status # "absent"
        /\ \A e \in Execs : e # ExecOf(ev) => run'[e] = run[e]
    <2>1. ExecOf(ev) \in Execs /\ run[ExecOf(ev)].status # "absent"
      BY <1>1, LocksFacts, EventIdFacts
    <2>2. CASE UNCHANGED run
      BY <1>0, <2>1, <2>2 DEF TypeOK
    <2>3. CASE run' = [run EXCEPT ![ExecOf(ev)].status = "FAILED"]
      BY <1>0, <2>1, <2>3, StatusUpdate DEF TypeOK, RunStatus
    <2> QED
      BY <1>1, <2>2, <2>3
  <1>4. /\ broker[w].ev = ev /\ broker[w].pc # "idle"
        /\ \A v \in Workers \ {w} : ~Holds(v, ExecOf(ev))
    BY <1>1, LocksFacts
  <1> QED
    BY <1>1, <1>2, <1>3, <1>4, SettleStep

\* A worker inside the transaction is alone at its execution.
LEMMA HolderFacts ==
    ASSUME IInv, NEW w \in Workers, broker[w].pc \in Holding
    PROVE  /\ broker[w].ev \in EventId /\ broker[w].pc # "idle"
           /\ outbox[broker[w].ev] = "PENDING" /\ broker[w].ev \in spent
           /\ \A v \in Workers \ {w} : ~Holds(v, ExecOf(broker[w].ev))
           /\ run[ExecOf(broker[w].ev)].status # "absent"
  <1> USE DEF IInv
  <1>1. broker[w].ev \in EventId /\ broker[w].pc # "idle" /\ broker[w].ev # NoEvent
    BY NoEventAssumption DEF EventsExist, Holding
  <1>2. outbox[broker[w].ev] = "PENDING" /\ broker[w].ev \in spent
    BY DEF HeldIsPending
  <1>3. \A v \in Workers \ {w} : ~Holds(v, ExecOf(broker[w].ev))
    BY <1>1, EventIdFacts DEF LockExclusive, Holds, Works
  <1>4. run[ExecOf(broker[w].ev)].status # "absent"
    BY <1>1, <1>2, EventIdFacts DEF NothingBeforeRun
  <1> QED
    BY <1>1, <1>2, <1>3, <1>4

\* A row with a confirmed call is a row, of a run that was committed.
LEMMA ConfirmedFacts ==
    ASSUME NEW r \in Run, NEW k \in Kinds, r.status # "absent"
    PROVE  Confirmed(r, k) \in Run /\ Confirmed(r, k).status # "absent"
  BY DEF Confirmed, Run, RunStatus, Kinds

\* The broker settles an event after its call.
LEMMA ConfirmPreservesIInv ==
    ASSUME IInv, NEW w \in Workers, ConfirmEvent(w) \/ RejectEvent(w)
    PROVE  IInv'
  <1>0. TypeOK
    BY DEF IInv
  <1> DEFINE ev == broker[w].ev
  <1>1. /\ ev \in EventId /\ broker[w].pc # "idle" /\ outbox[ev] = "PENDING"
        /\ \A v \in Workers \ {w} : ~Holds(v, ExecOf(ev))
        /\ run[ExecOf(ev)].status # "absent"
    BY HolderFacts DEF ConfirmEvent, RejectEvent, Holding
  <1>2. /\ broker' = [broker EXCEPT ![w] = Idle] \/ Goto(w, "sched")
        /\ mail' \subseteq mail /\ faults' = faults
        /\ UNCHANGED <<planeVars, spent, polls, acts>>
    BY DEF ConfirmEvent, RejectEvent, Finish
  <1>3. LetsGo(w)
    BY <1>0, <1>2, GotoFacts, FinishFacts DEF LetsGo, TypeOK, BrokerPC
  <1>4. CASE ConfirmEvent(w)
    <2>1. /\ outbox' = [outbox EXCEPT ![ev] = "PUBLISHED"]
          /\ run' = [run EXCEPT ![ExecOf(ev)] = Confirmed(@, KindOf(ev))]
      BY <1>4 DEF ConfirmEvent, Settle
    <2>2. /\ run' \in [Execs -> Run] /\ run'[ExecOf(ev)].status # "absent"
          /\ \A e \in Execs : e # ExecOf(ev) => run'[e] = run[e]
      BY <1>0, <1>1, <2>1, ConfirmedFacts, EventIdFacts DEF TypeOK
    <2> QED
      BY <1>0, <1>1, <1>2, <1>3, <2>1, <2>2, SettleStep DEF TypeOK
  <1>5. CASE RejectEvent(w)
    <2>1. /\ outbox' = [outbox EXCEPT ![ev] = "FAILED"]
          /\ run' = [run EXCEPT ![ExecOf(ev)].status = "FAILED"]
      BY <1>5 DEF RejectEvent, FailEvent, Settle, SetStatus
    <2>2. /\ run' \in [Execs -> Run] /\ run'[ExecOf(ev)].status # "absent"
          /\ \A e \in Execs : e # ExecOf(ev) => run'[e] = run[e]
      BY <1>0, <1>1, <2>1, StatusUpdate, EventIdFacts DEF TypeOK, RunStatus
    <2> QED
      BY <1>0, <1>1, <1>2, <1>3, <2>1, <2>2, SettleStep DEF TypeOK
  <1> QED
    BY <1>4, <1>5

\* The capability is consumed: from here on the worker holds the lock.
LEMMA ConsumePreservesIInv ==
    ASSUME IInv, NEW w \in Workers, ConsumeToken(w)
    PROVE  IInv'
  <1> USE DEF IInv
  <1>1. PICK ev \in EventId :
            /\ Locks(w, ev) /\ outbox[ev] = "PENDING" /\ ~CancelledBefore(ev)
            /\ ev \notin spent /\ spent' = spent \cup {ev}
            /\ Goto(w, "armed")
            /\ UNCHANGED <<planeVars, run, outbox, mail, polls, acts, faults>>
    BY DEF ConsumeToken
  <1>2. /\ broker[w].ev = ev /\ broker[w].pc # "idle"
        /\ \A v \in Workers : ~Holds(v, ExecOf(ev))
    BY <1>1, LocksFacts
  <1>3. /\ broker' \in [Workers -> Slot]
        /\ broker'[w].pc = "armed" /\ broker'[w].ev = ev
        /\ \A v \in Workers \ {w} : broker'[v] = broker[v]
    BY <1>1, <1>2, GotoFacts DEF TypeOK, BrokerPC
  <1>4. TypeOK'
    BY <1>1, <1>3 DEF TypeOK, PlaneTypeOK, planeVars
  <1>5. (PollsBounded /\ NothingBeforeRun /\ OneSubmitEvent /\ OneLiveEvent /\ SubmitOnce)'
    BY <1>1 DEF PollsBounded, NothingBeforeRun, OneSubmitEvent, OneLiveEvent, SubmitOnce,
                planeVars
  <1>6. (EventsExist /\ LockExclusive /\ HeldIsPending)'
    <2>1. EventsExist'
      BY <1>1, <1>2, <1>3 DEF EventsExist
    <2>2. LockExclusive'
      BY <1>2, <1>3, EventIdFacts, NoEventAssumption DEF LockExclusive, Holds, Works
    <2>3. HeldIsPending'
      BY <1>1, <1>2, <1>3 DEF HeldIsPending
    <2> QED
      BY <2>1, <2>2, <2>3
  <1>7. NoJobYet'
    <2> SUFFICES ASSUME NEW e \in Execs
                 PROVE  /\ <<e, "submit", 1>> \notin spent' => submits[e] = 0
                        /\ \A v \in Workers :
                               broker'[v].pc = "armed" /\ broker'[v].ev = <<e, "submit", 1>>
                                   => submits[e] = 0
      BY <1>1 DEF NoJobYet, planeVars
    <2>1. <<e, "submit", 1>> \notin spent' => submits[e] = 0
      BY <1>1 DEF NoJobYet
    <2>2. broker'[w].ev = <<e, "submit", 1>> => submits[e] = 0
      BY <1>1, <1>3 DEF NoJobYet
    <2>3. \A v \in Workers \ {w} :
              broker'[v].pc = "armed" /\ broker'[v].ev = <<e, "submit", 1>> => submits[e] = 0
      BY <1>3 DEF NoJobYet
    <2> QED
      BY <2>1, <2>2, <2>3
  <1>8. ArmedNotCancelled'
    BY <1>1, <1>3 DEF ArmedNotCancelled, CancelledBefore
  <1> QED
    BY <1>4, <1>5, <1>6, <1>7, <1>8

\* What a call can do to the data plane and to the worker that makes it: only
\* the call of a submit changes the number of jobs, by at most one.
LEMMA CallFacts ==
    ASSUME PlaneTypeOK, NEW w \in Workers, CallPlane(w), broker[w].ev \in EventId
    PROVE  /\ PlaneTypeOK'
           /\ Goto(w, "done") \/ Goto(w, "error") \/ Goto(w, "raised")
           /\ NoFault \/ Fault
           /\ \/ submits' = submits
              \/ /\ KindOf(broker[w].ev) = "submit"
                 /\ submits' = [submits EXCEPT ![ExecOf(broker[w].ev)] = @ + 1]
  <1> DEFINE e == ExecOf(broker[w].ev)
  <1>0. e \in Execs
    BY EventIdFacts
  <1> USE <1>0 DEF PlaneTypeOK, planeVars, MaxSubmits, EngineStates, Rows
  <1>1. CASE KindOf(broker[w].ev) = "submit" /\ CallSubmit(e, w)
    BY <1>1 DEF CallSubmit, SubmitAccepted, SubmitRejected, SubmitReplyLost, SubmitBroken,
                AcceptJob
  <1>2. CASE CallCancel(e, w)
    BY <1>2 DEF CallCancel, StopJob
  <1>3. CASE CallCleanup(e, w)
    BY <1>3 DEF CallCleanup, DropShadow, NoCredentials
  <1>4. CASE CallSwap(e, w)
    BY <1>4 DEF CallSwap, Exchange, NoShadow, NoCredentials
  <1>5. CASE CallRollback(e, w)
    BY <1>5 DEF CallRollback, Exchange, ExchangeAndDrop, NoShadow, NoCredentials
  <1> QED
    BY <1>1, <1>2, <1>3, <1>4, <1>5 DEF CallPlane

\* The call of the data plane.
LEMMA CallPreservesIInv ==
    ASSUME IInv, NEW w \in Workers, CallPlane(w)
    PROVE  IInv'
  <1> DEFINE ev == broker[w].ev
  <1> USE DEF IInv
  <1>1. /\ broker[w].pc = "armed" /\ ev \in EventId /\ outbox[ev] # "absent"
        /\ UNCHANGED <<run, outbox, spent, mail, polls, acts>>
        /\ \A v \in Workers \ {w} : ~Holds(v, ExecOf(ev))
    BY HolderFacts DEF CallPlane, Holding, EventsExist
  <1>2. /\ PlaneTypeOK'
        /\ Goto(w, "done") \/ Goto(w, "error") \/ Goto(w, "raised")
        /\ NoFault \/ Fault
        /\ \/ submits' = submits
           \/ KindOf(ev) = "submit" /\ submits' = [submits EXCEPT ![ExecOf(ev)] = @ + 1]
    BY <1>1, CallFacts DEF TypeOK
  <1>3. /\ broker' \in [Workers -> Slot]
        /\ broker'[w].pc \in {"done", "error", "raised"} /\ broker'[w].ev = ev
        /\ \A v \in Workers \ {w} : broker'[v] = broker[v]
    BY <1>2, GotoFacts DEF TypeOK, BrokerPC
  <1>4. TypeOK'
    BY <1>1, <1>2, <1>3, BoundsAssumption DEF TypeOK, NoFault, Fault
  <1>5. (PollsBounded /\ NothingBeforeRun /\ OneSubmitEvent /\ OneLiveEvent)'
    BY <1>1 DEF PollsBounded, NothingBeforeRun, OneSubmitEvent, OneLiveEvent
  <1>6. (EventsExist /\ LockExclusive /\ HeldIsPending)'
    BY <1>1, <1>3 DEF EventsExist, LockExclusive, HeldIsPending, Holds, Works, Holding
  <1>7. (NoJobYet /\ SubmitOnce)'
    <2>1. CASE submits' = submits
      BY <1>1, <1>3, <2>1 DEF NoJobYet, SubmitOnce
    <2>2. CASE KindOf(ev) = "submit" /\ submits' = [submits EXCEPT ![ExecOf(ev)] = @ + 1]
      <3>1. ev = <<ExecOf(ev), "submit", 1>> /\ ExecOf(ev) \in Execs
        BY <1>1, <2>2, EventIdFacts DEF OneSubmitEvent
      <3>2. ev \in spent /\ submits[ExecOf(ev)] = 0
        BY <1>1, <3>1 DEF HeldIsPending, Holding, NoJobYet
      <3>3. SubmitOnce'
        BY <2>2, <3>1, <3>2 DEF SubmitOnce, TypeOK, PlaneTypeOK
      <3>4. \A v \in Workers : broker'[v].pc = "armed" => broker'[v].ev # ev
        BY <1>1, <1>3, NoEventAssumption DEF Holds, Works, Holding
      <3>5. NoJobYet'
        <4> SUFFICES ASSUME NEW e \in Execs
                     PROVE  /\ <<e, "submit", 1>> \notin spent => submits'[e] = 0
                            /\ \A v \in Workers :
                                   broker'[v].pc = "armed"
                                   /\ broker'[v].ev = <<e, "submit", 1>> => submits'[e] = 0
          BY <1>1 DEF NoJobYet
        <4>1. CASE e = ExecOf(ev)
          BY <3>1, <3>2, <3>4, <4>1
        <4>2. CASE e # ExecOf(ev)
          <5>1. submits'[e] = submits[e]
            BY <2>2, <4>2 DEF TypeOK, PlaneTypeOK
          <5> QED
            BY <1>3, <5>1 DEF NoJobYet
        <4> QED
          BY <4>1, <4>2
      <3> QED
        BY <3>3, <3>5
    <2> QED
      BY <1>2, <2>1, <2>2
  <1>8. ArmedNotCancelled'
    BY <1>1, <1>3 DEF ArmedNotCancelled
  <1> QED
    BY <1>4, <1>5, <1>6, <1>7, <1>8

\* Every observation of a committed run leaves a row of a committed run.
LEMMA ObservationFacts ==
    ASSUME NEW r \in Run, r.status # "absent", NEW s \in EngineStates
    PROVE  \A q \in Observations(r, s) \cup BadObservations(r, s) :
               q \in Run /\ q.status # "absent"
  <1>1. /\ Passed(r) \in Run /\ Passed(r).status # "absent"
        /\ Rejected(r) \in Run /\ Rejected(r).status # "absent"
        /\ CaptureFailed(r) \in Run /\ CaptureFailed(r).status # "absent"
    BY DEF Passed, Rejected, CaptureFailed, Run, RunStatus
  <1>2. \A t \in {"CANCEL_REQUESTED", "FAILED", "CANCELLED"} :
            [r EXCEPT !.status = t] \in Run /\ [r EXCEPT !.status = t].status # "absent"
    BY StatusUpdate DEF RunStatus
  <1> QED
    BY <1>1, <1>2 DEF Observations, BadObservations, EngineStates

\* The first transaction of a supervision task.
LEMMA ObservePreservesIInv ==
    ASSUME IInv, NEW e \in Execs, ObserveJob(e)
    PROVE  IInv'
  <1>0. TypeOK /\ PollsBounded /\ NothingBeforeRun
    BY DEF IInv
  <1>1. polls[e] > 0 /\ Unlocked(e) /\ run[e].status # "absent"
    BY <1>0 DEF ObserveJob, NothingBeforeRun
  <1>2. PICK q \in Observations(run[e], engine[e]) \cup BadObservations(run[e], engine[e]) :
            run' = [run EXCEPT ![e] = q]
    BY DEF ObserveJob
  <1>3. /\ run' \in [Execs -> Run] /\ run'[e].status # "absent"
        /\ \A f \in Execs : f # e => run'[f] = run[f]
    <2>1. q \in Run /\ q.status # "absent"
      BY <1>0, <1>1, ObservationFacts DEF TypeOK, PlaneTypeOK
    <2> QED
      BY <1>0, <1>2, <2>1 DEF TypeOK
  <1>4. /\ polls' = [polls EXCEPT ![e] = @ - 1] /\ acts' = [acts EXCEPT ![e] = @ + 1]
        /\ mail' = mail
        /\ UNCHANGED outbox
        /\ UNCHANGED <<planeVars, spent, broker>>
    BY DEF ObserveJob
  <1>5. /\ polls' \in [Execs -> 0..MaxPolls] /\ acts' \in [Execs -> 0..MaxPolls]
        /\ PollsBounded' /\ faults' \in 0..MaxFaults
        /\ \A f \in Execs : f # e => polls'[f] = polls[f] /\ acts'[f] = acts[f]
    BY <1>0, <1>1, <1>4, BoundsAssumption
       DEF TypeOK, PollsBounded, ObserveJob, NoFault, Fault
  <1> QED
    BY <1>1, <1>3, <1>4, <1>5, QueueStep

\* A supervision task fails or starts again.
LEMMA SupervisionFaultPreservesIInv ==
    ASSUME IInv, NEW e \in Execs, ObservationFails(e) \/ RestartSupervision(e)
    PROVE  IInv'
  <1>0. TypeOK /\ PollsBounded /\ NothingBeforeRun
    BY DEF IInv
  <1>1. /\ UNCHANGED <<planeVars, run, outbox, spent>>
        /\ UNCHANGED broker /\ mail' = mail
    BY DEF ObservationFails, RestartSupervision
  <1>2. /\ polls' \in [Execs -> 0..MaxPolls] /\ acts' \in [Execs -> 0..MaxPolls]
        /\ PollsBounded' /\ faults' \in 0..MaxFaults
        /\ \A f \in Execs : run[f].status = "absent" => polls'[f] = 0 /\ acts'[f] = 0
    BY <1>0, BoundsAssumption
       DEF TypeOK, PollsBounded, NothingBeforeRun, ObservationFails, RestartSupervision, Fault
  <1> QED
    BY <1>1, <1>2, QuietStep

\* The second transaction of a supervision task.
LEMMA QueuePreservesIInv ==
    ASSUME IInv, NEW e \in Execs, QueueAction(e)
    PROVE  IInv'
  <1>0. TypeOK /\ PollsBounded /\ NothingBeforeRun
    BY DEF IInv
  <1>1. /\ acts[e] > 0 /\ Unlocked(e) /\ run[e].status # "absent"
        /\ QueueFollowUp(e, FollowUpKind(run[e]))
        /\ run' = run
        /\ UNCHANGED <<planeVars, spent, broker>>
        /\ acts' = [acts EXCEPT ![e] = @ - 1]
    BY <1>0 DEF QueueAction, NothingBeforeRun
  <1>2. FollowUpKind(run[e]) \in (Kinds \ {"submit"}) \cup {"none"}
    BY DEF FollowUpKind, Kinds
  <1>3. \/ UNCHANGED outbox /\ mail' = mail
        \/ \E k \in Kinds \ {"submit"}, n \in 1..MaxAttempts :
               /\ ~Live(e, k) /\ IsNext(e, k, n) /\ Enqueue(<<e, k, n>>)
               /\ mail' = mail \cup {<<e, k, n>>}
    BY <1>1, <1>2 DEF QueueFollowUp
  <1>4. \A ev \in mail' : ev \in mail \/ (ev \in EventId /\ outbox'[ev] # "absent")
    <2>1. CASE mail' = mail
      BY <2>1
    <2>2. CASE \E k \in Kinds \ {"submit"}, n \in 1..MaxAttempts :
               /\ ~Live(e, k) /\ IsNext(e, k, n) /\ Enqueue(<<e, k, n>>)
               /\ mail' = mail \cup {<<e, k, n>>}
      BY <1>0, <2>2, EventIdFacts DEF Enqueue, TypeOK
    <2> QED
      BY <1>3, <2>1, <2>2
  <1>5. /\ polls' \in [Execs -> 0..MaxPolls] /\ acts' \in [Execs -> 0..MaxPolls]
        /\ PollsBounded' /\ faults' \in 0..MaxFaults
        /\ \A f \in Execs : f # e => polls'[f] = polls[f] /\ acts'[f] = acts[f]
    <2>1. PICK again \in BOOLEAN : polls' = [polls EXCEPT ![e] = IF again THEN @ + 1 ELSE @]
      BY DEF QueueAction
    <2>2. faults' \in 0..MaxFaults
      BY <1>0, BoundsAssumption DEF QueueAction, TypeOK, Fault, NoFault
    <2> QED
      BY <1>0, <1>1, <2>1, <2>2, BoundsAssumption DEF TypeOK, PollsBounded
  <1>6. /\ run' \in [Execs -> Run] /\ run'[e].status # "absent"
        /\ \A f \in Execs : f # e => run'[f] = run[f]
    BY <1>0, <1>1 DEF TypeOK
  <1>7. \/ UNCHANGED outbox
        \/ \E k \in Kinds \ {"submit"}, n \in 1..MaxAttempts :
               ~Live(e, k) /\ IsNext(e, k, n) /\ Enqueue(<<e, k, n>>)
    BY <1>3
  <1> QED
    BY <1>1, <1>4, <1>5, <1>6, <1>7, QueueStep

\* SeaTunnel moves on.
LEMMA JobPreservesIInv ==
    ASSUME IInv, NEW e \in Execs, JobStep(e)
    PROVE  IInv'
  <1> USE DEF IInv
  <1>1. /\ UNCHANGED <<submits, run, outbox, spent, mail, polls, acts, broker, faults>>
        /\ PlaneTypeOK'
    BY DEF JobStep, EngineStep, ctlVars, TypeOK, PlaneTypeOK, EngineStates, Rows
  <1>2. (TypeOK /\ PollsBounded /\ NothingBeforeRun /\ EventsExist)'
    BY <1>1 DEF TypeOK, PollsBounded, NothingBeforeRun, EventsExist
  <1>3. (LockExclusive /\ HeldIsPending /\ OneSubmitEvent /\ NoJobYet)'
    BY <1>1 DEF LockExclusive, HeldIsPending, OneSubmitEvent, NoJobYet, Holds, Works
  <1>4. (ArmedNotCancelled /\ OneLiveEvent /\ SubmitOnce)'
    BY <1>1 DEF ArmedNotCancelled, OneLiveEvent, SubmitOnce
  <1> QED
    BY <1>2, <1>3, <1>4

\* A step that changes nothing.
LEMMA StutterPreservesIInv ==
    ASSUME IInv, UNCHANGED vars
    PROVE  IInv'
  <1> USE DEF IInv
  <1>1. UNCHANGED <<planeVars, run, outbox, spent, mail, polls, acts, broker, faults>>
    BY DEF vars, ctlVars
  <1>2. (TypeOK /\ PollsBounded /\ NothingBeforeRun /\ EventsExist)'
    BY <1>1 DEF TypeOK, PlaneTypeOK, planeVars, PollsBounded, NothingBeforeRun, EventsExist
  <1>3. (LockExclusive /\ HeldIsPending /\ OneSubmitEvent /\ NoJobYet)'
    BY <1>1 DEF LockExclusive, HeldIsPending, OneSubmitEvent, NoJobYet, Holds, Works, planeVars
  <1>4. (ArmedNotCancelled /\ OneLiveEvent /\ SubmitOnce)'
    BY <1>1 DEF ArmedNotCancelled, OneLiveEvent, SubmitOnce, planeVars
  <1> QED
    BY <1>2, <1>3, <1>4

-----------------------------------------------------------------------------
(***************************************************************************)
(* The theorems                                                            *)
(***************************************************************************)

\* The invariant is inductive.
LEMMA NextIInv == IInv /\ [Next]_vars => IInv'
  <1> SUFFICES ASSUME IInv, [Next]_vars PROVE IInv'
    OBVIOUS
  <1>1. CASE \E e \in Execs : CommitPreparation(e) \/ CancelRun(e) \/ RollbackRun(e)
    BY <1>1, CommitPreservesIInv, CancelPreservesIInv, RollbackPreservesIInv
  <1>2. CASE \E e \in Execs : \/ ObserveJob(e) \/ ObservationFails(e)
                              \/ QueueAction(e) \/ RestartSupervision(e)
    BY <1>2, ObservePreservesIInv, SupervisionFaultPreservesIInv, QueuePreservesIInv
  <1>3. CASE \E e \in Execs : JobStep(e)
    BY <1>3, JobPreservesIInv
  <1>4. CASE \E w \in Workers : BrokerStep(w) \/ AbortBroker(w)
    BY <1>4, LetGoPreservesIInv, RefusePreservesIInv, ConsumePreservesIInv, CallPreservesIInv,
       ConfirmPreservesIInv, SchedulePreservesIInv
       DEF BrokerStep
  <1>5. CASE \E w \in Workers, ev \in EventId : BeatPick(w, ev) \/ TaskPick(w, ev)
    BY <1>5, PickPreservesIInv
  <1>6. CASE UNCHANGED vars
    BY <1>6, StutterPreservesIInv
  <1> QED
    BY <1>1, <1>2, <1>3, <1>4, <1>5, <1>6 DEF Next

\* Every reachable state satisfies the inductive invariant.
THEOREM Invariance == Spec => []IInv
  BY InitIInv, NextIInv, PTL DEF Spec

\* The variables keep their types, whatever the bounds.
THEOREM TypeCorrect == Spec => []TypeOK
  <1>1. IInv => TypeOK
    BY DEF IInv
  <1> QED
    BY <1>1, Invariance, PTL

\* An execution never has two live events of one kind.
THEOREM OneLiveEventHolds == Spec => []OneLiveEvent
  <1>1. IInv => OneLiveEvent
    BY DEF IInv
  <1> QED
    BY <1>1, Invariance, PTL

\* SeaTunnel never accepts a second job for an execution.
THEOREM SubmitOnceHolds == Spec => []SubmitOnce
  <1>1. IInv => SubmitOnce
    BY DEF IInv
  <1> QED
    BY <1>1, Invariance, PTL

\* SeaTunnel never accepts a job for a run that is marked as cancelled.
THEOREM NoSubmitOnceCancelledHolds == Spec => NoSubmitOnceCancelled
  <1> DEFINE Step ==
        \A e \in Execs :
            submits'[e] # submits[e]
                => run[e].status \notin {"CANCEL_REQUESTED", "CANCELLED"}
  <1>1. ASSUME IInv, [Next]_vars PROVE [Step]_vars
    <2>1. CASE \E w \in Workers : CallPlane(w)
      <3>1. PICK w \in Workers : CallPlane(w)
        BY <2>1
      <3>2. /\ broker[w].pc = "armed" /\ broker[w].ev \in EventId
            /\ \/ submits' = submits
               \/ /\ KindOf(broker[w].ev) = "submit"
                  /\ submits' = [submits EXCEPT ![ExecOf(broker[w].ev)] = @ + 1]
        BY <1>1, <3>1, HolderFacts, CallFacts DEF CallPlane, Holding, IInv, TypeOK
      <3>3. KindOf(broker[w].ev) = "submit" =>
                run[ExecOf(broker[w].ev)].status \notin {"CANCEL_REQUESTED", "CANCELLED"}
        BY <1>1, <3>2 DEF IInv, ArmedNotCancelled
      <3> QED
        BY <1>1, <3>2, <3>3, EventIdFacts DEF IInv, TypeOK, PlaneTypeOK
    <2>2. CASE ~(\E w \in Workers : CallPlane(w))
      <3>1. submits' = submits
        BY <1>1, <2>2
           DEF Next, vars, ctlVars, planeVars, CommitPreparation, CancelRun, RollbackRun,
               ObserveJob, ObservationFails, QueueAction, RestartSupervision, JobStep,
               EngineStep, BrokerStep, AbortBroker, BeatPick, TaskPick, FindSettled,
               DropLateSubmit, RefuseToken, ConsumeToken, ConfirmEvent, RejectEvent,
               RollBackBroker, ScheduleSupervision
      <3> QED
        BY <3>1
    <2> QED
      BY <2>1, <2>2
  <1> QED
    BY <1>1, Invariance, PTL DEF Spec, NoSubmitOnceCancelled

-----------------------------------------------------------------------------
(***************************************************************************)
(* The run row against the outbox and the engine                           *)
(***************************************************************************)

\* Without a job there is nothing the engine could say, and a swap is asked for
\* only when the job succeeded, which it does for good.
SwapLate ==
    \A e \in Execs :
        /\ submits[e] = 0 => engine[e] = "none"
        /\ run[e].publish = "SWAP_REQUESTED" => engine[e] = "SUCCEEDED"

RowInv == IInv /\ RunMatchesOutbox /\ SwapNeedsVerdict /\ SwapLate

\* What a row r may become, q, when no event of its run is published; s is the
\* state of the job.
RowStep(r, q, s) ==
    /\ q.job = r.job
    /\ q.status = "RUNNING" => r.status = "RUNNING"
    /\ \/ q.publish = r.publish
       \/ q.publish = "SWAP_REQUESTED" /\ s = "SUCCEEDED"
    /\ q.rollback = "COMPLETED" <=> r.rollback = "COMPLETED"

\* Such a step, as far as rows and events are concerned.
Kept ==
    /\ \A e \in Execs : RowStep(run[e], run'[e], engine[e])
    /\ \A e \in Execs, k \in Kinds : Published(e, k)' <=> Published(e, k)
    /\ \A e \in Execs : run'[e].status = "QUEUED" => outbox'[<<e, "submit", 1>>] = "PENDING"
    /\ \A e \in Execs, n \in 1..MaxAttempts :
           outbox'[<<e, "swap", n>>] # "absent" =>
               outbox[<<e, "swap", n>>] # "absent" \/ run[e].publish = "SWAP_REQUESTED"

\* A job that succeeded stays so, and what was not submitted has no state.
LEMMA EngineFacts ==
    ASSUME RowInv, [Next]_vars, NEW e \in Execs
    PROVE  /\ engine[e] = "SUCCEEDED" => engine'[e] = "SUCCEEDED"
           /\ submits'[e] = 0 => engine'[e] = "none"
  <1>0. PlaneTypeOK /\ (submits[e] = 0 => engine[e] = "none")
    BY DEF RowInv, IInv, TypeOK, SwapLate
  <1>1. CASE \E w \in Workers : CallPlane(w)
    <2>1. PICK w \in Workers : CallPlane(w)
      BY <1>1
    <2> DEFINE f == ExecOf(broker[w].ev)
    <2>2. broker[w].pc = "armed" /\ broker[w].ev \in EventId /\ f \in Execs
      BY <2>1, HolderFacts, EventIdFacts DEF CallPlane, RowInv, Holding
    <2>3. CASE AcceptJob(f) /\ KindOf(broker[w].ev) = "submit"
      <3>1. submits[f] = 0
        BY <2>2, <2>3, EventIdFacts
           DEF RowInv, IInv, NoJobYet, OneSubmitEvent, HeldIsPending, Holding
      <3> QED
        BY <1>0, <2>2, <2>3, <3>1 DEF AcceptJob, PlaneTypeOK
    <2>4. CASE StopJob(f) \/ UNCHANGED <<engine, submits>>
      BY <1>0, <2>2, <2>4 DEF StopJob, PlaneTypeOK
    <2>5. \/ AcceptJob(f) /\ KindOf(broker[w].ev) = "submit"
          \/ StopJob(f)
          \/ UNCHANGED <<engine, submits>>
      BY <2>1
         DEF CallPlane, CallSubmit, SubmitAccepted, SubmitRejected, SubmitReplyLost, SubmitBroken,
             CallCancel, CallCleanup, DropShadow, NoCredentials, CallSwap, Exchange, NoShadow,
             CallRollback, ExchangeAndDrop, planeVars
    <2> QED
      BY <2>3, <2>4, <2>5
  <1>2. CASE \E f \in Execs : JobStep(f)
    BY <1>0, <1>2 DEF JobStep, EngineStep, PlaneTypeOK
  <1>3. CASE ~(\E w \in Workers : CallPlane(w)) /\ ~(\E f \in Execs : JobStep(f))
    <2>1. UNCHANGED <<engine, submits>>
      BY <1>3
         DEF Next, vars, planeVars, CommitPreparation, CancelRun, RollbackRun, ObserveJob,
             ObservationFails, QueueAction, RestartSupervision, BrokerStep, AbortBroker, BeatPick,
             TaskPick, FindSettled, DropLateSubmit, RefuseToken, ConsumeToken, ConfirmEvent,
             RejectEvent, RollBackBroker, ScheduleSupervision
    <2> QED
      BY <1>0, <2>1
  <1> QED
    BY <1>1, <1>2, <1>3

LEMMA KeptFacts ==
    ASSUME RowInv, [Next]_vars, Kept
    PROVE  RunMatchesOutbox' /\ SwapNeedsVerdict' /\ SwapLate'
  <1>1. \A e \in Execs : /\ engine[e] = "SUCCEEDED" => engine'[e] = "SUCCEEDED"
                         /\ submits'[e] = 0 => engine'[e] = "none"
    BY EngineFacts
  <1>2. {"submit", "swap", "cleanup", "rollback"} \subseteq Kinds
    BY DEF Kinds
  <1>3. RunMatchesOutbox'
    <2> SUFFICES ASSUME NEW e \in Execs
                 PROVE  /\ run'[e].status = "QUEUED" => outbox'[<<e, "submit", 1>>] = "PENDING"
                        /\ run'[e].job <=> Published(e, "submit")'
                        /\ run'[e].status = "RUNNING" => run'[e].job
                        /\ run'[e].publish = "PUBLISHED" => Published(e, "swap")'
                        /\ run'[e].publish = "CLEANED"
                              => Published(e, "cleanup")' \/ Published(e, "rollback")'
                        /\ run'[e].rollback = "COMPLETED" <=> Published(e, "rollback")'
      BY DEF RunMatchesOutbox
    <2>1. /\ run[e].job <=> Published(e, "submit")
          /\ run[e].status = "RUNNING" => run[e].job
          /\ run[e].publish = "PUBLISHED" => Published(e, "swap")
          /\ run[e].publish = "CLEANED"
                => Published(e, "cleanup") \/ Published(e, "rollback")
          /\ run[e].rollback = "COMPLETED" <=> Published(e, "rollback")
      BY DEF RowInv, RunMatchesOutbox
    <2>2. \A k \in {"submit", "swap", "cleanup", "rollback"} :
              Published(e, k)' <=> Published(e, k)
      BY <1>2 DEF Kept
    <2>3. run'[e].status = "QUEUED" => outbox'[<<e, "submit", 1>>] = "PENDING"
      BY DEF Kept
    <2>4. /\ run'[e].job = run[e].job
          /\ run'[e].status = "RUNNING" => run[e].status = "RUNNING"
          /\ run'[e].publish = run[e].publish \/ run'[e].publish = "SWAP_REQUESTED"
          /\ run'[e].rollback = "COMPLETED" <=> run[e].rollback = "COMPLETED"
      BY DEF Kept, RowStep
    <2> QED
      BY <2>1, <2>2, <2>3, <2>4
  <1>4. SwapNeedsVerdict'
    BY <1>1 DEF RowInv, SwapNeedsVerdict, SwapLate, Kept, RowStep
  <1>5. SwapLate'
    BY <1>1 DEF RowInv, SwapLate, Kept, RowStep
  <1> QED
    BY <1>3, <1>4, <1>5

\* A new event, or none: no event is published by it.
LEMMA EnqueueKeepsPublished ==
    ASSUME IInv,
           \/ UNCHANGED outbox
           \/ \E ev \in EventId : outbox[ev] = "absent" /\ Enqueue(ev)
    PROVE  /\ \A e \in Execs, k \in Kinds : Published(e, k)' <=> Published(e, k)
           /\ \A ev \in EventId : outbox[ev] # "absent" => outbox'[ev] = outbox[ev]
  <1> DEFINE New(ev) == outbox[ev] = "absent" /\ outbox' = [outbox EXCEPT ![ev] = "PENDING"]
  <1>1. \/ outbox' = outbox
        \/ \E ev \in EventId : New(ev)
    BY DEF Enqueue
  <1>2. outbox \in [EventId -> EventStatus]
    BY DEF IInv, TypeOK
  <1>3. \A x \in EventId : /\ outbox[x] # "absent" => outbox'[x] = outbox[x]
                           /\ outbox'[x] = "PUBLISHED" <=> outbox[x] = "PUBLISHED"
    BY <1>1, <1>2
  <1>4. \A e \in Execs, k \in Kinds, n \in 1..MaxAttempts : <<e, k, n>> \in EventId
    BY EventIdFacts
  <1>5. \A e \in Execs, k \in Kinds : Published(e, k)' <=> Published(e, k)
    BY <1>3, <1>4 DEF Published
  <1> QED
    BY <1>3, <1>5

\* It is an event of its own kind.
LEMMA EnqueueOnlyItsKind ==
    ASSUME IInv, NEW e \in Execs, NEW k \in Kinds, NEW n \in 1..MaxAttempts,
           Enqueue(<<e, k, n>>),
           NEW f \in Execs, NEW j \in Kinds, j # k, NEW m \in 1..MaxAttempts
    PROVE  outbox'[<<f, j, m>>] = outbox[<<f, j, m>>]
  <1>1. <<f, j, m>> \in EventId /\ <<e, k, n>> \in EventId /\ <<f, j, m>> # <<e, k, n>>
    BY EventIdFacts
  <1>2. outbox \in [EventId -> EventStatus]
    BY DEF IInv, TypeOK
  <1> QED
    BY <1>1, <1>2 DEF Enqueue

\* An event that fails was not published, and is not.
LEMMA FailKeepsPublished ==
    ASSUME IInv, NEW ev \in EventId, outbox[ev] = "PENDING", Settle(ev, "FAILED")
    PROVE  /\ \A e \in Execs, k \in Kinds : Published(e, k)' <=> Published(e, k)
           /\ \A x \in EventId : x # ev => outbox'[x] = outbox[x]
           /\ \A x \in EventId : outbox'[x] = "absent" <=> outbox[x] = "absent"
  <1>1. outbox \in [EventId -> EventStatus]
    BY DEF IInv, TypeOK
  <1>2. \A x \in EventId : /\ x # ev => outbox'[x] = outbox[x]
                           /\ outbox'[x] = "absent" <=> outbox[x] = "absent"
                           /\ outbox'[x] = "PUBLISHED" <=> outbox[x] = "PUBLISHED"
    BY <1>1 DEF Settle
  <1>3. \A e \in Execs, k \in Kinds, n \in 1..MaxAttempts : <<e, k, n>> \in EventId
    BY EventIdFacts
  <1>4. \A e \in Execs, k \in Kinds : Published(e, k)' <=> Published(e, k)
    BY <1>2, <1>3 DEF Published
  <1> QED
    BY <1>2, <1>4

\* What the operator does, and the commit.
LEMMA ApiKeeps ==
    ASSUME RowInv, NEW e \in Execs,
           CommitPreparation(e) \/ CancelRun(e) \/ RollbackRun(e)
    PROVE  Kept
  <1>0. IInv /\ TypeOK /\ RunMatchesOutbox /\ NothingBeforeRun
    BY DEF RowInv, IInv
  <1> USE EventIdFacts, BoundsAssumption
  <1>1. CASE CommitPreparation(e)
    <2>1. outbox[<<e, "submit", 1>>] = "absent" /\ Enqueue(<<e, "submit", 1>>)
      BY <1>0, <1>1 DEF CommitPreparation, NothingBeforeRun, Kinds
    <2>2. run' = [run EXCEPT ![e].status = "QUEUED"]
      BY <1>1 DEF CommitPreparation, SetStatus
    <2>3. \A f \in Execs : RowStep(run[f], run'[f], engine[f])
      BY <1>0, <2>2 DEF RowStep, TypeOK, Run
    <2>4. /\ \A f \in Execs, k \in Kinds : Published(f, k)' <=> Published(f, k)
          /\ \A ev \in EventId : outbox[ev] # "absent" => outbox'[ev] = outbox[ev]
      BY <1>0, <2>1, EnqueueKeepsPublished DEF Kinds
    <2>5. \A f \in Execs :
              run'[f].status = "QUEUED" => outbox'[<<f, "submit", 1>>] = "PENDING"
      <3>1. outbox'[<<e, "submit", 1>>] = "PENDING"
        BY <1>0, <2>1 DEF TypeOK, Enqueue, Kinds
      <3>2. \A f \in Execs \ {e} : run'[f] = run[f]
        BY <1>0, <2>2 DEF TypeOK
      <3>3. \A f \in Execs :
                outbox[<<f, "submit", 1>>] = "PENDING" => outbox'[<<f, "submit", 1>>] = "PENDING"
        BY <2>4 DEF Kinds
      <3> QED
        BY <1>0, <3>1, <3>2, <3>3 DEF RunMatchesOutbox
    <2>6. \A f \in Execs, n \in 1..MaxAttempts :
              outbox'[<<f, "swap", n>>] # "absent" => outbox[<<f, "swap", n>>] # "absent"
      BY <1>0, <2>1 DEF TypeOK, Enqueue, Kinds
    <2> QED
      BY <2>3, <2>4, <2>5, <2>6 DEF Kept
  <1>2. CASE CancelRun(e) \/ RollbackRun(e)
    <2>1. PICK k \in {"cancel", "rollback"} : QueueIfNone(e, k)
      BY <1>2 DEF CancelRun, RollbackRun
    <2>2. \/ UNCHANGED outbox
          \/ \E n \in 1..MaxAttempts :
                 outbox[<<e, k, n>>] = "absent" /\ Enqueue(<<e, k, n>>)
      BY <2>1 DEF QueueIfNone, IsNext
    <2>3. /\ \A f \in Execs, j \in Kinds : Published(f, j)' <=> Published(f, j)
          /\ \A ev \in EventId : outbox[ev] # "absent" => outbox'[ev] = outbox[ev]
      BY <1>0, <2>2, EnqueueKeepsPublished DEF Kinds
    <2>4. \A f \in Execs, n \in 1..MaxAttempts :
              outbox'[<<f, "swap", n>>] # "absent" => outbox[<<f, "swap", n>>] # "absent"
      <3>1. k \in Kinds /\ "swap" \in Kinds /\ k # "swap"
        BY DEF Kinds
      <3> QED
        BY <1>0, <2>2, <3>1, EnqueueOnlyItsKind
    <2>5. \A f \in Execs : /\ RowStep(run[f], run'[f], engine[f])
                           /\ run'[f].status = "QUEUED" => run[f].status = "QUEUED"
      BY <1>0, <1>2 DEF RowStep, CancelRun, RollbackRun, SetStatus, TypeOK, Run
    <2>6. \A f \in Execs :
              run'[f].status = "QUEUED" => outbox'[<<f, "submit", 1>>] = "PENDING"
      BY <1>0, <2>3, <2>5 DEF RunMatchesOutbox, Kinds
    <2> QED
      BY <2>3, <2>4, <2>5, <2>6 DEF Kept
  <1> QED
    BY <1>1, <1>2

\* What one observation makes of the row.
LEMMA ObservationRowStep ==
    ASSUME NEW r \in Run, NEW s \in EngineStates,
           NEW q \in Observations(r, s) \cup BadObservations(r, s)
    PROVE  /\ RowStep(r, q, s)
           /\ q.status = "QUEUED" => r.status = "QUEUED"
           /\ q.rollback = r.rollback
  <1>1. CASE q = r
    BY <1>1 DEF RowStep
  <1>2. CASE s = "SUCCEEDED" /\ q \in {Passed(r), Rejected(r), CaptureFailed(r)}
    BY <1>2 DEF RowStep, Passed, Rejected, CaptureFailed, Run
  <1>3. CASE \E t \in {"CANCEL_REQUESTED", "FAILED", "CANCELLED"} : q = [r EXCEPT !.status = t]
    BY <1>3 DEF RowStep, Run
  <1> QED
    BY <1>1, <1>2, <1>3 DEF Observations, BadObservations, EngineStates

\* Supervision.
LEMMA SupervisionKeeps ==
    ASSUME RowInv, NEW e \in Execs, ObserveJob(e) \/ QueueAction(e)
    PROVE  Kept
  <1>0. IInv /\ TypeOK /\ PlaneTypeOK /\ RunMatchesOutbox
    BY DEF RowInv, IInv, TypeOK
  <1> USE EventIdFacts, BoundsAssumption
  <1>1. CASE ObserveJob(e)
    <2>1. PICK q \in Observations(run[e], engine[e]) \cup BadObservations(run[e], engine[e]) :
            run' = [run EXCEPT ![e] = q]
      BY <1>1 DEF ObserveJob
    <2>2. RowStep(run[e], q, engine[e]) /\ (q.status = "QUEUED" => run[e].status = "QUEUED")
      BY <1>0, <2>1, ObservationRowStep DEF TypeOK, PlaneTypeOK
    <2>3. \A f \in Execs : /\ RowStep(run[f], run'[f], engine[f])
                           /\ run'[f].status = "QUEUED" => run[f].status = "QUEUED"
      <3>1. \A f \in Execs : RowStep(run[f], run[f], engine[f])
        BY DEF RowStep
      <3> QED
        BY <1>0, <2>1, <2>2, <3>1 DEF TypeOK
    <2>4. outbox' = outbox
      BY <1>1 DEF ObserveJob
    <2> QED
      BY <1>0, <2>3, <2>4 DEF Kept, Published, RunMatchesOutbox
  <1>2. CASE QueueAction(e)
    <2>1. run' = run /\ QueueFollowUp(e, FollowUpKind(run[e]))
      BY <1>2 DEF QueueAction
    <2> DEFINE k == FollowUpKind(run[e])
    <2>2. k = "none" \/ k \in Kinds
      BY DEF FollowUpKind, Kinds
    <2>3. \/ UNCHANGED outbox
          \/ /\ k \in Kinds
             /\ \E n \in 1..MaxAttempts :
                    outbox[<<e, k, n>>] = "absent" /\ Enqueue(<<e, k, n>>)
      BY <2>1, <2>2 DEF QueueFollowUp, IsNext
    <2>4. k = "swap" => run[e].publish = "SWAP_REQUESTED"
      BY DEF FollowUpKind
    <2> HIDE DEF k
    <2>5. /\ \A f \in Execs, j \in Kinds : Published(f, j)' <=> Published(f, j)
          /\ \A ev \in EventId : outbox[ev] # "absent" => outbox'[ev] = outbox[ev]
      BY <1>0, <2>3, EnqueueKeepsPublished
    <2>6. \A f \in Execs, n \in 1..MaxAttempts :
              outbox'[<<f, "swap", n>>] # "absent" =>
                  outbox[<<f, "swap", n>>] # "absent" \/ run[f].publish = "SWAP_REQUESTED"
      <3> SUFFICES ASSUME NEW f \in Execs, NEW n \in 1..MaxAttempts,
                          outbox'[<<f, "swap", n>>] # outbox[<<f, "swap", n>>]
                   PROVE  run[f].publish = "SWAP_REQUESTED"
        OBVIOUS
      <3>1. PICK m \in 1..MaxAttempts : k \in Kinds /\ Enqueue(<<e, k, m>>)
        BY <2>3
      <3>2. k = "swap"
        BY <1>0, <3>1, EnqueueOnlyItsKind DEF Kinds
      <3>3. <<f, "swap", n>> = <<e, k, m>>
        <4>1. <<f, "swap", n>> \in EventId /\ <<e, k, m>> \in EventId
          BY <3>1, <3>2
        <4> QED
          BY <1>0, <3>1, <4>1 DEF TypeOK, Enqueue
      <3>4. f = e
        BY <3>3
      <3> QED
        BY <2>4, <3>2, <3>4
    <2>7. \A f \in Execs :
              run'[f].status = "QUEUED" => outbox'[<<f, "submit", 1>>] = "PENDING"
      BY <1>0, <2>1, <2>5 DEF RunMatchesOutbox, Kinds
    <2>8. \A f \in Execs : RowStep(run[f], run'[f], engine[f])
      BY <2>1 DEF RowStep
    <2> QED
      BY <2>5, <2>6, <2>7, <2>8 DEF Kept
  <1> QED
    BY <1>1, <1>2

\* The broker fails an event.
LEMMA FailureKeeps ==
    ASSUME RowInv, NEW w \in Workers, DropLateSubmit(w) \/ RefuseToken(w) \/ RejectEvent(w)
    PROVE  Kept
  <1>0. IInv /\ TypeOK /\ RunMatchesOutbox
    BY DEF RowInv, IInv
  <1> USE EventIdFacts, BoundsAssumption
  <1>1. PICK ev \in EventId :
            /\ outbox[ev] = "PENDING" /\ Settle(ev, "FAILED")
            /\ \/ SetStatus(ExecOf(ev), "FAILED")
               \/ UNCHANGED run /\ run[ExecOf(ev)].status # "QUEUED"
    <2>1. CASE DropLateSubmit(w)
      BY <2>1 DEF DropLateSubmit, CancelledBefore
    <2>2. CASE RefuseToken(w)
      BY <2>2 DEF RefuseToken, FailEvent
    <2>3. CASE RejectEvent(w)
      BY <1>0, <2>3, HolderFacts DEF RejectEvent, FailEvent, Holding
    <2> QED
      BY <2>1, <2>2, <2>3
  <1>2. /\ \A e \in Execs, k \in Kinds : Published(e, k)' <=> Published(e, k)
        /\ \A x \in EventId : x # ev => outbox'[x] = outbox[x]
        /\ \A x \in EventId : outbox'[x] = "absent" <=> outbox[x] = "absent"
    BY <1>0, <1>1, FailKeepsPublished
  <1>3. \A e \in Execs : /\ RowStep(run[e], run'[e], engine[e])
                         /\ run'[e].status = "QUEUED" => run[e].status = "QUEUED"
                         /\ e = ExecOf(ev) => run'[e].status # "QUEUED"
    BY <1>0, <1>1 DEF RowStep, SetStatus, TypeOK, Run
  <1>4. \A e \in Execs : run'[e].status = "QUEUED" => outbox'[<<e, "submit", 1>>] = "PENDING"
    BY <1>0, <1>2, <1>3 DEF RunMatchesOutbox, Kinds
  <1>5. \A e \in Execs, n \in 1..MaxAttempts :
            outbox'[<<e, "swap", n>>] # "absent" => outbox[<<e, "swap", n>>] # "absent"
    BY <1>2 DEF Kinds
  <1> QED
    BY <1>2, <1>3, <1>4, <1>5 DEF Kept

\* The broker confirms an event.
LEMMA ConfirmationFits ==
    ASSUME RowInv, [Next]_vars, NEW w \in Workers, ConfirmEvent(w)
    PROVE  RunMatchesOutbox' /\ SwapNeedsVerdict' /\ SwapLate'
  <1>0. IInv /\ TypeOK /\ RunMatchesOutbox /\ SwapNeedsVerdict /\ SwapLate
    BY DEF RowInv, IInv
  <1> DEFINE ev == broker[w].ev
             f == ExecOf(ev)
             k == KindOf(ev)
  <1>1. ev \in EventId /\ outbox[ev] = "PENDING"
    BY <1>0, HolderFacts DEF ConfirmEvent, Holding
  <1>2. f \in Execs /\ k \in Kinds /\ \E n \in 1..MaxAttempts : ev = <<f, k, n>>
    BY <1>1, EventIdFacts
  <1>3. outbox' = [outbox EXCEPT ![ev] = "PUBLISHED"]
        /\ run' = [run EXCEPT ![f] = Confirmed(@, k)]
    BY DEF ConfirmEvent, Settle
  <1>4. k = "submit" => ev = <<f, "submit", 1>>
    BY <1>0, <1>1, <1>2 DEF IInv, OneSubmitEvent
  <1>5. \A e \in Execs : /\ engine[e] = "SUCCEEDED" => engine'[e] = "SUCCEEDED"
                         /\ submits'[e] = 0 => engine'[e] = "none"
    BY EngineFacts
  <1> HIDE DEF ev, f, k
  <1>6. \A e \in Execs, j \in Kinds :
            Published(e, j)' <=> Published(e, j) \/ (e = f /\ j = k)
    BY <1>0, <1>1, <1>2, <1>3, EventIdFacts DEF Published, TypeOK
  <1>7. \A e \in Execs, j \in Kinds, n \in 1..MaxAttempts :
            /\ outbox'[<<e, j, n>>] = "absent" <=> outbox[<<e, j, n>>] = "absent"
            /\ <<e, j, n>> # ev => outbox'[<<e, j, n>>] = outbox[<<e, j, n>>]
    BY <1>0, <1>1, <1>3, EventIdFacts DEF TypeOK
  <1>8. \A e \in Execs \ {f} : run'[e] = run[e]
    BY <1>0, <1>3 DEF TypeOK
  <1>9. run[f] \in Run /\ run'[f] = Confirmed(run[f], k)
    BY <1>0, <1>2, <1>3 DEF TypeOK
  <1>10. /\ k = "submit" => /\ run'[f].status = "RUNNING" /\ run'[f].job
                            /\ run'[f].publish = run[f].publish
                            /\ run'[f].rollback = run[f].rollback
         /\ k = "cancel" => /\ run'[f].status = "CANCELLED" /\ run'[f].job = run[f].job
                            /\ run'[f].publish = run[f].publish
                            /\ run'[f].rollback = run[f].rollback
         /\ k = "cleanup" => /\ run'[f].status = run[f].status /\ run'[f].job = run[f].job
                             /\ run'[f].publish = "CLEANED"
                             /\ run'[f].rollback = run[f].rollback
         /\ k = "swap" => /\ run'[f].status = "SUCCEEDED" /\ run'[f].job = run[f].job
                          /\ run'[f].publish = "PUBLISHED"
                          /\ run'[f].rollback = run[f].rollback
         /\ k = "rollback" => /\ run'[f].status = run[f].status /\ run'[f].job = run[f].job
                              /\ run'[f].publish = "CLEANED"
                              /\ run'[f].rollback = "COMPLETED"
    BY <1>9 DEF Confirmed, Run
  <1>11. run'[f].status = "QUEUED" =>
             run[f].status = "QUEUED" /\ ev # <<f, "submit", 1>>
    BY <1>1, <1>2, <1>10, EventIdFacts DEF Kinds, k
  <1>12. RunMatchesOutbox'
    <2> SUFFICES ASSUME NEW e \in Execs
                 PROVE  /\ run'[e].status = "QUEUED" => outbox'[<<e, "submit", 1>>] = "PENDING"
                        /\ run'[e].job <=> Published(e, "submit")'
                        /\ run'[e].status = "RUNNING" => run'[e].job
                        /\ run'[e].publish = "PUBLISHED" => Published(e, "swap")'
                        /\ run'[e].publish = "CLEANED"
                              => Published(e, "cleanup")' \/ Published(e, "rollback")'
                        /\ run'[e].rollback = "COMPLETED" <=> Published(e, "rollback")'
      BY DEF RunMatchesOutbox
    <2>1. /\ run[e].status = "QUEUED" => outbox[<<e, "submit", 1>>] = "PENDING"
          /\ run[e].job <=> Published(e, "submit")
          /\ run[e].status = "RUNNING" => run[e].job
          /\ run[e].publish = "PUBLISHED" => Published(e, "swap")
          /\ run[e].publish = "CLEANED"
                => Published(e, "cleanup") \/ Published(e, "rollback")
          /\ run[e].rollback = "COMPLETED" <=> Published(e, "rollback")
      BY <1>0 DEF RunMatchesOutbox
    <2>2. \A j \in {"submit", "swap", "cleanup", "rollback"} :
              Published(e, j)' <=> Published(e, j) \/ (e = f /\ j = k)
      BY <1>6 DEF Kinds
    <2>3. run'[e].status = "QUEUED" => outbox'[<<e, "submit", 1>>] = "PENDING"
      <3>1. run'[e].status = "QUEUED" =>
                run[e].status = "QUEUED" /\ ev # <<e, "submit", 1>>
        BY <1>8, <1>11, <1>2, EventIdFacts DEF Kinds
      <3> QED
        BY <1>7, <2>1, <3>1, BoundsAssumption DEF Kinds
    <2>4. CASE e # f
      BY <1>8, <2>1, <2>2, <2>3, <2>4
    <2>5. CASE e = f
      BY <1>2, <1>10, <2>1, <2>2, <2>3, <2>5 DEF Kinds
    <2> QED
      BY <2>4, <2>5
  <1>13. SwapNeedsVerdict'
    <2> SUFFICES ASSUME NEW e \in Execs, NEW n \in 1..MaxAttempts,
                        outbox'[<<e, "swap", n>>] # "absent"
                 PROVE  engine'[e] = "SUCCEEDED" /\ run'[e].publish # "NOT_STARTED"
      BY DEF SwapNeedsVerdict
    <2>1. engine[e] = "SUCCEEDED" /\ run[e].publish # "NOT_STARTED"
      BY <1>0, <1>7 DEF SwapNeedsVerdict, Kinds
    <2> QED
      BY <1>2, <1>5, <1>8, <1>10, <2>1 DEF Kinds
  <1>14. SwapLate'
    <2> SUFFICES ASSUME NEW e \in Execs, run'[e].publish = "SWAP_REQUESTED"
                 PROVE  engine'[e] = "SUCCEEDED"
      BY <1>5 DEF SwapLate
    <2>1. run[e].publish = "SWAP_REQUESTED"
      BY <1>2, <1>8, <1>10 DEF Kinds
    <2> QED
      BY <1>0, <1>5, <2>1 DEF SwapLate
  <1> QED
    BY <1>12, <1>13, <1>14

\* Nothing else touches a row or an event.
LEMMA RestKeeps ==
    ASSUME RowInv, UNCHANGED <<run, outbox>>
    PROVE  Kept
  BY DEF RowInv, RunMatchesOutbox, Kept, RowStep, Published

LEMMA StepsOfRows ==
    ASSUME [Next]_vars
    PROVE  \/ \E e \in Execs : \/ CommitPreparation(e) \/ CancelRun(e) \/ RollbackRun(e)
                               \/ ObserveJob(e) \/ QueueAction(e)
           \/ \E w \in Workers : \/ DropLateSubmit(w) \/ RefuseToken(w) \/ RejectEvent(w)
                                 \/ ConfirmEvent(w)
           \/ UNCHANGED <<run, outbox>>
  BY DEF Next, vars, ctlVars, ObservationFails, RestartSupervision, JobStep, BrokerStep,
         AbortBroker, BeatPick, TaskPick, FindSettled, ConsumeToken, CallPlane, RollBackBroker,
         ScheduleSupervision

LEMMA NextRowInv ==
    ASSUME RowInv, [Next]_vars
    PROVE  RowInv'
  <1>0. IInv'
    BY NextIInv DEF RowInv
  <1>1. CASE \E e \in Execs : CommitPreparation(e) \/ CancelRun(e) \/ RollbackRun(e)
    BY <1>0, <1>1, ApiKeeps, KeptFacts DEF RowInv
  <1>2. CASE \E e \in Execs : ObserveJob(e) \/ QueueAction(e)
    BY <1>0, <1>2, SupervisionKeeps, KeptFacts DEF RowInv
  <1>3. CASE \E w \in Workers : DropLateSubmit(w) \/ RefuseToken(w) \/ RejectEvent(w)
    BY <1>0, <1>3, FailureKeeps, KeptFacts DEF RowInv
  <1>4. CASE \E w \in Workers : ConfirmEvent(w)
    BY <1>0, <1>4, ConfirmationFits DEF RowInv
  <1>5. CASE UNCHANGED <<run, outbox>>
    BY <1>0, <1>5, RestKeeps, KeptFacts DEF RowInv
  <1> QED
    BY <1>1, <1>2, <1>3, <1>4, <1>5, StepsOfRows

LEMMA InitRowInv == Init => RowInv
  <1>1. Init => RunMatchesOutbox /\ SwapNeedsVerdict /\ SwapLate
    <2> SUFFICES ASSUME Init PROVE RunMatchesOutbox /\ SwapNeedsVerdict /\ SwapLate
      OBVIOUS
    <2>1. /\ \A e \in Execs : run[e] = NoRun /\ submits[e] = 0 /\ engine[e] = "none"
          /\ \A e \in Execs, k \in Kinds, n \in 1..MaxAttempts : outbox[<<e, k, n>>] = "absent"
      BY EventIdFacts DEF Init, PlaneInit
    <2>2. \A e \in Execs, k \in Kinds : ~Published(e, k)
      BY <2>1 DEF Published
    <2> QED
      BY <2>1, <2>2 DEF RunMatchesOutbox, SwapNeedsVerdict, SwapLate, NoRun, Kinds
  <1> QED
    BY <1>1, InitIInv DEF RowInv

LEMMA RowInvariance == Spec => []RowInv
  BY InitRowInv, NextRowInv, PTL DEF Spec

\* The run row and the outbox never disagree, with any number of executions,
\* workers and faults.
THEOREM RunMatchesOutboxHolds == Spec => []RunMatchesOutbox
  <1>1. RowInv => RunMatchesOutbox
    BY DEF RowInv
  <1> QED
    BY <1>1, RowInvariance, PTL

\* A swap is queued only after the job succeeded and its data was judged.
THEOREM SwapNeedsVerdictHolds == Spec => []SwapNeedsVerdict
  <1>1. RowInv => SwapNeedsVerdict
    BY DEF RowInv
  <1> QED
    BY <1>1, RowInvariance, PTL

-----------------------------------------------------------------------------
(***************************************************************************)
(* What happens as long as nothing fails                                   *)
(***************************************************************************)

\* The call of an event of kind k was carried out: the event is published, or
\* its worker is about to publish it.
DoneAt(e, k) ==
    \E w \in Workers, n \in 1..MaxAttempts :
        broker[w].pc = "done" /\ broker[w].ev = <<e, k, n>>

Carried(e, k) == Published(e, k) \/ DoneAt(e, k)

\* A rollback is only queued when the row says so.
RollbackAsked ==
    \A e \in Execs, n \in 1..MaxAttempts :
        outbox[<<e, "rollback", n>>] # "absent" => run[e].rollback # "NOT_REQUESTED"

Undisturbed(e) == run[e].rollback = "NOT_REQUESTED" /\ Alone(e)

\* Every job is the one its submit event was published for, or will be at once.
JobsCarried == \A e \in Execs : submits[e] > 0 => Carried(e, "submit")

\* Before the exchange the shadow table holds the rows of its run, afterwards
\* the target does.
RowsInPlace ==
    \A e \in Execs : Undisturbed(e) =>
        /\ Carried(e, "swap") => target = e
        /\ ~Carried(e, "swap") /\ engine[e] = "SUCCEEDED" => shadow[e] \in {e, "absent"}

CalmInv == RowInv /\ RollbackAsked /\ (faults = 0 => JobsCarried /\ RowsInPlace)

\* No event disappears, a rollback is not forgotten, a fault is not undone.
LEMMA NothingForgotten ==
    ASSUME CalmInv, [Next]_vars
    PROVE  /\ \A ev \in EventId : outbox[ev] # "absent" => outbox'[ev] # "absent"
           /\ \A e \in Execs :
                  run[e].rollback # "NOT_REQUESTED" => run'[e].rollback # "NOT_REQUESTED"
           /\ faults' = 0 => faults = 0
  <1>0. IInv /\ TypeOK
    BY DEF CalmInv, RowInv, IInv
  <1>1. \/ outbox' = outbox
        \/ \E ev \in EventId, s \in {"PENDING", "PUBLISHED", "FAILED"} :
               outbox' = [outbox EXCEPT ![ev] = s]
    <2> USE EventIdFacts, BoundsAssumption DEF Enqueue, Settle
    <2>1. CASE \E e \in Execs : CommitPreparation(e) \/ CancelRun(e) \/ RollbackRun(e)
      <3>1. PICK e \in Execs : CommitPreparation(e) \/ CancelRun(e) \/ RollbackRun(e)
        BY <2>1
      <3>2. \/ outbox' = outbox
            \/ \E k \in Kinds, n \in 1..MaxAttempts :
                   outbox' = [outbox EXCEPT ![<<e, k, n>>] = "PENDING"]
        <4>1. CASE CommitPreparation(e)
          <5>1. outbox' = [outbox EXCEPT ![<<e, "submit", 1>>] = "PENDING"]
            BY <4>1 DEF CommitPreparation
          <5>2. "submit" \in Kinds /\ 1 \in 1..MaxAttempts
            BY DEF Kinds
          <5> QED
            BY <5>1, <5>2
        <4>2. CASE CancelRun(e) \/ RollbackRun(e)
          <5>1. PICK k \in {"cancel", "rollback"} : QueueIfNone(e, k)
            BY <4>2 DEF CancelRun, RollbackRun
          <5> QED
            BY <5>1 DEF QueueIfNone, Kinds
        <4> QED
          BY <3>1, <4>1, <4>2
      <3> QED
        BY <3>2
    <2>2. CASE \E e \in Execs : QueueAction(e)
      BY <2>2 DEF QueueAction, QueueFollowUp, FollowUpKind, Kinds
    <2>3. CASE \E w \in Workers : \/ DropLateSubmit(w) \/ RefuseToken(w) \/ RejectEvent(w)
                                   \/ ConfirmEvent(w)
      <3>1. PICK w \in Workers : \/ DropLateSubmit(w) \/ RefuseToken(w) \/ RejectEvent(w)
                                 \/ ConfirmEvent(w)
        BY <2>3
      <3>2. CASE DropLateSubmit(w)
        BY <3>2 DEF DropLateSubmit
      <3>3. CASE RefuseToken(w)
        BY <3>3 DEF RefuseToken, FailEvent
      <3>4. CASE RejectEvent(w)
        BY <3>4 DEF RejectEvent, FailEvent
      <3>5. CASE ConfirmEvent(w)
        BY <3>5 DEF ConfirmEvent
      <3> QED
        BY <3>1, <3>2, <3>3, <3>4, <3>5
    <2>4. CASE outbox' = outbox
      BY <2>4
    <2> QED
      BY <2>1, <2>2, <2>3, <2>4
         DEF Next, vars, ctlVars, ObserveJob, ObservationFails, RestartSupervision, JobStep,
             BrokerStep, AbortBroker, BeatPick, TaskPick, FindSettled, ConsumeToken, CallPlane,
             RollBackBroker, ScheduleSupervision
  <1>2. \A ev \in EventId : outbox[ev] # "absent" => outbox'[ev] # "absent"
    BY <1>0, <1>1 DEF TypeOK
  <1>3. \A e \in Execs :
            run[e].rollback # "NOT_REQUESTED" => run'[e].rollback # "NOT_REQUESTED"
    <2>1. CASE \E e \in Execs : CommitPreparation(e) \/ CancelRun(e) \/ RollbackRun(e)
      BY <1>0, <2>1 DEF CommitPreparation, CancelRun, RollbackRun, SetStatus, TypeOK, Run
    <2>2. CASE \E e \in Execs : ObserveJob(e)
      <3>1. PICK e \in Execs :
                \E q \in Observations(run[e], engine[e]) \cup BadObservations(run[e], engine[e]) :
                    run' = [run EXCEPT ![e] = q]
        BY <2>2 DEF ObserveJob
      <3>2. \A q \in Observations(run[e], engine[e]) \cup BadObservations(run[e], engine[e]) :
                q.rollback = run[e].rollback
        BY <1>0, ObservationRowStep DEF TypeOK, PlaneTypeOK
      <3> QED
        BY <1>0, <3>1, <3>2 DEF TypeOK
    <2>3. CASE \E w \in Workers : DropLateSubmit(w) \/ RefuseToken(w) \/ RejectEvent(w)
      BY <1>0, <2>3, EventIdFacts
         DEF DropLateSubmit, RefuseToken, RejectEvent, FailEvent, SetStatus, TypeOK, Run
    <2>4. CASE \E w \in Workers : ConfirmEvent(w)
      <3>1. PICK ev \in EventId :
                run' = [run EXCEPT ![ExecOf(ev)] = Confirmed(@, KindOf(ev))]
        BY <2>4 DEF ConfirmEvent
      <3>2. \A r \in Run, k \in Kinds :
                Confirmed(r, k).rollback \in {r.rollback, "COMPLETED"}
        BY DEF Confirmed, Run, Kinds
      <3> QED
        BY <1>0, <3>1, <3>2, EventIdFacts DEF TypeOK
    <2>5. CASE run' = run
      BY <2>5
    <2> QED
      BY <2>1, <2>2, <2>3, <2>4, <2>5
         DEF Next, vars, ctlVars, ObservationFails, QueueAction, RestartSupervision, JobStep,
             BrokerStep, AbortBroker, BeatPick, TaskPick, FindSettled, ConsumeToken, CallPlane,
             RollBackBroker, ScheduleSupervision
  <1>4. faults' = faults \/ Fault
    <2>1. CASE \E e \in Execs :
                   \/ CommitPreparation(e) \/ CancelRun(e) \/ RollbackRun(e)
                   \/ ObserveJob(e) \/ ObservationFails(e)
                   \/ QueueAction(e) \/ RestartSupervision(e) \/ JobStep(e)
      BY <2>1 DEF CommitPreparation, CancelRun, RollbackRun, ObserveJob, ObservationFails,
                  QueueAction, RestartSupervision, JobStep, ctlVars, NoFault
    <2>2. CASE \E w \in Workers : CallPlane(w)
      <3>1. PICK w \in Workers : CallPlane(w)
        BY <2>2
      <3> QED
        BY <3>1 DEF CallPlane, CallSubmit, CallCancel, CallCleanup, CallSwap, CallRollback,
                    NoShadow, NoCredentials, NoFault
    <2>3. CASE \E w \in Workers : BrokerStep(w) /\ ~CallPlane(w)
      BY <2>3 DEF BrokerStep, FindSettled, DropLateSubmit, RefuseToken, ConsumeToken,
                  ConfirmEvent, RejectEvent, RollBackBroker, ScheduleSupervision, NoFault
    <2>4. CASE \E w \in Workers :
                   AbortBroker(w) \/ \E ev \in EventId : BeatPick(w, ev) \/ TaskPick(w, ev)
      BY <2>4 DEF AbortBroker, BeatPick, TaskPick
    <2> QED
      BY <2>1, <2>2, <2>3, <2>4 DEF Next, vars, ctlVars
  <1>5. faults' = 0 => faults = 0
    BY <1>0, <1>4 DEF TypeOK, Fault
  <1> QED
    BY <1>2, <1>3, <1>5

\* Only the confirmation of an event changes what was carried out, apart from
\* the call itself.
LEMMA CarriedKept ==
    ASSUME CalmInv, [Next]_vars, faults' = 0, ~\E w \in Workers : CallPlane(w),
           NEW e \in Execs, NEW k \in Kinds
    PROVE  Carried(e, k)' <=> Carried(e, k)
  <1>0. RowInv /\ IInv /\ TypeOK /\ faults = 0 /\ ~Fault
    BY NothingForgotten DEF CalmInv, RowInv, IInv, TypeOK, Fault
  <1>1. CASE \E w \in Workers : ConfirmEvent(w)
    <2>1. PICK w \in Workers : ConfirmEvent(w)
      BY <1>1
    <2> DEFINE ev == broker[w].ev
    <2>2. ev \in EventId /\ broker[w].pc = "done" /\ outbox[ev] = "PENDING"
      BY <1>0, <2>1, HolderFacts DEF ConfirmEvent, Holding
    <2>3. outbox' = [outbox EXCEPT ![ev] = "PUBLISHED"]
      BY <2>1 DEF ConfirmEvent, Settle
    <2>4. broker'[w].pc # "done" /\ \A v \in Workers \ {w} : broker'[v] = broker[v]
      BY <1>0, <2>1 DEF ConfirmEvent, Goto, Finish, Idle, TypeOK, Slot
    <2> HIDE DEF ev
    <2>5. \A n \in 1..MaxAttempts :
              outbox'[<<e, k, n>>] = "PUBLISHED" <=>
                  outbox[<<e, k, n>>] = "PUBLISHED" \/ ev = <<e, k, n>>
      BY <1>0, <2>2, <2>3, EventIdFacts DEF TypeOK
    <2>6. \A v \in Workers, n \in 1..MaxAttempts :
              broker[v].pc = "done" /\ broker[v].ev = <<e, k, n>> =>
                  \/ broker'[v].pc = "done" /\ broker'[v].ev = <<e, k, n>>
                  \/ ev = <<e, k, n>>
      BY <2>4 DEF ev
    <2>7. \A v \in Workers, n \in 1..MaxAttempts :
              broker'[v].pc = "done" /\ broker'[v].ev = <<e, k, n>> =>
                  broker[v].pc = "done" /\ broker[v].ev = <<e, k, n>>
      BY <2>4
    <2>8. \A n \in 1..MaxAttempts : ev = <<e, k, n>> => DoneAt(e, k)
      BY <2>2 DEF DoneAt, ev
    <2> QED
      BY <2>5, <2>6, <2>7, <2>8 DEF Carried, Published, DoneAt
  <1>2. CASE ~\E w \in Workers : ConfirmEvent(w)
    <2>1. Kept
      <3>1. CASE \E f \in Execs : CommitPreparation(f) \/ CancelRun(f) \/ RollbackRun(f)
        BY <1>0, <3>1, ApiKeeps
      <3>2. CASE \E f \in Execs : ObserveJob(f) \/ QueueAction(f)
        BY <1>0, <3>2, SupervisionKeeps
      <3>3. CASE \E w \in Workers : DropLateSubmit(w) \/ RefuseToken(w) \/ RejectEvent(w)
        BY <1>0, <3>3, FailureKeeps
      <3>4. CASE UNCHANGED <<run, outbox>>
        BY <1>0, <3>4, RestKeeps
      <3> QED
        BY <1>2, <3>1, <3>2, <3>3, <3>4, StepsOfRows
    <2>2. \A w \in Workers :
              \/ broker'[w] = broker[w]
              \/ broker[w].pc # "done" /\ broker'[w].pc # "done"
      <3>1. CASE UNCHANGED broker
        BY <3>1
      <3>2. CASE \E w \in Workers, ev \in EventId : BeatPick(w, ev) \/ TaskPick(w, ev)
        BY <1>0, <3>2 DEF BeatPick, TaskPick, TypeOK
      <3>3. CASE \E w \in Workers :
                     /\ broker[w].pc # "done"
                     /\ \/ Finish(w)
                        \/ \E pc \in {"sched", "armed"} : Goto(w, pc)
        BY <1>0, <3>3 DEF Finish, Goto, Idle, TypeOK, Slot
      <3>4. CASE \E w \in Workers : BrokerStep(w)
        <4>1. PICK w \in Workers : BrokerStep(w)
          BY <3>4
        <4>2. /\ broker[w].pc # "done"
              /\ Finish(w) \/ \E pc \in {"sched", "armed"} : Goto(w, pc)
          BY <1>2, <4>1 DEF BrokerStep, FindSettled, DropLateSubmit, RefuseToken, ConsumeToken,
                            RejectEvent, RollBackBroker, ScheduleSupervision, Locks
        <4> QED
          BY <3>3, <4>2
      <3> QED
        BY <1>0, <3>1, <3>2, <3>4
           DEF Next, vars, ctlVars, CommitPreparation, CancelRun, RollbackRun, ObserveJob,
               ObservationFails, QueueAction, RestartSupervision, JobStep, AbortBroker
    <2>3. DoneAt(e, k)' <=> DoneAt(e, k)
      BY <2>2 DEF DoneAt
    <2> QED
      BY <2>1, <2>3 DEF Kept, Carried
  <1> QED
    BY <1>1, <1>2

\* The call moves its worker on and nobody else.
LEMMA CallMoves ==
    ASSUME IInv, NEW w \in Workers, CallPlane(w)
    PROVE  /\ broker[w].pc = "armed"
           /\ \E pc \in {"done", "error", "raised"} : Goto(w, pc)
           /\ \A v \in Workers : broker[v].pc = "done" => broker'[v] = broker[v]
  <1>1. \E pc \in {"done", "error", "raised"} : Goto(w, pc)
    BY DEF CallPlane, CallSubmit, CallCancel, CallCleanup, CallSwap, CallRollback, NoShadow,
           NoCredentials
  <1>2. broker[w].pc = "armed"
    BY DEF CallPlane
  <1> QED
    BY <1>1, <1>2, GotoFacts DEF IInv, TypeOK, BrokerPC

\* A rollback is asked for in the step that queues it.
LEMMA RollbackStaysAsked ==
    ASSUME CalmInv, [Next]_vars
    PROVE  RollbackAsked'
  <1> SUFFICES ASSUME NEW e \in Execs, NEW n \in 1..MaxAttempts,
                      outbox'[<<e, "rollback", n>>] # "absent"
               PROVE  run'[e].rollback # "NOT_REQUESTED"
    BY DEF RollbackAsked
  <1> DEFINE ev == <<e, "rollback", n>>
  <1>0. IInv /\ TypeOK /\ RollbackAsked /\ ev \in EventId
    BY EventIdFacts DEF CalmInv, RowInv, IInv, Kinds
  <1>1. CASE outbox[ev] # "absent"
    BY <1>0, <1>1, NothingForgotten DEF RollbackAsked
  <1>2. CASE outbox[ev] = "absent"
    <2> USE EventIdFacts, BoundsAssumption
    <2>0. outbox'[ev] # outbox[ev]
      BY <1>2
    <2>9. \A f \in Execs, k \in Kinds \ {"rollback"}, m \in 1..MaxAttempts : ~Enqueue(<<f, k, m>>)
      BY <1>0, <2>0, EnqueueOnlyItsKind DEF Kinds
    <2>8. \A f \in Execs, k \in {"cancel", "swap", "cleanup"}, m \in 1..MaxAttempts :
              ~Enqueue(<<f, k, m>>)
      BY <2>9 DEF Kinds
    <2>1. CASE \E f \in Execs : CommitPreparation(f)
      BY <1>0, <2>0, <2>1 DEF CommitPreparation, Enqueue, TypeOK, Kinds
    <2>2. CASE \E f \in Execs : CancelRun(f)
      <3>1. PICK f \in Execs : QueueIfNone(f, "cancel")
        BY <2>2 DEF CancelRun
      <3> QED
        BY <2>0, <2>8, <3>1 DEF QueueIfNone
    <2>3. CASE \E f \in Execs : RollbackRun(f)
      <3>1. PICK f \in Execs : /\ QueueIfNone(f, "rollback")
                               /\ run' = [run EXCEPT ![f].rollback = "REQUESTED"]
        BY <2>3 DEF RollbackRun
      <3>2. PICK m \in 1..MaxAttempts : outbox' = [outbox EXCEPT ![<<f, "rollback", m>>] = "PENDING"]
        BY <2>0, <3>1 DEF QueueIfNone, Enqueue
      <3>3. ev = <<f, "rollback", m>>
        BY <1>0, <2>0, <3>2 DEF TypeOK
      <3>4. e = f
        BY <3>3
      <3> QED
        BY <1>0, <3>1, <3>4 DEF TypeOK, Run
    <2>4. CASE \E f \in Execs : QueueAction(f)
      <3>1. PICK f \in Execs : QueueFollowUp(f, FollowUpKind(run[f]))
        BY <2>4 DEF QueueAction
      <3>2. FollowUpKind(run[f]) \in {"none", "cancel", "swap", "cleanup"}
        BY DEF FollowUpKind
      <3> QED
        BY <2>0, <2>8, <3>1, <3>2 DEF QueueFollowUp
    <2>5. CASE \E w \in Workers : \/ DropLateSubmit(w) \/ RefuseToken(w) \/ RejectEvent(w)
                                   \/ ConfirmEvent(w)
      <3>1. PICK x \in EventId, s \in {"PUBLISHED", "FAILED"} :
                outbox[x] = "PENDING" /\ outbox' = [outbox EXCEPT ![x] = s]
        <4>1. PICK w \in Workers : \/ DropLateSubmit(w) \/ RefuseToken(w) \/ RejectEvent(w)
                                   \/ ConfirmEvent(w)
          BY <2>5
        <4>2. CASE DropLateSubmit(w)
          BY <4>2 DEF DropLateSubmit, Settle
        <4>3. CASE RefuseToken(w)
          BY <4>3 DEF RefuseToken, FailEvent, Settle
        <4>4. CASE RejectEvent(w)
          BY <1>0, <4>4, HolderFacts DEF RejectEvent, FailEvent, Settle, Holding
        <4>5. CASE ConfirmEvent(w)
          BY <1>0, <4>5, HolderFacts DEF ConfirmEvent, Settle, Holding
        <4> QED
          BY <4>1, <4>2, <4>3, <4>4, <4>5
      <3> QED
        BY <1>0, <1>2, <2>0, <3>1 DEF TypeOK
    <2>6. CASE outbox' = outbox
      BY <2>0, <2>6
    <2> QED
      BY <2>1, <2>2, <2>3, <2>4, <2>5, <2>6
         DEF Next, vars, ctlVars, ObserveJob, ObservationFails, RestartSupervision, JobStep,
             BrokerStep, AbortBroker, BeatPick, TaskPick, FindSettled, ConsumeToken, CallPlane,
             RollBackBroker, ScheduleSupervision
  <1> QED
    BY <1>1, <1>2

\* A job is accepted by the call that carries its submit event out.
LEMMA JobsStayCarried ==
    ASSUME CalmInv, [Next]_vars, faults' = 0
    PROVE  JobsCarried'
  <1>0. faults = 0 /\ JobsCarried /\ IInv /\ TypeOK /\ ~Fault /\ "submit" \in Kinds
    BY NothingForgotten DEF CalmInv, RowInv, IInv, TypeOK, Fault, Kinds
  <1> SUFFICES ASSUME NEW e \in Execs, submits'[e] > 0
               PROVE  Carried(e, "submit")'
    BY DEF JobsCarried
  <1>1. CASE ~\E w \in Workers : CallPlane(w)
    <2>1. UNCHANGED submits
      BY <1>1
         DEF Next, vars, planeVars, CommitPreparation, CancelRun, RollbackRun, ObserveJob,
             ObservationFails, QueueAction, RestartSupervision, JobStep, EngineStep, BrokerStep,
             AbortBroker, BeatPick, TaskPick, FindSettled, DropLateSubmit, RefuseToken,
             ConsumeToken, ConfirmEvent, RejectEvent, RollBackBroker, ScheduleSupervision
    <2> QED
      BY <1>0, <1>1, <2>1, CarriedKept DEF JobsCarried
  <1>2. CASE \E w \in Workers : CallPlane(w)
    <2>1. PICK w \in Workers : CallPlane(w)
      BY <1>2
    <2> DEFINE f == ExecOf(broker[w].ev)
               k == KindOf(broker[w].ev)
    <2>2. /\ broker[w].pc = "armed" /\ broker[w].ev \in EventId /\ f \in Execs
          /\ \E n \in 1..MaxAttempts : broker[w].ev = <<f, k, n>>
      BY <1>0, <2>1, HolderFacts, EventIdFacts DEF CallPlane, Holding
    <2>3. CASE AcceptJob(f) /\ k = "submit" /\ Goto(w, "done")
      <3>1. broker'[w].pc = "done" /\ broker'[w].ev = broker[w].ev
            /\ \A v \in Workers : broker[v].pc = "done" => broker'[v] = broker[v]
        BY <1>0, <2>2, <2>3, GotoFacts DEF TypeOK, BrokerPC
      <3>2. CASE e = f
        BY <2>2, <2>3, <3>1, <3>2 DEF Carried, DoneAt
      <3>3. CASE e # f
        <4>1. submits'[e] = submits[e]
          BY <1>0, <2>2, <2>3, <3>3 DEF AcceptJob, TypeOK, PlaneTypeOK
        <4>2. Carried(e, "submit") /\ UNCHANGED outbox
          BY <1>0, <2>1, <4>1 DEF JobsCarried, CallPlane
        <4> QED
          BY <3>1, <4>2 DEF Carried, DoneAt, Published
      <3> QED
        BY <3>2, <3>3
    <2>4. CASE UNCHANGED submits
      <3>1. Carried(e, "submit") /\ UNCHANGED outbox
        BY <1>0, <2>1, <2>4 DEF JobsCarried, CallPlane
      <3>2. \A v \in Workers : broker[v].pc = "done" => broker'[v] = broker[v]
        BY <1>0, <2>1, CallMoves DEF BrokerPC
      <3> QED
        BY <3>1, <3>2 DEF Carried, DoneAt, Published
    <2>5. \/ AcceptJob(f) /\ k = "submit" /\ Goto(w, "done")
          \/ UNCHANGED submits
      BY <1>0, <2>1
         DEF CallPlane, CallSubmit, SubmitAccepted, SubmitRejected, SubmitReplyLost, SubmitBroken,
             CallCancel, StopJob, CallCleanup, DropShadow, NoCredentials, CallSwap, Exchange,
             NoShadow, CallRollback, ExchangeAndDrop, planeVars
    <2> QED
      BY <2>3, <2>4, <2>5
  <1> QED
    BY <1>1, <1>2

\* The one call that carries the swap of a run out finds its rows in the
\* shadow table, and no other call moves them.
LEMMA RowsStayInPlace ==
    ASSUME CalmInv, [Next]_vars, faults' = 0
    PROVE  RowsInPlace'
  <1>0. /\ faults = 0 /\ RowsInPlace /\ RollbackAsked /\ RowInv /\ IInv /\ TypeOK
        /\ PlaneTypeOK /\ ~Fault
    BY NothingForgotten DEF CalmInv, RowInv, IInv, TypeOK, Fault
  <1> SUFFICES ASSUME NEW e \in Execs, Undisturbed(e)'
               PROVE  /\ Carried(e, "swap")' => target' = e
                      /\ ~Carried(e, "swap")' /\ engine'[e] = "SUCCEEDED"
                            => shadow'[e] \in {e, "absent"}
    BY DEF RowsInPlace
  <1>1. {"submit", "cancel", "cleanup", "swap", "rollback"} \subseteq Kinds
    BY DEF Kinds
  <1>2. Undisturbed(e)
    <2>1. run[e].rollback = "NOT_REQUESTED"
      BY NothingForgotten DEF Undisturbed
    <2>2. Alone(e)
      <3> SUFFICES ASSUME NEW f \in Execs \ {e}, NEW n \in 1..MaxAttempts
                   PROVE  /\ outbox[<<f, "swap", n>>] = "absent"
                          /\ outbox[<<f, "rollback", n>>] = "absent"
        BY DEF Alone
      <3>1. <<f, "swap", n>> \in EventId /\ <<f, "rollback", n>> \in EventId
        BY <1>1, EventIdFacts
      <3>2. /\ outbox'[<<f, "swap", n>>] = "absent"
            /\ outbox'[<<f, "rollback", n>>] = "absent"
        BY DEF Undisturbed, Alone
      <3> QED
        BY <3>1, <3>2, NothingForgotten
    <2> QED
      BY <2>1, <2>2 DEF Undisturbed
  <1>3. /\ Carried(e, "swap") => target = e
        /\ ~Carried(e, "swap") /\ engine[e] = "SUCCEEDED" => shadow[e] \in {e, "absent"}
    BY <1>0, <1>2 DEF RowsInPlace
  <1>4. CASE ~\E w \in Workers : CallPlane(w)
    <2>1. Carried(e, "swap")' <=> Carried(e, "swap")
      BY <1>0, <1>1, <1>4, CarriedKept
    <2>2. \/ UNCHANGED planeVars
          \/ \E f \in Execs : JobStep(f)
      BY <1>4
         DEF Next, vars, CommitPreparation, CancelRun, RollbackRun, ObserveJob, ObservationFails,
             QueueAction, RestartSupervision, BrokerStep, AbortBroker, BeatPick, TaskPick,
             FindSettled, DropLateSubmit, RefuseToken, ConsumeToken, ConfirmEvent, RejectEvent,
             RollBackBroker, ScheduleSupervision
    <2>3. /\ target' = target
          /\ engine'[e] = "SUCCEEDED" =>
                 \/ shadow'[e] = e
                 \/ engine[e] = "SUCCEEDED" /\ shadow'[e] = shadow[e]
      BY <1>0, <2>2 DEF planeVars, JobStep, EngineStep, PlaneTypeOK
    <2> QED
      BY <1>3, <2>1, <2>3
  <1>5. CASE \E w \in Workers : CallPlane(w)
    <2>1. PICK w \in Workers : CallPlane(w)
      BY <1>5
    <2> DEFINE ev == broker[w].ev
               f == ExecOf(ev)
               k == KindOf(ev)
    <2>2. /\ broker[w].pc = "armed" /\ ev \in EventId /\ f \in Execs
          /\ \E n \in 1..MaxAttempts : ev = <<f, k, n>>
      BY <1>0, <2>1, HolderFacts, EventIdFacts DEF CallPlane, Holding
    <2>3. outbox[ev] = "PENDING" /\ UNCHANGED outbox
      BY <1>0, <2>1, <2>2 DEF IInv, HeldIsPending, Holding, CallPlane
    <2>4. /\ \E pc \in {"done", "error", "raised"} : Goto(w, pc)
          /\ \A v \in Workers : broker[v].pc = "done" => broker'[v] = broker[v]
      BY <1>0, <2>1, CallMoves
    <2>5. /\ broker'[w].ev = ev
          /\ \A v \in Workers \ {w} : broker'[v] = broker[v]
      BY <1>0, <2>4, GotoFacts DEF TypeOK, BrokerPC
    <2> HIDE DEF ev, f, k
    <2>6. k \in {"swap", "rollback"} => f = e
      BY <1>2, <2>2, <2>3 DEF Undisturbed, Alone
    <2>7. k # "rollback"
      BY <1>0, <1>2, <2>2, <2>3, <2>6 DEF Undisturbed, RollbackAsked
    <2>8. broker'[w].pc # "done" \/ k # "swap" => (Carried(e, "swap")' <=> Carried(e, "swap"))
      <3>1. \A n \in 1..MaxAttempts : ev = <<e, "swap", n>> => k = "swap"
        BY <1>1, EventIdFacts DEF k
      <3> QED
        BY <2>2, <2>3, <2>4, <2>5, <3>1 DEF Carried, Published, DoneAt, ev
    <2>9. \/ k = "submit" /\ SubmitAccepted(f)
          \/ k = "cancel" /\ (UNCHANGED planeVars \/ StopJob(f))
          \/ k = "cleanup" /\ DropShadow(f)
          \/ k = "swap" /\ Exchange(f) /\ Goto(w, "done")
          \/ k = "swap" /\ UNCHANGED planeVars /\ Goto(w, "raised")
      BY <1>0, <2>1, <2>7
         DEF CallPlane, CallSubmit, CallCancel, CallCleanup, NoCredentials, CallSwap, NoShadow,
             ev, f, k
    <2>10. CASE k = "submit" /\ SubmitAccepted(f)
      <3>1. submits[f] = 0
        BY <1>0, <2>2, <2>10, EventIdFacts
           DEF IInv, NoJobYet, OneSubmitEvent, HeldIsPending, Holding, ev
      <3>2. engine'[f] = "RUNNING"
        BY <1>0, <2>2, <2>10 DEF SubmitAccepted, AcceptJob, PlaneTypeOK
      <3>3. target' = target /\ (e # f => engine'[e] = engine[e] /\ shadow'[e] = shadow[e])
        BY <1>0, <2>10 DEF SubmitAccepted, AcceptJob, PlaneTypeOK
      <3> QED
        BY <1>3, <2>8, <2>10, <3>2, <3>3
    <2>11. CASE k = "cancel" /\ (UNCHANGED planeVars \/ StopJob(f))
      <3>1. /\ target' = target /\ shadow' = shadow
            /\ engine'[e] = "SUCCEEDED" => engine[e] = "SUCCEEDED"
        BY <1>0, <2>11 DEF StopJob, planeVars, PlaneTypeOK
      <3> QED
        BY <1>3, <2>8, <2>11, <3>1
    <2>12. CASE k = "cleanup" /\ DropShadow(f)
      <3>1. target' = target /\ engine' = engine /\ shadow'[e] \in {shadow[e], "absent"}
        BY <1>0, <2>12 DEF DropShadow, PlaneTypeOK
      <3> QED
        BY <1>3, <2>8, <2>12, <3>1
    <2>13. CASE k = "swap" /\ Exchange(f) /\ Goto(w, "done")
      <3>1. f = e /\ \E n \in 1..MaxAttempts : ev = <<e, "swap", n>>
        BY <2>2, <2>6, <2>13
      <3>2. ~Published(e, "swap")
        <4> SUFFICES ASSUME NEW m \in 1..MaxAttempts, outbox[<<e, "swap", m>>] = "PUBLISHED"
                     PROVE  FALSE
          BY DEF Published
        <4>1. PICK n \in 1..MaxAttempts : ev = <<e, "swap", n>>
          BY <3>1
        <4> QED
          BY <1>0, <1>1, <2>3, <4>1 DEF IInv, OneLiveEvent
      <3>3. ~DoneAt(e, "swap")
        <4> SUFFICES ASSUME NEW v \in Workers, NEW m \in 1..MaxAttempts,
                            broker[v].pc = "done", broker[v].ev = <<e, "swap", m>>
                     PROVE  FALSE
          BY DEF DoneAt
        <4>1. Holds(v, e) /\ Holds(w, e)
          BY <1>1, <2>2, <3>1, EventIdFacts, NoEventAssumption DEF Holds, Works, Holding, ev, f
        <4> QED
          BY <1>0, <2>2, <4>1 DEF IInv, LockExclusive
      <3>4. engine[e] = "SUCCEEDED"
        BY <1>0, <2>3, <3>1 DEF RowInv, SwapNeedsVerdict
      <3>5. target' = e
        BY <1>3, <2>13, <3>1, <3>2, <3>3, <3>4 DEF Exchange, Carried
      <3>6. Carried(e, "swap")'
        <4>1. broker'[w].pc = "done"
          BY <1>0, <2>13, GotoFacts DEF TypeOK, BrokerPC
        <4> QED
          BY <2>5, <3>1, <4>1 DEF Carried, DoneAt
      <3> QED
        BY <3>5, <3>6
    <2>14. CASE k = "swap" /\ UNCHANGED planeVars /\ Goto(w, "raised")
      <3>1. broker'[w].pc # "done"
        BY <1>0, <2>14, GotoFacts DEF TypeOK, BrokerPC
      <3> QED
        BY <1>3, <2>8, <2>14, <3>1 DEF planeVars
    <2> QED
      BY <2>9, <2>10, <2>11, <2>12, <2>13, <2>14
  <1> QED
    BY <1>4, <1>5

LEMMA CalmInvariance == Spec => []CalmInv
  <1>1. Init => CalmInv
    <2> SUFFICES ASSUME Init PROVE CalmInv
      OBVIOUS
    <2>1. RowInv
      BY InitRowInv
    <2>2. /\ \A e \in Execs : submits[e] = 0 /\ engine[e] = "none"
          /\ \A e \in Execs, k \in Kinds, n \in 1..MaxAttempts : outbox[<<e, k, n>>] = "absent"
          /\ \A w \in Workers : broker[w].pc = "idle"
      BY EventIdFacts DEF Init, PlaneInit, Idle
    <2>3. \A e \in Execs, k \in Kinds : ~Carried(e, k)
      BY <2>2 DEF Carried, Published, DoneAt
    <2> QED
      BY <2>1, <2>2, <2>3 DEF CalmInv, RollbackAsked, JobsCarried, RowsInPlace, Kinds
  <1>2. CalmInv /\ [Next]_vars => CalmInv'
    <2> SUFFICES ASSUME CalmInv, [Next]_vars PROVE CalmInv'
      OBVIOUS
    <2>1. RowInv'
      BY NextRowInv DEF CalmInv
    <2> QED
      BY <2>1, RollbackStaysAsked, JobsStayCarried, RowsStayInPlace DEF CalmInv
  <1> QED
    BY <1>1, <1>2, PTL DEF Spec

\* Without a fault, a job that SeaTunnel runs and no worker is at is known to
\* its run.
THEOREM NoOrphanJobHolds == Spec => []NoOrphanJob
  <1>1. CalmInv => NoOrphanJob
    <2> SUFFICES ASSUME CalmInv, faults = 0, NEW e \in Execs, engine[e] = "RUNNING", ~InFlight(e)
                 PROVE  run[e].job
      BY DEF NoOrphanJob
    <2>1. RowInv /\ TypeOK /\ PlaneTypeOK /\ JobsCarried
      BY DEF CalmInv, RowInv, IInv, TypeOK
    <2>2. submits[e] > 0
      BY <2>1 DEF RowInv, SwapLate, PlaneTypeOK
    <2>3. ~DoneAt(e, "submit")
      <3> SUFFICES ASSUME NEW w \in Workers, NEW n \in 1..MaxAttempts,
                          broker[w].pc = "done", broker[w].ev = <<e, "submit", n>>
                   PROVE  FALSE
        BY DEF DoneAt
      <3>1. broker[w].ev \in EventId /\ ExecOf(broker[w].ev) = e
        BY EventIdFacts DEF Kinds
      <3> QED
        BY <3>1, NoEventAssumption DEF InFlight, Works
    <2>4. Published(e, "submit")
      BY <2>1, <2>2, <2>3 DEF JobsCarried, Carried
    <2> QED
      BY <2>1, <2>4 DEF RowInv, RunMatchesOutbox
  <1> QED
    BY <1>1, CalmInvariance, PTL

\* Without a fault, the target holds the rows of a run that says published,
\* as long as no other run was asked to exchange the tables.
THEOREM RacePublishesOnceHolds == Spec => []RacePublishesOnce
  <1>1. CalmInv => RacePublishesOnce
    <2> SUFFICES ASSUME CalmInv, faults = 0, NEW e \in Execs, run[e].publish = "PUBLISHED",
                        run[e].rollback = "NOT_REQUESTED", Alone(e)
                 PROVE  target = e
      BY DEF RacePublishesOnce, PublishedIsLive
    <2> QED
      BY DEF CalmInv, RowInv, RunMatchesOutbox, RowsInPlace, Undisturbed, Carried
  <1> QED
    BY <1>1, CalmInvariance, PTL

=============================================================================

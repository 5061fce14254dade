--------------------------- MODULE Refinement_proofs ---------------------------
(***************************************************************************)
(* ExecutionLifecycle implements OutboxPromise: its initial states map to  *)
(* initial states, and each of its steps to a step or to a stutter.  The   *)
(* mapping is needed in states with IInv only, and where a token that was  *)
(* spent belongs to an event that was queued.                              *)
(***************************************************************************)
EXTENDS ExecutionLifecycle_proofs

SpentIsKnown == \A ev \in EventId : ev \in spent => outbox[ev] # "absent"

RInv == IInv /\ SpentIsKnown

Called == {"done", "error", "raised"}

-----------------------------------------------------------------------------
(***************************************************************************)
(* The second part of the invariant                                        *)
(***************************************************************************)

\* No event ceases to exist.
LEMMA KnownStays ==
    ASSUME IInv, [Next]_vars, NEW ev \in EventId, outbox[ev] # "absent"
    PROVE  outbox'[ev] # "absent"
  <1> USE DEF IInv, TypeOK
  <1>1. \/ UNCHANGED outbox
        \/ \E x \in EventId : outbox[x] = "absent" /\ Enqueue(x)
        \/ \E x \in EventId, s \in {"PUBLISHED", "FAILED"} : Settle(x, s)
    <2>1. ASSUME NEW e \in Execs, CommitPreparation(e)
          PROVE  \E x \in EventId : outbox[x] = "absent" /\ Enqueue(x)
      <3>1. <<e, "submit", 1>> \in EventId /\ outbox[<<e, "submit", 1>>] = "absent"
        BY <2>1, BoundsAssumption, EventIdFacts
           DEF CommitPreparation, NothingBeforeRun, Kinds
      <3> QED
        BY <2>1, <3>1 DEF CommitPreparation
    <2>2. ASSUME NEW e \in Execs, CancelRun(e) \/ RollbackRun(e) \/ QueueAction(e)
          PROVE  UNCHANGED outbox \/ \E x \in EventId : outbox[x] = "absent" /\ Enqueue(x)
      BY <2>2, EventIdFacts
         DEF CancelRun, RollbackRun, QueueAction, QueueIfNone, QueueFollowUp, FollowUpKind,
             IsNext, Kinds
    <2>3. ASSUME NEW e \in Execs, \/ ObserveJob(e) \/ ObservationFails(e)
                                  \/ RestartSupervision(e) \/ JobStep(e)
          PROVE  UNCHANGED outbox
      BY <2>3 DEF ObserveJob, ObservationFails, RestartSupervision, JobStep, ctlVars
    <2>4. ASSUME NEW w \in Workers, \/ FindSettled(w) \/ ConsumeToken(w) \/ CallPlane(w)
                                    \/ RollBackBroker(w) \/ ScheduleSupervision(w)
                                    \/ AbortBroker(w)
          PROVE  UNCHANGED outbox
      BY <2>4 DEF FindSettled, ConsumeToken, CallPlane, RollBackBroker, ScheduleSupervision,
                  AbortBroker
    <2>5. ASSUME NEW w \in Workers, \/ DropLateSubmit(w) \/ RefuseToken(w)
                                    \/ ConfirmEvent(w) \/ RejectEvent(w)
          PROVE  \E x \in EventId, s \in {"PUBLISHED", "FAILED"} : Settle(x, s)
      BY <2>5 DEF DropLateSubmit, RefuseToken, ConfirmEvent, RejectEvent, FailEvent
    <2>6. ASSUME NEW w \in Workers, NEW x \in EventId, BeatPick(w, x) \/ TaskPick(w, x)
          PROVE  UNCHANGED outbox
      BY <2>6 DEF BeatPick, TaskPick
    <2>7. CASE UNCHANGED vars
      BY <2>7 DEF vars, ctlVars
    <2> QED
      BY <2>1, <2>2, <2>3, <2>4, <2>5, <2>6, <2>7 DEF Next, BrokerStep
  <1> QED
    BY <1>1 DEF Enqueue, Settle

\* A token is spent by a worker that has read its event.
LEMMA SpentFacts ==
    ASSUME [Next]_vars
    PROVE  \/ UNCHANGED spent
           \/ \E x \in EventId : outbox[x] = "PENDING" /\ spent' = spent \cup {x}
  <1>1. CASE \E w \in Workers : ConsumeToken(w)
    BY <1>1 DEF ConsumeToken
  <1>2. CASE ~\E w \in Workers : ConsumeToken(w)
    BY <1>2 DEF Next, vars, ctlVars, CommitPreparation, CancelRun, RollbackRun, ObserveJob,
                ObservationFails, QueueAction, RestartSupervision, JobStep, BrokerStep,
                AbortBroker, BeatPick, TaskPick, FindSettled, DropLateSubmit, RefuseToken,
                CallPlane, ConfirmEvent, RejectEvent, RollBackBroker, ScheduleSupervision
  <1> QED
    BY <1>1, <1>2

\* The invariant of the refinement.
LEMMA RefinementInvariance == Spec => []RInv
  <1>1. Init => SpentIsKnown
    BY DEF Init, SpentIsKnown
  <1>2. SpentIsKnown /\ IInv /\ [Next]_vars => SpentIsKnown'
    <2> SUFFICES ASSUME SpentIsKnown, IInv, [Next]_vars, NEW ev \in EventId, ev \in spent'
                 PROVE  outbox'[ev] # "absent"
      BY DEF SpentIsKnown
    <2>1. ev \in spent \/ outbox[ev] = "PENDING"
      BY SpentFacts
    <2>2. outbox[ev] # "absent"
      BY <2>1 DEF SpentIsKnown
    <2> QED
      BY <2>2, KnownStays
  <1> QED
    BY <1>1, <1>2, Invariance, PTL DEF Spec, RInv

-----------------------------------------------------------------------------
(***************************************************************************)
(* The stages                                                              *)
(***************************************************************************)

\* What the abstract state is, of each step.
Stages == [ev \in EventId |-> Stage(ev)]

\* The stage of a pending event.
LEMMA PendingStage ==
    ASSUME NEW ev \in EventId, outbox[ev] = "PENDING"
    PROVE  /\ At(ev, {"armed"}) => Stage(ev) = "armed"
           /\ ~At(ev, {"armed"}) /\ At(ev, Called) => Stage(ev) = "called"
           /\ ~At(ev, Holding) /\ ev \in spent => Stage(ev) = "lost"
           /\ ~At(ev, Holding) /\ ev \notin spent => Stage(ev) = "queued"
  BY DEF Stage, At, Holding, Called

\* A stage depends on the row, the token and the workers inside a transaction.
LEMMA SameStage ==
    ASSUME NEW ev \in EventId, outbox'[ev] = outbox[ev], ev \in spent' <=> ev \in spent,
           At(ev, {"armed"})' <=> At(ev, {"armed"}), At(ev, Called)' <=> At(ev, Called)
    PROVE  Stage(ev)' = Stage(ev)
  <1>1. At(ev, {"done", "error", "raised"}) = At(ev, Called)
    BY DEF Called
  <1> QED
    BY <1>1 DEF Stage, Called

\* The event of a worker inside its transaction.
LEMMA HolderStage ==
    ASSUME RInv, NEW w \in Workers, broker[w].pc \in Holding
    PROVE  /\ broker[w].pc = "armed" => Stage(broker[w].ev) = "armed"
           /\ broker[w].pc \in Called => Stage(broker[w].ev) = "called"
           /\ \A v \in Workers \ {w} : broker[v].pc \in Holding =>
                  broker[v].ev # broker[w].ev
  <1> DEFINE ev == broker[w].ev
  <1>1. ev \in EventId /\ outbox[ev] = "PENDING" /\ ev \in spent
    BY HolderFacts DEF RInv
  <1>2. \A v \in Workers \ {w} : broker[v].pc \in Holding => broker[v].ev # ev
    <2>1. \A v \in Workers \ {w} : ~Holds(v, ExecOf(ev))
      BY HolderFacts DEF RInv
    <2>2. ev # NoEvent
      BY <1>1, NoEventAssumption
    <2> QED
      BY <2>1, <2>2 DEF Holds, Works
  <1>3. broker[w].pc \in Called => At(ev, Called) /\ ~At(ev, {"armed"})
    BY <1>2 DEF At, Called, Holding
  <1>4. broker[w].pc = "armed" => At(ev, {"armed"})
    BY DEF At
  <1> QED
    BY <1>1, <1>2, <1>3, <1>4, PendingStage

\* An event whose execution nobody has locked.
LEMMA UnheldStage ==
    ASSUME RInv, NEW ev \in EventId, Unlocked(ExecOf(ev))
    PROVE  /\ ~At(ev, Holding)
           /\ outbox[ev] = "PENDING" =>
                  Stage(ev) = IF ev \in spent THEN "lost" ELSE "queued"
  <1>1. ~At(ev, Holding)
    BY NoEventAssumption DEF At, Unlocked, Holds, Works
  <1> QED
    BY <1>1, PendingStage

-----------------------------------------------------------------------------
(***************************************************************************)
(* Each kind of step                                                       *)
(***************************************************************************)

\* Nothing the stages depend on.
LEMMA Stutters ==
    ASSUME UNCHANGED <<outbox, spent, submits, target>>,
           \A w \in Workers : \/ broker'[w] = broker[w]
                              \/ broker[w].pc \notin Holding /\ broker'[w].pc \notin Holding
    PROVE  UNCHANGED <<Stages, submits, target>>
  <1>1. ASSUME NEW ev \in EventId PROVE Stage(ev)' = Stage(ev)
    <2>1. At(ev, {"armed"})' <=> At(ev, {"armed"})
      BY DEF At, Holding
    <2>2. At(ev, Called)' <=> At(ev, Called)
      BY DEF At, Holding, Called
    <2> QED
      BY <2>1, <2>2, SameStage
  <1> QED
    BY <1>1 DEF Stages

\* An event is queued.
LEMMA Queues ==
    ASSUME RInv, NEW e \in Execs, NEW k \in Kinds, NEW n \in 1..MaxAttempts,
           ~Live(e, k), outbox[<<e, k, n>>] = "absent", Enqueue(<<e, k, n>>),
           UNCHANGED <<spent, broker, submits, target>>
    PROVE  Promise!Next
  <1> DEFINE ev == <<e, k, n>>
  <1> USE EventIdFacts DEF RInv, IInv, TypeOK
  <1>1. ev \in EventId /\ Stage(ev) = "none"
    BY DEF Stage
  <1>2. Stage(ev)' = "queued"
    <2>1. ev \notin spent /\ outbox'[ev] = "PENDING"
      BY <1>1 DEF SpentIsKnown, Enqueue
    <2>2. ~At(ev, Holding)
      BY DEF At, HeldIsPending
    <2>3. ~At(ev, Holding)'
      BY <2>2 DEF At
    <2> QED
      BY <2>1, <2>3 DEF Stage, At, Holding
  <1>3. \A x \in EventId \ {ev} : Stage(x)' = Stage(x)
    <2>1. \A x \in EventId \ {ev} : outbox'[x] = outbox[x]
      BY <1>1 DEF Enqueue
    <2>2. \A x \in EventId \ {ev} : /\ At(x, {"armed"})' <=> At(x, {"armed"})
                                    /\ At(x, Called)' <=> At(x, Called)
      BY DEF At
    <2> QED
      BY <2>1, <2>2, SameStage
  <1>4. \A x \in EventId : x # ev /\ x[1] = ev[1] /\ x[2] = ev[2] =>
            Stage(x) \in {"none", "failed"}
    <2> SUFFICES ASSUME NEW x \in EventId, x[1] = e, x[2] = k
                 PROVE  Stage(x) \in {"none", "failed"}
      OBVIOUS
    <2>1. PICK m \in 1..MaxAttempts : x = <<e, k, m>>
      BY DEF ExecOf, KindOf
    <2>2. outbox[x] \notin {"PENDING", "PUBLISHED"} /\ outbox[x] \in EventStatus
      BY <2>1 DEF Live
    <2> QED
      BY <2>2 DEF Stage, EventStatus
  <1>5. Stages' = [Stages EXCEPT ![ev] = "queued"]
    BY <1>1, <1>2, <1>3 DEF Stages
  <1> QED
    BY <1>1, <1>4, <1>5
       DEF Promise!Next, Promise!Queue, Promise!Move, Promise!SameKind, Promise!Others,
           Promise!Event, EventId, Stages

\* The only worker that can be inside a transaction of ev's changes the stage of ev,
\* and of no other event.
LEMMA OneMoves ==
    ASSUME NEW w \in Workers, NEW ev \in EventId, NEW s,
           broker[w].ev = ev,
           broker'[w].ev = ev \/ broker'[w].pc \notin Holding,
           \A v \in Workers \ {w} : broker'[v] = broker[v],
           \A x \in EventId \ {ev} : outbox'[x] = outbox[x] /\ (x \in spent' <=> x \in spent),
           Stage(ev)' = s
    PROVE  Stages' = [Stages EXCEPT ![ev] = s]
  <1>1. ASSUME NEW x \in EventId \ {ev} PROVE Stage(x)' = Stage(x)
    <2>1. At(x, {"armed"})' <=> At(x, {"armed"})
      BY DEF At, Holding
    <2>2. At(x, Called)' <=> At(x, Called)
      BY DEF At, Holding, Called
    <2> QED
      BY <2>1, <2>2, SameStage
  <1> QED
    BY <1>1 DEF Stages

\* Only the call of an event touches the jobs and the live table.
LEMMA PlaneIsCalled ==
    ASSUME [Next]_vars
    PROVE  \/ \E w \in Workers : CallPlane(w)
           \/ UNCHANGED <<submits, target>>
  BY DEF Next, vars, ctlVars, planeVars, CommitPreparation, CancelRun, RollbackRun, ObserveJob,
         ObservationFails, QueueAction, RestartSupervision, JobStep, EngineStep, BrokerStep,
         AbortBroker, BeatPick, TaskPick, FindSettled, DropLateSubmit, RefuseToken, ConsumeToken,
         ConfirmEvent, RejectEvent, RollBackBroker, ScheduleSupervision

\* An event in some stage moves to another one, and nothing else happens.
LEMMA Moves ==
    ASSUME NEW ev \in EventId, NEW s, Stages' = [Stages EXCEPT ![ev] = s],
           UNCHANGED <<submits, target>>,
           \/ Stage(ev) \in {"armed", "called"} /\ s = "lost"
           \/ Stage(ev) = "called" /\ s = "published"
           \/ Stage(ev) \in {"queued", "called", "lost"} /\ s = "failed"
    PROVE  Promise!Next
  <1>1. Stages[ev] = Stage(ev) /\ ev \in Promise!Event
    BY DEF Stages, Promise!Event, EventId
  <1> QED
    BY <1>1 DEF Stages, Promise!Next, Promise!Lose, Promise!Publish, Promise!Fail, Promise!Move

\* A worker settles the event that it refuses.
LEMMA RefusalMoves ==
    ASSUME RInv, [Next]_vars, NEW w \in Workers, DropLateSubmit(w) \/ RefuseToken(w)
    PROVE  Promise!Next
  <1> USE DEF RInv, IInv, TypeOK
  <1>1. PICK ev \in EventId :
            /\ Locks(w, ev) /\ outbox[ev] = "PENDING"
            /\ outbox' = [outbox EXCEPT ![ev] = "FAILED"]
            /\ broker' = [broker EXCEPT ![w] = Idle]
            /\ UNCHANGED <<planeVars, spent>>
    BY DEF DropLateSubmit, RefuseToken, FailEvent, Settle, Finish
  <1>2. Stage(ev) \in {"queued", "lost"}
    BY <1>1, UnheldStage DEF Locks
  <1>3. Stage(ev)' = "failed"
    BY <1>1 DEF Stage
  <1>4. /\ broker[w].ev = ev /\ broker'[w].pc \notin Holding
        /\ \A v \in Workers \ {w} : broker'[v] = broker[v]
    BY <1>1, FinishFacts DEF Locks, Holding
  <1>5. \A x \in EventId \ {ev} : outbox'[x] = outbox[x] /\ (x \in spent' <=> x \in spent)
    BY <1>1
  <1>6. Stages' = [Stages EXCEPT ![ev] = "failed"]
    BY <1>3, <1>4, <1>5, OneMoves
  <1> QED
    BY <1>1, <1>2, <1>6, Moves DEF planeVars

\* A worker settles the event that it called.
LEMMA SettlementMoves ==
    ASSUME RInv, NEW w \in Workers, ConfirmEvent(w) \/ RejectEvent(w)
    PROVE  Promise!Next
  <1> USE DEF RInv, IInv, TypeOK
  <1>0. PICK ev \in EventId : ev = broker[w].ev
    BY HolderFacts DEF ConfirmEvent, RejectEvent, Holding
  <1>1. PICK s \in {"PUBLISHED", "FAILED"} : outbox' = [outbox EXCEPT ![ev] = s]
    BY <1>0 DEF ConfirmEvent, RejectEvent, FailEvent, Settle
  <1>2. /\ broker[w].pc \in Called /\ broker[w].pc \in Holding
        /\ broker' = [broker EXCEPT ![w] = Idle] \/ Goto(w, "sched")
        /\ UNCHANGED <<planeVars, spent>>
    BY DEF ConfirmEvent, RejectEvent, Finish, Called, Holding
  <1>3. /\ broker'[w].pc \notin Holding
        /\ \A v \in Workers \ {w} : broker'[v] = broker[v]
    BY <1>2, FinishFacts, GotoFacts DEF Holding, BrokerPC
  <1>4. Stage(ev) = "called"
    BY <1>0, <1>2, HolderStage
  <1>5. Stage(ev)' = IF s = "PUBLISHED" THEN "published" ELSE "failed"
    BY <1>1, <1>4 DEF Stage
  <1>6. \A x \in EventId \ {ev} : outbox'[x] = outbox[x] /\ (x \in spent' <=> x \in spent)
    BY <1>1, <1>2
  <1>7. Stages' = [Stages EXCEPT ![ev] = IF s = "PUBLISHED" THEN "published" ELSE "failed"]
    BY <1>0, <1>3, <1>5, <1>6, OneMoves
  <1> QED
    BY <1>2, <1>4, <1>7, Moves DEF planeVars

\* A worker dies or rolls back inside its transaction: the event is pending, and its
\* token is spent.
LEMMA LossMoves ==
    ASSUME RInv, NEW w \in Workers, RollBackBroker(w) \/ AbortBroker(w),
           broker[w].pc \in Holding
    PROVE  Promise!Next
  <1> USE DEF RInv, IInv, TypeOK
  <1>0. PICK ev \in EventId : ev = broker[w].ev
    BY HolderFacts
  <1>1. /\ broker' = [broker EXCEPT ![w] = Idle]
        /\ UNCHANGED <<planeVars, outbox, spent>>
    BY DEF RollBackBroker, AbortBroker, Finish
  <1>2. /\ broker'[w].pc \notin Holding
        /\ \A v \in Workers \ {w} : broker'[v] = broker[v]
    BY <1>1, FinishFacts DEF Holding
  <1>3. Stage(ev) \in {"armed", "called"}
    BY <1>0, HolderStage DEF Holding, Called
  <1>4. outbox[ev] = "PENDING" /\ ev \in spent
    BY <1>0, HolderFacts
  <1>5. Stage(ev)' = "lost"
    <2>1. \A v \in Workers \ {w} : broker[v].pc \in Holding => broker[v].ev # ev
      BY <1>0, HolderStage
    <2>2. ~At(ev, {"armed"})' /\ ~At(ev, {"done", "error", "raised"})'
      BY <1>2, <2>1 DEF At, Holding
    <2> QED
      BY <1>1, <1>4, <2>2 DEF Stage
  <1>6. Stages' = [Stages EXCEPT ![ev] = "lost"]
    BY <1>0, <1>1, <1>2, <1>5, OneMoves
  <1> QED
    BY <1>1, <1>3, <1>6, Moves DEF planeVars

\* The capability is consumed.
LEMMA ConsumptionArms ==
    ASSUME RInv, NEW w \in Workers, ConsumeToken(w)
    PROVE  Promise!Next
  <1> USE DEF RInv, IInv, TypeOK
  <1>1. PICK ev \in EventId :
            /\ Locks(w, ev) /\ outbox[ev] = "PENDING" /\ ev \notin spent
            /\ spent' = spent \cup {ev}
            /\ Goto(w, "armed")
            /\ UNCHANGED <<planeVars, outbox>>
    BY DEF ConsumeToken
  <1>2. /\ broker'[w].pc = "armed" /\ broker'[w].ev = ev /\ broker[w].ev = ev
        /\ \A v \in Workers \ {w} : broker'[v] = broker[v]
    BY <1>1, GotoFacts DEF Locks, BrokerPC
  <1>3. Stage(ev) = "queued"
    BY <1>1, UnheldStage DEF Locks
  <1>4. Stage(ev)' = "armed"
    BY <1>1, <1>2 DEF Stage, At
  <1>5. Stages' = [Stages EXCEPT ![ev] = "armed"]
    BY <1>1, <1>2, <1>4, OneMoves
  <1>6. \A x \in EventId : x # ev /\ x[1] = ev[1] => Stage(x) \notin {"armed", "called"}
    <2> SUFFICES ASSUME NEW x \in EventId, ExecOf(x) = ExecOf(ev)
                 PROVE  Stage(x) \notin {"armed", "called"}
      BY DEF ExecOf
    <2>1. ~At(x, Holding)
      BY <1>1, UnheldStage DEF Locks
    <2>2. ~At(x, {"armed"}) /\ ~At(x, {"done", "error", "raised"})
      BY <2>1 DEF At, Holding
    <2> QED
      BY <2>2 DEF Stage, EventStatus
  <1> QED
    BY <1>1, <1>3, <1>5, <1>6
       DEF Promise!Next, Promise!Arm, Promise!Move, Promise!Others, Promise!Event, EventId,
           Stages, planeVars

\* Only a swap and a rollback exchange the tables.
LEMMA TargetFacts ==
    ASSUME NEW w \in Workers, CallPlane(w)
    PROVE  target' = target \/ KindOf(broker[w].ev) \in {"swap", "rollback"}
  <1> DEFINE e == ExecOf(broker[w].ev)
  <1> USE DEF planeVars
  <1>1. CASE CallSubmit(e, w)
    BY <1>1 DEF CallSubmit, SubmitAccepted, SubmitRejected, SubmitReplyLost, SubmitBroken
  <1>2. CASE CallCancel(e, w)
    BY <1>2 DEF CallCancel, StopJob
  <1>3. CASE CallCleanup(e, w)
    BY <1>3 DEF CallCleanup, DropShadow, NoCredentials
  <1> QED
    BY <1>1, <1>2, <1>3 DEF CallPlane

\* The one call of an event.
LEMMA CallCalls ==
    ASSUME RInv, NEW w \in Workers, CallPlane(w)
    PROVE  Promise!Next
  <1> USE DEF RInv, IInv, TypeOK
  <1>0. PICK ev \in EventId : ev = broker[w].ev
    BY HolderFacts DEF CallPlane, Holding
  <1> DEFINE e == ExecOf(ev)
  <1>1. /\ broker[w].pc = "armed" /\ broker[w].pc \in Holding
        /\ UNCHANGED <<outbox, spent>>
        /\ outbox[ev] = "PENDING" /\ e \in Execs
    BY <1>0, HolderFacts, EventIdFacts DEF CallPlane, Holding
  <1>2. /\ Goto(w, "done") \/ Goto(w, "error") \/ Goto(w, "raised")
        /\ \/ submits' = submits
           \/ KindOf(ev) = "submit" /\ submits' = [submits EXCEPT ![e] = @ + 1]
    BY <1>0, <1>1, CallFacts
  <1>3. /\ broker'[w].pc \in Called /\ broker'[w].ev = ev
        /\ \A v \in Workers \ {w} : broker'[v] = broker[v]
    BY <1>0, <1>2, GotoFacts DEF BrokerPC, Called
  <1>4. Stage(ev) = "armed"
    BY <1>0, <1>1, HolderStage
  <1>5. Stage(ev)' = "called"
    <2>1. \A v \in Workers \ {w} : broker[v].pc \in Holding => broker[v].ev # ev
      BY <1>0, <1>1, HolderStage
    <2>2. ~At(ev, {"armed"})' /\ At(ev, {"done", "error", "raised"})'
      BY <1>3, <2>1 DEF At, Holding, Called
    <2> QED
      BY <1>1, <2>2 DEF Stage
  <1>6. Stages' = [Stages EXCEPT ![ev] = "called"]
    BY <1>0, <1>1, <1>3, <1>5, OneMoves
  <1>7. \/ UNCHANGED <<submits, target>>
        \/ /\ ev[2] = "submit" /\ submits[ev[1]] = 0
           /\ submits' = [submits EXCEPT ![ev[1]] = 1]
           /\ UNCHANGED target
        \/ ev[2] \in {"swap", "rollback"} /\ UNCHANGED submits
    <2>1. target' = target \/ ev[2] \in {"swap", "rollback"}
      BY <1>0, TargetFacts DEF KindOf
    <2>2. CASE submits' = submits
      BY <2>1, <2>2
    <2>3. CASE KindOf(ev) = "submit" /\ submits' = [submits EXCEPT ![e] = @ + 1]
      <3>1. ev = <<e, "submit", 1>>
        <4>1. PICK n \in 1..MaxAttempts : ev = <<e, "submit", n>>
          BY <2>3, EventIdFacts
        <4> QED
          BY <1>1, <4>1 DEF OneSubmitEvent
      <3>2. submits[e] = 0
        BY <1>0, <1>1, <3>1 DEF NoJobYet
      <3>3. submits' = [submits EXCEPT ![e] = 1]
        BY <2>3, <3>2
      <3> QED
        BY <2>1, <2>3, <3>2, <3>3 DEF KindOf, ExecOf
    <2> QED
      BY <1>2, <2>2, <2>3
  <1>8. Stages[ev] = "armed" /\ ev \in Promise!Event
    BY <1>1, <1>4 DEF Stages, Promise!Event, EventId
  <1>9. Promise!Call(ev)
    BY <1>6, <1>7, <1>8 DEF Promise!Call, Promise!Move, Stages
  <1> QED
    BY <1>8, <1>9 DEF Promise!Next

\* A transaction that queues an event, or does not.
LEMMA QueueSteps ==
    ASSUME RInv, NEW e \in Execs,
           CommitPreparation(e) \/ CancelRun(e) \/ RollbackRun(e) \/ QueueAction(e)
    PROVE  Promise!Next \/ UNCHANGED <<Stages, submits, target>>
  <1> USE EventIdFacts DEF RInv, IInv, TypeOK
  <1>1. UNCHANGED <<spent, broker, submits, target>>
    BY DEF CommitPreparation, CancelRun, RollbackRun, QueueAction, planeVars
  <1>2. \/ UNCHANGED outbox
        \/ \E k \in Kinds, n \in 1..MaxAttempts :
               ~Live(e, k) /\ outbox[<<e, k, n>>] = "absent" /\ Enqueue(<<e, k, n>>)
    <2>1. CASE CommitPreparation(e)
      <3>1. ~Live(e, "submit") /\ outbox[<<e, "submit", 1>>] = "absent" /\ 1 \in 1..MaxAttempts
        <4>1. \A n \in 1..MaxAttempts : outbox[<<e, "submit", n>>] = "absent"
          BY <2>1 DEF CommitPreparation, NothingBeforeRun, Kinds
        <4>2. 1 \in 1..MaxAttempts
          BY BoundsAssumption
        <4>3. ~Live(e, "submit")
          BY <4>1 DEF Live
        <4> QED
          BY <4>1, <4>2, <4>3
      <3> QED
        BY <2>1, <3>1 DEF CommitPreparation, Kinds
    <2>2. CASE CancelRun(e) \/ RollbackRun(e) \/ QueueAction(e)
      BY <2>2 DEF CancelRun, RollbackRun, QueueAction, QueueIfNone, QueueFollowUp, FollowUpKind,
                  IsNext, Kinds
    <2> QED
      BY <2>1, <2>2
  <1>3. CASE UNCHANGED outbox
    BY <1>1, <1>3, Stutters
  <1> QED
    BY <1>1, <1>2, <1>3, Queues

\* A step of a worker outside its transaction, of supervision or of SeaTunnel.
LEMMA StutterSteps ==
    ASSUME RInv,
           \/ \E e \in Execs : \/ ObserveJob(e) \/ ObservationFails(e)
                               \/ RestartSupervision(e) \/ JobStep(e)
           \/ \E w \in Workers : \/ FindSettled(w) \/ ScheduleSupervision(w)
                                 \/ AbortBroker(w) /\ broker[w].pc \notin Holding
           \/ \E w \in Workers, ev \in EventId : BeatPick(w, ev) \/ TaskPick(w, ev)
           \/ UNCHANGED vars
    PROVE  UNCHANGED <<Stages, submits, target>>
  <1> USE DEF RInv, IInv, TypeOK, planeVars
  <1>1. UNCHANGED <<outbox, spent, submits, target>>
    BY DEF ObserveJob, ObservationFails, RestartSupervision, JobStep, EngineStep, FindSettled,
           ScheduleSupervision, AbortBroker, BeatPick, TaskPick, vars, ctlVars
  <1>2. \/ UNCHANGED broker
        \/ \E w \in Workers :
               /\ broker[w].pc \notin Holding /\ broker'[w].pc \notin Holding
               /\ \A v \in Workers \ {w} : broker'[v] = broker[v]
    <2>1. CASE \E e \in Execs : \/ ObserveJob(e) \/ ObservationFails(e)
                               \/ RestartSupervision(e) \/ JobStep(e)
      BY <2>1 DEF ObserveJob, ObservationFails, RestartSupervision, JobStep, ctlVars
    <2>2. ASSUME NEW w \in Workers,
                 \/ FindSettled(w) \/ ScheduleSupervision(w)
                 \/ AbortBroker(w) /\ broker[w].pc \notin Holding
          PROVE  /\ broker[w].pc \notin Holding /\ broker'[w].pc \notin Holding
                 /\ \A v \in Workers \ {w} : broker'[v] = broker[v]
      <3>1. broker[w].pc \notin Holding
        BY <2>2 DEF FindSettled, Locks, ScheduleSupervision, Holding
      <3>2. broker' = [broker EXCEPT ![w] = Idle] \/ Goto(w, "sched")
        BY <2>2 DEF FindSettled, ScheduleSupervision, AbortBroker, Finish
      <3> QED
        BY <3>1, <3>2, FinishFacts, GotoFacts DEF Holding, BrokerPC
    <2>3. ASSUME NEW w \in Workers, NEW ev \in EventId, BeatPick(w, ev) \/ TaskPick(w, ev)
          PROVE  /\ broker[w].pc \notin Holding /\ broker'[w].pc \notin Holding
                 /\ \A v \in Workers \ {w} : broker'[v] = broker[v]
      BY <2>3 DEF BeatPick, TaskPick, Holding
    <2>4. CASE UNCHANGED vars
      BY <2>4 DEF vars, ctlVars
    <2> QED
      BY <2>1, <2>2, <2>3, <2>4
  <1> QED
    BY <1>1, <1>2, Stutters

-----------------------------------------------------------------------------
(***************************************************************************)
(* The refinement                                                          *)
(***************************************************************************)

\* No event has a stage before it is queued, and no job exists.
LEMMA InitRefines == Init => Promise!Init
  <1> SUFFICES ASSUME Init PROVE Promise!Init
    OBVIOUS
  <1>1. \A ev \in EventId : Stage(ev) = "none"
    BY DEF Init, Stage
  <1> QED
    BY <1>1 DEF Init, PlaneInit, Promise!Init, Promise!Event, EventId

\* Each step of the system is a step of the promise, or nothing to it.
LEMMA NextRefines ==
    ASSUME RInv, [Next]_vars
    PROVE  Promise!Next \/ UNCHANGED <<Stages, submits, target>>
  <1>1. CASE \E e \in Execs :
                CommitPreparation(e) \/ CancelRun(e) \/ RollbackRun(e) \/ QueueAction(e)
    BY <1>1, QueueSteps
  <1>2. CASE \E e \in Execs : \/ ObserveJob(e) \/ ObservationFails(e)
                              \/ RestartSupervision(e) \/ JobStep(e)
    BY <1>2, StutterSteps
  <1>3. CASE \E w \in Workers : DropLateSubmit(w) \/ RefuseToken(w)
    BY <1>3, RefusalMoves
  <1>4. CASE \E w \in Workers : ConfirmEvent(w) \/ RejectEvent(w)
    BY <1>4, SettlementMoves
  <1>5. CASE \E w \in Workers : ConsumeToken(w)
    BY <1>5, ConsumptionArms
  <1>6. CASE \E w \in Workers : CallPlane(w)
    BY <1>6, CallCalls
  <1>7. CASE \E w \in Workers : RollBackBroker(w) \/ AbortBroker(w)
    <2>1. PICK w \in Workers : RollBackBroker(w) \/ AbortBroker(w)
      BY <1>7
    <2>2. CASE broker[w].pc \in Holding
      BY <2>1, <2>2, LossMoves
    <2>3. CASE broker[w].pc \notin Holding
      <3>1. AbortBroker(w)
        BY <2>1, <2>3 DEF RollBackBroker, Holding
      <3> QED
        BY <2>3, <3>1, StutterSteps
    <2> QED
      BY <2>2, <2>3
  <1>8. CASE \E w \in Workers : FindSettled(w) \/ ScheduleSupervision(w)
    BY <1>8, StutterSteps
  <1>9. CASE \E w \in Workers, ev \in EventId : BeatPick(w, ev) \/ TaskPick(w, ev)
    BY <1>9, StutterSteps
  <1>10. CASE UNCHANGED vars
    BY <1>10, StutterSteps
  <1> QED
    BY <1>1, <1>2, <1>3, <1>4, <1>5, <1>6, <1>7, <1>8, <1>9, <1>10 DEF Next, BrokerStep

\* The lifecycle keeps the promise of the outbox, for any number of executions, workers,
\* events and faults.
THEOREM ImplementsPromise == Spec => KeepsPromise
  <1>1. Init => Promise!Init
    BY InitRefines
  <1>2. RInv /\ [Next]_vars => [Promise!Next]_<<Stages, submits, target>>
    BY NextRefines
  <1> QED
    BY <1>1, <1>2, RefinementInvariance, PTL DEF Spec, KeepsPromise, Promise!Spec, Stages

=============================================================================

----------------------------- MODULE OutboxPromise -----------------------------
(***************************************************************************)
(* What the transactional outbox and the Tool Broker promise together,     *)
(* without workers, row locks, tokens, queues or crashes: how an event may *)
(* move from stage to stage, and that only the call of an event touches    *)
(* SeaTunnel's jobs and the live table.  ExecutionLifecycle implements it. *)
(*                                                                         *)
(* The stages of an event:                                                 *)
(*   none       it was not queued                                          *)
(*   queued     pending, and it has not acted                              *)
(*   armed      its capability is consumed: its one call may start         *)
(*   called     its call has returned or raised                            *)
(*   lost       pending although it may have acted: it can only fail       *)
(*   published, failed                                                     *)
(***************************************************************************)
CONSTANTS Execs, Kinds, Numbers

VARIABLES
    stage,      \* stage[ev]
    jobs,       \* jobs[e]: how many jobs SeaTunnel accepted for e
    shown       \* the rows of the live table

Event == Execs \X Kinds \X Numbers

Init ==
    /\ stage = [ev \in Event |-> "none"]
    /\ jobs = [e \in Execs |-> 0]

Others(ev)   == {x \in Event : x # ev /\ x[1] = ev[1]}
SameKind(ev) == {x \in Others(ev) : x[2] = ev[2]}

Move(ev, from, to) ==
    /\ stage[ev] \in from
    /\ stage' = [stage EXCEPT ![ev] = to]

\* An event follows another of its kind only when that one failed.
Queue(ev) ==
    /\ \A x \in SameKind(ev) : stage[x] \in {"none", "failed"}
    /\ Move(ev, {"none"}, "queued")
    /\ UNCHANGED <<jobs, shown>>

\* One event of an execution acts at a time, and none of them twice.
Arm(ev) ==
    /\ \A x \in Others(ev) : stage[x] \notin {"armed", "called"}
    /\ Move(ev, {"queued"}, "armed")
    /\ UNCHANGED <<jobs, shown>>

\* A submit starts the only job of its execution, or none; only a swap and a
\* rollback change what is shown.
Call(ev) ==
    /\ Move(ev, {"armed"}, "called")
    /\ \/ UNCHANGED <<jobs, shown>>
       \/ /\ ev[2] = "submit" /\ jobs[ev[1]] = 0
          /\ jobs' = [jobs EXCEPT ![ev[1]] = 1]
          /\ UNCHANGED shown
       \/ /\ ev[2] \in {"swap", "rollback"}
          /\ UNCHANGED jobs

Lose(ev)    == Move(ev, {"armed", "called"}, "lost") /\ UNCHANGED <<jobs, shown>>
Publish(ev) == Move(ev, {"called"}, "published") /\ UNCHANGED <<jobs, shown>>
Fail(ev)    == Move(ev, {"queued", "called", "lost"}, "failed") /\ UNCHANGED <<jobs, shown>>

Next ==
    \E ev \in Event :
        Queue(ev) \/ Arm(ev) \/ Call(ev) \/ Lose(ev) \/ Publish(ev) \/ Fail(ev)

Spec == Init /\ [][Next]_<<stage, jobs, shown>>

=============================================================================

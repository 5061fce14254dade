------------------------------ MODULE DataPlane ------------------------------
(***************************************************************************)
(* The data plane behind the Tool Broker: SeaTunnelDorisEngine, that joins *)
(* the SeaTunnel job of an execution with the Doris tables it publishes.   *)
(* SeaTunnel and Doris themselves are external; they are modelled by what  *)
(* the adapters ask of them and by the answers the adapters handle.        *)
(*                                                                         *)
(* All the executions of Execs load the SAME target table, each through a  *)
(* shadow table of its own: this is what two committed runs of one         *)
(* pipeline do.  A table is represented by whose rows it holds.            *)
(***************************************************************************)
EXTENDS Naturals

CONSTANT Execs          \* the execution runs

VARIABLES
    engine,     \* engine[e]: the state of the SeaTunnel job of e
    submits,    \* submits[e]: how many jobs SeaTunnel accepted for e
    target,     \* whose rows the target table holds
    shadow      \* shadow[e]: whose rows the shadow table of e holds

planeVars == <<engine, submits, target, shadow>>

MaxSubmits == 2         \* bound of the counter submits

Rows == Execs \cup {"base", "empty"}

EngineStates ==
    {"none", "RUNNING", "CANCELING", "SUCCEEDED", "FAILED", "CANCELLED"}

PlaneTypeOK ==
    /\ engine \in [Execs -> EngineStates]
    /\ submits \in [Execs -> 0..MaxSubmits]
    /\ target \in Rows
    /\ shadow \in [Execs -> Rows \cup {"absent"}]

PlaneInit ==
    /\ engine = [e \in Execs |-> "none"]
    /\ submits = [e \in Execs |-> 0]
    /\ target = "base"
    /\ shadow = [e \in Execs |-> "absent"]

-----------------------------------------------------------------------------
(***************************************************************************)
(* submit: prepare_shadow creates and truncates the shadow table, then the *)
(* job is posted; if posting raises, the shadow table is dropped again.    *)
(***************************************************************************)
AcceptJob(e) ==
    /\ submits[e] < MaxSubmits
    /\ submits' = [submits EXCEPT ![e] = @ + 1]
    /\ engine' = [engine EXCEPT ![e] = "RUNNING"]

SubmitAccepted(e) ==
    /\ AcceptJob(e)
    /\ shadow' = [shadow EXCEPT ![e] = "empty"]
    /\ UNCHANGED target

\* SeaTunnel refuses the job; the except branch drops the shadow table.
SubmitRejected(e) ==
    /\ shadow' = [shadow EXCEPT ![e] = "absent"]
    /\ UNCHANGED <<engine, submits, target>>

\* SeaTunnel accepts the job but the answer does not arrive in time: the
\* adapter raises and the shadow table is dropped under the running job.
SubmitReplyLost(e) ==
    /\ AcceptJob(e)
    /\ shadow' = [shadow EXCEPT ![e] = "absent"]
    /\ UNCHANGED target

\* A statement of prepare_shadow or of the dropping fails: nothing was posted,
\* and the shadow table may be there or not.
SubmitBroken(e) ==
    /\ \E s \in {"absent", "empty"} : shadow' = [shadow EXCEPT ![e] = s]
    /\ UNCHANGED <<engine, submits, target>>

\* The stop request is accepted; the job stops later (see EngineStep).
StopJob(e) ==
    /\ engine' = [engine EXCEPT ![e] = IF @ = "RUNNING" THEN "CANCELING" ELSE @]
    /\ UNCHANGED <<submits, target, shadow>>

DropShadow(e) ==
    /\ shadow' = [shadow EXCEPT ![e] = "absent"]
    /\ UNCHANGED <<engine, submits, target>>

\* ALTER TABLE target REPLACE WITH TABLE shadow, 'swap' = 'true'.
Exchange(e) ==
    /\ shadow[e] # "absent"
    /\ target' = shadow[e]
    /\ shadow' = [shadow EXCEPT ![e] = target]
    /\ UNCHANGED <<engine, submits>>

\* rollback: the same exchange once more, then DROP TABLE shadow.
ExchangeAndDrop(e) ==
    /\ shadow[e] # "absent"
    /\ target' = shadow[e]
    /\ shadow' = [shadow EXCEPT ![e] = "absent"]
    /\ UNCHANGED <<engine, submits>>

-----------------------------------------------------------------------------
(***************************************************************************)
(* SeaTunnel on its own.  The Doris sink commits the load in two phases    *)
(* when the job ends, so that the rows of e appear in its shadow table     *)
(* with SUCCEEDED; a job whose shadow table is gone cannot succeed.  A job *)
(* asked to stop may still end by itself first.                            *)
(***************************************************************************)
EngineStep(e) ==
    /\ \/ /\ engine[e] \in {"RUNNING", "CANCELING"}
          /\ shadow[e] = "empty"
          /\ engine' = [engine EXCEPT ![e] = "SUCCEEDED"]
          /\ shadow' = [shadow EXCEPT ![e] = e]
       \/ /\ engine[e] \in {"RUNNING", "CANCELING"}
          /\ engine' = [engine EXCEPT ![e] = "FAILED"]
          /\ UNCHANGED shadow
       \/ /\ engine[e] = "CANCELING"
          /\ engine' = [engine EXCEPT ![e] = "CANCELLED"]
          /\ UNCHANGED shadow
    /\ UNCHANGED <<submits, target>>

=============================================================================

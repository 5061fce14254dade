------------------------------- MODULE Approval -------------------------------
(***************************************************************************)
(* From a generated version to a committed execution: the agent runs that  *)
(* freeze a PipelineVersion, the role slots of the project, Prepare, the   *)
(* approval slots with their decisions, Commit, and the submit, for which  *)
(* the broker compiles what the version holds by then.                     *)
(*                                                                         *)
(* One project with one pipeline version; its creator holds the slots      *)
(* maker and operator from the start.  Every handler locks what it changes *)
(* and is one step, except two that act on what they read before:          *)
(* add_project_member validates the roles of a user and inserts later, and *)
(* an agent run checks that the version is a draft and writes it when the  *)
(* workflow ends, which an answer or a redelivery may put off further.     *)
(***************************************************************************)
EXTENDS Naturals, FiniteSets

CONSTANTS
    Users,          \* the users of the platform
    Creator,        \* the one who created the project
    Nobody,         \* the approver of an undecided slot
    Preps,          \* the preparations of the version
    Keys,           \* idempotency keys of commit requests
    NoKey,          \* the key of a preparation without a run
    MaxAgentRuns,   \* bound: agent runs on the version
    MaxPlans,       \* bound: plans that they write to it
    MaxRequests     \* bound: role requests between validation and insertion

ASSUME PeopleAssumption == Creator \in Users /\ Nobody \notin Users
ASSUME KeyAssumption == NoKey \notin Keys
ASSUME AgentRunAssumption == MaxAgentRuns \in Nat /\ MaxPlans \in Nat

Checkers == {"checker_1", "checker_2"}
Executors == {"maker", "operator"}
Roles == Checkers \cup Executors

\* required_roles of decide_policy, for the risk levels P0, P1 and P2 or P3.
PolicyOutcomes == {{}, {"checker_1"}, {"checker_1", "checker_2"}}

VARIABLES
    version,    \* the PipelineVersion: [immutable, digest], digest 0 for none
    agentRuns,  \* [started, active, waiting]: agent runs on the version, in all, with
                \* a task, and with a question that nobody has answered
    grants,     \* the rows <<user, role>> of project_role_grants
    adding,     \* role requests validated and not inserted yet
    prep,       \* prep[p]: the Preparation row
    late,       \* the preparations whose expires_at has passed
    slot,       \* slot[p][r]: the ApprovalRequest of p for role r
    run,        \* run[p]: the idempotency key of the ExecutionRun of p
    executed    \* executed[p]: the digest of what its job was compiled from, 0 for no job

vars == <<version, agentRuns, grants, adding, prep, late, slot, run, executed>>

-----------------------------------------------------------------------------
(***************************************************************************)
(* Types and initial state                                                 *)
(***************************************************************************)
Digests == 0..MaxPlans

PrepStatus == {"absent", "approval_pending", "prepared", "approved", "committed",
               "rejected", "expired"}

Prep == [status : PrepStatus, required : SUBSET Checkers, digest : Digests]

Slot == [status : {"absent", "pending", "approved", "rejected"}, by : Users \cup {Nobody}]

NoSlot == [status |-> "absent", by |-> Nobody]

TypeOK ==
    /\ version \in [immutable : BOOLEAN, digest : Digests]
    /\ agentRuns \in [started : 0..MaxAgentRuns, active : 0..MaxAgentRuns,
                     waiting : 0..MaxAgentRuns]
    /\ grants \subseteq Users \X Roles
    /\ adding \subseteq Users \X Roles
    /\ prep \in [Preps -> Prep]
    /\ late \subseteq Preps
    /\ slot \in [Preps -> [Checkers -> Slot]]
    /\ run \in [Preps -> Keys \cup {NoKey}]
    /\ executed \in [Preps -> Digests]

Init ==
    /\ version = [immutable |-> FALSE, digest |-> 0]
    /\ agentRuns = [started |-> 0, active |-> 0, waiting |-> 0]
    /\ grants = {<<Creator, "maker">>, <<Creator, "operator">>}
    /\ adding = {}
    /\ prep = [p \in Preps |-> [status |-> "absent", required |-> {}, digest |-> 0]]
    /\ late = {}
    /\ slot = [p \in Preps |-> [r \in Checkers |-> NoSlot]]
    /\ run = [p \in Preps |-> NoKey]
    /\ executed = [p \in Preps |-> 0]

-----------------------------------------------------------------------------
(***************************************************************************)
(* Generation: an agent run starts on a draft and ends much later          *)
(***************************************************************************)
StartAgentRun ==
    /\ ~version.immutable
    /\ agentRuns.started < MaxAgentRuns
    /\ agentRuns' = [started |-> agentRuns.started + 1,
                     active |-> agentRuns.active + 1, waiting |-> agentRuns.waiting]
    /\ UNCHANGED <<version, grants, adding, prep, late, slot, run, executed>>

\* The result is a plan, which freezes the version, or there is none.  When the
\* worker dies before it acknowledges its task, the task is delivered again.
EndAgentRun ==
    /\ agentRuns.active > 0
    /\ \/ agentRuns' = [agentRuns EXCEPT !.active = @ - 1]
       \/ UNCHANGED agentRuns
    /\ \/ /\ version.digest < MaxPlans
          /\ version' = [immutable |-> TRUE, digest |-> version.digest + 1]
       \/ UNCHANGED version
    /\ UNCHANGED <<grants, adding, prep, late, slot, run, executed>>

\* The result is a question, and an answer starts another task: it looks at the
\* agent run and not at the version.
AskInAgentRun ==
    /\ agentRuns.active > 0
    /\ agentRuns' = [started |-> agentRuns.started,
                     active |-> agentRuns.active - 1, waiting |-> agentRuns.waiting + 1]
    /\ UNCHANGED <<version, grants, adding, prep, late, slot, run, executed>>

AnswerAgentRun ==
    /\ agentRuns.waiting > 0
    /\ agentRuns' = [started |-> agentRuns.started,
                     active |-> agentRuns.active + 1, waiting |-> agentRuns.waiting - 1]
    /\ UNCHANGED <<version, grants, adding, prep, late, slot, run, executed>>

AgentRunStep == StartAgentRun \/ EndAgentRun \/ AskInAgentRun \/ AnswerAgentRun

-----------------------------------------------------------------------------
(***************************************************************************)
(* Role slots                                                              *)
(***************************************************************************)
RolesOf(u) == {r \in Roles : <<u, r>> \in grants}

\* Mutant: only the exact slot is looked for.
CompatibleMutant(held, r) == r \in Roles /\ r \notin held

\* validate_role_assignment; the auditor, who only reads, excludes no role
\* and is left out of Roles.
Compatible(held, r) ==
    /\ r \notin held
    /\ r \in Checkers  => held \cap Executors = {}
    /\ r \in Executors => held \cap Checkers = {}

RequestRole(u, r) ==
    /\ Compatible(RolesOf(u), r)
    /\ Cardinality(adding) < MaxRequests
    /\ adding' = adding \cup {<<u, r>>}
    /\ UNCHANGED <<version, agentRuns, grants, prep, late, slot, run, executed>>

\* The table has one row per role: a second holder is refused at commit.
InsertRole(u, r) ==
    /\ <<u, r>> \in adding
    /\ adding' = adding \ {<<u, r>>}
    /\ grants' = IF \E v \in Users : <<v, r>> \in grants
                 THEN grants ELSE grants \cup {<<u, r>>}
    /\ UNCHANGED <<version, agentRuns, prep, late, slot, run, executed>>

-----------------------------------------------------------------------------
(***************************************************************************)
(* Prepare and the approval slots                                          *)
(***************************************************************************)
PrepareVersion(p, required) ==
    /\ prep[p].status = "absent"
    /\ version.immutable
    /\ prep' = [prep EXCEPT ![p] =
                  [status   |-> IF required = {} THEN "prepared" ELSE "approval_pending",
                   required |-> required,
                   digest   |-> version.digest]]
    /\ slot' = [slot EXCEPT ![p] =
                  [r \in Checkers |->
                      IF r \in required THEN [status |-> "pending", by |-> Nobody] ELSE NoSlot]]
    /\ UNCHANGED <<version, agentRuns, grants, adding, late, run, executed>>

\* The clock passes expires_at.
PassDeadline(p) ==
    /\ prep[p].status # "absent"
    /\ p \notin late
    /\ late' = late \cup {p}
    /\ UNCHANGED <<version, agentRuns, grants, adding, prep, slot, run, executed>>

\* A decision that comes late expires the preparation, before anything else
\* is looked at, the status of the slot and of the preparation included.
DecideLate(p, r) ==
    /\ slot[p][r].status # "absent"
    /\ p \in late
    /\ prep' = [prep EXCEPT ![p].status = "expired"]
    /\ UNCHANGED <<version, agentRuns, grants, adding, late, slot, run, executed>>

\* Mutant: a decided slot may be decided again.
MayDecideMutant(p, r, u) ==
    /\ slot[p][r].status # "absent"
    /\ p \notin late
    /\ u # Creator
    /\ <<u, r>> \in grants

MayDecide(p, r, u) ==
    /\ slot[p][r].status = "pending"
    /\ p \notin late
    /\ u # Creator              \* who holds maker, so created the preparation
    /\ <<u, r>> \in grants

Record(p, r, u, decision) ==
    slot' = [slot EXCEPT ![p][r] = [status |-> decision, by |-> u]]

Reject(p, r, u) ==
    /\ MayDecide(p, r, u)
    /\ Record(p, r, u, "rejected")
    /\ prep' = [prep EXCEPT ![p].status = "rejected"]
    /\ UNCHANGED <<version, agentRuns, grants, adding, late, run, executed>>

\* The approval that leaves no slot pending approves the preparation.
Approve(p, r, u) ==
    /\ MayDecide(p, r, u)
    /\ Record(p, r, u, "approved")
    /\ prep' = IF \E q \in Checkers \ {r} : slot[p][q].status = "pending"
               THEN prep ELSE [prep EXCEPT ![p].status = "approved"]
    /\ UNCHANGED <<version, agentRuns, grants, adding, late, run, executed>>

-----------------------------------------------------------------------------
(***************************************************************************)
(* Commit.  Of a committed preparation it returns the existing run, which  *)
(* changes nothing; the branch for a run that exists while the preparation *)
(* is not committed is dead code (see RunsAreRecorded).                    *)
(***************************************************************************)
Committable(p) == prep[p].status \in {"approved", "prepared"}

CommitTooLate(p) ==
    /\ Committable(p)
    /\ p \in late
    /\ prep' = [prep EXCEPT ![p].status = "expired"]
    /\ UNCHANGED <<version, agentRuns, grants, adding, late, slot, run, executed>>

\* The fingerprint of the version is not the one that was frozen.
CommitDrifted(p) ==
    /\ Committable(p)
    /\ p \notin late
    /\ version.digest # prep[p].digest
    /\ prep' = [prep EXCEPT ![p].status = "rejected"]
    /\ UNCHANGED <<version, agentRuns, grants, adding, late, slot, run, executed>>

ApprovedSlots(p) == {r \in Checkers : slot[p][r].status = "approved"}

\* Mutant: only runs of committed preparations count.
KeyIsFreeMutant(k) == \A q \in Preps : run[q] # k \/ prep[q].status # "committed"

KeyIsFree(k) == \A q \in Preps : run[q] # k

\* Mutant: the status of the preparation stands for the approvals.
CommitUncheckedMutant(p, k) ==
    /\ prep[p].status \in {"approved", "prepared", "approval_pending"}
    /\ p \notin late
    /\ version.digest = prep[p].digest
    /\ KeyIsFree(k)
    /\ run' = [run EXCEPT ![p] = k]
    /\ prep' = [prep EXCEPT ![p].status = "committed"]
    /\ UNCHANGED <<version, agentRuns, grants, adding, late, slot, executed>>

CommitNew(p, k) ==
    /\ Committable(p)
    /\ p \notin late
    /\ version.digest = prep[p].digest
    /\ prep[p].required \subseteq ApprovedSlots(p)
    /\ KeyIsFree(k)
    /\ run' = [run EXCEPT ![p] = k]
    /\ prep' = [prep EXCEPT ![p].status = "committed"]
    /\ UNCHANGED <<version, agentRuns, grants, adding, late, slot, executed>>

\* The broker dispatches the submit of the run, once: the token is checked
\* against the digest of the run, the job is compiled from the version.
SubmitRun(p) ==
    /\ run[p] # NoKey
    /\ executed[p] = 0
    /\ executed' = [executed EXCEPT ![p] = version.digest]
    /\ UNCHANGED <<version, agentRuns, grants, adding, prep, late, slot, run>>

-----------------------------------------------------------------------------
Next ==
    \/ AgentRunStep
    \/ \E u \in Users, r \in Roles : RequestRole(u, r) \/ InsertRole(u, r)
    \/ \E p \in Preps :
           \/ \E required \in PolicyOutcomes : PrepareVersion(p, required)
           \/ PassDeadline(p)
           \/ \E r \in Checkers : DecideLate(p, r)
           \/ \E r \in Checkers, u \in Users : Reject(p, r, u) \/ Approve(p, r, u)
           \/ CommitTooLate(p) \/ CommitDrifted(p)
           \/ \E k \in Keys : CommitNew(p, k)
           \/ SubmitRun(p)

Spec == Init /\ [][Next]_vars

-----------------------------------------------------------------------------
(***************************************************************************)
(* Properties                                                              *)
(***************************************************************************)

\* However role requests interleave, a slot has one holder, and nobody who
\* checks also makes or operates.
DutiesSeparate ==
    /\ \A u, v \in Users, r \in Roles : <<u, r>> \in grants /\ <<v, r>> \in grants => u = v
    /\ \A u \in Users : RolesOf(u) \cap Checkers = {} \/ RolesOf(u) \cap Executors = {}

\* A run exists only with the consent of every required checker, none of whom
\* is its maker and operator, whatever was decided, drifted or expired since.
RunsHaveConsent ==
    \A p \in Preps : run[p] # NoKey =>
        \A r \in prep[p].required :
            /\ slot[p][r].status = "approved"
            /\ <<slot[p][r].by, r>> \in grants
            /\ RolesOf(slot[p][r].by) \cap Executors = {}

\* A preparation never gets a second run, nor two preparations the same key,
\* and a run leaves its preparation committed, or expired later.
RunsAreRecorded ==
    \A p \in Preps : run[p] # NoKey =>
        /\ prep[p].status \in {"committed", "expired"}
        /\ \A q \in Preps \ {p} : run[q] # run[p]

\* A preparation is refused when a checker rejected it, when its version drifted, or
\* when its time is over.
Refused(p) ==
    \/ \E r \in Checkers : slot[p][r].status = "rejected"
    \/ prep[p].status \in {"rejected", "expired"}
    \/ p \in late

\* A preparation that is refused before it has a run stays refused and never gets
\* one, although the approval of another slot may still turn its status from
\* rejected to approved (see RejectionStands), and that of one that drifted does not.
RefusalIsFinal ==
    [][\A p \in Preps :
          Refused(p) /\ run[p] = NoKey => Refused(p)' /\ run'[p] = NoKey]_vars

\* A decision once made is never taken back or made again by another.
DecisionsStand ==
    [][\A p \in Preps, r \in Checkers :
          slot[p][r].status \in {"approved", "rejected"} => slot'[p][r] = slot[p][r]]_vars

-----------------------------------------------------------------------------
(***************************************************************************)
(* What the documents promise and the code does not keep                   *)
(***************************************************************************)

\* A preparation with a rejected slot is never approved.
RejectionStands ==
    \A p \in Preps :
        prep[p].status = "approved" => \A r \in Checkers : slot[p][r].status # "rejected"

\* What runs is what was approved: the version that the broker reads when it
\* dispatches the submit still holds what Prepare froze.
ExecutesWhatWasApproved ==
    \A p \in Preps : executed[p] # 0 => executed[p] = prep[p].digest

===============================================================================

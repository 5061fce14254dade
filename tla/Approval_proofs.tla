---------------------------- MODULE Approval_proofs ----------------------------
(***************************************************************************)
(* Proofs about Approval, for any users, preparations and keys.            *)
(*                                                                         *)
(* A consent is worth something because the creator never lets go of maker *)
(* and operator, a slot has one holder, and so no checker can be maker or  *)
(* operator; a committed run keeps its approvals because only pending      *)
(* slots are decided, and a preparation with a run has none.               *)
(***************************************************************************)
EXTENDS Approval, TLAPS

-----------------------------------------------------------------------------
(***************************************************************************)
(* The inductive invariant                                                 *)
(***************************************************************************)
MoreStarted == agentRuns.active + agentRuns.waiting <= agentRuns.started

CreatorExecutes == \A r \in Executors : <<Creator, r>> \in grants

CreatorNeverChecks == \A r \in Checkers : <<Creator, r>> \notin grants \cup adding

OneHolder == \A u, v \in Users, r \in Roles : <<u, r>> \in grants /\ <<v, r>> \in grants => u = v

\* Only the slots that Prepare asked for exist.
SlotsAreRequired ==
    \A p \in Preps, r \in Checkers :
        slot[p][r].status # "absent" => prep[p].status # "absent" /\ r \in prep[p].required

DecidersHoldRoles ==
    \A p \in Preps, r \in Checkers :
        slot[p][r].status \in {"approved", "rejected"} => <<slot[p][r].by, r>> \in grants

RunsAreApproved ==
    \A p \in Preps : run[p] # NoKey =>
        /\ prep[p].status \in {"committed", "expired"}
        /\ prep[p].required \subseteq ApprovedSlots(p)

KeysDiffer == \A p, q \in Preps : run[p] # NoKey /\ run[p] = run[q] => p = q

IInv ==
    /\ TypeOK
    /\ MoreStarted
    /\ CreatorExecutes
    /\ CreatorNeverChecks
    /\ OneHolder
    /\ SlotsAreRequired
    /\ DecidersHoldRoles
    /\ RunsAreApproved
    /\ KeysDiffer

-----------------------------------------------------------------------------
LEMMA StatusOfPrep ==
    ASSUME NEW r \in Prep, NEW s \in PrepStatus
    PROVE  /\ [r EXCEPT !.status = s] \in Prep
           /\ [r EXCEPT !.status = s].required = r.required
           /\ [r EXCEPT !.status = s].status = s
  BY DEF Prep

LEMMA StatusOfOne ==
    ASSUME NEW p \in Preps, NEW s \in PrepStatus, prep \in [Preps -> Prep],
           prep' = [prep EXCEPT ![p].status = s]
    PROVE  /\ prep' \in [Preps -> Prep]
           /\ \A q \in Preps :
                  /\ prep'[q].required = prep[q].required
                  /\ prep'[q].status = IF q = p THEN s ELSE prep[q].status
  BY StatusOfPrep

(***************************************************************************)
(* Every action preserves it                                               *)
(***************************************************************************)
LEMMA InitIInv == Init => IInv
  BY PeopleAssumption, AgentRunAssumption
     DEF Init, IInv, TypeOK, MoreStarted, CreatorExecutes, CreatorNeverChecks, OneHolder,
         SlotsAreRequired, DecidersHoldRoles, RunsAreApproved, KeysDiffer, Roles, Checkers,
         Executors, Digests, Prep, PrepStatus, Slot, NoSlot

LEMMA AgentRunsKeepIInv == IInv /\ AgentRunStep => IInv'
<1> SUFFICES ASSUME IInv, AgentRunStep PROVE IInv'
  OBVIOUS
<1> USE DEF AgentRunStep, StartAgentRun, EndAgentRun, AskInAgentRun, AnswerAgentRun
<1>1. UNCHANGED <<grants, adding, prep, late, slot, run, executed>>
  OBVIOUS
<1>2. version' \in [immutable : BOOLEAN, digest : Digests]
  <2>1. version' = version \/ version' = [immutable |-> TRUE, digest |-> version.digest + 1]
    OBVIOUS
  <2>2. version.digest \in Nat
    BY AgentRunAssumption DEF IInv, TypeOK, Digests
  <2>3. version' = version \/ version.digest + 1 \in Digests
    BY <2>2, AgentRunAssumption DEF Digests
  <2>4. ASSUME NEW d \in Digests
        PROVE  [immutable |-> TRUE, digest |-> d] \in [immutable : BOOLEAN, digest : Digests]
    OBVIOUS
  <2>5. CASE version' = version
    BY <2>5 DEF IInv, TypeOK
  <2>6. CASE version' # version
    BY <2>1, <2>3, <2>4, <2>6
  <2> QED
    BY <2>5, <2>6
<1>3. /\ agentRuns' \in [started : 0..MaxAgentRuns, active : 0..MaxAgentRuns,
                        waiting : 0..MaxAgentRuns]
      /\ MoreStarted'
  <2>1. /\ agentRuns.started \in 0..MaxAgentRuns /\ agentRuns.active \in 0..MaxAgentRuns
        /\ agentRuns.waiting \in 0..MaxAgentRuns
        /\ agentRuns.active + agentRuns.waiting <= agentRuns.started
    BY DEF IInv, TypeOK, MoreStarted
  <2>2. ASSUME NEW s \in 0..MaxAgentRuns, NEW a \in 0..MaxAgentRuns, NEW w \in 0..MaxAgentRuns,
               a + w <= s, agentRuns' = [started |-> s, active |-> a, waiting |-> w]
        PROVE  /\ agentRuns' \in [started : 0..MaxAgentRuns, active : 0..MaxAgentRuns,
                                   waiting : 0..MaxAgentRuns]
               /\ MoreStarted'
    BY <2>2 DEF MoreStarted
  <2>3. CASE StartAgentRun
    <3>1. agentRuns.started + 1 \in 0..MaxAgentRuns /\ agentRuns.active + 1 \in 0..MaxAgentRuns
      BY <2>1, <2>3, AgentRunAssumption
    <3>2. agentRuns.active + 1 + agentRuns.waiting <= agentRuns.started + 1
      BY <2>1
    <3> QED
      BY <2>1, <2>2, <2>3, <3>1, <3>2
  <2>4. CASE EndAgentRun
    <3>1. agentRuns.active - 1 \in 0..MaxAgentRuns
          /\ agentRuns.active - 1 + agentRuns.waiting <= agentRuns.started
      BY <2>1, <2>4, AgentRunAssumption
    <3>2. CASE agentRuns' = [agentRuns EXCEPT !.active = agentRuns.active - 1]
      <4>1. agentRuns' = [started |-> agentRuns.started, active |-> agentRuns.active - 1,
                          waiting |-> agentRuns.waiting]
        BY <3>2 DEF IInv, TypeOK
      <4> QED
        BY <2>1, <2>2, <3>1, <4>1
    <3>3. CASE UNCHANGED agentRuns
      BY <3>3 DEF IInv, TypeOK, MoreStarted
    <3> QED
      BY <2>4, <3>2, <3>3
  <2>5. CASE AskInAgentRun
    <3>1. agentRuns.active - 1 \in 0..MaxAgentRuns /\ agentRuns.waiting + 1 \in 0..MaxAgentRuns
      BY <2>1, <2>5, AgentRunAssumption
    <3>2. agentRuns.active - 1 + (agentRuns.waiting + 1) <= agentRuns.started
      BY <2>1
    <3> QED
      BY <2>1, <2>2, <2>5, <3>1, <3>2
  <2>6. CASE AnswerAgentRun
    <3>1. agentRuns.waiting - 1 \in 0..MaxAgentRuns /\ agentRuns.active + 1 \in 0..MaxAgentRuns
      BY <2>1, <2>6, AgentRunAssumption
    <3>2. agentRuns.active + 1 + (agentRuns.waiting - 1) <= agentRuns.started
      BY <2>1
    <3> QED
      BY <2>1, <2>2, <2>6, <3>1, <3>2
  <2> QED
    BY <2>3, <2>4, <2>5, <2>6
<1>4. TypeOK'
  BY <1>1, <1>2, <1>3 DEF IInv, TypeOK
<1> QED
  BY <1>1, <1>3, <1>4
     DEF IInv, CreatorExecutes, CreatorNeverChecks, OneHolder, SlotsAreRequired,
         DecidersHoldRoles, RunsAreApproved, KeysDiffer, ApprovedSlots

\* The roles of the creator were read when maker was among them.
LEMMA RequestRoleKeepsIInv ==
    ASSUME IInv, NEW u \in Users, NEW r \in Roles, RequestRole(u, r)
    PROVE  IInv'
<1>1. TypeOK'
  BY DEF IInv, TypeOK, RequestRole
<1>2. CreatorNeverChecks'
  <2>1. r \in Checkers => "maker" \notin RolesOf(u)
    BY DEF RequestRole, Compatible, Executors
  <2>2. "maker" \in RolesOf(Creator)
    BY DEF IInv, CreatorExecutes, RolesOf, Executors, Roles
  <2> QED
    BY <2>1, <2>2 DEF IInv, CreatorNeverChecks, RequestRole
<1> QED
  BY <1>1, <1>2
     DEF IInv, RequestRole, MoreStarted, CreatorExecutes, OneHolder, SlotsAreRequired,
         DecidersHoldRoles, RunsAreApproved, KeysDiffer, ApprovedSlots

LEMMA InsertRoleKeepsIInv ==
    ASSUME IInv, NEW u \in Users, NEW r \in Roles, InsertRole(u, r)
    PROVE  IInv'
<1>1. grants \subseteq grants' /\ grants' \subseteq grants \cup {<<u, r>>}
  BY DEF InsertRole
<1>2. TypeOK'
  BY DEF IInv, TypeOK, InsertRole
<1>3. CreatorExecutes' /\ DecidersHoldRoles'
  BY <1>1 DEF IInv, CreatorExecutes, DecidersHoldRoles, InsertRole
<1>4. CreatorNeverChecks'
  BY <1>1 DEF IInv, CreatorNeverChecks, InsertRole
<1>5. OneHolder'
  BY DEF IInv, OneHolder, InsertRole
<1> QED
  BY <1>2, <1>3, <1>4, <1>5
     DEF IInv, InsertRole, MoreStarted, SlotsAreRequired, RunsAreApproved, KeysDiffer, ApprovedSlots

LEMMA PrepareVersionKeepsIInv ==
    ASSUME IInv, NEW p \in Preps, NEW required \in PolicyOutcomes, PrepareVersion(p, required)
    PROVE  IInv'
<1>1. required \subseteq Checkers
  BY DEF PolicyOutcomes, Checkers
<1>2. TypeOK'
  BY <1>1 DEF IInv, TypeOK, PrepareVersion, Prep, PrepStatus, Slot, NoSlot
<1>3. SlotsAreRequired'
  BY DEF IInv, TypeOK, SlotsAreRequired, PrepareVersion, NoSlot
<1>4. DecidersHoldRoles'
  BY DEF IInv, TypeOK, DecidersHoldRoles, PrepareVersion, NoSlot
<1>5. RunsAreApproved'
  BY DEF IInv, TypeOK, RunsAreApproved, ApprovedSlots, PrepareVersion
<1> QED
  BY <1>2, <1>3, <1>4, <1>5
     DEF IInv, PrepareVersion, MoreStarted, CreatorExecutes, CreatorNeverChecks, OneHolder, KeysDiffer

LEMMA PassDeadlineKeepsIInv == ASSUME IInv, NEW p \in Preps, PassDeadline(p) PROVE IInv'
<1>1. TypeOK'
  BY DEF IInv, TypeOK, PassDeadline
<1> QED
  BY <1>1
     DEF IInv, PassDeadline, MoreStarted, CreatorExecutes, CreatorNeverChecks, OneHolder, SlotsAreRequired,
         DecidersHoldRoles, RunsAreApproved, KeysDiffer, ApprovedSlots

\* Three handlers that only move a preparation to a status, which is expired
\* or one that a preparation without a run gets.
LEMMA StatusKeepsIInv ==
    ASSUME IInv, NEW p \in Preps, NEW s \in {"expired", "rejected"},
           s = "expired" \/ run[p] = NoKey,
           prep' = [prep EXCEPT ![p].status = s],
           UNCHANGED <<version, agentRuns, grants, adding, late, slot, run, executed>>
    PROVE  IInv'
<1>1. /\ prep' \in [Preps -> Prep]
      /\ \A q \in Preps : /\ prep'[q].required = prep[q].required
                          /\ prep'[q].status = IF q = p THEN s ELSE prep[q].status
  <2>1. prep \in [Preps -> Prep] /\ s \in PrepStatus
    BY DEF IInv, TypeOK, PrepStatus
  <2> QED
    BY <2>1, StatusOfOne
<1>2. TypeOK'
  BY <1>1 DEF IInv, TypeOK
<1>3. SlotsAreRequired'
  BY <1>1 DEF IInv, SlotsAreRequired
<1>4. RunsAreApproved'
  BY <1>1 DEF IInv, RunsAreApproved, ApprovedSlots
<1> QED
  BY <1>2, <1>3, <1>4
     DEF IInv, MoreStarted, CreatorExecutes, CreatorNeverChecks, OneHolder, DecidersHoldRoles,
         KeysDiffer

LEMMA ExpireOrDriftKeepsIInv ==
    ASSUME IInv, NEW p \in Preps,
           (\E r \in Checkers : DecideLate(p, r)) \/ CommitTooLate(p) \/ CommitDrifted(p)
    PROVE  IInv'
<1>1. CASE \E r \in Checkers : DecideLate(p, r)
  BY <1>1, StatusKeepsIInv DEF DecideLate
<1>2. CASE CommitTooLate(p)
  BY <1>2, StatusKeepsIInv DEF CommitTooLate
<1>3. CASE CommitDrifted(p)
  <2>1. run[p] = NoKey
    BY <1>3 DEF CommitDrifted, Committable, IInv, RunsAreApproved
  <2> QED
    BY <1>3, <2>1, StatusKeepsIInv DEF CommitDrifted
<1> QED
  BY <1>1, <1>2, <1>3

\* A preparation with a run has no slot that could be decided.
LEMMA PendingHasNoRun ==
    ASSUME IInv, NEW p \in Preps, NEW r \in Checkers, slot[p][r].status = "pending"
    PROVE  run[p] = NoKey
<1>1. r \in prep[p].required
  BY DEF IInv, SlotsAreRequired
<1>2. r \notin ApprovedSlots(p)
  BY DEF ApprovedSlots
<1> QED
  BY <1>1, <1>2 DEF IInv, RunsAreApproved

LEMMA DecisionKeepsIInv ==
    ASSUME IInv, NEW p \in Preps, NEW r \in Checkers, NEW u \in Users,
           Reject(p, r, u) \/ Approve(p, r, u)
    PROVE  IInv'
<1> DEFINE d == IF Reject(p, r, u) THEN "rejected" ELSE "approved"
<1>1. /\ slot' = [slot EXCEPT ![p][r] = [status |-> d, by |-> u]]
      /\ d \in {"rejected", "approved"}
      /\ slot[p][r].status = "pending"
      /\ <<u, r>> \in grants
      /\ UNCHANGED <<version, agentRuns, grants, adding, late, run, executed>>
  BY DEF Reject, Approve, Record, MayDecide
<1>2. \E s \in PrepStatus \ {"absent"} :
          prep' = prep \/ prep' = [prep EXCEPT ![p].status = s]
  BY DEF Reject, Approve, PrepStatus
<1> HIDE DEF d
<1>3. run[p] = NoKey
  BY <1>1, PendingHasNoRun
<1>4. /\ prep' \in [Preps -> Prep]
      /\ \A q \in Preps : /\ prep'[q].required = prep[q].required
                          /\ q # p => prep'[q].status = prep[q].status
                          /\ prep[q].status # "absent" => prep'[q].status # "absent"
  <2>1. prep \in [Preps -> Prep]
    BY DEF IInv, TypeOK
  <2>2. CASE prep' = prep
    BY <2>1, <2>2
  <2>3. ASSUME NEW s \in PrepStatus, s # "absent", prep' = [prep EXCEPT ![p].status = s]
        PROVE  /\ prep' \in [Preps -> Prep]
               /\ \A q \in Preps :
                      /\ prep'[q].required = prep[q].required
                      /\ q # p => prep'[q].status = prep[q].status
                      /\ prep[q].status # "absent" => prep'[q].status # "absent"
    <3>1. /\ prep' \in [Preps -> Prep]
          /\ \A q \in Preps : /\ prep'[q].required = prep[q].required
                              /\ prep'[q].status = IF q = p THEN s ELSE prep[q].status
      BY <2>1, <2>3, StatusOfOne
    <3> QED
      BY <2>3, <3>1
  <2> QED
    BY <1>2, <2>2, <2>3
<1>5. \A q \in Preps, c \in Checkers :
          slot'[q][c] = IF q = p /\ c = r THEN [status |-> d, by |-> u] ELSE slot[q][c]
  BY <1>1 DEF IInv, TypeOK
<1>6. TypeOK'
  <2>2. slot' \in [Preps -> [Checkers -> Slot]]
    BY <1>1 DEF IInv, TypeOK, Slot
  <2> QED
    BY <1>1, <1>4, <2>2 DEF IInv, TypeOK
<1>7. SlotsAreRequired'
  BY <1>1, <1>4, <1>5 DEF IInv, SlotsAreRequired
<1>8. DecidersHoldRoles'
  BY <1>1, <1>5 DEF IInv, DecidersHoldRoles
<1>9. RunsAreApproved'
  BY <1>1, <1>3, <1>4, <1>5 DEF IInv, RunsAreApproved, ApprovedSlots
<1> QED
  BY <1>1, <1>6, <1>7, <1>8, <1>9
     DEF IInv, MoreStarted, CreatorExecutes, CreatorNeverChecks, OneHolder, KeysDiffer

LEMMA CommitNewKeepsIInv ==
    ASSUME IInv, NEW p \in Preps, NEW k \in Keys, CommitNew(p, k)
    PROVE  IInv'
<1>1. /\ prep' \in [Preps -> Prep]
      /\ \A q \in Preps : /\ prep'[q].required = prep[q].required
                          /\ prep'[q].status = IF q = p THEN "committed" ELSE prep[q].status
                          /\ run'[q] = IF q = p THEN k ELSE run[q]
  BY StatusOfOne DEF IInv, TypeOK, PrepStatus, CommitNew
<1>2. TypeOK'
  BY <1>1 DEF IInv, TypeOK, CommitNew
<1>3. SlotsAreRequired'
  BY <1>1 DEF IInv, SlotsAreRequired, CommitNew
<1>4. RunsAreApproved'
  BY <1>1 DEF IInv, RunsAreApproved, ApprovedSlots, CommitNew
<1>5. KeysDiffer'
  BY <1>1 DEF IInv, KeysDiffer, CommitNew, KeyIsFree
<1> QED
  BY <1>2, <1>3, <1>4, <1>5
     DEF IInv, CommitNew, MoreStarted, CreatorExecutes, CreatorNeverChecks, OneHolder,
         DecidersHoldRoles

\* A submit changes nothing but what was executed.
LEMMA SubmitRunKeepsIInv == ASSUME IInv, NEW p \in Preps, SubmitRun(p) PROVE IInv'
<1>1. TypeOK'
  BY DEF IInv, TypeOK, SubmitRun
<1> QED
  BY <1>1
     DEF IInv, SubmitRun, MoreStarted, CreatorExecutes, CreatorNeverChecks, OneHolder,
         SlotsAreRequired, DecidersHoldRoles, RunsAreApproved, KeysDiffer, ApprovedSlots

-----------------------------------------------------------------------------
\* The invariant holds in every state of the protocol: agent runs, role
\* requests, decisions, expiry and commits in whatever order.
THEOREM Invariance == Spec => []IInv
<1>1. IInv /\ [Next]_vars => IInv'
  <2> SUFFICES ASSUME IInv, [Next]_vars PROVE IInv'
    OBVIOUS
  <2>1. CASE UNCHANGED vars
    BY <2>1
       DEF vars, IInv, TypeOK, MoreStarted, CreatorExecutes, CreatorNeverChecks, OneHolder,
           SlotsAreRequired, DecidersHoldRoles, RunsAreApproved, KeysDiffer, ApprovedSlots
  <2>2. CASE AgentRunStep
    BY <2>2, AgentRunsKeepIInv
  <2>3. CASE \E u \in Users, r \in Roles : RequestRole(u, r) \/ InsertRole(u, r)
    BY <2>3, RequestRoleKeepsIInv, InsertRoleKeepsIInv
  <2>4. ASSUME NEW p \in Preps,
               \/ \E required \in PolicyOutcomes : PrepareVersion(p, required)
               \/ PassDeadline(p)
               \/ \E r \in Checkers : DecideLate(p, r)
               \/ \E r \in Checkers, u \in Users : Reject(p, r, u) \/ Approve(p, r, u)
               \/ CommitTooLate(p) \/ CommitDrifted(p)
               \/ \E k \in Keys : CommitNew(p, k)
               \/ SubmitRun(p)
        PROVE  IInv'
    BY <2>4, PrepareVersionKeepsIInv, PassDeadlineKeepsIInv, ExpireOrDriftKeepsIInv,
       DecisionKeepsIInv, CommitNewKeepsIInv, SubmitRunKeepsIInv
  <2> QED
    BY <2>1, <2>2, <2>3, <2>4 DEF Next
<1> QED
  BY <1>1, InitIInv, PTL DEF Spec

\* The rows of the approval tables keep their types.
THEOREM TypeCorrect == Spec => []TypeOK
<1>1. IInv => TypeOK
  BY DEF IInv
<1> QED
  BY <1>1, Invariance, PTL

\* Separation of duties: validate_role_assignment and the unique slot row keep
\* checkers apart from maker and operator, requests racing or not.
THEOREM DutiesSeparateHolds == Spec => []DutiesSeparate
<1>1. ASSUME IInv PROVE DutiesSeparate
  <2>1. \A u \in Users : RolesOf(u) \cap Checkers = {} \/ RolesOf(u) \cap Executors = {}
    <3> SUFFICES ASSUME NEW u \in Users
                 PROVE  RolesOf(u) \cap Checkers = {} \/ RolesOf(u) \cap Executors = {}
      OBVIOUS
    <3>1. CASE u = Creator
      BY <3>1, <1>1 DEF IInv, CreatorNeverChecks, RolesOf
    <3>2. CASE u # Creator
      BY <3>2, <1>1, PeopleAssumption
         DEF IInv, CreatorExecutes, OneHolder, RolesOf, Roles
    <3> QED
      BY <3>1, <3>2
  <2> QED
    BY <2>1, <1>1 DEF IInv, OneHolder, DutiesSeparate
<1> QED
  BY <1>1, Invariance, PTL

\* No run without the consent of every required checker, who is neither the
\* maker nor the operator: what decide_approval and commit_preparation promise.
THEOREM RunsHaveConsentHolds == Spec => []RunsHaveConsent
<1>1. ASSUME IInv PROVE RunsHaveConsent
  <2> SUFFICES ASSUME NEW p \in Preps, run[p] # NoKey, NEW r \in prep[p].required
               PROVE  /\ slot[p][r].status = "approved"
                      /\ <<slot[p][r].by, r>> \in grants
                      /\ RolesOf(slot[p][r].by) \cap Executors = {}
    BY DEF RunsHaveConsent
  <2>1. r \in Checkers /\ slot[p][r].status = "approved"
    BY <1>1 DEF IInv, RunsAreApproved, ApprovedSlots
  <2>2. <<slot[p][r].by, r>> \in grants
    BY <1>1, <2>1 DEF IInv, DecidersHoldRoles
  <2>3. slot[p][r].by \in Users /\ slot[p][r].by # Creator
    BY <1>1, <2>1, <2>2 DEF IInv, TypeOK, CreatorNeverChecks
  <2>4. RolesOf(slot[p][r].by) \cap Executors = {}
    BY <1>1, <2>3, PeopleAssumption
       DEF IInv, CreatorExecutes, OneHolder, RolesOf, Roles
  <2> QED
    BY <2>1, <2>2, <2>4
<1> QED
  BY <1>1, Invariance, PTL

\* commit_preparation never makes a second run for a preparation, nor two runs
\* with one idempotency key.
THEOREM RunsAreRecordedHolds == Spec => []RunsAreRecorded
<1>1. ASSUME IInv PROVE RunsAreRecorded
  BY <1>1 DEF IInv, RunsAreApproved, KeysDiffer, RunsAreRecorded
<1> QED
  BY <1>1, Invariance, PTL

(***************************************************************************)
(* What is refused stays refused                                           *)
(***************************************************************************)
NoPending(p) == \A r \in Checkers : slot[p][r].status # "pending"

\* Nothing can be decided any more about a preparation that may be committed, and
\* about one that drifted; what has expired is late.
RefusalInv ==
    \A p \in Preps :
        /\ prep[p].status \in {"approved", "prepared"} => NoPending(p)
        /\ prep[p].status = "rejected" =>
               NoPending(p) \/ \E r \in Checkers : slot[p][r].status = "rejected"
        /\ prep[p].status = "expired" => p \in late

LEMMA RefusalInvKept == ASSUME IInv, RefusalInv, [Next]_vars PROVE RefusalInv'
<1>0. prep \in [Preps -> Prep] /\ slot \in [Preps -> [Checkers -> Slot]]
  BY DEF IInv, TypeOK
<1>1. CASE UNCHANGED <<prep, late, slot>>
  BY <1>1 DEF RefusalInv, NoPending
<1>2. ASSUME NEW p \in Preps, NEW required \in PolicyOutcomes, PrepareVersion(p, required)
      PROVE  RefusalInv'
  <2>1. /\ \A q \in Preps \ {p} : prep'[q] = prep[q] /\ slot'[q] = slot[q]
        /\ prep'[p].status = IF required = {} THEN "prepared" ELSE "approval_pending"
        /\ \A r \in Checkers : r \notin required => slot'[p][r] = NoSlot
        /\ UNCHANGED late
    BY <1>0, <1>2 DEF PrepareVersion
  <2> QED
    BY <2>1 DEF RefusalInv, NoPending, NoSlot
<1>3. ASSUME NEW p \in Preps, PassDeadline(p) PROVE RefusalInv'
  BY <1>3 DEF PassDeadline, RefusalInv, NoPending
<1>4. ASSUME NEW p \in Preps, NEW s \in PrepStatus,
             prep' = [prep EXCEPT ![p].status = s], UNCHANGED <<late, slot>>,
             \/ s = "expired" /\ p \in late
             \/ s = "rejected" /\ Committable(p)
             \/ s = "committed"
      PROVE  RefusalInv'
  <2>1. \A q \in Preps : prep'[q].status = IF q = p THEN s ELSE prep[q].status
    BY <1>0, <1>4, StatusOfOne
  <2> QED
    BY <1>4, <2>1 DEF RefusalInv, NoPending, Committable
<1>5. ASSUME NEW p \in Preps,
             \/ \E r \in Checkers : DecideLate(p, r)
             \/ CommitTooLate(p) \/ CommitDrifted(p)
             \/ \E k \in Keys : CommitNew(p, k)
      PROVE  RefusalInv'
  BY <1>4, <1>5 DEF DecideLate, CommitTooLate, CommitDrifted, CommitNew, PrepStatus
<1>6. ASSUME NEW p \in Preps, NEW r \in Checkers, NEW u \in Users,
             Reject(p, r, u) \/ Approve(p, r, u)
      PROVE  RefusalInv'
  <2>1. \E d \in {"approved", "rejected"} :
            \A q \in Preps, c \in Checkers :
                slot'[q][c] = IF q = p /\ c = r THEN [status |-> d, by |-> u] ELSE slot[q][c]
    BY <1>0, <1>6 DEF Reject, Approve, Record
  <2>2. UNCHANGED late
    BY <1>6 DEF Reject, Approve
  <2>3. CASE Reject(p, r, u)
    <3>1. \A q \in Preps : prep'[q].status = IF q = p THEN "rejected" ELSE prep[q].status
      BY <1>0, <2>3, StatusOfOne DEF Reject, PrepStatus
    <3>2. slot'[p][r].status = "rejected"
      BY <1>0, <2>3 DEF Reject, Record
    <3> QED
      BY <2>1, <2>2, <3>1, <3>2 DEF RefusalInv, NoPending
  <2>4. CASE Approve(p, r, u) /\ \E q \in Checkers \ {r} : slot[p][q].status = "pending"
    <3>1. UNCHANGED prep /\ slot[p][r].status = "pending"
      BY <2>4 DEF Approve, MayDecide
    <3>2. \A q \in Checkers : slot[p][q].status = "rejected" => slot'[p][q].status = "rejected"
      BY <2>1, <3>1
    <3> QED
      BY <2>1, <2>2, <3>1, <3>2 DEF RefusalInv, NoPending
  <2>5. CASE Approve(p, r, u) /\ ~\E q \in Checkers \ {r} : slot[p][q].status = "pending"
    <3>1. \A q \in Preps : prep'[q].status = IF q = p THEN "approved" ELSE prep[q].status
      BY <1>0, <2>5, StatusOfOne DEF Approve, PrepStatus
    <3>2. NoPending(p)'
      BY <2>1, <2>5 DEF NoPending
    <3> QED
      BY <2>1, <2>2, <3>1, <3>2 DEF RefusalInv, NoPending
  <2> QED
    BY <1>6, <2>3, <2>4, <2>5
<1> QED
  BY <1>1, <1>2, <1>3, <1>5, <1>6
     DEF Next, vars, AgentRunStep, StartAgentRun, EndAgentRun, AskInAgentRun, AnswerAgentRun,
         RequestRole, InsertRole, SubmitRun

THEOREM RefusalInvariance == Spec => []RefusalInv
<1>1. Init => RefusalInv
  BY DEF Init, RefusalInv
<1>2. IInv /\ RefusalInv /\ [Next]_vars => RefusalInv'
  BY RefusalInvKept
<1> QED
  BY <1>1, <1>2, Invariance, PTL DEF Spec

\* A rejection, a drift or the deadline is not undone by later decisions.
LEMMA RefusedStays ==
    ASSUME IInv, RefusalInv, [Next]_vars, NEW p \in Preps, Refused(p)
    PROVE  Refused(p)'
<1>0. prep \in [Preps -> Prep] /\ slot \in [Preps -> [Checkers -> Slot]]
  BY DEF IInv, TypeOK
<1>1. CASE UNCHANGED <<prep, slot>> /\ late \subseteq late'
  BY <1>1 DEF Refused
<1>2. ASSUME NEW q \in Preps, NEW required \in PolicyOutcomes, PrepareVersion(q, required)
      PROVE  Refused(p)'
  <2>1. CASE p = q
    <3>1. UNCHANGED late /\ prep[p].status = "absent" /\ \A r \in Checkers : slot[p][r].status = "absent"
      BY <1>2, <2>1 DEF PrepareVersion, IInv, SlotsAreRequired
    <3> QED
      BY <3>1 DEF Refused
  <2>2. CASE p # q
    BY <1>0, <1>2, <2>2 DEF PrepareVersion, Refused
  <2> QED
    BY <2>1, <2>2
<1>3. ASSUME NEW q \in Preps, NEW s \in PrepStatus,
             prep' = [prep EXCEPT ![q].status = s], UNCHANGED <<late, slot>>,
             s \in {"expired", "rejected"} \/ Committable(q)
      PROVE  Refused(p)'
  <2>1. prep'[p].status = IF p = q THEN s ELSE prep[p].status
    BY <1>0, <1>3, StatusOfOne
  <2> QED
    BY <1>3, <2>1 DEF Refused, Committable
<1>4. ASSUME NEW q \in Preps,
             \/ \E r \in Checkers : DecideLate(q, r)
             \/ CommitTooLate(q) \/ CommitDrifted(q)
             \/ \E k \in Keys : CommitNew(q, k)
      PROVE  Refused(p)'
  BY <1>3, <1>4 DEF DecideLate, CommitTooLate, CommitDrifted, CommitNew, PrepStatus
<1>5. ASSUME NEW q \in Preps, NEW r \in Checkers, NEW u \in Users,
             Reject(q, r, u) \/ Approve(q, r, u)
      PROVE  Refused(p)'
  <2>1. UNCHANGED late /\ slot[q][r].status = "pending" /\ q \notin late
    BY <1>5 DEF Reject, Approve, MayDecide
  <2>2. \A c \in Checkers : slot[p][c].status = "rejected" => slot'[p][c].status = "rejected"
    BY <1>0, <1>5, <2>1 DEF Reject, Approve, Record
  <2>3. CASE p # q
    <3>1. prep'[p] = prep[p]
      BY <1>0, <1>5, <2>3 DEF Reject, Approve
    <3> QED
      BY <2>1, <2>2, <3>1 DEF Refused
  <2>4. CASE p = q
    <3>1. \E c \in Checkers : slot[p][c].status = "rejected"
      BY <2>1, <2>4 DEF Refused, RefusalInv, NoPending
    <3> QED
      BY <2>2, <3>1 DEF Refused
  <2> QED
    BY <2>3, <2>4
<1> QED
  BY <1>1, <1>2, <1>4, <1>5
     DEF Next, vars, AgentRunStep, StartAgentRun, EndAgentRun, AskInAgentRun, AnswerAgentRun,
         RequestRole, InsertRole, SubmitRun, PassDeadline

LEMMA RefusedGetsNoRun ==
    ASSUME IInv, [Next]_vars, NEW p \in Preps, Refused(p), run[p] = NoKey
    PROVE  run'[p] = NoKey
<1>1. ASSUME NEW q \in Preps, NEW k \in Keys, CommitNew(q, k) PROVE run'[p] = NoKey
  <2>1. p # q
    BY <1>1 DEF CommitNew, Committable, Refused, ApprovedSlots, IInv, SlotsAreRequired
  <2> QED
    BY <1>1, <2>1 DEF CommitNew, IInv, TypeOK
<1>2. CASE UNCHANGED run
  BY <1>2
<1> QED
  BY <1>1, <1>2
     DEF Next, vars, AgentRunStep, StartAgentRun, EndAgentRun, AskInAgentRun, AnswerAgentRun,
         RequestRole, InsertRole, PrepareVersion, PassDeadline, DecideLate, Reject, Approve,
         CommitTooLate, CommitDrifted, SubmitRun

\* decide_approval and commit_preparation between them: what was refused before it
\* had a run is refused for good and gets none.
THEOREM RefusalIsFinalHolds == Spec => RefusalIsFinal
<1>1. IInv /\ RefusalInv /\ [Next]_vars =>
          [\A p \in Preps :
              Refused(p) /\ run[p] = NoKey => Refused(p)' /\ run'[p] = NoKey]_vars
  BY RefusedStays, RefusedGetsNoRun
<1> QED
  BY <1>1, Invariance, RefusalInvariance, PTL DEF Spec, RefusalIsFinal

\* The same over a whole behaviour.
THEOREM RefusedNeverRuns ==
    ASSUME NEW p \in Preps
    PROVE  Spec => [](Refused(p) /\ run[p] = NoKey => [](run[p] = NoKey))
<1>1. IInv /\ RefusalInv /\ Refused(p) /\ run[p] = NoKey /\ [Next]_vars
          => (Refused(p) /\ run[p] = NoKey)'
  BY RefusedStays, RefusedGetsNoRun
<1> QED
  BY <1>1, Invariance, RefusalInvariance, PTL DEF Spec

\* A decision recorded by decide_approval is final: only pending slots are
\* decided, and Prepare writes slots that did not exist.
THEOREM DecisionsStandHolds == Spec => DecisionsStand
<1>1. ASSUME IInv, [Next]_vars, NEW p \in Preps, NEW r \in Checkers,
             slot[p][r].status \in {"approved", "rejected"}
      PROVE  slot'[p][r] = slot[p][r]
  <2>1. CASE UNCHANGED slot
    BY <2>1
  <2>2. ASSUME NEW q \in Preps, NEW required \in PolicyOutcomes, PrepareVersion(q, required)
        PROVE  slot'[p][r] = slot[p][r]
    <3>1. p # q
      BY <1>1, <2>2 DEF PrepareVersion, IInv, SlotsAreRequired
    <3> QED
      BY <2>2, <3>1 DEF PrepareVersion, IInv, TypeOK
  <2>3. ASSUME NEW q \in Preps, NEW c \in Checkers, NEW u \in Users,
               Reject(q, c, u) \/ Approve(q, c, u)
        PROVE  slot'[p][r] = slot[p][r]
    <3>1. ~(p = q /\ r = c)
      BY <1>1, <2>3 DEF Reject, Approve, MayDecide
    <3> QED
      BY <1>1, <2>3, <3>1 DEF Reject, Approve, Record, IInv, TypeOK
  <2> QED
    BY <1>1, <2>1, <2>2, <2>3
       DEF Next, vars, AgentRunStep, StartAgentRun, EndAgentRun, AskInAgentRun, AnswerAgentRun, RequestRole, InsertRole, PassDeadline,
           DecideLate, CommitTooLate, CommitDrifted, CommitNew, SubmitRun
<1>2. IInv /\ [Next]_vars =>
          [\A p \in Preps, r \in Checkers :
              slot[p][r].status \in {"approved", "rejected"} => slot'[p][r] = slot[p][r]]_vars
  BY <1>1
<1> QED
  BY <1>2, Invariance, PTL DEF Spec, DecisionsStand

-----------------------------------------------------------------------------
(***************************************************************************)
(* Agent runs that do not overlap                                          *)
(***************************************************************************)
NoOverlap == agentRuns.active + agentRuns.waiting <= 1

\* The task that freezes the version is not delivered again.
FreezingEnds == version' # version => agentRuns'.active < agentRuns.active

\* A frozen version has no agent run left that could write it, and so what was
\* prepared and what was executed are what it still holds.
FrozenInv ==
    /\ version.immutable => agentRuns.active + agentRuns.waiting = 0
    /\ \A p \in Preps : prep[p].status # "absent" =>
           version.immutable /\ prep[p].digest = version.digest
    /\ \A p \in Preps : run[p] # NoKey \/ executed[p] # 0 => prep[p].status # "absent"
    /\ \A p \in Preps : executed[p] # 0 => executed[p] = prep[p].digest

LEMMA FrozenInvKept ==
    ASSUME IInv, FrozenInv, NoOverlap, [Next]_vars, [FreezingEnds]_vars
    PROVE  FrozenInv'
<1>0. /\ prep \in [Preps -> Prep] /\ executed \in [Preps -> Digests]
      /\ run \in [Preps -> Keys \cup {NoKey}]
      /\ agentRuns \in [started : Nat, active : Nat, waiting : Nat]
  BY DEF IInv, TypeOK
<1>1. CASE StartAgentRun
  BY <1>1 DEF FrozenInv, StartAgentRun
<1>2. CASE EndAgentRun
  <2>1. ~version.immutable /\ \A p \in Preps : prep[p].status = "absent"
    BY <1>0, <1>2 DEF FrozenInv, EndAgentRun
  <2>2. CASE UNCHANGED version
    BY <1>2, <2>1, <2>2 DEF FrozenInv, EndAgentRun
  <2>3. CASE version' # version
    <3>1. agentRuns'.active + agentRuns'.waiting = 0
      BY <1>0, <1>2, <2>3 DEF NoOverlap, EndAgentRun, FreezingEnds, vars
    <3> QED
      BY <1>2, <2>1, <3>1 DEF FrozenInv, EndAgentRun
  <2> QED
    BY <2>2, <2>3
<1>10. CASE AskInAgentRun \/ AnswerAgentRun
  BY <1>0, <1>10 DEF FrozenInv, AskInAgentRun, AnswerAgentRun
<1>3. ASSUME NEW p \in Preps, NEW required \in PolicyOutcomes, PrepareVersion(p, required)
      PROVE  FrozenInv'
  <2>1. /\ UNCHANGED <<version, agentRuns, run, executed>>
        /\ prep[p].status = "absent" /\ version.immutable
        /\ \A q \in Preps \ {p} : prep'[q] = prep[q]
        /\ prep'[p].status # "absent" /\ prep'[p].digest = version.digest
    BY <1>0, <1>3 DEF PrepareVersion
  <2> QED
    BY <2>1 DEF FrozenInv
<1>4. ASSUME UNCHANGED <<version, agentRuns, executed>>,
             \A p \in Preps : /\ prep'[p].digest = prep[p].digest
                              /\ prep'[p].status = "absent" <=> prep[p].status = "absent"
                              /\ run'[p] # NoKey => prep[p].status # "absent"
      PROVE  FrozenInv'
  BY <1>4 DEF FrozenInv
<1>5. ASSUME NEW p \in Preps, NEW s \in PrepStatus \ {"absent"}, prep[p].status # "absent",
             prep' = [prep EXCEPT ![p].status = s], UNCHANGED <<version, agentRuns, executed>>,
             UNCHANGED run \/ \E k \in Keys : run' = [run EXCEPT ![p] = k]
      PROVE  FrozenInv'
  <2>1. \A q \in Preps : /\ prep'[q].digest = prep[q].digest
                         /\ prep'[q].status = IF q = p THEN s ELSE prep[q].status
    BY <1>0, <1>5 DEF Prep
  <2>2. \A q \in Preps : run'[q] # NoKey => prep[q].status # "absent"
    BY <1>0, <1>5 DEF FrozenInv
  <2> QED
    BY <1>4, <1>5, <2>1, <2>2
<1>6. ASSUME NEW p \in Preps,
             \/ \E r \in Checkers : DecideLate(p, r)
             \/ CommitTooLate(p) \/ CommitDrifted(p)
             \/ \E k \in Keys : CommitNew(p, k)
      PROVE  FrozenInv'
  <2>1. prep[p].status # "absent"
    BY <1>6 DEF DecideLate, CommitTooLate, CommitDrifted, CommitNew, Committable, IInv,
                SlotsAreRequired
  <2> QED
    BY <1>5, <1>6, <2>1 DEF DecideLate, CommitTooLate, CommitDrifted, CommitNew, PrepStatus
<1>7. ASSUME NEW p \in Preps, NEW r \in Checkers, NEW u \in Users,
             Reject(p, r, u) \/ Approve(p, r, u)
      PROVE  FrozenInv'
  <2>1. prep[p].status # "absent"
    BY <1>7 DEF Reject, Approve, MayDecide, IInv, SlotsAreRequired
  <2>2. CASE UNCHANGED prep
    BY <1>4, <1>7, <2>2 DEF Reject, Approve, FrozenInv
  <2>3. CASE ~UNCHANGED prep
    BY <1>5, <1>7, <2>1, <2>3 DEF Reject, Approve, PrepStatus
  <2> QED
    BY <2>2, <2>3
<1>8. ASSUME NEW p \in Preps, SubmitRun(p) PROVE FrozenInv'
  <2>1. prep[p].status # "absent" /\ prep[p].digest = version.digest
    BY <1>8 DEF SubmitRun, FrozenInv
  <2>2. \A q \in Preps : executed'[q] = IF q = p THEN version.digest ELSE executed[q]
    BY <1>0, <1>8 DEF SubmitRun
  <2> QED
    BY <1>8, <2>1, <2>2 DEF SubmitRun, FrozenInv
<1>9. CASE \/ UNCHANGED vars
           \/ \E u \in Users, r \in Roles : RequestRole(u, r) \/ InsertRole(u, r)
           \/ \E p \in Preps : PassDeadline(p)
  BY <1>9 DEF vars, RequestRole, InsertRole, PassDeadline, FrozenInv
<1> QED
  BY <1>1, <1>2, <1>3, <1>6, <1>7, <1>8, <1>9, <1>10 DEF Next, AgentRunStep

\* What runs is what was approved if agent runs on the version do not overlap, one
\* that waits for an answer included, and the task that freezes it is acknowledged:
\* these are the ways in which _persist_generation_result, which does not look at
\* the version, comes to write one that is frozen already.
THEOREM ExecutesWhatWasApprovedAlone ==
    Spec /\ []NoOverlap /\ [][FreezingEnds]_vars => []ExecutesWhatWasApproved
<1>1. Init => FrozenInv
  BY DEF Init, FrozenInv
<1>2. IInv /\ FrozenInv /\ NoOverlap /\ [Next]_vars /\ [FreezingEnds]_vars => FrozenInv'
  BY FrozenInvKept
<1>3. FrozenInv => ExecutesWhatWasApproved
  BY DEF FrozenInv, ExecutesWhatWasApproved
<1> QED
  BY <1>1, <1>2, <1>3, Invariance, PTL DEF Spec

===============================================================================

-------------------------- MODULE RowRouting_proofs --------------------------
(***************************************************************************)
(* What RowRouting guarantees for any filters, required fields, thresholds *)
(* and any number of rows: the two queries split the source, only rows     *)
(* that pass are published, no row vanishes while the source keeps still,  *)
(* a passed verdict is within the rate, and nothing is published without a *)
(* verdict.                                                                *)
(***************************************************************************)
EXTENDS RowRouting, FiniteSetTheorems, TLAPS

-----------------------------------------------------------------------------
(***************************************************************************)
(* The inductive invariant                                                 *)
(***************************************************************************)

\* What is in the load satisfied the condition when the job read it.
LoadPasses == \A r \in shadow \cup target : r \in Ids \X Row /\ Accepted(r[2])

\* While the tables exist, the load of a finished job is in one of them.
LoadIsRead == job = "SUCCEEDED" /\ tables => shadow \cup target = MainQuery(read)

\* The load is in the target only after the one swap.
TargetIsSwap == event["swap"] # "PUBLISHED" => target = {}

Capturing == look.pc \in {"read", "cleared"}

\* Rows are captured from a finished job only.
LookAfterJob == Capturing => job = "SUCCEEDED"

\* As long as the source keeps still the capture sees what the job saw.
StillSource ==
    changes = 0 => /\ source = read
                   /\ Capturing => look.rows = ErrorQuery(read)

\* A verdict is given on a finished job, and leaves the captured rows.
VerdictOnRead ==
    run.quality \in {"PASSED", "REJECTED"} =>
        /\ job = "SUCCEEDED"
        /\ changes = 0 /\ faults = 0 /\ Conditioned /\ Unlocked /\ tables
              => errors = ErrorQuery(read)

\* Publishing starts with a report, and a report with a finished job.
ReportFirst ==
    /\ run.publish \in {"SWAP_REQUESTED", "PUBLISHED"} \/ event["swap"] # "absent"
        => report # NoReport
    /\ report # NoReport => job = "SUCCEEDED"

\* The inductive invariant.
IInv ==
    /\ TypeOK
    /\ IsFiniteSet(look.rows)
    /\ LoadPasses /\ LoadIsRead /\ TargetIsSwap
    /\ LookAfterJob /\ StillSource /\ VerdictOnRead /\ ReportFirst

-----------------------------------------------------------------------------
(***************************************************************************)
(* The queries                                                             *)
(***************************************************************************)

\* The reverse query selects exactly the rows that the main query leaves out,
\* whatever is NULL or unknown in them.
LEMMA QueriesSplit ==
  ASSUME NEW row \in Row, Conditioned
  PROVE  Refused(row) <=> ~Accepted(row)
<1>1. Condition(row) \in Truth
  BY DEF Condition, And3, Truth
<1>2. CASE Condition(row) = "true"
  BY <1>2 DEF Refused, Accepted, Or3, Not3, IsNull3, And3
<1>3. CASE Condition(row) = "false"
  BY <1>3 DEF Refused, Accepted, Or3, Not3, IsNull3, And3
<1>4. CASE Condition(row) = "unknown"
  BY <1>4 DEF Refused, Accepted, Or3, Not3, IsNull3, And3
<1> QED
  BY <1>1, <1>2, <1>3, <1>4 DEF Truth

\* What the main query accepts satisfies each condition by itself.
LEMMA AcceptedMeans ==
  ASSUME NEW row \in Row, Accepted(row)
  PROVE  /\ \A f \in Filters : row.filter[f] = "true"
         /\ \A q \in Required : row.field[q] # "null"
<1> DEFINE S == {row.filter[f] : f \in Filters}
                  \cup {IF row.field[q] = "null" THEN "false" ELSE "true" : q \in Required}
<1>1. "false" \notin S /\ "unknown" \notin S
  BY DEF Accepted, Condition, And3
<1>2. ASSUME NEW f \in Filters PROVE row.filter[f] = "true"
  <2>1. row.filter[f] \in Truth
    BY DEF Row
  <2> QED
    BY <1>1, <2>1 DEF Truth
<1>3. ASSUME NEW q \in Required PROVE row.field[q] # "null"
  BY <1>1
<1> QED
  BY <1>2, <1>3

LEMMA RowsTyped ==
  ASSUME NEW src \in Source
  PROVE  /\ RowsOf(src) \in Table
         /\ MainQuery(src) \in Table /\ ErrorQuery(src) \in Table
         /\ \A r \in MainQuery(src) : r \in Ids \X Row /\ Accepted(r[2])
<1>1. \A i \in Ids : src[i] # NoRow => src[i] \in Row
  BY DEF Source
<1> QED
  BY <1>1 DEF RowsOf, MainQuery, ErrorQuery, Table

LEMMA RowsFinite ==
  ASSUME NEW src \in Source
  PROVE  IsFiniteSet(MainQuery(src)) /\ IsFiniteSet(ErrorQuery(src))
<1> DEFINE D == {j \in Ids : src[j] # NoRow}
           g == [i \in D |-> <<i, src[i]>>]
<1>1. IsFiniteSet(D)
  BY FS_Subset, RoutingAssumption DEF RoutingAssumption
<1>2. g \in Surjection(D, RowsOf(src))
  BY DEF RowsOf, Surjection
<1>3. IsFiniteSet(RowsOf(src))
  BY <1>1, <1>2, FS_Surjection
<1> QED
  BY <1>3, FS_Subset DEF MainQuery, ErrorQuery

LEMMA QueriesPartition ==
  ASSUME NEW src \in Source, Conditioned
  PROVE  /\ MainQuery(src) \cup ErrorQuery(src) = RowsOf(src)
         /\ MainQuery(src) \cap ErrorQuery(src) = {}
<1>1. \A r \in RowsOf(src) : r[2] \in Row
  BY DEF RowsOf, Source
<1>2. \A r \in RowsOf(src) : Refused(r[2]) <=> ~Accepted(r[2])
  BY <1>1, QueriesSplit
<1> QED
  BY <1>2 DEF MainQuery, ErrorQuery

-----------------------------------------------------------------------------
(***************************************************************************)
(* The counts                                                              *)
(***************************************************************************)
LEMMA ReportedTyped ==
  ASSUME TypeOK, NEW m \in Reported
  PROVE  /\ m \in Metrics /\ m.rejected = 0
         /\ Cardinality(MainQuery(read)) \in Nat
         /\ m.input \in {0, Cardinality(MainQuery(read))}
         /\ m.output \in {0, Cardinality(MainQuery(read))}
<1>1. Cardinality(MainQuery(read)) \in Nat
  BY RowsFinite, FS_CardinalityType DEF TypeOK
<1> QED
  BY <1>1 DEF Reported, Metrics

-----------------------------------------------------------------------------
(***************************************************************************)
(* The invariant is inductive                                              *)
(***************************************************************************)
LEMMA InitInv == Init => IInv
<1> SUFFICES ASSUME Init PROVE IInv
  OBVIOUS
<1>1. TypeOK
  <2>1. source \in Source /\ read \in Source /\ shadow \in Table /\ errors \in Table /\ target \in Table
    BY DEF Init, Table
  <2>2. run \in Run /\ look \in Look
    BY DEF Init, Run, Look, Idle, Table
  <2>3. report \in Report
    BY DEF Init, Report, NoReport, Metrics
  <2>4. event \in [EventKinds -> {"absent", "PENDING", "PUBLISHED", "FAILED"}]
    BY DEF Init, EventKinds
  <2>5. changes \in 0..MaxChanges /\ looks \in 0..MaxLooks /\ faults \in 0..MaxFaults
    BY RoutingAssumption DEF Init, RoutingAssumption
  <2>6. job \in {"RUNNING", "SUCCEEDED", "FAILED"} /\ tables \in BOOLEAN /\ swapped \in BOOLEAN
    BY DEF Init
  <2> QED
    BY <2>1, <2>2, <2>3, <2>4, <2>5, <2>6 DEF TypeOK
<1>2. IsFiniteSet(look.rows)
  BY FS_EmptySet DEF Init, Idle
<1>3. LoadPasses /\ LoadIsRead /\ TargetIsSwap /\ LookAfterJob /\ StillSource
  BY DEF Init, Idle, LoadPasses, LoadIsRead, TargetIsSwap, LookAfterJob, StillSource, Capturing
<1>4. VerdictOnRead /\ ReportFirst
  BY DEF Init, VerdictOnRead, ReportFirst, EventKinds
<1> QED
  BY <1>1, <1>2, <1>3, <1>4 DEF IInv

LEMMA SourceChangesInv ==
  ASSUME IInv, SourceChanges PROVE IInv'
<1>1. TypeOK'
  BY RoutingAssumption DEF IInv, TypeOK, SourceChanges, Source, tableVars, RoutingAssumption
<1>2. StillSource'
  BY DEF IInv, SourceChanges, StillSource, Capturing, Idle, TypeOK, Look, LookAfterJob, tableVars
<1>3. VerdictOnRead'
  BY DEF IInv, SourceChanges, VerdictOnRead, StillSource, LookAfterJob, Capturing, Unlocked, Idle, TypeOK, Look, Run, tableVars
<1>4. (IsFiniteSet(look.rows) /\ LoadPasses /\ LoadIsRead /\ TargetIsSwap /\ LookAfterJob /\ ReportFirst)'
  BY DEF IInv, SourceChanges, LoadPasses, LoadIsRead, TargetIsSwap, LookAfterJob, ReportFirst, Capturing, tableVars
<1> QED
  BY <1>1, <1>2, <1>3, <1>4 DEF IInv

LEMMA JobEndsInv ==
  ASSUME IInv, JobEnds PROVE IInv'
<1>1. TypeOK'
  BY RowsTyped DEF IInv, TypeOK, JobEnds, tableVars
<1>2. LoadPasses'
  BY RowsTyped DEF IInv, JobEnds, LoadPasses, TypeOK, tableVars
<1>3. LoadIsRead'
  BY DEF IInv, JobEnds, LoadIsRead, TargetIsSwap, ReportFirst, VerdictOnRead, tableVars
<1>4. LookAfterJob'
  BY DEF IInv, JobEnds, LookAfterJob, Capturing, Idle, TypeOK, Look, tableVars
<1>5. StillSource'
  BY DEF IInv, JobEnds, StillSource, Capturing, Idle, TypeOK, Look, LookAfterJob, tableVars
<1>6. VerdictOnRead'
  BY DEF IInv, JobEnds, VerdictOnRead, StillSource, LookAfterJob, Capturing, Unlocked, Idle, TypeOK, Look, Run, tableVars
<1>7. (IsFiniteSet(look.rows) /\ TargetIsSwap /\ ReportFirst)'
  BY DEF IInv, JobEnds, TargetIsSwap, ReportFirst, tableVars
<1> QED
  BY <1>1, <1>2, <1>3, <1>4, <1>5, <1>6, <1>7 DEF IInv

LEMMA ObserveUnfinishedInv ==
  ASSUME IInv, ObserveUnfinished PROVE IInv'
<1>1. TypeOK'
  <2>1. run' \in Run
    BY DEF IInv, TypeOK, ObserveUnfinished, Run
  <2>2. errors' \in Table
    BY DEF IInv, TypeOK, ObserveUnfinished, Look, Table, tableVars
  <2>3. look' \in Look
    BY DEF ObserveUnfinished, Look, Idle, Table
  <2> QED
    BY <2>1, <2>2, <2>3, RoutingAssumption DEF IInv, TypeOK, ObserveUnfinished, Observes, Stopped, tableVars, RoutingAssumption
<1>2. (IsFiniteSet(look.rows))'
  BY FS_EmptySet DEF IInv, ObserveUnfinished, Observes, Stopped, tableVars, Idle
<1>3. LookAfterJob'
  BY DEF IInv, ObserveUnfinished, LookAfterJob, Capturing, Idle, TypeOK, Look, Observes, Stopped, tableVars
<1>4. StillSource'
  BY DEF IInv, ObserveUnfinished, StillSource, Capturing, Idle, TypeOK, Look, LookAfterJob, Observes, Stopped, tableVars
<1>5. VerdictOnRead'
  BY DEF IInv, ObserveUnfinished, VerdictOnRead, StillSource, LookAfterJob, Capturing, Unlocked, Idle, TypeOK, Look, Run, Observes, Stopped, tableVars
<1>6. ReportFirst'
  BY DEF IInv, ObserveUnfinished, ReportFirst, EventKinds, TypeOK, Run, Observes, Stopped, tableVars
<1>7. (LoadPasses /\ LoadIsRead /\ TargetIsSwap)'
  BY DEF IInv, ObserveUnfinished, LoadPasses, LoadIsRead, TargetIsSwap, tableVars
<1> QED
  BY <1>1, <1>2, <1>3, <1>4, <1>5, <1>6, <1>7 DEF IInv

LEMMA ReadRefusedInv ==
  ASSUME IInv, ReadRefused PROVE IInv'
<1>1. TypeOK'
  BY RoutingAssumption, RowsTyped DEF IInv, TypeOK, ReadRefused, Observes, Look, tableVars, RoutingAssumption, Stopped
<1>2. (IsFiniteSet(look.rows))'
  BY RowsFinite DEF IInv, ReadRefused, TypeOK, Observes, Stopped, tableVars
<1>3. LookAfterJob'
  BY DEF IInv, ReadRefused, LookAfterJob, Capturing, Idle, TypeOK, Look, Observes, Stopped, tableVars
<1>4. StillSource'
  BY DEF IInv, ReadRefused, StillSource, Capturing, Idle, TypeOK, Look, LookAfterJob, Observes, Stopped, tableVars
<1>5. VerdictOnRead'
  BY DEF IInv, ReadRefused, VerdictOnRead, StillSource, LookAfterJob, Capturing, Unlocked, Idle, TypeOK, Look, Run, Observes, Stopped, tableVars
<1>6. (LoadPasses /\ LoadIsRead /\ TargetIsSwap /\ ReportFirst)'
  BY DEF IInv, ReadRefused, LoadPasses, LoadIsRead, TargetIsSwap, ReportFirst, tableVars
<1> QED
  BY <1>1, <1>2, <1>3, <1>4, <1>5, <1>6 DEF IInv

LEMMA ClearErrorsInv ==
  ASSUME IInv, ClearErrors PROVE IInv'
<1>1. TypeOK'
  BY DEF IInv, TypeOK, ClearErrors, Look, Table, tableVars
<1>2. (IsFiniteSet(look.rows))'
  BY DEF IInv, ClearErrors, tableVars, Idle
<1>3. LookAfterJob'
  BY DEF IInv, ClearErrors, LookAfterJob, Capturing, Idle, TypeOK, Look, tableVars
<1>4. StillSource'
  BY DEF IInv, ClearErrors, StillSource, Capturing, Idle, TypeOK, Look, LookAfterJob, tableVars
<1>5. VerdictOnRead'
  BY DEF IInv, ClearErrors, VerdictOnRead, StillSource, LookAfterJob, Capturing, Unlocked, Idle, TypeOK, Look, Run, tableVars
<1>6. (LoadPasses /\ LoadIsRead /\ TargetIsSwap /\ ReportFirst)'
  BY DEF IInv, ClearErrors, LoadPasses, LoadIsRead, TargetIsSwap, ReportFirst, tableVars
<1> QED
  BY <1>1, <1>2, <1>3, <1>4, <1>5, <1>6 DEF IInv

LEMMA JudgeQualityInv ==
  ASSUME IInv, JudgeQuality PROVE IInv'
<1>1. PICK m \in Reported : JudgeBy(m)
  BY DEF JudgeQuality
<1> DEFINE counts == IF Conditioned
                     THEN [m EXCEPT !.rejected = CountRejected(m, Cardinality(look.rows))]
                     ELSE m
<1>2. counts \in Metrics
  <2>1. m \in Metrics /\ Cardinality(look.rows) \in Nat
    BY ReportedTyped, FS_CardinalityType DEF IInv
  <2> QED
    BY <2>1 DEF Metrics, CountRejected, Larger
<1>3. Verdict(counts) \in {"PASSED", "REJECTED"}
  BY DEF Verdict
<1>4. /\ run' = Judged(Verdict(counts))
      /\ report' = IF report = NoReport THEN [verdict |-> Verdict(counts), counts |-> counts]
                                        ELSE report
  BY <1>1 DEF JudgeBy
<1> HIDE DEF counts
<1>5. run' \in Run /\ report' \in Report
  BY <1>2, <1>3, <1>4 DEF IInv, TypeOK, Judged, Run, Report
<1>6. TypeOK'
  BY <1>5 DEF IInv, TypeOK, JudgeQuality, Look, Idle, Table
<1>7. (IsFiniteSet(look.rows))'
  BY FS_EmptySet DEF JudgeQuality, Idle
<1>8. LookAfterJob' /\ StillSource'
  BY DEF IInv, JudgeQuality, LookAfterJob, StillSource, Capturing, Idle
<1>9. VerdictOnRead'
  BY DEF IInv, JudgeQuality, VerdictOnRead, StillSource, LookAfterJob, Capturing
<1>10. ReportFirst'
  BY <1>3, <1>4 DEF IInv, JudgeQuality, ReportFirst, NoReport, LookAfterJob, Capturing
<1>11. (LoadPasses /\ LoadIsRead /\ TargetIsSwap)'
  BY DEF IInv, JudgeQuality, LoadPasses, LoadIsRead, TargetIsSwap
<1> QED
  BY <1>6, <1>7, <1>8, <1>9, <1>10, <1>11 DEF IInv

LEMMA CaptureFailsInv ==
  ASSUME IInv, CaptureFails PROVE IInv'
<1>1. TypeOK'
  <2>1. run' \in Run
    BY DEF IInv, TypeOK, CaptureFails, Run
  <2>2. errors' \in Table
    BY DEF IInv, TypeOK, CaptureFails, Look, Table
  <2>3. look' \in Look
    BY DEF CaptureFails, Look, Idle, Table
  <2> QED
    BY <2>1, <2>2, <2>3, RoutingAssumption DEF IInv, TypeOK, CaptureFails, Fault, NoFault, tableVars, RoutingAssumption
<1>2. (IsFiniteSet(look.rows))'
  BY FS_EmptySet DEF IInv, CaptureFails, Fault, NoFault, tableVars, Idle
<1>3. LookAfterJob'
  BY DEF IInv, CaptureFails, LookAfterJob, Capturing, Idle, TypeOK, Look, Fault, NoFault, tableVars
<1>4. StillSource'
  BY DEF IInv, CaptureFails, StillSource, Capturing, Idle, TypeOK, Look, LookAfterJob, Fault, NoFault, tableVars
<1>5. VerdictOnRead'
  BY DEF IInv, CaptureFails, VerdictOnRead, StillSource, LookAfterJob, Capturing, Unlocked, Idle, TypeOK, Look, Run, Fault, NoFault, tableVars
<1>6. ReportFirst'
  BY DEF IInv, CaptureFails, ReportFirst, EventKinds, TypeOK, Run, Fault, NoFault, tableVars
<1>7. (LoadPasses /\ LoadIsRead /\ TargetIsSwap)'
  BY DEF IInv, CaptureFails, LoadPasses, LoadIsRead, TargetIsSwap, tableVars
<1> QED
  BY <1>1, <1>2, <1>3, <1>4, <1>5, <1>6, <1>7 DEF IInv

LEMMA ObserverDiesInv ==
  ASSUME IInv, ObserverDies PROVE IInv'
<1>1. TypeOK'
  BY RoutingAssumption DEF IInv, TypeOK, ObserverDies, Fault, Look, Idle, Table, tableVars, RoutingAssumption
<1>2. (IsFiniteSet(look.rows))'
  BY FS_EmptySet DEF IInv, ObserverDies, Fault, tableVars, Idle
<1>3. LookAfterJob'
  BY DEF IInv, ObserverDies, LookAfterJob, Capturing, Idle, TypeOK, Look, Fault, tableVars
<1>4. StillSource'
  BY DEF IInv, ObserverDies, StillSource, Capturing, Idle, TypeOK, Look, LookAfterJob, Fault, tableVars
<1>5. VerdictOnRead'
  BY DEF IInv, ObserverDies, VerdictOnRead, StillSource, LookAfterJob, Capturing, Unlocked, Idle, TypeOK, Look, Run, Fault, tableVars
<1>6. (LoadPasses /\ LoadIsRead /\ TargetIsSwap /\ ReportFirst)'
  BY DEF IInv, ObserverDies, LoadPasses, LoadIsRead, TargetIsSwap, ReportFirst, tableVars
<1> QED
  BY <1>1, <1>2, <1>3, <1>4, <1>5, <1>6 DEF IInv

LEMMA QueueFollowUpInv ==
  ASSUME IInv, QueueFollowUp PROVE IInv'
<1>1. TypeOK'
  BY DEF IInv, TypeOK, QueueFollowUp, Look, Idle, Table, EventKinds, tableVars, Stopped
<1>2. (IsFiniteSet(look.rows))'
  BY FS_EmptySet DEF IInv, QueueFollowUp, Stopped, tableVars, Idle
<1>3. TargetIsSwap'
  BY DEF IInv, QueueFollowUp, TargetIsSwap, EventKinds, TypeOK, Live, tableVars
<1>4. LookAfterJob'
  BY DEF IInv, QueueFollowUp, LookAfterJob, Capturing, Idle, TypeOK, Look, Stopped, tableVars
<1>5. StillSource'
  BY DEF IInv, QueueFollowUp, StillSource, Capturing, Idle, TypeOK, Look, LookAfterJob, Stopped, tableVars
<1>6. VerdictOnRead'
  BY DEF IInv, QueueFollowUp, VerdictOnRead, StillSource, LookAfterJob, Capturing, Unlocked, Idle, TypeOK, Look, Run, Stopped, tableVars
<1>7. ReportFirst'
  BY DEF IInv, QueueFollowUp, ReportFirst, EventKinds, TypeOK, Run, Stopped, tableVars
<1>8. (LoadPasses /\ LoadIsRead)'
  BY DEF IInv, QueueFollowUp, LoadPasses, LoadIsRead, tableVars
<1> QED
  BY <1>1, <1>2, <1>3, <1>4, <1>5, <1>6, <1>7, <1>8 DEF IInv

LEMMA SwapInv ==
  ASSUME IInv, Swap PROVE IInv'
<1>1. TypeOK'
  BY DEF IInv, TypeOK, Swap, Run, Table, EventKinds, Unlocked
<1>2. LoadPasses'
  BY DEF IInv, Swap, LoadPasses, Unlocked
<1>3. LoadIsRead'
  BY DEF IInv, Swap, LoadIsRead, TargetIsSwap
<1>4. TargetIsSwap'
  BY DEF IInv, Swap, TargetIsSwap, EventKinds, TypeOK, Unlocked
<1>5. VerdictOnRead'
  BY DEF IInv, Swap, VerdictOnRead, StillSource, LookAfterJob, Capturing, Unlocked, Idle, TypeOK, Look, Run
<1>6. ReportFirst'
  BY DEF IInv, Swap, ReportFirst, EventKinds, TypeOK, Run, Unlocked
<1>7. (IsFiniteSet(look.rows) /\ LookAfterJob /\ StillSource)'
  BY DEF IInv, Swap, LookAfterJob, StillSource, Capturing
<1> QED
  BY <1>1, <1>2, <1>3, <1>4, <1>5, <1>6, <1>7 DEF IInv

LEMMA CleanupInv ==
  ASSUME IInv, Cleanup PROVE IInv'
<1>1. TypeOK'
  BY DEF IInv, TypeOK, Cleanup, Run, Table, EventKinds
<1>2. LoadPasses'
  BY DEF IInv, Cleanup, LoadPasses
<1>3. LoadIsRead'
  BY DEF IInv, Cleanup, LoadIsRead
<1>4. TargetIsSwap'
  BY DEF IInv, Cleanup, TargetIsSwap, EventKinds, TypeOK
<1>5. VerdictOnRead'
  BY DEF IInv, Cleanup, VerdictOnRead, StillSource, LookAfterJob, Capturing, Unlocked, Idle, TypeOK, Look, Run
<1>6. ReportFirst'
  BY DEF IInv, Cleanup, ReportFirst, EventKinds, TypeOK, Run
<1>7. (IsFiniteSet(look.rows) /\ LookAfterJob /\ StillSource)'
  BY DEF IInv, Cleanup, LookAfterJob, StillSource, Capturing
<1> QED
  BY <1>1, <1>2, <1>3, <1>4, <1>5, <1>6, <1>7 DEF IInv

LEMMA NextInv ==
  ASSUME IInv, [Next]_vars PROVE IInv'
<1>1. CASE UNCHANGED vars
  BY <1>1 DEF IInv, vars, tableVars, TypeOK, LoadPasses, LoadIsRead, TargetIsSwap, Capturing,
     LookAfterJob, StillSource, VerdictOnRead, ReportFirst, Unlocked
<1>2. CASE Next
  BY <1>2, SourceChangesInv, JobEndsInv, ObserveUnfinishedInv, ReadRefusedInv, ClearErrorsInv,
     JudgeQualityInv, CaptureFailsInv, ObserverDiesInv, QueueFollowUpInv, SwapInv, CleanupInv
     DEF Next
<1> QED
  BY <1>1, <1>2

\* The strengthening holds in every reachable state.
THEOREM Invariance == Spec => []IInv
<1>1. Init => IInv
  BY InitInv
<1>2. IInv /\ [Next]_vars => IInv'
  BY NextInv
<1> QED
  BY <1>1, <1>2, PTL DEF Spec

\* Whatever the filters and the required fields, no row reaches the target that
\* does not satisfy each of them.
THEOREM PublishedRowsPassHolds == Spec => []PublishedRowsPass
<1>1. IInv => PublishedRowsPass
  <2> SUFFICES ASSUME IInv, NEW r \in target
               PROVE  /\ \A f \in Filters : r[2].filter[f] = "true"
                      /\ \A q \in Required : r[2].field[q] # "null"
    BY DEF PublishedRowsPass
  <2>1. r[2] \in Row /\ Accepted(r[2])
    BY DEF IInv, LoadPasses
  <2> QED
    BY <2>1, AcceptedMeans
<1> QED
  BY <1>1, Invariance, PTL

\* Whatever the rows, each one that the job read is in the load or in the error
\* table when a verdict is out, and in one of them only.
THEOREM NothingVanishesHolds == Spec => []NothingVanishes
<1>1. IInv => NothingVanishes
  <2> SUFFICES ASSUME IInv, changes = 0, faults = 0, Conditioned, Unlocked, tables,
                      run.quality \in {"PASSED", "REJECTED"}
               PROVE  /\ shadow \cup target \cup errors = RowsOf(read)
                      /\ (shadow \cup target) \cap errors = {}
    BY DEF NothingVanishes
  <2>1. errors = ErrorQuery(read) /\ shadow \cup target = MainQuery(read)
    BY DEF IInv, VerdictOnRead, LoadIsRead
  <2>2. read \in Source
    BY DEF IInv, TypeOK
  <2> QED
    BY <2>1, <2>2, QueriesPartition
<1> QED
  BY <1>1, Invariance, PTL

\* No publication without a verdict that was committed.
THEOREM PublishedWasJudgedHolds == Spec => []PublishedWasJudged
<1>1. IInv => PublishedWasJudged
  BY DEF IInv, ReportFirst, PublishedWasJudged
<1> QED
  BY <1>1, Invariance, PTL

\* A verdict that passes leaves at most the rate of the contract in the error
\* table, whether or not the engine reported what it read.
LEMMA PassedMeans ==
  ASSUME IInv, JudgeQuality, Conditioned, run'.quality = "PASSED"
  PROVE  Cardinality(errors') * 100
           <= MaxRate * (Cardinality(errors') + Cardinality(MainQuery(read)))
<1> DEFINE R == Cardinality(look.rows)
           N == Cardinality(MainQuery(read))
<1>1. PICK m \in Reported : JudgeBy(m)
  BY DEF JudgeQuality
<1> DEFINE counts == [m EXCEPT !.rejected = CountRejected(m, R)]
<1>2. /\ m \in Metrics /\ m.rejected = 0
      /\ R \in Nat /\ N \in Nat /\ m.input \in {0, N} /\ m.output \in {0, N}
  BY ReportedTyped, FS_CardinalityType DEF IInv
<1>3. errors' = look.rows
  BY DEF JudgeQuality
<1>4. ~RateExceeded(counts)
  BY <1>1 DEF JudgeBy, Judged, Verdict
<1> DEFINE K == CountRejected(m, R)
           T == Total(counts)
<1>5. counts.rejected = K /\ K \in Nat /\ R <= K
  BY <1>2 DEF CountRejected, Larger, Metrics
<1>6. T \in Nat /\ K <= T /\ T <= R + N
  BY <1>2, <1>5 DEF CountRejected, Larger, Metrics, Total
<1>7. T > 0 => ~(K * 100 > MaxRate * T)
  BY <1>4, <1>5 DEF RateExceeded
<1> HIDE DEF R, N, K, T, counts
<1>8. MaxRate * T <= MaxRate * (R + N) /\ MaxRate * T \in Int /\ MaxRate * (R + N) \in Int
  <2>1. MaxRate \in Int /\ MaxRate >= 0
    BY RoutingAssumption DEF RoutingAssumption
  <2>2. PICK d \in Nat : R + N = T + d
    BY <1>2, <1>6
  <2>3. MaxRate * (T + d) = MaxRate * T + MaxRate * d /\ MaxRate * d >= 0 /\ MaxRate * d \in Int
        /\ MaxRate * T \in Int
    BY <1>6, <2>1, <2>2, Z3
  <2> QED
    BY <2>2, <2>3
<1>9. K * 100 <= MaxRate * T
  <2>1. CASE T = 0
    BY <1>5, <1>6, <2>1, RoutingAssumption DEF RoutingAssumption
  <2>2. CASE T > 0
    BY <1>5, <1>7, <1>8, <2>2
  <2> QED
    BY <1>6, <2>1, <2>2
<1>10. R * 100 <= MaxRate * (R + N)
  BY <1>2, <1>5, <1>8, <1>9
<1> QED
  BY <1>3, <1>10 DEF R, N

\* A step that gives a passed verdict is JudgeQuality, so the rate holds for it.
THEOREM PassedWithinRateHolds == Spec => PassedWithinRate
<1> DEFINE A == run'.quality = "PASSED" /\ look.pc = "cleared" /\ look'.pc = "judged" /\ Conditioned
                  => Cardinality(errors') * 100
                       <= MaxRate * (Cardinality(errors') + Cardinality(MainQuery(read)))
<1>1. ASSUME IInv, [Next]_vars PROVE [A]_vars
  <2>1. CASE JudgeQuality
    BY <1>1, <2>1, PassedMeans
  <2>2. CASE CaptureFails
    BY <1>1, <2>2 DEF CaptureFails, IInv, TypeOK, Run
  <2>3. CASE SourceChanges \/ JobEnds \/ Swap \/ Cleanup
    BY <2>3 DEF SourceChanges, JobEnds, Swap, Cleanup, Unlocked
  <2>4. CASE ObserveUnfinished \/ ReadRefused \/ ClearErrors \/ ObserverDies \/ QueueFollowUp
    BY <2>4 DEF ObserveUnfinished, ReadRefused, ClearErrors, ObserverDies, QueueFollowUp, Observes,
       Idle
  <2> QED
    BY <1>1, <2>1, <2>2, <2>3, <2>4 DEF Next
<1> QED
  BY <1>1, Invariance, PTL DEF Spec, PassedWithinRate

=============================================================================

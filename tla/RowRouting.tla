----------------------------- MODULE RowRouting -----------------------------
(***************************************************************************)
(* Which rows of the source end up where.  The compiler turns the plan of  *)
(* one execution into two queries: the job reads the rows that satisfy     *)
(* every filter and have every required field; once the job is finished    *)
(* supervision reads the others and writes them into the error table.      *)
(* From the counts it judges the quality, and what it decides is swapped   *)
(* or cleaned up by the Tool Broker.                                       *)
(*                                                                         *)
(* The source is a live table: its owner may change it between the two     *)
(* queries, and between two observations of one finished job.  Conditions  *)
(* have the three truth values of SQL.                                     *)
(*                                                                         *)
(* An observation keeps the row lock of its execution while it reads the   *)
(* source and rewrites the error table, outside the database transaction,  *)
(* so it is split at those effects.  How the broker comes to swap or to    *)
(* clean up once is the subject of ExecutionLifecycle.                     *)
(***************************************************************************)
EXTENDS Integers, FiniteSets

CONSTANTS
    Ids,            \* the keys a row of the source can have
    Filters,        \* the FILTER conditions of the plan
    Required,       \* the required fields of its quality contract
    NoRow,          \* the value of a key that has no row
    MaxRate,        \* max_rejection_rate of the contract, in percent
    MaxInput,       \* max_input_records of the budget
    MaxChanges,     \* bound: changes of the source
    MaxLooks,       \* bound: observations of the job
    MaxFaults       \* bound: failed statements and lost workers

ASSUME RoutingAssumption ==
    /\ IsFiniteSet(Ids)
    /\ MaxRate \in 0..100
    /\ MaxInput \in Nat
    /\ MaxChanges \in Nat /\ MaxLooks \in Nat /\ MaxFaults \in Nat

-----------------------------------------------------------------------------
(***************************************************************************)
(* The two queries                                                         *)
(***************************************************************************)
Truth == {"true", "false", "unknown"}

\* A required field of the source may hold a value, NULL, or a value of which
\* the CAST that the plan asks for makes NULL (MySQL casts a text that is no
\* date to NULL, with a warning).
Row == [filter : [Filters -> Truth], field : [Required -> {"value", "null", "uncastable"}]]

ASSUME NoRowAssumption == NoRow \notin Row

And3(S) ==
    IF "false" \in S THEN "false" ELSE IF "unknown" \in S THEN "unknown" ELSE "true"

Not3(a) == CASE a = "true" -> "false" [] a = "false" -> "true" [] a = "unknown" -> "unknown"

IsNull3(a) == IF a = "unknown" THEN "true" ELSE "false"

Or3(a, b) == Not3(And3({Not3(a), Not3(b)}))

\* The conjunction of the filters and of "source field IS NOT NULL".
Condition(row) ==
    And3({row.filter[f] : f \in Filters}
           \cup {IF row.field[q] = "null" THEN "false" ELSE "true" : q \in Required})

\* Mutant: the query takes what is not known to be bad.
AcceptedMutant(row) == Condition(row) # "false"

Accepted(row) == Condition(row) = "true"

\* Without a condition there is no reverse query and no capture.
Conditioned == Filters \cup Required # {}

\* Mutant: the reverse query without its IS NULL branch.
RefusedMutant(row) ==
    Conditioned /\ Not3(Condition(row)) = "true"

\* NOT (condition) OR (condition) IS NULL.
Refused(row) ==
    /\ Conditioned
    /\ Or3(Not3(Condition(row)), IsNull3(Condition(row))) = "true"

Source == [Ids -> Row \cup {NoRow}]
Table  == SUBSET (Ids \X Row)

RowsOf(src)     == {<<i, src[i]>> : i \in {j \in Ids : src[j] # NoRow}}
MainQuery(src)  == {r \in RowsOf(src) : Accepted(r[2])}
ErrorQuery(src) == {r \in RowsOf(src) : Refused(r[2])}

-----------------------------------------------------------------------------
(***************************************************************************)
(* Quality and budget, from the counts                                     *)
(***************************************************************************)
Larger(a, b) == IF a > b THEN a ELSE b

\* What an observation counts as rejected: the largest of what the engine
\* reported, what was captured, and what went in and did not come out.
CountRejected(m, captured) ==
    Larger(Larger(m.rejected, captured), Larger(0, m.input - m.output))

Total(m) == Larger(m.input, m.output + m.rejected)

\* Mutant: the rate is taken over the rows that passed.
RateExceededMutant(m) == m.rejected * 100 > MaxRate * (Total(m) + m.rejected)

\* rejected / total > max_rejection_rate, and 0 of an empty load.
RateExceeded(m) == Total(m) > 0 /\ m.rejected * 100 > MaxRate * Total(m)

Verdict(m) == IF RateExceeded(m) THEN "REJECTED" ELSE "PASSED"

\* The limits of bytes, seconds and amplification work like the one of rows.
OverBudget(m) == m.input > MaxInput

-----------------------------------------------------------------------------
VARIABLES
    source,     \* the live source table
    job,        \* the SeaTunnel job
    read,       \* the source as the job has read it
    tables,     \* whether the shadow and the error table exist
    shadow,     \* the rows the shadow table has of this execution
    errors,     \* the rows of the error table
    swapped,    \* whether the target was exchanged with the shadow table
    target,     \* the rows the target has of this execution
    run,        \* the ExecutionRun row
    report,     \* the ExecutionQualityResult row, or NoReport
    look,       \* the observation that holds the row lock
    event,      \* event[k]: the outbox event of kind k
    changes, looks, faults      \* counters, for the bounds

tableVars == <<tables, shadow, errors, swapped, target>>
vars == <<source, job, read, tableVars, run, report, look, event,
          changes, looks, faults>>

Metrics == [input : Nat, output : Nat, rejected : Nat]

Run == [status  : {"RUNNING", "SUCCEEDED", "FAILED", "CANCEL_REQUESTED"},
        quality : {"PENDING", "PASSED", "REJECTED", "FAILED"},
        publish : {"NOT_STARTED", "SWAP_REQUESTED", "PUBLISHED", "CLEANED"}]

NoReport == [verdict |-> "none", counts |-> [input |-> 0, output |-> 0, rejected |-> 0]]
Report   == [verdict : {"none", "PASSED", "REJECTED"}, counts : Metrics]

\* read: the reverse query was answered; cleared: the error table is empty;
\* judged: committed, the action that follows is not queued yet.
Look == [pc : {"idle", "read", "cleared", "judged"}, rows : Table]
Idle == [pc |-> "idle", rows |-> {}]

EventKinds == {"swap", "cleanup"}

TypeOK ==
    /\ source \in Source /\ read \in Source
    /\ job \in {"RUNNING", "SUCCEEDED", "FAILED"}
    /\ tables \in BOOLEAN /\ swapped \in BOOLEAN
    /\ shadow \in Table /\ errors \in Table /\ target \in Table
    /\ run \in Run
    /\ report \in Report
    /\ look \in Look
    /\ event \in [EventKinds -> {"absent", "PENDING", "PUBLISHED", "FAILED"}]
    /\ changes \in 0..MaxChanges /\ looks \in 0..MaxLooks /\ faults \in 0..MaxFaults

\* The submit was confirmed: shadow and error table were created and emptied.
Init ==
    /\ source \in Source /\ read = source
    /\ job = "RUNNING"
    /\ tables = TRUE /\ swapped = FALSE
    /\ shadow = {} /\ errors = {} /\ target = {}
    /\ run = [status |-> "RUNNING", quality |-> "PENDING", publish |-> "NOT_STARTED"]
    /\ report = NoReport
    /\ look = Idle
    /\ event = [k \in EventKinds |-> "absent"]
    /\ changes = 0 /\ looks = 0 /\ faults = 0

Fault   == faults < MaxFaults /\ faults' = faults + 1
NoFault == UNCHANGED faults

-----------------------------------------------------------------------------
(***************************************************************************)
(* Outside the control plane                                               *)
(***************************************************************************)
SourceChanges ==
    /\ changes < MaxChanges
    /\ \E i \in Ids, r \in Row \cup {NoRow} :
           /\ r # source[i]
           /\ source' = [source EXCEPT ![i] = r]
    /\ changes' = changes + 1
    /\ UNCHANGED <<job, read, tableVars, run, report, look, event,
                   looks, faults>>

\* The job reads with one SELECT and commits its load when it ends.
JobEnds ==
    /\ job = "RUNNING"
    /\ \/ job' = "SUCCEEDED" /\ read' = source /\ shadow' = MainQuery(source)
       \/ job' = "FAILED" /\ UNCHANGED <<read, shadow>>
    /\ UNCHANGED <<source, tables, errors, swapped, target, run, report, look, event,
                   changes, looks, faults>>

-----------------------------------------------------------------------------
(***************************************************************************)
(* One observation                                                         *)
(***************************************************************************)
Stopped == run.status = "CANCEL_REQUESTED"

Observes ==
    /\ look.pc = "idle"
    /\ looks < MaxLooks
    /\ looks' = looks + 1

\* A running job is stopped when its counts exceed the budget; a failed job
\* fails its run.  Nothing undoes a cancellation.
ObserveUnfinished ==
    /\ Observes
    /\ \/ /\ job = "RUNNING" /\ ~Stopped
          /\ \E n \in 0..Cardinality(MainQuery(source)) :
                 LET m == [input |-> n, output |-> n, rejected |-> 0]
                 IN  run' = IF OverBudget(m) THEN [run EXCEPT !.status = "CANCEL_REQUESTED"]
                                             ELSE run
       \/ job = "FAILED" /\ ~Stopped /\ run' = [run EXCEPT !.status = "FAILED"]
       \/ Stopped /\ UNCHANGED run
    /\ look' = [Idle EXCEPT !.pc = "judged"]
    /\ UNCHANGED <<source, job, read, tableVars, report, event,
                   changes, faults>>

\* The job is finished: read the rows it refused from the live source.
ReadRefused ==
    /\ Observes
    /\ job = "SUCCEEDED" /\ ~Stopped
    /\ look' = [pc |-> "read", rows |-> ErrorQuery(source)]
    /\ UNCHANGED <<source, job, read, tableVars, run, report, event,
                   changes, faults>>

\* TRUNCATE TABLE, unless nothing is captured.
ClearErrors ==
    /\ look.pc = "read"
    /\ \/ ~Conditioned /\ UNCHANGED errors
       \/ Conditioned /\ tables /\ errors' = {}
    /\ look' = [look EXCEPT !.pc = "cleared"]
    /\ UNCHANGED <<source, job, read, tables, shadow, swapped, target, run, report, event,
                   changes, looks, faults>>

\* What a verdict makes of the run: a passed one asks for the swap, unless it
\* was carried out or the tables were removed; no verdict takes a request back.
Judged(v) ==
    [status  |-> IF v = "PASSED" THEN "SUCCEEDED" ELSE "FAILED",
     quality |-> v,
     publish |-> IF v = "PASSED" /\ run.publish \notin {"PUBLISHED", "CLEANED"}
                 THEN "SWAP_REQUESTED" ELSE run.publish]

\* The counts the engine reports of a finished job; a count it does not report is 0.
Reported ==
    LET n == Cardinality(MainQuery(read))
    IN  [input : {0, n}, output : {0, n}, rejected : {0}]

\* The counts of the engine and the captured rows make the verdict of the run,
\* and the report; only the first report of an execution is kept.
JudgeBy(m) ==
    LET counts == IF Conditioned
                  THEN [m EXCEPT !.rejected = CountRejected(m, Cardinality(look.rows))]
                  ELSE m
        v      == Verdict(counts)
    IN  /\ run' = Judged(v)
        /\ report' = IF report = NoReport THEN [verdict |-> v, counts |-> counts] ELSE report

\* INSERT into the error table, and the commit of the row and the report.
JudgeQuality ==
    /\ look.pc = "cleared"
    /\ errors' = IF Conditioned THEN look.rows ELSE errors
    /\ \E m \in Reported : JudgeBy(m)
    /\ look' = [Idle EXCEPT !.pc = "judged"]
    /\ UNCHANGED <<source, job, read, tables, shadow, swapped, target, event, changes, looks, faults>>

\* Mutant: a failed capture is passed over, and the run judged as if it had passed.
CaptureFailsMutant ==
    /\ Conditioned /\ look.pc \in {"read", "cleared"}
    /\ \/ ~tables /\ look.pc = "read" /\ NoFault
       \/ tables /\ Fault
    /\ UNCHANGED errors
    /\ run' = Judged("PASSED")
    /\ look' = [Idle EXCEPT !.pc = "judged"]
    /\ UNCHANGED <<source, job, read, tables, shadow, swapped, target, report, event, changes, looks>>

\* A statement fails, the INSERT perhaps after some of its rows; or the error
\* table was removed with the shadow table.  There is no report then.
CaptureFails ==
    /\ Conditioned /\ look.pc \in {"read", "cleared"}
    /\ \/ ~tables /\ look.pc = "read" /\ NoFault
       \/ tables /\ Fault
    /\ \/ UNCHANGED errors
       \/ look.pc = "cleared" /\ errors' \in SUBSET look.rows
    /\ run' = [run EXCEPT !.status = "FAILED", !.quality = "FAILED"]
    /\ look' = [Idle EXCEPT !.pc = "judged"]
    /\ UNCHANGED <<source, job, read, tables, shadow, swapped, target, report, event, changes, looks>>

\* The worker is lost: its transaction is undone, the error table stays as it is.
ObserverDies ==
    /\ look.pc # "idle"
    /\ Fault
    /\ look' = Idle
    /\ UNCHANGED <<source, job, read, tableVars, run, report, event,
                   changes, looks>>

Live(k) == event[k] \in {"PENDING", "PUBLISHED"}

\* The second transaction of the observation queues what follows, once.
QueueFollowUp ==
    /\ look.pc = "judged"
    /\ look' = Idle
    /\ \/ /\ ~Stopped /\ run.publish = "SWAP_REQUESTED" /\ ~Live("swap")
          /\ event' = [event EXCEPT !["swap"] = "PENDING"]
       \/ /\ run.publish # "SWAP_REQUESTED" /\ run.status = "FAILED" /\ ~Live("cleanup")
          /\ event' = [event EXCEPT !["cleanup"] = "PENDING"]
       \/ /\ Stopped \/ (run.publish = "SWAP_REQUESTED" /\ Live("swap"))
             \/ (run.publish # "SWAP_REQUESTED" /\ (run.status # "FAILED" \/ Live("cleanup")))
          /\ UNCHANGED event
    /\ UNCHANGED <<source, job, read, tableVars, run, report,
                   changes, looks, faults>>

-----------------------------------------------------------------------------
(***************************************************************************)
(* The broker, that waits for the row lock and looks at no verdict         *)
(***************************************************************************)
Unlocked == look.pc \in {"idle", "judged"}

\* The exchange of target and shadow table, which the target's old rows (not
\* represented) leave for the shadow table.
Swap ==
    /\ event["swap"] = "PENDING" /\ Unlocked
    /\ \/ /\ tables
          /\ swapped' = TRUE /\ target' = shadow /\ shadow' = {}
          /\ event' = [event EXCEPT !["swap"] = "PUBLISHED"]
          /\ run' = [run EXCEPT !.status = "SUCCEEDED", !.publish = "PUBLISHED"]
       \/ /\ ~tables
          /\ event' = [event EXCEPT !["swap"] = "FAILED"]
          /\ run' = [run EXCEPT !.status = "FAILED"]
          /\ UNCHANGED <<shadow, swapped, target>>
    /\ UNCHANGED <<source, job, read, tables, errors, report, look, changes, looks, faults>>

Cleanup ==
    /\ event["cleanup"] = "PENDING" /\ Unlocked
    /\ tables' = FALSE /\ shadow' = {} /\ errors' = {}
    /\ event' = [event EXCEPT !["cleanup"] = "PUBLISHED"]
    /\ run' = [run EXCEPT !.publish = "CLEANED"]
    /\ UNCHANGED <<source, job, read, swapped, target, report, look, changes, looks, faults>>

-----------------------------------------------------------------------------
Next ==
    \/ SourceChanges \/ JobEnds
    \/ ObserveUnfinished \/ ReadRefused \/ ClearErrors \/ JudgeQuality
    \/ CaptureFails \/ ObserverDies \/ QueueFollowUp
    \/ Swap \/ Cleanup

Spec == Init /\ [][Next]_vars

-----------------------------------------------------------------------------
(***************************************************************************)
(* Safety                                                                  *)
(***************************************************************************)

\* No row gets into the target unless every filter holds for it, for sure, and
\* every required field of the source has a value.
PublishedRowsPass ==
        \A r \in target :
            /\ \A f \in Filters : r[2].filter[f] = "true"
            /\ \A q \in Required : r[2].field[q] # "null"

\* No row vanishes between the two queries: when a verdict is out, each row
\* is in the load or in the error table and in one of them only, provided the
\* source kept still, the tables were not removed, and no statement failed.
NothingVanishes ==
    /\ changes = 0 /\ faults = 0 /\ Conditioned
    /\ run.quality \in {"PASSED", "REJECTED"} /\ Unlocked /\ tables
    => /\ shadow \cup target \cup errors = RowsOf(read)
       /\ (shadow \cup target) \cap errors = {}

\* A swap is only ever asked for on the strength of rows that were captured: a
\* passed verdict means that the rows then in the error table are within the
\* rate of the contract, whatever was captured or lost before.
PassedWithinRate ==
    [][run'.quality = "PASSED" /\ look.pc = "cleared" /\ look'.pc = "judged"
           /\ Conditioned
         => Cardinality(errors') * 100
              <= MaxRate * (Cardinality(errors') + Cardinality(MainQuery(read)))]_vars

\* Nothing is published, nor its publication asked for, before some verdict on the
\* captured rows was committed: a failed capture, a lost worker and a repeated
\* observation do not open that door.  (Not that the verdict still stands: a later
\* observation may judge anew.)
PublishedWasJudged ==
    run.publish \in {"SWAP_REQUESTED", "PUBLISHED"} => report # NoReport

=============================================================================

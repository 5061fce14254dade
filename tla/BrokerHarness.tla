---------------------------- MODULE BrokerHarness ----------------------------
(***************************************************************************)
(* What a dispatch of the Tool Broker rests on, put together: the token of *)
(* an action with its times, the replay record in Redis that outlives it   *)
(* or not, the transaction of the outbox event, and the evidence ledger    *)
(* that all the transactions of a project append to.                       *)
(*                                                                         *)
(* An event is queued by a transaction that issues its token and appends   *)
(* to the ledger, and dispatched by a worker that verifies the token by    *)
(* its own clock, spends it, carries the effect out, appends to the ledger *)
(* and commits.  The events are of different executions, so only the       *)
(* ledger brings their transactions together.  Each kind of event and what *)
(* it does to its execution are the subject of ExecutionLifecycle.         *)
(***************************************************************************)
EXTENDS EvidenceLedger, FiniteSets

CONSTANTS
    Events,         \* the outbox events of one project
    Workers,        \* the Celery workers
    TokenTtl,       \* capability_ttl_seconds
    MinTtl, MaxTtl, \* what it is clamped to (60 and 3600)
    ReplayTtl,      \* replay_guard_ttl_seconds
    Leeway,         \* clock_skew_seconds
    Skew,           \* how far the clock of a worker is off the API's, at most
    Pause,          \* how much time passes between verification and record, at most
    MaxTime,        \* bound: of the clock
    MaxCrashes      \* bound: processes lost

ASSUME HarnessAssumption ==
    /\ TokenTtl \in Nat /\ MinTtl \in Nat \ {0} /\ MaxTtl \in Nat /\ MinTtl <= MaxTtl
    /\ ReplayTtl \in Nat \ {0}
    /\ Leeway \in Nat /\ Skew \in Nat /\ Pause \in Nat
    /\ MaxTime \in Nat /\ MaxCrashes \in Nat

\* The request that queues an event and the worker that dispatches one each
\* have a transaction; an event says that it was queued, or published.
ASSUME LedgerAssumption ==
    /\ Writers = Events \cup Workers /\ Events \cap Workers = {}
    /\ Contents = {"queued", "published"} \X Events

VARIABLES
    now,        \* the time, by the clock of the API and of Redis
    off,        \* off[w]: what the clock of worker w is off
    token,      \* token[e]: when the token of event e was issued and expires
    spent,      \* spent[e]: until when Redis has a replay record of it, or 0
    status,     \* status[e]: of the row of outbox_events
    effect,     \* effect[e]: how often the effect of e was carried out
    work,       \* work[w]: what worker w does
    crashes     \* counter, for the bound

vars == <<rows, txn, now, off, token, spent, status, effect, work, crashes>>

NoToken == [issued_at |-> 0, expires_at |-> 0]
NoWork  == [pc |-> "idle", event |-> {}, since |-> 0]

TypeOK ==
    /\ now \in 0..MaxTime
    /\ off \in [Workers -> -Skew..Skew]
    /\ token \in [Events -> [issued_at : Nat, expires_at : Nat]]
    /\ spent \in [Events -> Nat]
    /\ status \in [Events -> {"absent", "PENDING", "PUBLISHED", "FAILED"}]
    /\ effect \in [Events -> Nat]
    /\ work \in [Workers -> [pc : {"idle", "verify", "consume", "call", "append"},
                             event : SUBSET Events, since : 0..MaxTime]]
    /\ crashes \in 0..MaxCrashes

Init ==
    /\ LedgerInit
    /\ now = 0
    /\ off \in [Workers -> -Skew..Skew]
    /\ token = [e \in Events |-> NoToken]
    /\ spent = [e \in Events |-> 0]
    /\ status = [e \in Events |-> "absent"]
    /\ effect = [e \in Events |-> 0]
    /\ work = [w \in Workers |-> NoWork]
    /\ crashes = 0

\* A worker does not take longer than Pause to come from the verification of a
\* token to its record.
Tick ==
    /\ now < MaxTime
    /\ \A w \in Workers : work[w].pc = "consume" => now < work[w].since + Pause
    /\ now' = now + 1
    /\ UNCHANGED <<rows, txn, off, token, spent, status, effect, work, crashes>>

Crash == crashes < MaxCrashes /\ crashes' = crashes + 1

-----------------------------------------------------------------------------
(***************************************************************************)
(* Queueing an event                                                       *)
(***************************************************************************)
Clamped(ttl) == IF ttl > MaxTtl THEN MaxTtl ELSE IF ttl < MinTtl THEN MinTtl ELSE ttl

\* The token is issued, then the transaction appends to the ledger.
StartQueue(e) ==
    /\ status[e] = "absent"
    /\ SelectLast(e)
    /\ token' = [token EXCEPT ![e] = [issued_at |-> now, expires_at |-> now + Clamped(TokenTtl)]]
    /\ UNCHANGED <<now, off, spent, status, effect, work, crashes>>

\* Mutant: the select of a request does not wait for the lock of the last row.
ContinueQueueMutant(e) ==
    /\ \/ txn[e].pc = "wait" /\ txn' = [txn EXCEPT ![e].pc = "read"] /\ UNCHANGED rows
       \/ Insert(e, <<"queued", e>>) \/ InsertRefused(e)
    /\ UNCHANGED <<now, off, token, spent, status, effect, work, crashes>>

ContinueQueue(e) ==
    /\ GetLock(e) \/ Insert(e, <<"queued", e>>) \/ InsertRefused(e)
    /\ UNCHANGED <<now, off, token, spent, status, effect, work, crashes>>

CommitQueue(e) ==
    /\ CommitAppend(e)
    /\ status' = [status EXCEPT ![e] = "PENDING"]
    /\ UNCHANGED <<now, off, token, spent, effect, work, crashes>>

QueueDies(e) ==
    /\ txn[e].pc # "none"
    /\ Crash
    /\ Rollback(e)
    /\ UNCHANGED <<now, off, token, spent, status, effect, work>>

-----------------------------------------------------------------------------
(***************************************************************************)
(* Dispatching it                                                          *)
(***************************************************************************)

\* The row of the event is locked until the end of the transaction.
Take(w, e) ==
    /\ work[w].pc = "idle"
    /\ status[e] = "PENDING"
    /\ \A v \in Workers : work[v].event # {e}
    /\ work' = [work EXCEPT ![w] = [pc |-> "verify", event |-> {e}, since |-> 0]]
    /\ UNCHANGED <<rows, txn, now, off, token, spent, status, effect, crashes>>

\* Mutant: an event that is refused is left pending, to be dispatched again.
FailMutant(w, e) ==
    /\ work' = [work EXCEPT ![w] = NoWork]
    /\ UNCHANGED status

Fail(w, e) ==
    /\ status' = [status EXCEPT ![e] = "FAILED"]
    /\ work' = [work EXCEPT ![w] = NoWork]

\* Mutant: the expiry is not looked at.
ValidMutant(t, clock) == t.issued_at <= clock + Leeway

Valid(t, clock) == t.expires_at > clock /\ t.issued_at <= clock + Leeway

Verify(w) ==
    \E e \in work[w].event :
        /\ work[w].pc = "verify"
        /\ \/ /\ Valid(token[e], now + off[w])
              /\ work' = [work EXCEPT ![w].pc = "consume", ![w].since = now]
              /\ UNCHANGED status
           \/ /\ ~Valid(token[e], now + off[w])
              /\ Fail(w, e)
        /\ UNCHANGED <<rows, txn, now, off, token, spent, effect, crashes>>

\* SET NX EX: the record is not part of the transaction.
Consume(w) ==
    \E e \in work[w].event :
        /\ work[w].pc = "consume"
        /\ \/ /\ spent[e] <= now
              /\ spent' = [spent EXCEPT ![e] = now + ReplayTtl]
              /\ work' = [work EXCEPT ![w].pc = "call", ![w].since = 0]
              /\ UNCHANGED status
           \/ /\ spent[e] > now
              /\ Fail(w, e)
              /\ UNCHANGED spent
        /\ UNCHANGED <<rows, txn, now, off, token, effect, crashes>>

\* The call of the engine, which confirms the effect or refuses it.
Call(w) ==
    \E e \in work[w].event :
        /\ work[w].pc = "call"
        /\ \/ /\ effect' = [effect EXCEPT ![e] = @ + 1]
              /\ work' = [work EXCEPT ![w].pc = "append"]
              /\ UNCHANGED status
           \/ /\ Fail(w, e)
              /\ UNCHANGED effect
        /\ UNCHANGED <<rows, txn, now, off, token, spent, crashes>>

\* Mutant: an append that is refused leaves the rest of the transaction.
AppendAndCommitMutant(w) ==
    \E e \in work[w].event :
        /\ work[w].pc = "append"
        /\ \/ /\ SelectLast(w) \/ GetLock(w) \/ Insert(w, <<"published", e>>)
              /\ UNCHANGED <<status, work>>
           \/ /\ InsertRefused(w) \/ CommitAppend(w)
              /\ work' = [work EXCEPT ![w] = NoWork]
              /\ status' = [status EXCEPT ![e] = "PUBLISHED"]
        /\ UNCHANGED <<now, off, token, spent, effect, crashes>>

\* The append and the commit; an append that is refused rolls the event back to
\* PENDING, after its effect.
AppendAndCommit(w) ==
    \E e \in work[w].event :
        /\ work[w].pc = "append"
        /\ \/ /\ SelectLast(w) \/ GetLock(w) \/ Insert(w, <<"published", e>>)
              /\ UNCHANGED <<status, work>>
           \/ /\ InsertRefused(w)
              /\ work' = [work EXCEPT ![w] = NoWork]
              /\ UNCHANGED status
           \/ /\ CommitAppend(w)
              /\ work' = [work EXCEPT ![w] = NoWork]
              /\ status' = [status EXCEPT ![e] = "PUBLISHED"]
        /\ UNCHANGED <<now, off, token, spent, effect, crashes>>

WorkerDies(w) ==
    /\ work[w].pc # "idle"
    /\ Crash
    /\ Rollback(w)
    /\ work' = [work EXCEPT ![w] = NoWork]
    /\ UNCHANGED <<now, off, token, spent, status, effect>>

-----------------------------------------------------------------------------
QueueStep(e) == StartQueue(e) \/ ContinueQueue(e) \/ CommitQueue(e) \/ QueueDies(e)

Dispatch(w) ==
    (\E e \in Events : Take(w, e)) \/ Verify(w) \/ Consume(w) \/ Call(w) \/ AppendAndCommit(w)

Next ==
    \/ Tick
    \/ \E e \in Events : QueueStep(e)
    \/ \E w \in Workers : Dispatch(w) \/ WorkerDies(w)

Spec == Init /\ [][Next]_vars

\* A request goes on once it has begun; the poller hands every pending event to
\* a worker again and again, and a worker goes on.
Fairness ==
    /\ \A e \in Events : WF_vars(ContinueQueue(e) \/ CommitQueue(e))
    /\ \A w \in Workers : WF_vars(Dispatch(w))

FairSpec == Spec /\ Fairness

-----------------------------------------------------------------------------
(***************************************************************************)
(* Properties                                                              *)
(***************************************************************************)

\* The replay record of a token lives as long as the token, by any clock, and as
\* long as a worker may take to spend what it has verified.
LongReplay == ReplayTtl >= Clamped(TokenTtl) + Skew + Pause

\* Provided the replay record lives long enough, the effect of an event takes
\* place at most once, whatever transactions are rolled back after it and
\* whichever worker takes the event again.
SingleUse == LongReplay => \A e \in Events : effect[e] <= 1

\* The ledger and the outbox agree: an event is PUBLISHED when the ledger says
\* so, and then its effect has taken place; it is there when the ledger says
\* that it was queued.
LedgerTells ==
    \A e \in Events :
        /\ status[e] = "PUBLISHED" <=> \E r \in rows : r.content = <<"published", e>>
        /\ status[e] # "absent" <=> \E r \in rows : r.content = <<"queued", e>>
        /\ status[e] = "PUBLISHED" => effect[e] >= 1

\* A pending event does not stay so, and no transaction waits for good: not for
\* the lock of the last row, nor for the number of an uncommitted one.
EventSettles == \A e \in Events : status[e] = "PENDING" ~> status[e] \in {"PUBLISHED", "FAILED"}

=============================================================================

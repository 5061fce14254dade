------------------------ MODULE BrokerHarness_proofs ------------------------
(***************************************************************************)
(* For any events, workers and times: the broker and the requests use the  *)
(* ledger as it may be used, so that it is one chain; ledger and outbox    *)
(* agree; and a token is spent once, provided that its replay record       *)
(* lives long enough.                                                      *)
(***************************************************************************)
EXTENDS BrokerHarness, TLAPS

-----------------------------------------------------------------------------
(***************************************************************************)
(* The ledger by itself: whatever transactions append at the same time, it *)
(* is one chain.  A transaction may well read a row that is not the last   *)
(* one any more, but then the number it takes is taken.                    *)
(***************************************************************************)
LedgerTypeOK ==
    /\ \A r \in rows : r.seq \in Nat
    /\ DOMAIN txn = Writers
    /\ \A w \in Writers :
           /\ DOMAIN txn[w] = {"pc", "last", "new"}
           /\ txn[w].pc \in {"none", "wait", "read", "inserted"}

\* What a transaction read is a row of the ledger, or there was none.
ReadsRows == \A w \in Writers : txn[w].last \in rows \cup {GenesisRow}

\* What a transaction inserted continues what it read, with a number that no
\* row has and no other transaction inserted.
InsertsNext ==
    \A w \in Writers : txn[w].pc = "inserted" =>
        /\ \E c \in Contents : txn[w].new = NextRow(txn[w].last, c)
        /\ ~Taken(w) /\ Free(w)

\* The inductive invariant.
LedgerInv == LedgerTypeOK /\ ReadsRows /\ InsertsNext /\ ChainUnbroken

LEMMA LastTyped ==
  ASSUME LedgerInv, NEW w \in Writers
  PROVE  txn[w].last.seq \in Nat /\ (txn[w].last).seq + 1 # 0
  BY DEF LedgerInv, LedgerTypeOK, ReadsRows, GenesisRow

-----------------------------------------------------------------------------
LEMMA LedgerInitInv == LedgerInit => LedgerInv
  BY DEF LedgerInit, LedgerInv, LedgerTypeOK, ReadsRows, InsertsNext, ChainUnbroken, NoTxn, GenesisRow

\* A step that leaves the rows alone, and in which w does not insert.
LEMMA QuietInv ==
  ASSUME LedgerInv, NEW w \in Writers, NEW t,
         txn' = [txn EXCEPT ![w] = t], rows' = rows,
         DOMAIN t = {"pc", "last", "new"}, t.pc \in {"none", "wait", "read"},
         t.last \in rows \cup {GenesisRow}
  PROVE  LedgerInv'
<1>1. /\ DOMAIN txn' = Writers /\ txn'[w] = t
      /\ \A v \in Writers \ {w} : txn'[v] = txn[v]
  BY DEF LedgerInv, LedgerTypeOK
<1>2. LedgerTypeOK' /\ ReadsRows'
  BY <1>1 DEF LedgerInv, LedgerTypeOK, ReadsRows
<1>3. InsertsNext'
  <2> SUFFICES ASSUME NEW v \in Writers, txn'[v].pc = "inserted"
               PROVE  /\ \E c \in Contents : txn'[v].new = NextRow(txn'[v].last, c)
                      /\ ~(Taken(v))' /\ (Free(v))'
    BY DEF InsertsNext
  <2>1. v # w /\ txn'[v] = txn[v]
    BY <1>1
  <2>2. \A u \in Writers : txn'[u].pc = "inserted" => txn'[u] = txn[u]
    BY <1>1
  <2> QED
    BY <2>1, <2>2 DEF LedgerInv, InsertsNext, Taken, Free
<1>4. ChainUnbroken'
  BY DEF LedgerInv, ChainUnbroken
<1> QED
  BY <1>2, <1>3, <1>4 DEF LedgerInv

LEMMA SelectLastInv ==
  ASSUME LedgerInv, NEW w \in Writers, SelectLast(w) PROVE LedgerInv'
<1>1. PICK r \in rows \cup {GenesisRow} :
          txn' = [txn EXCEPT ![w] = [NoTxn EXCEPT !.pc = IF Locked(r) THEN "wait" ELSE "read",
                                                  !.last = r]]
  BY DEF SelectLast
<1> DEFINE t == [NoTxn EXCEPT !.pc = IF Locked(r) THEN "wait" ELSE "read", !.last = r]
<1>2. DOMAIN t = {"pc", "last", "new"} /\ t.pc \in {"wait", "read"} /\ t.last = r
  BY DEF NoTxn
<1> HIDE DEF t
<1>3. txn' = [txn EXCEPT ![w] = t] /\ rows' = rows
  BY <1>1 DEF SelectLast, t
<1> QED
  BY <1>2, <1>3, QuietInv

LEMMA GetLockInv ==
  ASSUME LedgerInv, NEW w \in Writers, GetLock(w) PROVE LedgerInv'
<1> DEFINE t == [txn[w] EXCEPT !.pc = "read"]
<1>1. DOMAIN t = {"pc", "last", "new"} /\ t.pc = "read" /\ t.last = txn[w].last
  BY DEF LedgerInv, LedgerTypeOK
<1>2. txn' = [txn EXCEPT ![w] = t] /\ rows' = rows
  BY DEF GetLock
<1>3. t.last \in rows \cup {GenesisRow}
  BY <1>1 DEF LedgerInv, ReadsRows
<1> HIDE DEF t
<1> QED
  BY <1>1, <1>2, <1>3, QuietInv

LEMMA EndsInv ==
  ASSUME LedgerInv, NEW w \in Writers, Rollback(w) \/ InsertRefused(w) PROVE LedgerInv'
<1>1. DOMAIN NoTxn = {"pc", "last", "new"} /\ NoTxn.pc = "none" /\ NoTxn.last = GenesisRow
  BY DEF NoTxn
<1>2. txn' = [txn EXCEPT ![w] = NoTxn] /\ rows' = rows
  BY DEF Rollback, InsertRefused
<1> QED
  BY <1>1, <1>2, QuietInv

LEMMA InsertInv ==
  ASSUME LedgerInv, NEW w \in Writers, NEW c \in Contents, Insert(w, c) PROVE LedgerInv'
<1> DEFINE t == [txn[w] EXCEPT !.pc = "inserted", !.new = NextRow(txn[w].last, c)]
<1>1. /\ DOMAIN t = {"pc", "last", "new"} /\ t.pc = "inserted" /\ t.last = txn[w].last
      /\ t.new = NextRow(txn[w].last, c)
  BY DEF LedgerInv, LedgerTypeOK
<1>2. txn' = [txn EXCEPT ![w] = t] /\ rows' = rows /\ Free(w) /\ ~Taken(w)
  BY DEF Insert, LedgerInv, LedgerTypeOK
<1> HIDE DEF t
<1>3. /\ DOMAIN txn' = Writers /\ txn'[w] = t
      /\ \A v \in Writers \ {w} : txn'[v] = txn[v]
  BY <1>2 DEF LedgerInv, LedgerTypeOK
<1>4. LedgerTypeOK' /\ ReadsRows'
  BY <1>1, <1>2, <1>3 DEF LedgerInv, LedgerTypeOK, ReadsRows
<1>5. t.new.seq = txn[w].last.seq + 1
  BY <1>1 DEF NextRow
<1>6. InsertsNext'
  <2> SUFFICES ASSUME NEW v \in Writers, txn'[v].pc = "inserted"
               PROVE  /\ \E d \in Contents : txn'[v].new = NextRow(txn'[v].last, d)
                      /\ ~(Taken(v))' /\ (Free(v))'
    BY DEF InsertsNext
  <2>1. CASE v = w
    <3>1. (Free(w))' /\ ~(Taken(w))'
      BY <1>1, <1>2, <1>3 DEF Free, Taken
    <3> QED
      BY <1>1, <1>3, <2>1, <3>1
  <2>2. CASE v # w
    <3>1. txn'[v] = txn[v] /\ txn[v].pc = "inserted"
      BY <1>3, <2>2
    <3>2. (\E d \in Contents : txn[v].new = NextRow(txn[v].last, d)) /\ ~Taken(v) /\ Free(v)
      BY <3>1 DEF LedgerInv, InsertsNext
    <3>3. txn[v].new.seq = txn[v].last.seq + 1
      BY <3>2 DEF NextRow
    <3>4. txn[v].new.seq # txn[w].last.seq + 1
      BY <1>2, <2>2, <3>1 DEF Free
    <3>5. (Free(v))' /\ ~(Taken(v))'
      BY <1>2, <1>3, <1>5, <3>1, <3>2, <3>3, <3>4 DEF Free, Taken
    <3> QED
      BY <3>1, <3>2, <3>5
  <2> QED
    BY <2>1, <2>2
<1>7. ChainUnbroken'
  BY <1>2 DEF LedgerInv, ChainUnbroken
<1> QED
  BY <1>4, <1>6, <1>7 DEF LedgerInv

LEMMA CommitAppendInv ==
  ASSUME LedgerInv, NEW w \in Writers, CommitAppend(w) PROVE LedgerInv'
<1> DEFINE n == txn[w].new
<1>1. PICK c \in Contents : n = NextRow(txn[w].last, c)
  BY DEF CommitAppend, LedgerInv, InsertsNext
<1>2. n.seq = txn[w].last.seq + 1 /\ n.content = c /\ n.seq \in Nat
  BY <1>1, LastTyped DEF NextRow
<1>3. /\ rows' = rows \cup {n} /\ DOMAIN txn' = Writers /\ txn'[w] = NoTxn
      /\ \A v \in Writers \ {w} : txn'[v] = txn[v]
  BY DEF CommitAppend, LedgerInv, LedgerTypeOK
<1>4. \A r \in rows : r.seq # n.seq
  BY <1>2 DEF CommitAppend, LedgerInv, InsertsNext, Taken
<1>5. LedgerTypeOK'
  BY <1>2, <1>3 DEF LedgerInv, LedgerTypeOK, NoTxn
<1>6. ReadsRows'
  BY <1>3 DEF LedgerInv, ReadsRows, NoTxn
<1>7. InsertsNext'
  <2> SUFFICES ASSUME NEW v \in Writers, txn'[v].pc = "inserted"
               PROVE  /\ \E d \in Contents : txn'[v].new = NextRow(txn'[v].last, d)
                      /\ ~(Taken(v))' /\ (Free(v))'
    BY DEF InsertsNext
  <2>1. v # w /\ txn'[v] = txn[v] /\ txn[v].pc = "inserted"
    BY <1>3 DEF NoTxn
  <2>2. (\E d \in Contents : txn[v].new = NextRow(txn[v].last, d)) /\ ~Taken(v) /\ Free(v)
    BY <2>1 DEF LedgerInv, InsertsNext
  <2>3. n.seq # txn[v].last.seq + 1
    BY <2>1, <2>2 DEF Free, CommitAppend
  <2>4. ~(Taken(v))'
    BY <1>3, <2>1, <2>2, <2>3 DEF Taken
  <2>5. (Free(v))'
    BY <1>3, <2>1, <2>2 DEF Free, NoTxn
  <2> QED
    BY <2>1, <2>2, <2>4, <2>5
<1>8. ChainUnbroken'
  <2>1. \A r, q \in rows' : r.seq = q.seq => r = q
    BY <1>3, <1>4 DEF LedgerInv, ChainUnbroken
  <2>2. txn[w].last \in rows \cup {GenesisRow}
    BY DEF LedgerInv, ReadsRows
  <2>3. \A r \in rows' : \E q \in rows' \cup {GenesisRow} : r = NextRow(q, r.content)
    BY <1>1, <1>2, <1>3, <2>2 DEF LedgerInv, ChainUnbroken
  <2> QED
    BY <2>1, <2>3 DEF ChainUnbroken
<1> QED
  BY <1>5, <1>6, <1>7, <1>8 DEF LedgerInv

LEMMA LedgerNextInv ==
  ASSUME LedgerInv, [LedgerNext]_ledgerVars PROVE LedgerInv'
<1>1. CASE UNCHANGED ledgerVars
  BY <1>1 DEF LedgerInv, LedgerTypeOK, ReadsRows, InsertsNext, ChainUnbroken, Taken, Free, ledgerVars
<1>2. CASE LedgerNext
  BY <1>2, SelectLastInv, GetLockInv, InsertInv, CommitAppendInv, EndsInv DEF LedgerNext
<1> QED
  BY <1>1, <1>2

\* Any transactions that append the way append_evidence_event does keep the
\* ledger one chain.
THEOREM LedgerChain == LedgerSpec => []ChainUnbroken
<1>1. LedgerInit => LedgerInv
  BY LedgerInitInv
<1>2. LedgerInv /\ [LedgerNext]_ledgerVars => LedgerInv'
  BY LedgerNextInv
<1>3. LedgerInv => ChainUnbroken
  BY DEF LedgerInv
<1> QED
  BY <1>1, <1>2, <1>3, PTL DEF LedgerSpec

-----------------------------------------------------------------------------
(***************************************************************************)
(* The inductive invariant of the broker with its requests                 *)
(***************************************************************************)

\* A worker has one event, that is pending, and no other worker has it.
WorkHolds ==
    \A w \in Workers :
        /\ work[w].pc = "idle" <=> work[w].event = {}
        /\ \A e \in work[w].event :
               /\ work[w].event = {e} /\ status[e] = "PENDING"
               /\ \A v \in Workers \ {w} : e \notin work[v].event

\* Who has a transaction on the ledger, and what it says.
TxnsTell ==
    /\ \A e \in Events : txn[e].pc # "none" => status[e] = "absent"
    /\ \A e \in Events : txn[e].pc = "inserted" => txn[e].new.content = <<"queued", e>>
    /\ \A w \in Workers : txn[w].pc # "none" => work[w].pc = "append"
    /\ \A w \in Workers : txn[w].pc = "inserted" =>
           \A e \in work[w].event : txn[w].new.content = <<"published", e>>

\* A token that is dispatched, or being queued, has its lifetime.
TokenTimes ==
    \A e \in Events : status[e] # "absent" \/ txn[e].pc # "none" =>
        /\ token[e].expires_at = token[e].issued_at + Clamped(TokenTtl)
        /\ token[e].issued_at <= now

\* Without a replay record nothing has happened.
FreshTokens ==
    \A e \in Events :
        /\ status[e] = "absent" => spent[e] = 0
        /\ spent[e] = 0 =>
               /\ effect[e] = 0
               /\ \A w \in Workers : e \in work[w].event => work[w].pc \notin {"call", "append"}
        /\ spent[e] # 0 => spent[e] >= token[e].issued_at + ReplayTtl

\* A token that a worker is about to spend was valid by its clock a moment ago.
JustVerified ==
    \A w \in Workers : work[w].pc = "consume" =>
        /\ work[w].since <= now /\ now <= work[w].since + Pause
        /\ \A e \in work[w].event : token[e].expires_at > work[w].since + off[w]

\* One effect, and the call that is about to make it.
OneEffect ==
    LongReplay => \A e \in Events :
        /\ effect[e] <= 1
        /\ \A w \in Workers : work[w].pc = "call" /\ e \in work[w].event => effect[e] = 0

Appending == \A w \in Workers : work[w].pc = "append" => \A e \in work[w].event : effect[e] >= 1

\* The inductive invariant.
IInv ==
    /\ TypeOK /\ LedgerInv /\ WorkHolds /\ TxnsTell /\ LedgerTells
    /\ TokenTimes /\ FreshTokens /\ JustVerified /\ OneEffect /\ Appending

-----------------------------------------------------------------------------
(***************************************************************************)
(* The steps, seen from the ledger                                         *)
(***************************************************************************)

\* Each step of the broker and of a request is a step of the ledger, or none.
LEMMA StepOfLedger ==
  ASSUME TypeOK, [Next]_vars PROVE [LedgerNext]_ledgerVars
<1>1. /\ \A e \in Events : e \in Writers /\ <<"queued", e>> \in Contents /\ <<"published", e>> \in Contents
      /\ \A w \in Workers : w \in Writers
  BY LedgerAssumption DEF LedgerAssumption
<1>2. CASE UNCHANGED vars
  BY <1>2 DEF vars, ledgerVars
<1>3. CASE Tick
  BY <1>3 DEF Tick, ledgerVars
<1>4. ASSUME NEW e \in Events, QueueStep(e) PROVE [LedgerNext]_ledgerVars
  BY <1>1, <1>4 DEF QueueStep, StartQueue, ContinueQueue, CommitQueue, QueueDies, LedgerNext
<1>5. ASSUME NEW w \in Workers, Dispatch(w) PROVE [LedgerNext]_ledgerVars
  <2>1. CASE (\E e \in Events : Take(w, e)) \/ Verify(w) \/ Consume(w) \/ Call(w)
    BY <2>1 DEF Take, Verify, Consume, Call, ledgerVars
  <2>2. CASE AppendAndCommit(w)
    <3>1. PICK e \in work[w].event :
              SelectLast(w) \/ GetLock(w) \/ Insert(w, <<"published", e>>) \/ InsertRefused(w)
                \/ CommitAppend(w)
      BY <2>2 DEF AppendAndCommit
    <3>2. <<"published", e>> \in Contents
      BY <1>1, <1>5 DEF TypeOK
    <3> QED
      BY <1>1, <3>1, <3>2 DEF LedgerNext
  <2> QED
    BY <1>5, <2>1, <2>2 DEF Dispatch
<1>6. ASSUME NEW w \in Workers, WorkerDies(w) PROVE [LedgerNext]_ledgerVars
  BY <1>1, <1>6 DEF WorkerDies, LedgerNext
<1> QED
  BY <1>2, <1>3, <1>4, <1>5, <1>6 DEF Next

\* What the steps of the ledger do to the transaction x, and leave of the others.
LEMMA LedgerMoves ==
  ASSUME LedgerInv, NEW x \in Writers, NEW c
  PROVE  /\ SelectLast(x) \/ GetLock(x) =>
               /\ rows' = rows /\ txn'[x].pc \in {"wait", "read"}
               /\ \A y \in Writers \ {x} : txn'[y] = txn[y]
         /\ Insert(x, c) =>
               /\ rows' = rows /\ txn'[x].new.content = c
               /\ \A y \in Writers \ {x} : txn'[y] = txn[y]
         /\ InsertRefused(x) \/ Rollback(x) =>
               /\ rows' = rows /\ txn'[x].pc = "none"
               /\ \A y \in Writers \ {x} : txn'[y] = txn[y]
         /\ CommitAppend(x) =>
               /\ rows' = rows \cup {txn[x].new} /\ txn[x].pc = "inserted" /\ txn'[x].pc = "none"
               /\ \A y \in Writers \ {x} : txn'[y] = txn[y]
<1>1. /\ DOMAIN txn = Writers /\ DOMAIN txn[x] = {"pc", "last", "new"} /\ NoTxn.pc = "none"
      /\ DOMAIN NoTxn = {"pc", "last", "new"}
  BY DEF LedgerInv, LedgerTypeOK, NoTxn
<1>2. SelectLast(x) => /\ rows' = rows /\ txn'[x].pc \in {"wait", "read"}
                       /\ \A y \in Writers \ {x} : txn'[y] = txn[y]
  BY <1>1 DEF SelectLast
<1>3. GetLock(x) => /\ rows' = rows /\ txn'[x].pc \in {"wait", "read"}
                    /\ \A y \in Writers \ {x} : txn'[y] = txn[y]
  BY <1>1 DEF GetLock
<1>4. Insert(x, c) => /\ rows' = rows /\ txn'[x].new.content = c
                      /\ \A y \in Writers \ {x} : txn'[y] = txn[y]
  BY <1>1 DEF Insert, NextRow
<1>5. InsertRefused(x) \/ Rollback(x) => /\ rows' = rows /\ txn'[x].pc = "none"
                                         /\ \A y \in Writers \ {x} : txn'[y] = txn[y]
  BY <1>1 DEF InsertRefused, Rollback
<1>6. CommitAppend(x) => /\ rows' = rows \cup {txn[x].new} /\ txn[x].pc = "inserted"
                         /\ txn'[x].pc = "none" /\ \A y \in Writers \ {x} : txn'[y] = txn[y]
  BY <1>1 DEF CommitAppend
<1> QED
  BY <1>2, <1>3, <1>4, <1>5, <1>6

LEMMA Apart ==
  /\ Events \subseteq Writers /\ Workers \subseteq Writers
  /\ \A e \in Events, w \in Workers : e # w
  BY LedgerAssumption DEF LedgerAssumption

LEMMA ClampedTyped == Clamped(TokenTtl) \in Nat
  BY HarnessAssumption DEF HarnessAssumption, Clamped

-----------------------------------------------------------------------------
(***************************************************************************)
(* The invariant is inductive                                              *)
(***************************************************************************)
LEMMA InitInv == Init => IInv
<1> SUFFICES ASSUME Init PROVE IInv
  OBVIOUS
<1>1. LedgerInv
  BY LedgerInitInv DEF Init
<1>2. TypeOK
  BY HarnessAssumption DEF Init, TypeOK, NoToken, NoWork, HarnessAssumption
<1>3. WorkHolds /\ TxnsTell
  BY Apart DEF Init, WorkHolds, TxnsTell, NoWork, LedgerInit, NoTxn
<1>4. LedgerTells
  BY DEF Init, LedgerTells, LedgerInit
<1>5. TokenTimes
  BY Apart DEF Init, TokenTimes, LedgerInit, NoTxn
<1>6. FreshTokens /\ JustVerified /\ OneEffect /\ Appending
  BY DEF Init, FreshTokens, JustVerified, OneEffect, Appending, NoWork
<1> QED
  BY <1>1, <1>2, <1>3, <1>4, <1>5, <1>6 DEF IInv

LEMMA TickInv ==
  ASSUME IInv, LedgerInv', Tick PROVE IInv'
<1>1. TypeOK'
  BY HarnessAssumption DEF IInv, TypeOK, Tick, HarnessAssumption
<1>2. TokenTimes'
  BY DEF IInv, TypeOK, TokenTimes, Tick
<1>3. JustVerified'
  BY HarnessAssumption DEF IInv, TypeOK, JustVerified, Tick, HarnessAssumption
<1>4. (WorkHolds /\ TxnsTell /\ LedgerTells /\ FreshTokens /\ OneEffect /\ Appending)'
  BY DEF IInv, Tick, WorkHolds, TxnsTell, LedgerTells, FreshTokens, OneEffect, Appending
<1> QED
  BY <1>1, <1>2, <1>3, <1>4 DEF IInv

LEMMA StartQueueInv ==
  ASSUME IInv, LedgerInv', NEW e \in Events, StartQueue(e) PROVE IInv'
<1>1. /\ rows' = rows /\ txn'[e].pc \in {"wait", "read"} /\ status[e] = "absent"
      /\ \A y \in Writers \ {e} : txn'[y] = txn[y]
      /\ UNCHANGED <<now, off, spent, status, effect, work, crashes>>
      /\ token' = [token EXCEPT ![e] = [issued_at |-> now, expires_at |-> now + Clamped(TokenTtl)]]
  BY Apart, LedgerMoves DEF IInv, StartQueue
<1>2. TypeOK'
  BY <1>1, ClampedTyped DEF IInv, TypeOK
<1>3. \A w \in Workers : e \notin work[w].event
  BY <1>1 DEF IInv, WorkHolds
<1>4. TxnsTell'
  BY <1>1, Apart DEF IInv, TxnsTell
<1>5. TokenTimes'
  BY <1>1, Apart DEF IInv, TypeOK, TokenTimes
<1>6. JustVerified'
  BY <1>1, <1>3 DEF IInv, TypeOK, JustVerified
<1>7. FreshTokens'
  BY <1>1 DEF IInv, TypeOK, FreshTokens
<1>8. (WorkHolds /\ LedgerTells /\ OneEffect /\ Appending)'
  BY <1>1 DEF IInv, WorkHolds, LedgerTells, OneEffect, Appending
<1> QED
  BY <1>2, <1>4, <1>5, <1>6, <1>7, <1>8 DEF IInv

LEMMA ContinueQueueInv ==
  ASSUME IInv, LedgerInv', NEW e \in Events, ContinueQueue(e) \/ QueueDies(e) PROVE IInv'
<1>1. /\ rows' = rows /\ txn[e].pc # "none"
      /\ txn'[e].pc = "inserted" => txn'[e].new.content = <<"queued", e>>
      /\ \A y \in Writers \ {e} : txn'[y] = txn[y]
      /\ UNCHANGED <<now, off, token, spent, status, effect, work>>
      /\ crashes' \in 0..MaxCrashes
  <2>1. CASE ContinueQueue(e)
    <3>1. CASE GetLock(e)
      BY <2>1, <3>1, Apart, LedgerMoves DEF IInv, TypeOK, ContinueQueue, GetLock
    <3>2. CASE Insert(e, <<"queued", e>>)
      BY <2>1, <3>2, Apart, LedgerMoves DEF IInv, TypeOK, ContinueQueue, Insert
    <3>3. CASE InsertRefused(e)
      BY <2>1, <3>3, Apart, LedgerMoves DEF IInv, TypeOK, ContinueQueue, InsertRefused
    <3> QED
      BY <2>1, <3>1, <3>2, <3>3 DEF ContinueQueue
  <2>2. CASE QueueDies(e)
    <3>1. crashes' \in 0..MaxCrashes
      BY <2>2, HarnessAssumption DEF IInv, TypeOK, QueueDies, Crash, HarnessAssumption
    <3>2. rows' = rows /\ txn'[e].pc = "none" /\ \A y \in Writers \ {e} : txn'[y] = txn[y]
      BY <2>2, Apart, LedgerMoves DEF IInv, QueueDies
    <3> QED
      BY <2>2, <3>1, <3>2 DEF QueueDies
  <2> QED
    BY <2>1, <2>2
<1>2. TypeOK'
  BY <1>1 DEF IInv, TypeOK
<1>3. TxnsTell'
  BY <1>1, Apart DEF IInv, TxnsTell
<1>4. TokenTimes'
  BY <1>1, Apart DEF IInv, TokenTimes
<1>5. (WorkHolds /\ LedgerTells /\ FreshTokens /\ JustVerified /\ OneEffect /\ Appending)'
  BY <1>1 DEF IInv, WorkHolds, LedgerTells, FreshTokens, JustVerified, OneEffect, Appending
<1> QED
  BY <1>2, <1>3, <1>4, <1>5 DEF IInv

LEMMA CommitQueueInv ==
  ASSUME IInv, LedgerInv', NEW e \in Events, CommitQueue(e) PROVE IInv'
<1>1. /\ rows' = rows \cup {txn[e].new} /\ txn[e].pc = "inserted" /\ txn'[e].pc = "none"
      /\ \A y \in Writers \ {e} : txn'[y] = txn[y]
      /\ UNCHANGED <<now, off, token, spent, effect, work, crashes>>
      /\ status' = [status EXCEPT ![e] = "PENDING"]
  BY Apart, LedgerMoves DEF IInv, CommitQueue
<1>2. status[e] = "absent" /\ txn[e].new.content = <<"queued", e>>
  BY <1>1 DEF IInv, TxnsTell
<1>3. TypeOK'
  BY <1>1 DEF IInv, TypeOK
<1>4. WorkHolds'
  BY <1>1, <1>2 DEF IInv, TypeOK, WorkHolds
<1>5. TxnsTell'
  BY <1>1, Apart DEF IInv, TypeOK, TxnsTell
<1>6. LedgerTells'
  <2> DEFINE n == txn[e].new
  <2>1. rows' = rows \cup {n} /\ n.content = <<"queued", e>>
    BY <1>1, <1>2
  <2> HIDE DEF n
  <2>2. /\ status'[e] = "PENDING" /\ \A d \in Events \ {e} : status'[d] = status[d]
        /\ effect' = effect
    BY <1>1 DEF IInv, TypeOK
  <2>3. \A d \in Events : /\ n.content # <<"published", d>>
                         /\ n.content = <<"queued", d>> <=> d = e
    BY <2>1
  <2> QED
    BY <1>2, <2>1, <2>2, <2>3 DEF IInv, LedgerTells
<1>7. TokenTimes'
  BY <1>1, Apart DEF IInv, TypeOK, TokenTimes
<1>8. FreshTokens'
  BY <1>1 DEF IInv, TypeOK, FreshTokens
<1>9. (JustVerified /\ OneEffect /\ Appending)'
  BY <1>1 DEF IInv, JustVerified, OneEffect, Appending
<1> QED
  BY <1>3, <1>4, <1>5, <1>6, <1>7, <1>8, <1>9 DEF IInv

-----------------------------------------------------------------------------
(***************************************************************************)
(* A worker                                                                *)
(***************************************************************************)
LEMMA TakeInv ==
  ASSUME IInv, LedgerInv', NEW w \in Workers, NEW e \in Events, Take(w, e) PROVE IInv'
<1>1. /\ work[w].pc = "idle" /\ status[e] = "PENDING" /\ \A v \in Workers : work[v].event # {e}
      /\ work'[w] = [pc |-> "verify", event |-> {e}, since |-> 0]
      /\ \A v \in Workers \ {w} : work'[v] = work[v]
      /\ work' = [work EXCEPT ![w] = [pc |-> "verify", event |-> {e}, since |-> 0]]
      /\ UNCHANGED <<rows, txn, now, off, token, spent, status, effect, crashes>>
  BY DEF IInv, TypeOK, Take
<1>2. TypeOK'
  BY <1>1, HarnessAssumption DEF IInv, TypeOK, HarnessAssumption
<1>3. \A v \in Workers : e \notin work[v].event
  BY <1>1 DEF IInv, WorkHolds
<1>4. WorkHolds'
  BY <1>1, <1>3 DEF IInv, WorkHolds
<1>5. TxnsTell'
  BY <1>1 DEF IInv, TxnsTell
<1>6. (LedgerTells /\ TokenTimes)'
  BY <1>1 DEF IInv, LedgerTells, TokenTimes
<1>7. (FreshTokens /\ JustVerified /\ OneEffect /\ Appending)'
  BY <1>1 DEF IInv, FreshTokens, JustVerified, OneEffect, Appending
<1> QED
  BY <1>2, <1>4, <1>5, <1>6, <1>7 DEF IInv

\* A worker that ends its work, whose transaction on the ledger is over; the
\* event fails, or stays pending.
LEMMA EndsWorkInv ==
  ASSUME IInv, LedgerInv', NEW w \in Workers, NEW e \in Events, work[w].event = {e},
         rows' = rows, txn'[w].pc = "none", \A y \in Writers \ {w} : txn'[y] = txn[y],
         work' = [work EXCEPT ![w] = NoWork],
         status' = [status EXCEPT ![e] = "FAILED"] \/ status' = status,
         UNCHANGED <<now, off, token, spent, effect>>, crashes' \in 0..MaxCrashes
  PROVE  IInv'
<1>1. /\ work'[w] = [pc |-> "idle", event |-> {}, since |-> 0]
      /\ \A v \in Workers \ {w} : work'[v] = work[v]
  BY DEF IInv, TypeOK, NoWork
<1>2. /\ status[e] = "PENDING" /\ status'[e] \in {"PENDING", "FAILED"}
      /\ \A d \in Events \ {e} : status'[d] = status[d]
      /\ \A v \in Workers \ {w} : e \notin work[v].event
  BY DEF IInv, TypeOK, WorkHolds
<1>3. TypeOK'
  BY HarnessAssumption DEF IInv, TypeOK, NoWork, HarnessAssumption
<1>4. WorkHolds'
  <2>1. \A v \in Workers \ {w} : \A d \in work[v].event : d \in Events \ {e}
    BY <1>2 DEF IInv, TypeOK
  <2>2. \A v \in Workers \ {w} : \A d \in work[v].event : status'[d] = "PENDING"
    BY <1>2, <2>1 DEF IInv, WorkHolds
  <2> QED
    BY <1>1, <2>2 DEF IInv, WorkHolds
<1>5. TxnsTell'
  BY <1>1, <1>2, Apart DEF IInv, TxnsTell
<1>6. LedgerTells'
  BY <1>2 DEF IInv, LedgerTells
<1>7. TokenTimes'
  BY <1>2, Apart DEF IInv, TokenTimes
<1>8. FreshTokens'
  BY <1>1, <1>2 DEF IInv, FreshTokens
<1>9. (JustVerified /\ OneEffect /\ Appending)'
  BY <1>1 DEF IInv, JustVerified, OneEffect, Appending
<1> QED
  BY <1>3, <1>4, <1>5, <1>6, <1>7, <1>8, <1>9 DEF IInv

\* A worker that does not append yet has no transaction on the ledger.
LEMMA RefusedInv ==
  ASSUME IInv, LedgerInv', NEW w \in Workers, NEW e \in Events, work[w].event = {e},
         work[w].pc # "append", Fail(w, e),
         UNCHANGED <<rows, txn, now, off, token, spent, effect, crashes>>
  PROVE  IInv'
<1>1. txn'[w].pc = "none"
  BY Apart DEF IInv, TxnsTell
<1>2. crashes' \in 0..MaxCrashes
  BY DEF IInv, TypeOK
<1>3. /\ work' = [work EXCEPT ![w] = NoWork] /\ status' = [status EXCEPT ![e] = "FAILED"]
      /\ rows' = rows /\ \A y \in Writers \ {w} : txn'[y] = txn[y]
      /\ UNCHANGED <<now, off, token, spent, effect>>
  BY DEF Fail
<1> QED
  BY <1>1, <1>2, <1>3, EndsWorkInv

\* Going on with an event changes nothing about who has it.
LEMMA KeepsWork ==
  ASSUME WorkHolds, status' = status,
         \A v \in Workers : /\ work'[v].event = work[v].event
                            /\ work'[v].pc = "idle" <=> work[v].pc = "idle"
  PROVE  WorkHolds'
  BY DEF WorkHolds

LEMMA VerifyInv ==
  ASSUME IInv, LedgerInv', NEW w \in Workers, Verify(w) PROVE IInv'
<1>1. PICK e \in work[w].event :
          /\ work[w].pc = "verify"
          /\ \/ /\ Valid(token[e], now + off[w])
                /\ work' = [work EXCEPT ![w].pc = "consume", ![w].since = now]
                /\ UNCHANGED status
             \/ Fail(w, e)
          /\ UNCHANGED <<rows, txn, now, off, token, spent, effect, crashes>>
  BY DEF Verify
<1>2. work[w].event = {e} /\ e \in Events
  BY <1>1 DEF IInv, TypeOK, WorkHolds
<1>3. CASE Fail(w, e)
  BY <1>1, <1>2, <1>3, RefusedInv
<1>4. CASE /\ Valid(token[e], now + off[w])
           /\ work' = [work EXCEPT ![w].pc = "consume", ![w].since = now]
           /\ UNCHANGED status
  <2>1. /\ work'[w].pc = "consume" /\ work'[w].since = now /\ work'[w].event = work[w].event
        /\ \A v \in Workers \ {w} : work'[v] = work[v]
    BY <1>4 DEF IInv, TypeOK
  <2>2. TypeOK'
    BY <1>1, <1>4 DEF IInv, TypeOK
  <2>3. JustVerified'
    <3>1. now <= now + Pause
      BY HarnessAssumption DEF IInv, TypeOK, HarnessAssumption
    <3>2. token[e].expires_at > now + off[w]
      BY <1>4 DEF Valid
    <3> QED
      BY <1>1, <1>2, <2>1, <3>1, <3>2 DEF IInv, TypeOK, JustVerified
  <2>4. WorkHolds' /\ TxnsTell'
    <3>1. WorkHolds'
      <4>1. \A v \in Workers : /\ work'[v].event = work[v].event
                               /\ work'[v].pc = "idle" <=> work[v].pc = "idle"
        BY <1>1, <2>1
      <4> QED
        BY <1>4, <4>1, KeepsWork DEF IInv
    <3>2. TxnsTell'
      BY <1>1, <1>4, <2>1 DEF IInv, TxnsTell
    <3> QED
      BY <3>1, <3>2
  <2>5. (LedgerTells /\ TokenTimes)'
    BY <1>1, <1>4 DEF IInv, LedgerTells, TokenTimes
  <2>6. (FreshTokens /\ OneEffect /\ Appending)'
    BY <1>1, <1>4, <2>1 DEF IInv, FreshTokens, OneEffect, Appending
  <2> QED
    BY <2>2, <2>3, <2>4, <2>5, <2>6 DEF IInv
<1> QED
  BY <1>1, <1>3, <1>4

\* Why one token is spent once: a record that is over was made when the token
\* was not older than now, and then the token was over when it was verified.
LEMMA ConsumeInv ==
  ASSUME IInv, LedgerInv', NEW w \in Workers, Consume(w) PROVE IInv'
<1>1. PICK e \in work[w].event :
          /\ work[w].pc = "consume"
          /\ \/ /\ spent[e] <= now
                /\ spent' = [spent EXCEPT ![e] = now + ReplayTtl]
                /\ work' = [work EXCEPT ![w].pc = "call", ![w].since = 0]
                /\ UNCHANGED status
             \/ Fail(w, e) /\ UNCHANGED spent
          /\ UNCHANGED <<rows, txn, now, off, token, effect, crashes>>
  BY DEF Consume
<1>2. work[w].event = {e} /\ e \in Events /\ status[e] = "PENDING"
  BY <1>1 DEF IInv, TypeOK, WorkHolds
<1>3. CASE Fail(w, e) /\ UNCHANGED spent
  BY <1>1, <1>2, <1>3, RefusedInv
<1>4. CASE /\ spent[e] <= now
           /\ spent' = [spent EXCEPT ![e] = now + ReplayTtl]
           /\ work' = [work EXCEPT ![w].pc = "call", ![w].since = 0]
           /\ UNCHANGED status
  <2>1. /\ work'[w].pc = "call" /\ work'[w].event = work[w].event
        /\ \A v \in Workers \ {w} : work'[v] = work[v]
        /\ spent'[e] = now + ReplayTtl /\ \A d \in Events \ {e} : spent'[d] = spent[d]
    BY <1>4, <1>2 DEF IInv, TypeOK
  <2>2. TypeOK'
    <3>1. now + ReplayTtl \in Nat /\ 0 \in 0..MaxTime
      BY HarnessAssumption DEF IInv, TypeOK, HarnessAssumption
    <3>2. spent' \in [Events -> Nat]
      BY <1>4, <3>1 DEF IInv, TypeOK
    <3>3. work' \in [Workers -> [pc : {"idle", "verify", "consume", "call", "append"},
                                 event : SUBSET Events, since : 0..MaxTime]]
      BY <1>4, <3>1 DEF IInv, TypeOK
    <3> QED
      BY <1>1, <1>4, <3>2, <3>3 DEF IInv, TypeOK
  <2>3. WorkHolds' /\ TxnsTell'
    <3>1. WorkHolds'
      <4>1. \A v \in Workers : /\ work'[v].event = work[v].event
                               /\ work'[v].pc = "idle" <=> work[v].pc = "idle"
        BY <1>1, <2>1
      <4> QED
        BY <1>4, <4>1, KeepsWork DEF IInv
    <3>2. TxnsTell'
      BY <1>1, <1>4, <2>1 DEF IInv, TxnsTell
    <3> QED
      BY <3>1, <3>2
  <2>4. (LedgerTells /\ TokenTimes)'
    BY <1>1, <1>4 DEF IInv, LedgerTells, TokenTimes
  <2>5. (JustVerified /\ Appending)'
    BY <1>1, <1>4, <2>1 DEF IInv, JustVerified, Appending
  <2>6. token[e].issued_at <= now /\ token[e].expires_at = token[e].issued_at + Clamped(TokenTtl)
    BY <1>2 DEF IInv, TokenTimes
  <2>7. token[e].issued_at \in Nat /\ now \in Nat /\ spent[e] \in Nat /\ effect[e] \in Nat
    BY <1>2 DEF IInv, TypeOK
  <2>8. FreshTokens'
    <3>1. spent'[e] # 0 /\ spent'[e] >= token[e].issued_at + ReplayTtl
      BY <2>1, <2>6, <2>7, HarnessAssumption DEF HarnessAssumption
    <3>2. \A v \in Workers \ {w} : e \notin work[v].event
      BY <1>2 DEF IInv, WorkHolds
    <3>3. ASSUME NEW d \in Events \ {e}
          PROVE  /\ status'[d] = "absent" => spent'[d] = 0
                 /\ spent'[d] = 0 =>
                        /\ effect'[d] = 0
                        /\ \A v \in Workers : d \in work'[v].event => work'[v].pc \notin {"call", "append"}
                 /\ spent'[d] # 0 => spent'[d] >= token'[d].issued_at + ReplayTtl
      BY <1>1, <1>2, <1>4, <2>1 DEF IInv, FreshTokens
    <3>4. status'[e] = "PENDING" /\ token' = token
      BY <1>1, <1>2, <1>4
    <3> QED
      BY <3>1, <3>3, <3>4 DEF FreshTokens
  <2>9. ASSUME LongReplay PROVE spent[e] = 0
    <3>1. /\ now <= work[w].since + Pause /\ token[e].expires_at > work[w].since + off[w]
      BY <1>1, <1>2 DEF IInv, JustVerified
    <3>2. /\ off[w] \in Int /\ off[w] >= -Skew /\ work[w].since \in Nat
      BY HarnessAssumption DEF IInv, TypeOK, HarnessAssumption
    <3>3. spent[e] # 0 => spent[e] >= token[e].issued_at + ReplayTtl
      BY <1>2 DEF IInv, FreshTokens
    <3> DEFINE since == work[w].since
               issued == token[e].issued_at
               expires == token[e].expires_at
               offset == off[w]
               record == spent[e]
               ttl == Clamped(TokenTtl)
    <3>4. /\ now <= since + Pause /\ expires > since + offset
          /\ offset \in Int /\ offset >= -Skew /\ since \in Nat
          /\ record # 0 => record >= issued + ReplayTtl
          /\ expires = issued + ttl /\ issued \in Nat /\ now \in Nat /\ record \in Nat
          /\ record <= now /\ ttl \in Nat /\ ReplayTtl >= ttl + Skew + Pause
      BY <1>4, <2>6, <2>7, <2>9, <3>1, <3>2, <3>3, ClampedTyped DEF LongReplay
    <3> HIDE DEF since, issued, expires, offset, record, ttl
    <3>5. record = 0
      BY <3>4, HarnessAssumption DEF HarnessAssumption
    <3> QED
      BY <3>5 DEF record
  <2>10. OneEffect'
    <3>1. ASSUME LongReplay PROVE effect[e] = 0
      BY <1>2, <2>9, <3>1 DEF IInv, FreshTokens
    <3>2. LongReplay' <=> LongReplay
      BY DEF LongReplay, Clamped
    <3> QED
      BY <1>1, <1>2, <2>1, <3>1, <3>2 DEF IInv, OneEffect
  <2> QED
    BY <2>2, <2>3, <2>4, <2>5, <2>8, <2>10 DEF IInv
<1> QED
  BY <1>1, <1>3, <1>4

LEMMA CallInv ==
  ASSUME IInv, LedgerInv', NEW w \in Workers, Call(w) PROVE IInv'
<1>1. PICK e \in work[w].event :
          /\ work[w].pc = "call"
          /\ \/ /\ effect' = [effect EXCEPT ![e] = @ + 1]
                /\ work' = [work EXCEPT ![w].pc = "append"]
                /\ UNCHANGED status
             \/ Fail(w, e) /\ UNCHANGED effect
          /\ UNCHANGED <<rows, txn, now, off, token, spent, crashes>>
  BY DEF Call
<1>2. work[w].event = {e} /\ e \in Events /\ status[e] = "PENDING"
  BY <1>1 DEF IInv, TypeOK, WorkHolds
<1>3. CASE Fail(w, e) /\ UNCHANGED effect
  BY <1>1, <1>2, <1>3, RefusedInv
<1>4. CASE /\ effect' = [effect EXCEPT ![e] = @ + 1]
           /\ work' = [work EXCEPT ![w].pc = "append"]
           /\ UNCHANGED status
  <2>1. /\ work'[w].pc = "append" /\ work'[w].event = work[w].event
        /\ \A v \in Workers \ {w} : work'[v] = work[v]
        /\ effect[e] \in Nat /\ effect'[e] = effect[e] + 1
        /\ \A d \in Events \ {e} : effect'[d] = effect[d]
    BY <1>4, <1>2 DEF IInv, TypeOK
  <2>2. TypeOK'
    BY <1>1, <1>4 DEF IInv, TypeOK
  <2>3. WorkHolds'
    <3>1. \A v \in Workers : /\ work'[v].event = work[v].event
                             /\ work'[v].pc = "idle" <=> work[v].pc = "idle"
      BY <1>1, <2>1
    <3> QED
      BY <1>4, <3>1, KeepsWork DEF IInv
  <2>4. TxnsTell'
    BY <1>1, <1>4, <2>1 DEF IInv, TxnsTell
  <2>5. LedgerTells' /\ TokenTimes'
    <3>1. LedgerTells'
      BY <1>1, <1>2, <1>4, <2>1 DEF IInv, LedgerTells
    <3>2. TokenTimes'
      BY <1>1, <1>4 DEF IInv, TokenTimes
    <3> QED
      BY <3>1, <3>2
  <2>6. JustVerified'
    BY <1>1, <1>4, <2>1 DEF IInv, JustVerified
  <2>7. \A v \in Workers \ {w} : e \notin work[v].event
    BY <1>2 DEF IInv, WorkHolds
  <2>8. FreshTokens'
    <3>1. spent[e] # 0
      BY <1>1, <1>2 DEF IInv, FreshTokens
    <3> QED
      BY <1>1, <1>2, <1>4, <2>1, <3>1 DEF IInv, FreshTokens
  <2>9. OneEffect'
    <3>1. ASSUME LongReplay PROVE effect[e] = 0
      BY <1>1, <1>2, <3>1 DEF IInv, OneEffect
    <3>2. LongReplay' <=> LongReplay
      BY DEF LongReplay, Clamped
    <3> QED
      BY <1>2, <2>1, <2>7, <3>1, <3>2 DEF IInv, OneEffect
  <2>10. Appending'
    <3>1. \A v \in Workers \ {w} : \A d \in work[v].event : d \in Events \ {e}
      BY <2>7 DEF IInv, TypeOK
    <3> QED
      BY <1>2, <2>1, <3>1 DEF IInv, Appending
  <2> QED
    BY <2>2, <2>3, <2>4, <2>5, <2>6, <2>8, <2>9, <2>10 DEF IInv
<1> QED
  BY <1>1, <1>3, <1>4

LEMMA AppendAndCommitInv ==
  ASSUME IInv, LedgerInv', NEW w \in Workers, AppendAndCommit(w) PROVE IInv'
<1>1. PICK e \in work[w].event :
          /\ work[w].pc = "append"
          /\ \/ /\ SelectLast(w) \/ GetLock(w) \/ Insert(w, <<"published", e>>)
                /\ UNCHANGED <<status, work>>
             \/ /\ InsertRefused(w)
                /\ work' = [work EXCEPT ![w] = NoWork]
                /\ UNCHANGED status
             \/ /\ CommitAppend(w)
                /\ work' = [work EXCEPT ![w] = NoWork]
                /\ status' = [status EXCEPT ![e] = "PUBLISHED"]
          /\ UNCHANGED <<now, off, token, spent, effect, crashes>>
  BY DEF AppendAndCommit
<1>2. /\ work[w].event = {e} /\ e \in Events /\ status[e] = "PENDING" /\ effect[e] >= 1
      /\ crashes' \in 0..MaxCrashes
  BY <1>1 DEF IInv, TypeOK, WorkHolds, Appending
<1>3. CASE InsertRefused(w) /\ work' = [work EXCEPT ![w] = NoWork] /\ UNCHANGED status
  <2>1. rows' = rows /\ txn'[w].pc = "none" /\ \A y \in Writers \ {w} : txn'[y] = txn[y]
    BY <1>3, Apart, LedgerMoves DEF IInv
  <2> QED
    BY <1>1, <1>2, <1>3, <2>1, EndsWorkInv
<1>4. CASE (SelectLast(w) \/ GetLock(w) \/ Insert(w, <<"published", e>>)) /\ UNCHANGED <<status, work>>
  <2>1. /\ rows' = rows /\ \A y \in Writers \ {w} : txn'[y] = txn[y]
        /\ txn'[w].pc = "inserted" => txn'[w].new.content = <<"published", e>>
    <3>1. CASE SelectLast(w) \/ GetLock(w)
      BY <3>1, Apart, LedgerMoves DEF IInv
    <3>2. CASE Insert(w, <<"published", e>>)
      BY <3>2, Apart, LedgerMoves DEF IInv
    <3> QED
      BY <1>4, <3>1, <3>2
  <2>2. TypeOK'
    BY <1>1, <1>4 DEF IInv, TypeOK
  <2>3. TxnsTell'
    BY <1>1, <1>2, <1>4, <2>1, Apart DEF IInv, TxnsTell
  <2>4. TokenTimes'
    BY <1>1, <1>4, <2>1, Apart DEF IInv, TokenTimes
  <2>5. (WorkHolds /\ LedgerTells /\ FreshTokens /\ JustVerified /\ OneEffect /\ Appending)'
    BY <1>1, <1>4, <2>1
       DEF IInv, WorkHolds, LedgerTells, FreshTokens, JustVerified, OneEffect, Appending
  <2> QED
    BY <2>2, <2>3, <2>4, <2>5 DEF IInv
<1>5. CASE /\ CommitAppend(w)
           /\ work' = [work EXCEPT ![w] = NoWork]
           /\ status' = [status EXCEPT ![e] = "PUBLISHED"]
  <2> DEFINE n == txn[w].new
  <2>1. /\ rows' = rows \cup {n} /\ txn[w].pc = "inserted" /\ txn'[w].pc = "none"
        /\ \A y \in Writers \ {w} : txn'[y] = txn[y]
    BY <1>5, Apart, LedgerMoves DEF IInv
  <2>2. n.content = <<"published", e>>
    BY <1>2, <2>1 DEF IInv, TxnsTell
  <2> HIDE DEF n
  <2>3. /\ work'[w] = [pc |-> "idle", event |-> {}, since |-> 0]
        /\ \A v \in Workers \ {w} : work'[v] = work[v]
        /\ status'[e] = "PUBLISHED" /\ \A d \in Events \ {e} : status'[d] = status[d]
    BY <1>2, <1>5 DEF IInv, TypeOK, NoWork
  <2>4. \A v \in Workers \ {w} : \A d \in work[v].event : d \in Events \ {e}
    BY <1>2 DEF IInv, TypeOK, WorkHolds
  <2>5. TypeOK'
    BY <1>1, <1>5, HarnessAssumption DEF IInv, TypeOK, NoWork, HarnessAssumption
  <2>6. WorkHolds'
    <3>1. \A v \in Workers \ {w} : \A d \in work[v].event : status'[d] = "PENDING"
      BY <2>3, <2>4 DEF IInv, WorkHolds
    <3> QED
      BY <2>3, <3>1 DEF IInv, WorkHolds
  <2>7. TxnsTell'
    BY <1>2, <2>1, <2>3, Apart DEF IInv, TxnsTell
  <2>8. LedgerTells'
    <3>1. \A d \in Events : /\ n.content # <<"queued", d>>
                            /\ n.content = <<"published", d>> <=> d = e
      BY <2>2
    <3> QED
      BY <1>1, <1>2, <2>1, <2>3, <3>1 DEF IInv, LedgerTells
  <2>9. TokenTimes'
    BY <1>1, <1>2, <2>1, <2>3, Apart DEF IInv, TokenTimes
  <2>10. FreshTokens'
    BY <1>1, <1>2, <2>3 DEF IInv, FreshTokens
  <2>11. (JustVerified /\ OneEffect /\ Appending)'
    BY <1>1, <2>3 DEF IInv, JustVerified, OneEffect, Appending
  <2> QED
    BY <2>5, <2>6, <2>7, <2>8, <2>9, <2>10, <2>11 DEF IInv
<1> QED
  BY <1>1, <1>3, <1>4, <1>5

LEMMA WorkerDiesInv ==
  ASSUME IInv, LedgerInv', NEW w \in Workers, WorkerDies(w) PROVE IInv'
<1>1. /\ Rollback(w) /\ work' = [work EXCEPT ![w] = NoWork]
      /\ UNCHANGED <<now, off, token, spent, status, effect>>
  BY DEF WorkerDies
<1>2. PICK e \in Events : work[w].event = {e}
  BY DEF WorkerDies, IInv, TypeOK, WorkHolds
<1>3. rows' = rows /\ txn'[w].pc = "none" /\ \A y \in Writers \ {w} : txn'[y] = txn[y]
  BY <1>1, Apart, LedgerMoves DEF IInv
<1>4. crashes' \in 0..MaxCrashes
  BY HarnessAssumption DEF WorkerDies, Crash, IInv, TypeOK, HarnessAssumption
<1> QED
  BY <1>1, <1>2, <1>3, <1>4, EndsWorkInv

LEMMA NextInv ==
  ASSUME IInv, [Next]_vars PROVE IInv'
<1>1. LedgerInv'
  BY StepOfLedger, LedgerNextInv DEF IInv
<1>2. CASE UNCHANGED vars
  <2>1. /\ rows' = rows /\ txn' = txn
        /\ UNCHANGED <<now, off, token, spent, status, effect, work, crashes>>
    BY <1>2 DEF vars
  <2>2. TypeOK'
    BY <2>1 DEF IInv, TypeOK
  <2>4. TxnsTell'
    BY <2>1 DEF IInv, TxnsTell
  <2>5. WorkHolds' /\ LedgerTells'
    BY <2>1 DEF IInv, WorkHolds, LedgerTells
  <2>3. (TokenTimes /\ FreshTokens /\ JustVerified /\ OneEffect /\ Appending)'
    BY <2>1 DEF IInv, TokenTimes, FreshTokens, JustVerified, OneEffect, Appending, LongReplay
  <2> QED
    BY <1>1, <2>2, <2>3, <2>4, <2>5 DEF IInv
<1>3. CASE Tick
  BY <1>1, <1>3, TickInv
<1>4. ASSUME NEW e \in Events, QueueStep(e) PROVE IInv'
  BY <1>1, <1>4, StartQueueInv, ContinueQueueInv, CommitQueueInv DEF QueueStep
<1>5. ASSUME NEW w \in Workers, Dispatch(w) PROVE IInv'
  BY <1>1, <1>5, TakeInv, VerifyInv, ConsumeInv, CallInv, AppendAndCommitInv DEF Dispatch
<1>6. ASSUME NEW w \in Workers, WorkerDies(w) PROVE IInv'
  BY <1>1, <1>6, WorkerDiesInv
<1> QED
  BY <1>2, <1>3, <1>4, <1>5, <1>6 DEF Next

\* The inductive invariant holds, for any events, workers, clocks and crashes.
THEOREM HarnessInvariance == Spec => []IInv
<1>1. Init => IInv
  BY InitInv
<1>2. IInv /\ [Next]_vars => IInv'
  BY NextInv
<1> QED
  BY <1>1, <1>2, PTL DEF Spec

-----------------------------------------------------------------------------
(***************************************************************************)
(* The theorems                                                            *)
(***************************************************************************)

\* However times, clocks and lifetimes are chosen so that the replay record
\* outlives the token: whichever transactions are rolled back, the effect of an
\* event takes place once.
THEOREM SingleUseHolds == Spec => []SingleUse
<1>1. IInv => SingleUse
  BY DEF IInv, OneEffect, SingleUse
<1> QED
  BY <1>1, HarnessInvariance, PTL

\* Ledger and outbox agree in every state: which events were queued, which were
\* published, and that the published ones took effect.
THEOREM LedgerTellsHolds == Spec => []LedgerTells
<1>1. IInv => LedgerTells
  BY DEF IInv
<1> QED
  BY <1>1, HarnessInvariance, PTL

\* The broker with its requests and workers appends as the ledger specifies.
THEOREM ImplementsLedger == Spec => LedgerSpec
<1>1. Init => LedgerInit
  BY DEF Init
<1>2. IInv /\ [Next]_vars => [LedgerNext]_ledgerVars
  BY StepOfLedger DEF IInv
<1> QED
  BY <1>1, <1>2, HarnessInvariance, PTL DEF Spec, LedgerSpec

\* So its evidence is one chain.
THEOREM BrokerChain == Spec => []ChainUnbroken
  BY ImplementsLedger, LedgerChain, PTL

=============================================================================

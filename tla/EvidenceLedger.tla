--------------------------- MODULE EvidenceLedger ---------------------------
(***************************************************************************)
(* The evidence ledger of one project: a chain of rows, each of which has  *)
(* the hash of the one before.  A transaction appends with                 *)
(* append_evidence_event: it selects the last row FOR UPDATE, makes the    *)
(* next one of it, and inserts that.                                       *)
(*                                                                         *)
(* What PostgreSQL does with it at READ COMMITTED: the select sees the     *)
(* committed rows and waits for the lock of the row it found, and when it  *)
(* gets the lock that row is its result, although it may not be the last   *)
(* one any more.  An empty chain has no row to lock.  The insert waits for *)
(* an uncommitted row of the same number, and is refused when there is a   *)
(* committed one.                                                          *)
(***************************************************************************)
EXTENDS Integers

CONSTANTS
    Writers,        \* the transactions that may be under way at once
    Contents        \* what an event says

VARIABLES
    rows,       \* the committed rows of evidence_ledger_events
    txn         \* txn[w]: where the append of transaction w is

ledgerVars == <<rows, txn>>

\* The hash of an event is a function of these three and of nothing else; two
\* events have one hash only if they agree in them.
Hash(prev, seq, content) == <<prev, seq, content>>

\* The row before the first one, GENESIS_HASH.
GenesisRow == [seq |-> 0, prev |-> <<>>, content |-> <<>>, hash |-> <<>>]

NextRow(last, content) ==
    [seq |-> last.seq + 1, prev |-> last.hash, content |-> content,
     hash |-> Hash(last.hash, last.seq + 1, content)]

\* wait: for the lock of last; read: it holds that lock; inserted: and has new.
NoTxn == [pc |-> "none", last |-> GenesisRow, new |-> GenesisRow]

LedgerInit ==
    /\ rows = {}
    /\ txn = [w \in Writers |-> NoTxn]

Locked(r) ==
    r # GenesisRow /\ \E w \in Writers : txn[w].pc \in {"read", "inserted"} /\ txn[w].last = r

SelectLast(w) ==
    /\ txn[w].pc = "none"
    /\ \E r \in rows \cup {GenesisRow} :
           /\ \A q \in rows : q.seq <= r.seq
           /\ txn' = [txn EXCEPT ![w] = [NoTxn EXCEPT !.pc = IF Locked(r) THEN "wait" ELSE "read",
                                                      !.last = r]]
    /\ UNCHANGED rows

GetLock(w) ==
    /\ txn[w].pc = "wait"
    /\ ~Locked(txn[w].last)
    /\ txn' = [txn EXCEPT ![w].pc = "read"]
    /\ UNCHANGED rows

Taken(w) == \E r \in rows : r.seq = txn[w].last.seq + 1

\* The insert does not have to wait.
Free(w) ==
    ~\E v \in Writers \ {w} : txn[v].pc = "inserted" /\ txn[v].new.seq = txn[w].last.seq + 1

\* Mutant: the number of a row is not unique.
InsertMutant(w, content) ==
    /\ txn[w].pc = "read" /\ Free(w)
    /\ txn' = [txn EXCEPT ![w].pc = "inserted", ![w].new = NextRow(txn[w].last, content)]
    /\ UNCHANGED rows

Insert(w, content) ==
    /\ txn[w].pc = "read" /\ Free(w) /\ ~Taken(w)
    /\ txn' = [txn EXCEPT ![w].pc = "inserted", ![w].new = NextRow(txn[w].last, content)]
    /\ UNCHANGED rows

\* The insert is refused with an IntegrityError, which nothing catches: the
\* transaction is rolled back.
InsertRefused(w) ==
    /\ txn[w].pc = "read" /\ Taken(w)
    /\ txn' = [txn EXCEPT ![w] = NoTxn]
    /\ UNCHANGED rows

CommitAppend(w) ==
    /\ txn[w].pc = "inserted"
    /\ rows' = rows \cup {txn[w].new}
    /\ txn' = [txn EXCEPT ![w] = NoTxn]

Rollback(w) ==
    /\ txn' = [txn EXCEPT ![w] = NoTxn]
    /\ UNCHANGED rows

LedgerNext ==
    \E w \in Writers :
        \/ SelectLast(w) \/ GetLock(w) \/ (\E c \in Contents : Insert(w, c))
        \/ InsertRefused(w) \/ CommitAppend(w) \/ Rollback(w)

LedgerSpec == LedgerInit /\ [][LedgerNext]_ledgerVars

-----------------------------------------------------------------------------
\* The ledger is one chain: no two rows have one number, each row continues the
\* row with the number before, and the first one continues the genesis row,
\* whichever transactions append at the same time.
ChainUnbroken ==
    /\ \A r, q \in rows : r.seq = q.seq => r = q
    /\ \A r \in rows : \E q \in rows \cup {GenesisRow} : r = NextRow(q, r.content)

=============================================================================

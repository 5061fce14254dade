----------------------------- MODULE FileAssets -----------------------------
(***************************************************************************)
(* The upload of a file: it is measured and profiled, stored as an object, *)
(* registered as a row of file_assets, and removed from the object store   *)
(* again when the registration fails.  Two stores, no common transaction:  *)
(* the request remembers in two flags how far it got.                      *)
(*                                                                         *)
(* A call may fail, or be carried out without the caller learning of it;   *)
(* the process may be lost between two calls.  Each upload makes each call *)
(* once, and failed says which of them went wrong.                         *)
(***************************************************************************)
EXTENDS Integers, Sequences, FiniteSets

CONSTANTS
    Uploads,        \* the uploads, each of which has an object key of its own
    Names,          \* the header names of a file, without generated suffixes
    MaxColumns,     \* bound: columns of a file
    MaxSize,        \* max_upload_size_bytes, in chunks
    MaxChunks       \* bound: chunks of a file

ASSUME FileAssumption == MaxColumns \in Nat /\ MaxSize \in Nat /\ MaxChunks \in Nat

-----------------------------------------------------------------------------
(***************************************************************************)
(* The profile.  A header is a name, or a name with a number: "a" is <<a>>  *)
(* and "a_2" is <<a, 2>>.                                                  *)
(***************************************************************************)
Header == {<<n>> : n \in Names} \cup {<<n, k>> : n \in Names, k \in 2..MaxColumns}
Headers == UNION {[1..n -> Header] : n \in 0..MaxColumns}

Occurrence(h, i) == Cardinality({j \in 1..i : h[j] = h[i]})

\* Mutant: a repeated header keeps its name.
UniqueHeadersMutant(h) == h

\* The first column of a name keeps it, the k-th gets the suffix k.
UniqueHeaders(h) ==
    [i \in DOMAIN h |-> IF Occurrence(h, i) = 1 THEN h[i] ELSE Append(h[i], Occurrence(h, i))]

\* The columns of the profile are the keys of its sample rows, the longest of which
\* has n cells: a file without rows has a profile without columns.  (A header
\* without a name is named by its position; that name is among the headers here.)
Columns(h, n) == {UniqueHeaders(h)[i] : i \in 1..n}

-----------------------------------------------------------------------------
VARIABLES
    up,         \* up[u]: where the request is
    flags,      \* flags[u]: its variables uploaded and persisted
    object,     \* object[u]: the object is in the store
    row,        \* row[u]: the row is committed, and what its profile is like
    answer,     \* answer[u]: what the caller was told
    failed      \* failed[u]: what went wrong

uploadVars == <<up, flags, object, row, answer, failed>>

\* "lost put" and "lost commit" were carried out and reported as errors.
Failures == {"put", "lost put", "commit", "lost commit", "refresh", "delete", "death"}

\* odd: a header of the file looks like a generated one; whole: each column that
\* has a cell in the sample is a column of the profile.
Row    == [registered : BOOLEAN, odd : BOOLEAN, whole : BOOLEAN]
NoRow  == [registered |-> FALSE, odd |-> FALSE, whole |-> TRUE]
NoFlag == [uploaded |-> FALSE, persisted |-> FALSE]

\* A name with a number stands for a column that was given that name.
RowOf(h, n) == [registered |-> TRUE, odd |-> \E i \in DOMAIN h : Len(h[i]) > 1,
                whole |-> Cardinality(Columns(h, n)) = n]

Profiles == UNION {{RowOf(h, n) : n \in 0..Len(h)} : h \in Headers}

UploadTypeOK ==
    /\ up \in [Uploads -> {"new", "put", "add", "refresh", "finally", "done"}]
    /\ flags \in [Uploads -> [uploaded : BOOLEAN, persisted : BOOLEAN]]
    /\ object \in [Uploads -> BOOLEAN]
    /\ row \in [Uploads -> Row]
    /\ answer \in [Uploads -> {"none", "created", "invalid", "failed"}]
    /\ failed \in [Uploads -> SUBSET Failures]

UploadInit ==
    /\ up = [u \in Uploads |-> "new"]
    /\ flags = [u \in Uploads |-> NoFlag]
    /\ object = [u \in Uploads |-> FALSE]
    /\ row = [u \in Uploads |-> NoRow]
    /\ answer = [u \in Uploads |-> "none"]
    /\ failed = [u \in Uploads |-> {}]

Smooth      == UNCHANGED failed
Fails(u, f) == failed' = [failed EXCEPT ![u] = @ \cup {f}]

-----------------------------------------------------------------------------
(***************************************************************************)
(* The request                                                             *)
(***************************************************************************)

\* The chunks are counted while they are copied, and counting stops at the limit;
\* a format that is not known is refused before, a broken file raises after.
InspectUpload(u) ==
    /\ up[u] = "new"
    /\ \E chunks \in 0..MaxChunks, known, broken \in BOOLEAN :
           \/ /\ ~known \/ chunks > MaxSize
              /\ up' = [up EXCEPT ![u] = "done"]
              /\ answer' = [answer EXCEPT ![u] = "invalid"]
           \/ /\ known /\ chunks <= MaxSize /\ broken
              /\ up' = [up EXCEPT ![u] = "done"]
              /\ answer' = [answer EXCEPT ![u] = "failed"]
           \/ /\ known /\ chunks <= MaxSize /\ ~broken
              /\ up' = [up EXCEPT ![u] = "put"]
              /\ UNCHANGED answer
    /\ Smooth
    /\ UNCHANGED <<flags, object, row>>

\* The upload; when it fails, the store may have the object all the same.
Put(u) ==
    /\ up[u] = "put"
    /\ \/ /\ Smooth
          /\ object' = [object EXCEPT ![u] = TRUE]
          /\ flags' = [flags EXCEPT ![u].uploaded = TRUE]
          /\ up' = [up EXCEPT ![u] = "add"]
       \/ /\ Fails(u, "put")
          /\ UNCHANGED <<object, flags>>
          /\ up' = [up EXCEPT ![u] = "finally"]
       \/ /\ Fails(u, "lost put")
          /\ object' = [object EXCEPT ![u] = TRUE]
          /\ UNCHANGED flags
          /\ up' = [up EXCEPT ![u] = "finally"]
    /\ UNCHANGED <<row, answer>>

\* Mutant: the request counts as persisted before the commit.
AddRowMutant(u) ==
    /\ up[u] = "add"
    /\ \/ Smooth /\ up' = [up EXCEPT ![u] = "refresh"]
             /\ \E r \in Profiles : row' = [row EXCEPT ![u] = r]
       \/ Fails(u, "commit") /\ up' = [up EXCEPT ![u] = "finally"] /\ UNCHANGED row
    /\ flags' = [flags EXCEPT ![u].persisted = TRUE]
    /\ UNCHANGED <<object, answer>>

\* INSERT and commit; a commit whose answer is lost has taken place or has not.
AddRow(u) ==
    /\ up[u] = "add"
    /\ LET registered == \E r \in Profiles : row' = [row EXCEPT ![u] = r]
       IN  \/ Smooth /\ registered /\ up' = [up EXCEPT ![u] = "refresh"]
           \/ Fails(u, "commit") /\ UNCHANGED row /\ up' = [up EXCEPT ![u] = "finally"]
           \/ Fails(u, "lost commit") /\ registered /\ up' = [up EXCEPT ![u] = "finally"]
    /\ UNCHANGED <<flags, object, answer>>

\* Reads the committed row again, to answer with it: when that fails, the request
\* does not count as persisted although the row is committed.
Refresh(u) ==
    /\ up[u] = "refresh"
    /\ \/ Smooth /\ flags' = [flags EXCEPT ![u].persisted = TRUE]
       \/ Fails(u, "refresh") /\ UNCHANGED flags
    /\ up' = [up EXCEPT ![u] = "finally"]
    /\ UNCHANGED <<object, row, answer>>

\* The finally block: an object that was uploaded and not persisted is deleted,
\* and an error of the deletion is ignored.
Compensate(u) ==
    /\ up[u] = "finally"
    /\ IF flags[u].uploaded /\ ~flags[u].persisted
       THEN \/ object' = [object EXCEPT ![u] = FALSE] /\ Smooth
            \/ UNCHANGED object /\ Fails(u, "delete")
       ELSE UNCHANGED object /\ Smooth
    /\ up' = [up EXCEPT ![u] = "done"]
    /\ answer' = [answer EXCEPT ![u] = IF flags[u].persisted THEN "created" ELSE "failed"]
    /\ UNCHANGED <<flags, row>>

UploadDies(u) ==
    /\ up[u] \in {"put", "add", "refresh", "finally"}
    /\ Fails(u, "death")
    /\ up' = [up EXCEPT ![u] = "done"]
    /\ UNCHANGED <<flags, object, row, answer>>

UploadNext ==
    \E u \in Uploads :
        \/ InspectUpload(u) \/ Put(u) \/ AddRow(u) \/ Refresh(u) \/ Compensate(u) \/ UploadDies(u)

UploadSpec == UploadInit /\ [][UploadNext]_uploadVars

-----------------------------------------------------------------------------
(***************************************************************************)
(* Properties                                                              *)
(***************************************************************************)

\* What an upload that is over can leave behind, whichever of its calls failed.  What
\* the caller was told to exist does.  An object without a row is one that the store
\* did not delete, one whose upload was reported as failed, or that of a request
\* that was lost.  A row without its object, or one that the caller does not know
\* of, is one whose commit took place and that could not be read again (or whose
\* commit was reported as failed): then the compensation deletes what the row needs.
WholeOrNothing ==
    \A u \in Uploads : up[u] = "done" =>
        /\ answer[u] = "created" => object[u] /\ row[u].registered
        /\ object[u] /\ ~row[u].registered
              => failed[u] \cap {"lost put", "delete", "death"} # {}
        /\ row[u].registered /\ ~object[u] => failed[u] \cap {"lost commit", "refresh"} # {}
        /\ row[u].registered /\ answer[u] # "created"
              => failed[u] \cap {"lost commit", "refresh", "death"} # {}

\* Each column that has a cell in the sample is a column of the profile, however
\* often its header occurs, unless the file has a header that looks like a
\* generated one (a, a, a_2 gives two columns).
ColumnsKept == \A u \in Uploads : row[u].odd \/ row[u].whole

=============================================================================

-------------------------- MODULE FileAssets_proofs --------------------------
(***************************************************************************)
(* For any uploads, names and bounds: what an upload leaves in the two     *)
(* stores is accounted for by the calls of its own that failed; and the    *)
(* numbers that repeated headers are given keep the columns of a profile   *)
(* apart.                                                                  *)
(***************************************************************************)
EXTENDS FileAssets, FiniteSetTheorems, SequenceTheorems, TLAPS

-----------------------------------------------------------------------------
(***************************************************************************)
(* The headers of a profile                                                *)
(***************************************************************************)

LEMMA HeadersTyped ==
  ASSUME NEW h \in Headers
  PROVE  /\ Len(h) \in 0..MaxColumns /\ DOMAIN h = 1..Len(h)
         /\ \A i \in 1..Len(h) : h[i] \in Header
<1>1. PICK n \in 0..MaxColumns : h \in [1..n -> Header]
  BY DEF Headers
<1>2. n \in Nat /\ h \in Seq(Header) /\ Len(h) = n
  BY <1>1, FileAssumption DEF FileAssumption
<1> QED
  BY <1>1, <1>2

\* A header without a number is one name.
LEMMA PlainHeader ==
  ASSUME NEW x \in Header, ~(Len(x) > 1) PROVE \E a \in Names : x = <<a>>
<1>1. CASE \E a \in Names : x = <<a>>
  BY <1>1
<1>2. CASE \E a \in Names, k \in 2..MaxColumns : x = <<a, k>>
  <2>1. Len(x) = 2
    BY <1>2
  <2> QED
    BY <2>1
<1> QED
  BY <1>1, <1>2 DEF Header

LEMMA OccurrenceTyped ==
  ASSUME NEW h \in Headers, NEW i \in 1..Len(h)
  PROVE  Occurrence(h, i) \in Nat \ {0}
<1> DEFINE S == {j \in 1..i : h[j] = h[i]}
<1>1. Len(h) \in Nat /\ i \in Nat
  BY HeadersTyped, FileAssumption DEF FileAssumption
<1>2. IsFiniteSet(S)
  <2>1. IsFiniteSet(1..i)
    BY <1>1, FS_Interval
  <2> QED
    BY <2>1, FS_Subset
<1>3. i \in S
  BY <1>1
<1>4. Cardinality(S) \in Nat /\ Cardinality(S) # 0
  BY <1>2, <1>3, FS_CardinalityType, FS_EmptySet
<1> QED
  BY <1>4 DEF Occurrence

\* The second of two equal headers has a larger number than the first.
LEMMA OccurrenceGrows ==
  ASSUME NEW h \in Headers, NEW i \in 1..Len(h), NEW j \in 1..Len(h), i < j, h[i] = h[j]
  PROVE  Occurrence(h, i) < Occurrence(h, j)
<1> DEFINE S == {k \in 1..i : h[k] = h[i]}
           T == {k \in 1..j : h[k] = h[j]}
<1>1. Len(h) \in Nat /\ i \in Nat /\ j \in Nat
  BY HeadersTyped, FileAssumption DEF FileAssumption
<1>2. S \subseteq T /\ j \in T /\ j \notin S
  BY <1>1
<1>3. IsFiniteSet(T)
  <2>1. IsFiniteSet(1..j)
    BY <1>1, FS_Interval
  <2> QED
    BY <2>1, FS_Subset
<1>4. IsFiniteSet(S) /\ Cardinality(S) <= Cardinality(T) /\ Cardinality(S) # Cardinality(T)
  BY <1>2, <1>3, FS_Subset
<1>5. Cardinality(S) \in Nat /\ Cardinality(T) \in Nat
  BY <1>3, <1>4, FS_CardinalityType
<1>6. Cardinality(S) < Cardinality(T)
  BY <1>4, <1>5
<1> QED
  BY <1>6 DEF Occurrence

\* A name, a number, and the two as one header.
LEMMA Numbered ==
  ASSUME NEW a, NEW m
  PROVE  /\ Len(<<a>>) = 1 /\ <<a>>[1] = a
         /\ Len(Append(<<a>>, m)) = 2 /\ Append(<<a>>, m)[1] = a /\ Append(<<a>>, m)[2] = m
<1>1. <<a>> \in Seq({a, m}) /\ Len(<<a>>) = 1 /\ <<a>>[1] = a
  OBVIOUS
<1>2. \A s \in Seq({a, m}) : Len(s) = 1 /\ s[1] = a =>
          Len(Append(s, m)) = 2 /\ Append(s, m)[1] = a /\ Append(s, m)[2] = m
  <2> SUFFICES ASSUME NEW s \in Seq({a, m}), Len(s) = 1, s[1] = a
               PROVE  Len(Append(s, m)) = 2 /\ Append(s, m)[1] = a /\ Append(s, m)[2] = m
    OBVIOUS
  <2>1. m \in {a, m}
    OBVIOUS
  <2>2. Len(Append(s, m)) = Len(s) + 1 /\ Append(s, m)[Len(s) + 1] = m
        /\ \A i \in 1..Len(s) : Append(s, m)[i] = s[i]
    BY <2>1, AppendProperties
  <2> QED
    BY <2>2
<1>3. Len(Append(<<a>>, m)) = 2 /\ Append(<<a>>, m)[1] = a /\ Append(<<a>>, m)[2] = m
  BY <1>1, <1>2, Zenon
<1> QED
  BY <1>1, <1>3, Zenon

\* In a file none of whose headers has a number, no two columns get one name.
LEMMA UniqueHeadersDiffer ==
  ASSUME NEW h \in Headers, \A i \in 1..Len(h) : ~(Len(h[i]) > 1),
         NEW i \in 1..Len(h), NEW j \in 1..Len(h), i < j
  PROVE  UniqueHeaders(h)[i] # UniqueHeaders(h)[j]
<1>1. PICK a \in Names : h[i] = <<a>>
  BY HeadersTyped, PlainHeader
<1>2. PICK b \in Names : h[j] = <<b>>
  BY HeadersTyped, PlainHeader
<1> DEFINE m == Occurrence(h, i)
           n == Occurrence(h, j)
<1>3. m \in Nat \ {0} /\ n \in Nat \ {0}
  BY OccurrenceTyped
<1>4. a = b => m < n
  BY <1>1, <1>2, OccurrenceGrows
<1>5. /\ UniqueHeaders(h)[i] = (IF m = 1 THEN <<a>> ELSE Append(<<a>>, m))
      /\ UniqueHeaders(h)[j] = (IF n = 1 THEN <<b>> ELSE Append(<<b>>, n))
  BY <1>1, <1>2, HeadersTyped DEF UniqueHeaders
<1> HIDE DEF m, n
<1>6. CASE m = 1 /\ n = 1
  <2>1. <<a>>[1] = a /\ <<b>>[1] = b
    OBVIOUS
  <2> QED
    BY <1>4, <1>5, <1>6, <2>1
<1>7. CASE m # 1 /\ n # 1
  <2>1. /\ Append(<<a>>, m)[1] = a /\ Append(<<a>>, m)[2] = m
        /\ Append(<<b>>, n)[1] = b /\ Append(<<b>>, n)[2] = n
    BY Numbered
  <2>2. UniqueHeaders(h)[i] = Append(<<a>>, m) /\ UniqueHeaders(h)[j] = Append(<<b>>, n)
    BY <1>5, <1>7
  <2> QED
    BY <1>3, <1>4, <2>1, <2>2
<1>8. CASE m = 1 /\ n # 1
  BY <1>5, <1>8, Numbered
<1>9. CASE m # 1 /\ n = 1
  BY <1>5, <1>9, Numbered
<1> QED
  BY <1>6, <1>7, <1>8, <1>9

\* So a profile of n columns has n names.
LEMMA ColumnsCounted ==
  ASSUME NEW h \in Headers, \A i \in 1..Len(h) : ~(Len(h[i]) > 1), NEW n \in 0..Len(h)
  PROVE  Cardinality(Columns(h, n)) = n
<1> DEFINE f == [i \in 1..n |-> UniqueHeaders(h)[i]]
<1>1. n \in Nat /\ Len(h) \in Nat /\ 1..n \subseteq 1..Len(h)
  BY HeadersTyped, FileAssumption DEF FileAssumption
<1>2. \A i, j \in 1..n : i # j => f[i] # f[j]
  <2> SUFFICES ASSUME NEW i \in 1..n, NEW j \in 1..n, i # j PROVE f[i] # f[j]
    OBVIOUS
  <2>1. CASE i < j
    BY <1>1, <2>1, UniqueHeadersDiffer
  <2>2. CASE j < i
    BY <1>1, <2>2, UniqueHeadersDiffer
  <2> QED
    BY <1>1, <2>1, <2>2
<1>3. f \in Bijection(1..n, Columns(h, n))
  BY <1>2 DEF Columns, Bijection, Injection, Surjection, IsInjective
<1>4. IsFiniteSet(1..n) /\ Cardinality(1..n) = n
  BY <1>1, FS_Interval
<1> QED
  BY <1>3, <1>4, FS_Bijection DEF ExistsBijection

\* What is registered is a row of the right kind, that keeps its columns.
LEMMA ProfilesKept ==
  ASSUME NEW r \in Profiles PROVE r \in Row /\ r.registered /\ (r.odd \/ r.whole)
<1>1. PICK h \in Headers : \E n \in 0..Len(h) : r = RowOf(h, n)
  BY DEF Profiles
<1>2. PICK n \in 0..Len(h) : r = RowOf(h, n)
  BY <1>1
<1>3. r \in Row /\ r.registered
  BY <1>2 DEF RowOf, Row
<1>4. CASE \E i \in DOMAIN h : Len(h[i]) > 1
  BY <1>2, <1>3, <1>4 DEF RowOf
<1>5. CASE ~\E i \in DOMAIN h : Len(h[i]) > 1
  <2>1. Cardinality(Columns(h, n)) = n
    BY <1>5, HeadersTyped, ColumnsCounted
  <2> QED
    BY <1>2, <1>3, <2>1 DEF RowOf
<1> QED
  BY <1>4, <1>5

-----------------------------------------------------------------------------
(***************************************************************************)
(* The inductive invariant: where the request is tells what the two stores *)
(* hold, up to the calls whose outcome it did not learn.                   *)
(***************************************************************************)
Untouched(u) == ~flags[u].uploaded /\ ~object[u] /\ ~row[u].registered
Stored(u)    == flags[u].uploaded /\ ~flags[u].persisted /\ object[u]

\* What the flags say is so, and what they do not say is so only after a failure.
FlagsTell(u) ==
    /\ flags[u].persisted => flags[u].uploaded
    /\ flags[u].uploaded => object[u]
    /\ flags[u].persisted => row[u].registered
    /\ object[u] /\ ~flags[u].uploaded => "lost put" \in failed[u]
    /\ row[u].registered => flags[u].uploaded
    /\ row[u].registered /\ ~flags[u].persisted => failed[u] \cap {"lost commit", "refresh"} # {}

StageTells(u) ==
    /\ up[u] \in {"new", "put"} => Untouched(u) /\ ~flags[u].persisted
    /\ up[u] = "add"             => Stored(u) /\ ~row[u].registered
    /\ up[u] = "refresh"         => Stored(u) /\ row[u].registered
    /\ up[u] = "finally"         => FlagsTell(u)
    /\ up[u] # "done"            => answer[u] = "none"

Settled(u) ==
    up[u] = "done" =>
        /\ answer[u] = "created" => object[u] /\ row[u].registered
        /\ object[u] /\ ~row[u].registered
              => failed[u] \cap {"lost put", "delete", "death"} # {}
        /\ row[u].registered /\ ~object[u] => failed[u] \cap {"lost commit", "refresh"} # {}
        /\ row[u].registered /\ answer[u] # "created"
              => failed[u] \cap {"lost commit", "refresh", "death"} # {}

UploadInv ==
    /\ UploadTypeOK
    /\ \A u \in Uploads : StageTells(u) /\ Settled(u) /\ (row[u].odd \/ row[u].whole)

LEMMA UploadInitInv == UploadInit => UploadInv
<1> SUFFICES ASSUME UploadInit PROVE UploadInv
  OBVIOUS
<1>1. UploadTypeOK
  BY DEF UploadInit, UploadTypeOK, NoFlag, NoRow, Row
<1>2. \A u \in Uploads : StageTells(u) /\ Settled(u) /\ (row[u].odd \/ row[u].whole)
  BY DEF UploadInit, StageTells, Settled, Untouched, NoFlag, NoRow
<1> QED
  BY <1>1, <1>2 DEF UploadInv

\* A step of one upload leaves the others as they are.
LEMMA OneUpload ==
  ASSUME UploadInv, NEW u \in Uploads, UploadTypeOK',
         \A v \in Uploads : v # u =>
             /\ up'[v] = up[v] /\ flags'[v] = flags[v] /\ object'[v] = object[v]
             /\ row'[v] = row[v] /\ answer'[v] = answer[v] /\ failed'[v] = failed[v],
         (StageTells(u) /\ Settled(u))', row'[u].odd \/ row'[u].whole
  PROVE  UploadInv'
<1>2. ASSUME NEW v \in Uploads, v # u
      PROVE  (StageTells(v) /\ Settled(v))' /\ (row'[v].odd \/ row'[v].whole)
  BY <1>2 DEF UploadInv, StageTells, Settled, Untouched, Stored, FlagsTell
<1> QED
  BY <1>2 DEF UploadInv

\* Of one upload more may have failed, and what is known of the others stays.
LEMMA Counted ==
  ASSUME UploadTypeOK, NEW u \in Uploads, Smooth \/ \E f \in Failures : Fails(u, f)
  PROVE  /\ failed' \in [Uploads -> SUBSET Failures]
         /\ \A v \in Uploads : v # u => failed'[v] = failed[v]
         /\ \A f \in Failures : Fails(u, f) => f \in failed'[u]
         /\ failed[u] \subseteq failed'[u]
<1> USE DEF UploadTypeOK, Smooth, Fails
<1>1. failed' \in [Uploads -> SUBSET Failures]
  OBVIOUS
<1>2. \A v \in Uploads : v # u => failed'[v] = failed[v]
  OBVIOUS
<1>3. \A f \in Failures : Fails(u, f) => f \in failed'[u]
  OBVIOUS
<1>4. failed[u] \subseteq failed'[u]
  OBVIOUS
<1> QED
  BY <1>1, <1>2, <1>3, <1>4

LEMMA FlagSet ==
  ASSUME flags \in [Uploads -> [uploaded : BOOLEAN, persisted : BOOLEAN]], NEW u \in Uploads
  PROVE  /\ [flags EXCEPT ![u].uploaded = TRUE]
               \in [Uploads -> [uploaded : BOOLEAN, persisted : BOOLEAN]]
         /\ [flags EXCEPT ![u].persisted = TRUE]
               \in [Uploads -> [uploaded : BOOLEAN, persisted : BOOLEAN]]
<1>1. flags[u] \in [uploaded : BOOLEAN, persisted : BOOLEAN]
  OBVIOUS
<1>2. /\ [flags[u] EXCEPT !.uploaded = TRUE] \in [uploaded : BOOLEAN, persisted : BOOLEAN]
      /\ [flags[u] EXCEPT !.persisted = TRUE] \in [uploaded : BOOLEAN, persisted : BOOLEAN]
  BY <1>1
<1> QED
  BY <1>2

LEMMA UploadNextInv ==
  ASSUME UploadInv, [UploadNext]_uploadVars PROVE UploadInv'
<1>1. CASE UNCHANGED uploadVars
  BY <1>1
  DEF uploadVars, UploadInv, UploadTypeOK, StageTells, Settled, Untouched, Stored, FlagsTell
<1>2. ASSUME NEW u \in Uploads,
             InspectUpload(u) \/ Put(u) \/ AddRow(u) \/ Refresh(u) \/ Compensate(u) \/ UploadDies(u)
      PROVE  UploadInv'
  <2>0. UploadTypeOK /\ StageTells(u) /\ Settled(u) /\ (row[u].odd \/ row[u].whole)
    BY DEF UploadInv
  <2>1. CASE InspectUpload(u)
    <3>1. UploadTypeOK' /\ \A v \in Uploads : v # u => failed'[v] = failed[v]
      BY <2>0, <2>1 DEF InspectUpload, UploadTypeOK, Smooth
    <3>2. (StageTells(u) /\ Settled(u))' /\ (row'[u].odd \/ row'[u].whole)
      BY <2>0, <2>1
      DEF InspectUpload, UploadTypeOK, Smooth, StageTells, Settled, Untouched, FlagsTell
    <3> QED
      BY <2>0, <2>1, <3>1, <3>2, OneUpload DEF InspectUpload, UploadTypeOK
  <2>2. CASE Put(u)
    <3>0. Smooth \/ \E f \in Failures : Fails(u, f)
      BY <2>2 DEF Put, Failures
    <3>1. UploadTypeOK' /\ \A v \in Uploads : v # u => failed'[v] = failed[v]
      <4>1. up' \in [Uploads -> {"new", "put", "add", "refresh", "finally", "done"}]
        BY <2>0, <2>2 DEF Put, UploadTypeOK
      <4>2. object' \in [Uploads -> BOOLEAN]
        BY <2>0, <2>2 DEF Put, UploadTypeOK
      <4>3. flags' \in [Uploads -> [uploaded : BOOLEAN, persisted : BOOLEAN]]
        <5>1. flags' = [flags EXCEPT ![u].uploaded = TRUE] \/ UNCHANGED flags
          BY <2>2 DEF Put, Failures
        <5>2. flags \in [Uploads -> [uploaded : BOOLEAN, persisted : BOOLEAN]]
          BY <2>0 DEF UploadTypeOK
        <5>3. CASE flags' = [flags EXCEPT ![u].uploaded = TRUE]
          BY ONLY <5>2, <5>3, FlagSet, u \in Uploads
        <5>4. CASE UNCHANGED flags
          BY ONLY <5>2, <5>4
        <5> QED
          BY ONLY <5>1, <5>3, <5>4
      <4>4. UNCHANGED <<row, answer>>
        BY <2>2 DEF Put, Failures
      <4> QED
        BY <2>0, <3>0, <4>1, <4>2, <4>3, <4>4, Counted DEF UploadTypeOK
    <3>2. (row'[u].odd \/ row'[u].whole) /\ answer'[u] = "none" /\ ~row'[u].registered
          /\ ~flags[u].uploaded /\ ~flags[u].persisted /\ ~object[u]
      BY <2>0, <2>2 DEF Put, StageTells, Untouched
    <3>3. ASSUME Smooth, object' = [object EXCEPT ![u] = TRUE],
                 flags' = [flags EXCEPT ![u].uploaded = TRUE], up' = [up EXCEPT ![u] = "add"]
          PROVE  (StageTells(u) /\ Settled(u))'
      <4>1. object'[u] /\ flags'[u].uploaded /\ ~flags'[u].persisted /\ up'[u] = "add"
        BY <2>0, <3>2, <3>3 DEF UploadTypeOK
      <4> QED
        BY <3>2, <4>1 DEF StageTells, Settled, Stored
    <3>4. ASSUME UNCHANGED <<object, flags>>, up' = [up EXCEPT ![u] = "finally"]
          PROVE  (StageTells(u) /\ Settled(u))'
      <4>1. up'[u] = "finally"
        BY <2>0, <3>4 DEF UploadTypeOK
      <4> QED
        BY <3>2, <3>4, <4>1 DEF StageTells, Settled, FlagsTell
    <3>5. ASSUME Fails(u, "lost put"), UNCHANGED flags, up' = [up EXCEPT ![u] = "finally"]
          PROVE  (StageTells(u) /\ Settled(u))'
      <4>1. up'[u] = "finally" /\ "lost put" \in failed'[u]
        BY <2>0, <3>5, Counted DEF UploadTypeOK, Failures
      <4> QED
        BY <3>2, <3>5, <4>1 DEF StageTells, Settled, FlagsTell
    <3>6. (StageTells(u) /\ Settled(u))'
      BY <2>2, <3>3, <3>4, <3>5 DEF Put
    <3> QED
      BY <2>0, <2>2, <3>1, <3>2, <3>6, OneUpload DEF Put, UploadTypeOK
  <2>3. CASE AddRow(u)
    <3>1. \/ UNCHANGED row
          \/ \E r \in Profiles : row' = [row EXCEPT ![u] = r]
      BY <2>3 DEF AddRow, Failures
    <3>2. /\ row' \in [Uploads -> Row] /\ (row'[u].odd \/ row'[u].whole)
          /\ \A v \in Uploads : v # u => row'[v] = row[v]
      BY <2>0, <3>1, ProfilesKept DEF UploadTypeOK
    <3>3. \/ Smooth /\ up' = [up EXCEPT ![u] = "refresh"] /\ row'[u].registered
          \/ Fails(u, "commit") /\ UNCHANGED row /\ up' = [up EXCEPT ![u] = "finally"]
          \/ /\ Fails(u, "lost commit") /\ up' = [up EXCEPT ![u] = "finally"]
             /\ row'[u].registered
      <4>1. \A r \in Profiles : row' = [row EXCEPT ![u] = r] => row'[u].registered
        BY <2>0, ProfilesKept DEF UploadTypeOK
      <4> QED
        BY <2>3, <4>1 DEF AddRow
    <3>4. UploadTypeOK' /\ \A v \in Uploads : v # u => failed'[v] = failed[v]
      <4>1. Smooth \/ \E f \in Failures : Fails(u, f)
        BY <3>3 DEF Failures
      <4>2. up' \in [Uploads -> {"new", "put", "add", "refresh", "finally", "done"}]
        BY <2>0, <3>3 DEF UploadTypeOK
      <4> QED
        BY <2>0, <2>3, <3>2, <4>1, <4>2, Counted DEF AddRow, UploadTypeOK
    <3>5. (StageTells(u) /\ Settled(u))'
      <4>1. /\ UNCHANGED <<flags, object, answer>> /\ answer[u] = "none"
            /\ flags[u].uploaded /\ ~flags[u].persisted /\ object[u] /\ ~row[u].registered
        BY <2>0, <2>3 DEF AddRow, StageTells, Stored
      <4>2. CASE up' = [up EXCEPT ![u] = "refresh"] /\ row'[u].registered
        <5>1. up'[u] = "refresh"
          BY <2>0, <4>2 DEF UploadTypeOK
        <5> QED
          BY <4>1, <4>2, <5>1 DEF StageTells, Settled, Stored
      <4>3. CASE UNCHANGED row /\ up' = [up EXCEPT ![u] = "finally"]
        <5>1. up'[u] = "finally"
          BY <2>0, <4>3 DEF UploadTypeOK
        <5> QED
          BY <4>1, <4>3, <5>1 DEF StageTells, Settled, FlagsTell
      <4>4. CASE Fails(u, "lost commit") /\ up' = [up EXCEPT ![u] = "finally"]
        <5>1. up'[u] = "finally" /\ "lost commit" \in failed'[u]
          BY <2>0, <4>4, Counted DEF UploadTypeOK, Failures
        <5> QED
          BY <4>1, <5>1 DEF StageTells, Settled, FlagsTell
      <4> QED
        BY <3>3, <4>2, <4>3, <4>4
    <3> QED
      BY <2>0, <2>3, <3>2, <3>3, <3>4, <3>5, OneUpload DEF AddRow, UploadTypeOK
  <2>4. CASE Refresh(u)
    <3>0. Smooth \/ \E f \in Failures : Fails(u, f)
      BY <2>4 DEF Refresh, Failures
    <3>1. UploadTypeOK' /\ \A v \in Uploads : v # u => failed'[v] = failed[v]
      <4>1. flags' \in [Uploads -> [uploaded : BOOLEAN, persisted : BOOLEAN]]
        <5>1. flags' = [flags EXCEPT ![u].persisted = TRUE] \/ UNCHANGED flags
          BY <2>4 DEF Refresh
        <5>2. flags \in [Uploads -> [uploaded : BOOLEAN, persisted : BOOLEAN]]
          BY <2>0 DEF UploadTypeOK
        <5>3. CASE flags' = [flags EXCEPT ![u].persisted = TRUE]
          BY ONLY <5>2, <5>3, FlagSet, u \in Uploads
        <5>4. CASE UNCHANGED flags
          BY ONLY <5>2, <5>4
        <5> QED
          BY ONLY <5>1, <5>3, <5>4
      <4>2. up' = [up EXCEPT ![u] = "finally"] /\ UNCHANGED <<object, row, answer>>
        BY <2>4 DEF Refresh
      <4> QED
        BY <2>0, <3>0, <4>1, <4>2, Counted DEF UploadTypeOK
    <3>2. /\ UNCHANGED <<object, row, answer>> /\ up'[u] = "finally" /\ answer[u] = "none"
          /\ flags[u].uploaded /\ ~flags[u].persisted /\ object[u] /\ row[u].registered
      BY <2>0, <2>4 DEF Refresh, UploadTypeOK, StageTells, Stored
    <3>3. CASE flags' = [flags EXCEPT ![u].persisted = TRUE]
      <4>1. flags'[u].uploaded /\ flags'[u].persisted
        BY <2>0, <3>2, <3>3 DEF UploadTypeOK
      <4>2. (StageTells(u) /\ Settled(u))'
        BY <3>2, <4>1 DEF StageTells, Settled, FlagsTell
      <4> QED
        BY <2>0, <2>4, <3>1, <3>2, <4>2, OneUpload DEF Refresh, UploadTypeOK
    <3>4. CASE Fails(u, "refresh") /\ UNCHANGED flags
      <4>1. "refresh" \in failed'[u]
        BY <2>0, <3>4, Counted DEF Failures
      <4>2. (StageTells(u) /\ Settled(u))'
        BY <3>2, <3>4, <4>1 DEF StageTells, Settled, FlagsTell
      <4> QED
        BY <2>0, <2>4, <3>1, <3>2, <4>2, OneUpload DEF Refresh, UploadTypeOK
    <3> QED
      BY <2>4, <3>3, <3>4 DEF Refresh
  <2>5. CASE Compensate(u)
    <3>0. Smooth \/ \E f \in Failures : Fails(u, f)
      BY <2>5 DEF Compensate, Failures
    <3>1. UploadTypeOK' /\ \A v \in Uploads : v # u => failed'[v] = failed[v]
      BY <2>0, <2>5, <3>0, Counted DEF Compensate, UploadTypeOK
    <3>2. /\ UNCHANGED <<flags, row>> /\ up'[u] = "done" /\ FlagsTell(u)
          /\ answer'[u] = IF flags[u].persisted THEN "created" ELSE "failed"
      BY <2>0, <2>5 DEF Compensate, UploadTypeOK, StageTells
    <3>3. /\ failed[u] \cap {"lost commit", "refresh"} # {}
             => failed'[u] \cap {"lost commit", "refresh"} # {}
          /\ "lost put" \in failed[u] => "lost put" \in failed'[u]
      <4>1. failed[u] \subseteq failed'[u]
        BY <2>0, <3>0, Counted
      <4> QED
        BY <4>1
    <3>4. CASE flags[u].uploaded /\ ~flags[u].persisted /\ Fails(u, "delete") /\ UNCHANGED object
      <4>1. "delete" \in failed'[u]
        BY <2>0, <3>4, Counted DEF Failures
      <4>2. (StageTells(u) /\ Settled(u))'
        BY <3>2, <3>3, <3>4, <4>1 DEF StageTells, Settled, FlagsTell
      <4> QED
        BY <2>0, <2>5, <3>1, <3>2, <4>2, OneUpload DEF Compensate, UploadTypeOK
    <3>5. CASE flags[u].uploaded /\ ~flags[u].persisted /\ object' = [object EXCEPT ![u] = FALSE]
      <4>1. ~object'[u]
        BY <2>0, <3>5 DEF UploadTypeOK
      <4>2. (StageTells(u) /\ Settled(u))'
        BY <3>2, <3>3, <3>5, <4>1 DEF StageTells, Settled, FlagsTell
      <4> QED
        BY <2>0, <2>5, <3>1, <3>2, <4>2, OneUpload DEF Compensate, UploadTypeOK
    <3>6. CASE ~(flags[u].uploaded /\ ~flags[u].persisted) /\ UNCHANGED object
      <4>1. (StageTells(u) /\ Settled(u))'
        BY <3>2, <3>3, <3>6 DEF StageTells, Settled, FlagsTell
      <4> QED
        BY <2>0, <2>5, <3>1, <3>2, <4>1, OneUpload DEF Compensate, UploadTypeOK
    <3> QED
      BY <2>5, <3>4, <3>5, <3>6 DEF Compensate
  <2>6. CASE UploadDies(u)
    <3>0. Smooth \/ \E f \in Failures : Fails(u, f)
      BY <2>6 DEF UploadDies, Failures
    <3>1. UploadTypeOK' /\ \A v \in Uploads : v # u => failed'[v] = failed[v]
      BY <2>0, <2>6, <3>0, Counted DEF UploadDies, UploadTypeOK
    <3>2. (StageTells(u) /\ Settled(u))' /\ (row'[u].odd \/ row'[u].whole)
      BY <2>0, <2>6
      DEF UploadDies, UploadTypeOK, Fails, StageTells, Settled, Untouched, Stored, FlagsTell
    <3> QED
      BY <2>0, <2>6, <3>1, <3>2, OneUpload DEF UploadDies, UploadTypeOK
  <2> QED
    BY <1>2, <2>1, <2>2, <2>3, <2>4, <2>5, <2>6
<1> QED
  BY <1>1, <1>2 DEF UploadNext

-----------------------------------------------------------------------------
(***************************************************************************)
(* The theorems                                                            *)
(***************************************************************************)

\* Where a request is tells what the two stores hold, for any uploads.
THEOREM UploadInvariance == UploadSpec => []UploadInv
<1>1. UploadInit => UploadInv
  BY UploadInitInv
<1>2. UploadInv /\ [UploadNext]_uploadVars => UploadInv'
  BY UploadNextInv
<1> QED
  BY <1>1, <1>2, PTL DEF UploadSpec

\* However many uploads run and whichever of their calls fail, each leaves object, row
\* and answer together, or what the failures that WholeOrNothing names account for.
THEOREM WholeOrNothingHolds == UploadSpec => []WholeOrNothing
<1>1. UploadInv => WholeOrNothing
  BY DEF UploadInv, Settled, WholeOrNothing
<1> QED
  BY <1>1, UploadInvariance, PTL

\* No profile of any length merges two columns, unless a header of the file looks
\* like a generated one.
THEOREM ColumnsKeptHolds == UploadSpec => []ColumnsKept
<1>1. UploadInv => ColumnsKept
  BY DEF UploadInv, ColumnsKept
<1> QED
  BY <1>1, UploadInvariance, PTL

=============================================================================

-------------------------- MODULE AgentChat_proofs --------------------------
(***************************************************************************)
(* Whatever the number of requests, workers, lost processes and repeated   *)
(* deliveries, an answer stands under its own question: every list that is *)
(* anywhere in the system, in the row, in a request or in a task, is one   *)
(* in which it does, and the writers only extend and shorten such lists.   *)
(***************************************************************************)
EXTENDS AgentChat, SequenceTheorems, TLAPS

-----------------------------------------------------------------------------
\* A task answers the last question of the list it read.
TaskMatched(t) ==
    t.pc \in {"loaded", "asking"} =>
        /\ Matched(t.mine)
        /\ \E i \in 1..Len(t.mine) : LastQuestion(t.mine, i) /\ t.question = {t.mine[i].of}

\* The inductive invariant.
IInv ==
    /\ TypeOK
    /\ Matched(messages)
    /\ \A p \in Posts : Matched(seen[p])
    /\ \A w \in Workers : TaskMatched(worker[w])

-----------------------------------------------------------------------------
(***************************************************************************)
(* Lists                                                                   *)
(***************************************************************************)
LEMMA MessageTyped ==
  ASSUME NEW s \in Messages, NEW i \in 1..Len(s)
  PROVE  s[i] \in Message /\ s[i].of \in Posts
<1>1. s[i] \in Message
  BY ElementOfSeq DEF Messages
<1> QED
  BY <1>1 DEF Message

LEMMA TruncatedMatched ==
  ASSUME NEW s \in Messages, Matched(s)
  PROVE  Truncated(s) \in Messages /\ Matched(Truncated(s))
<1>1. CASE Len(s) <= Keep
  BY <1>1, ChatAssumption DEF Truncated, ChatAssumption, Messages
<1>2. CASE Len(s) > Keep
  <2> DEFINE d == Len(s) - Keep
             t == SubSeq(s, d + 1, Len(s))
  <2>1. /\ Keep \in Nat /\ Len(s) \in Nat /\ d \in Nat /\ d + 1 \in 1..Len(s)
    BY <1>2, ChatAssumption DEF ChatAssumption, Messages
  <2>2. t \in Messages /\ Len(t) = Keep /\ \A i \in 1..Keep : t[i] = s[d + i]
    BY <2>1, SubSeqProperties DEF Messages
  <2>3. Truncated(s) = t
    BY <1>2 DEF Truncated
  <2> HIDE DEF t
  <2>4. ASSUME NEW i \in 1..Len(t), NEW j \in 1..Len(t), Follows(t, i, j)
        PROVE  t[j].of = t[i].of
    <3>1. d + i \in 1..Len(s) /\ d + j \in 1..Len(s) /\ t[i] = s[d + i] /\ t[j] = s[d + j]
      BY <2>1, <2>2
    <3>2. ASSUME NEW k \in d + i + 1 .. d + j - 1 PROVE s[k].role = "assistant"
      <4>1. k - d \in i + 1 .. j - 1 /\ k - d \in 1..Keep /\ d + (k - d) = k
        BY <2>1, <2>2
      <4> QED
        BY <2>2, <2>4, <4>1 DEF Follows
    <3>3. Follows(s, d + i, d + j)
      BY <2>1, <2>2, <2>4, <3>1, <3>2 DEF Follows
    <3> QED
      BY <3>1, <3>3 DEF Matched
  <2> QED
    BY <2>2, <2>3, <2>4 DEF Matched
<1> QED
  BY <1>1, <1>2, ChatAssumption DEF ChatAssumption, Messages

\* A question may follow anything.
LEMMA QuestionMatched ==
  ASSUME NEW s \in Messages, Matched(s), NEW p \in Posts
  PROVE  Append(s, Question(p)) \in Messages /\ Matched(Append(s, Question(p)))
<1> DEFINE t == Append(s, Question(p))
<1>1. /\ t \in Messages /\ Len(t) = Len(s) + 1 /\ Len(s) \in Nat
      /\ t[Len(s) + 1] = Question(p) /\ \A i \in 1..Len(s) : t[i] = s[i]
  BY AppendProperties DEF Messages, Message, Question
<1> HIDE DEF t
<1>2. ASSUME NEW i \in 1..Len(t), NEW j \in 1..Len(t), Follows(t, i, j)
      PROVE  t[j].of = t[i].of
  <2>1. j # Len(s) + 1
    BY <1>1, <1>2 DEF Follows, Question
  <2>2. i \in 1..Len(s) /\ j \in 1..Len(s) /\ \A k \in i + 1 .. j - 1 : t[k] = s[k]
    BY <1>1, <1>2, <2>1 DEF Follows
  <2>3. Follows(s, i, j)
    BY <1>1, <1>2, <2>2 DEF Follows
  <2> QED
    BY <1>1, <2>2, <2>3 DEF Matched
<1> QED
  BY <1>1, <1>2 DEF Matched, t

\* An answer to the last question may be appended.
LEMMA AnswerMatched ==
  ASSUME NEW s \in Messages, Matched(s), NEW q \in 1..Len(s), LastQuestion(s, q)
  PROVE  /\ Append(s, Answer(s[q].of)) \in Messages
         /\ Matched(Append(s, Answer(s[q].of)))
<1> DEFINE t == Append(s, Answer(s[q].of))
<1>1. s[q].of \in Posts
  BY MessageTyped
<1>2. /\ t \in Messages /\ Len(t) = Len(s) + 1 /\ Len(s) \in Nat
      /\ t[Len(s) + 1] = Answer(s[q].of) /\ \A i \in 1..Len(s) : t[i] = s[i]
  BY <1>1, AppendProperties DEF Messages, Message, Answer
<1> HIDE DEF t
<1>3. ASSUME NEW i \in 1..Len(t), NEW j \in 1..Len(t), Follows(t, i, j)
      PROVE  t[j].of = t[i].of
  <2>1. i \in 1..Len(s) /\ \A k \in i + 1 .. j - 1 : k \in 1..Len(s) /\ t[k] = s[k]
    BY <1>2, <1>3 DEF Follows
  <2>2. CASE j \in 1..Len(s)
    <3>1. Follows(s, i, j)
      BY <1>2, <1>3, <2>1, <2>2 DEF Follows
    <3> QED
      BY <1>2, <2>1, <2>2, <3>1 DEF Matched
  <2>3. CASE j = Len(s) + 1
    <3>1. i = q
      <4>1. CASE i < q
        <5>1. q \in i + 1 .. j - 1
          BY <1>2, <2>3, <4>1
        <5>2. s[q].role = "assistant"
          BY <1>2, <1>3, <2>1, <5>1 DEF Follows
        <5> QED
          BY <5>2 DEF LastQuestion
      <4>2. CASE i > q
        BY <1>2, <1>3, <2>1, <4>2 DEF Follows, LastQuestion
      <4> QED
        BY <2>1, <4>1, <4>2, <1>2
    <3> QED
      BY <1>2, <2>3, <3>1 DEF Answer
  <2> QED
    BY <1>2, <2>2, <2>3
<1> QED
  BY <1>2, <1>3 DEF Matched, t

-----------------------------------------------------------------------------
(***************************************************************************)
(* The invariant is inductive                                              *)
(***************************************************************************)
LEMMA InitInv == Init => IInv
<1> SUFFICES ASSUME Init PROVE IInv
  OBVIOUS
<1>1. <<>> \in Messages /\ Matched(<<>>)
  BY DEF Messages, Matched
<1>2. TypeOK
  <2>1. Idle \in Slot
    BY <1>1 DEF Idle, Slot, Status
  <2>2. 0 \in 0..MaxTroubles
    BY ChatAssumption DEF ChatAssumption
  <2> QED
    BY <1>1, <2>1, <2>2 DEF Init, TypeOK, Status
<1> QED
  BY <1>1, <1>2 DEF Init, IInv, TaskMatched, Idle

LEMMA ApiInv ==
  ASSUME IInv, NEW p \in Posts, ApiStep(p) PROVE IInv'
<1>1. CASE ReadForChat(p)
  BY <1>1 DEF IInv, TypeOK, ReadForChat
<1>2. CASE CommitQuestion(p)
  <2>1. messages' \in Messages /\ Matched(messages')
    BY <1>2, QuestionMatched, TruncatedMatched DEF IInv, TypeOK, CommitQuestion
  <2> QED
    BY <1>2, <2>1 DEF IInv, TypeOK, CommitQuestion, Status
<1>3. CASE QueueTask(p)
  BY <1>3 DEF IInv, TypeOK, QueueTask
<1>4. CASE QueueUnavailable(p)
  BY <1>4, ChatAssumption DEF IInv, TypeOK, QueueUnavailable, Trouble, Status, ChatAssumption
<1>5. CASE ApiDies(p)
  BY <1>5, ChatAssumption DEF IInv, TypeOK, ApiDies, Trouble, ChatAssumption
<1> QED
  BY <1>1, <1>2, <1>3, <1>4, <1>5 DEF ApiStep

LEMMA WorkerInv ==
  ASSUME IInv, NEW w \in Workers, WorkerStep(w) PROVE IInv'
<1>0. worker \in [Workers -> Slot] /\ Idle \in Slot /\ queue \in Nat /\ TaskMatched(Idle)
  BY DEF IInv, TypeOK, Slot, Idle, Messages, Status, TaskMatched
<1>1. CASE TakeTask(w)
  <2>1. PICK i \in 1..Len(messages) :
            /\ LastQuestion(messages, i)
            /\ worker' = [worker EXCEPT ![w] =
                   [pc |-> "loaded", mine |-> messages, question |-> {messages[i].of},
                    saw |-> status]]
    BY <1>1 DEF TakeTask
  <2>2. messages \in Messages /\ messages[i].of \in Posts
    BY MessageTyped DEF IInv, TypeOK
  <2>3. worker' \in [Workers -> Slot]
    BY <1>0, <2>1, <2>2 DEF Slot, IInv, TypeOK
  <2>4. \A v \in Workers : TaskMatched(worker'[v])
    BY <1>0, <2>1 DEF TaskMatched, IInv
  <2>5. queue' \in Nat /\ UNCHANGED <<status, messages, post, seen, troubles, overlap>>
    BY <1>0, <1>1 DEF TakeTask
  <2> QED
    BY <2>3, <2>4, <2>5 DEF IInv, TypeOK
<1>2. CASE NothingToAnswer(w)
  <2>1. worker' \in [Workers -> Slot] /\ \A v \in Workers : TaskMatched(worker'[v])
    BY <1>0, <1>2 DEF NothingToAnswer, Slot, Idle, TaskMatched, IInv
  <2> QED
    BY <1>0, <1>2, <2>1 DEF IInv, TypeOK, NothingToAnswer, Status
<1>3. CASE StartAnswer(w)
  <2>1. worker' \in [Workers -> Slot] /\ \A v \in Workers : TaskMatched(worker'[v])
    BY <1>0, <1>3 DEF StartAnswer, Slot, TaskMatched, IInv
  <2> QED
    BY <1>3, <2>1 DEF IInv, TypeOK, StartAnswer, Status
<1>4. CASE WriteAnswer(w)
  <2> DEFINE t == worker[w]
  <2>1. PICK i \in 1..Len(t.mine) : LastQuestion(t.mine, i) /\ t.question = {t.mine[i].of}
    BY <1>4 DEF IInv, TaskMatched, WriteAnswer
  <2>2. t.mine \in Messages /\ Matched(t.mine)
    BY <1>0, <1>4 DEF IInv, TaskMatched, WriteAnswer, Slot
  <2>3. messages' = Truncated(Append(t.mine, Answer(t.mine[i].of)))
    BY <1>4, <2>1 DEF WriteAnswer
  <2>4. messages' \in Messages /\ Matched(messages')
    BY <2>1, <2>2, <2>3, AnswerMatched, TruncatedMatched
  <2>5. worker' \in [Workers -> Slot] /\ \A v \in Workers : TaskMatched(worker'[v])
    BY <1>0, <1>4 DEF WriteAnswer, Slot, TaskMatched, IInv
  <2> QED
    BY <1>4, <2>4, <2>5 DEF IInv, TypeOK, WriteAnswer, Status
<1>5. CASE AnswerFails(w)
  <2>1. worker' \in [Workers -> Slot] /\ \A v \in Workers : TaskMatched(worker'[v])
    BY <1>0, <1>5 DEF AnswerFails, Slot, TaskMatched, IInv
  <2> QED
    BY <1>5, <2>1 DEF IInv, TypeOK, AnswerFails, Status
<1>6. CASE Acknowledge(w)
  <2>1. worker' \in [Workers -> Slot] /\ \A v \in Workers : TaskMatched(worker'[v])
    BY <1>0, <1>6 DEF Acknowledge, IInv
  <2> QED
    BY <1>6, <2>1 DEF IInv, TypeOK, Acknowledge
<1>7. CASE WorkerDies(w)
  <2>1. worker' \in [Workers -> Slot] /\ \A v \in Workers : TaskMatched(worker'[v])
    BY <1>0, <1>7 DEF WorkerDies, IInv
  <2> QED
    BY <1>0, <1>7, <2>1, ChatAssumption DEF IInv, TypeOK, WorkerDies, Trouble, ChatAssumption
<1> QED
  BY <1>1, <1>2, <1>3, <1>4, <1>5, <1>6, <1>7 DEF WorkerStep

LEMMA NextInv ==
  ASSUME IInv, [Next]_vars PROVE IInv'
<1>1. CASE UNCHANGED vars
  BY <1>1 DEF IInv, TypeOK, vars
<1>2. CASE Next
  BY <1>2, ApiInv, WorkerInv DEF Next
<1> QED
  BY <1>1, <1>2

\* Every list in the system is one in which answers stand under their question.
THEOREM ChatInvariance == Spec => []IInv
<1>1. Init => IInv
  BY InitInv
<1>2. IInv /\ [Next]_vars => IInv'
  BY NextInv
<1> QED
  BY <1>1, <1>2, PTL DEF Spec

\* An answer of the row is the answer to the question above it.
THEOREM AnswersMatchHolds == Spec => []AnswersMatch
<1>1. IInv => AnswersMatch
  BY DEF IInv, AnswersMatch
<1> QED
  BY <1>1, ChatInvariance, PTL

-----------------------------------------------------------------------------
(***************************************************************************)
(* chat_status is a lock, as long as no process is lost and no user reads  *)
(* the row behind the back of another: of the requests that have read the  *)
(* row, the requests that have committed, the queued tasks and the tasks   *)
(* in the hands of a worker there is never more than one, and whoever it   *)
(* is has the list of the row before it.                                   *)
(***************************************************************************)
Calm == troubles = 0 /\ ~overlap

Engaged(w) == worker[w].pc \in {"loaded", "asking"}

ReadersAlone ==
    \A p \in Posts : post[p] = "read" =>
        /\ ~Busy /\ seen[p] = messages
        /\ \A q \in Posts : post[q] = "read" => q = p

CommittedAlone ==
    \A p \in Posts : post[p] = "queue" =>
        /\ status = "queued" /\ queue = 0
        /\ \A q \in Posts : post[q] = "queue" => q = p
        /\ \A w \in Workers : ~Engaged(w)

TaskAlone == queue > 0 => queue = 1 /\ status = "queued" /\ \A w \in Workers : ~Engaged(w)

WorkersAlone ==
    \A w \in Workers : Engaged(w) =>
        /\ worker[w].mine = messages /\ Busy
        /\ worker[w].pc = "loaded" => worker[w].saw = "queued"
        /\ \A v \in Workers : Engaged(v) => v = w

\* s has the question of p, or is full.
Keeps(s, p) == (\E i \in 1..Len(s) : s[i] = Question(p)) \/ Len(s) = Keep

LockInv ==
    Calm => /\ ReadersAlone /\ CommittedAlone /\ TaskAlone /\ WorkersAlone
            /\ \A p \in Posts : post[p] \in {"queue", "done"} => Keeps(messages, p)

\* The row never holds more than it should.
BoundedList == Len(messages) <= Keep

\* A message is added at the end; a list that is shortened is full before and after.
LEMMA AppendKeeps ==
  ASSUME NEW s \in Messages, Len(s) <= Keep, NEW m \in Message
  PROVE  LET t == Truncated(Append(s, m))
         IN  /\ Len(t) <= Keep
             /\ \A p \in Posts : Keeps(s, p) \/ m = Question(p) => Keeps(t, p)
<1> DEFINE a == Append(s, m)
           t == Truncated(a)
<1>1. /\ a \in Messages /\ Len(a) = Len(s) + 1 /\ Len(s) \in Nat /\ Keep \in Nat \ {0}
      /\ a[Len(s) + 1] = m /\ \A i \in 1..Len(s) : a[i] = s[i]
  BY AppendProperties, ChatAssumption DEF Messages, ChatAssumption
<1>2. CASE Len(s) < Keep
  <2>1. t = a
    BY <1>1, <1>2 DEF Truncated
  <2>2. Len(t) <= Keep
    BY <1>1, <1>2, <2>1
  <2>3. ASSUME NEW p \in Posts, Keeps(s, p) PROVE Keeps(t, p)
    <3>1. PICK i \in 1..Len(s) : s[i] = Question(p)
      BY <1>1, <1>2, <2>3 DEF Keeps
    <3>2. i \in 1..Len(a) /\ a[i] = Question(p)
      BY <1>1, <3>1
    <3> QED
      BY <2>1, <3>2 DEF Keeps
  <2>4. ASSUME NEW p \in Posts, m = Question(p) PROVE Keeps(t, p)
    <3>1. Len(s) + 1 \in 1..Len(a)
      BY <1>1
    <3> QED
      BY <1>1, <2>1, <2>4, <3>1 DEF Keeps
  <2> QED
    BY <2>2, <2>3, <2>4
<1>3. CASE Len(s) = Keep
  <2>1. t = SubSeq(a, 2, Len(a))
    <3>1. Len(a) - Keep + 1 = 2 /\ Len(a) > Keep
      BY <1>1, <1>3
    <3> QED
      BY <3>1 DEF Truncated
  <2>2. Len(t) = Keep
    <3> HIDE DEF a
    <3>1. Len(SubSeq(a, 2, Len(a))) = Len(a) - 2 + 1
      BY <1>1, <1>3, SubSeqProperties DEF Messages
    <3> QED
      BY <1>1, <1>3, <2>1, <3>1
  <2> QED
    BY <1>1, <2>2 DEF Keeps
<1> QED
  BY <1>1, <1>2, <1>3

-----------------------------------------------------------------------------
LEMMA InitLock == Init => LockInv /\ BoundedList
<1> SUFFICES ASSUME Init PROVE LockInv /\ BoundedList
  OBVIOUS
<1>1. Len(messages) = 0
  BY DEF Init
<1> QED
  BY <1>1, ChatAssumption
  DEF Init, LockInv, BoundedList, ReadersAlone, CommittedAlone, TaskAlone, WorkersAlone, Engaged,
      Idle, ChatAssumption

LEMMA TruncatedBounded ==
  ASSUME NEW s \in Messages PROVE Len(Truncated(s)) <= Keep
<1>1. Len(s) \in Nat /\ Keep \in Nat \ {0}
  BY ChatAssumption DEF Messages, ChatAssumption
<1>2. CASE Len(s) <= Keep
  BY <1>1, <1>2 DEF Truncated
<1>3. CASE Len(s) > Keep
  <2>1. Truncated(s) = SubSeq(s, Len(s) - Keep + 1, Len(s))
    BY <1>3 DEF Truncated
  <2>2. Len(SubSeq(s, Len(s) - Keep + 1, Len(s))) = Len(s) - (Len(s) - Keep + 1) + 1
    BY <1>1, <1>3, SubSeqProperties DEF Messages
  <2> QED
    BY <1>1, <2>1, <2>2
<1> QED
  BY <1>1, <1>2, <1>3

LEMMA ApiLock ==
  ASSUME IInv, LockInv, BoundedList, NEW p \in Posts, ApiStep(p)
  PROVE  LockInv' /\ BoundedList'
<1>0. /\ post \in [Posts -> {"new", "read", "queue", "done"}] /\ seen \in [Posts -> Messages]
      /\ messages \in Messages /\ queue \in Nat /\ troubles \in Nat /\ overlap \in BOOLEAN
      /\ Question(p) \in Message
  BY DEF IInv, TypeOK, Question, Message
<1>1. CASE ReadForChat(p)
  <2>1. BoundedList'
    BY <1>1 DEF ReadForChat, BoundedList
  <2>2. SUFFICES ASSUME Calm' PROVE LockInv'
    BY <2>1 DEF LockInv
  <2>3. /\ Calm /\ \A q \in Posts : post[q] # "read"
        /\ \A q \in Posts : q # p => post'[q] = post[q] /\ seen'[q] = seen[q]
        /\ post'[p] = "read" /\ seen'[p] = messages /\ ~Busy
        /\ UNCHANGED <<status, messages, queue, worker>>
    BY <1>0, <1>1, <2>2 DEF ReadForChat, Calm
  <2>4. LockInv
    OBVIOUS
  <2> QED
    BY <2>3, <2>4
    DEF LockInv, ReadersAlone, CommittedAlone, TaskAlone, WorkersAlone, Engaged, Busy, Keeps
<1>2. CASE CommitQuestion(p)
  <2>1. messages' = Truncated(Append(seen[p], Question(p))) /\ Append(seen[p], Question(p)) \in Messages
    BY <1>0, <1>2, AppendProperties DEF CommitQuestion, Messages
  <2>2. BoundedList'
    BY <2>1, TruncatedBounded DEF BoundedList
  <2>3. SUFFICES ASSUME Calm' PROVE LockInv'
    BY <2>2 DEF LockInv
  <2>4. /\ Calm /\ post[p] = "read" /\ post'[p] = "queue" /\ status' = "queued"
        /\ \A q \in Posts : q # p => post'[q] = post[q]
        /\ UNCHANGED <<seen, queue, worker>>
    BY <1>0, <1>2, <2>3 DEF CommitQuestion, Calm
  <2>5. /\ ReadersAlone /\ CommittedAlone /\ TaskAlone /\ WorkersAlone
        /\ \A q \in Posts : post[q] \in {"queue", "done"} => Keeps(messages, q)
    BY <2>4 DEF LockInv
  <2>6. /\ ~Busy /\ seen[p] = messages /\ \A q \in Posts : post[q] = "read" => q = p
    BY <2>4, <2>5 DEF ReadersAlone
  <2>7. /\ \A q \in Posts : post[q] # "queue"
        /\ queue = 0 /\ \A w \in Workers : ~Engaged(w)
    BY <1>0, <2>5, <2>6 DEF CommittedAlone, TaskAlone, WorkersAlone, Busy
  <2>8. \A q \in Posts : Keeps(messages, q) \/ q = p => Keeps(messages', q)
    BY <1>0, <2>1, <2>6, AppendKeeps DEF BoundedList
  <2>9. \A q \in Posts : post'[q] \in {"queue", "done"} => Keeps(messages', q)
    BY <2>4, <2>5, <2>8
  <2>10. ReadersAlone' /\ CommittedAlone' /\ TaskAlone' /\ WorkersAlone'
    BY <2>4, <2>6, <2>7
    DEF ReadersAlone, CommittedAlone, TaskAlone, WorkersAlone, Engaged
  <2> QED
    BY <2>9, <2>10 DEF LockInv, Keeps
<1>3. CASE QueueTask(p)
  <2>1. BoundedList'
    BY <1>3 DEF QueueTask, BoundedList
  <2>2. SUFFICES ASSUME Calm' PROVE LockInv'
    BY <2>1 DEF LockInv
  <2>3. /\ Calm /\ post[p] = "queue" /\ post'[p] = "done" /\ queue' = queue + 1
        /\ \A q \in Posts : q # p => post'[q] = post[q]
        /\ UNCHANGED <<status, messages, seen, worker>>
    BY <1>0, <1>3, <2>2 DEF QueueTask, Calm
  <2>4. LockInv
    OBVIOUS
  <2> QED
    BY <1>0, <2>3, <2>4
    DEF LockInv, ReadersAlone, CommittedAlone, TaskAlone, WorkersAlone, Engaged, Busy, Keeps
<1>4. CASE QueueUnavailable(p) \/ ApiDies(p)
  <2>1. ~Calm' /\ UNCHANGED messages
    BY <1>0, <1>4 DEF QueueUnavailable, ApiDies, Trouble, Calm
  <2> QED
    BY <2>1 DEF LockInv, BoundedList
<1> QED
  BY <1>1, <1>2, <1>3, <1>4 DEF ApiStep

LEMMA WorkerLock ==
  ASSUME IInv, LockInv, BoundedList, NEW w \in Workers, WorkerStep(w)
  PROVE  LockInv' /\ BoundedList'
<1>0. /\ worker \in [Workers -> Slot] /\ queue \in Nat /\ troubles \in Nat
      /\ messages \in Messages /\ worker[w].mine \in Messages /\ worker[w].question \subseteq Posts
  BY DEF IInv, TypeOK, Slot
<1>1. CASE TakeTask(w)
  <2>1. BoundedList'
    BY <1>1 DEF TakeTask, BoundedList
  <2>2. SUFFICES ASSUME Calm' PROVE LockInv'
    BY <2>1 DEF LockInv
  <2>3. /\ Calm /\ queue > 0 /\ queue' = queue - 1
        /\ worker'[w].pc = "loaded" /\ worker'[w].mine = messages /\ worker'[w].saw = status
        /\ \A v \in Workers : v # w => worker'[v] = worker[v]
        /\ UNCHANGED <<status, messages, post, seen>>
    BY <1>0, <1>1, <2>2 DEF TakeTask, Calm
  <2>4. LockInv
    OBVIOUS
  <2> QED
    BY <1>0, <2>3, <2>4
    DEF LockInv, ReadersAlone, CommittedAlone, TaskAlone, WorkersAlone, Engaged, Busy, Keeps
<1>2. CASE NothingToAnswer(w)
  <2>1. BoundedList'
    BY <1>2 DEF NothingToAnswer, BoundedList
  <2>2. SUFFICES ASSUME Calm' PROVE LockInv'
    BY <2>1 DEF LockInv
  <2>3. /\ Calm /\ queue > 0 /\ queue' = queue - 1 /\ status' = "failed"
        /\ worker'[w].pc = "ack" /\ \A v \in Workers : v # w => worker'[v] = worker[v]
        /\ UNCHANGED <<messages, post, seen>>
    BY <1>0, <1>2, <2>2 DEF NothingToAnswer, Calm, Idle
  <2>4. LockInv
    OBVIOUS
  <2> QED
    BY <1>0, <2>3, <2>4
    DEF LockInv, ReadersAlone, CommittedAlone, TaskAlone, WorkersAlone, Engaged, Busy, Keeps
<1>3. CASE StartAnswer(w)
  <2>1. BoundedList'
    BY <1>3 DEF StartAnswer, BoundedList
  <2>2. SUFFICES ASSUME Calm' PROVE LockInv'
    BY <2>1 DEF LockInv
  <2>3. /\ Calm /\ worker[w].pc = "loaded" /\ worker'[w].pc = "asking"
        /\ worker'[w].mine = worker[w].mine
        /\ status' = (IF worker[w].saw = "running" THEN status ELSE "running")
        /\ \A v \in Workers : v # w => worker'[v] = worker[v]
        /\ UNCHANGED <<messages, post, seen, queue>>
    BY <1>0, <1>3, <2>2 DEF StartAnswer, Calm
  <2>4. LockInv
    OBVIOUS
  <2>5. Busy /\ status' = "running" /\ worker[w].mine = messages
        /\ \A v \in Workers : Engaged(v) => v = w
    BY <2>3, <2>4 DEF LockInv, WorkersAlone, Engaged
  <2> QED
    BY <1>0, <2>3, <2>4, <2>5
    DEF LockInv, ReadersAlone, CommittedAlone, TaskAlone, WorkersAlone, Engaged, Busy, Keeps
<1>4. CASE WriteAnswer(w)
  <2>1. PICK p \in worker[w].question : messages' = Truncated(Append(worker[w].mine, Answer(p)))
    BY <1>4 DEF WriteAnswer
  <2>2. Answer(p) \in Message /\ Append(worker[w].mine, Answer(p)) \in Messages
    BY <1>0, <2>1, AppendProperties DEF Message, Answer, Messages
  <2>3. BoundedList'
    BY <2>1, <2>2, TruncatedBounded DEF BoundedList
  <2>4. SUFFICES ASSUME Calm' PROVE LockInv'
    BY <2>3 DEF LockInv
  <2>5. /\ Calm /\ worker[w].pc = "asking" /\ worker'[w].pc = "ack" /\ status' = "completed"
        /\ \A v \in Workers : v # w => worker'[v] = worker[v]
        /\ UNCHANGED <<post, seen, queue>>
    BY <1>0, <1>4, <2>4 DEF WriteAnswer, Calm
  <2>6. /\ ReadersAlone /\ CommittedAlone /\ TaskAlone /\ WorkersAlone
        /\ \A q \in Posts : post[q] \in {"queue", "done"} => Keeps(messages, q)
    BY <2>5 DEF LockInv
  <2>7. worker[w].mine = messages /\ Busy /\ \A v \in Workers : Engaged(v) => v = w
    BY <2>5, <2>6 DEF WorkersAlone, Engaged
  <2>8. \A q \in Posts : Keeps(messages, q) => Keeps(messages', q)
    BY <1>0, <2>1, <2>2, <2>7, AppendKeeps DEF BoundedList
  <2>9. /\ \A q \in Posts : post[q] # "read" /\ post[q] # "queue"
        /\ queue = 0 /\ \A v \in Workers : ~Engaged(v)'
    BY <1>0, <2>5, <2>6, <2>7 DEF ReadersAlone, CommittedAlone, TaskAlone, Engaged
  <2>10. \A q \in Posts : post'[q] \in {"queue", "done"} => Keeps(messages', q)
    BY <2>5, <2>6, <2>8
  <2>11. ReadersAlone' /\ CommittedAlone' /\ TaskAlone' /\ WorkersAlone'
    BY <2>5, <2>9 DEF ReadersAlone, CommittedAlone, TaskAlone, WorkersAlone, Engaged
  <2> QED
    BY <2>10, <2>11 DEF LockInv, Keeps
<1>5. CASE AnswerFails(w)
  <2>1. BoundedList'
    BY <1>5 DEF AnswerFails, BoundedList
  <2>2. SUFFICES ASSUME Calm' PROVE LockInv'
    BY <2>1 DEF LockInv
  <2>3. /\ Calm /\ worker[w].pc = "asking" /\ worker'[w].pc = "ack" /\ status' = "failed"
        /\ \A v \in Workers : v # w => worker'[v] = worker[v]
        /\ UNCHANGED <<messages, post, seen, queue>>
    BY <1>0, <1>5, <2>2 DEF AnswerFails, Calm
  <2>4. LockInv
    OBVIOUS
  <2>5. /\ \A q \in Posts : post[q] # "read" /\ post[q] # "queue"
        /\ queue = 0 /\ \A v \in Workers : ~Engaged(v)'
    BY <1>0, <2>3, <2>4 DEF LockInv, ReadersAlone, CommittedAlone, TaskAlone, WorkersAlone, Engaged
  <2> QED
    BY <2>3, <2>4, <2>5
    DEF LockInv, ReadersAlone, CommittedAlone, TaskAlone, WorkersAlone, Engaged, Keeps
<1>6. CASE Acknowledge(w)
  <2>1. BoundedList'
    BY <1>6 DEF Acknowledge, BoundedList
  <2>2. /\ worker[w].pc = "ack" /\ worker'[w].pc = "idle"
        /\ \A v \in Workers : v # w => worker'[v] = worker[v]
        /\ UNCHANGED <<status, messages, post, seen, queue, troubles, overlap>>
    BY <1>0, <1>6 DEF Acknowledge, Idle
  <2> QED
    BY <2>1, <2>2
    DEF LockInv, Calm, ReadersAlone, CommittedAlone, TaskAlone, WorkersAlone, Engaged, Busy, Keeps
<1>7. CASE WorkerDies(w)
  <2>1. ~Calm' /\ UNCHANGED messages
    BY <1>0, <1>7 DEF WorkerDies, Trouble, Calm
  <2> QED
    BY <2>1 DEF LockInv, BoundedList
<1> QED
  BY <1>1, <1>2, <1>3, <1>4, <1>5, <1>6, <1>7 DEF WorkerStep

LEMMA NextLock ==
  ASSUME IInv, LockInv, BoundedList, [Next]_vars PROVE LockInv' /\ BoundedList'
<1>1. CASE UNCHANGED vars
  BY <1>1
  DEF vars, LockInv, Calm, BoundedList, ReadersAlone, CommittedAlone, TaskAlone, WorkersAlone,
      Engaged, Busy, Keeps
<1>2. CASE Next
  BY <1>2, ApiLock, WorkerLock DEF Next
<1> QED
  BY <1>1, <1>2

\* In quiet times the requests and the tasks of a chat exclude one another.
THEOREM LockHolds == Spec => [](LockInv /\ BoundedList)
<1>1. Init => LockInv /\ BoundedList
  BY InitLock
<1>2. IInv /\ LockInv /\ BoundedList /\ [Next]_vars => (LockInv /\ BoundedList)'
  BY NextLock
<1> QED
  BY <1>1, <1>2, ChatInvariance, PTL DEF Spec

\* In quiet times no committed question disappears from a list that is not full,
\* for any number of requests and workers and any length of the list.
THEOREM NothingLostHolds == Spec => []NothingLost
<1>1. LockInv => NothingLost
  BY DEF LockInv, Calm, Keeps, NothingLost
<1> QED
  BY <1>1, LockHolds, PTL

=============================================================================

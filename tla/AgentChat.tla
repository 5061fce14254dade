------------------------------ MODULE AgentChat ------------------------------
(***************************************************************************)
(* The review chat of one agent run whose generation is completed.  A      *)
(* request of the API reads the row, appends its question to what it read, *)
(* writes the list back and queues a task; a task of the worker reads the  *)
(* row once, asks the model for minutes and writes back ITS list with the  *)
(* answer appended.  No lock is taken: chat_status is all that keeps the   *)
(* writers apart.                                                          *)
(*                                                                         *)
(* The task is acknowledged late, so a lost worker's task is delivered     *)
(* again, and answers again.                                               *)
(***************************************************************************)
EXTENDS Integers, Sequences

CONSTANTS
    Posts,          \* the chat requests, each of which is its own question
    Workers,        \* the Celery workers
    Keep,           \* the messages the row keeps: messages[-Keep:]
    MaxTroubles     \* bound: processes lost and calls failed

ASSUME ChatAssumption == Keep \in Nat \ {0} /\ MaxTroubles \in Nat

VARIABLES
    status,     \* chat_status
    messages,   \* chat_messages
    post,       \* post[p]: where the request is
    seen,       \* seen[p]: the list it read
    queue,      \* how many tasks are queued
    worker,     \* worker[w]: the task it runs
    troubles,   \* counter, for the bound
    overlap     \* history: two requests were under way at once

vars == <<status, messages, post, seen, queue, worker, troubles, overlap>>

Message  == [role : {"user", "assistant"}, of : Posts]
Messages == Seq(Message)
Status   == {"idle", "queued", "running", "completed", "failed"}

\* loaded: the row was read; asking: running is committed; ack: all is written.
Slot == [pc : {"idle", "loaded", "asking", "ack"}, mine : Messages, question : SUBSET Posts,
         saw : Status]
Idle == [pc |-> "idle", mine |-> <<>>, question |-> {}, saw |-> "idle"]

TypeOK ==
    /\ status \in Status
    /\ messages \in Messages
    /\ post \in [Posts -> {"new", "read", "queue", "done"}]
    /\ seen \in [Posts -> Messages]
    /\ queue \in Nat
    /\ worker \in [Workers -> Slot]
    /\ troubles \in 0..MaxTroubles
    /\ overlap \in BOOLEAN

Init ==
    /\ status = "idle"
    /\ messages = <<>>
    /\ post = [p \in Posts |-> "new"]
    /\ seen = [p \in Posts |-> <<>>]
    /\ queue = 0
    /\ worker = [w \in Workers |-> Idle]
    /\ troubles = 0
    /\ overlap = FALSE

Trouble == troubles < MaxTroubles /\ troubles' = troubles + 1

Busy == status \in {"queued", "running"}

Question(p) == [role |-> "user", of |-> p]
Answer(p)   == [role |-> "assistant", of |-> p]

\* s[-Keep:]
Truncated(s) == IF Len(s) > Keep THEN SubSeq(s, Len(s) - Keep + 1, Len(s)) ELSE s

\* The last question of s is its i-th message.
LastQuestion(s, i) ==
    /\ i \in 1..Len(s) /\ s[i].role = "user"
    /\ \A j \in i + 1 .. Len(s) : s[j].role = "assistant"

-----------------------------------------------------------------------------
(***************************************************************************)
(* The API                                                                 *)
(***************************************************************************)

\* Mutant: a question is taken while the one before is being answered.
ReadForChatMutant(p) ==
    /\ post[p] = "new"
    /\ status # "queued"
    /\ post' = [post EXCEPT ![p] = "read"]
    /\ seen' = [seen EXCEPT ![p] = messages]
    /\ overlap' = (overlap \/ \E q \in Posts : post[q] = "read")
    /\ UNCHANGED <<status, messages, queue, worker, troubles>>

\* Reads the row, which must not be busy, and looks up the user's role.
ReadForChat(p) ==
    /\ post[p] = "new"
    /\ ~Busy
    /\ post' = [post EXCEPT ![p] = "read"]
    /\ seen' = [seen EXCEPT ![p] = messages]
    /\ overlap' = (overlap \/ \E q \in Posts : post[q] = "read")
    /\ UNCHANGED <<status, messages, queue, worker, troubles>>

CommitQuestion(p) ==
    /\ post[p] = "read"
    /\ post' = [post EXCEPT ![p] = "queue"]
    /\ messages' = Truncated(Append(seen[p], Question(p)))
    /\ status' = "queued"
    /\ UNCHANGED <<seen, queue, worker, troubles, overlap>>

QueueTask(p) ==
    /\ post[p] = "queue"
    /\ post' = [post EXCEPT ![p] = "done"]
    /\ queue' = queue + 1
    /\ UNCHANGED <<status, messages, seen, worker, troubles, overlap>>

\* delay() raises; the broker may have the message all the same.
QueueUnavailable(p) ==
    /\ post[p] = "queue"
    /\ Trouble
    /\ post' = [post EXCEPT ![p] = "done"]
    /\ status' = "failed"
    /\ queue' \in {queue, queue + 1}
    /\ UNCHANGED <<messages, seen, worker, overlap>>

\* The API dies: nobody queues the task of what it committed.
ApiDies(p) ==
    /\ post[p] \in {"read", "queue"}
    /\ Trouble
    /\ post' = [post EXCEPT ![p] = "done"]
    /\ UNCHANGED <<status, messages, seen, queue, worker, overlap>>

-----------------------------------------------------------------------------
(***************************************************************************)
(* The worker                                                              *)
(***************************************************************************)
TakeTask(w) ==
    /\ worker[w].pc = "idle" /\ queue > 0
    /\ queue' = queue - 1
    /\ \E i \in 1..Len(messages) :
           /\ LastQuestion(messages, i)
           /\ worker' = [worker EXCEPT ![w] =
                  [pc |-> "loaded", mine |-> messages, question |-> {messages[i].of},
                   saw |-> status]]
    /\ UNCHANGED <<status, messages, post, seen, troubles, overlap>>

\* No question in the list: the run's chat is failed.
NothingToAnswer(w) ==
    /\ worker[w].pc = "idle" /\ queue > 0
    /\ ~\E i \in 1..Len(messages) : LastQuestion(messages, i)
    /\ queue' = queue - 1
    /\ worker' = [worker EXCEPT ![w] = [Idle EXCEPT !.pc = "ack"]]
    /\ status' = "failed"
    /\ UNCHANGED <<messages, post, seen, troubles, overlap>>

\* Only a change of what the session read is written.
StartAnswer(w) ==
    /\ worker[w].pc = "loaded"
    /\ status' = IF worker[w].saw = "running" THEN status ELSE "running"
    /\ worker' = [worker EXCEPT ![w].pc = "asking"]
    /\ UNCHANGED <<messages, post, seen, queue, troubles, overlap>>

\* Mutant: the answer is appended for the last question of the row.
WriteAnswerMutant(w) ==
    /\ worker[w].pc = "asking"
    /\ worker' = [worker EXCEPT ![w].pc = "ack"]
    /\ \E p \in worker[w].question :
           messages' = Truncated(Append(messages, Answer(p)))
    /\ status' = "completed"
    /\ UNCHANGED <<post, seen, queue, troubles, overlap>>

WriteAnswer(w) ==
    /\ worker[w].pc = "asking"
    /\ worker' = [worker EXCEPT ![w].pc = "ack"]
    /\ \E p \in worker[w].question :
           messages' = Truncated(Append(worker[w].mine, Answer(p)))
    /\ status' = "completed"
    /\ UNCHANGED <<post, seen, queue, troubles, overlap>>

\* Mutant: a failure leaves the status.
AnswerFailsMutant(w) ==
    /\ worker[w].pc = "asking"
    /\ worker' = [worker EXCEPT ![w].pc = "ack"]
    /\ UNCHANGED <<status, messages, post, seen, queue, troubles, overlap>>

\* The model cannot be reached, or its answer is of no use.
AnswerFails(w) ==
    /\ worker[w].pc = "asking"
    /\ worker' = [worker EXCEPT ![w].pc = "ack"]
    /\ status' = "failed"
    /\ UNCHANGED <<messages, post, seen, queue, troubles, overlap>>

Acknowledge(w) ==
    /\ worker[w].pc = "ack"
    /\ worker' = [worker EXCEPT ![w] = Idle]
    /\ UNCHANGED <<status, messages, post, seen, queue, troubles, overlap>>

WorkerDies(w) ==
    /\ worker[w].pc # "idle"
    /\ Trouble
    /\ worker' = [worker EXCEPT ![w] = Idle]
    /\ queue' = queue + 1
    /\ UNCHANGED <<status, messages, post, seen, overlap>>

-----------------------------------------------------------------------------
ApiStep(p) ==
    ReadForChat(p) \/ CommitQuestion(p) \/ QueueTask(p) \/ QueueUnavailable(p) \/ ApiDies(p)

WorkerStep(w) ==
    \/ TakeTask(w) \/ NothingToAnswer(w) \/ StartAnswer(w) \/ WriteAnswer(w) \/ AnswerFails(w)
    \/ Acknowledge(w) \/ WorkerDies(w)

Next == (\E p \in Posts : ApiStep(p)) \/ (\E w \in Workers : WorkerStep(w))

Spec == Init /\ [][Next]_vars

\* A request goes on once it has begun, a worker takes what is queued and its
\* call of the model returns (it has a timeout and a number of attempts).
Fairness ==
    /\ \A p \in Posts : WF_vars(CommitQuestion(p)) /\ WF_vars(QueueTask(p) \/ QueueUnavailable(p))
    /\ \A w \in Workers : WF_vars(TakeTask(w) \/ NothingToAnswer(w) \/ StartAnswer(w)
                                  \/ WriteAnswer(w) \/ AnswerFails(w) \/ Acknowledge(w))

FairSpec == Spec /\ Fairness

-----------------------------------------------------------------------------
(***************************************************************************)
(* Properties                                                              *)
(***************************************************************************)

\* Between the question i and the answer j of s there is no other question.
Follows(s, i, j) ==
    /\ i < j /\ s[i].role = "user" /\ s[j].role = "assistant"
    /\ \A k \in i + 1 .. j - 1 : s[k].role = "assistant"

Matched(s) == \A i, j \in 1..Len(s) : Follows(s, i, j) => s[j].of = s[i].of

\* An answer is read as the answer to the question above it, and it is one:
\* whatever messages get lost, and however often a task is delivered, no answer
\* slips under another question.
AnswersMatch == Matched(messages)

\* As long as a user waits with a question for the end of the one before, and
\* no process is lost, chat_status does the work of a lock: no question that was
\* committed disappears, unless the list is full.
NothingLost ==
    troubles = 0 /\ ~overlap =>
        \A p \in Posts : post[p] \in {"queue", "done"} =>
            \/ \E i \in 1..Len(messages) : messages[i] = Question(p)
            \/ Len(messages) = Keep

\* A busy chat takes no question, so it must end: once its task is in the queue
\* it does, though workers are lost and the model fails.  (A chat whose API died
\* between its commit and its task stays busy for good.)
BusyEnds ==
    (Busy /\ (queue > 0 \/ \E w \in Workers : worker[w].pc \in {"loaded", "asking"})) ~> ~Busy

=============================================================================

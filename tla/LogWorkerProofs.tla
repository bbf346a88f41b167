--------------------------- MODULE LogWorkerProofs ---------------------------
(* Proofs about LogWorker: whatever the threads that log, the worker prints *)
(* their messages whole and in the order of the program, and nothing that   *)
(* was written before a flush or the end is missing when it is answered.    *)
EXTENDS LogWorker, TLAPS

\* What has entered the queue, wherever it is now: printed, or on its way.
OnItsWay == ToSet(batch) \cup ToSet(queue)
Placed == ToSet(printed) \cup OnItsWay

\* A thread makes one statement at a time, and its stream holds the pieces of
\* that statement alone; nothing is streamed before the log is initialized.
StreamsInv ==
  /\ \A t \in Thread :
       \/ doing[t] = {} /\ stream[t] = <<>>
       \/ \E s \in Statement :
            /\ doing[t] = {s} /\ ThreadOf[s] = t /\ s \notin finished
            /\ \E n \in 0 .. Pieces : stream[t] = [i \in 1 .. n |-> s]
            /\ ~IsMessage(s) => stream[t] = <<>>
  /\ ~initialized => \A t \in Thread : stream[t] = <<>>

\* An entry is in one of four places once its thread has called push, and the
\* thread does not go on while the call lasts.
PlacesInv ==
  /\ offered \subseteq Statement
  /\ queue \in Seq(Statement)
  /\ \A s \in offered : s \in finished \cup doing[ThreadOf[s]]
  /\ entering \cup Placed \cup isTraited \subseteq offered
  /\ \A s \in entering : s \notin finished
  /\ \A s \in offered : IsMessage(s) /\ s \in doing[ThreadOf[s]] => Len(stream[ThreadOf[s]]) = Pieces
  /\ \A s \in Statement : text[s] # <<>> => IsMessage(s) /\ s \in entering \cup Placed
  /\ \A s \in ToSet(printed) : IsMessage(s)

\* A message written before a statement began is ahead of it in the pipeline
\* queue, batch, printed.
OrderInv ==
  /\ \A s \in Statement : before[s] \subseteq {m \in Placed : IsMessage(m)}
  /\ \A i \in DOMAIN queue :
       before[queue[i]] \subseteq
         ToSet(printed) \cup ToSet(batch) \cup {queue[j] : j \in 1 .. i - 1}
  /\ \A i \in DOMAIN batch :
       before[batch[i]] \subseteq ToSet(printed) \cup {batch[j] : j \in 1 .. i - 1}
  /\ PrintedInOrder
  /\ FlushCovers

\* The worker leaves its loop when the queue is closed and it has printed
\* everything that was written before.
EndInv ==
  /\ opened \in BOOLEAN
  /\ opened <=> mainAt \in {"start", "running"}
  /\ worker \in {"testEmpty", "closing", "ended"} => ~opened
  /\ worker # "batch" => batch = <<>>
  /\ inTime \subseteq {m \in Placed : IsMessage(m)}
  /\ worker \in {"closing", "ended"} => inTime \subseteq ToSet(printed)
  /\ mainAt = "done" => worker = "ended"

LogInv ==
  /\ TypeOK
  /\ StreamsInv
  /\ PlacesInv
  /\ OrderInv
  /\ EndInv
-----------------------------------------------------------------------------
USE DEF OnItsWay, Placed, IsMessage

\* The elements of a sequence that grows at its end or shrinks at its front.
LEMMA ToSetAppend ==
  ASSUME NEW S, NEW q \in Seq(S), NEW e \in S
  PROVE  /\ ToSet(Append(q, e)) = ToSet(q) \cup {e}
         /\ DOMAIN Append(q, e) = DOMAIN q \cup {Len(q) + 1}
         /\ Append(q, e)[Len(q) + 1] = e
         /\ \A i \in DOMAIN q : Append(q, e)[i] = q[i]
<1>1. /\ DOMAIN Append(q, e) = DOMAIN q \cup {Len(q) + 1}
      /\ Append(q, e)[Len(q) + 1] = e
      /\ \A i \in DOMAIN q : Append(q, e)[i] = q[i]
  OBVIOUS
<1> QED
  BY <1>1 DEF ToSet

\* The elements of a sequence that shrinks at its front.
LEMMA ToSetTail ==
  ASSUME NEW S, NEW q \in Seq(S), q # <<>>
  PROVE  /\ Head(q) = q[1] /\ Head(q) \in S /\ 1 \in DOMAIN q
         /\ Tail(q) \in Seq(S)
         /\ \A i \in DOMAIN Tail(q) : i + 1 \in DOMAIN q /\ Tail(q)[i] = q[i + 1]
         /\ \A i \in DOMAIN q : i = 1 \/ (i - 1 \in DOMAIN Tail(q) /\ Tail(q)[i - 1] = q[i])
         /\ ToSet(q) = {Head(q)} \cup ToSet(Tail(q))
<1>1. /\ Head(q) = q[1] /\ Head(q) \in S /\ 1 \in DOMAIN q
      /\ Tail(q) \in Seq(S)
      /\ \A i \in DOMAIN Tail(q) : i + 1 \in DOMAIN q /\ Tail(q)[i] = q[i + 1]
  OBVIOUS
<1>2. \A i \in DOMAIN q : i = 1 \/ (i - 1 \in DOMAIN Tail(q) /\ Tail(q)[i - 1] = q[i])
  OBVIOUS
<1>3. ToSet(q) \subseteq {Head(q)} \cup ToSet(Tail(q))
  BY <1>1, <1>2 DEF ToSet
<1>4. {Head(q)} \cup ToSet(Tail(q)) \subseteq ToSet(q)
  BY <1>1 DEF ToSet
<1> QED
  BY <1>1, <1>2, <1>3, <1>4

\* Nothing has been logged when the program starts.
LEMMA LogInvInit == Init => LogInv
<1> SUFFICES ASSUME Init PROVE LogInv
  OBVIOUS
<1> USE StatementAssumption DEF Init, Queue!Init
<1>1. ToSet(<<>>) = {}
  BY DEF ToSet
<1>2. TypeOK
  <2>1. <<>> \in Seq(Statement)
    OBVIOUS
  <2>2. stream \in [Thread -> Seq(Statement)] /\ text \in [Statement -> Seq(Statement)]
    BY <2>1
  <2>3. doing \in [Thread -> SUBSET Statement] /\ before \in [Statement -> SUBSET Statement]
    OBVIOUS
  <2> QED
    BY <2>1, <2>2, <2>3 DEF TypeOK
<1>3. StreamsInv
  BY DEF StreamsInv
<1>4. PlacesInv
  BY <1>1 DEF PlacesInv
<1>5. OrderInv
  BY DEF OrderInv, PrintedInOrder, FlushCovers
<1>6. EndInv
  BY DEF EndInv
<1> QED
  BY <1>2, <1>3, <1>4, <1>5, <1>6 DEF LogInv

\* The thread of a statement is one of the threads, and the queue's operations
\* are those of the abstract queue.
LEMMA ThreadOfType ==
  ASSUME NEW s \in Statement
  PROVE  ThreadOf[s] \in Thread
BY DEF Thread

\* A thread in the middle of a statement has that statement's pieces only.
LEMMA StreamOfStatement ==
  ASSUME StreamsInv, NEW s \in Statement, s \in doing[ThreadOf[s]]
  PROVE  /\ doing[ThreadOf[s]] = {s} /\ s \notin finished
         /\ \E n \in 0 .. Pieces : stream[ThreadOf[s]] = [i \in 1 .. n |-> s]
         /\ ~IsMessage(s) => stream[ThreadOf[s]] = <<>>
<1>1. PICK u \in Statement :
        /\ doing[ThreadOf[s]] = {u} /\ u \notin finished
        /\ \E n \in 0 .. Pieces : stream[ThreadOf[s]] = [i \in 1 .. n |-> u]
        /\ ~IsMessage(u) => stream[ThreadOf[s]] = <<>>
  BY ThreadOfType DEF StreamsInv
<1>2. u = s
  BY <1>1
<1> QED
  BY <1>1, <1>2

\* The text of an entry is that of its own statement, because a stream is.
LEMMA TypeStep ==
  ASSUME LogInv, [Next]_vars
  PROVE  TypeOK'
<1> USE StatementAssumption DEF LogInv, TypeOK, mainVars, callerVars, workerVars, queueVars
<1>1. ASSUME NEW s \in Statement, Begin(s) PROVE TypeOK'
  BY <1>1, ThreadOfType DEF Begin, Written
<1>2. ASSUME NEW s \in Statement, AppendMessage(s) PROVE TypeOK'
  <2>1. CASE initialized
    <3>1. Append(stream[ThreadOf[s]], s) \in Seq(Statement)
      BY ThreadOfType
    <3>2. stream' \in [Thread -> Seq(Statement)]
      BY <1>2, <2>1, <3>1 DEF AppendMessage, Appended
    <3> QED
      BY <1>2, <2>1, <3>2 DEF AppendMessage
  <2>2. CASE ~initialized
    BY <1>2, <2>2 DEF AppendMessage, Return
  <2> QED
    BY <2>1, <2>2
<1>3. ASSUME NEW s \in Statement, Write(s) PROVE TypeOK'
  <2>1. PICK n \in 0 .. Pieces : stream[ThreadOf[s]] = [i \in 1 .. n |-> s]
    BY <1>3, StreamOfStatement DEF Write
  <2>2. n = Pieces
    BY <1>3, <2>1 DEF Write
  <2>3. stream[ThreadOf[s]] \in Seq(Statement)
    BY ThreadOfType
  <2>4. text' \in [Statement -> Seq(Statement)]
    BY <1>3, <2>3 DEF Write
  <2>5. \A u \in Statement : text'[u] \in {<<>>, [i \in 1 .. Pieces |-> u]}
    BY <1>3, <2>1, <2>2 DEF Write
  <2> QED
    BY <1>3, <2>4, <2>5 DEF Write
<1>4. ASSUME NEW s \in Statement, ClearStream(s) PROVE TypeOK'
  <2>1. <<>> \in Seq(Statement)
    OBVIOUS
  <2>2. stream' = [stream EXCEPT ![ThreadOf[s]] = <<>>]
    BY <1>4 DEF ClearStream
  <2>3. stream' \in [Thread -> Seq(Statement)]
    BY <2>1, <2>2
  <2> QED
    BY <1>4, <2>3 DEF ClearStream, Return
<1>5. ASSUME NEW s \in Statement, Flush(s) \/ Enter(s) \/ WaitOnNothing(s) PROVE TypeOK'
  BY <1>5 DEF Flush, Enter, WaitOnNothing
<1>6. ASSUME NEW s \in Statement, ReturnWithoutWaiting(s) PROVE TypeOK'
  BY <1>6 DEF ReturnWithoutWaiting, Return
<1>7. ASSUME StartWorker \/ SetInitialized \/ Quit \/ Join PROVE TypeOK'
  BY <1>7 DEF StartWorker, SetInitialized, Quit, Join, Written
<1>8. ASSUME Open \/ TestOpened \/ TestEmpty \/ EndBatch \/ End \/ TakeNothing PROVE TypeOK'
  BY <1>8 DEF Open, TestOpened, TestEmpty, EndBatch, End, TakeNothing, Goto
<1>9. CASE Take
  BY <1>9 DEF Take, Goto, PlacesInv
<1>10. CASE Handle
  <2>1. Tail(batch) \in Seq(Statement) /\ NextEntry \in Statement
    BY <1>10, ToSetTail DEF Handle, NextEntry
  <2>2. printed' \in Seq(Statement)
    BY <1>10, <2>1 DEF Handle
  <2> QED
    BY <1>10, <2>1, <2>2 DEF Handle
<1>11. CASE UNCHANGED vars
  BY <1>11 DEF vars
<1> QED
  BY <1>1, <1>2, <1>3, <1>4, <1>5, <1>6, <1>7, <1>8, <1>9, <1>10, <1>11 DEF Next, Use, Run

\* A stream is emptied before its thread goes on (log::endl).
LEMMA StreamsStep ==
  ASSUME LogInv, [Next]_vars
  PROVE  StreamsInv'
<1> USE StatementAssumption DEF mainVars, callerVars, workerVars, queueVars
<1> DEFINE Busy(t, s) == /\ doing[t] = {s} /\ ThreadOf[s] = t /\ s \notin finished
                         /\ \E n \in 0 .. Pieces : stream[t] = [i \in 1 .. n |-> s]
                         /\ ~IsMessage(s) => stream[t] = <<>>
           Calm(t) == doing[t] = {} /\ stream[t] = <<>>
<1>0. /\ stream \in [Thread -> Seq(Statement)] /\ doing \in [Thread -> SUBSET Statement]
      /\ \A t \in Thread : Calm(t) \/ \E s \in Statement : Busy(t, s)
      /\ initialized \in BOOLEAN
      /\ ~initialized => \A t \in Thread : stream[t] = <<>>
  BY DEF LogInv, TypeOK, StreamsInv
<1>1. ASSUME NEW s \in Statement,
             \/ Begin(s)
             \/ AppendMessage(s)
             \/ ClearStream(s)
             \/ ReturnWithoutWaiting(s)
      PROVE  /\ \A t \in Thread \ {ThreadOf[s]} : UNCHANGED <<doing[t], stream[t]>>
             /\ finished' \subseteq finished \cup {s}
             /\ UNCHANGED initialized
  BY <1>0, <1>1, ThreadOfType
  DEF Begin, AppendMessage, Appended, ClearStream, ReturnWithoutWaiting, Return
<1>2. ASSUME NEW s \in Statement, Begin(s)
      PROVE  Busy(ThreadOf[s], s)'
  <2>1. /\ doing' = [doing EXCEPT ![ThreadOf[s]] = {s}] /\ UNCHANGED <<stream, finished>>
        /\ s \notin finished /\ doing[ThreadOf[s]] = {}
    BY <1>2 DEF Begin
  <2>2. stream[ThreadOf[s]] = <<>>
    BY <1>0, <2>1, ThreadOfType
  <2>3. <<>> = [i \in 1 .. 0 |-> s] /\ 0 \in 0 .. Pieces
    OBVIOUS
  <2> QED
    BY <1>0, <2>1, <2>2, <2>3, ThreadOfType
<1>3. ASSUME NEW s \in Statement, AppendMessage(s)
      PROVE  (Busy(ThreadOf[s], s) \/ Calm(ThreadOf[s]))'
  <2>1. PICK n \in 0 .. Pieces : stream[ThreadOf[s]] = [i \in 1 .. n |-> s]
    BY <1>3, StreamOfStatement DEF LogInv, AppendMessage
  <2>2. CASE initialized
    <3>1. n + 1 \in 0 .. Pieces /\ Append([i \in 1 .. n |-> s], s) = [i \in 1 .. n + 1 |-> s]
      <4>1. Len(stream[ThreadOf[s]]) = n
        BY <2>1
      <4>2. n + 1 \in 0 .. Pieces
        BY <1>3, <4>1 DEF AppendMessage
      <4> DEFINE q == [i \in 1 .. n |-> s]
      <4>3. q \in Seq(Statement) /\ Len(q) = n
        OBVIOUS
      <4> QED
        BY <4>2, <4>3
    <3>2. stream'[ThreadOf[s]] = [i \in 1 .. n + 1 |-> s]
      <4>1. stream' = [stream EXCEPT ![ThreadOf[s]] = Append(stream[ThreadOf[s]], s)]
        BY <1>3, <2>2 DEF AppendMessage, Appended
      <4> QED
        BY <1>0, <2>1, <3>1, <4>1, ThreadOfType
    <3>3. /\ doing'[ThreadOf[s]] = {s} /\ s \notin finished' /\ IsMessage(s)
      BY <1>3, <2>2, StreamOfStatement DEF AppendMessage, LogInv
    <3> QED
      BY <3>1, <3>2, <3>3
  <2>3. CASE ~initialized
    <3>1. /\ UNCHANGED stream /\ doing' = [doing EXCEPT ![ThreadOf[s]] = {}]
      BY <1>3, <2>3 DEF AppendMessage, Return
    <3>2. stream[ThreadOf[s]] = <<>>
      BY <1>0, <2>3, ThreadOfType
    <3> QED
      BY <1>0, <3>1, <3>2, ThreadOfType
  <2> QED
    BY <2>2, <2>3
<1>4. ASSUME NEW s \in Statement, ClearStream(s) \/ ReturnWithoutWaiting(s)
      PROVE  Calm(ThreadOf[s])'
  BY <1>0, <1>4, ThreadOfType, StreamOfStatement
  DEF ClearStream, ReturnWithoutWaiting, Return, Pushed, LogInv
<1>5. ASSUME NEW s \in Statement, Begin(s) \/ AppendMessage(s) \/ ClearStream(s)
                                  \/ ReturnWithoutWaiting(s)
      PROVE  StreamsInv'
  <2>1. (Busy(ThreadOf[s], s) \/ Calm(ThreadOf[s]))'
    BY <1>2, <1>3, <1>4, <1>5
  <2>2. ASSUME NEW t \in Thread \ {ThreadOf[s]}
        PROVE  (Calm(t) \/ \E u \in Statement : Busy(t, u))'
    BY <1>0, <1>1, <1>5
  <2>3. (~initialized => \A t \in Thread : stream[t] = <<>>)'
    <3>1. CASE AppendMessage(s) \/ Begin(s) \/ ReturnWithoutWaiting(s)
      <4>1. initialized \/ UNCHANGED stream
        BY <3>1 DEF AppendMessage, Begin, ReturnWithoutWaiting
      <4> QED
        BY <1>0, <1>1, <1>5, <4>1
    <3>2. CASE ClearStream(s)
      <4>1. stream' = [stream EXCEPT ![ThreadOf[s]] = <<>>] /\ UNCHANGED initialized
        BY <3>2 DEF ClearStream
      <4> QED
        BY <1>0, <4>1
    <3> QED
      BY <1>5, <3>1, <3>2
  <2> QED
    BY <2>1, <2>2, <2>3 DEF StreamsInv
<1>6. ASSUME NEW s \in Statement, Write(s) \/ Flush(s) \/ Enter(s) \/ WaitOnNothing(s)
      PROVE  StreamsInv'
  BY <1>6 DEF Write, Flush, Enter, WaitOnNothing, StreamsInv, LogInv
<1>7. ASSUME StartWorker \/ Quit \/ Join PROVE StreamsInv'
  BY <1>7 DEF StartWorker, Quit, Join, StreamsInv, LogInv
<1>8. ASSUME SetInitialized PROVE StreamsInv'
  BY <1>8 DEF SetInitialized, StreamsInv, LogInv
<1>9. ASSUME Run \/ TakeNothing \/ UNCHANGED vars PROVE StreamsInv'
  BY <1>9 DEF Run, Open, TestOpened, TestEmpty, Take, Handle, EndBatch, End, TakeNothing,
              vars, StreamsInv, LogInv
<1> QED
  BY <1>5, <1>6, <1>7, <1>8, <1>9 DEF Next, Use

\* A statement that is being made and has been pushed is not begun again, and
\* what has not been pushed is nowhere.
LEMMA NotPushed ==
  ASSUME PlacesInv, NEW s \in Statement, s \notin finished, s \notin doing[ThreadOf[s]]
  PROVE  s \notin offered \cup entering \cup Placed \cup isTraited
BY DEF PlacesInv

\* What log::endl has written has entered the queue.
LEMMA WrittenPlaced ==
  ASSUME TypeOK, PlacesInv
  PROVE  Written \subseteq {m \in Placed : IsMessage(m)}
BY DEF TypeOK, PlacesInv, Written

\* An entry moves on from place to place and is never dropped.
LEMMA PlacesStep ==
  ASSUME LogInv, [Next]_vars
  PROVE  PlacesInv'
<1> USE StatementAssumption DEF mainVars, callerVars, workerVars, queueVars
<1>0. TypeOK /\ StreamsInv /\ PlacesInv /\ EndInv
  BY DEF LogInv
<1>1. ASSUME NEW s \in Statement, Begin(s) PROVE PlacesInv'
  <2>1. /\ s \notin finished /\ doing[ThreadOf[s]] = {}
        /\ doing' = [doing EXCEPT ![ThreadOf[s]] = {s}]
        /\ UNCHANGED <<stream, finished, text, offered, entering, queue, batch, printed, isTraited>>
    BY <1>1 DEF Begin
  <2>2. s \notin offered
    BY <1>0, <2>1, NotPushed
  <2>3. \A u \in offered : /\ u \in finished \cup doing'[ThreadOf[u]]
                           /\ u \in doing'[ThreadOf[u]] => u \in doing[ThreadOf[u]]
    BY <1>0, <2>1, <2>2, ThreadOfType DEF PlacesInv, TypeOK
  <2> QED
    BY <1>0, <2>1, <2>3 DEF PlacesInv, ToSet
<1>2. ASSUME NEW s \in Statement, AppendMessage(s) PROVE PlacesInv'
  <2>1. /\ s \in doing[ThreadOf[s]] /\ IsMessage(s) /\ Len(stream[ThreadOf[s]]) < Pieces
        /\ UNCHANGED <<text, offered, entering, queue, batch, printed, isTraited>>
    BY <1>2 DEF AppendMessage
  <2>2. s \notin offered /\ doing[ThreadOf[s]] = {s}
    BY <1>0, <2>1, StreamOfStatement DEF PlacesInv
  <2>3. CASE initialized
    <3>1. /\ UNCHANGED <<doing, finished>>
          /\ \A t \in Thread : t # ThreadOf[s] => stream'[t] = stream[t]
      BY <1>0, <1>2, <2>3 DEF AppendMessage, Appended, TypeOK
    <3>2. \A u \in offered : u \in doing[ThreadOf[u]] => ThreadOf[u] # ThreadOf[s]
      BY <2>2
    <3> QED
      BY <1>0, <2>1, <3>1, <3>2, ThreadOfType DEF PlacesInv, ToSet
  <2>4. CASE ~initialized
    <3>1. /\ finished' = finished \cup {s} /\ UNCHANGED stream
          /\ doing' = [doing EXCEPT ![ThreadOf[s]] = {}]
      BY <1>2, <2>4 DEF AppendMessage, Return
    <3>2. \A u \in offered : doing'[ThreadOf[u]] \subseteq doing[ThreadOf[u]]
                             /\ u \in finished' \cup doing'[ThreadOf[u]]
      BY <1>0, <2>2, <3>1, ThreadOfType DEF PlacesInv, TypeOK
    <3> QED
      BY <1>0, <2>1, <2>2, <3>1, <3>2 DEF PlacesInv, ToSet
  <2> QED
    BY <2>3, <2>4
<1>3. ASSUME NEW s \in Statement, Write(s) \/ Flush(s) PROVE PlacesInv'
  <2>1. /\ s \in doing[ThreadOf[s]] /\ offered' = offered \cup {s}
        /\ entering' = entering \/ entering' = entering \cup {s}
        /\ UNCHANGED <<stream, doing, finished, queue, batch, printed, isTraited>>
    BY <1>3 DEF Write, Flush, Push, Queue!Accept, Queue!Refuse
  <2>2. s \notin finished /\ doing[ThreadOf[s]] = {s}
    BY <1>0, <2>1, StreamOfStatement
  <2>3. IsMessage(s) => Len(stream[ThreadOf[s]]) = Pieces
    <3> SUFFICES ASSUME IsMessage(s) PROVE Len(stream[ThreadOf[s]]) = Pieces
      OBVIOUS
    <3>1. PICK n \in 0 .. Pieces : stream[ThreadOf[s]] = [i \in 1 .. n |-> s]
      BY <1>0, <2>1, StreamOfStatement
    <3>2. Len(stream[ThreadOf[s]]) = n
      BY <3>1
    <3>3. Len(stream[ThreadOf[s]]) >= Pieces
      BY <1>3 DEF Write, Flush
    <3> QED
      BY <3>2, <3>3
  <2>4. \A u \in Statement : text'[u] # <<>> => IsMessage(u) /\ u \in entering' \cup Placed
    <3>1. CASE UNCHANGED text
      BY <1>0, <2>1, <3>1 DEF PlacesInv
    <3>2. CASE Write(s) /\ opened
      <4>1. /\ IsMessage(s) /\ entering' = entering \cup {s}
            /\ \A u \in Statement : u # s => text'[u] = text[u]
        BY <1>0, <3>2 DEF Write, Push, Queue!Accept, Queue!Refuse, TypeOK
      <4> QED
        BY <1>0, <4>1 DEF PlacesInv
    <3> QED
      BY <1>3, <3>1, <3>2 DEF Write, Flush
  <2> QED
    BY <1>0, <2>1, <2>2, <2>3, <2>4 DEF PlacesInv, ToSet
<1>4. ASSUME NEW s \in Statement, Enter(s) PROVE PlacesInv'
  <2>1. /\ s \in entering /\ entering' = entering \ {s} /\ queue' = Append(queue, s)
        /\ UNCHANGED <<stream, doing, finished, text, offered, batch, printed, isTraited>>
    BY <1>4 DEF Enter, Queue!Enter
  <2>2. queue' \in Seq(Statement) /\ ToSet(queue') = ToSet(queue) \cup {s}
    BY <1>0, <2>1, ToSetAppend DEF PlacesInv
  <2>3. ToSet(batch)' = ToSet(batch) /\ ToSet(printed)' = ToSet(printed)
        /\ ToSet(queue)' = ToSet(queue')
    BY <2>1 DEF ToSet
  <2> QED
    BY <1>0, <2>1, <2>2, <2>3 DEF PlacesInv
<1>5. ASSUME NEW s \in Statement, ClearStream(s) \/ ReturnWithoutWaiting(s) PROVE PlacesInv'
  <2>1. /\ s \in offered /\ s \notin entering /\ s \in doing[ThreadOf[s]]
        /\ finished' = finished \cup {s} /\ doing' = [doing EXCEPT ![ThreadOf[s]] = {}]
        /\ \A t \in Thread : t # ThreadOf[s] => stream'[t] = stream[t]
        /\ UNCHANGED <<text, offered, entering, queue, batch, printed, isTraited>>
    BY <1>0, <1>5 DEF ClearStream, ReturnWithoutWaiting, Return, Pushed, TypeOK
  <2>2. doing[ThreadOf[s]] = {s}
    BY <1>0, <2>1, StreamOfStatement
  <2>3. \A u \in offered :
          /\ u \in finished' \cup doing'[ThreadOf[u]]
          /\ u \in doing'[ThreadOf[u]] =>
               u \in doing[ThreadOf[u]] /\ stream'[ThreadOf[u]] = stream[ThreadOf[u]]
    BY <1>0, <2>1, <2>2, ThreadOfType DEF PlacesInv, TypeOK
  <2> QED
    BY <1>0, <2>1, <2>3 DEF PlacesInv, ToSet
<1>6. ASSUME NEW s \in Statement, WaitOnNothing(s) PROVE PlacesInv'
  BY <1>0, <1>6 DEF WaitOnNothing, PlacesInv, ToSet
<1>7. ASSUME StartWorker \/ SetInitialized \/ Quit \/ Join PROVE PlacesInv'
  BY <1>0, <1>7 DEF StartWorker, SetInitialized, Quit, Join, Queue!Close, PlacesInv, ToSet
<1>8. ASSUME Open \/ TestOpened \/ TestEmpty \/ EndBatch \/ End \/ TakeNothing \/ UNCHANGED vars
      PROVE  PlacesInv'
  BY <1>0, <1>8 DEF Open, TestOpened, TestEmpty, EndBatch, End, TakeNothing,
                    Queue!TellClosed, vars, PlacesInv, ToSet
<1>9. CASE Take
  <2>1. /\ batch = <<>> /\ batch' = queue /\ queue' = <<>>
        /\ UNCHANGED <<stream, doing, finished, text, offered, entering, printed, isTraited>>
    BY <1>0, <1>9 DEF Take, Queue!DeliverAll, Queue!Deliver, EndInv
  <2>2. Placed' = Placed /\ ToSet(printed)' = ToSet(printed)
    BY <2>1 DEF ToSet
  <2> QED
    BY <1>0, <2>1, <2>2 DEF PlacesInv
<1>10. CASE Handle
  <2>1. /\ batch # <<>> /\ batch' = Tail(batch)
        /\ printed' = IF IsMessage(Head(batch)) THEN Append(printed, Head(batch)) ELSE printed
        /\ isTraited' \subseteq isTraited \cup {Head(batch)}
        /\ UNCHANGED <<stream, doing, finished, text, offered, entering, queue>>
    BY <1>10 DEF Handle, NextEntry
  <2>2. Head(batch) \in Statement /\ ToSet(batch) = {Head(batch)} \cup ToSet(batch')
    BY <1>0, <2>1, ToSetTail DEF TypeOK
  <2>3. ToSet(printed') = IF IsMessage(Head(batch)) THEN ToSet(printed) \cup {Head(batch)}
                          ELSE ToSet(printed)
    <3>1. printed \in Seq(Statement)
      BY <1>0 DEF TypeOK
    <3>2. ToSet(Append(printed, Head(batch))) = ToSet(printed) \cup {Head(batch)}
      BY <2>2, <3>1, ToSetAppend
    <3> QED
      BY <2>1, <3>2
  <2>4. ToSet(batch)' = ToSet(batch') /\ ToSet(printed)' = ToSet(printed')
        /\ ToSet(queue)' = ToSet(queue)
    BY <2>1 DEF ToSet
  <2> QED
    BY <1>0, <2>1, <2>2, <2>3, <2>4 DEF PlacesInv
<1> QED
  BY <1>1, <1>2, <1>3, <1>4, <1>5, <1>6, <1>7, <1>8, <1>9, <1>10 DEF Next, Use, Run

\* No entry moves and no statement begins: nothing changes in the order.
LEMMA OrderKept ==
  ASSUME OrderInv, UNCHANGED <<before, queue, batch, printed, isTraited>>
  PROVE  OrderInv'
BY DEF OrderInv, PrintedInOrder, FlushCovers, ToSet

\* Entries that enter later stay behind: push appends, flush takes all of the
\* queue, and the worker takes its batch from the front.
LEMMA OrderStep ==
  ASSUME LogInv, [Next]_vars
  PROVE  OrderInv'
<1> USE DEF mainVars, callerVars, workerVars, queueVars
<1>0. /\ TypeOK /\ StreamsInv /\ PlacesInv /\ OrderInv /\ EndInv
      /\ batch \in Seq(Statement) /\ printed \in Seq(Statement) /\ queue \in Seq(Statement)
  BY DEF LogInv, TypeOK, PlacesInv
<1>1. ASSUME NEW s \in Statement, Begin(s) PROVE OrderInv'
  <2>1. /\ s \notin finished /\ doing[ThreadOf[s]] = {}
        /\ before' = [before EXCEPT ![s] = Written]
        /\ UNCHANGED <<queue, batch, printed, isTraited>>
    BY <1>1 DEF Begin
  <2>2. s \notin Placed \cup isTraited
    BY <1>0, <2>1, NotPushed
  <2>3. \A u \in Statement : u # s => before'[u] = before[u]
    BY <1>0, <2>1 DEF TypeOK
  <2>4. before'[s] = Written
    BY <1>0, <2>1 DEF TypeOK
  <2>5. /\ \A i \in DOMAIN queue : queue[i] \in Statement /\ before'[queue[i]] = before[queue[i]]
        /\ \A i \in DOMAIN batch : batch[i] \in Statement /\ before'[batch[i]] = before[batch[i]]
        /\ \A i \in DOMAIN printed : before'[printed[i]] = before[printed[i]]
        /\ \A f \in isTraited : before'[f] = before[f]
    BY <1>0, <2>2, <2>3 DEF ToSet, TypeOK
  <2>6. (\A u \in Statement : before[u] \subseteq {m \in Placed : IsMessage(m)})'
    BY <1>0, <2>1, <2>3, <2>4, WrittenPlaced DEF OrderInv, ToSet
  <2>7. (\A i \in DOMAIN queue : before[queue[i]] \subseteq
           ToSet(printed) \cup ToSet(batch) \cup {queue[j] : j \in 1 .. i - 1})'
    BY <1>0, <2>1, <2>5 DEF OrderInv, ToSet
  <2>8. (\A i \in DOMAIN batch :
           before[batch[i]] \subseteq ToSet(printed) \cup {batch[j] : j \in 1 .. i - 1})'
    BY <1>0, <2>1, <2>5 DEF OrderInv, ToSet
  <2>9. (PrintedInOrder /\ FlushCovers)'
    BY <1>0, <2>1, <2>5 DEF OrderInv, PrintedInOrder, FlushCovers, ToSet
  <2> QED
    BY <2>6, <2>7, <2>8, <2>9 DEF OrderInv
<1>2. ASSUME NEW s \in Statement,
             \/ AppendMessage(s) \/ Write(s) \/ Flush(s)
             \/ ClearStream(s) \/ ReturnWithoutWaiting(s) \/ WaitOnNothing(s)
      PROVE  OrderInv'
  <2>1. UNCHANGED <<before, queue, batch, printed, isTraited>>
    BY <1>2 DEF AppendMessage, Write, Flush, Push, Queue!Accept, Queue!Refuse, ClearStream,
                ReturnWithoutWaiting, WaitOnNothing
  <2> QED
    BY <1>0, <2>1, OrderKept
<1>3. ASSUME NEW s \in Statement, Enter(s) PROVE OrderInv'
  <2>1. queue' = Append(queue, s) /\ UNCHANGED <<before, batch, printed, isTraited>>
    BY <1>3 DEF Enter, Queue!Enter
  <2>2. /\ ToSet(queue') = ToSet(queue) \cup {s}
        /\ DOMAIN queue' = DOMAIN queue \cup {Len(queue) + 1} /\ queue'[Len(queue) + 1] = s
        /\ \A i \in DOMAIN queue : queue'[i] = queue[i]
    BY <1>0, <2>1, ToSetAppend
  <2>3. DOMAIN queue = 1 .. Len(queue) /\ Len(queue) \in Nat
    BY <1>0
  <2>4. ASSUME NEW i \in DOMAIN queue'
        PROVE  before[queue'[i]] \subseteq
                 ToSet(printed) \cup ToSet(batch) \cup {queue'[j] : j \in 1 .. i - 1}
    <3>1. CASE i \in DOMAIN queue
      <4>1. \A j \in 1 .. i - 1 : queue'[j] = queue[j]
        BY <2>2, <2>3, <3>1
      <4> QED
        BY <1>0, <2>2, <3>1, <4>1 DEF OrderInv
    <3>2. CASE i = Len(queue) + 1
      <4>1. {queue'[j] : j \in 1 .. i - 1} = ToSet(queue)
        BY <2>2, <2>3, <3>2 DEF ToSet
      <4> QED
        BY <1>0, <2>2, <3>2, <4>1 DEF OrderInv
    <3> QED
      BY <2>2, <3>1, <3>2
  <2>5. ToSet(queue)' = ToSet(queue') /\ ToSet(batch)' = ToSet(batch)
        /\ ToSet(printed)' = ToSet(printed)
    BY <2>1 DEF ToSet
  <2>6. (\A u \in Statement : before[u] \subseteq {m \in Placed : IsMessage(m)})'
    BY <1>0, <2>1, <2>2, <2>5 DEF OrderInv
  <2>7. (PrintedInOrder /\ FlushCovers)'
    BY <1>0, <2>1, <2>5 DEF OrderInv, PrintedInOrder, FlushCovers
  <2>8. (\A i \in DOMAIN queue : before[queue[i]] \subseteq
           ToSet(printed) \cup ToSet(batch) \cup {queue[j] : j \in 1 .. i - 1})'
    BY <2>1, <2>4, <2>5
  <2>9. (\A i \in DOMAIN batch :
           before[batch[i]] \subseteq ToSet(printed) \cup {batch[j] : j \in 1 .. i - 1})'
    BY <1>0, <2>1, <2>5 DEF OrderInv
  <2> QED
    BY <2>6, <2>7, <2>8, <2>9 DEF OrderInv
<1>4. ASSUME StartWorker \/ SetInitialized \/ Quit \/ Join PROVE OrderInv'
  <2>1. UNCHANGED <<before, queue, batch, printed, isTraited>>
    BY <1>4 DEF StartWorker, SetInitialized, Quit, Join, Queue!Close
  <2> QED
    BY <1>0, <2>1, OrderKept
<1>5. ASSUME Open \/ TestOpened \/ TestEmpty \/ EndBatch \/ End \/ TakeNothing \/ UNCHANGED vars
      PROVE  OrderInv'
  <2>1. UNCHANGED <<before, queue, batch, printed, isTraited>>
    BY <1>5 DEF Open, TestOpened, TestEmpty, EndBatch, End, TakeNothing, Queue!TellClosed, vars
  <2> QED
    BY <1>0, <2>1, OrderKept
<1>6. CASE Take
  <2>1. /\ batch = <<>> /\ batch' = queue /\ queue' = <<>>
        /\ UNCHANGED <<before, printed, isTraited>>
    BY <1>0, <1>6 DEF Take, Queue!DeliverAll, Queue!Deliver, EndInv
  <2>2. ToSet(batch) = {} /\ ToSet(queue)' = {} /\ ToSet(batch)' = ToSet(queue)
        /\ ToSet(printed)' = ToSet(printed)
    BY <2>1 DEF ToSet
  <2>3. (\A i \in DOMAIN batch :
           before[batch[i]] \subseteq ToSet(printed) \cup {batch[j] : j \in 1 .. i - 1})'
    BY <1>0, <2>1, <2>2 DEF OrderInv
  <2>4. (\A u \in Statement : before[u] \subseteq {m \in Placed : IsMessage(m)})'
    BY <1>0, <2>1, <2>2 DEF OrderInv
  <2>5. (PrintedInOrder /\ FlushCovers)'
    BY <1>0, <2>1, <2>2 DEF OrderInv, PrintedInOrder, FlushCovers
  <2> QED
    BY <2>1, <2>3, <2>4, <2>5 DEF OrderInv
<1>7. CASE Handle
  <2> DEFINE e == Head(batch)
  <2>1. /\ batch # <<>> /\ batch' = Tail(batch)
        /\ printed' = IF IsMessage(e) THEN Append(printed, e) ELSE printed
        /\ isTraited' \subseteq isTraited \cup {e}
        /\ UNCHANGED <<before, queue>>
    BY <1>7 DEF Handle, NextEntry
  <2>2. /\ e = batch[1] /\ e \in Statement /\ 1 \in DOMAIN batch
        /\ \A i \in DOMAIN batch' : i + 1 \in DOMAIN batch /\ batch'[i] = batch[i + 1]
        /\ \A i \in DOMAIN batch : i = 1 \/ (i - 1 \in DOMAIN batch' /\ batch'[i - 1] = batch[i])
        /\ ToSet(batch) = {e} \cup ToSet(batch')
        /\ batch' \in Seq(Statement)
    BY <1>0, <2>1, ToSetTail
  <2> HIDE DEF e
  <2>3. /\ DOMAIN Append(printed, e) = DOMAIN printed \cup {Len(printed) + 1}
        /\ Append(printed, e)[Len(printed) + 1] = e
        /\ \A i \in DOMAIN printed : Append(printed, e)[i] = printed[i]
        /\ ToSet(Append(printed, e)) = ToSet(printed) \cup {e}
    BY <1>0, <2>2, ToSetAppend
  <2>4. /\ ToSet(printed') = IF IsMessage(e) THEN ToSet(printed) \cup {e} ELSE ToSet(printed)
        /\ ToSet(batch)' = ToSet(batch') /\ ToSet(printed)' = ToSet(printed')
        /\ ToSet(queue)' = ToSet(queue)
    BY <2>1, <2>3 DEF ToSet
  <2>5. \A u \in Statement : before[u] \subseteq {m \in Placed : IsMessage(m)}
    BY <1>0 DEF OrderInv
  <2>6. before[e] \subseteq ToSet(printed)
    <3>1. before[e] \subseteq ToSet(printed) \cup {batch[j] : j \in 1 .. 1 - 1}
      BY <1>0, <2>2 DEF OrderInv
    <3>2. 1 .. 1 - 1 = {}
      OBVIOUS
    <3> QED
      BY <3>1, <3>2
  <2>7. (\A u \in Statement : before[u] \subseteq {m \in Placed : IsMessage(m)})'
    BY <2>1, <2>2, <2>4, <2>5
  <2>8. ASSUME NEW i \in DOMAIN batch'
        PROVE  before[batch'[i]] \subseteq ToSet(printed') \cup {batch'[j] : j \in 1 .. i - 1}
    <3> SUFFICES ASSUME NEW m \in before[batch'[i]]
                 PROVE  m \in ToSet(printed') \/ \E j \in 1 .. i - 1 : m = batch'[j]
      OBVIOUS
    <3>1. i \in Nat /\ i + 1 \in DOMAIN batch /\ batch'[i] = batch[i + 1] /\ batch'[i] \in Statement
      BY <1>0, <2>2
    <3>2. IsMessage(m) /\ (m \in ToSet(printed) \/ \E k \in 1 .. (i + 1) - 1 : m = batch[k])
      BY <1>0, <2>5, <3>1 DEF OrderInv
    <3>3. ASSUME NEW k \in 1 .. (i + 1) - 1, m = batch[k]
          PROVE  m = e \/ \E j \in 1 .. i - 1 : m = batch'[j]
      <4>1. k \in DOMAIN batch
        BY <1>0, <3>1
      <4>2. CASE k = 1
        BY <2>2, <3>3, <4>2
      <4>3. CASE k # 1
        <5>1. k - 1 \in 1 .. i - 1 /\ batch'[k - 1] = batch[k]
          BY <2>2, <3>1, <4>1, <4>3
        <5> QED
          BY <3>3, <5>1
      <4> QED
        BY <4>2, <4>3
    <3> QED
      BY <2>4, <3>2, <3>3
  <2>9. (\A i \in DOMAIN queue : before[queue[i]] \subseteq
           ToSet(printed) \cup ToSet(batch) \cup {queue[j] : j \in 1 .. i - 1})'
    <3> SUFFICES ASSUME NEW i \in DOMAIN queue, NEW m \in before[queue[i]]
                 PROVE  \/ m \in ToSet(printed') \cup ToSet(batch')
                        \/ \E j \in 1 .. i - 1 : m = queue[j]
      BY <2>1, <2>4
    <3>1. queue[i] \in Statement
      BY <1>0
    <3>2. IsMessage(m)
      BY <2>5, <3>1
    <3>3. \/ m \in ToSet(printed) \cup ToSet(batch)
          \/ \E j \in 1 .. i - 1 : m = queue[j]
      BY <1>0 DEF OrderInv
    <3> QED
      BY <2>2, <2>4, <3>2, <3>3
  <2>10. PrintedInOrder'
    <3>1. CASE ~IsMessage(e)
      <4>1. UNCHANGED <<printed, before>>
        BY <2>1, <3>1
      <4> QED
        BY <1>0, <4>1 DEF OrderInv, PrintedInOrder
    <3>2. CASE IsMessage(e)
      <4>0. printed' = Append(printed, e) /\ DOMAIN printed = 1 .. Len(printed) /\ Len(printed) \in Nat
        BY <1>0, <2>1, <3>2
      <4>1. ASSUME NEW i \in DOMAIN printed
            PROVE  before[printed'[i]] \subseteq {printed'[j] : j \in 1 .. i - 1}
        <5>1. \A j \in 1 .. i - 1 : printed'[j] = printed[j]
          BY <2>3, <4>0
        <5> QED
          BY <1>0, <2>3, <4>0, <5>1 DEF OrderInv, PrintedInOrder
      <4>2. {printed'[j] : j \in 1 .. (Len(printed) + 1) - 1} = ToSet(printed)
        BY <2>3, <4>0 DEF ToSet
      <4> QED
        BY <2>1, <2>3, <2>6, <4>0, <4>1, <4>2 DEF PrintedInOrder
    <3> QED
      BY <3>1, <3>2
  <2>11. FlushCovers'
    BY <1>0, <2>1, <2>4, <2>6 DEF OrderInv, FlushCovers
  <2> QED
    BY <2>1, <2>4, <2>7, <2>8, <2>9, <2>10, <2>11 DEF OrderInv
<1> QED
  BY <1>1, <1>2, <1>3, <1>4, <1>5, <1>6, <1>7 DEF Next, Use, Run

\* The worker ends after one more flush of a closed queue.
LEMMA EndStep ==
  ASSUME LogInv, [Next]_vars
  PROVE  EndInv'
<1> USE DEF mainVars, callerVars, workerVars, queueVars
<1>0. /\ TypeOK /\ PlacesInv /\ EndInv
      /\ batch \in Seq(Statement) /\ printed \in Seq(Statement) /\ queue \in Seq(Statement)
  BY DEF LogInv, TypeOK, PlacesInv
<1>1. ASSUME UNCHANGED <<opened, mainAt, inTime, worker, batch, printed>>,
             ToSet(queue) \subseteq ToSet(queue')
      PROVE  EndInv'
  BY <1>0, <1>1 DEF EndInv, ToSet
<1>2. ASSUME NEW s \in Statement, Use(s) PROVE EndInv'
  <2>1. UNCHANGED <<opened, mainAt, inTime, worker, batch, printed>>
        /\ (UNCHANGED queue \/ queue' = Append(queue, s))
    BY <1>2 DEF Use, Begin, AppendMessage, Write, Flush, Enter, Push, Queue!Accept, Queue!Refuse,
                Queue!Enter, ClearStream, ReturnWithoutWaiting, WaitOnNothing
  <2> QED
    <3>1. queue' = Append(queue, s) => ToSet(queue') = ToSet(queue) \cup {s}
      BY <1>0, ToSetAppend
    <3>2. ToSet(queue) \subseteq ToSet(queue')
      BY <2>1, <3>1
    <3> QED
      BY <1>1, <2>1, <3>2
<1>3. ASSUME StartWorker \/ SetInitialized \/ Join PROVE EndInv'
  BY <1>0, <1>3 DEF StartWorker, SetInitialized, Join, EndInv, ToSet
<1>4. CASE Quit
  <2>1. /\ mainAt = "running" /\ mainAt' = "joining" /\ opened' = FALSE /\ inTime' = Written
        /\ UNCHANGED <<worker, batch, printed, queue>>
    BY <1>4 DEF Quit, Queue!Close
  <2>2. worker \notin {"closing", "ended"}
    BY <1>0, <2>1 DEF EndInv
  <2> QED
    <3>1. inTime' \subseteq {m \in Placed : IsMessage(m)} /\ Placed' = Placed
      BY <1>0, <2>1, WrittenPlaced DEF ToSet
    <3> QED
      BY <1>0, <2>1, <2>2, <3>1 DEF EndInv
<1>5. ASSUME Open \/ TestOpened \/ EndBatch \/ End \/ TakeNothing \/ UNCHANGED vars
      PROVE  EndInv'
  BY <1>0, <1>5 DEF Open, TestOpened, EndBatch, End, TakeNothing, Goto, Queue!TellClosed, vars,
                    EndInv, ToSet
<1>6. CASE TestEmpty
  <2>1. /\ worker = "testEmpty" /\ batch = <<>> /\ (worker' = "flush" \/ queue = <<>>)
        /\ worker' \in {"closing", "flush"}
        /\ UNCHANGED <<opened, mainAt, inTime, batch, printed, queue>>
    BY <1>0, <1>6 DEF TestEmpty, Goto, EndInv
  <2>2. queue = <<>> => inTime \subseteq ToSet(printed)
    BY <1>0, <2>1 DEF EndInv, ToSet
  <2> QED
    BY <1>0, <2>1, <2>2 DEF EndInv, ToSet
<1>7. CASE Take
  <2>1. /\ worker = "flush" /\ worker' = "batch" /\ batch = <<>> /\ batch' = queue /\ queue' = <<>>
        /\ UNCHANGED <<opened, mainAt, inTime, printed>>
    BY <1>0, <1>7 DEF Take, Goto, Queue!DeliverAll, Queue!Deliver, EndInv
  <2>2. Placed' = Placed
    BY <2>1 DEF ToSet
  <2> QED
    BY <1>0, <2>1, <2>2 DEF EndInv
<1>8. CASE Handle
  <2>1. /\ worker = "batch" /\ batch # <<>> /\ batch' = Tail(batch)
        /\ printed' = IF IsMessage(Head(batch)) THEN Append(printed, Head(batch)) ELSE printed
        /\ UNCHANGED <<opened, mainAt, inTime, worker, queue>>
    BY <1>8 DEF Handle, NextEntry
  <2>2. Head(batch) \in Statement /\ ToSet(batch) = {Head(batch)} \cup ToSet(batch')
    BY <1>0, <2>1, ToSetTail
  <2>3. ToSet(Append(printed, Head(batch))) = ToSet(printed) \cup {Head(batch)}
    BY <1>0, <2>2, ToSetAppend
  <2>4. ToSet(batch)' = ToSet(batch') /\ ToSet(printed)' = ToSet(printed')
        /\ ToSet(queue)' = ToSet(queue)
    BY <2>1 DEF ToSet
  <2>5. \A m \in Placed : IsMessage(m) => m \in Placed'
    BY <2>1, <2>2, <2>3, <2>4
  <2> QED
    BY <1>0, <2>1, <2>5 DEF EndInv
<1> QED
  BY <1>2, <1>3, <1>4, <1>5, <1>6, <1>7, <1>8 DEF Next, Run
-----------------------------------------------------------------------------
\* LogInv is an invariant: it holds at the start and every step keeps it.
THEOREM LogInvariant == Spec => []LogInv
<1>1. LogInv /\ [Next]_vars => LogInv'
  BY TypeStep, StreamsStep, PlacesStep, OrderStep, EndStep DEF LogInv
<1> QED
  BY LogInvInit, <1>1, PTL DEF Spec

\* Every entry holds the pieces of its own statement and all of them: each
\* thread composes its message in a stream of its own (thread_specific_ptr).
THEOREM MessagesAreWhole == Spec => []TypeOK
<1>1. LogInv => TypeOK
  BY DEF LogInv
<1> QED
  BY <1>1, LogInvariant, PTL

\* The queue, its batches and the worker keep the order of the program.
THEOREM MessagesInOrder == Spec => []PrintedInOrder
<1>1. LogInv => PrintedInOrder
  BY DEF LogInv, OrderInv
<1> QED
  BY <1>1, LogInvariant, PTL

\* When the worker answers an entry of flush, what was written before the call
\* is printed.
THEOREM FlushComesAfter == Spec => []FlushCovers
<1>1. LogInv => FlushCovers
  BY DEF LogInv, OrderInv
<1> QED
  BY <1>1, LogInvariant, PTL

\* flushAndQuit returns when what was written before it is printed, whenever
\* the worker saw the closing of the queue.
THEOREM NothingLeftAtQuit == Spec => []QuitPrints
<1>1. LogInv => QuitPrints
  BY DEF LogInv, EndInv, QuitPrints
<1> QED
  BY <1>1, LogInvariant, PTL

-----------------------------------------------------------------------------
(* The refinement: LogWorker implements MessageLog                          *)

Once(q) == \A i \in DOMAIN q, j \in DOMAIN q : q[i] = q[j] => i = j

\* An entry is in one place at a time, once, and what is there was taken.
OnceInv ==
  /\ \A s \in entering \cup Placed : IsMessage(s) => text[s] # <<>>
  /\ entering \cap Placed = {}
  /\ ToSet(queue) \cap ToSet(batch) = {}
  /\ OnItsWay \cap ToSet(printed) = {}
  /\ Once(queue) /\ Once(batch)

\* A sequence that grows by a new element at its end has each element once.
LEMMA OnceAppend ==
  ASSUME NEW S, NEW q \in Seq(S), NEW e \in S, Once(q), e \notin ToSet(q)
  PROVE  Once(Append(q, e))
<1>1. /\ DOMAIN Append(q, e) = DOMAIN q \cup {Len(q) + 1}
      /\ Append(q, e)[Len(q) + 1] = e
      /\ \A i \in DOMAIN q : Append(q, e)[i] = q[i]
  BY ToSetAppend
<1>2. \A i \in DOMAIN q : q[i] # e
  BY DEF ToSet
<1> QED
  BY <1>1, <1>2 DEF Once

\* So has its tail, and the head is not in the tail.
LEMMA OnceTail ==
  ASSUME NEW S, NEW q \in Seq(S), q # <<>>, Once(q)
  PROVE  Once(Tail(q)) /\ Head(q) \notin ToSet(Tail(q))
<1>1. /\ Head(q) = q[1] /\ 1 \in DOMAIN q
      /\ \A i \in DOMAIN Tail(q) : i + 1 \in DOMAIN q /\ Tail(q)[i] = q[i + 1]
  BY ToSetTail
<1>2. \A i \in DOMAIN Tail(q) : i \in Nat \ {0}
  <2>1. Tail(q) \in Seq(S)
    BY ToSetTail
  <2> QED
    BY <2>1
<1>3. Once(Tail(q))
  BY <1>1, <1>2 DEF Once
<1>4. ASSUME NEW i \in DOMAIN Tail(q), Tail(q)[i] = Head(q) PROVE FALSE
  BY <1>1, <1>2, <1>4 DEF Once
<1> QED
  BY <1>3, <1>4 DEF ToSet

\* Nothing moves when the queue, the batch and the output stay as they are.
LEMMA OnceKept ==
  ASSUME OnceInv, UNCHANGED <<text, entering, queue, batch, printed>>
  PROVE  OnceInv'
BY DEF OnceInv, Once, ToSet

\* A statement that is pushed is nowhere yet; then it only moves on.
LEMMA OnceStep ==
  ASSUME LogInv, OnceInv, [Next]_vars
  PROVE  OnceInv'
<1> USE DEF mainVars, callerVars, workerVars, queueVars
<1>0. /\ TypeOK /\ PlacesInv /\ StreamsInv /\ EndInv
      /\ batch \in Seq(Statement) /\ printed \in Seq(Statement) /\ queue \in Seq(Statement)
      /\ entering \subseteq Statement
  BY DEF LogInv, TypeOK, PlacesInv
<1>1. ASSUME NEW s \in Statement, Write(s) \/ Flush(s) PROVE OnceInv'
  <2>1. /\ s \notin offered
        /\ UNCHANGED <<queue, batch, printed>>
        /\ \/ UNCHANGED <<entering, text>>
           \/ /\ entering' = entering \cup {s}
              /\ IsMessage(s) => text' = [text EXCEPT ![s] = stream[ThreadOf[s]]]
                                 /\ Len(stream[ThreadOf[s]]) >= Pieces
              /\ ~IsMessage(s) => UNCHANGED text
    BY <1>1 DEF Write, Flush, Push, Queue!Accept, Queue!Refuse
  <2>2. s \notin entering \cup Placed
    BY <1>0, <2>1 DEF PlacesInv
  <2>3. CASE UNCHANGED <<entering, text>>
    BY <2>1, <2>3, OnceKept
  <2>4. CASE /\ entering' = entering \cup {s}
             /\ IsMessage(s) => text' = [text EXCEPT ![s] = stream[ThreadOf[s]]]
                                /\ Len(stream[ThreadOf[s]]) >= Pieces
             /\ ~IsMessage(s) => UNCHANGED text
    <3>1. Placed' = Placed /\ (Placed \subseteq Statement)
      BY <1>0, <2>1 DEF ToSet
    <3>2. \A u \in Statement : u # s => text'[u] = text[u]
      BY <1>0, <2>4 DEF TypeOK
    <3>3. IsMessage(s) => text'[s] # <<>>
      <4>1. IsMessage(s) => text'[s] = stream[ThreadOf[s]]
        BY <1>0, <2>4 DEF TypeOK
      <4>2. IsMessage(s) => stream[ThreadOf[s]] # <<>>
        BY <2>4, StatementAssumption
      <4> QED
        BY <4>1, <4>2
    <3>4. \A u \in entering' \cup Placed' : IsMessage(u) => text'[u] # <<>>
      BY <1>0, <2>4, <3>1, <3>2, <3>3 DEF OnceInv
    <3>5. entering' \cap Placed' = {}
      BY <2>2, <2>4, <3>1 DEF OnceInv
    <3>6. (/\ ToSet(queue) \cap ToSet(batch) = {}
           /\ OnItsWay \cap ToSet(printed) = {}
           /\ Once(queue) /\ Once(batch))'
      BY <2>1 DEF OnceInv, ToSet, Once
    <3> QED
      BY <3>4, <3>5, <3>6 DEF OnceInv
  <2> QED
    BY <2>1, <2>3, <2>4
<1>2. ASSUME NEW s \in Statement, Enter(s) PROVE OnceInv'
  <2>1. /\ s \in entering /\ entering' = entering \ {s} /\ queue' = Append(queue, s)
        /\ UNCHANGED <<text, batch, printed>>
    BY <1>2 DEF Enter, Queue!Enter
  <2>2. ToSet(queue') = ToSet(queue) \cup {s}
    BY <1>0, <2>1, ToSetAppend
  <2>3. ToSet(batch)' = ToSet(batch) /\ ToSet(printed)' = ToSet(printed)
        /\ ToSet(queue)' = ToSet(queue')
    BY <2>1 DEF ToSet
  <2>4. Once(queue') /\ s \notin Placed
    BY <1>0, <2>1, OnceAppend DEF OnceInv
  <2>5. Once(queue)' /\ Once(batch)'
    BY <2>1, <2>4 DEF OnceInv, Once
  <2> QED
    BY <2>1, <2>2, <2>3, <2>4, <2>5 DEF OnceInv
<1>3. CASE Take
  <2>1. /\ batch = <<>> /\ batch' = queue /\ queue' = <<>>
        /\ UNCHANGED <<text, entering, printed>>
    BY <1>0, <1>3 DEF Take, Queue!DeliverAll, Queue!Deliver, EndInv
  <2>2. ToSet(batch) = {} /\ ToSet(queue)' = {} /\ ToSet(batch)' = ToSet(queue)
        /\ ToSet(printed)' = ToSet(printed)
    BY <2>1 DEF ToSet
  <2>3. Once(queue)' /\ Once(batch)'
    BY <2>1 DEF OnceInv, Once
  <2> QED
    BY <2>1, <2>2, <2>3 DEF OnceInv
<1>4. CASE Handle
  <2> DEFINE e == Head(batch)
  <2>1. /\ batch # <<>> /\ batch' = Tail(batch)
        /\ printed' = IF IsMessage(e) THEN Append(printed, e) ELSE printed
        /\ UNCHANGED <<text, entering, queue>>
    BY <1>4 DEF Handle, NextEntry
  <2>2. e \in Statement /\ ToSet(batch) = {e} \cup ToSet(batch')
    BY <1>0, <2>1, ToSetTail
  <2>3. Once(batch') /\ e \notin ToSet(batch')
    BY <1>0, <2>1, OnceTail DEF OnceInv
  <2> HIDE DEF e
  <2>4. ToSet(Append(printed, e)) = ToSet(printed) \cup {e}
    BY <1>0, <2>2, ToSetAppend
  <2>5. /\ ToSet(printed') = IF IsMessage(e) THEN ToSet(printed) \cup {e} ELSE ToSet(printed)
        /\ ToSet(batch)' = ToSet(batch') /\ ToSet(printed)' = ToSet(printed')
        /\ ToSet(queue)' = ToSet(queue)
    BY <2>1, <2>4 DEF ToSet
  <2>6. Once(queue)' /\ Once(batch)'
    BY <2>1, <2>3 DEF OnceInv, Once
  <2> QED
    BY <2>1, <2>2, <2>3, <2>5, <2>6 DEF OnceInv
<1>5. ASSUME NEW s \in Statement,
             \/ Begin(s) \/ AppendMessage(s) \/ ClearStream(s)
             \/ ReturnWithoutWaiting(s) \/ WaitOnNothing(s)
      PROVE  OnceInv'
  <2>1. UNCHANGED <<text, entering, queue, batch, printed>>
    BY <1>5 DEF Begin, AppendMessage, ClearStream, ReturnWithoutWaiting, WaitOnNothing
  <2> QED
    BY <2>1, OnceKept
<1>6. ASSUME StartWorker \/ SetInitialized \/ Quit \/ Join PROVE OnceInv'
  <2>1. UNCHANGED <<text, entering, queue, batch, printed>>
    BY <1>6 DEF StartWorker, SetInitialized, Quit, Join, Queue!Close
  <2> QED
    BY <2>1, OnceKept
<1>7. ASSUME Open \/ TestOpened \/ TestEmpty \/ EndBatch \/ End \/ TakeNothing \/ UNCHANGED vars
      PROVE  OnceInv'
  <2>1. UNCHANGED <<text, entering, queue, batch, printed>>
    BY <1>7 DEF Open, TestOpened, TestEmpty, EndBatch, End, TakeNothing, Queue!TellClosed, vars
  <2> QED
    BY <2>1, OnceKept
<1> QED
  BY <1>1, <1>2, <1>3, <1>4, <1>5, <1>6, <1>7 DEF Next, Use, Run

\* Write is the step of the log that takes a message, unless push refuses it,
\* Handle the one that prints it, unless its entry is one of flush.
LEMMA LogStep ==
  ASSUME LogInv, OnceInv, [Next]_vars
  PROVE  [MessageLog!Next]_(MessageLog!vars)
<1> USE DEF mainVars, callerVars, workerVars, queueVars
<1> DEFINE accepted == {s \in Statement : text[s] # <<>>}
           ended == worker = "ended"
<1>0. /\ TypeOK /\ PlacesInv /\ EndInv
      /\ batch \in Seq(Statement) /\ printed \in Seq(Statement)
  BY DEF LogInv, TypeOK
<1>1. ASSUME UNCHANGED <<text, printed>>, ended' = ended
      PROVE  UNCHANGED MessageLog!vars
  BY <1>1 DEF MessageLog!vars
<1>2. ASSUME NEW s \in Statement, Write(s)
      PROVE  MessageLog!Accept(s) \/ UNCHANGED MessageLog!vars
  <2>1. CASE ~opened
    BY <1>1, <1>2, <2>1 DEF Write
  <2>2. CASE opened
    <3>1. /\ text' = [text EXCEPT ![s] = stream[ThreadOf[s]]]
          /\ Len(stream[ThreadOf[s]]) >= Pieces
          /\ s \notin offered /\ UNCHANGED <<worker, printed>>
      BY <1>2, <2>2 DEF Write, Push, Queue!Accept, Queue!Refuse
    <3>2. text[s] = <<>>
      BY <1>0, <3>1 DEF PlacesInv
    <3>3. stream[ThreadOf[s]] # <<>>
      BY <3>1, StatementAssumption
    <3>4. text'[s] # <<>> /\ \A u \in Statement : u # s => text'[u] = text[u]
      BY <1>0, <3>1, <3>3 DEF TypeOK
    <3>5. accepted' = accepted \cup {s} /\ s \notin accepted
      BY <3>2, <3>4
    <3>6. ~ended /\ ended' = ended
      BY <1>0, <2>2, <3>1 DEF EndInv
    <3> QED
      BY <3>1, <3>5, <3>6 DEF MessageLog!Accept
  <2> QED
    BY <2>1, <2>2
<1>3. ASSUME Handle
      PROVE  \/ IsMessage(NextEntry) /\ NextEntry \in Statement /\ MessageLog!Output(NextEntry)
             \/ UNCHANGED MessageLog!vars
  <2> DEFINE e == Head(batch)
  <2>1. /\ worker = "batch" /\ batch # <<>>
        /\ printed' = IF IsMessage(e) THEN Append(printed, e) ELSE printed
        /\ UNCHANGED <<text, worker>>
    BY <1>3 DEF Handle, NextEntry
  <2>2. e \in Statement /\ e \in ToSet(batch)
    BY <1>0, <2>1, ToSetTail
  <2>3. e \notin ToSet(printed) /\ (IsMessage(e) => text[e] # <<>>)
    BY <2>2 DEF OnceInv
  <2>4. CASE ~IsMessage(e)
    BY <1>1, <2>1, <2>4
  <2>5. CASE IsMessage(e)
    <3>1. ~MessageLog!IsPrinted(e)
      BY <2>3 DEF MessageLog!IsPrinted, ToSet
    <3>2. MessageLog!Output(e)
      BY <2>1, <2>2, <2>3, <2>5, <3>1 DEF MessageLog!Output
    <3> QED
      BY <2>2, <2>5, <3>2 DEF NextEntry
  <2> QED
    BY <2>4, <2>5
<1>4. ASSUME End PROVE MessageLog!End
  BY <1>4 DEF End, Goto, MessageLog!End
<1>5. ASSUME NEW s \in Statement,
             \/ Begin(s) \/ AppendMessage(s) \/ Flush(s) \/ Enter(s) \/ ClearStream(s)
             \/ ReturnWithoutWaiting(s) \/ WaitOnNothing(s)
      PROVE  UNCHANGED MessageLog!vars
  BY <1>1, <1>5
  DEF Begin, AppendMessage, Flush, Enter, ClearStream, ReturnWithoutWaiting, WaitOnNothing
<1>6. ASSUME SetInitialized \/ Quit \/ Join \/ EndBatch \/ UNCHANGED vars
      PROVE  UNCHANGED MessageLog!vars
  <2>1. UNCHANGED <<text, printed>> /\ (UNCHANGED worker \/ (worker = "batch" /\ worker' = "top"))
    BY <1>6 DEF SetInitialized, Quit, Join, EndBatch, Goto, vars
  <2> QED
    BY <1>1, <2>1
<1>7. ASSUME StartWorker \/ Open \/ TestOpened \/ TestEmpty \/ Take \/ TakeNothing
      PROVE  UNCHANGED MessageLog!vars
  <2>1. UNCHANGED <<text, printed>> /\ worker # "ended" /\ worker' # "ended"
    BY <1>7 DEF StartWorker, Open, TestOpened, TestEmpty, Take, TakeNothing, Goto
  <2> QED
    BY <1>1, <2>1
<1> DEFINE Step == MessageLog!Next \/ UNCHANGED MessageLog!vars
<1>8. ASSUME NEW s \in Statement, Use(s) PROVE Step
  <2>1. ASSUME Write(s) PROVE Step
    <3>1. IsMessage(s)
      BY <2>1 DEF Write
    <3> QED
      BY <1>2, <2>1, <3>1 DEF MessageLog!Next
  <2> QED
    BY <1>5, <1>8, <2>1 DEF Use
<1>9. ASSUME Run PROVE Step
  <2>1. ASSUME Handle PROVE Step
    BY <1>3, <2>1 DEF MessageLog!Next
  <2>2. ASSUME End PROVE Step
    BY <1>4, <2>2 DEF MessageLog!Next
  <2> QED
    BY <1>6, <1>7, <1>9, <2>1, <2>2 DEF Run
<1>10. ASSUME StartWorker \/ SetInitialized \/ Quit \/ Join \/ TakeNothing \/ UNCHANGED vars
       PROVE  Step
  BY <1>6, <1>7, <1>10
<1> QED
  BY <1>8, <1>9, <1>10 DEF Next

\* The log takes a message whole, prints it at most once, and neither takes
\* nor prints one after its end: no entry is doubled in the queue or a batch.
THEOREM LogWorkerImplementsLog == Spec => ImplementsLog
<1>1. Init => OnceInv
  BY DEF Init, Queue!Init, OnceInv, Once, ToSet
<1>2. Init => MessageLog!Init
  BY DEF Init, MessageLog!Init
<1>3. LogInv /\ OnceInv /\ [Next]_vars => OnceInv'
  BY OnceStep
<1>4. LogInv /\ OnceInv /\ [Next]_vars => [MessageLog!Next]_(MessageLog!vars)
  BY LogStep
<1> QED
  BY LogInvariant, <1>1, <1>2, <1>3, <1>4, PTL DEF Spec, ImplementsLog, MessageLog!Spec
=============================================================================

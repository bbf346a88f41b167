----------------------------- MODULE LogWorker -----------------------------
(***************************************************************************)
(* The log (src/core/log.cpp): threads compose messages in streams of their *)
(* own and write them into a queue, one worker thread prints them, and the  *)
(* main thread starts the worker and quits it.  The queue is the abstract   *)
(* one that BlockingQueue implements; the threads that call push and the    *)
(* worker that calls flush are its users.                                   *)
(*                                                                         *)
(* A statement is one use of the log: a message, log::flush() or            *)
(* log::waitFlush().  The message of a statement is put together from       *)
(* pieces, and ended by log::endl.  Times, thread names and the three       *)
(* outputs (console, error console, file) are left out: printing an entry   *)
(* is one action.  SharedBool::wait is only ever reached through an empty   *)
(* pointer, so of that class the model has the value alone.                 *)
(***************************************************************************)
EXTENDS Naturals, Sequences

CONSTANTS
  Statement,     \* uses of the log, each made once
  ThreadOf,      \* the thread that makes each statement
  Kind,          \* "message", "flush" or "waitFlush", for each statement
  Main,          \* the thread that runs main()
  Log,           \* the worker thread
  Pieces         \* number of << before log::endl in a message

Thread == {ThreadOf[s] : s \in Statement} \cup {Main}

ASSUME StatementAssumption ==
  /\ Kind \in [Statement -> {"message", "flush", "waitFlush"}]
  /\ Log \notin Thread
  /\ Pieces \in Nat \ {0}

VARIABLES
  initialized,   \* Worker::initialized
  stream,        \* thread -> pieces of the message it composes
  doing,         \* thread -> the statement it makes, a set of at most one
  finished,      \* statements whose call has returned
  text,          \* statement -> what its entry holds (LogEntry::str)
  isTraited,     \* entries whose SharedBool was set by the worker
  crashed,       \* the process has dereferenced an empty pointer
  mainAt,        \* where Main stands: "start", "running", "joining", "done"
  worker,        \* where Worker::run stands
  batch,         \* the entries of one flush of the queue, not yet handled
  printed,       \* the messages printed, in order
  before,        \* history: messages written when a statement began
  inTime,        \* history: messages written when quit began
  opened, offered, entering, queue, delivered, told    \* the queue

Queue == INSTANCE ClosableQueue WITH Element <- Statement, Consumer <- {Log}

queueVars == <<opened, offered, entering, queue, delivered, told>>
callerVars == <<stream, doing, finished, text, before>>
mainVars == <<initialized, mainAt, inTime>>
workerVars == <<worker, batch, printed, isTraited>>
vars == <<crashed, mainVars, callerVars, workerVars, queueVars>>

Init ==
  /\ initialized = FALSE
  /\ stream = [t \in Thread |-> <<>>]
  /\ doing = [t \in Thread |-> {}]
  /\ finished = {}
  /\ text = [s \in Statement |-> <<>>]
  /\ isTraited = {}
  /\ crashed = FALSE
  /\ mainAt = "start"
  /\ worker = "none"
  /\ batch = <<>>
  /\ printed = <<>>
  /\ before = [s \in Statement |-> {}]
  /\ inTime = {}
  /\ Queue!Init

IsMessage(s) == Kind[s] = "message"

\* Messages whose log::endl has returned after handing them to the queue.
Written == {s \in finished : IsMessage(s) /\ text[s] # <<>>}
-----------------------------------------------------------------------------
(* The threads that log                                                     *)

\* A thread that is running makes its next statement.  Only Main runs before
\* the log is initialized, and it makes none while it quits.
Begin(s) ==
  LET t == ThreadOf[s] IN
  /\ s \notin finished
  /\ doing[t] = {}
  /\ IF t = Main THEN mainAt \in {"start", "running"} ELSE mainAt # "start"
  /\ doing' = [doing EXCEPT ![t] = {s}]
  /\ before' = [before EXCEPT ![s] = Written]
  /\ UNCHANGED <<crashed, mainVars, stream, finished, text, workerVars, queueVars>>

Return(s) ==
  /\ doing' = [doing EXCEPT ![ThreadOf[s]] = {}]
  /\ finished' = finished \cup {s}

\* Mutant: one stream for all threads, as without thread_specific_ptr.
AppendedShared(t, piece) == [u \in Thread |-> Append(stream[u], piece)]

\* getThreadInfo()->logstreams: each thread appends to a stream of its own.
Appended(t, piece) == [stream EXCEPT ![t] = Append(@, piece)]

\* Stream::appendMessage; without a log, the message goes to std::cerr.
AppendMessage(s) ==
  LET t == ThreadOf[s] IN
  /\ s \in doing[t] /\ IsMessage(s)
  /\ Len(stream[t]) < Pieces
  /\ IF initialized
       THEN stream' = Appended(t, s) /\ UNCHANGED <<doing, finished>>
       ELSE Return(s) /\ UNCHANGED stream
  /\ UNCHANGED <<crashed, mainVars, text, before, workerVars, queueVars>>

\* push: what a closed queue refuses is gone.
Push(s) == Queue!Accept(s) \/ Queue!Refuse(s)

\* log::endl: the text becomes an entry, and Worker::write pushes it.
Write(s) ==
  LET t == ThreadOf[s] IN
  /\ s \in doing[t] /\ IsMessage(s)
  /\ Len(stream[t]) >= Pieces
  /\ Push(s)
  /\ text' = IF opened THEN [text EXCEPT ![s] = stream[t]] ELSE text
  /\ UNCHANGED <<crashed, mainVars, stream, doing, finished, before, workerVars>>

\* Worker::flush pushes an entry of level LOGLVL_FLUSH.
Flush(s) ==
  /\ s \in doing[ThreadOf[s]] /\ ~IsMessage(s)
  /\ Push(s)
  /\ UNCHANGED <<crashed, mainVars, callerVars, workerVars>>

\* The critical section of push.
Enter(s) ==
  /\ Queue!Enter(s)
  /\ UNCHANGED <<crashed, mainVars, callerVars, workerVars>>

Pushed(s) == s \in doing[ThreadOf[s]] /\ s \in offered \ entering

\* After write, the stream is emptied for the next message of the thread.
ClearStream(s) ==
  /\ Pushed(s) /\ IsMessage(s)
  /\ stream' = [stream EXCEPT ![ThreadOf[s]] = <<>>]
  /\ Return(s)
  /\ UNCHANGED <<crashed, mainVars, text, before, workerVars, queueVars>>

\* The test on isTraited is the wrong way round: waitFlush does not wait ...
ReturnWithoutWaiting(s) ==
  /\ Pushed(s) /\ Kind[s] = "waitFlush"
  /\ Return(s)
  /\ UNCHANGED <<crashed, mainVars, stream, text, before, workerVars, queueVars>>

\* ... and flush, which has no SharedBool, waits on an empty pointer.
WaitOnNothing(s) ==
  /\ Pushed(s) /\ Kind[s] = "flush"
  /\ crashed' = TRUE
  /\ UNCHANGED <<mainVars, callerVars, workerVars, queueVars>>

Use(s) ==
  \/ Begin(s) \/ AppendMessage(s) \/ Write(s) \/ Flush(s) \/ Enter(s)
  \/ ClearStream(s) \/ ReturnWithoutWaiting(s) \/ WaitOnNothing(s)
-----------------------------------------------------------------------------
(* Main: Worker::init and Worker::quit                                      *)

StartWorker ==
  /\ mainAt = "start" /\ worker = "none"
  /\ doing[Main] = {}
  /\ worker' = "opening"
  /\ UNCHANGED <<crashed, mainVars, callerVars, batch, printed, isTraited, queueVars>>

\* initialized is set when the worker may already be running.
SetInitialized ==
  /\ mainAt = "start" /\ worker # "none"
  /\ doing[Main] = {}
  /\ initialized' = TRUE
  /\ mainAt' = "running"
  /\ UNCHANGED <<crashed, inTime, callerVars, workerVars, queueVars>>

Quit ==
  /\ mainAt = "running" /\ doing[Main] = {}
  /\ Queue!Close
  /\ inTime' = Written
  /\ mainAt' = "joining"
  /\ UNCHANGED <<crashed, initialized, callerVars, workerVars>>

Join ==
  /\ mainAt = "joining" /\ worker = "ended"
  /\ mainAt' = "done"
  /\ UNCHANGED <<crashed, initialized, inTime, callerVars, workerVars, queueVars>>
-----------------------------------------------------------------------------
(* The worker: Worker::run                                                  *)

Goto(where) == worker' = where

\* "Opening log" is printed.
Open ==
  /\ worker = "opening"
  /\ Goto("top")
  /\ UNCHANGED <<crashed, mainVars, callerVars, batch, printed, isTraited, queueVars>>

\* Mutant: the loop ends when the queue is closed, whatever is left in it.
TestOpenedAlone ==
  /\ worker = "top"
  /\ Goto(IF opened THEN "flush" ELSE "closing")
  /\ UNCHANGED <<crashed, mainVars, callerVars, batch, printed, isTraited, queueVars>>

\* while (entries.isOpened() || !entries.empty()): two accesses.
TestOpened ==
  /\ worker = "top"
  /\ Goto(IF opened THEN "flush" ELSE "testEmpty")
  /\ UNCHANGED <<crashed, mainVars, callerVars, batch, printed, isTraited, queueVars>>

TestEmpty ==
  /\ worker = "testEmpty"
  /\ Goto(IF queue = <<>> THEN "closing" ELSE "flush")
  /\ UNCHANGED <<crashed, mainVars, callerVars, batch, printed, isTraited, queueVars>>

\* entries.flush() gives everything there is.
Take ==
  /\ worker = "flush"
  /\ Queue!DeliverAll(Log)
  /\ batch' = queue
  /\ Goto("batch")
  /\ UNCHANGED <<crashed, mainVars, callerVars, printed, isTraited>>

\* entries.flush() gives NULL: the loop goes round.
TakeNothing ==
  /\ worker = "flush"
  /\ Queue!TellClosed(Log)
  /\ Goto("top")
  /\ UNCHANGED <<crashed, mainVars, callerVars, batch, printed, isTraited>>

\* Mutant: the newest entry of the batch is handled in place of the next one.
NextEntryNewest == batch[Len(batch)]

NextEntry == Head(batch)

\* One entry: a message is printed, an entry of flush flushes the outputs;
\* then the SharedBool is set, where there is one.
Handle ==
  /\ worker = "batch" /\ batch # <<>>
  /\ batch' = Tail(batch)
  /\ printed' = IF IsMessage(NextEntry) THEN Append(printed, NextEntry) ELSE printed
  /\ isTraited' = IF Kind[NextEntry] = "waitFlush" THEN isTraited \cup {NextEntry}
                  ELSE isTraited
  /\ UNCHANGED <<crashed, mainVars, callerVars, worker, queueVars>>

\* Mutant: after its first entry, the batch is dropped.
EndBatchEarly ==
  /\ worker = "batch"
  /\ batch' = <<>>
  /\ Goto("top")
  /\ UNCHANGED <<crashed, mainVars, callerVars, printed, isTraited, queueVars>>

EndBatch ==
  /\ worker = "batch" /\ batch = <<>>
  /\ Goto("top")
  /\ UNCHANGED <<crashed, mainVars, callerVars, batch, printed, isTraited, queueVars>>

\* "Closing log" is printed and the thread ends.
End ==
  /\ worker = "closing"
  /\ Goto("ended")
  /\ UNCHANGED <<crashed, mainVars, callerVars, batch, printed, isTraited, queueVars>>

Run ==
  \/ Open \/ TestOpened \/ TestEmpty \/ Take \/ Handle \/ EndBatch \/ End
-----------------------------------------------------------------------------
Next ==
  /\ ~crashed
  /\ \/ \E s \in Statement : Use(s)
     \/ StartWorker \/ SetInitialized \/ Quit \/ Join
     \/ Run \/ TakeNothing

Spec == Init /\ [][Next]_vars

\* The worker runs, and a call of push ends.  That the worker is told of the
\* closing is not assumed: close may come between the test and the wait of
\* the queue (see CloseWakes in BlockingQueue), but what is in the queue is
\* taken (EverythingTaken).
FairSpec ==
  /\ Spec
  /\ WF_vars(~crashed /\ Run)
  /\ \A s \in Statement : WF_vars(~crashed /\ Enter(s))
-----------------------------------------------------------------------------
ToSet(sequence) == {sequence[i] : i \in DOMAIN sequence}

\* Typing, and whole messages: whatever the interleaving, an entry holds the
\* pieces of its own statement.
TypeOK ==
  /\ initialized \in BOOLEAN /\ crashed \in BOOLEAN
  /\ stream \in [Thread -> Seq(Statement)]
  /\ doing \in [Thread -> SUBSET Statement]
  /\ finished \subseteq Statement
  /\ text \in [Statement -> Seq(Statement)]
  /\ isTraited \subseteq Statement
  /\ mainAt \in {"start", "running", "joining", "done"}
  /\ worker \in {"none", "opening", "top", "testEmpty", "flush", "batch",
                 "closing", "ended"}
  /\ batch \in Seq(Statement) /\ printed \in Seq(Statement)
  /\ before \in [Statement -> SUBSET Statement] /\ inTime \subseteq Statement
  /\ \A s \in Statement : text[s] \in {<<>>, [i \in 1 .. Pieces |-> s]}

\* Messages are printed in the order of the program: when one was written
\* before another was begun, by the same thread or not, it is printed first.
PrintedInOrder ==
  \A i \in DOMAIN printed :
    before[printed[i]] \subseteq {printed[j] : j \in 1 .. i - 1}

\* What waitFlush would wait for: once its entry is handled, every message
\* written before the call is printed.
FlushCovers ==
  \A f \in isTraited : before[f] \subseteq ToSet(printed)

\* log::flushAndQuit, "Quit the logger nicely": main() does not go on before
\* every message written before the call is printed.
QuitPrints == mainAt = "done" => inTime \subseteq ToSet(printed)

\* A message that push accepted is printed in the end, also one that enters
\* the queue after the closing, unless the worker had already found the queue
\* closed and empty, or the process crashes in log::flush.
EventuallyPrinted ==
  \A s \in Statement :
    s \in entering /\ IsMessage(s)
      ~> s \in ToSet(printed) \/ crashed \/ worker \in {"closing", "ended"}

\* The log seen from the threads that use it: what it has taken are the texts
\* of the entries that push accepted.
MessageLog ==
  INSTANCE MessageLog WITH
    Message <- {s \in Statement : IsMessage(s)},
    accepted <- {s \in Statement : text[s] # <<>>},
    ended <- worker = "ended"

\* An entry that goes through the queue and the batches of the worker is
\* printed at most once, only what a log::endl handed over is printed, and the
\* log neither takes nor prints a message once its worker has ended.
ImplementsLog == MessageLog!Spec
=============================================================================

---------------------------- MODULE BlockingQueue ----------------------------
(***************************************************************************)
(* BlockingQueue<T> (src/core/blocking-queue-detail.h): a deque, a mutex,   *)
(* a condition variable and a flag, shared by the threads that push, those  *)
(* that pop or flush and the one that closes.  A step of the model is what  *)
(* no other thread can cut in two: an access to the flag, which no lock     *)
(* protects, a critical section that makes no other shared access, a call   *)
(* on the condition variable.  The consumers are the two loops around pop   *)
(* and flush, which end: Wifi2Tun tests isRunning before each call, Log     *)
(* whether the queue is open or holds something.                            *)
(*                                                                         *)
(* tryPush, tryPop, tryFlush and the timed pop and flush are templates that *)
(* nothing instantiates; size and empty change no state.                    *)
(***************************************************************************)
EXTENDS Naturals, Sequences, FiniteSets

CONSTANTS
  Producer,   \* threads that call push (WifiRecv; every thread that logs)
  Popper,     \* threads that loop on pop (Wifi2Tun)
  Flusher,    \* threads that loop on flush (Log)
  Closer,     \* the threads that stop the loops and call close, once (Main)
  Element,    \* what is pushed, each element once
  Nobody      \* no element, no owner of the mutex

Consumer == Popper \cup Flusher
Thread == Producer \cup Consumer \cup Closer

ASSUME ThreadAssumption ==
  /\ Popper \cap Flusher = {}
  /\ Producer \cap Consumer = {}
  /\ Closer \cap (Producer \cup Consumer) = {}
  /\ Nobody \notin Thread \cup Element
ASSUME FiniteAssumption == IsFiniteSet(Producer) /\ IsFiniteSet(Consumer)

VARIABLES
  isRunning,   \* IpOverMesh::isRunning, which the loops on pop test
  opened,      \* BlockingQueue::opened, read and written without the mutex
  mut,         \* owner of BlockingQueue::mut, or Nobody
  fifo,        \* BlockingQueue::fifo
  waitSet,     \* threads blocked in cond.wait
  pc,          \* where each thread stands in its call, "idle" between calls,
               \* "ended" after its loop
  hand,        \* the element each producer is pushing, or Nobody
  offered,     \* elements push was called with
  delivered,   \* history: the elements returned to each consumer
  told         \* history: the consumers that were returned NULL

vars == <<isRunning, opened, mut, fifo, waitSet, pc, hand, offered, delivered, told>>

Init ==
  /\ isRunning = TRUE
  /\ opened = TRUE
  /\ mut = Nobody
  /\ fifo = <<>>
  /\ waitSet = {}
  /\ pc = [t \in Thread |-> "idle"]
  /\ hand = [p \in Producer |-> Nobody]
  /\ offered = {}
  /\ delivered = [c \in Consumer |-> <<>>]
  /\ told = {}

Goto(t, where) == pc' = [pc EXCEPT ![t] = where]
-----------------------------------------------------------------------------
(* push                                                                     *)

\* The flag is read before the mutex is taken.
PushTest(p, e) ==
  /\ pc[p] = "idle"
  /\ e \notin offered
  /\ offered' = offered \cup {e}
  /\ \/ /\ opened
        /\ hand' = [hand EXCEPT ![p] = e]
        /\ Goto(p, "lock")
     \/ /\ ~opened
        /\ UNCHANGED <<hand, pc>>
  /\ UNCHANGED <<isRunning, opened, mut, fifo, waitSet, delivered, told>>

\* The critical section of push: it does not look at the flag again.
PushBack(p) ==
  /\ pc[p] = "lock"
  /\ mut = Nobody
  /\ fifo' = Append(fifo, hand[p])
  /\ hand' = [hand EXCEPT ![p] = Nobody]
  /\ Goto(p, "notify")
  /\ UNCHANGED <<isRunning, opened, mut, waitSet, offered, delivered, told>>

\* Mutant: nobody is woken if other elements were already there.
NotifyOneIfFirst(p) ==
  /\ pc[p] = "notify"
  /\ IF Len(fifo) > 1 THEN UNCHANGED waitSet
     ELSE \/ waitSet = {} /\ UNCHANGED waitSet
          \/ \E c \in waitSet : waitSet' = waitSet \ {c}
  /\ Goto(p, "idle")
  /\ UNCHANGED <<isRunning, opened, mut, fifo, hand, offered, delivered, told>>

\* notify_one, after the mutex has been released.
NotifyOne(p) ==
  /\ pc[p] = "notify"
  /\ \/ waitSet = {} /\ UNCHANGED waitSet
     \/ \E c \in waitSet : waitSet' = waitSet \ {c}
  /\ Goto(p, "idle")
  /\ UNCHANGED <<isRunning, opened, mut, fifo, hand, offered, delivered, told>>
-----------------------------------------------------------------------------
(* pop and flush: the same loop around cond.wait, then one element or all.  *)

\* Mutant: Log does not look at what is left in a closed queue.
CallWhileOpen(c) ==
  /\ pc[c] = "idle"
  /\ Goto(c, IF opened THEN "call" ELSE "ended")
  /\ UNCHANGED <<isRunning, opened, mut, fifo, waitSet, hand, offered, delivered, told>>

\* The test of the two loops.  isOpened takes no mutex and empty does, but what
\* is closed stays closed, so that the two are one step at the time of empty.
CallAgain(c) ==
  /\ pc[c] = "idle"
  /\ \/ c \in Popper /\ Goto(c, IF isRunning THEN "call" ELSE "ended")
     \/ c \in Flusher /\ opened /\ Goto(c, "call")
     \/ /\ c \in Flusher /\ ~opened /\ mut = Nobody
        /\ Goto(c, IF fifo = <<>> THEN "ended" ELSE "call")
  /\ UNCHANGED <<isRunning, opened, mut, fifo, waitSet, hand, offered, delivered, told>>

\* Tundev::writePacket throws at what pop has returned: Wifi2Tun ends.
WriteThrows(c) ==
  /\ c \in Popper
  /\ pc[c] = "idle" /\ isRunning /\ delivered[c] # <<>>
  /\ Goto(c, "ended")
  /\ UNCHANGED <<isRunning, opened, mut, fifo, waitSet, hand, offered, delivered, told>>

\* The mutex is taken at the start of a call and at the return of cond.wait.
Lock(c) ==
  /\ pc[c] \in {"call", "wait"}
  /\ c \notin waitSet
  /\ mut = Nobody
  /\ mut' = c
  /\ Goto(c, "test")
  /\ UNCHANGED <<isRunning, opened, fifo, waitSet, hand, offered, delivered, told>>

\* Open and empty: the thread is about to wait, still with the mutex.
FindNothing(c) ==
  /\ pc[c] = "test"
  /\ opened
  /\ fifo = <<>>
  /\ Goto(c, "sleep")
  /\ UNCHANGED <<isRunning, opened, mut, fifo, waitSet, hand, offered, delivered, told>>

\* cond.wait releases the mutex and blocks in one step.
Sleep(c) ==
  /\ pc[c] = "sleep"
  /\ mut' = Nobody
  /\ waitSet' = waitSet \cup {c}
  /\ Goto(c, "wait")
  /\ UNCHANGED <<isRunning, opened, fifo, hand, offered, delivered, told>>

\* cond.wait may return although nobody has notified.
WakeSpuriously(c) ==
  /\ c \in waitSet
  /\ waitSet' = waitSet \ {c}
  /\ UNCHANGED <<isRunning, opened, mut, fifo, pc, hand, offered, delivered, told>>

Return(c, given) ==
  /\ mut' = Nobody
  /\ delivered' = [delivered EXCEPT ![c] = @ \o given]
  /\ Goto(c, "idle")
  /\ UNCHANGED <<isRunning, opened, waitSet, hand, offered>>

\* A closed queue is emptied before NULL is returned.
PopFront(c) ==
  /\ c \in Popper
  /\ pc[c] = "test"
  /\ fifo # <<>>
  /\ fifo' = Tail(fifo)
  /\ Return(c, <<Head(fifo)>>)
  /\ UNCHANGED told

FlushAll(c) ==
  /\ c \in Flusher
  /\ pc[c] = "test"
  /\ fifo # <<>>
  /\ fifo' = <<>>
  /\ Return(c, fifo)
  /\ UNCHANGED told

\* Mutant: the flag alone decides, whatever is left in the queue.
ReturnNullEarly(c) ==
  /\ pc[c] = "test"
  /\ ~opened
  /\ told' = told \cup {c}
  /\ Return(c, <<>>)
  /\ UNCHANGED fifo

ReturnNull(c) ==
  /\ pc[c] = "test"
  /\ ~opened
  /\ fifo = <<>>
  /\ told' = told \cup {c}
  /\ Return(c, <<>>)
  /\ UNCHANGED fifo
-----------------------------------------------------------------------------
(* IpOverMesh::stop, then close: two accesses, neither of them under the    *)
(* mutex.                                                                   *)

Stop(k) ==
  /\ pc[k] = "idle"
  /\ isRunning' = FALSE
  /\ Goto(k, "stopped")
  /\ UNCHANGED <<opened, mut, fifo, waitSet, hand, offered, delivered, told>>

CloseFlag(k) ==
  /\ pc[k] = "stopped"
  /\ opened' = FALSE
  /\ Goto(k, "notify")
  /\ UNCHANGED <<isRunning, mut, fifo, waitSet, hand, offered, delivered, told>>

NotifyAll(k) ==
  /\ pc[k] = "notify"
  /\ waitSet' = {}
  /\ Goto(k, "done")
  /\ UNCHANGED <<isRunning, opened, mut, fifo, hand, offered, delivered, told>>
-----------------------------------------------------------------------------
Push(p) == (\E e \in Element : PushTest(p, e)) \/ PushBack(p) \/ NotifyOne(p)

Loop(c) ==
  \/ CallAgain(c) \/ Lock(c) \/ FindNothing(c) \/ Sleep(c)
  \/ PopFront(c) \/ FlushAll(c) \/ ReturnNull(c)

Close(k) == Stop(k) \/ CloseFlag(k) \/ NotifyAll(k)

Next ==
  \/ \E p \in Producer : Push(p)
  \/ \E c \in Consumer : Loop(c) \/ WakeSpuriously(c) \/ WriteThrows(c)
  \/ \E k \in Closer : Close(k)

Spec == Init /\ [][Next]_vars

\* Every call that has begun goes on, a loop goes on until its test ends it, and
\* a thread that asks for the mutex is not overtaken for ever.  Nobody has to
\* start a push, to stop or to close, and no wait has to end by itself.
FairSpec ==
  /\ Spec
  /\ \A p \in Producer : SF_vars(PushBack(p) \/ NotifyOne(p))
  /\ \A c \in Consumer : SF_vars(Loop(c))
  /\ \A k \in Closer : WF_vars(NotifyAll(k))
-----------------------------------------------------------------------------
Places == {"idle", "lock", "notify", "call", "test", "sleep", "wait", "ended",
           "stopped", "done"}

\* Typing, and what the program counters have to do with the mutex and the
\* condition variable: the mutex has one owner, which stands at its test or
\* is about to wait, and only a thread inside cond.wait is blocked.
TypeOK ==
  /\ isRunning \in BOOLEAN
  /\ opened \in BOOLEAN
  /\ mut \in Consumer \cup {Nobody}
  /\ fifo \in Seq(Element)
  /\ waitSet \in SUBSET Consumer
  /\ pc \in [Thread -> Places]
  /\ hand \in [Producer -> Element \cup {Nobody}]
  /\ offered \in SUBSET Element
  /\ delivered \in [Consumer -> Seq(Element)]
  /\ told \in SUBSET Consumer
  /\ \A c \in Consumer : mut = c <=> pc[c] \in {"test", "sleep"}
  /\ \A c \in waitSet : pc[c] = "wait"
  /\ \A p \in Producer : pc[p] = "lock" <=> hand[p] # Nobody

\* Threads that will look at the queue without anybody's help, and producers
\* that are about to wake one up.
Awake == {c \in Consumer : pc[c] = "test" \/ (pc[c] = "wait" /\ c \notin waitSet)}
Notifying == {p \in Producer : pc[p] = "notify"}

\* No wakeup of notify_one is lost: while a consumer is blocked, each element
\* has a consumer of its own that is awake or about to be woken up, although
\* push notifies outside the mutex and other consumers may come in between.
WakeupsCover ==
  waitSet # {} => Len(fifo) <= Cardinality(Awake) + Cardinality(Notifying)

\* The queue of src/core/blocking-queue.h: elements come out once, in order,
\* and NULL means closed and empty at that moment.
Abstract == INSTANCE ClosableQueue WITH
  entering <- {hand[p] : p \in {q \in Producer : pc[q] = "lock"}},
  queue <- fifo

ImplementsQueue == Abstract!Spec

\* What the two need to be inductive: a thread about to wait has seen an empty
\* queue that nobody could fill since, and no two producers push one element.
QueueInv ==
  /\ TypeOK
  /\ \A c \in Consumer : pc[c] = "sleep" => fifo = <<>>
  /\ WakeupsCover
  /\ \A p \in Producer : pc[p] = "lock" => hand[p] \in offered
  /\ \A p, q \in Producer :
       pc[p] = "lock" /\ pc[q] = "lock" /\ hand[p] = hand[q] => p = q

Taken(e) == \E c \in Consumer : \E i \in DOMAIN delivered[c] : delivered[c][i] = e
Queued(e) == \E i \in DOMAIN fifo : fifo[i] = e

\* An element in the queue is taken as long as the loop of Log is still going:
\* also when the queue is closed meanwhile, for that loop ends only when it has
\* found the queue closed and empty.  An element that enters later stays, and so
\* does what is in the queue of Wifi2Tun once isRunning is unset: nothing is
\* said of these.
EverythingTaken ==
  \A e \in Element :
    Queued(e) /\ (\E c \in Flusher : pc[c] # "ended") ~> Taken(e)

\* close "makes all the pending pop() return NULL" (blocking-queue.h), so no
\* consumer sleeps for ever in a closed queue.  Violated: the flag is set and
\* notified without the mutex, between the test and the wait of a consumer.
CloseWakes == \A c \in Consumer : ~opened ~> c \notin waitSet /\ pc[c] # "sleep"
=============================================================================

------------------------- MODULE BlockingQueueProofs -------------------------
(* Proofs about BlockingQueue: no wakeup of push is lost, and the queue is  *)
(* an implementation of ClosableQueue.                                      *)
EXTENDS BlockingQueue, FiniteSetTheorems, TLAPS

USE DEF Thread

\* The sets that WakeupsCover counts are finite.
LEMMA AwakeFinite ==
  /\ IsFiniteSet(Awake) /\ Cardinality(Awake) \in Nat
  /\ IsFiniteSet(Notifying) /\ Cardinality(Notifying) \in Nat
<1>1. Awake \subseteq Consumer /\ Notifying \subseteq Producer
  BY DEF Awake, Notifying
<1> QED
  BY <1>1, FiniteAssumption, FS_Subset, FS_CardinalityType

\* The same after a step.
LEMMA AwakeFiniteNext ==
  /\ IsFiniteSet(Awake') /\ Cardinality(Awake') \in Nat
  /\ IsFiniteSet(Notifying') /\ Cardinality(Notifying') \in Nat
<1>1. Awake' \subseteq Consumer /\ Notifying' \subseteq Producer
  BY DEF Awake, Notifying
<1> QED
  BY <1>1, FiniteAssumption, FS_Subset, FS_CardinalityType

\* Initially nobody waits for anything.
LEMMA QueueInvInit == Init => QueueInv
<1> SUFFICES ASSUME Init PROVE QueueInv
  OBVIOUS
<1>1. TypeOK
  BY ThreadAssumption DEF Init, TypeOK, Consumer, Places
<1>2. WakeupsCover
  BY DEF Init, WakeupsCover
<1> QED
  BY <1>1, <1>2 DEF Init, QueueInv

\* Every step keeps the types and the place of the mutex.
LEMMA TypeStep == TypeOK /\ [Next]_vars => TypeOK'
<1> SUFFICES ASSUME TypeOK, [Next]_vars PROVE TypeOK'
  OBVIOUS
<1> USE ThreadAssumption DEF Places
<1>1. ASSUME NEW p \in Producer, NEW e \in Element, PushTest(p, e) PROVE TypeOK'
  <2>1. CASE ~opened
    BY <1>1, <2>1 DEF TypeOK, PushTest
  <2>2. CASE opened
    <3>1. /\ hand' = [hand EXCEPT ![p] = e] /\ pc' = [pc EXCEPT ![p] = "lock"]
          /\ pc[p] = "idle" /\ offered' = offered \cup {e}
          /\ UNCHANGED <<isRunning, opened, mut, fifo, waitSet, delivered, told>>
      BY <1>1, <2>2 DEF PushTest, Goto
    <3>2. /\ hand' \in [Producer -> Element \cup {Nobody}]
          /\ pc' \in [Thread -> Places]
      BY <3>1 DEF TypeOK
    <3>3. \A c \in Consumer : pc'[c] = pc[c]
      BY <3>1 DEF TypeOK
    <3>4. \A q \in Producer : pc'[q] = "lock" <=> hand'[q] # Nobody
      BY <3>1 DEF TypeOK
    <3> QED
      BY <3>1, <3>2, <3>3, <3>4 DEF TypeOK
  <2> QED
    BY <2>1, <2>2
<1>2. ASSUME NEW p \in Producer, PushBack(p) PROVE TypeOK'
  <2>1. hand[p] \in Element
    BY <1>2 DEF TypeOK, PushBack
  <2> QED
    BY <1>2, <2>1 DEF TypeOK, PushBack, Goto
<1>3. ASSUME NEW p \in Producer, NotifyOne(p) PROVE TypeOK'
  BY <1>3 DEF TypeOK, NotifyOne, Goto
<1>4. ASSUME NEW c \in Consumer, Lock(c) PROVE TypeOK'
  BY <1>4 DEF TypeOK, Lock, Goto
<1>5. ASSUME NEW c \in Consumer, FindNothing(c) PROVE TypeOK'
  BY <1>5 DEF TypeOK, FindNothing, Goto
<1>6. ASSUME NEW c \in Consumer, Sleep(c) PROVE TypeOK'
  BY <1>6 DEF TypeOK, Sleep, Goto
<1>7. ASSUME NEW c \in Consumer, PopFront(c) PROVE TypeOK'
  BY <1>7 DEF TypeOK, PopFront, Return, Goto
<1>8. ASSUME NEW c \in Consumer, FlushAll(c) PROVE TypeOK'
  BY <1>8 DEF TypeOK, FlushAll, Return, Goto
<1>9. ASSUME NEW c \in Consumer, ReturnNull(c) PROVE TypeOK'
  BY <1>9 DEF TypeOK, ReturnNull, Return, Goto
<1>10. ASSUME NEW c \in Consumer, WakeSpuriously(c) PROVE TypeOK'
  BY <1>10 DEF TypeOK, WakeSpuriously
<1>11. ASSUME NEW k \in Closer, CloseFlag(k) PROVE TypeOK'
  BY <1>11 DEF TypeOK, CloseFlag, Goto
<1>12. ASSUME NEW k \in Closer, NotifyAll(k) PROVE TypeOK'
  BY <1>12 DEF TypeOK, NotifyAll, Goto
<1>13. ASSUME NEW c \in Consumer, CallAgain(c) \/ WriteThrows(c) PROVE TypeOK'
  <2>1. /\ pc[c] = "idle" /\ c \in Thread
        /\ \E w \in {"call", "ended"} : pc' = [pc EXCEPT ![c] = w]
        /\ UNCHANGED <<isRunning, opened, mut, fifo, waitSet, hand, offered, delivered, told>>
    BY <1>13 DEF CallAgain, WriteThrows, Goto
  <2> QED
    BY <2>1 DEF TypeOK
<1>14. ASSUME NEW k \in Closer, Stop(k) PROVE TypeOK'
  BY <1>14 DEF TypeOK, Stop, Goto
<1>15. CASE UNCHANGED vars
  BY <1>15 DEF TypeOK, vars
<1> QED
  BY <1>1, <1>2, <1>3, <1>4, <1>5, <1>6, <1>7, <1>8, <1>9, <1>10, <1>11, <1>12,
     <1>13, <1>14, <1>15 DEF Next, Push, Loop, Close

-----------------------------------------------------------------------------
\* The steps that keep the queue and lose nobody who would look at it.
LEMMA CoverKept ==
  ASSUME WakeupsCover, waitSet' \subseteq waitSet, Len(fifo') <= Len(fifo),
         Len(fifo) \in Nat, Len(fifo') \in Nat,
         Awake \subseteq Awake', Notifying \subseteq Notifying'
  PROVE  WakeupsCover'
<1>1. Cardinality(Awake) <= Cardinality(Awake')
  BY AwakeFinite, AwakeFiniteNext, FS_Subset
<1>2. Cardinality(Notifying) <= Cardinality(Notifying')
  BY AwakeFinite, AwakeFiniteNext, FS_Subset
<1> QED
  BY <1>1, <1>2, AwakeFinite, AwakeFiniteNext DEF WakeupsCover

\* Where the mutex is, in the form the steps use.
LEMMA Owner ==
  ASSUME TypeOK, NEW c \in Consumer, pc[c] \in {"test", "sleep"}
  PROVE  mut = c /\ c \notin waitSet /\ \A d \in Consumer \ {c} : pc[d] \notin {"test", "sleep"}
  BY DEF TypeOK

\* A producer appends and owes a notification for it.
LEMMA CoverPush ==
  ASSUME QueueInv, NEW p \in Producer, PushBack(p)
  PROVE  WakeupsCover'
<1>1. TypeOK /\ WakeupsCover /\ p \notin Consumer
  BY ThreadAssumption DEF QueueInv
<1>2. Len(fifo') = Len(fifo) + 1 /\ Len(fifo) \in Nat
  <2>1. hand[p] \in Element
    BY <1>1 DEF TypeOK, PushBack
  <2> QED
    BY <1>1, <2>1 DEF TypeOK, PushBack
<1>3. Awake' = Awake
  BY <1>1 DEF Awake, PushBack, Goto, TypeOK
<1>4. Notifying' = Notifying \cup {p} /\ p \notin Notifying
  BY <1>1 DEF Notifying, PushBack, Goto, TypeOK
<1>5. Cardinality(Notifying') = Cardinality(Notifying) + 1
  BY <1>4, AwakeFinite, FS_AddElement
<1>6. waitSet' = waitSet
  BY DEF PushBack
<1> QED
  BY <1>1, <1>2, <1>3, <1>5, <1>6, AwakeFinite DEF WakeupsCover

\* The notification makes one blocked consumer awake, if there is one.
LEMMA CoverNotify ==
  ASSUME QueueInv, NEW p \in Producer, NotifyOne(p)
  PROVE  WakeupsCover'
<1>1. TypeOK /\ WakeupsCover /\ p \notin Consumer
  BY ThreadAssumption DEF QueueInv
<1>2. Notifying' = Notifying \ {p} /\ p \in Notifying
  BY <1>1 DEF Notifying, NotifyOne, Goto, TypeOK
<1>3. Cardinality(Notifying') = Cardinality(Notifying) - 1
  BY <1>2, AwakeFinite, FS_RemoveElement
<1>4. CASE waitSet = {} /\ UNCHANGED waitSet
  BY <1>4 DEF WakeupsCover
<1>5. ASSUME NEW c \in waitSet, waitSet' = waitSet \ {c} PROVE WakeupsCover'
  <2>1. c \in Consumer /\ pc[c] = "wait" /\ c # p /\ pc'[c] = "wait"
    BY <1>1, <1>5 DEF TypeOK, NotifyOne, Goto
  <2>2. Awake' = Awake \cup {c} /\ c \notin Awake
    BY <1>1, <1>5, <2>1 DEF Awake, NotifyOne, Goto, TypeOK
  <2>3. Cardinality(Awake') = Cardinality(Awake) + 1
    BY <2>2, AwakeFinite, FS_AddElement
  <2>4. fifo' = fifo /\ Len(fifo) \in Nat /\ waitSet # {}
    BY <1>1, <1>5 DEF NotifyOne, TypeOK
  <2> QED
    BY <1>1, <1>3, <2>3, <2>4, AwakeFinite DEF WakeupsCover
<1> QED
  BY <1>4, <1>5 DEF NotifyOne

\* A consumer that takes an element is one awake consumer less.
LEMMA CoverPop ==
  ASSUME QueueInv, NEW c \in Consumer, PopFront(c)
  PROVE  WakeupsCover'
<1>1. TypeOK /\ WakeupsCover /\ c \notin Producer
  BY ThreadAssumption DEF QueueInv
<1>2. Len(fifo') = Len(fifo) - 1 /\ Len(fifo) \in Nat
  BY <1>1 DEF TypeOK, PopFront
<1>3. Awake' = Awake \ {c} /\ c \in Awake
  BY <1>1 DEF Awake, PopFront, Return, Goto, TypeOK
<1>4. Cardinality(Awake') = Cardinality(Awake) - 1
  BY <1>3, AwakeFinite, FS_RemoveElement
<1>5. Notifying' = Notifying /\ waitSet' = waitSet
  BY <1>1 DEF Notifying, PopFront, Return, Goto, TypeOK
<1> QED
  BY <1>1, <1>2, <1>4, <1>5, AwakeFinite DEF WakeupsCover

\* Steps after which the queue is empty.
LEMMA CoverEmpty ==
  ASSUME fifo' = <<>> PROVE WakeupsCover'
<1>1. Len(fifo') = 0
  OBVIOUS
<1> QED
  BY <1>1, AwakeFiniteNext DEF WakeupsCover

\* No step leaves an element of the queue without a consumer to come for it.
LEMMA CoverStep == QueueInv /\ [Next]_vars => WakeupsCover'
<1> SUFFICES ASSUME QueueInv, [Next]_vars PROVE WakeupsCover'
  OBVIOUS
<1>1. TypeOK /\ WakeupsCover /\ Len(fifo) \in Nat
  BY DEF QueueInv, TypeOK
<1> USE ThreadAssumption
<1>2. ASSUME NEW p \in Producer, NEW e \in Element, PushTest(p, e) PROVE WakeupsCover'
  <2>1. Awake \subseteq Awake' /\ Notifying \subseteq Notifying'
    BY <1>1, <1>2 DEF Awake, Notifying, TypeOK, PushTest, Goto
  <2> QED
    BY <1>1, <1>2, <2>1, CoverKept DEF PushTest
<1>3. ASSUME NEW c \in Consumer, Lock(c) PROVE WakeupsCover'
  <2>1. Awake \subseteq Awake' /\ Notifying \subseteq Notifying'
    BY <1>1, <1>3 DEF Awake, Notifying, TypeOK, Lock, Goto
  <2> QED
    BY <1>1, <1>3, <2>1, CoverKept DEF Lock
<1>4. ASSUME NEW c \in Consumer, WakeSpuriously(c) \/ CallAgain(c) \/ WriteThrows(c)
      PROVE  WakeupsCover'
  <2>1. Awake \subseteq Awake' /\ Notifying \subseteq Notifying'
    BY <1>1, <1>4 DEF Awake, Notifying, TypeOK, WakeSpuriously, CallAgain, WriteThrows, Goto
  <2> QED
    BY <1>1, <1>4, <2>1, CoverKept DEF WakeSpuriously, CallAgain, WriteThrows
<1>5. ASSUME NEW c \in Consumer, FindNothing(c) \/ Sleep(c) \/ FlushAll(c) \/ ReturnNull(c)
      PROVE  WakeupsCover'
  <2>1. fifo' = <<>>
    BY <1>5 DEF QueueInv, FindNothing, Sleep, FlushAll, ReturnNull
  <2> QED
    BY <2>1, CoverEmpty
<1>6. ASSUME NEW k \in Closer, Stop(k) \/ CloseFlag(k) PROVE WakeupsCover'
  <2>1. Awake \subseteq Awake' /\ Notifying \subseteq Notifying'
    BY <1>1, <1>6 DEF Awake, Notifying, TypeOK, Stop, CloseFlag, Goto
  <2> QED
    BY <1>1, <1>6, <2>1, CoverKept DEF Stop, CloseFlag
<1>7. ASSUME NEW k \in Closer, NotifyAll(k) PROVE WakeupsCover'
  BY <1>7 DEF NotifyAll, WakeupsCover
<1>8. CASE UNCHANGED vars
  BY <1>1, <1>8 DEF WakeupsCover, Awake, Notifying, vars
<1> QED
  BY <1>2, <1>3, <1>4, <1>5, <1>6, <1>7, <1>8, CoverPush, CoverNotify, CoverPop
     DEF Next, Push, Loop, Close

\* The whole invariant is inductive.
LEMMA QueueInvStep == QueueInv /\ [Next]_vars => QueueInv'
<1> SUFFICES ASSUME QueueInv, [Next]_vars PROVE QueueInv'
  OBVIOUS
<1>1. TypeOK /\ TypeOK'
  BY TypeStep DEF QueueInv
<1> USE ThreadAssumption
<1>2. (\A c \in Consumer : pc[c] = "sleep" => fifo = <<>>)'
  <2>1. ASSUME NEW p \in Producer, PushBack(p), NEW c \in Consumer, pc'[c] = "sleep"
        PROVE  FALSE
    BY <1>1, <2>1 DEF TypeOK, PushBack, Goto
  <2>2. ASSUME NEW p \in Producer, (\E e \in Element : PushTest(p, e)) \/ NotifyOne(p),
               NEW c \in Consumer, pc'[c] = "sleep"
        PROVE  pc[c] = "sleep" /\ fifo' = fifo
    BY <1>1, <2>2 DEF TypeOK, PushTest, NotifyOne, Goto
  <2>3. ASSUME NEW d \in Consumer, Loop(d) \/ WakeSpuriously(d) \/ WriteThrows(d),
               NEW c \in Consumer, pc'[c] = "sleep"
        PROVE  fifo' = <<>>
    BY <1>1, <2>3 DEF QueueInv, TypeOK, Loop, CallAgain, Lock, FindNothing, Sleep,
       PopFront, FlushAll, ReturnNull, Return, WakeSpuriously, WriteThrows, Goto
  <2>4. ASSUME NEW k \in Closer, Close(k), NEW c \in Consumer, pc'[c] = "sleep"
        PROVE  pc[c] = "sleep" /\ fifo' = fifo
    BY <1>1, <2>4 DEF TypeOK, Close, Stop, CloseFlag, NotifyAll, Goto
  <2>5. CASE UNCHANGED vars
    BY <2>5 DEF vars, QueueInv
  <2> QED
    BY <2>1, <2>2, <2>3, <2>4, <2>5 DEF Next, Push, QueueInv
<1>3. /\ (\A p \in Producer : pc[p] = "lock" => hand[p] \in offered)'
      /\ (\A p, q \in Producer :
            pc[p] = "lock" /\ pc[q] = "lock" /\ hand[p] = hand[q] => p = q)'
  <2>1. ASSUME NEW r \in Producer, NEW e \in Element, PushTest(r, e)
        PROVE  /\ \A p \in Producer : pc'[p] = "lock" => hand'[p] \in offered'
               /\ \A p, q \in Producer :
                    pc'[p] = "lock" /\ pc'[q] = "lock" /\ hand'[p] = hand'[q] => p = q
    <3>1. CASE ~opened
      BY <2>1, <3>1 DEF QueueInv, PushTest
    <3>2. CASE opened
      <4>1. /\ hand'[r] = e /\ \A q \in Producer \ {r} : hand'[q] = hand[q] /\ pc'[q] = pc[q]
            /\ offered' = offered \cup {e} /\ e \notin offered
        BY <1>1, <2>1, <3>2 DEF TypeOK, PushTest, Goto
      <4>2. \A q \in Producer : pc[q] = "lock" => hand[q] \in offered
        BY DEF QueueInv
      <4>3. \A p, q \in Producer :
              pc[p] = "lock" /\ pc[q] = "lock" /\ hand[p] = hand[q] => p = q
        BY DEF QueueInv
      <4> QED
        BY <4>1, <4>2, <4>3
    <3> QED
      BY <3>1, <3>2
  <2>2. ASSUME \A p \in Producer : pc'[p] = "lock" => pc[p] = "lock" /\ hand'[p] = hand[p],
               offered' = offered
        PROVE  /\ \A p \in Producer : pc'[p] = "lock" => hand'[p] \in offered'
               /\ \A p, q \in Producer :
                    pc'[p] = "lock" /\ pc'[q] = "lock" /\ hand'[p] = hand'[q] => p = q
    BY <2>2 DEF QueueInv
  <2>3. ASSUME NEW r \in Producer, PushBack(r) \/ NotifyOne(r)
        PROVE  /\ \A p \in Producer : pc'[p] = "lock" => pc[p] = "lock" /\ hand'[p] = hand[p]
               /\ offered' = offered
    BY <1>1, <2>3 DEF TypeOK, PushBack, NotifyOne, Goto
  <2>4. ASSUME NEW d \in Consumer, Loop(d) \/ WakeSpuriously(d) \/ WriteThrows(d)
        PROVE  /\ \A p \in Producer : pc'[p] = "lock" => pc[p] = "lock" /\ hand'[p] = hand[p]
               /\ offered' = offered
    BY <1>1, <2>4 DEF TypeOK, Loop, CallAgain, Lock, FindNothing, Sleep, PopFront,
       FlushAll, ReturnNull, Return, WakeSpuriously, WriteThrows, Goto
  <2>5. ASSUME NEW k \in Closer, Close(k)
        PROVE  /\ \A p \in Producer : pc'[p] = "lock" => pc[p] = "lock" /\ hand'[p] = hand[p]
               /\ offered' = offered
    BY <1>1, <2>5 DEF TypeOK, Close, Stop, CloseFlag, NotifyAll, Goto
  <2>6. CASE UNCHANGED vars
    BY <2>2, <2>6 DEF vars
  <2> QED
    BY <2>1, <2>2, <2>3, <2>4, <2>5, <2>6 DEF Next, Push
<1> QED
  BY <1>1, <1>2, <1>3, CoverStep DEF QueueInv

\* The invariant of the queue: type correctness, the place of the mutex, and
\* no two producers with one element.
THEOREM QueueInvCorrect == Spec => []QueueInv
  BY QueueInvInit, QueueInvStep, PTL DEF Spec

\* The mutex has one owner, which is inside a critical section of pop or flush,
\* and only a thread inside cond.wait is blocked: the critical sections exclude
\* each other for any number of threads.
THEOREM QueueTypeCorrect == Spec => []TypeOK
<1>1. QueueInv => TypeOK
  BY DEF QueueInv
<1> QED
  BY <1>1, QueueInvCorrect, PTL

\* While a consumer is blocked, each element in the queue has a consumer that
\* is awake or about to be woken up, for any number of threads (the notify_one
\* that push calls outside the mutex).
THEOREM NoLostWakeup == Spec => []WakeupsCover
<1>1. QueueInv => WakeupsCover
  BY DEF QueueInv
<1> QED
  BY <1>1, QueueInvCorrect, PTL
-----------------------------------------------------------------------------
\* The elements accepted and not yet queued, as Abstract sees them.
Entering == {hand[p] : p \in {q \in Producer : pc[q] = "lock"}}

\* No step of a consumer, of close or of notify_one touches them.
LEMMA EnteringKept ==
  ASSUME \A p \in Producer : (pc'[p] = "lock" <=> pc[p] = "lock") /\ hand'[p] = hand[p]
  PROVE  Entering' = Entering
  BY DEF Entering

\* Consumers bring no element in.
LEMMA ConsumersKeep ==
  ASSUME TypeOK, NEW c \in Consumer, Loop(c) \/ WakeSpuriously(c) \/ WriteThrows(c)
  PROVE  Entering' = Entering
<1>1. \A p \in Producer : pc'[p] = pc[p] /\ hand'[p] = hand[p]
  BY ThreadAssumption DEF TypeOK, Loop, CallAgain, Lock, FindNothing, Sleep, PopFront,
     FlushAll, ReturnNull, Return, WakeSpuriously, WriteThrows, Goto
<1> QED
  BY <1>1, EnteringKept

\* Neither do the closer and a producer that notifies.
LEMMA OthersKeep ==
  ASSUME TypeOK, \/ \E k \in Closer : Close(k)
                 \/ \E p \in Producer : NotifyOne(p)
                 \/ UNCHANGED vars
  PROVE  Entering' = Entering
<1>1. \A p \in Producer : (pc'[p] = "lock" <=> pc[p] = "lock") /\ hand'[p] = hand[p]
  BY ThreadAssumption DEF TypeOK, Close, Stop, CloseFlag, NotifyAll, NotifyOne, Goto, vars
<1> QED
  BY <1>1, EnteringKept

\* Reading the flag decides whether the element is accepted.
LEMMA PushTestImplements ==
  ASSUME QueueInv, NEW p \in Producer, NEW e \in Element, PushTest(p, e)
  PROVE  Abstract!Accept(e) \/ Abstract!Refuse(e)
<1>1. TypeOK
  BY DEF QueueInv
<1>2. CASE ~opened
  <2>1. Entering' = Entering
    BY <1>2 DEF PushTest, Entering
  <2> QED
    BY <1>2, <2>1 DEF PushTest, Abstract!Refuse, Entering
<1>3. CASE opened
  <2>1. /\ \A q \in Producer \ {p} : pc'[q] = pc[q] /\ hand'[q] = hand[q]
        /\ pc[p] = "idle" /\ pc'[p] = "lock" /\ hand'[p] = e
    BY <1>1, <1>3 DEF TypeOK, PushTest, Goto
  <2>2. Entering' = Entering \cup {e}
    BY <2>1 DEF Entering
  <2> QED
    BY <1>3, <2>2 DEF PushTest, Abstract!Accept, Entering
<1> QED
  BY <1>2, <1>3

\* The critical section of push puts the element at the end of the queue.
LEMMA PushBackImplements ==
  ASSUME QueueInv, NEW p \in Producer, PushBack(p)
  PROVE  \E e \in Element : Abstract!Enter(e)
<1>1. TypeOK
  BY DEF QueueInv
<1>2. PICK e \in Element : e = hand[p]
  BY <1>1 DEF TypeOK, PushBack
<1>3. /\ \A q \in Producer \ {p} : pc'[q] = pc[q] /\ hand'[q] = hand[q]
      /\ pc[p] = "lock" /\ pc'[p] = "notify"
  BY <1>1 DEF TypeOK, PushBack, Goto
<1>4. \A q \in Producer : pc[q] = "lock" /\ hand[q] = hand[p] => q = p
  BY <1>3 DEF QueueInv
<1>5. Entering' = Entering \ {e} /\ e \in Entering
  BY <1>2, <1>3, <1>4 DEF Entering
<1>6. Abstract!Enter(e)
  BY <1>2, <1>5 DEF PushBack, Abstract!Enter, Entering
<1> QED
  BY <1>6

\* A consumer is given the front of the queue, or all of it, or nothing.
LEMMA LoopImplements ==
  ASSUME QueueInv, NEW c \in Consumer, Loop(c) \/ WakeSpuriously(c) \/ WriteThrows(c)
  PROVE  [Abstract!Next]_(Abstract!vars)
<1>1. TypeOK
  BY DEF QueueInv
<1>2. Entering' = Entering
  BY <1>1, ConsumersKeep
<1>3. CASE \/ Lock(c) \/ FindNothing(c) \/ Sleep(c) \/ WakeSpuriously(c)
           \/ CallAgain(c) \/ WriteThrows(c)
  BY <1>2, <1>3 DEF Abstract!vars, Entering, Lock, FindNothing, Sleep, WakeSpuriously,
     CallAgain, WriteThrows
<1>4. CASE PopFront(c)
  <2>1. fifo \in Seq(Element) /\ fifo # <<>>
    BY <1>1, <1>4 DEF TypeOK, PopFront
  <2>2. fifo = <<Head(fifo)>> \o Tail(fifo) /\ <<Head(fifo)>> # <<>>
    BY <2>1
  <2>3. Abstract!DeliverOne(c)
    BY <1>2, <1>4, <2>2
       DEF PopFront, Return, Abstract!DeliverOne, Abstract!Deliver, Entering
  <2> QED
    BY <2>3 DEF Abstract!Next
<1>5. CASE FlushAll(c)
  <2>1. fifo \in Seq(Element) /\ fifo # <<>>
    BY <1>1, <1>5 DEF TypeOK, FlushAll
  <2>2. fifo = fifo \o <<>>
    BY <2>1
  <2>3. Abstract!DeliverAll(c)
    BY <1>2, <1>5, <2>1, <2>2
       DEF FlushAll, Return, Abstract!DeliverAll, Abstract!Deliver, Entering
  <2> QED
    BY <2>3 DEF Abstract!Next
<1>6. CASE ReturnNull(c)
  <2>1. delivered[c] \o <<>> = delivered[c]
    BY <1>1 DEF TypeOK
  <2>2. delivered' = delivered
    BY <1>1, <1>6, <2>1 DEF TypeOK, ReturnNull, Return
  <2>3. Abstract!TellClosed(c)
    BY <1>2, <1>6, <2>2 DEF ReturnNull, Return, Abstract!TellClosed, Entering
  <2> QED
    BY <2>3 DEF Abstract!Next
<1> QED
  BY <1>3, <1>4, <1>5, <1>6 DEF Loop

\* Every step of the threads is a step of the queue they promise, or none.
LEMMA StepImplements == QueueInv /\ [Next]_vars => [Abstract!Next]_(Abstract!vars)
<1> SUFFICES ASSUME QueueInv, [Next]_vars PROVE [Abstract!Next]_(Abstract!vars)
  OBVIOUS
<1>1. TypeOK
  BY DEF QueueInv
<1>2. ASSUME NEW p \in Producer, NEW e \in Element, PushTest(p, e)
      PROVE  [Abstract!Next]_(Abstract!vars)
  BY <1>2, PushTestImplements DEF Abstract!Next
<1>3. ASSUME NEW p \in Producer, PushBack(p) PROVE [Abstract!Next]_(Abstract!vars)
  <2>1. \E e \in Element : Abstract!Enter(e)
    BY <1>3, PushBackImplements
  <2> QED
    BY <2>1 DEF Abstract!Next
<1>4. ASSUME NEW p \in Producer, NotifyOne(p) PROVE [Abstract!Next]_(Abstract!vars)
  BY <1>1, <1>4, OthersKeep DEF NotifyOne, Abstract!vars, Entering
<1>5. ASSUME NEW k \in Closer, CloseFlag(k) PROVE [Abstract!Next]_(Abstract!vars)
  <2>1. Entering' = Entering
    BY <1>1, <1>5, OthersKeep DEF Close
  <2> QED
    BY <1>5, <2>1 DEF CloseFlag, Abstract!Close, Abstract!Next, Entering
<1>6. ASSUME NEW k \in Closer, Stop(k) \/ NotifyAll(k) PROVE [Abstract!Next]_(Abstract!vars)
  <2>1. Entering' = Entering
    BY <1>1, <1>6, OthersKeep DEF Close
  <2> QED
    BY <1>6, <2>1 DEF Stop, NotifyAll, Abstract!vars, Entering
<1>7. CASE UNCHANGED vars
  <2>1. Entering' = Entering
    BY <1>1, <1>7, OthersKeep
  <2> QED
    BY <1>7, <2>1 DEF vars, Abstract!vars, Entering
<1>8. ASSUME NEW c \in Consumer, Loop(c) \/ WakeSpuriously(c) \/ WriteThrows(c)
      PROVE  [Abstract!Next]_(Abstract!vars)
  BY <1>8, LoopImplements
<1> QED
  BY <1>2, <1>3, <1>4, <1>5, <1>6, <1>7, <1>8 DEF Next, Push, Close

\* The queue of blocking-queue.h is what the threads of BlockingQueue
\* implement: elements come out once and in order, and NULL is returned only
\* by a queue that is closed and empty.
THEOREM QueueImplemented == Spec => ImplementsQueue
<1>1. Init => Abstract!Init
  BY ThreadAssumption DEF Init, Abstract!Init
<1> QED
  BY <1>1, QueueInvCorrect, StepImplements, PTL DEF Spec, ImplementsQueue, Abstract!Spec
=============================================================================

---------------------------- MODULE ClosableQueue ----------------------------
(***************************************************************************)
(* What the callers of BlockingQueue (src/core/blocking-queue-detail.h) can *)
(* rely on, without threads and locks: a first-in first-out queue that     *)
(* accepts elements until it is closed and tells its consumers of the      *)
(* closing once it has nothing left for them.                              *)
(*                                                                         *)
(* An element is accepted while the queue is open and enters the queue     *)
(* later, possibly after the closing: push gives no better promise.        *)
(***************************************************************************)
EXTENDS Sequences

CONSTANTS Element, Consumer

VARIABLES
  opened,
  offered,     \* elements that push was called with
  entering,    \* elements accepted and not yet in the queue
  queue,
  delivered,   \* what each consumer was given, in order
  told         \* consumers that were told that the queue is closed

vars == <<opened, offered, entering, queue, delivered, told>>

Init ==
  /\ opened = TRUE
  /\ offered = {}
  /\ entering = {}
  /\ queue = <<>>
  /\ delivered = [c \in Consumer |-> <<>>]
  /\ told = {}

Accept(e) ==
  /\ opened
  /\ e \notin offered
  /\ offered' = offered \cup {e}
  /\ entering' = entering \cup {e}
  /\ UNCHANGED <<opened, queue, delivered, told>>

Refuse(e) ==
  /\ ~opened
  /\ e \notin offered
  /\ offered' = offered \cup {e}
  /\ UNCHANGED <<opened, entering, queue, delivered, told>>

Enter(e) ==
  /\ e \in entering
  /\ entering' = entering \ {e}
  /\ queue' = Append(queue, e)
  /\ UNCHANGED <<opened, offered, delivered, told>>

\* A consumer is given the oldest elements: one by pop, all by flush.
Deliver(c, given, rest) ==
  /\ given # <<>>
  /\ queue = given \o rest
  /\ queue' = rest
  /\ delivered' = [delivered EXCEPT ![c] = @ \o given]
  /\ UNCHANGED <<opened, offered, entering, told>>

DeliverOne(c) == queue # <<>> /\ Deliver(c, <<Head(queue)>>, Tail(queue))
DeliverAll(c) == Deliver(c, queue, <<>>)

TellClosed(c) ==
  /\ ~opened
  /\ queue = <<>>
  /\ told' = told \cup {c}
  /\ UNCHANGED <<opened, offered, entering, queue, delivered>>

Close ==
  /\ opened' = FALSE
  /\ UNCHANGED <<offered, entering, queue, delivered, told>>

Next ==
  \/ \E e \in Element : Accept(e) \/ Refuse(e) \/ Enter(e)
  \/ \E c \in Consumer : DeliverOne(c) \/ DeliverAll(c) \/ TellClosed(c)
  \/ Close

Spec == Init /\ [][Next]_vars
=============================================================================

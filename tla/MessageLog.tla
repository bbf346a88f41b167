----------------------------- MODULE MessageLog -----------------------------
(***************************************************************************)
(* What the threads that log (src/core/log.cpp) can rely on, without        *)
(* streams, the queue and its batches: a message is taken whole, is printed *)
(* at most once, and the log takes and prints nothing after its end.        *)
(***************************************************************************)
EXTENDS Sequences

CONSTANT Message

VARIABLES
  accepted,    \* messages that the log has taken
  printed,     \* messages printed, in order
  ended        \* the log has ended

vars == <<accepted, printed, ended>>

Init ==
  /\ accepted = {}
  /\ printed = <<>>
  /\ ended = FALSE

IsPrinted(m) == \E i \in DOMAIN printed : printed[i] = m

Accept(m) ==
  /\ ~ended
  /\ m \notin accepted
  /\ accepted' = accepted \cup {m}
  /\ UNCHANGED <<printed, ended>>

Output(m) ==
  /\ ~ended
  /\ m \in accepted /\ ~IsPrinted(m)
  /\ printed' = Append(printed, m)
  /\ UNCHANGED <<accepted, ended>>

\* What was not printed by then never is.
End ==
  /\ ended' = TRUE
  /\ UNCHANGED <<accepted, printed>>

Next ==
  \/ \E m \in Message : Accept(m) \/ Output(m)
  \/ End

Spec == Init /\ [][Next]_vars
=============================================================================

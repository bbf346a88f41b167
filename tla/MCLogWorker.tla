---------------------------- MODULE MCLogWorker ----------------------------
(* LogWorker with the main thread and two others, for TLC.                  *)
EXTENDS LogWorker, TLC

CONSTANTS reader, cleaner,      \* two threads that log
          m1, m2, f, w          \* statements

\* The main thread and another one write a message each, which the latter
\* wants flushed, before or after; a third thread flushes too.
Writers == (m1 :> Main) @@ (m2 :> reader) @@ (w :> reader) @@ (f :> cleaner)
Kinds == (m1 :> "message") @@ (m2 :> "message") @@ (w :> "waitFlush") @@ (f :> "flush")
=============================================================================

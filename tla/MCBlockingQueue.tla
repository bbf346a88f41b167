--------------------------- MODULE MCBlockingQueue ---------------------------
(* BlockingQueue on small sets of threads and elements, for TLC.            *)
EXTENDS BlockingQueue, TLC

CONSTANTS r1, r2,      \* producers
          pop,         \* a consumer that pops
          log,         \* a consumer that flushes
          main,        \* the thread that closes
          e1, e2, e3   \* elements
=============================================================================

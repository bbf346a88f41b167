--------------------------- MODULE MCWifiThreads ---------------------------
(* WifiThreads with two packets for one destination, for TLC.               *)
EXTENDS WifiThreads, TLC

CONSTANTS d1,            \* destination
          p1, p2         \* packets

PairForOne == (p1 :> d1) @@ (p2 :> d1)
=============================================================================

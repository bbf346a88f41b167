--------------------------- MODULE LifecycleProofs ---------------------------
(* Proofs about Lifecycle: what the threads use is there, nothing is left   *)
(* running at the end, and no loop ends while the process starts.           *)
EXTENDS Lifecycle, TLAPS

\* The places of the main thread, in the order it goes through them.
Starting == {"boot", "startWifiRecv", "startCleaner", "tun", "configure", "run",
             "startTun2Wifi", "startWifi2Tun", "serving"}
Closing == {"stop", "closeTun", "closeQueue", "notify"}
Stopping == {"closeServer", "shutdown", "closeSocket", "forgetSocket",
             "joinWifiRecv", "joinCleaner"}
Gone == {"joinTun2Wifi", "joinWifi2Tun", "quit", "exited"}
Deleting == {"deleteServer", "deleteSocket"} \cup Gone

WifiThread == {WifiRecv, ClearPackets}

\* What is left of the sockets at each place.  Only a bound server is closed
\* (Stopping); the socket of one that is not bound lives until deleteServer.
SocketsInv ==
  /\ main = "boot" =>
       ~bindFailed /\ ~bound /\ ~sock /\ ~server /\ ~broadcastSocket /\ kernel = "none"
  /\ main \in (Starting \ {"boot"}) \cup Closing =>
       (bound <=> ~bindFailed) /\ sock /\ kernel = "open"
  /\ main \in Stopping =>
       /\ ~bindFailed
       /\ bound <=> main = "closeServer"
       /\ sock <=> main \notin {"joinWifiRecv", "joinCleaner"}
       /\ main \in {"closeServer", "shutdown"} => kernel = "open"
       /\ main = "closeSocket" => kernel = "shut"
       /\ main \in {"forgetSocket", "joinWifiRecv", "joinCleaner"} => kernel = "closed"
  /\ main = "deleteServer" =>
       ~bound /\ (sock <=> bindFailed) /\ kernel = IF bindFailed THEN "open" ELSE "closed"
  /\ main \in Deleting \ {"deleteServer"} =>
       ~bound /\ ~sock /\ kernel \in {"closed", "none"}
  /\ server <=> main \notin {"boot", "deleteSocket"} \cup Gone
  /\ broadcastSocket <=> main \notin {"boot"} \cup Gone

\* Which threads have not been started yet, and which have been joined.
ThreadsInv ==
  /\ main \in {"boot", "startWifiRecv"} => at[WifiRecv] = "none"
  /\ main \in {"boot", "startWifiRecv", "startCleaner"} => at[ClearPackets] = "none"
  /\ main \in Starting \ {"startWifi2Tun", "serving"} => at[Tun2Wifi] = "none"
  /\ main \in Starting \ {"serving"} => at[Wifi2Tun] = "none"
  /\ main \in {"startTun2Wifi", "startWifi2Tun", "serving"} => isRunning
  /\ main \in {"startWifi2Tun", "serving"} => at[Tun2Wifi] # "none"
  /\ at[Tun2Wifi] = "none" => at[Wifi2Tun] = "none"
  /\ main \in {"joinCleaner"} \cup Deleting => at[WifiRecv] \in {"none", "ended"} \/ bindFailed
  /\ main \in Deleting => at[ClearPackets] \in {"none", "ended"} \/ bindFailed
  /\ main \in {"joinWifi2Tun", "quit", "exited"} => at[Tun2Wifi] \in {"none", "ended"}
  /\ main \in {"quit", "exited"} => at[Wifi2Tun] \in {"none", "ended"}

\* Where the receiving thread may stand: without a bound server it does not
\* get beyond its first test, and only an empty datagram makes recvfrom give 0
\* before the shutdown.
RecvInv ==
  /\ bindFailed => at[WifiRecv] \in {"none", "start", "test", "ended"}
  /\ at[WifiRecv] = "zero" => kernel \in {"shut", "closed"}

LifecycleInv ==
  /\ TypeOK
  /\ main \in Starting \cup Closing \cup Stopping \cup Deleting
  /\ SocketsInv
  /\ ThreadsInv
  /\ RecvInv
  /\ UsesWhatExists
  /\ AbortHasCause
  /\ NothingLeftRunning
  /\ LoopsOutliveStart
-----------------------------------------------------------------------------
USE DEF WifiRecv, ClearPackets, Tun2Wifi, Wifi2Tun, Thread

\* The process starts with nothing open and no thread.
LEMMA LifecycleInvInit == Init => LifecycleInv
<1> SUFFICES ASSUME Init PROVE LifecycleInv
  OBVIOUS
<1> USE DEF Init, Starting, Closing, Stopping, Deleting, Gone
<1>1. TypeOK
  <2>1. pending \in 0 .. MaxPending
    BY BoundAssumption
  <2>2. at \in [Thread -> Places]
    BY DEF Places
  <2>3. {bindFailed, bound, sock, server, broadcastSocket, tunOpen, isRunning, opened}
          \subseteq BOOLEAN
    BY Zenon
  <2> QED
    BY <2>1, <2>2, <2>3 DEF TypeOK
<1>2. SocketsInv /\ ThreadsInv /\ RecvInv
  BY DEF SocketsInv, ThreadsInv, RecvInv
<1>3. UsesWhatExists /\ AbortHasCause /\ NothingLeftRunning /\ LoopsOutliveStart
  BY DEF UsesWhatExists, AbortHasCause, NothingLeftRunning, LoopsOutliveStart
<1> QED
  BY <1>1, <1>2, <1>3 DEF LifecycleInv

(* The main thread. *)

\* Constructor and destructor leave the sockets as the places say.
LEMMA MainSockets ==
  ASSUME LifecycleInv, MainStep
  PROVE  SocketsInv' /\ main' \in Starting \cup Closing \cup Stopping \cup Deleting
<1> USE DEF LifecycleInv, SocketsInv, Starting, Closing, Stopping, Deleting, Gone,
            MainGoes, sharedVars, sockVars
<1>1. CASE GiveUp
  BY <1>1 DEF GiveUp
<1>2. CASE ConstructWifi
  <2>1. \/ bound' = TRUE /\ bindFailed' = FALSE
        \/ bound' = FALSE /\ bindFailed' = TRUE
    BY <1>2 DEF ConstructWifi, Bind
  <2> QED
    BY <1>2, <2>1 DEF ConstructWifi
<1>3. CASE StartWifiThreads \/ StartTunThreads
  BY <1>3 DEF StartWifiThreads, StartTunThreads
<1>4. CASE OpenTun \/ ConfigureTun \/ Run
  BY <1>4 DEF OpenTun, ConfigureTun, Run
<1>5. CASE Stop \/ CloseTun \/ CloseQueue
  BY <1>5 DEF Stop, CloseTun, CloseQueue
<1>6. CASE NotifyAll
  BY <1>6 DEF NotifyAll
<1>7. CASE CloseServer \/ Shutdown \/ ForgetSocket
  BY <1>7 DEF CloseServer, Shutdown, ForgetSocket
<1>8. CASE JoinWifiRecv \/ JoinCleaner
  BY <1>8 DEF JoinWifiRecv, JoinCleaner
<1>9. CASE DeleteServer
  BY <1>9 DEF DeleteServer
<1>10. CASE DeleteSocket
  BY <1>10 DEF DeleteSocket
<1>11. CASE JoinTunThreads \/ Exit
  BY <1>11 DEF JoinTunThreads, Exit
<1> QED
  BY <1>1, <1>2, <1>3, <1>4, <1>5, <1>6, <1>7, <1>8, <1>9, <1>10, <1>11
  DEF MainStep, Construct, Destroy

\* The main thread starts a thread that has not run, and wakes Wifi2Tun; it
\* moves no other, and nothing it does ends the process.
LEMMA MainMoves ==
  ASSUME LifecycleInv, MainStep
  PROVE  /\ failed = {} /\ UNCHANGED <<failed, threw, pending>>
         /\ at' \in [Thread -> Places]
         /\ \A t \in Thread :
              \/ at'[t] = at[t]
              \/ at[t] = "none" /\ at'[t] \in {"start", "test"}
              \/ t = Wifi2Tun /\ main = "notify" /\ at[t] = "asleep" /\ at'[t] = "pop"
<1> USE DEF MainGoes, sharedVars, sockVars, Start, Goto
<1>1. at \in [Thread -> Places]
  BY DEF LifecycleInv, TypeOK
<1>2. CASE StartWifiThreads
  BY <1>1, <1>2 DEF MainStep, Alive, StartWifiThreads, Places
<1>3. CASE StartTunThreads
  BY <1>1, <1>3 DEF MainStep, Alive, StartTunThreads, Places
<1>4. CASE NotifyAll
  BY <1>1, <1>4 DEF MainStep, Alive, NotifyAll, Places
<1>5. CASE ~(StartWifiThreads \/ StartTunThreads \/ NotifyAll)
  BY <1>1, <1>5 DEF MainStep, Alive, Construct, Destroy, GiveUp, ConstructWifi, OpenTun,
    ConfigureTun, Run, Stop, CloseTun, CloseQueue, CloseServer, Shutdown, ForgetSocket,
    JoinWifiRecv, JoinCleaner, DeleteServer, DeleteSocket, JoinTunThreads, Exit
<1> QED
  BY <1>2, <1>3, <1>4, <1>5

\* The main thread deletes and quits only after its joins.
LEMMA MainThreads == ASSUME LifecycleInv, MainStep PROVE ThreadsInv'
<1> USE DEF LifecycleInv, ThreadsInv, Starting, Closing, Stopping, Deleting, Gone,
            MainGoes, sharedVars, sockVars
<1>1. CASE GiveUp
  BY <1>1 DEF GiveUp
<1>2. CASE ConstructWifi
  BY <1>2 DEF ConstructWifi
<1>3. CASE StartWifiThreads
  BY <1>3, MainMoves DEF StartWifiThreads, Start, Goto, TypeOK
<1>4. CASE StartTunThreads
  <2>1. CASE main = "startTun2Wifi"
    BY <1>4, <2>1 DEF StartTunThreads, Start, Goto, TypeOK
  <2>2. CASE main = "startWifi2Tun"
    BY <1>4, <2>2 DEF StartTunThreads, Start, Goto, TypeOK
  <2> QED
    BY <1>4, <2>1, <2>2 DEF StartTunThreads
<1>5. CASE OpenTun \/ ConfigureTun \/ Run
  BY <1>5 DEF OpenTun, ConfigureTun, Run
<1>6. CASE Stop \/ CloseTun \/ CloseQueue
  BY <1>6 DEF Stop, CloseTun, CloseQueue
<1>7. CASE NotifyAll
  BY <1>7, MainMoves DEF NotifyAll, SocketsInv
<1>8. CASE CloseServer \/ Shutdown \/ ForgetSocket
  BY <1>8 DEF CloseServer, Shutdown, ForgetSocket
<1>9. CASE JoinWifiRecv \/ JoinCleaner
  BY <1>9 DEF JoinWifiRecv, JoinCleaner
<1>10. CASE DeleteServer \/ DeleteSocket
  BY <1>10 DEF DeleteServer, DeleteSocket
<1>11. CASE JoinTunThreads \/ Exit
  BY <1>11 DEF JoinTunThreads, Exit
<1> QED
  BY <1>1, <1>2, <1>3, <1>4, <1>5, <1>6, <1>7, <1>8, <1>9, <1>10, <1>11
  DEF MainStep, Construct, Destroy

\* bindFailed is decided before the receiving thread starts, and the socket is
\* not opened again once it has been shut down.
LEMMA MainRecv == ASSUME LifecycleInv, MainStep PROVE RecvInv'
<1>1. /\ bindFailed' => at[WifiRecv] = "none" \/ bindFailed
      /\ at[WifiRecv] = "zero" /\ kernel \in {"shut", "closed"} => kernel' \in {"shut", "closed"}
  BY DEF LifecycleInv, SocketsInv, ThreadsInv, Starting, Closing, Stopping, Deleting, Gone,
    MainStep, Construct, Destroy, MainGoes, sharedVars, sockVars,
    GiveUp, ConstructWifi, StartWifiThreads, StartTunThreads, OpenTun, ConfigureTun, Run,
    Stop, CloseTun, CloseQueue, NotifyAll, CloseServer, Shutdown, ForgetSocket,
    JoinWifiRecv, JoinCleaner, DeleteServer, DeleteSocket, JoinTunThreads, Exit
<1> QED
  BY <1>1, MainMoves DEF LifecycleInv, RecvInv

\* The main thread keeps the types.
LEMMA MainTypes == ASSUME LifecycleInv, MainStep PROVE TypeOK'
<1>1. SocketsInv' /\ main' \in Starting \cup Closing \cup Stopping \cup Deleting
  BY MainSockets
<1>2. /\ {bindFailed', bound', sock', server', broadcastSocket', tunOpen', isRunning', opened'}
           \subseteq BOOLEAN
      /\ kernel' \in {"none", "open", "shut", "closed"}
  BY DEF LifecycleInv, TypeOK, MainStep, Construct, Destroy, MainGoes, sharedVars, sockVars,
    GiveUp, ConstructWifi, Bind, StartWifiThreads, StartTunThreads, OpenTun, ConfigureTun, Run,
    Stop, CloseTun, CloseQueue, NotifyAll, CloseServer, Shutdown, ForgetSocket,
    JoinWifiRecv, JoinCleaner, DeleteServer, DeleteSocket, JoinTunThreads, Exit
<1>3. /\ bound' => server' /\ sock' /\ kernel' = "open"
      /\ kernel' \in {"open", "shut"} => sock' /\ server'
  BY <1>1 DEF SocketsInv, Starting, Closing, Stopping, Deleting, Gone
<1>4. /\ at' \in [Thread -> Places] /\ pending' \in 0 .. MaxPending
      /\ threw' \subseteq Thread /\ failed' \subseteq Thread \X {"gone", "assert", "empty"}
  BY MainMoves DEF LifecycleInv, TypeOK
<1> QED
  BY <1>2, <1>3, <1>4 DEF TypeOK

\* The main thread itself uses nothing that is gone, and fails no assertion.
LEMMA MainProps ==
  ASSUME LifecycleInv, MainStep
  PROVE  (UsesWhatExists /\ AbortHasCause /\ NothingLeftRunning /\ LoopsOutliveStart)'
<1>1. UsesWhatExists' /\ AbortHasCause'
  BY MainMoves DEF UsesWhatExists, AbortHasCause
<1>2. NothingLeftRunning'
  BY MainThreads DEF ThreadsInv, NothingLeftRunning, Deleting, Gone
<1>3. LoopsOutliveStart'
  <2> SUFFICES ASSUME NEW t \in Thread, main' \in Starting, at'[t] = "ended"
               PROVE  t \in threw' \/ (bindFailed' /\ t \in {WifiRecv, ClearPackets})
    BY DEF LoopsOutliveStart, Starting
  <2>1. at[t] = "ended" /\ threw' = threw
    BY MainMoves
  <2>2. main \in Starting \ {"serving"} /\ (main = "boot" \/ bindFailed' = bindFailed)
    BY DEF Starting, MainStep, Construct, Destroy, MainGoes, sharedVars, sockVars,
      GiveUp, ConstructWifi, StartWifiThreads, StartTunThreads, OpenTun, ConfigureTun, Run,
      Stop, CloseTun, CloseQueue, NotifyAll, CloseServer, Shutdown, ForgetSocket,
      JoinWifiRecv, JoinCleaner, DeleteServer, DeleteSocket, JoinTunThreads, Exit
  <2> QED
    BY <2>1, <2>2 DEF LifecycleInv, LoopsOutliveStart, ThreadsInv, Starting
<1> QED
  BY <1>1, <1>2, <1>3

\* A key press, and the steps of the main thread.
LEMMA EnterStep == ASSUME LifecycleInv, Enter PROVE LifecycleInv'
  BY DEF LifecycleInv, Enter, Alive, PressEnter, MainGoes, sharedVars, sockVars, TypeOK,
    SocketsInv, ThreadsInv, RecvInv, Starting, Closing, Stopping, Deleting, Gone,
    UsesWhatExists, AbortHasCause, NothingLeftRunning, LoopsOutliveStart

\* The steps of the main thread, together.
LEMMA MainKeepsInv == ASSUME LifecycleInv, MainStep PROVE LifecycleInv'
  BY MainTypes, MainSockets, MainThreads, MainRecv, MainProps DEF LifecycleInv
-----------------------------------------------------------------------------
(* The four threads. *)

ThreadNext ==
  \/ RecvLoop \/ RecvDatagram \/ RecvZero \/ RecvEmpty \/ VerifyClosed \/ RecvHandle
  \/ Clean \/ Tun2WifiLoop \/ TunRead \/ Wifi2TunLoop

\* What a thread that takes a step from the place at[t] to the place w may do:
\* it ends by an exception or because the flag of its loop is not set.
Stepped(t, w) ==
  /\ at[t] \notin {"none", "ended"} /\ w \in Places \ {"none"}
  /\ w = "ended" => \/ t \in threw'
                    \/ t \in WifiThread /\ ~bound
                    \/ t \notin WifiThread /\ ~isRunning
  /\ t = WifiRecv =>
       /\ w = "zero" => kernel \in {"shut", "closed"}
       /\ at[t] \in {"start", "test"} /\ ~bound => w \in {"test", "ended"}

\* A step of a thread moves that thread alone, as Stepped says.
LEMMA ThreadMoves ==
  ASSUME LifecycleInv, ThreadNext
  PROVE  /\ at' \in [Thread -> Places]
         /\ threw \subseteq threw' /\ threw' \subseteq Thread
         /\ pending' \in 0 .. MaxPending
         /\ \A t \in Thread : at'[t] = at[t] \/ Stepped(t, at'[t])
<1>1. /\ at \in [Thread -> Places] /\ threw \subseteq Thread
      /\ pending \in 0 .. MaxPending /\ MaxPending \in Nat
  BY BoundAssumption DEF LifecycleInv, TypeOK
<1> DEFINE Types == /\ threw \subseteq threw' /\ threw' \subseteq Thread
                    /\ pending' \in 0 .. MaxPending
           Moves(t) == at' = at \/ \E w \in Places : at' = [at EXCEPT ![t] = w] /\ Stepped(t, w)
<1>2. ASSUME NEW t \in Thread, Moves(t)
      PROVE  at' \in [Thread -> Places] /\ \A u \in Thread : at'[u] = at[u] \/ Stepped(u, at'[u])
  BY <1>1, <1>2
<1> USE DEF Stepped, Places, WifiThread, Goto, Throw, Fail, Go
<1>3. CASE RecvLoop
  <2>1. Types /\ Moves(WifiRecv)
    BY <1>1, <1>3 DEF RecvLoop, TestBound
  <2> QED
    BY <1>2, <2>1
<1>4. CASE RecvDatagram \/ RecvZero \/ RecvEmpty
  <2>1. Types /\ Moves(WifiRecv)
    BY <1>1, <1>4 DEF RecvDatagram, RecvZero, RecvEmpty
  <2> QED
    BY <1>2, <2>1
<1>5. CASE VerifyClosed
  <2>1. Types /\ Moves(WifiRecv)
    BY <1>1, <1>5 DEF VerifyClosed
  <2> QED
    BY <1>2, <2>1
<1>6. CASE RecvHandle
  <2>1. CASE at[WifiRecv] = "received"
    <3>1. Types /\ Moves(WifiRecv)
      BY <1>1, <1>6, <2>1 DEF RecvHandle, TestBound
    <3> QED
      BY <1>2, <3>1
  <2>2. CASE at[WifiRecv] = "handle" /\ UNCHANGED pending /\ (Go(WifiRecv, "test") \/ Broadcast(WifiRecv))
    <3>1. Types /\ Moves(WifiRecv)
      BY <1>1, <2>2 DEF Broadcast
    <3> QED
      BY <1>2, <3>1
  <2>3. CASE /\ at[WifiRecv] = "handle" /\ pending < MaxPending
             /\ pending' = IF opened THEN pending + 1 ELSE pending
             /\ at' = [at EXCEPT ![WifiRecv] = "test",
                         ![Wifi2Tun] = IF opened /\ @ = "asleep" THEN "pop" ELSE @]
             /\ UNCHANGED <<threw, failed>>
    <3>1. /\ at'[WifiRecv] = "test"
          /\ at'[Wifi2Tun] = at[Wifi2Tun] \/ (at[Wifi2Tun] = "asleep" /\ at'[Wifi2Tun] = "pop")
          /\ \A u \in Thread \ {WifiRecv, Wifi2Tun} : at'[u] = at[u]
          /\ at' \in [Thread -> Places]
      BY <1>1, <2>3
    <3>2. pending' = pending \/ (pending' = pending + 1 /\ pending < MaxPending)
      BY <2>3
    <3>3. pending' \in 0 .. MaxPending
      BY <1>1, <3>2
    <3>4. Types
      BY <1>1, <2>3, <3>3
    <3> QED
      BY <2>3, <3>1, <3>4
  <2> QED
    BY <1>6, <2>1, <2>2, <2>3 DEF RecvHandle
<1>7. CASE Clean
  <2>1. Types /\ Moves(ClearPackets)
    BY <1>1, <1>7 DEF Clean, TestBound, Broadcast
  <2> QED
    BY <1>2, <2>1
<1>8. CASE Tun2WifiLoop
  <2>1. Types /\ Moves(Tun2Wifi)
    BY <1>1, <1>8 DEF Tun2WifiLoop, Broadcast
  <2> QED
    BY <1>2, <2>1
<1>9. CASE TunRead
  <2>1. Types /\ Moves(Tun2Wifi)
    BY <1>1, <1>9 DEF TunRead
  <2> QED
    BY <1>2, <2>1
<1>10. CASE Wifi2TunLoop
  <2>1. pending' = pending \/ (pending > 0 /\ pending' = pending - 1)
    BY <1>10 DEF Wifi2TunLoop
  <2>2. pending' \in 0 .. MaxPending
    BY <1>1, <2>1
  <2>3. threw' = threw
    BY <1>10 DEF Wifi2TunLoop
  <2>4. Moves(Wifi2Tun)
    BY <1>1, <1>10 DEF Wifi2TunLoop
  <2> QED
    BY <1>1, <1>2, <2>2, <2>3, <2>4
<1> QED
  BY <1>3, <1>4, <1>5, <1>6, <1>7, <1>8, <1>9, <1>10 DEF ThreadNext

\* How a thread may end the process.
LEMMA ThreadFails ==
  ASSUME LifecycleInv, ThreadNext, failed = {}
  PROVE  \/ failed' = {}
         \/ \E t \in WifiThread : /\ failed' = {<<t, "gone">>}
                                  /\ at[t] \notin {"none", "ended"}
                                  /\ ~server \/ ~broadcastSocket
         \/ /\ failed' = {<<Tun2Wifi, "gone">>}
            /\ at[Tun2Wifi] = "send" /\ ~broadcastSocket
         \/ /\ failed' = {<<WifiRecv, "assert">>}
            /\ \/ at[WifiRecv] = "recv" /\ ~sock
               \/ at[WifiRecv] = "zero" /\ sock
         \/ failed' = {<<WifiRecv, "empty">>} /\ at[WifiRecv] = "empty" /\ sock
<1> USE DEF WifiThread, Goto, Throw, Fail, Go
<1>2. CASE RecvLoop
  BY <1>2 DEF RecvLoop, TestBound
<1>3. CASE RecvDatagram \/ RecvZero \/ RecvEmpty
  BY <1>3 DEF RecvDatagram, RecvZero, RecvEmpty
<1>4. CASE VerifyClosed
  BY <1>4 DEF VerifyClosed
<1>5. CASE RecvHandle
  BY <1>5 DEF RecvHandle, TestBound, Broadcast
<1>6. CASE Clean
  BY <1>6 DEF Clean, TestBound, Broadcast
<1>7. CASE Tun2WifiLoop
  BY <1>7 DEF Tun2WifiLoop, Broadcast
<1>8. CASE TunRead \/ Wifi2TunLoop
  BY <1>8 DEF TunRead, Wifi2TunLoop
<1> QED
  BY <1>2, <1>3, <1>4, <1>5, <1>6, <1>7, <1>8 DEF ThreadNext

\* The four threads write nothing that the main thread shares with them, so that
\* the invariant only depends on where they get to and how they fail.
LEMMA ThreadKeepsInv ==
  ASSUME LifecycleInv, Alive, ThreadNext, UNCHANGED <<main, sharedVars>>
  PROVE  LifecycleInv'
<1>1. /\ failed = {} /\ UNCHANGED <<main, bindFailed, bound, sock, kernel, server,
                                   broadcastSocket, tunOpen, isRunning, opened>>
  BY DEF Alive, sharedVars, sockVars
<1>2. TypeOK'
  BY <1>1, ThreadMoves, ThreadFails DEF LifecycleInv, TypeOK, WifiThread
<1>3. main' \in Starting \cup Closing \cup Stopping \cup Deleting /\ SocketsInv'
  BY <1>1 DEF LifecycleInv, SocketsInv
<1>4. ThreadsInv'
  BY <1>1, ThreadMoves DEF LifecycleInv, ThreadsInv, Stepped
<1>5. RecvInv'
  BY <1>1, ThreadMoves DEF LifecycleInv, RecvInv, Stepped, SocketsInv, ThreadsInv,
    Starting, Closing, Stopping, Deleting, Gone
<1>6. UsesWhatExists'
  BY <1>1, ThreadFails DEF LifecycleInv, UsesWhatExists, SocketsInv, ThreadsInv, WifiThread,
    Starting, Closing, Stopping, Deleting, Gone
<1>7. AbortHasCause'
  BY <1>1, ThreadFails DEF LifecycleInv, AbortHasCause, SocketsInv, ThreadsInv,
    RecvInv, WifiThread, Starting, Closing, Stopping, Deleting, Gone
<1>8. NothingLeftRunning'
  BY <1>1, ThreadMoves DEF LifecycleInv, NothingLeftRunning, Stepped
<1>9. LoopsOutliveStart'
  BY <1>1, ThreadMoves DEF LifecycleInv, LoopsOutliveStart, Stepped, WifiThread,
    SocketsInv, ThreadsInv, Starting, Closing, Stopping, Deleting, Gone
<1> QED
  BY <1>2, <1>3, <1>4, <1>5, <1>6, <1>7, <1>8, <1>9 DEF LifecycleInv
-----------------------------------------------------------------------------
\* The inductive invariant of the process, from the constructor of IpOverMesh
\* to the end of main().
THEOREM LifecycleInvariant == Spec => []LifecycleInv
<1>1. LifecycleInv /\ [Next]_vars => LifecycleInv'
  <2> SUFFICES ASSUME LifecycleInv, [Next]_vars PROVE LifecycleInv'
    OBVIOUS
  <2>1. CASE MainStep \/ Enter
    BY <2>1, MainKeepsInv, EnterStep
  <2>2. CASE Alive /\ ThreadNext /\ UNCHANGED <<main, sharedVars>>
    BY <2>2, ThreadKeepsInv
  <2>3. CASE UNCHANGED vars
    BY <2>3 DEF vars, sharedVars, sockVars, LifecycleInv, TypeOK, SocketsInv, ThreadsInv,
      RecvInv, UsesWhatExists, AbortHasCause, NothingLeftRunning, LoopsOutliveStart
  <2> QED
    BY <2>1, <2>2, <2>3 DEF Next, ThreadStep, ThreadNext
<1> QED
  BY <1>1, LifecycleInvInit, PTL DEF Spec

\* Typing, and that a bound server has an open socket which is not forgotten
\* (Server::sockfd, Socket::sock and the kernel's socket agree).
THEOREM LifecycleTypeCorrect == Spec => []TypeOK
  BY LifecycleInvariant, PTL DEF LifecycleInv

\* No thread uses the server or the broadcast socket after Wifi::close has
\* deleted it, apart from the two cases the property names.
THEOREM ThreadsUseWhatExists == Spec => []UsesWhatExists
  BY LifecycleInvariant, PTL DEF LifecycleInv

\* The assertions of UDPSocket::recv on the descriptor fail for an empty
\* datagram, which a serving process may receive at any time, and otherwise at
\* most while the main thread is in Socket::close.
THEOREM AssertionsHaveCauses == Spec => []AbortHasCause
  BY LifecycleInvariant, PTL DEF LifecycleInv

\* main() does not quit the log before the threads it has started have ended,
\* whether the construction has succeeded or not.
THEOREM EveryThreadIsJoined == Spec => []NothingLeftRunning
  BY LifecycleInvariant, PTL DEF LifecycleInv

\* No loop finds its flag unset while the constructor is still running.
THEOREM LoopsDoNotEndEarly == Spec => []LoopsOutliveStart
  BY LifecycleInvariant, PTL DEF LifecycleInv
=============================================================================

----------------------------- MODULE Lifecycle -----------------------------
(***************************************************************************)
(* The life of the process (src/main.cpp, the constructor and close of      *)
(* class Wifi, the classes of src/net it closes): the main thread opens the *)
(* server socket and the tun device, starts four threads, and stops and     *)
(* joins them again, also when the construction fails half-way.             *)
(*                                                                         *)
(* What the threads do with packets is in Mesh and WifiThreads; here they   *)
(* only use the objects that the main thread deletes under them.  A step is *)
(* one access to state that two threads share.  Nobody reads a file         *)
(* descriptor of another one under a number used again: the process opens   *)
(* none while it closes.                                                    *)
(***************************************************************************)
EXTENDS Naturals

CONSTANTS MaxPending     \* bound on the packets in recvQueue

ASSUME BoundAssumption == MaxPending \in Nat \ {0}

WifiRecv == "WifiRecv"          \* Wifi::recvRun
ClearPackets == "ClearPackets"  \* Wifi::clearOutdatedPacketsLoop
Tun2Wifi == "Tun2Wifi"          \* IpOverMesh::tun2wifiLoop
Wifi2Tun == "Wifi2Tun"          \* IpOverMesh::wifi2tunLoop
Thread == {WifiRecv, ClearPackets, Tun2Wifi, Wifi2Tun}

VARIABLES
  main,             \* where the main thread stands
  at,               \* where each thread stands
  bindFailed,       \* Server::_internal_bind has found no address to bind to
  bound,            \* Server::sockfd >= 0, what isBinded answers
  sock,             \* Socket::sock >= 0 in the socket of the server
  kernel,           \* that socket: "none", "open", "shut" (down), "closed"
  server,           \* Wifi::server points to a server
  broadcastSocket,  \* Wifi::broadcastSocket points to a socket
  tunOpen,          \* Tundev::fd >= 0
  isRunning,        \* IpOverMesh::isRunning
  opened,           \* recvQueue.opened
  pending,          \* number of packets in recvQueue
  threw,            \* threads that an exception has ended
  failed            \* <<thread, how>> of the step that has ended the process

sockVars == <<bound, sock, kernel, server, broadcastSocket>>
sharedVars == <<bindFailed, sockVars, tunOpen, isRunning, opened>>
vars == <<main, at, sharedVars, pending, threw, failed>>

Init ==
  /\ main = "boot"
  /\ at = [t \in Thread |-> "none"]
  /\ bindFailed = FALSE /\ bound = FALSE /\ sock = FALSE /\ kernel = "none"
  /\ server = FALSE /\ broadcastSocket = FALSE
  /\ tunOpen = FALSE /\ isRunning = FALSE
  /\ opened = TRUE /\ pending = 0
  /\ threw = {} /\ failed = {}

MainGoes(from, to) == main = from /\ main' = to
Goto(t, where) == at' = [at EXCEPT ![t] = where]
Start(t, where) == at[t] = "none" /\ Goto(t, where)
-----------------------------------------------------------------------------
(* Construction.  An exception in main() leads to flushAndQuit.             *)

\* No wireless interface is up with an IPv4 address, or the constructor of
\* Wifi throws before it starts a thread.
GiveUp ==
  /\ MainGoes("boot", "quit")
  /\ UNCHANGED <<at, sharedVars, pending, threw, failed>>

\* Server::_internal_bind, which tries one address after the other.
Bind == \E success \in BOOLEAN : bound' = success /\ bindFailed' = ~success

\* Wifi::Wifi: a server that finds nowhere to bind does not throw, and
\* bindToDevice then creates a socket for it that is not bound.
ConstructWifi ==
  /\ MainGoes("boot", "startWifiRecv")
  /\ Bind
  /\ sock' = TRUE /\ kernel' = "open"
  /\ server' = TRUE /\ broadcastSocket' = TRUE
  /\ UNCHANGED <<at, tunOpen, isRunning, opened, pending, threw, failed>>

StartWifiThreads ==
  /\ \/ MainGoes("startWifiRecv", "startCleaner") /\ Start(WifiRecv, "start")
     \/ MainGoes("startCleaner", "tun") /\ Start(ClearPackets, "test")
  /\ UNCHANGED <<sharedVars, pending, threw, failed>>

\* Tundev::Tundev; when it throws, the destructor of Wifi closes it.
OpenTun ==
  /\ \/ MainGoes("tun", "configure") /\ tunOpen' = TRUE
     \/ MainGoes("tun", "closeQueue") /\ UNCHANGED tunOpen
  /\ UNCHANGED <<at, bindFailed, sockVars, isRunning, opened, pending, threw, failed>>

\* setMTU, setIPv6 and activate; when one throws, Tundev is destroyed too.
ConfigureTun ==
  /\ \/ MainGoes("configure", "run") /\ UNCHANGED tunOpen
     \/ MainGoes("configure", "closeQueue") /\ tunOpen' = FALSE
  /\ UNCHANGED <<at, bindFailed, sockVars, isRunning, opened, pending, threw, failed>>

\* Mutant: the flag is still unset when the threads start.
RunLate ==
  /\ MainGoes("run", "startTun2Wifi")
  /\ UNCHANGED <<at, sharedVars, pending, threw, failed>>

Run ==
  /\ MainGoes("run", "startTun2Wifi")
  /\ isRunning' = TRUE
  /\ UNCHANGED <<at, bindFailed, sockVars, tunOpen, opened, pending, threw, failed>>

StartTunThreads ==
  /\ \/ MainGoes("startTun2Wifi", "startWifi2Tun") /\ Start(Tun2Wifi, "test")
     \/ MainGoes("startWifi2Tun", "serving") /\ Start(Wifi2Tun, "test")
  /\ UNCHANGED <<sharedVars, pending, threw, failed>>
-----------------------------------------------------------------------------
(* Destruction: IpOverMesh::~IpOverMesh, Wifi::close, UDPServer::close,     *)
(* Socket::close.                                                           *)

\* "Press enter to stop the program".
PressEnter ==
  /\ MainGoes("serving", "stop")
  /\ UNCHANGED <<at, sharedVars, pending, threw, failed>>

Stop ==
  /\ MainGoes("stop", "closeTun")
  /\ isRunning' = FALSE
  /\ UNCHANGED <<at, bindFailed, sockVars, tunOpen, opened, pending, threw, failed>>

\* Tundev::close does not wake a thread that reads.
CloseTun ==
  /\ MainGoes("closeTun", "closeQueue")
  /\ tunOpen' = FALSE
  /\ UNCHANGED <<at, bindFailed, sockVars, isRunning, opened, pending, threw, failed>>

CloseQueue ==
  /\ MainGoes("closeQueue", "notify")
  /\ opened' = FALSE
  /\ UNCHANGED <<at, bindFailed, sockVars, tunOpen, isRunning, pending, threw, failed>>

\* notify_all; then the threads of Wifi are joined if the server is bound.
NotifyAll ==
  /\ MainGoes("notify", IF bound THEN "closeServer" ELSE "deleteServer")
  /\ at' = IF at[Wifi2Tun] = "asleep" THEN [at EXCEPT ![Wifi2Tun] = "pop"] ELSE at
  /\ UNCHANGED <<sharedVars, pending, threw, failed>>

\* isBinded answers no from here on.
CloseServer ==
  /\ MainGoes("closeServer", "shutdown")
  /\ bound' = FALSE
  /\ UNCHANGED <<at, bindFailed, sock, kernel, server, broadcastSocket, tunOpen,
                 isRunning, opened, pending, threw, failed>>

\* Mutant: the socket is closed without shutdown.
ShutdownForgotten ==
  /\ MainGoes("shutdown", "forgetSocket")
  /\ UNCHANGED <<at, sharedVars, pending, threw, failed>>

\* shutdown wakes the thread in recvfrom; then the descriptor is closed.
Shutdown ==
  /\ \/ MainGoes("shutdown", "closeSocket") /\ kernel' = "shut"
     \/ MainGoes("closeSocket", "forgetSocket") /\ kernel' = "closed"
  /\ UNCHANGED <<at, bindFailed, bound, sock, server, broadcastSocket, tunOpen,
                 isRunning, opened, pending, threw, failed>>

ForgetSocket ==
  /\ MainGoes("forgetSocket", "joinWifiRecv")
  /\ sock' = FALSE
  /\ UNCHANGED <<at, bindFailed, bound, kernel, server, broadcastSocket, tunOpen,
                 isRunning, opened, pending, threw, failed>>

\* Mutant: the receiving thread is stopped and not waited for.
JoinWifiRecvForgotten ==
  /\ MainGoes("joinWifiRecv", "joinCleaner")
  /\ UNCHANGED <<at, sharedVars, pending, threw, failed>>

JoinWifiRecv ==
  /\ MainGoes("joinWifiRecv", "joinCleaner")
  /\ at[WifiRecv] = "ended"
  /\ UNCHANGED <<at, sharedVars, pending, threw, failed>>

\* Mutant: the cleaning thread is not waited for.
JoinCleanerForgotten ==
  /\ MainGoes("joinCleaner", "deleteServer")
  /\ UNCHANGED <<at, sharedVars, pending, threw, failed>>

JoinCleaner ==
  /\ MainGoes("joinCleaner", "deleteServer")
  /\ at[ClearPackets] = "ended"
  /\ UNCHANGED <<at, sharedVars, pending, threw, failed>>

DeleteServer ==
  /\ MainGoes("deleteServer", "deleteSocket")
  /\ server' = FALSE /\ sock' = FALSE /\ kernel' = "closed"
  /\ UNCHANGED <<at, bindFailed, bound, broadcastSocket, tunOpen, isRunning,
                 opened, pending, threw, failed>>

\* The other two threads exist if the constructor of IpOverMesh has ended.
DeleteSocket ==
  /\ MainGoes("deleteSocket", IF at[Tun2Wifi] = "none" THEN "quit" ELSE "joinTun2Wifi")
  /\ broadcastSocket' = FALSE
  /\ UNCHANGED <<at, bindFailed, bound, sock, kernel, server, tunOpen, isRunning,
                 opened, pending, threw, failed>>

JoinTunThreads ==
  /\ \/ MainGoes("joinTun2Wifi", "joinWifi2Tun") /\ at[Tun2Wifi] = "ended"
     \/ MainGoes("joinWifi2Tun", "quit") /\ at[Wifi2Tun] = "ended"
  /\ UNCHANGED <<at, sharedVars, pending, threw, failed>>

\* flushAndQuit, and the end of main() ends every thread.
Exit ==
  /\ MainGoes("quit", "exited")
  /\ UNCHANGED <<at, sharedVars, pending, threw, failed>>

Construct ==
  \/ GiveUp \/ ConstructWifi \/ StartWifiThreads \/ OpenTun \/ ConfigureTun
  \/ Run \/ StartTunThreads

Destroy ==
  \/ Stop \/ CloseTun \/ CloseQueue \/ NotifyAll \/ CloseServer \/ Shutdown
  \/ ForgetSocket \/ JoinWifiRecv \/ JoinCleaner \/ DeleteServer \/ DeleteSocket
  \/ JoinTunThreads \/ Exit
-----------------------------------------------------------------------------
(* The threads.  Their steps change no state of the main thread.            *)

Throw(t) == Goto(t, "ended") /\ threw' = threw \cup {t} /\ UNCHANGED failed
Fail(t, how) == failed' = {<<t, how>>} /\ UNCHANGED <<at, threw>>
Go(t, where) == Goto(t, where) /\ UNCHANGED <<threw, failed>>

\* isBinded, through the pointer to the server.
TestBound(t, next) ==
  IF ~server THEN Fail(t, "gone") ELSE Go(t, IF bound THEN next ELSE "ended")

\* UDPSocket::send on the broadcast socket; sendto may fail.
Broadcast(t) ==
  IF ~broadcastSocket THEN Fail(t, "gone") ELSE Go(t, "test") \/ Throw(t)

\* Wifi::recvRun up to the call of recvfrom; BOOST_ASSERT on the pointer, then
\* on the descriptor.
RecvLoop ==
  /\ \/ /\ at[WifiRecv] = "start"
        /\ IF server THEN Go(WifiRecv, "test") ELSE Fail(WifiRecv, "gone")
     \/ at[WifiRecv] = "test" /\ TestBound(WifiRecv, "recv")
     \/ /\ at[WifiRecv] = "recv"
        /\ IF sock THEN Go(WifiRecv, "recvfrom") ELSE Fail(WifiRecv, "assert")
  /\ UNCHANGED pending

\* A datagram of another node, also one that was there before the shutdown;
\* an error of the device, or of a descriptor that was closed before the call.
RecvDatagram ==
  /\ at[WifiRecv] = "recvfrom"
  /\ \/ kernel \in {"open", "shut"} /\ Go(WifiRecv, "received")
     \/ kernel \in {"open", "closed"} /\ Throw(WifiRecv)
  /\ UNCHANGED pending

\* recvfrom gives 0 after the shutdown: "Socket is now closed".  It has to
\* give 0 then, for the shutdown wakes it.
RecvZero ==
  /\ at[WifiRecv] = "recvfrom"
  /\ kernel \in {"shut", "closed"}
  /\ Go(WifiRecv, "zero")
  /\ UNCHANGED pending

\* recvfrom gives 0 for a datagram without data too, also on an open socket.
RecvEmpty ==
  /\ at[WifiRecv] = "recvfrom"
  /\ kernel \in {"open", "shut"}
  /\ Go(WifiRecv, "empty")
  /\ UNCHANGED pending

\* Mutant: the assertion is made after every recvfrom.
VerifyClosedAlways ==
  /\ at[WifiRecv] \in {"zero", "empty", "received"}
  /\ IF sock THEN Fail(WifiRecv, "assert") ELSE Go(WifiRecv, "received")
  /\ UNCHANGED pending

\* BOOST_VERIFY(sock < 0), which takes every 0 for the shutdown.
VerifyClosed ==
  /\ UNCHANGED pending
  /\ \/ at[WifiRecv] \in {"zero", "empty"} /\ ~sock /\ Go(WifiRecv, "received")
     \/ at[WifiRecv] = "zero" /\ sock /\ Fail(WifiRecv, "assert")
     \/ at[WifiRecv] = "empty" /\ sock /\ Fail(WifiRecv, "empty")

\* The handlers answer with broadcasts, and push what is for this node; push
\* needs the mutex, which Wifi2Tun keeps until it waits.
RecvHandle ==
  \/ /\ at[WifiRecv] = "received"
     /\ TestBound(WifiRecv, "handle")
     /\ UNCHANGED pending
  \/ /\ at[WifiRecv] = "handle"
     /\ Go(WifiRecv, "test") \/ Broadcast(WifiRecv)
     /\ UNCHANGED pending
  \/ /\ at[WifiRecv] = "handle"
     /\ at[Wifi2Tun] # "sleep"
     /\ pending < MaxPending
     /\ pending' = IF opened THEN pending + 1 ELSE pending
     /\ at' = [at EXCEPT ![WifiRecv] = "test",
                 ![Wifi2Tun] = IF opened /\ @ = "asleep" THEN "pop" ELSE @]
     /\ UNCHANGED <<threw, failed>>

\* clearOutdatedPacketsLoop: NACKs are broadcast, if any are due.
Clean ==
  /\ \/ at[ClearPackets] = "test" /\ TestBound(ClearPackets, "clear")
     \/ /\ at[ClearPackets] = "clear"
        /\ Go(ClearPackets, "test") \/ Broadcast(ClearPackets)
  /\ UNCHANGED pending

\* tun2wifiLoop: isRunning is tested before and after the read, and a packet
\* is broadcast or waits for a route.
Tun2WifiLoop ==
  /\ \/ /\ at[Tun2Wifi] = "test"
        /\ Go(Tun2Wifi, IF isRunning THEN "read" ELSE "ended")
     \/ /\ at[Tun2Wifi] = "read"
        /\ Go(Tun2Wifi, IF tunOpen THEN "reading" ELSE "test")
     \/ /\ at[Tun2Wifi] = "send"
        /\ Go(Tun2Wifi, "test") \/ Broadcast(Tun2Wifi)
  /\ UNCHANGED pending

\* read returns a packet, an error, or something that is not IPv6, for which
\* IPv6Packet throws.  A read that has begun goes on after the close of the
\* descriptor.
TunRead ==
  /\ at[Tun2Wifi] = "reading"
  /\ \/ Go(Tun2Wifi, IF isRunning THEN "send" ELSE "test")
     \/ Go(Tun2Wifi, "test")
     \/ Throw(Tun2Wifi)
  /\ UNCHANGED pending

\* wifi2tunLoop around pop, which tests the queue and waits in two steps; the
\* result of write is not looked at.
Wifi2TunLoop ==
  \/ /\ at[Wifi2Tun] = "test"
     /\ Go(Wifi2Tun, IF isRunning THEN "pop" ELSE "ended")
     /\ UNCHANGED pending
  \/ /\ at[Wifi2Tun] = "pop" /\ pending > 0
     /\ pending' = pending - 1
     /\ Go(Wifi2Tun, IF isRunning THEN "write" ELSE "test")
  \/ /\ at[Wifi2Tun] = "pop" /\ pending = 0
     /\ Go(Wifi2Tun, IF opened THEN "sleep" ELSE "test")
     /\ UNCHANGED pending
  \/ /\ at[Wifi2Tun] = "sleep"
     /\ Go(Wifi2Tun, "asleep")
     /\ UNCHANGED pending
  \/ /\ at[Wifi2Tun] = "write"
     /\ Go(Wifi2Tun, "test")
     /\ UNCHANGED pending
-----------------------------------------------------------------------------
Alive == failed = {} /\ main # "exited"

MainStep == Alive /\ (Construct \/ Destroy)
Enter == Alive /\ PressEnter
ThreadStep(A) == Alive /\ A /\ UNCHANGED <<main, sharedVars>>

Next ==
  \/ MainStep \/ Enter
  \/ ThreadStep(RecvLoop) \/ ThreadStep(RecvDatagram) \/ ThreadStep(RecvZero)
  \/ ThreadStep(RecvEmpty) \/ ThreadStep(VerifyClosed) \/ ThreadStep(RecvHandle)
  \/ ThreadStep(Clean) \/ ThreadStep(Tun2WifiLoop) \/ ThreadStep(TunRead)
  \/ ThreadStep(Wifi2TunLoop)

Spec == Init /\ [][Next]_vars

\* Every thread runs.  Nobody has to press a key, to send a datagram, or to
\* give the tun device a packet.
FairSpec ==
  /\ Spec
  /\ WF_vars(MainStep)
  /\ WF_vars(ThreadStep(RecvLoop)) /\ WF_vars(ThreadStep(RecvZero))
  /\ WF_vars(ThreadStep(VerifyClosed)) /\ WF_vars(ThreadStep(RecvHandle))
  /\ WF_vars(ThreadStep(Clean)) /\ WF_vars(ThreadStep(Tun2WifiLoop))
  /\ WF_vars(ThreadStep(Wifi2TunLoop))
-----------------------------------------------------------------------------
Places == {"none", "start", "test", "recv", "recvfrom", "zero", "empty",
           "received", "handle", "clear", "read", "reading", "send", "pop", "sleep",
           "asleep", "write", "ended"}

\* Typing, and the three places where the state of the server socket is kept
\* agree: a bound server has an open socket, an open socket is not forgotten.
TypeOK ==
  /\ at \in [Thread -> Places]
  /\ {bindFailed, bound, sock, server, broadcastSocket, tunOpen, isRunning, opened}
       \subseteq BOOLEAN
  /\ kernel \in {"none", "open", "shut", "closed"}
  /\ pending \in 0 .. MaxPending
  /\ threw \subseteq Thread
  /\ failed \subseteq Thread \X {"gone", "assert", "empty"}
  /\ bound => server /\ sock /\ kernel = "open"
  /\ kernel \in {"open", "shut"} => sock /\ server

\* What a thread uses is there.  Two exceptions: Tun2Wifi, which is joined
\* last, may have passed its test of isRunning before stop and broadcast on
\* the deleted socket; and when the server was not bound, nobody waits for
\* the two threads of Wifi, which may look at the server once more.
UsesWhatExists ==
  \A t \in Thread :
    <<t, "gone">> \in failed =>
      \/ t = Tun2Wifi /\ main = "joinTun2Wifi"
      \/ bindFailed /\ t \in {WifiRecv, ClearPackets}

\* The assertions on the socket (BOOST_ASSERT(sock >= 0) before recvfrom,
\* BOOST_VERIFY(sock < 0) after it has given 0) fail in WifiRecv only, and for
\* one of two causes: Main is closing that socket at this moment, or an empty
\* datagram has come to a bound server, while the process serves or until the
\* socket is forgotten.
AbortHasCause ==
  \A t \in Thread :
    /\ <<t, "assert">> \in failed =>
         t = WifiRecv /\ main \in {"closeSocket", "forgetSocket", "joinWifiRecv"}
    /\ <<t, "empty">> \in failed => t = WifiRecv /\ sock /\ ~bindFailed

\* When main() quits the log, no thread is left that could log or use what has
\* been destroyed, also when the construction has failed after some threads
\* had started; but see UsesWhatExists for a server that was not bound.
NothingLeftRunning ==
  main \in {"quit", "exited"} =>
    \A t \in Thread :
      \/ at[t] \in {"none", "ended"}
      \/ bindFailed /\ t \in {WifiRecv, ClearPackets}

\* A loop ends because it is told to, or by an exception: none of them finds
\* its flag not yet set, or the server not yet bound, when it starts.
LoopsOutliveStart ==
  main \in {"boot", "startWifiRecv", "startCleaner", "tun", "configure", "run",
            "startTun2Wifi", "startWifi2Tun", "serving"} =>
    \A t \in Thread :
      at[t] = "ended" => t \in threw \/ (bindFailed /\ t \in {WifiRecv, ClearPackets})

\* A key press ends the process, unless a failed assertion or a deleted object
\* ends it before, or one of two threads is never woken: Tun2Wifi in a read of the
\* tun device, Wifi2Tun when the queue was closed between its test and its
\* wait.
ShutdownEnds ==
  main = "stop" ~> \/ main = "exited"
                   \/ failed # {}
                   \/ [](at[Tun2Wifi] = "reading")
                   \/ [](at[Wifi2Tun] = "asleep")
=============================================================================

-------------------------- MODULE TcpServer_proofs -------------------------
(***************************************************************************)
(* TcpServer for any number of connections and descriptors: its types, and *)
(* the three safety invariants that the runs check on small instances.     *)
(* They follow from one inductive invariant, which says who may hold a     *)
(* descriptor number that the kernel could hand out again.                 *)
(***************************************************************************)
EXTENDS TcpServer, TLAPS

\* The accept thread holds a connection exactly between accept() and spawn.
InHand(c) == apc \in {"push", "spawn"} /\ conn = c

\* Thread c, or the accept thread for it, will still use its descriptor.
Holds(c) == hpc[c] \in Serving \/ InHand(c)

\* The stages of the main thread fit the flags and the other threads.
StageInv ==
  /\ running => mpc = "running"
  /\ listening => mpc \in {"running", "close_listener"}
  /\ running => listening
  /\ mpc \in {"start", "threw"} =>
       apc = "none" /\ \A c \in Clients : hpc[c] = "none"
  /\ mpc \in {"join_handlers", "stopped"} => apc = "exited"
  /\ mpc = "stopped" => \A c \in Clients : hpc[c] \in {"none", "exited"}

\* A connection is accepted once, and has a descriptor from then on.
AcceptInv ==
  /\ apc \in {"push", "spawn"} => conn \in Clients /\ hpc[conn] = "none"
  /\ \A c \in Clients : peer[c] \in {"new", "pending"} => hpc[c] = "none" /\ ~InHand(c)
  /\ \A c \in Clients : (hpc[c] # "none" \/ InHand(c)) => hfd[c] \in Fds

\* A number that is held is the holder's own, or it was closed by stop(),
\* after which nothing is accepted any more.
HeldInv ==
  \A c \in Clients : Holds(c) =>
    \/ owner[hfd[c]] = c
    \/ owner[hfd[c]] = NoConn /\ ~listening

\* An open descriptor is held by the thread of its connection.
OwnedInv ==
  \A f \in Fds, c \in Clients : owner[f] = c => Holds(c) /\ hfd[c] = f

\* An entry of client_fds_ has a thread that will still erase it.
EntryInv ==
  \A f \in client_fds : \E c \in Clients :
    /\ hfd[c] = f
    /\ hpc[c] \in Serving \cup {"erase"} \/ (apc = "spawn" /\ conn = c)

IInv == TypeOK /\ StageInv /\ AcceptInv /\ HeldInv /\ OwnedInv /\ EntryInv

-----------------------------------------------------------------------------
\* A server that has not started: no thread, no descriptor, no entry.
LEMMA InitIInv == Init => IInv
<1> SUFFICES ASSUME Init PROVE IInv
  OBVIOUS
<1>1. TypeOK
  BY DEF Init, TypeOK, Serving, NoFd
<1>2. StageInv /\ AcceptInv
  BY DEF Init, StageInv, AcceptInv, InHand
<1>3. HeldInv /\ OwnedInv
  BY ClientsAssumption DEF Init, HeldInv, OwnedInv, Holds, InHand, Serving
<1>4. EntryInv
  BY DEF Init, EntryInv
<1> QED
  BY <1>1, <1>2, <1>3, <1>4 DEF IInv

\* Each step of the main thread, the accept thread, a handler or a client
\* keeps the invariant.
LEMMA StepIInv == IInv /\ [Next]_vars => IInv'
<1> SUFFICES ASSUME IInv, [Next]_vars PROVE IInv'
  OBVIOUS
<1> USE ClientsAssumption
    DEF IInv, TypeOK, StageInv, AcceptInv, HeldInv, OwnedInv, EntryInv,
        Holds, InHand, Serving, NoFd,
        mainVars, acceptVars, handlerVars, tableVars
<1>1. CASE start
  <2>1. TypeOK'
    BY <1>1 DEF start
  <2>2. StageInv'
    BY <1>1 DEF start
  <2>3. AcceptInv'
    BY <1>1 DEF start
  <2>4. HeldInv'
    BY <1>1 DEF start
  <2>5. OwnedInv'
    BY <1>1 DEF start
  <2>6. EntryInv'
    BY <1>1 DEF start
  <2> QED
    BY <2>1, <2>2, <2>3, <2>4, <2>5, <2>6
<1>2. CASE start_throws
  BY <1>2 DEF start_throws
<1>3. CASE stop
  <2>1. TypeOK'
    BY <1>3 DEF stop
  <2>2. StageInv'
    BY <1>3 DEF stop
  <2>3. AcceptInv'
    BY <1>3 DEF stop
  <2>4. HeldInv'
    BY <1>3 DEF stop
  <2>5. OwnedInv'
    BY <1>3 DEF stop
  <2>6. EntryInv'
    BY <1>3 DEF stop
  <2> QED
    BY <2>1, <2>2, <2>3, <2>4, <2>5, <2>6
<1>4. CASE stop_listener
  <2>1. TypeOK'
    BY <1>4 DEF stop_listener
  <2>2. StageInv'
    BY <1>4 DEF stop_listener
  <2>3. AcceptInv'
    BY <1>4 DEF stop_listener
  <2>4. HeldInv'
    BY <1>4 DEF stop_listener
  <2>5. OwnedInv'
    BY <1>4 DEF stop_listener
  <2>6. EntryInv'
    BY <1>4 DEF stop_listener
  <2> QED
    BY <2>1, <2>2, <2>3, <2>4, <2>5, <2>6
<1>5. CASE stop_lock
  BY <1>5 DEF stop_lock
<1>6. CASE stop_clear
  BY <1>6 DEF stop_clear
<1>7. CASE join_accept
  BY <1>7 DEF join_accept
<1>8. CASE join_handlers
  BY <1>8 DEF join_handlers
<1>9. CASE accept_check
  BY <1>9 DEF accept_check
<1>10. CASE accept_fails
  BY <1>10 DEF accept_fails
<1>11. CASE push_fd
  BY <1>11 DEF push_fd
<1>12. CASE spawn_handler
  BY <1>12 DEF spawn_handler
\* A number that stop() closes loses its owner; the listener is shut by then.
<1>13. ASSUME NEW f \in Fds, stop_client(f) PROVE IInv'
  BY <1>13 DEF stop_client
\* The number was free, so no other thread holds it while the server listens.
<1>14. ASSUME NEW c \in Clients, NEW f \in Fds, accept_ok(c, f) PROVE IInv'
  BY <1>14 DEF accept_ok
<1>15. ASSUME NEW c \in Clients, handler_check(c) PROVE IInv'
  BY <1>15 DEF handler_check, goto
<1>16. ASSUME NEW c \in Clients, recv_header(c) PROVE IInv'
  BY <1>16 DEF recv_header, goto
<1>17. ASSUME NEW c \in Clients, recv_header_fails(c) PROVE IInv'
  BY <1>17 DEF recv_header_fails, goto
<1>18. ASSUME NEW c \in Clients, recv_payload(c) PROVE IInv'
  BY <1>18 DEF recv_payload, goto
<1>19. ASSUME NEW c \in Clients, recv_payload_fails(c) PROVE IInv'
  BY <1>19 DEF recv_payload_fails, goto
<1>20. ASSUME NEW c \in Clients, send_response(c) PROVE IInv'
  BY <1>20 DEF send_response, goto
<1>21. ASSUME NEW c \in Clients, send_response_fails(c) PROVE IInv'
  BY <1>21 DEF send_response_fails, goto
\* The handler stops holding its number with the close that frees it.
<1>22. ASSUME NEW c \in Clients, close_fd(c) PROVE IInv'
  BY <1>22 DEF close_fd
\* Every other entry has another number, hence another thread than this one.
<1>23. ASSUME NEW c \in Clients, erase_fd(c) PROVE IInv'
  BY <1>23 DEF erase_fd
<1>24. ASSUME NEW c \in Clients, Peer(c) PROVE IInv'
  BY <1>24 DEF Peer, peer_connects, peer_stalls, peer_closes, peer_step
<1>25. CASE UNCHANGED vars
  BY <1>25 DEF vars
<1> QED
  BY <1>1, <1>2, <1>3, <1>4, <1>5, <1>6, <1>7, <1>8, <1>9, <1>10, <1>11, <1>12,
     <1>13, <1>14, <1>15, <1>16, <1>17, <1>18, <1>19, <1>20, <1>21, <1>22, <1>23,
     <1>24, <1>25
  DEF Next, Main, Accept, Handler, Arrives, Proceeds, Terminated

\* The inductive invariant holds in every reachable state.
LEMMA Invariance == Spec => []IInv
BY InitIInv, StepIInv, PTL DEF Spec

\* No action of any thread stores what its C++ variable could not hold.
THEOREM TypeCorrect == Spec => []TypeOK
<1>1. IInv => TypeOK
  BY DEF IInv
<1> QED
  BY <1>1, Invariance, PTL

\* For any number of connections and descriptors: no handler receives from,
\* sends to or closes a descriptor that means another client's connection.
THEOREM NoCrossTalkHolds == Spec => []NoCrossTalk
<1>1. IInv => NoCrossTalk
  BY DEF IInv, HeldInv, Holds, NoCrossTalk
<1> QED
  BY <1>1, Invariance, PTL

\* While the server runs, only a handler itself closes its connection.
THEOREM OpenWhileServingHolds == Spec => []OpenWhileServing
<1>1. IInv => OpenWhileServing
  BY DEF IInv, StageInv, HeldInv, Holds, OpenWhileServing, Usable
<1> QED
  BY <1>1, Invariance, PTL

\* When stop() has returned no thread, open descriptor or entry is left.
THEOREM StopLeavesNothingHolds == Spec => []StopLeavesNothing
<1>1. ASSUME IInv, mpc = "stopped"
      PROVE  /\ ~listening /\ apc = "exited"
             /\ \A c \in Clients : hpc[c] \in {"none", "exited"}
    BY <1>1 DEF IInv, StageInv
<1>2. ASSUME IInv, mpc = "stopped", NEW f \in Fds
      PROVE  owner[f] = NoConn
    BY <1>1, <1>2 DEF IInv, TypeOK, OwnedInv, Holds, InHand, Serving
<1>3. ASSUME IInv, mpc = "stopped"
      PROVE  client_fds = {}
    BY <1>1, <1>3 DEF IInv, EntryInv, Serving
<1>4. IInv => StopLeavesNothing
  BY <1>1, <1>2, <1>3 DEF StopLeavesNothing
<1> QED
  BY <1>4, Invariance, PTL
=============================================================================

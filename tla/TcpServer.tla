----------------------------- MODULE TcpServer -----------------------------
(***************************************************************************)
(* The threads and file descriptors of TcpServer (src/src/tcp_server.cpp): *)
(* the main thread starts the server and, after SIGINT, stops it; the      *)
(* accept thread takes connections and spawns one handler per connection;  *)
(* each handler echoes until its connection fails or the server stops.     *)
(*                                                                         *)
(* Descriptors are numbers that the kernel hands out again after a close,  *)
(* lowest first.  stop(), the accept thread and the handlers all pass      *)
(* these numbers around, so `owner` says which connection a number means   *)
(* now.  Bytes are left out (module TcpSession has them): a receive or a   *)
(* send just succeeds or fails.                                            *)
(***************************************************************************)
EXTENDS Integers

CONSTANTS
  Clients,     \* the connections clients will try to open
  NoConn,      \* not a connection
  Fds          \* descriptor numbers left for connections (RLIMIT_NOFILE)

ASSUME ClientsAssumption == NoConn \notin Clients
ASSUME FdsAssumption == Fds \subseteq Nat

VARIABLES
  mpc,         \* the main thread, in start(), run_server() and stop()
  running,     \* running_
  listening,   \* listen_fd_ is an open listening socket
  todo,        \* the entries of client_fds_ that stop() has still to close
  apc,         \* the accept thread
  conn,        \* the connection the accept thread holds, or NoConn
  client_fds,  \* client_fds_ as a set: a repeated entry changes nothing
  owner,       \* the kernel's table: the connection open at each descriptor
  hpc,         \* the handler of each connection
  hfd,         \* its argument fd (0 while there is none)
  peer         \* the client's end of each connection

mainVars == <<mpc, running, listening, todo>>
acceptVars == <<apc, conn>>
handlerVars == <<hpc>>
tableVars == <<client_fds, owner, hfd>>
vars == <<mainVars, acceptVars, handlerVars, tableVars, peer>>

NoFd == 0

\* Where a handler is from the moment its thread exists to its close(fd).
Serving == {"loop", "recv_header", "recv_payload", "send", "close"}

Init ==
  /\ mpc = "start" /\ running = FALSE /\ listening = FALSE /\ todo = {}
  /\ apc = "none" /\ conn = NoConn
  /\ client_fds = {}
  /\ owner = [f \in Fds |-> NoConn]
  /\ hpc = [c \in Clients |-> "none"]
  /\ hfd = [c \in Clients |-> NoFd]
  /\ peer = [c \in Clients |-> "new"]

-----------------------------------------------------------------------------
\* The main thread.

\* start(): the listener is up, running_ set and the accept thread spawned.
start ==
  /\ mpc = "start"
  /\ mpc' = "running" /\ running' = TRUE /\ listening' = TRUE
  /\ apc' = "loop"
  /\ UNCHANGED <<todo, conn, handlerVars, tableVars, peer>>

\* setup_listener() throws; ~TcpServer finds running_ false and does nothing.
start_throws ==
  /\ mpc = "start"
  /\ mpc' = "threw"
  /\ UNCHANGED <<running, listening, todo>>
  /\ UNCHANGED <<acceptVars, handlerVars, tableVars, peer>>

\* run_server() sees g_running cleared and calls stop(): running_ = false.
stop ==
  /\ mpc = "running"
  /\ running' = FALSE
  /\ mpc' = "close_listener"
  /\ UNCHANGED <<listening, todo, acceptVars, handlerVars, tableVars, peer>>

\* Mutant: the listener goes on accepting.
stop_listener_left_open ==
  /\ mpc = "close_listener"
  /\ mpc' = "lock_fds"
  /\ UNCHANGED <<running, listening, todo>>
  /\ UNCHANGED <<acceptVars, handlerVars, tableVars, peer>>

\* shutdown and close of listen_fd_.
stop_listener ==
  /\ mpc = "close_listener"
  /\ listening' = FALSE
  /\ mpc' = "lock_fds"
  /\ UNCHANGED <<running, todo, acceptVars, handlerVars, tableVars, peer>>

\* fds_mu_ is taken for the loop over client_fds_; mpc = "close_clients" is
\* the span of that lock.
stop_lock ==
  /\ mpc = "lock_fds"
  /\ todo' = client_fds
  /\ mpc' = "close_clients"
  /\ UNCHANGED <<running, listening, acceptVars, handlerVars, tableVars, peer>>

\* shutdown(fd) and close(fd) of one entry; a number that is not open any
\* more is an error nobody looks at.
stop_client(f) ==
  /\ mpc = "close_clients" /\ f \in todo
  /\ todo' = todo \ {f}
  /\ owner' = [owner EXCEPT ![f] = NoConn]
  /\ UNCHANGED <<mpc, running, listening, client_fds, hfd>>
  /\ UNCHANGED <<acceptVars, handlerVars, peer>>

\* client_fds_.clear() and the end of the lock.
stop_clear ==
  /\ mpc = "close_clients" /\ todo = {}
  /\ client_fds' = {}
  /\ mpc' = "join_accept"
  /\ UNCHANGED <<running, listening, todo, owner, hfd>>
  /\ UNCHANGED <<acceptVars, handlerVars, peer>>

\* accept_thread_.join()
join_accept ==
  /\ mpc = "join_accept" /\ apc = "exited"
  /\ mpc' = "join_handlers"
  /\ UNCHANGED <<running, listening, todo>>
  /\ UNCHANGED <<acceptVars, handlerVars, tableVars, peer>>

\* Mutant: stop() does not wait for the handlers.
join_no_handlers ==
  /\ mpc = "join_handlers"
  /\ mpc' = "stopped"
  /\ UNCHANGED <<running, listening, todo>>
  /\ UNCHANGED <<acceptVars, handlerVars, tableVars, peer>>

\* t.join() for every thread of conn_threads_.
join_handlers ==
  /\ mpc = "join_handlers"
  /\ \A c \in Clients : hpc[c] \in {"none", "exited"}
  /\ mpc' = "stopped"
  /\ UNCHANGED <<running, listening, todo>>
  /\ UNCHANGED <<acceptVars, handlerVars, tableVars, peer>>

\* What the main thread does of itself: all but the signal that starts stop().
Main ==
  \/ start \/ start_throws \/ stop_listener \/ stop_lock
  \/ \E f \in Fds : stop_client(f)
  \/ stop_clear \/ join_accept \/ join_handlers

-----------------------------------------------------------------------------
\* The accept thread.

\* while (running_)
accept_check ==
  /\ apc = "loop"
  /\ apc' = IF running THEN "accept" ELSE "exited"
  /\ UNCHANGED <<conn, mainVars, handlerVars, tableVars, peer>>

\* accept() takes a connection and the lowest free number.
accept_ok(c, f) ==
  /\ apc = "accept" /\ listening /\ peer[c] = "pending"
  /\ owner[f] = NoConn
  /\ \A g \in Fds : owner[g] = NoConn => f <= g
  /\ owner' = [owner EXCEPT ![f] = c]
  /\ hfd' = [hfd EXCEPT ![c] = f]
  /\ conn' = c
  /\ peer' = [peer EXCEPT ![c] = "open"]
  /\ apc' = "push"
  /\ UNCHANGED <<client_fds, mainVars, handlerVars>>

\* accept() fails on the closed listener or, with a connection waiting, for
\* want of a descriptor or of memory; it blocks otherwise.  The break and the
\* continue both come to a test of running_.
accept_fails ==
  /\ apc = "accept"
  /\ ~listening \/ \E c \in Clients : peer[c] = "pending"
  /\ apc' = "loop"
  /\ UNCHANGED <<conn, mainVars, handlerVars, tableVars, peer>>

\* client_fds_.push_back(client_fd), under fds_mu_.
push_fd ==
  /\ apc = "push" /\ mpc # "close_clients"
  /\ client_fds' = client_fds \cup {hfd[conn]}
  /\ apc' = "spawn"
  /\ UNCHANGED <<conn, owner, hfd, mainVars, handlerVars, peer>>

\* conn_threads_.emplace_back(&TcpServer::connection_handler, client_fd)
spawn_handler ==
  /\ apc = "spawn"
  /\ hpc' = [hpc EXCEPT ![conn] = "loop"]
  /\ conn' = NoConn
  /\ apc' = "loop"
  /\ UNCHANGED <<mainVars, tableVars, peer>>

Accept ==
  \/ accept_check
  \/ \E c \in Clients, f \in Fds : accept_ok(c, f)
  \/ accept_fails \/ push_fd \/ spawn_handler

-----------------------------------------------------------------------------
\* connection_handler(fd) of connection c.

goto(c, there) ==
  /\ hpc' = [hpc EXCEPT ![c] = there]
  /\ UNCHANGED <<mainVars, acceptVars, tableVars, peer>>

\* The handler's number still means its own connection.
Usable(c) == owner[hfd[c]] = c

\* while (running_)
handler_check(c) ==
  /\ hpc[c] = "loop"
  /\ goto(c, IF running THEN "recv_header" ELSE "close")

\* A header arrives: too large a payload ends the loop, an empty one needs no
\* second receive.
recv_header(c) ==
  /\ hpc[c] = "recv_header" /\ Usable(c)
  /\ \E next \in {"recv_payload", "send", "close"} : goto(c, next)

\* Mutant: without SO_RCVTIMEO a receive ends only by data, by the peer's
\* close or by a shutdown.
recv_header_blocks(c) ==
  /\ hpc[c] = "recv_header" /\ (~Usable(c) \/ peer[c] = "closed")
  /\ goto(c, "loop")

\* The receive fails: SO_RCVTIMEO expires, the peer has closed, or stop() has
\* shut the descriptor.  Break and continue both come to a test of running_.
recv_header_fails(c) ==
  /\ hpc[c] = "recv_header"
  /\ goto(c, "loop")

recv_payload(c) ==
  /\ hpc[c] = "recv_payload" /\ Usable(c)
  /\ goto(c, "send")

recv_payload_fails(c) ==
  /\ hpc[c] = "recv_payload"
  /\ goto(c, "close")

\* The response, header and payload.  A full socket buffer blocks the send:
\* SO_SNDTIMEO is not set.
send_response(c) ==
  /\ hpc[c] = "send" /\ Usable(c) /\ peer[c] = "open"
  /\ goto(c, "loop")

send_response_fails(c) ==
  /\ hpc[c] = "send" /\ (~Usable(c) \/ peer[c] = "closed")
  /\ goto(c, "close")

\* close(fd), whoever the number means by now.
close_fd(c) ==
  /\ hpc[c] = "close"
  /\ owner' = [owner EXCEPT ![hfd[c]] = NoConn]
  /\ hpc' = [hpc EXCEPT ![c] = "erase"]
  /\ UNCHANGED <<client_fds, hfd, mainVars, acceptVars, peer>>

\* Mutant: the descriptor is closed a second time with the erase.
erase_closes_again(c) ==
  /\ hpc[c] = "erase" /\ mpc # "close_clients"
  /\ client_fds' = client_fds \ {hfd[c]}
  /\ owner' = [owner EXCEPT ![hfd[c]] = NoConn]
  /\ hpc' = [hpc EXCEPT ![c] = "exited"]
  /\ UNCHANGED <<hfd, mainVars, acceptVars, peer>>

\* The erase, under fds_mu_, of every entry with this number: also that of a
\* newer connection that has the number again.
erase_fd(c) ==
  /\ hpc[c] = "erase" /\ mpc # "close_clients"
  /\ client_fds' = client_fds \ {hfd[c]}
  /\ hpc' = [hpc EXCEPT ![c] = "exited"]
  /\ UNCHANGED <<owner, hfd, mainVars, acceptVars, peer>>

\* What the client sends arrives.
Arrives(c) == recv_header(c) \/ recv_payload(c)

\* What the handler does of itself.
Proceeds(c) ==
  \/ handler_check(c) \/ recv_header_fails(c) \/ recv_payload_fails(c)
  \/ send_response(c) \/ send_response_fails(c)
  \/ close_fd(c) \/ erase_fd(c)

Handler(c) == Arrives(c) \/ Proceeds(c)

-----------------------------------------------------------------------------
\* The clients: they connect, may stop reading, and close, when they like.

peer_step(c, from, to) ==
  /\ peer[c] \in from
  /\ peer' = [peer EXCEPT ![c] = to]
  /\ UNCHANGED <<mainVars, acceptVars, handlerVars, tableVars>>

peer_connects(c) == listening /\ peer_step(c, {"new"}, "pending")

peer_stalls(c) == peer_step(c, {"open"}, "stalled")

peer_closes(c) == peer_step(c, {"open", "stalled"}, "closed")

Peer(c) == peer_connects(c) \/ peer_stalls(c) \/ peer_closes(c)

Terminated == mpc \in {"stopped", "threw"} /\ UNCHANGED vars

Next ==
  \/ Main \/ stop \/ Accept
  \/ \E c \in Clients : Handler(c) \/ Peer(c)
  \/ Terminated

Spec == Init /\ [][Next]_vars

\* The OS runs every thread; a receive ends after a second at the latest.  No
\* signal need ever come, and the clients need send nothing.
FairSpec ==
  /\ Spec
  /\ WF_vars(Main)
  /\ WF_vars(Accept)
  /\ \A c \in Clients : WF_vars(Proceeds(c))

-----------------------------------------------------------------------------
\* Program counters, flags and tables have the values of their C++ types; in
\* particular stop() only ever closes numbers of client connections.
TypeOK ==
  /\ mpc \in {"start", "threw", "running", "close_listener", "lock_fds",
              "close_clients", "join_accept", "join_handlers", "stopped"}
  /\ running \in BOOLEAN /\ listening \in BOOLEAN
  /\ todo \subseteq Fds /\ client_fds \subseteq Fds
  /\ apc \in {"none", "loop", "accept", "push", "spawn", "exited"}
  /\ conn \in Clients \cup {NoConn}
  /\ owner \in [Fds -> Clients \cup {NoConn}]
  /\ hpc \in [Clients -> Serving \cup {"none", "erase", "exited"}]
  /\ hfd \in [Clients -> Fds \cup {NoFd}]
  /\ peer \in [Clients -> {"new", "pending", "open", "stalled", "closed"}]

\* No handler ever receives from, sends to or closes a descriptor that by now
\* means another client's connection, although stop() closes descriptors
\* under the handlers and the kernel hands the numbers out again.
NoCrossTalk ==
  \A c \in Clients : hpc[c] \in Serving => owner[hfd[c]] \in {c, NoConn}

\* While the server runs, a handler's connection is open until the handler
\* itself closes it.
OpenWhileServing ==
  \A c \in Clients : running /\ hpc[c] \in Serving => Usable(c)

\* When stop() returns, every thread has ended, every descriptor is closed,
\* also that of a connection accepted while stop() ran, and client_fds_ is
\* empty.
StopLeavesNothing ==
  mpc = "stopped" =>
    /\ ~listening /\ apc = "exited"
    /\ \A c \in Clients : hpc[c] \in {"none", "exited"}
    /\ \A f \in Fds : owner[f] = NoConn
    /\ client_fds = {}

\* Once stop() is called it returns, or waits for ever in its last join for a
\* handler that is blocked in a send, to a client that does not read, on a
\* descriptor that stop() did not shut down.  Nothing else can hold it: no
\* mutex, no receive, no accept.
StopUnlessBlocked ==
  LET blocked(c) == hpc[c] = "send" /\ peer[c] = "stalled" /\ Usable(c) IN
  (mpc = "close_listener") ~>
    (mpc = "stopped" \/ [](mpc = "join_handlers" /\ \E c \in Clients : blocked(c)))

\* "Press Ctrl+C to stop.": once stop() is called it returns.
StopTerminates == (mpc = "close_listener") ~> (mpc = "stopped")
=============================================================================

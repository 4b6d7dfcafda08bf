---------------------------- MODULE TcpSession -----------------------------
(***************************************************************************)
(* One connection at the level of the byte stream: TcpClient::do_request   *)
(* (src/src/tcp_client.cpp) against TcpServer::connection_handler          *)
(* (src/src/tcp_server.cpp), request after request.                        *)
(*                                                                         *)
(* A message is a frame of HdrLen header units and `size` payload units; a *)
(* unit stands for some bytes that a send or a receive may be split at.    *)
(* Each direction is a FIFO that holds Cap units.  The server's receives   *)
(* time out after a second (SO_RCVTIMEO), the client's never do.           *)
(***************************************************************************)
EXTENDS Naturals, Sequences, FiniteSets

CONSTANTS
  HdrLen,       \* sizeof(MessageHeader), in units
  MaxPayload,   \* MAX_PAYLOAD_SIZE, in units
  Sizes,        \* the sizes a request may have
  NumRequests,  \* requests the client does on the connection
  Cap           \* units that socket buffers and network hold, one way

ASSUME FrameAssumption == HdrLen \in Nat \ {0} /\ MaxPayload \in Nat
ASSUME SizesAssumption == Sizes \subseteq Nat
ASSUME CapAssumption == Cap \in Nat \ {0} /\ NumRequests \in Nat

VARIABLES
  c2s, s2c,       \* the two directions of the connection
  reset,          \* the server's kernel has answered with RST
  cpc,            \* the client, in do_request()
  id, size,       \* the request it is doing
  out,            \* units it has still to send
  got,            \* units of the response it has received
  resp,           \* <<the response's header>> once it has one
  outcomes,       \* what do_request() returned, request by request
  spc,            \* the connection's handler
  hdr,            \* hdr
  hdr_buf,        \* units of the header the handler has received
  payload_buf,    \* units of the payload it has received
  reply,          \* units it has still to send
  request_count,  \* request_count_, as far as this connection adds to it
  cut             \* history: the server has dropped part of a header

clientVars == <<cpc, id, size, out, got, resp, outcomes>>
serverVars == <<spc, hdr, hdr_buf, payload_buf, reply, request_count, cut>>
vars == <<c2s, s2c, reset, clientVars, serverVars>>

\* The units of a message; each carries what the header says and its place.
Frame(n, len) ==
  [j \in 1 .. HdrLen + len |-> [id |-> n, size |-> len, part |-> j]]

Header(n, len) == SubSeq(Frame(n, len), 1, HdrLen)

NoId == 0

\* deserialize_header(): the header that was sent if these units are one, and
\* whatever the bytes happen to mean if they are not.
deserialize_header(units) ==
  IF units = Header(units[1].id, units[1].size)
  THEN {[id |-> units[1].id, size |-> units[1].size]}
  ELSE [id : {NoId}, size : 0 .. MaxPayload + 1]

Init ==
  /\ c2s = <<>> /\ s2c = <<>> /\ reset = FALSE
  /\ cpc = "idle" /\ id = NoId /\ size = 0
  /\ out = <<>> /\ got = <<>> /\ resp = <<>>
  /\ outcomes = <<>>
  /\ spc = "recv_header" /\ hdr = <<>>
  /\ hdr_buf = <<>> /\ payload_buf = <<>> /\ reply = <<>>
  /\ request_count = 0
  /\ cut = FALSE

-----------------------------------------------------------------------------
\* The client: do_request().

begin ==
  /\ cpc = "idle" /\ Len(outcomes) < NumRequests
  /\ id' = Len(outcomes) + 1
  /\ size' \in Sizes
  /\ out' = Frame(id', size')
  /\ got' = <<>> /\ resp' = <<>>
  /\ cpc' = "send"
  /\ UNCHANGED <<outcomes, c2s, s2c, reset, serverVars>>

\* send_exact() of header and payload, as much as there is room for.
client_send ==
  /\ cpc = "send" /\ spc # "closed" /\ Len(c2s) < Cap
  /\ c2s' = Append(c2s, Head(out))
  /\ out' = Tail(out)
  /\ cpc' = IF Len(out) = 1 THEN "recv_header" ELSE "send"
  /\ UNCHANGED <<id, size, got, resp, outcomes, s2c, reset, serverVars>>

\* The server has closed: the first units sent vanish and bring back a RST.
client_send_lost ==
  /\ cpc = "send" /\ spc = "closed" /\ ~reset
  /\ reset' = TRUE
  /\ out' = Tail(out)
  /\ cpc' = IF Len(out) = 1 THEN "recv_header" ELSE "send"
  /\ UNCHANGED <<id, size, got, resp, outcomes, c2s, s2c, serverVars>>

return(ok) ==
  /\ outcomes' = Append(outcomes,
       [ok |-> ok, echo |-> got = Frame(id, size), size |-> size])
  /\ cpc' = "idle"
  /\ UNCHANGED <<id, size, out, got, resp, c2s, s2c, reset, serverVars>>

client_send_fails ==
  /\ cpc = "send" /\ reset
  /\ return(FALSE)

\* recv_exact(), unit by unit; the response may end with its header.
client_recv ==
  /\ cpc \in {"recv_header", "recv_payload"} /\ s2c # <<>>
  /\ got' = Append(got, Head(s2c))
  /\ s2c' = Tail(s2c)
  /\ cpc' = CASE Len(got') < HdrLen -> "recv_header"
              [] Len(got') = HdrLen -> "parse"
              [] Len(got') > HdrLen /\ Len(got') < HdrLen + resp[1].size -> "recv_payload"
              [] OTHER -> "return"
  /\ UNCHANGED <<id, size, out, resp, outcomes, c2s, reset, serverVars>>

\* The response's own payload_size, not the request's, says what follows.
client_parse ==
  /\ cpc = "parse"
  /\ \E h \in deserialize_header(got) :
       /\ resp' = <<h>>
       /\ cpc' = IF h.size > 0 THEN "recv_payload" ELSE "return"
  /\ UNCHANGED <<id, size, out, got, outcomes, c2s, s2c, reset, serverVars>>

\* A round-trip time; resp.id is not looked at.
client_return == cpc = "return" /\ return(TRUE)

\* Mutant: the client's receives time out as well.
client_recv_times_out ==
  /\ cpc \in {"recv_header", "recv_payload"}
  /\ return(FALSE)

\* End of stream, or the RST.
client_recv_fails ==
  /\ cpc \in {"recv_header", "recv_payload"}
  /\ spc = "closed" /\ (s2c = <<>> \/ reset)
  /\ return(FALSE)

Client ==
  \/ begin \/ client_send \/ client_send_lost \/ client_send_fails
  \/ client_recv \/ client_parse \/ client_return \/ client_recv_fails

-----------------------------------------------------------------------------
\* The server: connection_handler().

\* break, close(fd): unread data makes it a RST at once.
close ==
  /\ spc' = "closed"
  /\ reset' = (c2s # <<>>)
  /\ c2s' = <<>>

server_recv_header ==
  /\ spc = "recv_header" /\ c2s # <<>>
  /\ hdr_buf' = Append(hdr_buf, Head(c2s))
  /\ c2s' = Tail(c2s)
  /\ spc' = IF Len(hdr_buf') = HdrLen THEN "parse" ELSE "recv_header"
  /\ UNCHANGED <<hdr, payload_buf, reply, request_count, cut>>
  /\ UNCHANGED <<s2c, reset, clientVars>>

\* The receive times out: the loop starts the header anew and forgets what it
\* has of it.  (With nothing received yet, this changes nothing.)
server_header_timeout ==
  /\ spc = "recv_header" /\ hdr_buf # <<>>
  /\ hdr_buf' = <<>>
  /\ cut' = TRUE
  /\ UNCHANGED <<spc, hdr, payload_buf, reply, request_count>>
  /\ UNCHANGED <<c2s, s2c, reset, clientVars>>

\* request_count_.fetch_add(1), and the response: the header as read, the
\* payload as received.
respond(h, payload) ==
  /\ request_count' = request_count + 1
  /\ reply' = Header(h.id, h.size) \o payload
  /\ spc' = "send"

\* Mutant: requests are counted when their header is read.
server_parse_counts ==
  /\ spc = "parse"
  /\ \E h \in deserialize_header(hdr_buf) :
       /\ hdr' = <<h>> /\ hdr_buf' = <<>> /\ payload_buf' = <<>>
       /\ request_count' = request_count + 1
       /\ \/ /\ h.size > MaxPayload /\ close
             /\ UNCHANGED reply
          \/ /\ h.size = 0
             /\ reply' = Header(h.id, h.size) /\ spc' = "send"
             /\ UNCHANGED <<c2s, reset>>
          \/ /\ h.size \in 1 .. MaxPayload
             /\ spc' = "recv_payload"
             /\ UNCHANGED <<c2s, reset, reply>>
  /\ UNCHANGED <<s2c, cut, clientVars>>

\* Mutant: the handler goes on to the next header after one with too large a
\* payload.
server_parse_skips ==
  /\ spc = "parse"
  /\ \E h \in deserialize_header(hdr_buf) :
       /\ hdr' = <<h>> /\ hdr_buf' = <<>> /\ payload_buf' = <<>>
       /\ IF h.size = 0 THEN respond(h, <<>>)
          ELSE /\ spc' = IF h.size > MaxPayload THEN "recv_header" ELSE "recv_payload"
               /\ UNCHANGED <<reply, request_count>>
  /\ UNCHANGED <<c2s, reset, s2c, cut, clientVars>>

\* What the header asks for: a payload above the limit ends the connection.
server_parse ==
  /\ spc = "parse"
  /\ \E h \in deserialize_header(hdr_buf) :
       /\ hdr' = <<h>> /\ hdr_buf' = <<>> /\ payload_buf' = <<>>
       /\ \/ /\ h.size > MaxPayload /\ close
             /\ UNCHANGED <<reply, request_count>>
          \/ /\ h.size = 0 /\ respond(h, <<>>)
             /\ UNCHANGED <<c2s, reset>>
          \/ /\ h.size \in 1 .. MaxPayload
             /\ spc' = "recv_payload"
             /\ UNCHANGED <<c2s, reset, reply, request_count>>
  /\ UNCHANGED <<s2c, cut, clientVars>>

server_recv_payload ==
  /\ spc = "recv_payload" /\ c2s # <<>>
  /\ payload_buf' = Append(payload_buf, Head(c2s))
  /\ c2s' = Tail(c2s)
  /\ IF Len(payload_buf') = hdr[1].size
     THEN respond(hdr[1], payload_buf')
     ELSE UNCHANGED <<spc, reply, request_count>>
  /\ UNCHANGED <<hdr, hdr_buf, cut, s2c, reset, clientVars>>

\* Mutant: a payload that times out is dropped, the connection kept.
payload_timeout_continues ==
  /\ spc = "recv_payload"
  /\ spc' = "recv_header"
  /\ UNCHANGED <<hdr, hdr_buf, payload_buf, reply, request_count, cut>>
  /\ UNCHANGED <<c2s, s2c, reset, clientVars>>

server_payload_timeout ==
  /\ spc = "recv_payload"
  /\ close
  /\ UNCHANGED <<hdr, hdr_buf, payload_buf, reply, request_count, cut>>
  /\ UNCHANGED <<s2c, clientVars>>

server_send ==
  /\ spc = "send" /\ Len(s2c) < Cap
  /\ s2c' = Append(s2c, Head(reply))
  /\ reply' = Tail(reply)
  /\ spc' = IF Len(reply) = 1 THEN "recv_header" ELSE "send"
  /\ UNCHANGED <<hdr, hdr_buf, payload_buf, request_count, cut>>
  /\ UNCHANGED <<c2s, reset, clientVars>>

\* The steps the server takes unless the network makes it wait too long.
Server ==
  \/ server_recv_header \/ server_parse \/ server_recv_payload \/ server_send

Timeout == server_header_timeout \/ server_payload_timeout

Terminated ==
  /\ cpc = "idle" /\ Len(outcomes) = NumRequests
  /\ UNCHANGED vars

ClientBlocked ==
  \/ cpc = "send" /\ Len(c2s) = Cap
  \/ cpc \in {"recv_header", "recv_payload"} /\ s2c = <<>>

ServerBlocked ==
  \/ spc = "send" /\ Len(s2c) = Cap
  \/ spc \in {"recv_header", "recv_payload"} /\ c2s = <<>>

\* Each end waits for the other, for ever: only after the server has dropped
\* part of a header.
Hung ==
  /\ cut /\ ClientBlocked /\ ServerBlocked
  /\ UNCHANGED vars

Next == Client \/ Server \/ Timeout \/ Terminated \/ Hung

Spec == Init /\ [][Next]_vars

\* Both threads run and what was sent arrives; timeouts need not happen.
FairSpec == Spec /\ WF_vars(Client) /\ WF_vars(Server)

-----------------------------------------------------------------------------
Units == [id : Nat, size : Nat, part : Nat]
Headers == [id : Nat, size : Nat]

\* Buffers never outgrow what the code allocates for them: a header has at
\* most HdrLen units and no payload beyond MAX_PAYLOAD_SIZE is received.
TypeOK ==
  /\ c2s \in Seq(Units) /\ s2c \in Seq(Units) /\ reset \in BOOLEAN
  /\ Len(c2s) <= Cap /\ Len(s2c) <= Cap
  /\ cpc \in {"idle", "send", "recv_header", "parse", "recv_payload", "return"}
  /\ id \in Nat /\ size \in Nat
  /\ out \in Seq(Units) /\ got \in Seq(Units)
  /\ (out # <<>>) => cpc \in {"send", "idle"}
  /\ resp \in Seq(Headers) /\ Len(resp) <= 1
  /\ outcomes \in Seq([ok : BOOLEAN, echo : BOOLEAN, size : Nat])
  /\ Len(outcomes) <= NumRequests
  /\ spc \in {"recv_header", "parse", "recv_payload", "send", "closed"}
  /\ hdr \in Seq(Headers) /\ Len(hdr) <= 1
  /\ hdr_buf \in Seq(Units) /\ Len(hdr_buf) <= HdrLen
  /\ payload_buf \in Seq(Units) /\ Len(payload_buf) <= MaxPayload
  /\ reply \in Seq(Units)
  /\ request_count \in Nat
  /\ cut \in BOOLEAN

Answered == {n \in DOMAIN outcomes : outcomes[n].ok}

\* A request that do_request() measures got its own message back, header and
\* payload: the client never compares the response with its request, and on
\* a connection where no header was cut it need not.
EchoUnlessCut == ~cut => \A n \in Answered : outcomes[n].echo

\* The same without the proviso.
EchoAlways == \A n \in Answered : outcomes[n].echo

\* total_requests() of the server and the client's samples tell the same
\* story: a request is counted before its response is sent, so the server is
\* at most one ahead, and an aborted or oversized request is not counted.
CountsAgree ==
  ~cut =>
    request_count \in {Cardinality(Answered), Cardinality(Answered) + 1}

\* A connection that failed one request fails all later ones: nothing
\* reconnects it, so one timeout silences it for the rest of the run.
FailureIsForGood ==
  ~cut => \A m, n \in DOMAIN outcomes : m < n /\ outcomes[n].ok => outcomes[m].ok

\* do_request() returns, with buffers of any size, although neither its
\* sends nor its receives have a timeout.
RequestReturns == (cpc = "send") ~> (cpc = "idle" \/ cut)
=============================================================================

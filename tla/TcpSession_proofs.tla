------------------------- MODULE TcpSession_proofs -------------------------
(***************************************************************************)
(* One TCP connection for messages, buffers and numbers of requests of any *)
(* size: as long as the server has dropped no part of a header, the bytes  *)
(* between client and server are, at every moment, pieces of the one       *)
(* message that is under way, in order and without a gap.                  *)
(***************************************************************************)
EXTENDS TcpSession, Integers, FiniteSetTheorems, TLAPS

\* s is what comes after the first `from` units of message n of size len.
Unit(n, len, j) == [id |-> n, size |-> len, part |-> j]
Piece(n, len, s, from) ==
  /\ s \in Seq(Units) /\ from + Len(s) <= HdrLen + len
  /\ \A j \in 1 .. Len(s) : s[j] = Unit(n, len, from + j)

\* The length of the message under way.
MsgLen == HdrLen + size

\* How much of it the client has sent, the server received and sent back, and
\* the client received.
Sent == MsgLen - Len(out)
Taken == Sent - Len(c2s)
Back == Len(got) + Len(s2c)

Busy == cpc # "idle"
Receiving == cpc \in {"recv_header", "parse", "recv_payload", "return"}

\* The server has all of the message and has counted it.
Responded ==
  Receiving /\ Taken = MsgLen /\ spc \notin {"closed", "parse", "recv_payload"}

TypeInv ==
  /\ cpc \in {"idle", "send", "recv_header", "parse", "recv_payload", "return"}
  /\ spc \in {"recv_header", "parse", "recv_payload", "send", "closed"}
  /\ id \in Nat /\ size \in Nat
  /\ c2s \in Seq(Units) /\ s2c \in Seq(Units) /\ out \in Seq(Units) /\ got \in Seq(Units)
  /\ hdr_buf \in Seq(Units) /\ payload_buf \in Seq(Units) /\ reply \in Seq(Units)
  /\ outcomes \in Seq([ok : BOOLEAN, echo : BOOLEAN, size : Nat])
  /\ request_count \in Nat

\* Between two requests an open connection is empty at both ends.
IdleInv ==
  cpc = "idle" /\ spc # "closed" =>
    /\ c2s = <<>> /\ s2c = <<>>
    /\ spc = "recv_header" /\ hdr_buf = <<>>

\* During a request, the client's end ...
ClientInv ==
  Busy =>
    /\ Piece(id, size, out, Sent) /\ Sent >= 0 /\ (out # <<>> <=> cpc = "send")
    /\ Piece(id, size, got, 0)
    /\ cpc \in {"send", "recv_header"} => Len(got) < HdrLen
    /\ cpc = "send" => got = <<>>
    /\ cpc = "parse" => Len(got) = HdrLen
    /\ cpc = "recv_payload" => HdrLen <= Len(got) /\ Len(got) < MsgLen
    /\ cpc = "return" => Len(got) = MsgLen
    /\ cpc \in {"recv_payload", "return"} =>
         resp = <<[id |-> id, size |-> size]>>

\* ... and the two directions and the server's end, while it is open: it
\* answers when it has the whole message.
ServerInv ==
  Busy /\ spc # "closed" =>
    /\ Taken >= 0 /\ Piece(id, size, c2s, Taken) /\ Piece(id, size, s2c, Len(got))
    /\ spc = "parse" => Piece(id, size, hdr_buf, 0) /\ Len(hdr_buf) = HdrLen /\ Taken = HdrLen
    /\ spc = "recv_payload" =>
         /\ hdr = <<[id |-> id, size |-> size]>> /\ Len(payload_buf) < size
         /\ Piece(id, size, payload_buf, HdrLen) /\ Taken = HdrLen + Len(payload_buf)
    /\ spc = "send" => reply # <<>> /\ Piece(id, size, reply, Back) /\ Back + Len(reply) = MsgLen
    /\ spc \in {"send", "recv_payload"} => hdr_buf = <<>>
    /\ spc = "recv_header" =>
         /\ Len(hdr_buf) < HdrLen
         /\ \/ Piece(id, size, hdr_buf, 0) /\ Taken = Len(hdr_buf) /\ Back = 0
            \/ hdr_buf = <<>> /\ Taken = MsgLen /\ Back = MsgLen
    /\ spc \in {"parse", "recv_payload"} => Back = 0
    /\ spc = "send" => Taken = MsgLen

\* A server that has closed has sent nothing of a response.
ClosedInv ==
  /\ reset => spc = "closed"
  /\ spc = "closed" =>
       s2c = <<>> /\ (Busy => got = <<>> /\ cpc \in {"send", "recv_header"})

\* As long as it is open, no request has failed; those that were measured had
\* their own message back, and each of them was counted once.
OutcomeInv ==
  /\ spc # "closed" => \A n \in DOMAIN outcomes : outcomes[n].ok
  /\ \A n \in Answered : outcomes[n].echo
  /\ \A m, n \in DOMAIN outcomes : m < n /\ outcomes[n].ok => outcomes[m].ok
  /\ request_count = Cardinality(Answered) + (IF Responded THEN 1 ELSE 0)

Good == TypeInv /\ IdleInv /\ ClientInv /\ ServerInv /\ ClosedInv /\ OutcomeInv

IInv == ~cut => Good

-----------------------------------------------------------------------------
\* Pieces of a message: at their ends units come and go.

\* A unit of a message has its type.
LEMMA UnitType ==
  ASSUME NEW n \in Nat, NEW len \in Nat, NEW j \in Nat
  PROVE  Unit(n, len, j) \in Units
BY DEF Unit, Units

\* The unit that comes next makes a piece longer.
LEMMA PieceAppend ==
  ASSUME NEW n \in Nat, NEW len \in Nat, NEW s, NEW from \in Nat, Piece(n, len, s, from),
         NEW u, u = Unit(n, len, from + Len(s) + 1), from + Len(s) + 1 <= HdrLen + len
  PROVE  Piece(n, len, Append(s, u), from) /\ Len(Append(s, u)) = Len(s) + 1
<1>1. s \in Seq(Units) /\ Len(s) \in Nat
  BY DEF Piece
<1>2. u \in Units
  BY <1>1, UnitType
<1>3. Append(s, u) \in Seq(Units) /\ Len(Append(s, u)) = Len(s) + 1
      /\ Append(s, u)[Len(s) + 1] = u /\ \A j \in 1 .. Len(s) : Append(s, u)[j] = s[j]
  BY <1>1, <1>2
<1>4. \A j \in 1 .. Len(s) : s[j] = Unit(n, len, from + j)
  BY DEF Piece
<1>5. \A j \in 1 .. Len(s) + 1 : Append(s, u)[j] = Unit(n, len, from + j)
  <2> SUFFICES ASSUME NEW j \in 1 .. Len(s) + 1
               PROVE  Append(s, u)[j] = Unit(n, len, from + j)
    OBVIOUS
  <2>1. CASE j = Len(s) + 1
    <3>1. from + j = from + Len(s) + 1
      BY <1>1, <2>1
    <3> QED
      BY <1>3, <2>1, <3>1
  <2>2. CASE j \in 1 .. Len(s)
    BY <1>3, <1>4, <2>2
  <2> QED
    BY <1>1, <2>1, <2>2
<1> HIDE DEF Unit
<1> QED
  BY <1>1, <1>3, <1>5 DEF Piece

\* The first unit is the one after `from`; without it the piece starts one later.
LEMMA PieceTail ==
  ASSUME NEW n \in Nat, NEW len \in Nat, NEW s, NEW from \in Nat, Piece(n, len, s, from),
         s # <<>>
  PROVE  /\ Head(s) = Unit(n, len, from + 1)
         /\ Piece(n, len, Tail(s), from + 1) /\ Len(Tail(s)) = Len(s) - 1
         /\ Len(s) \in Nat \ {0} /\ from + 1 <= HdrLen + len
<1>1. s \in Seq(Units) /\ Len(s) \in Nat \ {0} /\ from + Len(s) <= HdrLen + len
      /\ \A j \in 1 .. Len(s) : s[j] = Unit(n, len, from + j)
  BY DEF Piece
<1>2. Tail(s) \in Seq(Units) /\ Len(Tail(s)) = Len(s) - 1 /\ Head(s) = s[1]
      /\ \A j \in 1 .. Len(s) - 1 : Tail(s)[j] = s[j + 1]
  BY <1>1
<1>3. \A j \in 1 .. Len(s) - 1 : Tail(s)[j] = Unit(n, len, from + 1 + j)
  <2> SUFFICES ASSUME NEW j \in 1 .. Len(s) - 1
               PROVE  Tail(s)[j] = Unit(n, len, from + 1 + j)
    OBVIOUS
  <2>1. j + 1 \in 1 .. Len(s) /\ from + (j + 1) = from + 1 + j
    BY <1>1
  <2>2. s[j + 1] = Unit(n, len, from + (j + 1))
    BY <1>1, <2>1
  <2> QED
    BY <1>2, <2>1, <2>2
<1>4. Head(s) = Unit(n, len, from + 1)
  BY <1>1, <1>2
<1>5. from + 1 + (Len(s) - 1) <= HdrLen + len /\ from + 1 <= HdrLen + len
  BY <1>1, FrameAssumption
<1> QED
  BY <1>1, <1>2, <1>3, <1>4, <1>5 DEF Piece

\* Nothing is a piece, anywhere in the message.
LEMMA PieceEmpty ==
  ASSUME NEW n, NEW len \in Nat, NEW from \in Nat, from <= HdrLen + len
  PROVE  Piece(n, len, <<>>, from)
BY FrameAssumption DEF Piece

\* Sequences with the same units are the same.
LEMMA SameUnits ==
  ASSUME NEW D, NEW f \in [D -> Units], NEW g \in [D -> Units], \A x \in D : f[x] = g[x]
  PROVE  f = g
OBVIOUS

\* A whole message is its frame.
LEMMA PieceFrame ==
  ASSUME NEW n \in Nat, NEW len \in Nat
  PROVE  /\ Piece(n, len, Frame(n, len), 0) /\ Len(Frame(n, len)) = HdrLen + len
         /\ \A s : Piece(n, len, s, 0) /\ Len(s) = HdrLen + len => s = Frame(n, len)
<1> DEFINE m == HdrLen + len
           f == Frame(n, len)
<1>1. m \in Nat /\ f = [j \in 1 .. m |-> Unit(n, len, j)]
  BY FrameAssumption DEF Frame, Unit
<1>2. \A j \in 1 .. m : Unit(n, len, j) \in Units
  BY <1>1, UnitType
<1>3. f \in Seq(Units) /\ Len(f) = m /\ \A j \in 1 .. m : f[j] = Unit(n, len, j)
  <2> HIDE DEF m, f
  <2>1. f \in [1 .. m -> Units]
    BY <1>1, <1>2
  <2> QED
    BY <1>1, <2>1
<1>4. \A j \in 1 .. m : 0 + j = j
  BY <1>1
<1> HIDE DEF f
<1>5. Piece(n, len, f, 0)
  BY <1>1, <1>3, <1>4 DEF Piece
<1>6. ASSUME NEW s, Piece(n, len, s, 0), Len(s) = m PROVE s = f
  <2>1. s \in Seq(Units) /\ \A j \in 1 .. Len(s) : s[j] = Unit(n, len, 0 + j)
    BY <1>6 DEF Piece
  <2> HIDE DEF m
  <2>2. s \in [1 .. m -> Units] /\ f \in [1 .. m -> Units]
    BY <1>3, <1>6, <2>1
  <2>3. \A j \in 1 .. m : s[j] = f[j]
    BY <1>3, <1>4, <1>6, <2>1
  <2> QED
    BY <2>2, <2>3, SameUnits
<1> QED
  BY <1>3, <1>5, <1>6 DEF f

\* HdrLen units from the start are the header, and parse as it.
LEMMA PieceHeader ==
  ASSUME NEW n \in Nat, NEW len \in Nat
  PROVE  /\ Piece(n, len, Header(n, len), 0) /\ Len(Header(n, len)) = HdrLen
         /\ \A s : Piece(n, len, s, 0) /\ Len(s) = HdrLen =>
              deserialize_header(s) = {[id |-> n, size |-> len]}
<1> DEFINE f == Frame(n, len)
           h == Header(n, len)
<1>1. f \in Seq(Units) /\ Len(f) = HdrLen + len /\ HdrLen \in Nat \ {0}
      /\ HdrLen <= HdrLen + len
      /\ \A j \in 1 .. HdrLen + len : f[j] = Unit(n, len, 0 + j)
  <2>1. Piece(n, len, f, 0) /\ Len(f) = HdrLen + len
    BY PieceFrame
  <2> HIDE DEF f
  <2> QED
    BY <2>1, FrameAssumption DEF Piece
<1>2. h = SubSeq(f, 1, HdrLen)
  BY DEF Header
<1> HIDE DEF f, h
<1>3. h \in Seq(Units) /\ Len(h) = HdrLen /\ \A j \in 1 .. HdrLen : h[j] = f[j]
  BY <1>1, <1>2
<1>4. Piece(n, len, h, 0)
  BY <1>1, <1>3 DEF Piece
<1>5. ASSUME NEW s, Piece(n, len, s, 0), Len(s) = HdrLen
      PROVE  deserialize_header(s) = {[id |-> n, size |-> len]}
  <2>1. s \in Seq(Units) /\ \A j \in 1 .. HdrLen : s[j] = Unit(n, len, 0 + j)
    BY <1>5 DEF Piece
  <2>2. s \in [1 .. HdrLen -> Units] /\ h \in [1 .. HdrLen -> Units]
    BY <1>3, <1>5, <2>1
  <2>3. \A j \in 1 .. HdrLen : s[j] = h[j]
    BY <1>1, <1>3, <2>1
  <2>4. s = h
    BY <2>2, <2>3, SameUnits
  <2>5. s[1] = Unit(n, len, 1)
    BY <1>1, <2>1
  <2>6. s[1].id = n /\ s[1].size = len
    BY <2>5 DEF Unit
  <2> QED
    BY <2>4, <2>6 DEF deserialize_header, h
<1> QED
  BY <1>3, <1>4, <1>5 DEF h

\* A header and a whole payload make the message again.
LEMMA PieceReply ==
  ASSUME NEW n \in Nat, NEW len \in Nat, NEW p, Piece(n, len, p, HdrLen), Len(p) = len
  PROVE  LET r == Header(n, len) \o p IN Piece(n, len, r, 0) /\ Len(r) = HdrLen + len
<1> DEFINE h == Header(n, len)
           r == h \o p
<1>1. /\ h \in Seq(Units) /\ Len(h) = HdrLen /\ p \in Seq(Units) /\ HdrLen \in Nat
      /\ \A j \in 1 .. HdrLen : h[j] = Unit(n, len, 0 + j)
      /\ \A j \in 1 .. len : p[j] = Unit(n, len, HdrLen + j)
  <2>1. Piece(n, len, h, 0) /\ Len(h) = HdrLen
    BY PieceHeader
  <2> HIDE DEF h
  <2> QED
    BY <2>1, FrameAssumption DEF Piece
<1> HIDE DEF h
<1>2. /\ r \in Seq(Units) /\ Len(r) = HdrLen + len
      /\ \A j \in 1 .. HdrLen + len : r[j] = IF j <= HdrLen THEN h[j] ELSE p[j - HdrLen]
  <2>1. r \in Seq(Units) /\ Len(r) = Len(h) + Len(p)
    BY <1>1
  <2>2. \A j \in 1 .. Len(h) + Len(p) : r[j] = IF j <= Len(h) THEN h[j] ELSE p[j - Len(h)]
    BY <1>1, SMTT(30)
  <2> QED
    BY <1>1, <2>1, <2>2
<1> HIDE DEF r
<1>3. ASSUME NEW j \in 1 .. HdrLen + len PROVE r[j] = Unit(n, len, 0 + j)
  <2>1. CASE j <= HdrLen
    BY <1>1, <1>2, <2>1
  <2>2. CASE j > HdrLen
    <3>1. j - HdrLen \in 1 .. len /\ HdrLen + (j - HdrLen) = 0 + j
      BY <1>1, <2>2
    <3>2. r[j] = p[j - HdrLen]
      BY <1>1, <1>2, <2>2
    <3>3. p[j - HdrLen] = Unit(n, len, HdrLen + (j - HdrLen))
      BY <1>1, <3>1
    <3> QED
      BY <3>1, <3>2, <3>3
  <2> QED
    BY <1>1, <2>1, <2>2
<1>4. Piece(n, len, r, 0)
  BY <1>1, <1>2, <1>3 DEF Piece
<1> QED
  BY <1>2, <1>4 DEF r, h


-----------------------------------------------------------------------------
\* Facts about a request that is under way.

\* Lengths are numbers.
LEMMA Lengths ==
  ASSUME TypeInv
  PROVE  /\ Len(out) \in Nat /\ Len(got) \in Nat /\ Len(c2s) \in Nat /\ Len(s2c) \in Nat
         /\ Len(hdr_buf) \in Nat /\ Len(payload_buf) \in Nat /\ Len(reply) \in Nat
         /\ MsgLen \in Nat \ {0} /\ HdrLen \in Nat \ {0} /\ HdrLen <= MsgLen
         /\ id \in Nat /\ size \in Nat /\ MsgLen = HdrLen + size
<1>1. /\ Len(out) \in Nat /\ Len(got) \in Nat /\ Len(c2s) \in Nat /\ Len(s2c) \in Nat
      /\ Len(hdr_buf) \in Nat /\ Len(payload_buf) \in Nat /\ Len(reply) \in Nat
  BY DEF TypeInv
<1> QED
  BY <1>1, FrameAssumption DEF TypeInv, MsgLen

\* The empty sequence is the one of length 0.
LEMMA EmptyLength ==
  ASSUME NEW T, NEW s \in Seq(T)
  PROVE  Len(s) \in Nat /\ (s = <<>> <=> Len(s) = 0)
OBVIOUS

\* Where the pieces are, as numbers.
LEMMA Numbers ==
  ASSUME Good, Busy
  PROVE  /\ Sent \in Nat /\ Sent <= MsgLen /\ Sent + Len(out) = MsgLen
         /\ (cpc = "send" <=> Len(out) # 0) /\ (cpc = "send" <=> Sent # MsgLen)
         /\ spc # "closed" => /\ Taken \in Nat /\ Taken + Len(c2s) = Sent
                              /\ Back \in Nat /\ Back <= MsgLen
<1>1. TypeInv /\ ClientInv /\ ServerInv
  BY DEF Good
<1>2. Sent >= 0 /\ (out # <<>> <=> cpc = "send")
  BY <1>1 DEF ClientInv
<1>3. out # <<>> <=> Len(out) # 0
  BY <1>1, EmptyLength DEF TypeInv
<1>4. spc # "closed" => Taken >= 0 /\ Len(got) + Len(s2c) <= MsgLen
  BY <1>1 DEF ServerInv, Piece, MsgLen
<1>5. /\ MsgLen \in Nat /\ Len(out) \in Nat /\ Len(c2s) \in Nat
      /\ Len(got) \in Nat /\ Len(s2c) \in Nat
  BY <1>1, Lengths
<1>6. Sent = MsgLen - Len(out) /\ Taken = Sent - Len(c2s) /\ Back = Len(got) + Len(s2c)
  BY DEF Sent, Taken, Back
<1>7. /\ Sent \in Nat /\ Sent <= MsgLen /\ Sent + Len(out) = MsgLen
      /\ (Len(out) # 0 <=> Sent # MsgLen)
  BY <1>2, <1>5, <1>6
<1>8. spc # "closed" => Taken \in Nat /\ Taken + Len(c2s) = Sent
  BY <1>4, <1>5, <1>6, <1>7
<1>9. spc # "closed" => Back \in Nat /\ Back <= MsgLen
  BY <1>4, <1>5, <1>6
<1> QED
  BY <1>2, <1>3, <1>7, <1>8, <1>9

\* The requests that were measured are finitely many.
LEMMA AnsweredFinite ==
  ASSUME TypeInv
  PROVE  IsFiniteSet(Answered) /\ Cardinality(Answered) \in Nat
<1>1. Len(outcomes) \in Int /\ 1 \in Int /\ Answered \in SUBSET (1 .. Len(outcomes))
  BY DEF TypeInv, Answered
<1>2. IsFiniteSet(1 .. Len(outcomes))
  BY <1>1, FS_Interval
<1>3. IsFiniteSet(Answered)
  BY <1>1, <1>2, FS_Subset
<1> QED
  BY <1>3, FS_CardinalityType

\* One more outcome.
LEMMA OneMoreOutcome ==
  ASSUME Good, NEW ok \in BOOLEAN, NEW echo \in BOOLEAN, echo = (got = Frame(id, size)),
         return(ok)
  PROVE  LET new == Len(outcomes) + 1 IN
         /\ outcomes' \in Seq([ok : BOOLEAN, echo : BOOLEAN, size : Nat])
         /\ Len(outcomes) \in Nat /\ DOMAIN outcomes = 1 .. Len(outcomes)
         /\ DOMAIN outcomes' = 1 .. new
         /\ outcomes'[new].ok = ok /\ outcomes'[new].echo = echo
         /\ \A n \in 1 .. Len(outcomes) : outcomes'[n] = outcomes[n]
         /\ IsFiniteSet(Answered) /\ Cardinality(Answered) \in Nat
         /\ Answered' = IF ok THEN Answered \cup {new} ELSE Answered
         /\ Cardinality(Answered') =
              IF ok THEN Cardinality(Answered) + 1 ELSE Cardinality(Answered)
<1> DEFINE R == [ok : BOOLEAN, echo : BOOLEAN, size : Nat]
           x == [ok |-> ok, echo |-> echo, size |-> size]
           new == Len(outcomes) + 1
<1>1. outcomes \in Seq(R) /\ size \in Nat
  BY DEF Good, TypeInv
<1>2. outcomes' = Append(outcomes, x)
  BY DEF return
<1>3. x \in R /\ x.ok = ok /\ x.echo = echo
  BY <1>1
<1> HIDE DEF x, R
<1>4. /\ outcomes' \in Seq(R) /\ Len(outcomes) \in Nat
      /\ DOMAIN outcomes = 1 .. Len(outcomes) /\ DOMAIN outcomes' = 1 .. new
      /\ outcomes'[new] = x /\ \A n \in 1 .. Len(outcomes) : outcomes'[n] = outcomes[n]
  BY <1>1, <1>2, <1>3
<1>5. new \notin 1 .. Len(outcomes) /\ 1 .. new = (1 .. Len(outcomes)) \cup {new}
  BY <1>4
<1> HIDE DEF new
<1>6. Answered' = IF ok THEN Answered \cup {new} ELSE Answered
  BY <1>3, <1>4, <1>5 DEF Answered
<1>7. new \notin Answered /\ Answered \in SUBSET (1 .. Len(outcomes))
  BY <1>4, <1>5 DEF Answered
<1>8. IsFiniteSet(Answered) /\ Cardinality(Answered) \in Nat
  BY AnsweredFinite DEF Good
<1>9. Cardinality(Answered') =
         IF ok THEN Cardinality(Answered) + 1 ELSE Cardinality(Answered)
  BY <1>6, <1>7, <1>8, FS_AddElement
<1> QED
  BY <1>3, <1>4, <1>6, <1>8, <1>9 DEF new, R

-----------------------------------------------------------------------------
\* Before the first request.
LEMMA InitIInv == Init => IInv
<1> SUFFICES ASSUME Init PROVE Good
  BY DEF IInv
<1> USE DEF Init, NoId
<1>1. \A T : <<>> \in Seq(T)
  OBVIOUS
<1>2. TypeInv
  BY <1>1 DEF TypeInv
<1>3. IdleInv /\ ClientInv /\ ServerInv /\ ClosedInv
  BY DEF IdleInv, ClientInv, ServerInv, ClosedInv, Busy
<1>4. DOMAIN outcomes = {} /\ Answered = {}
  BY DEF Answered
<1>5. ~Responded
  BY DEF Responded, Receiving
<1>6. OutcomeInv
  BY <1>4, <1>5, FS_EmptySet DEF OutcomeInv
<1> QED
  BY <1>2, <1>3, <1>6 DEF Good

\* do_request() begins, on an open or a closed connection.
LEMMA BeginStep == ASSUME Good, begin PROVE Good'
<1>1. /\ cpc = "idle" /\ cpc' = "send" /\ id' = Len(outcomes) + 1 /\ size' \in Sizes
      /\ out' = Frame(id', size') /\ got' = <<>>
      /\ UNCHANGED <<outcomes, c2s, s2c, reset, spc, hdr, hdr_buf, payload_buf, reply>>
      /\ UNCHANGED request_count
  BY DEF begin, serverVars
<1>2. id' \in Nat /\ size' \in Nat
  BY <1>1, SizesAssumption DEF Good, TypeInv
<1>3. Piece(id', size', out', 0) /\ Len(out') = HdrLen + size'
  BY <1>1, <1>2, PieceFrame
<1>4. MsgLen' = HdrLen + size' /\ MsgLen' \in Nat \ {0} /\ HdrLen \in Nat \ {0}
  <2>1. MsgLen' = HdrLen + size'
    BY DEF MsgLen
  <2>2. HdrLen \in Nat \ {0}
    BY FrameAssumption
  <2>3. PICK n \in Nat : n = size'
    BY <1>2
  <2>4. HdrLen + n \in Nat \ {0}
    BY <2>2
  <2> QED
    BY <2>1, <2>2, <2>3, <2>4
<1>5. Sent' = 0
  BY <1>3, <1>4 DEF Sent
<1>6. Len(<<>>) = 0 /\ <<>> \in Seq(Units)
  OBVIOUS
<1>7. out' \in Seq(Units) /\ out' # <<>>
  BY <1>3, <1>4, <1>6 DEF Piece
<1>8. Piece(id', size', <<>>, 0)
  BY <1>2, <1>4, PieceEmpty
<1>9. TypeInv'
  BY <1>1, <1>2, <1>6, <1>7 DEF Good, TypeInv
<1>10. IdleInv'
  BY <1>1 DEF IdleInv
<1>11. ClientInv'
  BY <1>1, <1>3, <1>4, <1>5, <1>6, <1>7, <1>8 DEF ClientInv
<1>12. ServerInv'
  <2> SUFFICES ASSUME spc # "closed" PROVE ServerInv'
    BY <1>1 DEF ServerInv
  <2>1. c2s = <<>> /\ s2c = <<>> /\ spc = "recv_header" /\ hdr_buf = <<>>
    BY <1>1 DEF Good, IdleInv
  <2>2. Len(c2s') = 0 /\ Len(s2c') = 0 /\ Len(got') = 0
    BY <1>1, <1>6, <2>1
  <2>3. Taken' = Sent' - Len(c2s') /\ Back' = Len(got') + Len(s2c')
    BY DEF Taken, Back
  <2>4. Taken' = 0 /\ Back' = 0
    BY <1>5, <2>2, <2>3
  <2> QED
    BY <1>1, <1>4, <1>6, <1>8, <2>1, <2>2, <2>4 DEF ServerInv
<1>13. ClosedInv'
  BY <1>1 DEF Good, ClosedInv
<1>14. OutcomeInv'
  <2>1. ~Responded /\ ~Responded' /\ Answered' = Answered
    BY <1>1 DEF Responded, Receiving, Answered
  <2> QED
    BY <1>1, <2>1 DEF Good, OutcomeInv
<1> QED
  BY <1>9, <1>10, <1>11, <1>12, <1>13, <1>14 DEF Good

\* send_exact() sends another unit.
LEMMA ClientSendStep == ASSUME Good, client_send PROVE Good'
<1>1. /\ cpc = "send" /\ spc # "closed"
      /\ c2s' = Append(c2s, Head(out)) /\ out' = Tail(out)
      /\ cpc' = IF Len(out) = 1 THEN "recv_header" ELSE "send"
      /\ UNCHANGED <<id, size, got, outcomes, s2c, reset, spc, hdr, hdr_buf, payload_buf>>
      /\ UNCHANGED <<reply, request_count>>
  BY DEF client_send, serverVars
<1>2. Busy /\ Busy' /\ TypeInv /\ ClientInv /\ ServerInv
  BY <1>1 DEF Busy, Good
<1>3. /\ Sent \in Nat /\ Taken \in Nat /\ Taken + Len(c2s) = Sent
      /\ Sent + Len(out) = MsgLen /\ Len(out) # 0
  BY <1>1, <1>2, Numbers
<1>4. Piece(id, size, out, Sent) /\ out # <<>> /\ Piece(id, size, c2s, Taken) /\ got = <<>>
  BY <1>1, <1>2 DEF ClientInv, ServerInv
<1>5. /\ Head(out) = Unit(id, size, Sent + 1)
      /\ Piece(id, size, out', Sent + 1) /\ Len(out') = Len(out) - 1
      /\ Sent + 1 <= MsgLen
  <2>1. id \in Nat /\ size \in Nat /\ MsgLen = HdrLen + size
    BY <1>2, Lengths
  <2> QED
    BY <1>1, <1>3, <1>4, <2>1, PieceTail
<1>6. Piece(id, size, c2s', Taken) /\ Len(c2s') = Len(c2s) + 1
  <2>1. id \in Nat /\ size \in Nat /\ MsgLen = HdrLen + size
    BY <1>2, Lengths
  <2>2. Head(out) = Unit(id, size, Taken + Len(c2s) + 1)
        /\ Taken + Len(c2s) + 1 <= HdrLen + size
    BY <1>3, <1>5, <2>1
  <2> QED
    BY <1>1, <1>3, <1>4, <2>1, <2>2, PieceAppend
<1>7. Sent' = Sent + 1 /\ Taken' = Taken /\ MsgLen' = MsgLen /\ Back' = Back
  <2>1. MsgLen' = MsgLen /\ Back' = Back
    BY <1>1 DEF MsgLen, Back
  <2>2. Sent' = MsgLen' - Len(out') /\ Taken' = Sent' - Len(c2s')
    BY DEF Sent, Taken
  <2>3. MsgLen \in Nat /\ Len(out) \in Nat /\ Len(c2s) \in Nat
    BY <1>2, Lengths
  <2>4. Len(out') = Len(out) - 1 /\ Len(c2s') = Len(c2s) + 1
    BY <1>5, <1>6
  <2>5. Sent' = Sent + 1
    BY <1>3, <2>1, <2>2, <2>3, <2>4, SMTT(30)
  <2>6. Taken' = (Sent + 1) - (Len(c2s) + 1)
    BY <2>2, <2>4, <2>5
  <2>7. Taken' = Taken
    BY <1>3, <2>3, <2>6
  <2> QED
    BY <2>1, <2>5, <2>7
<1>8. TypeInv'
  BY <1>1, <1>2, <1>5, <1>6 DEF TypeInv, Piece
<1>9. IdleInv' /\ ClosedInv'
  BY <1>1, <1>2 DEF IdleInv, ClosedInv, Good, Busy
<1>10. out' # <<>> <=> cpc' = "send"
  <2>1. out' # <<>> <=> Len(out') # 0
    BY <1>8, EmptyLength DEF TypeInv
  <2> QED
    BY <1>1, <1>2, <1>5, <2>1, Lengths, SMTT(30)
<1>11. ClientInv'
  BY <1>1, <1>2, <1>3, <1>4, <1>5, <1>7, <1>10, SMTT(30) DEF ClientInv
<1>12. ServerInv'
  BY <1>1, <1>2, <1>3, <1>6, <1>7 DEF ServerInv
<1>13. OutcomeInv'
  <2>1. Taken # MsgLen
    BY <1>2, <1>3, <1>5, Lengths
  <2>2. ~Responded /\ ~Responded' /\ Answered' = Answered
    BY <1>1, <1>7, <2>1 DEF Responded, Answered
  <2> QED
    BY <1>1, <2>2 DEF Good, OutcomeInv
<1> QED
  BY <1>8, <1>9, <1>11, <1>12, <1>13 DEF Good

\* It sends to a server that has closed.
LEMMA ClientSendLostStep == ASSUME Good, client_send_lost PROVE Good'
<1>1. /\ cpc = "send" /\ spc = "closed" /\ out' = Tail(out)
      /\ cpc' = IF Len(out) = 1 THEN "recv_header" ELSE "send"
      /\ UNCHANGED <<id, size, got, outcomes, c2s, s2c, spc, hdr, hdr_buf, payload_buf>>
      /\ UNCHANGED <<reply, request_count>>
  BY DEF client_send_lost, serverVars
<1>2. Busy /\ Busy' /\ TypeInv /\ ClientInv /\ ClosedInv
  BY <1>1 DEF Busy, Good
<1>3. Sent \in Nat /\ Sent + Len(out) = MsgLen /\ Len(out) # 0
  BY <1>1, <1>2, Numbers
<1>4. Piece(id, size, out, Sent) /\ out # <<>> /\ got = <<>>
  BY <1>1, <1>2 DEF ClientInv
<1>5. Piece(id, size, out', Sent + 1) /\ Len(out') = Len(out) - 1 /\ Sent + 1 <= MsgLen
  <2>1. id \in Nat /\ size \in Nat /\ MsgLen = HdrLen + size
    BY <1>2, Lengths
  <2> QED
    BY <1>1, <1>3, <1>4, <2>1, PieceTail
<1>6. Sent' = Sent + 1 /\ MsgLen' = MsgLen
  <2>1. MsgLen' = MsgLen /\ MsgLen \in Nat /\ Len(out) \in Nat
    BY <1>1, <1>2, Lengths DEF MsgLen
  <2>2. Sent' = MsgLen' - Len(out')
    BY DEF Sent
  <2>3. Len(out') = Len(out) - 1
    BY <1>5
  <2> QED
    BY <1>3, <2>1, <2>2, <2>3
<1>7. TypeInv'
  BY <1>1, <1>2, <1>5 DEF TypeInv, Piece
<1>8. IdleInv' /\ ServerInv'
  BY <1>1 DEF IdleInv, ServerInv
<1>9. ClosedInv'
  BY <1>1, <1>2, <1>4 DEF ClosedInv
<1>10. out' # <<>> <=> cpc' = "send"
  <2>1. out' # <<>> <=> Len(out') # 0
    BY <1>7, EmptyLength DEF TypeInv
  <2> QED
    BY <1>1, <1>2, <1>5, <2>1, Lengths
<1>11. ClientInv'
  BY <1>1, <1>2, <1>3, <1>4, <1>5, <1>6, <1>10 DEF ClientInv
<1>12. OutcomeInv'
  <2>1. ~Responded /\ ~Responded' /\ Answered' = Answered
    BY <1>1 DEF Responded, Answered
  <2> QED
    BY <1>1, <2>1 DEF Good, OutcomeInv
<1> QED
  BY <1>7, <1>8, <1>9, <1>11, <1>12 DEF Good

\* do_request() fails, which it does only when the server has closed.
LEMMA ClientFailsStep == ASSUME Good, client_send_fails \/ client_recv_fails PROVE Good'
<1>1. /\ spc = "closed" /\ cpc' = "idle" /\ return(FALSE) /\ cpc # "idle"
      /\ UNCHANGED <<id, size, out, got, c2s, s2c, reset, spc, hdr, hdr_buf, payload_buf>>
      /\ UNCHANGED <<reply, request_count>>
  BY DEF client_send_fails, client_recv_fails, return, serverVars, Good, ClosedInv
<1>2. /\ outcomes' \in Seq([ok : BOOLEAN, echo : BOOLEAN, size : Nat])
      /\ Len(outcomes) \in Nat /\ DOMAIN outcomes = 1 .. Len(outcomes)
      /\ DOMAIN outcomes' = 1 .. Len(outcomes) + 1
      /\ outcomes'[Len(outcomes) + 1].ok = FALSE
      /\ \A n \in 1 .. Len(outcomes) : outcomes'[n] = outcomes[n]
      /\ Answered' = Answered
  <2>1. PICK echo \in BOOLEAN : echo = (got = Frame(id, size))
    OBVIOUS
  <2> QED
    BY <1>1, <2>1, OneMoreOutcome
<1>3. TypeInv'
  BY <1>1, <1>2 DEF Good, TypeInv
<1>4. IdleInv' /\ ClientInv' /\ ServerInv' /\ ClosedInv'
  BY <1>1 DEF Good, IdleInv, ClientInv, ServerInv, ClosedInv, Busy
<1>5. OutcomeInv'
  <2>1. ~Responded /\ ~Responded'
    BY <1>1 DEF Responded
  <2>2. \A n \in Answered : n \in 1 .. Len(outcomes)
    BY <1>2 DEF Answered
  <2>3. \A m, n \in DOMAIN outcomes' : m < n /\ outcomes'[n].ok => outcomes'[m].ok
    BY <1>2, SMTT(30) DEF Good, OutcomeInv
  <2> QED
    BY <1>1, <1>2, <2>1, <2>2, <2>3 DEF Good, OutcomeInv
<1> QED
  BY <1>3, <1>4, <1>5 DEF Good

\* recv_exact() receives another unit of the response.
LEMMA ClientRecvStep == ASSUME Good, client_recv PROVE Good'
<1>1. /\ cpc \in {"recv_header", "recv_payload"} /\ s2c # <<>>
      /\ got' = Append(got, Head(s2c)) /\ s2c' = Tail(s2c)
      /\ UNCHANGED <<id, size, out, resp, outcomes, c2s, reset, spc, hdr, hdr_buf>>
      /\ UNCHANGED <<payload_buf, reply, request_count>>
  BY DEF client_recv, serverVars
<1>2. Busy /\ spc # "closed" /\ TypeInv /\ ClientInv /\ ServerInv
  BY <1>1 DEF Busy, Good, ClosedInv
<1>3. /\ Len(got) \in Nat /\ Len(s2c) \in Nat /\ id \in Nat /\ size \in Nat
      /\ HdrLen \in Nat \ {0} /\ MsgLen = HdrLen + size /\ MsgLen \in Nat
  BY <1>2, Lengths
<1>4. Piece(id, size, got, 0) /\ Piece(id, size, s2c, Len(got))
  BY <1>2 DEF ClientInv, ServerInv
<1>5. /\ Head(s2c) = Unit(id, size, Len(got) + 1)
      /\ Piece(id, size, s2c', Len(got) + 1) /\ Len(s2c') = Len(s2c) - 1
      /\ Len(got) + 1 <= HdrLen + size
  BY <1>1, <1>3, <1>4, PieceTail
<1>6. Piece(id, size, got', 0) /\ Len(got') = Len(got) + 1
  <2>1. 0 \in Nat /\ Head(s2c) = Unit(id, size, 0 + Len(got) + 1)
        /\ 0 + Len(got) + 1 <= HdrLen + size
    BY <1>3, <1>5
  <2> QED
    BY <1>1, <1>3, <1>4, <2>1, PieceAppend
<1>7. MsgLen' = MsgLen /\ Sent' = Sent /\ Taken' = Taken
  BY <1>1 DEF MsgLen, Sent, Taken
<1>8. Back' = Back
  <2>1. Back = Len(got) + Len(s2c) /\ Back' = Len(got') + Len(s2c')
    BY DEF Back
  <2> QED
    BY <1>3, <1>5, <1>6, <2>1
<1>9. TypeInv'
  <2>1. cpc' \in {"recv_header", "parse", "recv_payload", "return"}
    BY DEF client_recv
  <2> QED
    BY <1>1, <1>2, <1>5, <1>6, <2>1 DEF TypeInv, Piece
<1>10. /\ cpc' = "recv_header" => Len(got') < HdrLen
       /\ cpc' = "parse" => Len(got') = HdrLen
       /\ cpc' = "recv_payload" => HdrLen <= Len(got') /\ Len(got') < MsgLen
       /\ cpc' = "return" => Len(got') = MsgLen
       /\ cpc' \in {"recv_payload", "return"} => resp' = <<[id |-> id, size |-> size]>>
       /\ cpc' \in {"recv_header", "parse", "recv_payload", "return"}
  <2>1. CASE cpc = "recv_header"
    <3>1. Len(got) < HdrLen
      BY <1>2, <2>1 DEF ClientInv
    <3>2. cpc' = IF Len(got') < HdrLen THEN "recv_header" ELSE "parse"
      BY <1>3, <1>6, <3>1 DEF client_recv
    <3> QED
      BY <1>3, <1>6, <3>1, <3>2
  <2>2. CASE cpc = "recv_payload"
    <3>1. HdrLen <= Len(got) /\ Len(got) < MsgLen /\ resp = <<[id |-> id, size |-> size]>>
      BY <1>2, <2>2 DEF ClientInv
    <3>2. HdrLen + resp[1].size = MsgLen
      BY <1>3, <3>1
    <3>3. cpc' = IF Len(got') < MsgLen THEN "recv_payload" ELSE "return"
      BY <1>3, <1>6, <3>1, <3>2 DEF client_recv
    <3>4. HdrLen <= Len(got') /\ (Len(got') < MsgLen \/ Len(got') = MsgLen)
      BY <1>3, <1>6, <3>1
    <3>5. resp' = <<[id |-> id, size |-> size]>>
      BY <1>1, <3>1
    <3>6. CASE Len(got') < MsgLen
      BY <3>3, <3>4, <3>5, <3>6
    <3>7. CASE Len(got') = MsgLen
      BY <1>3, <3>3, <3>5, <3>7
    <3> QED
      BY <3>4, <3>6, <3>7
  <2> QED
    BY <1>1, <2>1, <2>2
<1>11. Busy' /\ cpc' # "send" /\ cpc # "send" /\ Receiving /\ Receiving'
  BY <1>1, <1>10 DEF Busy, Receiving
<1>12. IdleInv' /\ ClosedInv'
  BY <1>1, <1>2, <1>11 DEF IdleInv, ClosedInv, Good, Busy
<1>13. ClientInv'
  BY <1>1, <1>2, <1>6, <1>7, <1>10, <1>11 DEF ClientInv
<1>14. ServerInv'
  BY <1>1, <1>2, <1>5, <1>6, <1>7, <1>8 DEF ServerInv
<1>15. OutcomeInv'
  <2>1. Responded' = Responded /\ Answered' = Answered
    BY <1>1, <1>7, <1>11 DEF Responded, Answered
  <2> QED
    BY <1>1, <2>1 DEF Good, OutcomeInv
<1> QED
  BY <1>9, <1>12, <1>13, <1>14, <1>15 DEF Good

\* The header that the client has received is the one it sent.
LEMMA ClientParseStep == ASSUME Good, client_parse PROVE Good'
<1>1. /\ cpc = "parse" /\ UNCHANGED <<id, size, out, got, outcomes, c2s, s2c, reset, spc>>
      /\ UNCHANGED <<hdr, hdr_buf, payload_buf, reply, request_count>>
  BY DEF client_parse, serverVars
<1>2. Busy /\ spc # "closed" /\ TypeInv /\ ClientInv /\ ServerInv
  BY <1>1 DEF Busy, Good, ClosedInv
<1>3. Len(got) = HdrLen /\ Piece(id, size, got, 0) /\ id \in Nat /\ size \in Nat
      /\ MsgLen = HdrLen + size /\ HdrLen \in Nat
  BY <1>1, <1>2, Lengths DEF ClientInv
<1>4. deserialize_header(got) = {[id |-> id, size |-> size]}
  BY <1>3, PieceHeader
<1>5. resp' = <<[id |-> id, size |-> size]>>
      /\ cpc' = IF size > 0 THEN "recv_payload" ELSE "return"
  BY <1>4 DEF client_parse
<1>6. MsgLen' = MsgLen /\ Sent' = Sent /\ Taken' = Taken /\ Back' = Back
  BY <1>1 DEF MsgLen, Sent, Taken, Back
<1>7. Busy' /\ cpc' \in {"recv_payload", "return"} /\ Receiving /\ Receiving'
  BY <1>1, <1>5 DEF Busy, Receiving
<1>8. TypeInv'
  BY <1>1, <1>2, <1>7 DEF TypeInv
<1>9. IdleInv' /\ ClosedInv'
  BY <1>1, <1>2, <1>7 DEF IdleInv, ClosedInv, Good, Busy
<1>10. /\ cpc' = "recv_payload" => HdrLen <= Len(got') /\ Len(got') < MsgLen
       /\ cpc' = "return" => Len(got') = MsgLen
  BY <1>1, <1>3, <1>5
<1>11. ClientInv'
  BY <1>1, <1>2, <1>5, <1>6, <1>7, <1>10 DEF ClientInv
<1>12. ServerInv'
  BY <1>1, <1>2, <1>6 DEF ServerInv
<1>13. OutcomeInv'
  <2>1. Responded' = Responded /\ Answered' = Answered
    BY <1>1, <1>6, <1>7 DEF Responded, Answered
  <2> QED
    BY <1>1, <2>1 DEF Good, OutcomeInv
<1> QED
  BY <1>8, <1>9, <1>11, <1>12, <1>13 DEF Good

\* do_request() returns a round-trip time: what it has received is the message
\* it sent, and nothing is left on the connection.
LEMMA ClientReturnStep == ASSUME Good, client_return PROVE Good'
<1>1. /\ cpc = "return" /\ cpc' = "idle" /\ return(TRUE)
      /\ UNCHANGED <<id, size, out, got, c2s, s2c, reset, spc, hdr, hdr_buf, payload_buf>>
      /\ UNCHANGED <<reply, request_count>>
  BY DEF client_return, return, serverVars
<1>2. Busy /\ spc # "closed" /\ TypeInv /\ ClientInv /\ ServerInv
  BY <1>1 DEF Busy, Good, ClosedInv
<1>3. Len(got) = MsgLen /\ Piece(id, size, got, 0)
  BY <1>1, <1>2 DEF ClientInv
<1>4. /\ MsgLen \in Nat \ {0} /\ Len(s2c) \in Nat /\ Len(c2s) \in Nat /\ Len(reply) \in Nat
      /\ MsgLen = HdrLen + size /\ id \in Nat /\ size \in Nat
  BY <1>2, Lengths
<1>5. got = Frame(id, size)
  BY <1>3, <1>4, PieceFrame
<1>6. /\ Taken \in Nat /\ Taken + Len(c2s) = Sent /\ Sent \in Nat /\ Sent <= MsgLen
      /\ Back = MsgLen + Len(s2c) /\ Back <= MsgLen
  BY <1>2, <1>3, Numbers DEF Back
<1>7. Len(s2c) = 0 /\ Back = MsgLen /\ Back # 0
  BY <1>4, <1>6
<1>8. spc # "send"
  <2> SUFFICES ASSUME spc = "send" PROVE FALSE
    OBVIOUS
  <2>1. reply # <<>> /\ Back + Len(reply) = MsgLen
    BY <1>2 DEF ServerInv
  <2>2. Len(reply) # 0
    BY <1>2, <2>1, EmptyLength DEF TypeInv
  <2> QED
    BY <1>4, <1>7, <2>1, <2>2
<1>9. spc = "recv_header"
  BY <1>2, <1>7, <1>8 DEF ServerInv, TypeInv
<1>10. hdr_buf = <<>> /\ Taken = MsgLen
  BY <1>2, <1>7, <1>9 DEF ServerInv
<1>11. c2s = <<>> /\ s2c = <<>>
  <2>1. Len(c2s) = 0
    BY <1>4, <1>6, <1>10
  <2> QED
    BY <1>2, <1>7, <2>1, EmptyLength DEF TypeInv
<1>12. Responded /\ ~Responded'
  BY <1>1, <1>9, <1>10 DEF Responded, Receiving
<1>13. /\ outcomes' \in Seq([ok : BOOLEAN, echo : BOOLEAN, size : Nat])
       /\ Len(outcomes) \in Nat /\ DOMAIN outcomes = 1 .. Len(outcomes)
       /\ DOMAIN outcomes' = 1 .. Len(outcomes) + 1
       /\ outcomes'[Len(outcomes) + 1].ok = TRUE
       /\ outcomes'[Len(outcomes) + 1].echo = TRUE
       /\ \A n \in 1 .. Len(outcomes) : outcomes'[n] = outcomes[n]
       /\ Answered' = Answered \cup {Len(outcomes) + 1}
       /\ Cardinality(Answered) \in Nat
       /\ Cardinality(Answered') = Cardinality(Answered) + 1
  <2>1. TRUE = (got = Frame(id, size)) /\ TRUE \in BOOLEAN
    BY <1>5
  <2> QED
    BY <1>1, <2>1, OneMoreOutcome
<1>14. TypeInv'
  BY <1>1, <1>2, <1>13 DEF TypeInv
<1>15. IdleInv' /\ ClientInv' /\ ServerInv' /\ ClosedInv'
  BY <1>1, <1>9, <1>10, <1>11 DEF Good, IdleInv, ClientInv, ServerInv, ClosedInv, Busy
<1>16. OutcomeInv'
  <2>1. /\ \A n \in DOMAIN outcomes : outcomes[n].ok
        /\ \A n \in Answered : outcomes[n].echo
        /\ request_count = Cardinality(Answered) + 1
    BY <1>2, <1>12 DEF Good, OutcomeInv
  <2>2. \A n \in Answered : n \in 1 .. Len(outcomes)
    BY <1>13 DEF Answered
  <2>3. \A n \in DOMAIN outcomes' : outcomes'[n].ok
    BY <1>13, <2>1
  <2>4. \A n \in Answered' : outcomes'[n].echo
    BY <1>13, <2>1, <2>2
  <2>5. request_count' = Cardinality(Answered') + 0
    BY <1>1, <1>13, <2>1
  <2> QED
    BY <1>12, <2>3, <2>4, <2>5 DEF OutcomeInv
<1> QED
  BY <1>14, <1>15, <1>16 DEF Good

\* The handler closes before it has answered: the client has received nothing.
LEMMA CloseStep ==
  ASSUME Good, spc \in {"parse", "recv_payload"}, spc' = "closed", c2s' = <<>>,
         UNCHANGED <<cpc, id, size, out, got, resp, outcomes>>,
         UNCHANGED <<s2c, reply, request_count>>,
         hdr_buf' \in Seq(Units), payload_buf' \in Seq(Units)
  PROVE  Good'
<1>1. Busy /\ TypeInv /\ ClientInv /\ ServerInv
  BY DEF Busy, Good, IdleInv
<1>2. Len(got) \in Nat /\ Len(s2c) \in Nat /\ HdrLen \in Nat \ {0} /\ MsgLen \in Nat \ {0}
  BY <1>1, Lengths
<1>3. Back = 0
  BY <1>1 DEF ServerInv
<1>4. Len(got) = 0 /\ Len(s2c) = 0
  BY <1>2, <1>3 DEF Back
<1>5. got = <<>> /\ s2c = <<>>
  BY <1>1, <1>4, EmptyLength DEF TypeInv
<1>6. cpc \in {"send", "recv_header"}
  BY <1>1, <1>2, <1>4 DEF ClientInv, TypeInv, Busy
<1>7. <<>> \in Seq(Units)
  OBVIOUS
<1>8. TypeInv'
  BY <1>1, <1>7 DEF TypeInv
<1>9. IdleInv' /\ ServerInv' /\ ClosedInv'
  BY <1>5, <1>6 DEF IdleInv, ServerInv, ClosedInv
<1>10. ClientInv'
  BY <1>1 DEF ClientInv, Busy, Sent, MsgLen
<1>11. ~Responded /\ ~Responded' /\ Answered' = Answered
  BY DEF Responded, Answered
<1>12. OutcomeInv'
  BY <1>11 DEF Good, OutcomeInv
<1> QED
  BY <1>8, <1>9, <1>10, <1>12 DEF Good

\* The handler receives another unit of the header.
LEMMA ServerRecvHeaderStep == ASSUME Good, server_recv_header PROVE Good'
<1>1. /\ spc = "recv_header" /\ c2s # <<>>
      /\ hdr_buf' = Append(hdr_buf, Head(c2s)) /\ c2s' = Tail(c2s)
      /\ spc' = IF Len(hdr_buf') = HdrLen THEN "parse" ELSE "recv_header"
      /\ UNCHANGED <<cpc, id, size, out, got, resp, outcomes>>
      /\ UNCHANGED <<hdr, payload_buf, reply, request_count, s2c, reset>>
  BY DEF server_recv_header, clientVars
<1>2. Busy /\ Busy' /\ spc # "closed" /\ spc' # "closed" /\ TypeInv /\ ClientInv /\ ServerInv
  BY <1>1 DEF Busy, Good, IdleInv
<1>3. /\ Len(c2s) \in Nat /\ id \in Nat /\ size \in Nat /\ HdrLen \in Nat \ {0}
      /\ MsgLen = HdrLen + size /\ MsgLen \in Nat /\ HdrLen <= MsgLen
  BY <1>2, Lengths
<1>4. Taken \in Nat /\ Taken + Len(c2s) = Sent /\ Sent \in Nat /\ Sent <= MsgLen
  BY <1>2, Numbers
<1>5. /\ Head(c2s) = Unit(id, size, Taken + 1)
      /\ Piece(id, size, c2s', Taken + 1) /\ Len(c2s') = Len(c2s) - 1
      /\ Len(c2s) # 0 /\ Taken + 1 <= HdrLen + size
  <2>1. Piece(id, size, c2s, Taken)
    BY <1>2 DEF ServerInv
  <2> QED
    BY <1>1, <1>3, <1>4, <2>1, PieceTail
<1>6. Taken # MsgLen
  BY <1>3, <1>4, <1>5
<1>7. Piece(id, size, hdr_buf, 0) /\ Taken = Len(hdr_buf) /\ Back = 0 /\ Len(hdr_buf) < HdrLen
  BY <1>1, <1>2, <1>6 DEF ServerInv
<1>8. Piece(id, size, hdr_buf', 0) /\ Len(hdr_buf') = Taken + 1
  <2>1. 0 \in Nat /\ Head(c2s) = Unit(id, size, 0 + Len(hdr_buf) + 1)
        /\ 0 + Len(hdr_buf) + 1 <= HdrLen + size
    BY <1>4, <1>5, <1>7
  <2> QED
    BY <1>1, <1>3, <1>7, <2>1, PieceAppend
<1>9. MsgLen' = MsgLen /\ Sent' = Sent /\ Back' = Back
  BY <1>1 DEF MsgLen, Sent, Back
<1>10. Taken' = Taken + 1
  <2>1. Taken' = Sent' - Len(c2s')
    BY DEF Taken
  <2> QED
    BY <1>3, <1>4, <1>5, <1>9, <2>1
<1>11. TypeInv'
  BY <1>1, <1>2, <1>5, <1>8 DEF TypeInv, Piece
<1>12. IdleInv' /\ ClosedInv'
  BY <1>1, <1>2 DEF IdleInv, ClosedInv, Busy, Good
<1>13. ClientInv'
  BY <1>1, <1>2, <1>9 DEF ClientInv
<1>14. Taken + 1 >= 0 /\ Taken + 1 <= HdrLen /\ (spc' = "recv_header" => Taken + 1 < HdrLen)
  BY <1>1, <1>3, <1>4, <1>7, <1>8
<1>15. ServerInv'
  BY <1>1, <1>2, <1>5, <1>7, <1>8, <1>9, <1>10, <1>14 DEF ServerInv
<1>16. OutcomeInv'
  <2>1. spc' = "recv_header" => Taken' # MsgLen'
    BY <1>3, <1>4, <1>9, <1>10, <1>14
  <2>2. ~Responded /\ ~Responded' /\ Answered' = Answered
    BY <1>1, <1>6, <2>1 DEF Responded, Answered
  <2> QED
    BY <1>1, <1>2, <2>2 DEF Good, OutcomeInv
<1> QED
  BY <1>11, <1>12, <1>13, <1>15, <1>16 DEF Good

\* The response goes out: it is the message, and the server has all of it.
LEMMA RespondStep ==
  ASSUME Good, spc \in {"parse", "recv_payload"}, NEW payload,
         Piece(id, size, payload, HdrLen), Len(payload) = size,
         respond([id |-> id, size |-> size], payload),
         UNCHANGED <<cpc, id, size, out, got, resp, outcomes, s2c, reset>>,
         Piece(id, size, c2s', MsgLen), MsgLen + Len(c2s') = Sent,
         hdr_buf' = <<>>, payload_buf' \in Seq(Units)
  PROVE  Good'
<1>1. Busy /\ Busy' /\ TypeInv /\ ClientInv /\ ServerInv
  BY DEF Busy, Good, IdleInv
<1>2. /\ id \in Nat /\ size \in Nat /\ Len(got) \in Nat /\ Len(s2c) \in Nat
      /\ MsgLen = HdrLen + size /\ MsgLen \in Nat \ {0} /\ HdrLen \in Nat
  BY <1>1, Lengths
<1>3. /\ request_count' = request_count + 1 /\ spc' = "send"
      /\ reply' = Header(id, size) \o payload
  BY DEF respond
<1>4. Piece(id, size, reply', 0) /\ Len(reply') = MsgLen
  BY <1>2, <1>3, PieceReply
<1>5. MsgLen' = MsgLen /\ Sent' = Sent /\ Back' = Back /\ Back = 0
  BY <1>1 DEF MsgLen, Sent, Back, ServerInv
<1>6. Len(c2s') \in Nat /\ c2s' \in Seq(Units) /\ reply' \in Seq(Units)
  BY <1>4 DEF Piece
<1>7. Taken' = MsgLen
  <2>1. Taken' = Sent' - Len(c2s')
    BY DEF Taken
  <2> QED
    BY <1>2, <1>5, <1>6, <2>1
<1>8. <<>> \in Seq(Units)
  OBVIOUS
<1>9. TypeInv'
  <2>1. request_count' \in Nat
    BY <1>1, <1>3 DEF TypeInv
  <2> QED
    BY <1>1, <1>3, <1>6, <1>8, <2>1 DEF TypeInv
<1>10. IdleInv' /\ ClosedInv'
  BY <1>1, <1>3 DEF IdleInv, ClosedInv, Busy, Good
<1>11. ClientInv'
  BY <1>1, <1>5 DEF ClientInv
<1>12. reply' # <<>> /\ Back' + Len(reply') = MsgLen /\ Taken' >= 0
  <2>1. reply' # <<>>
    BY <1>2, <1>4, <1>6, EmptyLength
  <2> QED
    BY <1>2, <1>4, <1>5, <1>7, <2>1
<1>13. ServerInv'
  <2>1. Piece(id, size, s2c, Len(got))
    BY <1>1 DEF ServerInv
  <2> QED
    BY <1>3, <1>4, <1>5, <1>7, <1>12, <2>1 DEF ServerInv
<1>14. Receiving
  <2>1. Sent = MsgLen
    BY <1>1, <1>2, <1>6, Numbers
  <2>2. cpc # "send"
    BY <1>1, <2>1, Numbers
  <2> QED
    BY <1>1, <2>2 DEF Receiving, Busy, TypeInv
<1>15. ~Responded /\ Responded' /\ Answered' = Answered
  BY <1>3, <1>5, <1>7, <1>14 DEF Responded, Receiving, Answered
<1>16. IsFiniteSet(Answered) /\ Cardinality(Answered) \in Nat
  BY <1>1, AnsweredFinite
<1>17. OutcomeInv'
  <2>1. request_count' = Cardinality(Answered') + 1
    BY <1>3, <1>15, <1>16 DEF Good, OutcomeInv
  <2> QED
    BY <1>3, <1>15, <2>1 DEF Good, OutcomeInv
<1> QED
  BY <1>9, <1>10, <1>11, <1>13, <1>17 DEF Good

\* The header that the handler has received is the one the client sent.
LEMMA ServerParseStep == ASSUME Good, server_parse PROVE Good'
<1>1. /\ spc = "parse" /\ UNCHANGED <<cpc, id, size, out, got, resp, outcomes, s2c>>
  BY DEF server_parse, clientVars
<1>2. Busy /\ Busy' /\ TypeInv /\ ClientInv /\ ServerInv
  BY <1>1 DEF Busy, Good, IdleInv
<1>3. /\ id \in Nat /\ size \in Nat /\ Len(c2s) \in Nat
      /\ MsgLen = HdrLen + size /\ MsgLen \in Nat \ {0} /\ HdrLen \in Nat
  BY <1>2, Lengths
<1>4. /\ Piece(id, size, hdr_buf, 0) /\ Len(hdr_buf) = HdrLen /\ Taken = HdrLen /\ Back = 0
      /\ Piece(id, size, c2s, Taken) /\ Piece(id, size, s2c, Len(got))
  BY <1>1, <1>2 DEF ServerInv
<1>5. Taken + Len(c2s) = Sent
  BY <1>1, <1>2, Numbers
<1> DEFINE h == [id |-> id, size |-> size]
<1>6. deserialize_header(hdr_buf) = {h}
  BY <1>3, <1>4, PieceHeader
<1>7. /\ hdr' = <<h>> /\ hdr_buf' = <<>> /\ payload_buf' = <<>>
      /\ \/ h.size > MaxPayload /\ close /\ UNCHANGED <<reply, request_count>>
         \/ h.size = 0 /\ respond(h, <<>>) /\ UNCHANGED <<c2s, reset>>
         \/ /\ h.size \in 1 .. MaxPayload /\ spc' = "recv_payload"
            /\ UNCHANGED <<c2s, reset, reply, request_count>>
  BY <1>6 DEF server_parse
<1>8. h.size = size
  OBVIOUS
<1>9. <<>> \in Seq(Units) /\ Len(<<>>) = 0
  OBVIOUS
<1>10. Piece(id, size, <<>>, HdrLen)
  BY <1>3, PieceEmpty
<1>11. CASE close /\ UNCHANGED <<reply, request_count>>
  BY <1>1, <1>7, <1>9, <1>11, CloseStep DEF close
<1>12. CASE size = 0 /\ respond(h, <<>>) /\ UNCHANGED <<c2s, reset>>
  <2>1. MsgLen = HdrLen
    BY <1>3, <1>12
  <2> QED
    BY <1>1, <1>4, <1>5, <1>7, <1>9, <1>10, <1>12, <2>1, RespondStep
<1>13. CASE /\ size \in 1 .. MaxPayload /\ spc' = "recv_payload"
            /\ UNCHANGED <<c2s, reset, reply, request_count>>
  <2>1. MsgLen' = MsgLen /\ Sent' = Sent /\ Back' = Back /\ Taken' = Taken
    BY <1>1, <1>13 DEF MsgLen, Sent, Back, Taken
  <2>2. TypeInv'
    BY <1>1, <1>2, <1>7, <1>9, <1>13 DEF TypeInv
  <2>3. IdleInv' /\ ClosedInv'
    BY <1>1, <1>2, <1>13 DEF IdleInv, ClosedInv, Busy, Good
  <2>4. ClientInv'
    BY <1>1, <1>2, <2>1 DEF ClientInv
  <2>5. Taken' >= 0 /\ Len(payload_buf') < size /\ Taken' = HdrLen + Len(payload_buf')
    BY <1>3, <1>4, <1>7, <1>9, <1>13, <2>1
  <2>6. ServerInv'
    BY <1>1, <1>4, <1>7, <1>10, <1>13, <2>1, <2>5 DEF ServerInv
  <2>7. ~Responded /\ ~Responded' /\ Answered' = Answered
    BY <1>1, <1>13 DEF Responded, Answered
  <2>8. OutcomeInv'
    BY <1>1, <1>13, <2>7 DEF Good, OutcomeInv
  <2> QED
    BY <2>2, <2>3, <2>4, <2>6, <2>8 DEF Good
<1> QED
  BY <1>7, <1>8, <1>11, <1>12, <1>13

\* The handler receives another unit of the payload, perhaps the last one.
LEMMA ServerRecvPayloadStep == ASSUME Good, server_recv_payload PROVE Good'
<1>1. /\ spc = "recv_payload" /\ c2s # <<>>
      /\ payload_buf' = Append(payload_buf, Head(c2s)) /\ c2s' = Tail(c2s)
      /\ UNCHANGED <<cpc, id, size, out, got, resp, outcomes>>
      /\ UNCHANGED <<hdr, hdr_buf, s2c, reset>>
  BY DEF server_recv_payload, clientVars
<1>2. Busy /\ Busy' /\ TypeInv /\ ClientInv /\ ServerInv
  BY <1>1 DEF Busy, Good, IdleInv
<1>3. /\ id \in Nat /\ size \in Nat /\ Len(c2s) \in Nat /\ Len(payload_buf) \in Nat
      /\ MsgLen = HdrLen + size /\ MsgLen \in Nat \ {0} /\ HdrLen \in Nat
  BY <1>2, Lengths
<1>4. /\ hdr = <<[id |-> id, size |-> size]>> /\ Len(payload_buf) < size
      /\ Piece(id, size, payload_buf, HdrLen) /\ Taken = HdrLen + Len(payload_buf)
      /\ Piece(id, size, c2s, Taken) /\ hdr_buf = <<>> /\ Back = 0
      /\ Piece(id, size, s2c, Len(got))
  BY <1>1, <1>2 DEF ServerInv
<1>5. Taken \in Nat /\ Taken + Len(c2s) = Sent /\ Sent \in Nat
  BY <1>1, <1>2, Numbers
<1>6. /\ Head(c2s) = Unit(id, size, Taken + 1)
      /\ Piece(id, size, c2s', Taken + 1) /\ Len(c2s') = Len(c2s) - 1
      /\ Taken + 1 <= HdrLen + size
  BY <1>1, <1>3, <1>4, <1>5, PieceTail
<1>7. Piece(id, size, payload_buf', HdrLen) /\ Len(payload_buf') = Len(payload_buf) + 1
  <2>1. Head(c2s) = Unit(id, size, HdrLen + Len(payload_buf) + 1)
        /\ HdrLen + Len(payload_buf) + 1 <= HdrLen + size
    BY <1>4, <1>6
  <2> QED
    BY <1>1, <1>3, <1>4, <2>1, PieceAppend
<1>8. c2s' \in Seq(Units) /\ payload_buf' \in Seq(Units)
  BY <1>6, <1>7 DEF Piece
<1>9. hdr[1] = [id |-> id, size |-> size] /\ hdr[1].size = size
  BY <1>4
<1>10. CASE Len(payload_buf') = size
  <2>1. respond([id |-> id, size |-> size], payload_buf')
    BY <1>9, <1>10 DEF server_recv_payload
  <2>2. Taken + 1 = MsgLen /\ MsgLen + Len(c2s') = Sent
    <3>1. /\ Taken = HdrLen + Len(payload_buf) /\ Len(payload_buf) + 1 = size
          /\ Len(c2s') = Len(c2s) - 1
      BY <1>4, <1>6, <1>7, <1>10
    <3> QED
      BY <1>3, <1>5, <3>1
  <2>3. PICK p : p = payload_buf'
    OBVIOUS
  <2>4. respond([id |-> id, size |-> size], p)
    BY <2>1, <2>3 DEF respond
  <2> QED
    BY <1>1, <1>4, <1>6, <1>7, <1>8, <1>10, <2>2, <2>3, <2>4, RespondStep
<1>11. CASE Len(payload_buf') # size
  <2>1. UNCHANGED <<spc, reply, request_count>>
    BY <1>9, <1>11 DEF server_recv_payload
  <2>2. MsgLen' = MsgLen /\ Sent' = Sent /\ Back' = Back
    BY <1>1 DEF MsgLen, Sent, Back
  <2>3. Taken' = Taken + 1
    <3>1. Taken' = Sent' - Len(c2s')
      BY DEF Taken
    <3> QED
      BY <1>3, <1>5, <1>6, <2>2, <3>1
  <2>4. TypeInv'
    BY <1>1, <1>2, <1>8, <2>1 DEF TypeInv
  <2>5. IdleInv' /\ ClosedInv'
    BY <1>1, <1>2, <2>1 DEF IdleInv, ClosedInv, Busy, Good
  <2>6. ClientInv'
    BY <1>1, <1>2, <2>2 DEF ClientInv
  <2>7. Taken' >= 0 /\ Len(payload_buf') < size /\ Taken' = HdrLen + Len(payload_buf')
    BY <1>3, <1>4, <1>5, <1>7, <1>11, <2>3
  <2>8. ServerInv'
    BY <1>1, <1>4, <1>6, <1>7, <2>1, <2>2, <2>3, <2>7 DEF ServerInv
  <2>9. ~Responded /\ ~Responded' /\ Answered' = Answered
    BY <1>1, <2>1 DEF Responded, Answered
  <2>10. OutcomeInv'
    BY <1>1, <2>1, <2>9 DEF Good, OutcomeInv
  <2> QED
    BY <2>4, <2>5, <2>6, <2>8, <2>10 DEF Good
<1> QED
  BY <1>10, <1>11

\* The payload does not come in time.
LEMMA PayloadTimeoutStep == ASSUME Good, server_payload_timeout PROVE Good'
<1>1. hdr_buf' \in Seq(Units) /\ payload_buf' \in Seq(Units)
  BY DEF server_payload_timeout, Good, TypeInv
<1> QED
  BY <1>1, CloseStep DEF server_payload_timeout, close, clientVars

\* send_exact() sends another unit of the response.
LEMMA ServerSendStep == ASSUME Good, server_send PROVE Good'
<1>1. /\ spc = "send" /\ s2c' = Append(s2c, Head(reply)) /\ reply' = Tail(reply)
      /\ spc' = IF Len(reply) = 1 THEN "recv_header" ELSE "send"
      /\ UNCHANGED <<cpc, id, size, out, got, resp, outcomes>>
      /\ UNCHANGED <<hdr, hdr_buf, payload_buf, request_count, c2s, reset>>
  BY DEF server_send, clientVars
<1>2. Busy /\ Busy' /\ spc' # "closed" /\ TypeInv /\ ClientInv /\ ServerInv
  BY <1>1 DEF Busy, Good, IdleInv
<1>3. /\ id \in Nat /\ size \in Nat /\ Len(got) \in Nat /\ Len(s2c) \in Nat
      /\ Len(reply) \in Nat /\ HdrLen \in Nat \ {0}
      /\ MsgLen = HdrLen + size /\ MsgLen \in Nat
  BY <1>2, Lengths
<1>4. /\ reply # <<>> /\ Piece(id, size, reply, Back) /\ Back + Len(reply) = MsgLen
      /\ hdr_buf = <<>> /\ Taken = MsgLen /\ Piece(id, size, c2s, Taken) /\ Taken >= 0
      /\ Piece(id, size, s2c, Len(got))
  BY <1>1, <1>2 DEF ServerInv
<1>5. Back \in Nat /\ Back = Len(got) + Len(s2c)
  BY <1>3 DEF Back
<1>6. /\ Head(reply) = Unit(id, size, Back + 1)
      /\ Piece(id, size, reply', Back + 1) /\ Len(reply') = Len(reply) - 1
      /\ Back + 1 <= HdrLen + size
  BY <1>1, <1>3, <1>4, <1>5, PieceTail
<1>7. Piece(id, size, s2c', Len(got)) /\ Len(s2c') = Len(s2c) + 1
  <2>1. Head(reply) = Unit(id, size, Len(got) + Len(s2c) + 1)
        /\ Len(got) + Len(s2c) + 1 <= HdrLen + size
    BY <1>5, <1>6
  <2> QED
    BY <1>1, <1>3, <1>4, <2>1, PieceAppend
<1>8. MsgLen' = MsgLen /\ Sent' = Sent /\ Taken' = Taken
  BY <1>1 DEF MsgLen, Sent, Taken
<1>9. Back' = Back + 1
  <2>1. Back' = Len(got') + Len(s2c')
    BY DEF Back
  <2> QED
    BY <1>1, <1>3, <1>5, <1>7, <2>1
<1>10. TypeInv'
  BY <1>1, <1>2, <1>6, <1>7 DEF TypeInv, Piece
<1>11. IdleInv' /\ ClosedInv'
  BY <1>1, <1>2 DEF IdleInv, ClosedInv, Busy, Good
<1>12. ClientInv'
  BY <1>1, <1>2, <1>8 DEF ClientInv
<1>13. Back' + Len(reply') = MsgLen
  BY <1>3, <1>4, <1>5, <1>6, <1>9
<1>14. ServerInv'
  <2>1. CASE Len(reply) = 1
    <3>1. Back' = MsgLen /\ Len(hdr_buf') < HdrLen
      BY <1>1, <1>3, <1>4, <1>9, <2>1
    <3> QED
      BY <1>1, <1>4, <1>7, <1>8, <2>1, <3>1 DEF ServerInv
  <2>2. CASE Len(reply) # 1
    <3>1. Len(reply) # 0 /\ reply' \in Seq(Units)
      BY <1>2, <1>4, <1>10, EmptyLength DEF TypeInv
    <3>2. Len(reply') # 0
      BY <1>3, <1>6, <2>2
    <3>3. reply' # <<>>
      BY <3>1, <3>2, EmptyLength
    <3> QED
      BY <1>1, <1>4, <1>6, <1>7, <1>8, <1>9, <1>13, <2>2, <3>3 DEF ServerInv
  <2> QED
    BY <2>1, <2>2
<1>15. Responded' = Responded /\ Answered' = Answered
  BY <1>1, <1>8 DEF Responded, Receiving, Answered
<1>16. OutcomeInv'
  BY <1>1, <1>2, <1>15 DEF Good, OutcomeInv
<1> QED
  BY <1>10, <1>11, <1>12, <1>14, <1>16 DEF Good

\* Nothing happens.
LEMMA StutterStep == ASSUME Good, UNCHANGED vars PROVE Good'
<1>1. /\ UNCHANGED <<cpc, id, size, out, got, resp, outcomes, c2s, s2c, reset>>
      /\ UNCHANGED <<spc, hdr, hdr_buf, payload_buf, reply, request_count, cut>>
  BY DEF vars, clientVars, serverVars
<1>2. MsgLen' = MsgLen /\ Sent' = Sent /\ Taken' = Taken /\ Back' = Back
  BY <1>1 DEF MsgLen, Sent, Taken, Back
<1>3. TypeInv' /\ IdleInv' /\ ClosedInv'
  BY <1>1 DEF Good, TypeInv, IdleInv, ClosedInv, Busy
<1>4. ClientInv' /\ ServerInv'
  BY <1>1, <1>2 DEF Good, ClientInv, ServerInv, Busy
<1>5. Responded' = Responded /\ Answered' = Answered
  BY <1>1, <1>2 DEF Responded, Receiving, Answered
<1>6. OutcomeInv'
  BY <1>1, <1>5 DEF Good, OutcomeInv
<1> QED
  BY <1>3, <1>4, <1>6 DEF Good

\* Every step keeps the invariant, and once a header was cut it says nothing.
LEMMA StepIInv == IInv /\ [Next]_vars => IInv'
<1> SUFFICES ASSUME IInv, [Next]_vars, ~cut' PROVE Good'
  BY DEF IInv
<1>1. ~cut /\ ~server_header_timeout
  BY DEF Next, Client, begin, client_send, client_send_lost, client_send_fails, client_recv,
    client_parse, client_return, client_recv_fails, return, Server, server_recv_header,
    server_parse, server_recv_payload, server_send, Timeout, server_header_timeout,
    server_payload_timeout, Terminated, Hung, vars, serverVars
<1>2. Good
  BY <1>1 DEF IInv
<1>3. CASE Client
  BY <1>2, <1>3, BeginStep, ClientSendStep, ClientSendLostStep, ClientFailsStep,
     ClientRecvStep, ClientParseStep, ClientReturnStep DEF Client
<1>4. CASE Server
  BY <1>2, <1>4, ServerRecvHeaderStep, ServerParseStep, ServerRecvPayloadStep,
     ServerSendStep DEF Server
<1>5. CASE Timeout
  BY <1>1, <1>2, <1>5, PayloadTimeoutStep DEF Timeout
<1>6. CASE UNCHANGED vars
  BY <1>2, <1>6, StutterStep
<1> QED
  BY <1>3, <1>4, <1>5, <1>6 DEF Next, Terminated, Hung

-----------------------------------------------------------------------------
\* The invariant holds in every reachable state.
THEOREM Invariance == Spec => []IInv
BY InitIInv, StepIInv, PTL DEF Spec

\* Unless the server dropped part of a header, do_request() measures only
\* requests whose own message came back, for messages and socket buffers of any
\* size and wherever sends and receives are split.
THEOREM MeasuredAreEchoes == Spec => []EchoUnlessCut
<1>1. IInv => EchoUnlessCut
  BY DEF IInv, Good, OutcomeInv, EchoUnlessCut
<1> QED
  BY <1>1, Invariance, PTL

\* The server's count and the client's samples differ by at most the request
\* whose response is under way.
THEOREM ServerAndClientCount == Spec => []CountsAgree
<1>1. IInv => CountsAgree
  <2> SUFFICES ASSUME IInv, ~cut
               PROVE  request_count \in {Cardinality(Answered), Cardinality(Answered) + 1}
    BY DEF CountsAgree
  <2>1. TypeInv /\ OutcomeInv
    BY DEF IInv, Good
  <2>2. Cardinality(Answered) \in Nat
    BY <2>1, AnsweredFinite
  <2> QED
    BY <2>1, <2>2 DEF OutcomeInv
<1> QED
  BY <1>1, Invariance, PTL

\* After a request that failed none succeeds.
THEOREM FailuresAreForGood == Spec => []FailureIsForGood
<1>1. IInv => FailureIsForGood
  BY DEF IInv, Good, OutcomeInv, FailureIsForGood
<1> QED
  BY <1>1, Invariance, PTL
=============================================================================

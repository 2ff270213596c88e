------------------------------ MODULE TcpConn ------------------------------
(* The client's end of a TCP connection (tools/netboot-oracle/tcp/conn.go):  *)
(* an active open, in-order data streamed to a sink in windows, the server's *)
(* FIN. A connection is a record and each method a function of it: the new   *)
(* connection, the segments it sends (none or one) and the chunks it hands   *)
(* to its sink, in order.                                                    *)
EXTENDS Integers, Sequences

CONSTANTS
  SeqSpace,         \* sequence numbers are modulo SeqSpace (2^32 in the code)
  FlushWindow     \* bytes the sink is given at a time

ASSUME ConnAssumption == SeqSpace \in Nat \ {0, 1} /\ FlushWindow \in Nat \ {0}

ConnStates == {"CLOSED", "SYN_SENT", "ESTABLISHED", "FIN_WAIT"}

\* A segment to the port dst. Data is a sequence of bytes.
Segment(dst, flags, seq, ack, data) ==
  [dst |-> dst, flags |-> flags, seq |-> seq, ack |-> ack, data |-> data]

Reply(conn, tx, writes) == [conn |-> conn, tx |-> tx, writes |-> writes]
Ignore(c) == Reply(c, <<>>, <<>>)

NewConn(port, iss) ==
  [state |-> "CLOSED", port |-> port, sndNxt |-> iss, rcvNxt |-> 0, flushBuf |-> <<>>]

\* A segment from this connection's numbers; dst is the client's own port, by
\* which the server's side of the connection is known here.
build(c, flags, data) == Segment(c.port, flags, c.sndNxt, c.rcvNxt, data)

\* The SYN takes one sequence number.
Connect(c) ==
  Reply([c EXCEPT !.sndNxt = (@ + 1) % SeqSpace, !.state = "SYN_SENT"], <<build(c, {"SYN"}, <<>>)>>, <<>>)

\* Data goes to the buffer, full windows of the buffer to the sink.
acceptPayload(c, data) ==
  LET buf  == c.flushBuf \o data
      full == Len(buf) \div FlushWindow
  IN  [conn   |-> [c EXCEPT !.flushBuf = SubSeq(buf, full * FlushWindow + 1, Len(buf))],
       writes |-> [w \in 1 .. full |-> SubSeq(buf, (w - 1) * FlushWindow + 1, w * FlushWindow)]]

\* The rest of the buffer, at the end of the stream.
flushFinal(c) == IF c.flushBuf = <<>> THEN <<>> ELSE <<c.flushBuf>>

OnSynAck(c, s) ==
  IF {"SYN", "ACK"} \subseteq s.flags /\ s.ack = c.sndNxt
  THEN LET e == [c EXCEPT !.rcvNxt = (s.seq + 1) % SeqSpace, !.state = "ESTABLISHED"]
       IN  Reply(e, <<build(e, {"ACK"}, <<>>)>>, <<>>)
  ELSE Ignore(c)

\* Mutant: a FIN ends the stream whatever came before it.
AnyOrder(c, s) == "FIN" \in s.flags \/ s.seq = c.rcvNxt

\* No segment is kept for later: one that is not next is as if it were lost.
InOrder(c, s) == s.seq = c.rcvNxt

\* The FIN, with the last data or alone: the buffer is emptied, the FIN takes
\* one number of either side.
OnFin(c, s) ==
  LET a == acceptPayload(c, s.data)
      e == [a.conn EXCEPT !.rcvNxt = (@ + Len(s.data) + 1) % SeqSpace, !.flushBuf = <<>>]
  IN  Reply([e EXCEPT !.sndNxt = (@ + 1) % SeqSpace, !.state = "FIN_WAIT"],
            <<build(e, {"FIN", "ACK"}, <<>>)>>, a.writes \o flushFinal(a.conn))

\* Mutant: only data that fills a window is acknowledged.
DelayedAck(c, s) ==
  LET a == acceptPayload(c, s.data)
      e == [a.conn EXCEPT !.rcvNxt = (@ + Len(s.data)) % SeqSpace]
  IN  Reply(e, IF a.writes = <<>> THEN <<>> ELSE <<build(e, {"ACK"}, <<>>)>>, a.writes)

OnData(c, s) ==
  LET a == acceptPayload(c, s.data)
      e == [a.conn EXCEPT !.rcvNxt = (@ + Len(s.data)) % SeqSpace]
  IN  Reply(e, <<build(e, {"ACK"}, <<>>)>>, a.writes)

\* Mutant: the destination port is not looked at.
AnyPort(c, s) == TRUE

\* A segment is known by its ports alone.
ForUs(c, s) == s.dst = c.port

OnSegment(c, s) ==
  CASE ~ForUs(c, s) -> Ignore(c)
    [] ForUs(c, s) /\ c.state = "SYN_SENT" -> OnSynAck(c, s)
    [] ForUs(c, s) /\ c.state = "ESTABLISHED" ->
         IF ~InOrder(c, s) THEN Ignore(c)
         ELSE IF "FIN" \in s.flags THEN OnFin(c, s)
         ELSE IF s.data = <<>> THEN Ignore(c) ELSE OnData(c, s)
    [] ForUs(c, s) /\ c.state = "FIN_WAIT" ->
         Ignore(IF "ACK" \in s.flags /\ s.ack = c.sndNxt THEN [c EXCEPT !.state = "CLOSED"] ELSE c)
    [] OTHER -> Ignore(c)

\* Application data over an established connection.
Send(c, data) ==
  IF c.state # "ESTABLISHED" THEN Ignore(c)
  ELSE Reply([c EXCEPT !.sndNxt = (@ + Len(data)) % SeqSpace], <<build(c, {"PSH", "ACK"}, data)>>, <<>>)
=============================================================================

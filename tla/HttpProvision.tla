--------------------------- MODULE HttpProvision ---------------------------
(* Provisioning over HTTP (http/provision.go over http/fetcher.go): the      *)
(* files of a plan are fetched one after the other, each over a connection   *)
(* of its own, and each is streamed past the response header into the store  *)
(* and through a hash.                                                       *)
(*                                                                           *)
(* A byte is "sp" (a space), "nl" (half of the empty line that ends the      *)
(* header), or another token; a hash is modelled by what was hashed. The     *)
(* server and the network are external: once a request arrived, any stretch  *)
(* of the response may arrive at any time, so segments are cut anew, lost,   *)
(* repeated and reordered, those of earlier connections too.                 *)
EXTENDS TcpConn, SequencesExt

CONSTANTS
  Plan,           \* the download plan: a sequence of [name, pinned]
  Responses,      \* what the server may answer: a set of [header, body]
  BasePort, BaseISS, ISSStride, PortMod,
  ServerISSs,     \* the server's initial sequence numbers
  MaxSegment      \* bytes in a segment, at most

\* Manifest.Plan: the files of a selection in its order, repeated if it
\* repeats them; all of them if it is empty.
PlanFor(manifest, selection) ==
  IF selection = <<>> THEN manifest ELSE [i \in DOMAIN selection |-> manifest[selection[i]]]

Names == {Plan[i].name : i \in DOMAIN Plan}
GET == <<"get">>

ASSUME PlanAssumption == Plan # <<>> /\ Plan \in Seq([name : Names, pinned : {Plan[i].pinned : i \in DOMAIN Plan}])

VARIABLES
  idx,            \* Provisioner.idx: the file being fetched
  phase,          \* Fetcher.phase
  conn,           \* Fetcher.conn
  headerDone,     \* bodySink.headerDone
  hashed,         \* what HashingSink has hashed of this file
  files,          \* MemStore.Files
  res,            \* Provisioner.res
  served,         \* served[i]: the server's end of connection i, once opened
  una,            \* how far into the response the server knows to be received
  reliable        \* does everything the client sends arrive?

clientVars == <<idx, phase, conn, headerDone, hashed, files, res>>
vars == <<clientVars, served, una, reliable>>

Stream(i) == served[i].response.header \o served[i].response.body

-----------------------------------------------------------------------------
(* The sinks. *)

\* ParseResponse: the status line needs a space; the body starts after the
\* first empty line.
BodyStarts(raw) == {k \in 3 .. Len(raw) + 1 : raw[k - 2] = "nl" /\ raw[k - 1] = "nl"}

ParseResponse(raw) ==
  IF (\E k \in DOMAIN raw : raw[k] = "sp") /\ BodyStarts(raw) # {}
  THEN [complete |-> TRUE, bodyOff |-> CHOOSE k \in BodyStarts(raw) : \A j \in BodyStarts(raw) : k <= j]
  ELSE [complete |-> FALSE, bodyOff |-> 1]

\* bodySink.Write: nothing passes until a chunk holds the end of the header.
BodySinkWrite(sink, chunk) ==
  IF sink.headerDone THEN [sink EXCEPT !.body = @ \o chunk]
  ELSE LET r == ParseResponse(chunk) IN
       IF ~r.complete THEN sink
       ELSE [headerDone |-> TRUE, body |-> sink.body \o SubSeq(chunk, r.bodyOff, Len(chunk))]

\* What the writes of one step leave in the sink; body is what passes to the
\* hash and to the store.
Drained(sink, writes) ==
  LET after[w \in 0 .. Len(writes)] ==
        IF w = 0 THEN sink ELSE BodySinkWrite(after[w - 1], writes[w])
  IN  after[Len(writes)]

NothingYet == [headerDone |-> headerDone, body |-> <<>>]

-----------------------------------------------------------------------------
(* The provisioner. *)

Port(i) == (BasePort + i - 1) % PortMod
ISS(i)  == (BaseISS + (i - 1) * ISSStride) % SeqSpace

\* No port is used for two files of one plan, as of 65536 there are.
ASSUME PortAssumption ==
  /\ BasePort \in Nat /\ PortMod \in Nat \ {0} /\ BaseISS \in Nat /\ ISSStride \in Nat
  /\ \A i, j \in DOMAIN Plan : Port(i) = Port(j) => i = j

\* A response is a header, which has a space and ends in its only empty line,
\* and a body; with SYN and FIN it does not use up the sequence numbers.
Bytes == UNION {ToSet(r.header) \cup ToSet(r.body) : r \in Responses}

ASSUME ServerAssumption ==
  /\ ServerISSs \subseteq 0 .. SeqSpace - 1 /\ MaxSegment \in Nat
  /\ Responses \subseteq [header : Seq(Bytes), body : Seq(Bytes)]
  /\ \A r \in Responses :
       /\ \E k \in DOMAIN r.header : r.header[k] = "sp"
       /\ BodyStarts(r.header) = {Len(r.header) + 1}
       /\ Len(r.header) + Len(r.body) + 1 < SeqSpace

\* Mutant: a file of that name keeps what it held.
OpenForAppend(name) == files' = [files EXCEPT ![name] = @]

\* Store.Begin empties the file of that name.
StoreBegin(name) == files' = [files EXCEPT ![name] = <<>>]

StartFields(i) ==
  /\ idx' = i
  /\ phase' = "ARP"
  /\ conn' = NewConn(Port(i), ISS(i))
  /\ headerDone' = FALSE
  /\ hashed' = <<>>

Init ==
  /\ idx = 1 /\ phase = "ARP" /\ conn = NewConn(Port(1), ISS(1))
  /\ headerDone = FALSE /\ hashed = <<>>
  /\ files = [n \in Names |-> <<>>] /\ res = <<>>
  /\ served = <<>> /\ una = 0
  /\ reliable \in BOOLEAN

\* Does a segment of the client's arrive?
Arrives == {TRUE, reliable}

\* The server's ARP reply: the connection is opened. Not every SYN arrives.
OnArpReply ==
  /\ phase = "ARP"
  /\ phase' = "HANDSHAKE"
  /\ conn' = Connect(conn).conn
  /\ \E arrives \in Arrives, iss \in ServerISSs :
       served' = IF arrives
                 THEN Append(served, [iss |-> iss, ack |-> conn'.sndNxt, asked |-> FALSE, response |-> <<>>])
                 ELSE served
  /\ una' = 0
  /\ UNCHANGED <<idx, headerDone, hashed, files, res, reliable>>

\* The server's SYN-ACK, sent until something comes back; another may be of an
\* older connection or acknowledge what was never sent.
SynAcks ==
  {Segment(Port(i), {"SYN", "ACK"}, served[i].iss, a, <<>>) : i \in DOMAIN served,
     a \in {ISS(j) : j \in DOMAIN Plan} \cup {served[k].ack : k \in DOMAIN served}}

\* The handshake's own ACK is dropped, the GET goes in its place.
OnSynAckFrame(s) ==
  /\ phase = "HANDSHAKE"
  /\ LET r == OnSegment(conn, s) IN
     IF r.tx = <<>> THEN UNCHANGED <<clientVars, served, una>>
     ELSE /\ phase' = "RECV"
          /\ conn' = Send(r.conn, GET).conn
          /\ \E arrives \in Arrives, response \in Responses :
               served' = IF arrives
                         THEN [served EXCEPT ![idx] = [@ EXCEPT !.asked = TRUE, !.response = response]]
                         ELSE served
          /\ UNCHANGED <<idx, headerDone, hashed, files, res, una>>
  /\ UNCHANGED reliable

\* The stretch of n bytes from the offset `from' of response i.
Stretch(i, from, n, fin) ==
  Segment(Port(i), IF fin THEN {"FIN", "ACK"} ELSE {"ACK"}, (served[i].iss + 1 + from) % SeqSpace,
          0, SubSeq(Stream(i), from + 1, from + n))

\* Data and FIN are streamed past the header; the FIN ends the file, and its
\* verdict is recorded.
OnStreamFrame(s) ==
  /\ phase = "RECV"
  /\ LET r == OnSegment(conn, s)
         d == Drained(NothingYet, r.writes)
         name == Plan[idx].name
     IN
     /\ conn' = r.conn
     /\ headerDone' = d.headerDone
     /\ hashed' = hashed \o d.body
     /\ files' = [files EXCEPT ![name] = @ \o d.body]
     /\ IF r.conn.state \in {"FIN_WAIT", "CLOSED"}
        THEN /\ phase' = "DONE"
             /\ res' = Append(res, [name |-> name, verified |-> hashed' = Plan[idx].pinned])
        ELSE UNCHANGED <<phase, res>>
     /\ una' \in IF r.tx = <<>> \/ phase' = "DONE" THEN {una}
                 ELSE {(r.conn.rcvNxt - served[idx].iss - 1) % SeqSpace} \cup (IF reliable THEN {} ELSE {una})
  /\ UNCHANGED <<idx, served, reliable>>

\* Next, after StatusFileDone: the next file's fetch starts.
NextFile ==
  /\ phase = "DONE" /\ idx < Len(Plan)
  /\ StartFields(idx + 1)
  /\ StoreBegin(Plan[idx + 1].name)
  /\ UNCHANGED <<res, served, una, reliable>>

Segments(i) ==
  {Stretch(i, c[1], c[2], c[1] + c[2] = Len(Stream(i)) /\ fin) :
     fin \in BOOLEAN,
     c \in {d \in (0 .. Len(Stream(i))) \X (0 .. MaxSegment) : d[1] + d[2] <= Len(Stream(i))}}

Asked == {i \in DOMAIN served : served[i].asked}

\* Fetcher.OnFrame: a frame is looked at only in the phase it belongs to.
OnFrame == \E s \in SynAcks \cup UNION {Segments(i) : i \in Asked} :
             OnSynAckFrame(s) \/ OnStreamFrame(s)

Next == OnArpReply \/ OnFrame \/ NextFile

Spec == Init /\ [][Next]_vars

\* The server's retransmissions: its SYN-ACK, then what follows what it knows
\* to be received.
SynAckAgain ==
  /\ idx \in DOMAIN served
  /\ OnSynAckFrame(Segment(Port(idx), {"SYN", "ACK"}, served[idx].iss, served[idx].ack, <<>>))

DataAgain ==
  /\ idx \in Asked
  /\ \E n \in 0 .. MaxSegment, fin \in BOOLEAN :
       /\ una + n <= Len(Stream(idx))
       /\ OnStreamFrame(Stretch(idx, una, n, una + n = Len(Stream(idx)) /\ fin))

\* A server that sends a thing over and over gets it through in the end.
FairSpec == /\ Spec /\ WF_vars(OnArpReply) /\ WF_vars(NextFile)
            /\ SF_vars(SynAckAgain) /\ SF_vars(DataAgain)

-----------------------------------------------------------------------------
(* Properties. *)

HeaderFits(i) == Len(served[i].response.header) <= FlushWindow

\* How much of the response the client has taken.
Taken == (conn.rcvNxt - served[idx].iss - 1) % SeqSpace

\* Whatever was lost, repeated, cut anew or left over from an earlier file, the
\* sink has the full windows of the stream so far and the buffer the rest, and
\* what passed the header is the body from its first byte.
BytesInOrder ==
  phase = "RECV" /\ idx \in Asked =>
    LET full == FlushWindow * (Taken \div FlushWindow) IN
    /\ una <= Taken /\ Taken <= Len(Stream(idx))
    /\ conn.flushBuf = SubSeq(Stream(idx), full + 1, Taken)
    /\ HeaderFits(idx) =>
         hashed = SubSeq(Stream(idx), Len(served[idx].response.header) + 1, full)

\* A file is verified if and only if the server sent the pinned bytes; if the
\* header fills more than a window, only if ("a missing/short body, never a
\* panic or a header leak", fetcher.go).
VerdictIsRight ==
  \A i \in DOMAIN res :
    LET sent == served[i].response.body = Plan[i].pinned
        good == res[i].verified
    IN  IF HeaderFits(i) THEN good <=> sent
        ELSE good => IsSuffix(Plan[i].pinned, served[i].response.body)

\* The last verdict on a name, unless it is being fetched again, tells what is
\* in the store: also for a plan that names a file twice.
VerifiedIsStored ==
  \A i \in DOMAIN res :
    /\ res[i].verified
    /\ \A j \in i + 1 .. idx : Plan[j].name # Plan[i].name
    => files[Plan[i].name] = Plan[i].pinned

\* When all the client sends arrives, the plan is worked through whatever is
\* lost of what the server sends, though the client never sends a thing twice.
Completes == reliable => <>(Len(res) = Len(Plan))
=============================================================================

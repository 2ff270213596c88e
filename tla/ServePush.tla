------------------------------ MODULE ServePush ------------------------------
(***************************************************************************)
(* The serve program (tools/netboot-oracle/serve/serve.go): files of the   *)
(* SAM read over TFTP, and files pushed onto its SD card.  One receiver    *)
(* serves whoever pushed last and one transfer whoever read last; reads    *)
(* and pushes share the two ports.  A client is an ordinary TFTP client    *)
(* with a port of its own and one request.  A pushed file is of class      *)
(* "disk" (a record image, whose size must be right) or "flat" (any size). *)
(* An OACK and an ACK 0 both prompt a pusher's DATA 1: one message stands  *)
(* for the two.  A file is a sequence of units, each a token of its own.   *)
(***************************************************************************)
EXTENDS Integers, Sequences, FiniteSets, SequencesExt

CONSTANTS
  Pushers,        \* the hosts that push, each the file of its name
  Readers,        \* the hosts that read
  Casts,          \* which of them take part: any of these sets
  Class,          \* pusher -> "disk" or "flat"
  Reads,          \* reader -> the name it asks for
  WithOptions,    \* the readers that ask for options, and so get an OACK
  Served,         \* the names the program serves
  Size,           \* name -> units of the file
  blksize,        \* client -> units in a block
  SectorSize,     \* units in a sector
  RecordSize,     \* units in an image of the right size (819200 bytes)
  FreeAtStart,    \* the unnamed records of the card
  Strategies,     \* a build is configured "highest", "lowest" or "explicit"
  ExplicitRecord, \* where "explicit" places a push
  NoClient

Clients == Pushers \cup Readers

ASSUME PushAssumption ==
  /\ Class \in [Pushers -> {"disk", "flat"}] /\ Pushers \cap Readers = {}
  /\ WithOptions \subseteq Readers /\ Served \cup Pushers \subseteq DOMAIN Size
  /\ \A f \in DOMAIN Size : Size[f] \in Nat
  /\ blksize \in [Clients -> Nat \ {0}]
  /\ SectorSize \in Nat \ {0} /\ RecordSize \in Nat /\ RecordSize % SectorSize = 0
  /\ FreeAtStart \subseteq Nat \ {0} /\ IsFiniteSet(FreeAtStart)
  /\ Strategies \subseteq {"highest", "lowest", "explicit"} /\ ExplicitRecord \in Nat
  /\ NoClient \notin Clients /\ \A cast \in Casts : cast \subseteq Clients

VARIABLES
  strategy,       \* Config.Strategy, fixed when the program starts
  net,            \* the datagrams sent so far
  cphase, cblk,   \* each client: where it is, the last block it sent or got
  got,            \* what a reader has received
  wrqClient,      \* Responder.wrqClient
  wrqRecv,        \* Responder.wrqRecv: a sequence of at most one receiver
  freeRecords,    \* Responder.freeRecords
  claims,         \* Responder.claims, each with what was written
  justFirst,      \* Responder.justFirst
  client, xfer    \* ServerLoop's client, and its transfer: none or one

clientVars == <<cphase, cblk, got>>
pushVars == <<wrqClient, wrqRecv, freeRecords, claims>>
readVars == <<client, xfer>>
vars == <<strategy, net, clientVars, pushVars, justFirst, readVars>>

\* Datagrams of a host to port 69 or to the transfer port, and to a host.
Request(op, c) == [to |-> "tftp", op |-> op, host |-> c, block |-> 0, data |-> <<>>]
ToServer(op, c, b, data) == [to |-> "tid", op |-> op, host |-> c, block |-> b, data |-> data]
ToHost(op, c, b, data) == [to |-> "host", op |-> op, host |-> c, block |-> b, data |-> data]
ACK(c, b) == ToHost("ACK", c, b, <<>>)
ERROR(c) == ToHost("ERROR", c, 0, <<>>)

Content(f) == [u \in 1..Size[f] |-> <<f, u>>]
Block(f, n, b) == SubSeq(Content(f), (b - 1) * n + 1, IF b * n < Size[f] THEN b * n ELSE Size[f])

\* m arrives and `out' is sent.  What was sent may arrive at any later time,
\* any number of times and in any order, or never.
Take(m, out) == m \in net /\ net' = net \cup out
-----------------------------------------------------------------------------
(* The clients.  To send a datagram again is no new datagram, and one that *)
(* a client does not wait for changes nothing.                             *)
Ask(c) == /\ cphase[c] = "idle" /\ cphase' = [cphase EXCEPT ![c] = "busy"]
          /\ net' = net \cup {Request(IF c \in Readers THEN "RRQ" ELSE "WRQ", c)}
          /\ UNCHANGED <<strategy, cblk, got, pushVars, justFirst, readVars>>

SendsBlock(c, b) == ToServer("DATA", c, b, Block(c, blksize[c], b))
LastSent(c) == cblk[c] > 0 /\ Len(Block(c, blksize[c], cblk[c])) < blksize[c]

GetsAck(c) ==
  /\ c \in Pushers /\ cphase[c] = "busy"
  /\ IF LastSent(c)
       THEN /\ Take(ACK(c, cblk[c]), {}) /\ cphase' = [cphase EXCEPT ![c] = "done"]
            /\ UNCHANGED cblk
       ELSE /\ Take(ACK(c, cblk[c]), {SendsBlock(c, cblk[c] + 1)})
            /\ cblk' = [cblk EXCEPT ![c] = @ + 1] /\ UNCHANGED cphase
  /\ UNCHANGED <<strategy, got, pushVars, justFirst, readVars>>

GetsError(c) == /\ cphase[c] = "busy" /\ Take(ERROR(c), {})
                /\ cphase' = [cphase EXCEPT ![c] = "failed"]
                /\ UNCHANGED <<strategy, cblk, got, pushVars, justFirst, readVars>>

GetsOACK(c) ==
  /\ c \in Readers /\ cphase[c] = "busy"
  /\ Take(ToHost("OACK", c, 0, <<>>), {ToServer("ACK", c, 0, <<>>)})
  /\ UNCHANGED <<strategy, clientVars, pushVars, justFirst, readVars>>

GetsData(c) ==
  /\ c \in Readers /\ cphase[c] = "busy"
  /\ \E m \in net :
       /\ m.to = "host" /\ m.host = c /\ m.op = "DATA" /\ m.block = cblk[c] + 1
       /\ Take(m, {ToServer("ACK", c, m.block, <<>>)})
       /\ got' = [got EXCEPT ![c] = @ \o m.data]
       /\ cblk' = [cblk EXCEPT ![c] = m.block]
       /\ cphase' = [cphase EXCEPT ![c] = IF Len(m.data) < blksize[c] THEN "done" ELSE "busy"]
  /\ UNCHANGED <<strategy, pushVars, justFirst, readVars>>
-----------------------------------------------------------------------------
(* RawSink: a body of blocks goes out a sector at a time.  `written' is    *)
(* what the sectors written so far hold, one after the other.              *)
NewRawSink == [buf |-> <<>>, total |-> 0, written |-> <<>>]

\* What a buffer of s leaves once its full sectors are flushed, and those.
Rest(s) == Len(s) % SectorSize
Flushed(s) == SubSeq(s, 1, Len(s) - Rest(s))
Remainder(s) == SubSeq(s, Len(s) - Rest(s) + 1, Len(s))

SinkWrite(sink, p) ==
  LET s == sink.buf \o p
  IN  [buf |-> Remainder(s), total |-> sink.total + Len(p), written |-> sink.written \o Flushed(s)]

Padding == <<NoClient, 0>>
SinkFinish(sink) ==
  IF sink.buf = <<>> THEN sink
  ELSE [sink EXCEPT !.buf = <<>>,
          !.written = @ \o [i \in 1..SectorSize |->
                       IF i <= Len(sink.buf) THEN sink.buf[i] ELSE Padding]]
-----------------------------------------------------------------------------
(* Pushes. *)
Lowest(S) == CHOOSE r \in S : \A s \in S : r <= s
Highest(S) == CHOOSE r \in S : \A s \in S : r >= s

\* The record the next push goes to; 0 is none.
nextRecordForStrategy ==
  IF strategy = "explicit"
    THEN IF ExplicitRecord \in freeRecords THEN ExplicitRecord ELSE 0
    ELSE IF freeRecords = {} THEN 0
    ELSE IF strategy = "lowest" THEN Lowest(freeRecords) ELSE Highest(freeRecords)

newWRQReceiver(c) ==
  [acked |-> 0, done |-> FALSE, data |-> <<>>, sink |-> NewRawSink, filename |-> c]

Armed(c) == <<newWRQReceiver(c)>>

HasRoom == nextRecordForStrategy # 0

\* A WRQ, the first or a repeated one, replaces the receiver there is, and
\* whatever comes to port 69 takes the start of a read away.
startWrite(m) ==
  /\ m.to = "tftp" /\ m.op = "WRQ"
  /\ wrqClient' = m.host /\ justFirst' = FALSE
  /\ IF HasRoom THEN wrqRecv' = Armed(m.host) /\ Take(m, {ACK(m.host, 0)})
                ELSE wrqRecv' = <<>> /\ Take(m, {ERROR(m.host)})
  /\ UNCHANGED <<strategy, clientVars, freeRecords, claims, readVars>>

\* A flat file is stored as it came; an image is the sectors written.
push(r) == Class[r.filename] = "disk"
Stored(r) == IF push(r) THEN SinkFinish(r.sink).written ELSE r.data

\* Mutant: the image's size is told from the sectors written.
SizeOfSectors(r) == push(r) => Len(Stored(r)) = RecordSize
\* The image is accepted for its size alone.
Valid(r) == push(r) => r.sink.total = RecordSize

removeFreeRecord(n) == freeRecords' = freeRecords \ {n}

Claim(r) == LET n == nextRecordForStrategy IN
  /\ claims' = Append(claims, [record |-> n, owner |-> r.filename, body |-> Stored(r)])
  /\ removeFreeRecord(n)

\* finalizePush and finalizeFlat: the short block is in.  `then' is the
\* receiver with that block, m the DATA packet.
Finalize(m, then) ==
  IF Valid(then) THEN Claim(then) /\ Take(m, {ACK(wrqClient, m.block)})
                 ELSE Take(m, {ERROR(wrqClient)}) /\ UNCHANGED <<freeRecords, claims>>

FromPusher(m) == m.host = wrqClient

\* Mutant: a block out of reach is acknowledged too.
AcksAhead(m) == m.block # wrqRecv[1].acked + 1
Repeated(m) == m.block <= wrqRecv[1].acked

IsShort(m) == Len(m.data) < blksize[wrqRecv[1].filename]

With(r, m) ==
  [r EXCEPT !.acked = m.block, !.done = @ \/ IsShort(m),
            !.sink = IF push(r) THEN SinkWrite(@, m.data) ELSE @,
            !.data = IF push(r) THEN @ ELSE @ \o m.data]

StoresNext(m) ==
  /\ FromPusher(m) /\ m.block = wrqRecv[1].acked + 1
  /\ wrqRecv' = <<With(wrqRecv[1], m)>>
  /\ IF IsShort(m) THEN Finalize(m, With(wrqRecv[1], m))
     ELSE Take(m, {ACK(wrqClient, m.block)}) /\ UNCHANGED <<freeRecords, claims>>
  /\ UNCHANGED <<strategy, clientVars, wrqClient, justFirst, readVars>>

\* The answer to a repeat is an ACK, whatever became of the push. Another
\* host's block, or one too far, is not answered.
ReAcks(m) == /\ FromPusher(m) /\ Repeated(m) /\ Take(m, {ACK(wrqClient, m.block)})
             /\ UNCHANGED <<strategy, clientVars, pushVars, justFirst, readVars>>

ForReceiver(m) == m.to = "tid" /\ m.op = "DATA" /\ wrqRecv # <<>>

recvData(m) == ForReceiver(m) /\ (StoresNext(m) \/ ReAcks(m))
-----------------------------------------------------------------------------
(* Reads, over tftp.ServerLoop. *)
Resolves(name) == name \in Served

NewServerXfer(c) == [file |-> Reads[c], blksize |-> blksize[c], next |-> 1, sent |-> <<>>, done |-> FALSE]

\* NextData, to the client `c'; m is what prompts it.
SendNext(m, x, c) ==
  LET data == Block(x.file, x.blksize, x.next) IN
  /\ xfer' = <<[x EXCEPT !.sent = data]>>
  /\ Take(m, {ToHost("DATA", c, x.next, data)})

\* A hit is answered with an OACK, or with DATA 1 if no option was asked for.
startRead(m) ==
  /\ m.to = "tftp" /\ m.op = "RRQ"
  /\ client' = m.host
  /\ justFirst' = (Resolves(Reads[m.host]) /\ m.host \in WithOptions)
  /\ IF ~Resolves(Reads[m.host]) THEN xfer' = <<>> /\ Take(m, {ERROR(m.host)})
     ELSE IF m.host \in WithOptions
       THEN xfer' = <<NewServerXfer(m.host)>> /\ Take(m, {ToHost("OACK", m.host, 0, <<>>)})
       ELSE SendNext(m, NewServerXfer(m.host), m.host)
  /\ UNCHANGED <<strategy, clientVars, pushVars>>

\* Whatever comes first to the transfer port, and is not for the receiver,
\* starts the stream.
FirstData(m) ==
  /\ m.to = "tid" /\ ~ForReceiver(m) /\ justFirst
  /\ justFirst' = FALSE
  /\ SendNext(m, xfer[1], client)
  /\ UNCHANGED <<strategy, clientVars, pushVars, client>>

FromReader(m) == m.host = client

OnACK(m) ==
  /\ m.to = "tid" /\ m.op = "ACK" /\ ~justFirst /\ xfer # <<>> /\ FromReader(m)
  /\ LET x == xfer[1] IN
     CASE m.block = x.next /\ Len(x.sent) < x.blksize -> xfer' = <<[x EXCEPT !.done = TRUE]>> /\ UNCHANGED net
       [] m.block = x.next /\ Len(x.sent) >= x.blksize -> SendNext(m, [x EXCEPT !.next = @ + 1], client)
       [] m.block # x.next /\ ~x.done -> SendNext(m, x, client)
       [] m.block # x.next /\ x.done -> UNCHANGED <<net, xfer>>
  /\ UNCHANGED <<strategy, clientVars, pushVars, justFirst, client>>

OnFrame(m) == startWrite(m) \/ startRead(m) \/ recvData(m) \/ FirstData(m) \/ OnACK(m)
-----------------------------------------------------------------------------
Init == /\ strategy \in Strategies /\ net = {}
        /\ \E cast \in Casts : cphase = [c \in Clients |-> IF c \in cast THEN "idle" ELSE "off"]
        /\ cblk = [c \in Clients |-> 0]
        /\ got = [c \in Readers |-> <<>>]
        /\ wrqClient = NoClient /\ wrqRecv = <<>> /\ freeRecords = FreeAtStart /\ claims = <<>>
        /\ justFirst = FALSE /\ client = NoClient /\ xfer = <<>>

ClientStep(c) == Ask(c) \/ GetsAck(c) \/ GetsError(c) \/ GetsOACK(c) \/ GetsData(c)

Next == (\E c \in Clients : ClientStep(c)) \/ (\E m \in net : OnFrame(m))

Spec == Init /\ [][Next]_vars
-----------------------------------------------------------------------------
Acceptable(c) == Class[c] = "flat" \/ Size[c] = RecordSize

(* A client for which its transfer has ended well has what it wanted,      *)
(* however often requests, blocks and acknowledgements were repeated and   *)
(* whoever read or pushed in between: a reader the whole file, and before  *)
(* that a prefix of it; a pusher its file on a record, if the file was     *)
(* acceptable at all.                                                      *)
EndedIsWhole ==
  /\ \A c \in Readers :
       IF Resolves(Reads[c])
         THEN IsPrefix(got[c], Content(Reads[c])) /\ (cphase[c] = "done" => got[c] = Content(Reads[c]))
         ELSE got[c] = <<>> /\ cphase[c] # "done"
  /\ \A c \in Pushers : cphase[c] = "done" /\ Acceptable(c) =>
       \E i \in DOMAIN claims : claims[i].owner = c

Shelved == [r \in {claims[i].record : i \in DOMAIN claims} |->
  LET i == CHOOSE j \in DOMAIN claims : claims[j].record = r /\
             \A k \in DOMAIN claims : claims[k].record = r => k <= j
  IN  [owner |-> claims[i].owner, body |-> claims[i].body]]

(* Refinement: every claim puts one client's whole, acceptable file on a   *)
(* record that was free, and no taken record is written again (RecordShelf).*)
Shelf == INSTANCE RecordShelf WITH Clients <- Pushers, WholeFile <- Content,
                                   free <- freeRecords, shelf <- Shelved
KeepsTheShelf == Shelf!Spec
=============================================================================

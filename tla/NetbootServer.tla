---------------------------- MODULE NetbootServer ----------------------------
(* The netboot server (server/server.go over dhcp/responder.go and           *)
(* tftp/serverloop.go) with several hosts on its wire. It handles one frame  *)
(* at a time and keeps a lease for each MAC and one transfer, for whoever    *)
(* sent the last read request. A host boots, asks for its files in turn and  *)
(* takes each as tftp/clientloop.go does; its boot ROM is external.          *)
(*                                                                           *)
(* `net' is every datagram ever sent: each may be received never, late, and  *)
(* any number of times, so that to send one again changes nothing.           *)
EXTENDS Integers, FiniteSets, Sequences

CONSTANTS
  Hosts,
  PXE,            \* the hosts that say they are PXE clients
  Requests,       \* Requests[h]: the names host h asks for, in turn
  Port,           \* Port[h]: the source port of each of these requests
  Blocks,         \* Blocks[f]: how many blocks the file f is sent in
  Serial,         \* names below a serial-number directory
  LongTail,       \* files whose last block would fill one of the default size
  PoolBase, PoolSize, AddrMod

Files == DOMAIN Blocks
Transfers == UNION {{h} \X DOMAIN Requests[h] : h \in Hosts}

ASSUME NetbootAssumption ==
  /\ IsFiniteSet(Hosts) /\ PXE \subseteq Hosts /\ LongTail \subseteq Files
  /\ PoolBase \in Nat /\ PoolSize \in Nat \ {0} /\ AddrMod \in Nat \ {0}
  /\ \A h \in Hosts : /\ Len(Requests[h]) \in Nat \ {0}
                      /\ DOMAIN Requests[h] = 1 .. Len(Requests[h])
                      /\ DOMAIN Port[h] = DOMAIN Requests[h]
  /\ \A f \in Files : Blocks[f] \in Nat \ {0}

\* No two requests come from one port: the server knows a client by it alone.
ASSUME PortsDiffer ==
  \A s, t \in Transfers : Port[s[1]][s[2]] = Port[t[1]][t[2]] => s = t

VARIABLES
  leases, nextIdx,          \* dhcp.Responder
  client,                   \* ServerLoop's client endpoint: none or one
  xfer,                     \* ServerLoop.xfer: none or one
  justOACKed,               \* Server.justOACKed
  at,                       \* where each host is
  req,                      \* which of its requests a host has come to
  granted,                  \* was the block size of the OACK adopted?
  acked, got,               \* ClientXfer
  net

dhcpVars == <<leases, nextIdx>>
tftpVars == <<client, xfer, justOACKed>>
hostVars == <<at, req, granted, acked, got>>
vars == <<dhcpVars, tftpVars, hostVars, net>>

Init ==
  /\ leases = [h \in {} |-> PoolBase] /\ nextIdx = 0
  /\ client = <<>> /\ xfer = <<>> /\ justOACKed = FALSE
  /\ at = [h \in Hosts |-> "off"]
  /\ req = [h \in Hosts |-> 1] /\ granted = [h \in Hosts |-> FALSE]
  /\ acked = [h \in Hosts |-> 0] /\ got = [h \in Hosts |-> <<>>]
  /\ net = {}

-----------------------------------------------------------------------------
(* DHCP. *)

DHCP(op, h)          == [op |-> op, host |-> h]
DHCPReply(op, h, ip) == [op |-> op, host |-> h, addr |-> ip]

\* Mutant: the vendor class is not asked for.
AnyClient(h) == TRUE

\* The gate against other DHCP clients of the network.
IsPXE(h) == h \in PXE

\* The address of a MAC: the one it has, or the pool's next, round and round.
lease(h) ==
  IF h \in DOMAIN leases THEN leases[h] ELSE (PoolBase + (nextIdx % PoolSize)) % AddrMod

\* A DISCOVER or a REQUEST takes a lease, if the MAC has none, and is answered.
OnRequest(m) ==
  /\ m.op \in {"DISCOVER", "REQUEST"} /\ IsPXE(m.host)
  /\ leases' = [h \in DOMAIN leases \cup {m.host} |-> IF h = m.host THEN lease(h) ELSE leases[h]]
  /\ nextIdx' = IF m.host \in DOMAIN leases THEN nextIdx ELSE nextIdx + 1
  /\ net' = net \cup {DHCPReply(IF m.op = "DISCOVER" THEN "OFFER" ELSE "LEASE", m.host, lease(m.host))}
  /\ UNCHANGED <<tftpVars, hostVars>>

-----------------------------------------------------------------------------
(* TFTP. *)

\* From the k-th request of host h to the server's port 69 or its transfer port.
FromHost(op, h, k, val) == [op |-> op, host |-> h, port |-> Port[h][k], val |-> val]

\* To the client of the transfer.
ToClient(c, op, block, data) ==
  [op |-> op, host |-> c.host, port |-> c.port, block |-> block, data |-> data]

Resolve(name) == name \notin Serial /\ name \in Files

NewServerXfer(f) == [file |-> f, next |-> 1, sent |-> 0, done |-> FALSE]

\* Mutant: a source is installed only when none is.
KeepsSource(f) ==
  IF xfer = <<>> THEN NewServerXfer(f) ELSE NewServerXfer(xfer[1].file)
SetSource(f) == NewServerXfer(f)

\* A read request makes its sender the client. A hit starts a transfer, a miss
\* ends the one there was.
OnRRQ(m) ==
  /\ m.op = "RRQ"
  /\ LET c == [host |-> m.host, port |-> m.port] IN
     /\ client' = <<c>>
     /\ justOACKed' = Resolve(m.val)
     /\ IF Resolve(m.val)
        THEN xfer' = <<SetSource(m.val)>> /\ net' = net \cup {ToClient(c, "OACK", 0, <<>>)}
        ELSE xfer' = <<>> /\ net' = net \cup {ToClient(c, "ERROR", 0, <<>>)}
  /\ UNCHANGED <<dhcpVars, hostVars>>

\* Port 69 got what is no read request: a write request, or none at all.
NoReadRequest == [op |-> "NORRQ"]

\* The handoff of an OACK is forgotten before the request is looked at, which
\* OnRRQ then drops: the client and the transfer stay.
OnNoReadRequest(m) ==
  /\ m = NoReadRequest
  /\ justOACKed' = FALSE
  /\ UNCHANGED <<dhcpVars, client, xfer, hostVars, net>>

\* NextData of the transfer x.
SendNext(x) ==
  /\ xfer' = <<[x EXCEPT !.sent = x.next]>>
  /\ net' = net \cup {ToClient(client[1], "DATA", x.next, <<x.file, x.next>>)}

ToTransferPort(m) == m.op \in {"ACK", "DECLINE"}

\* Whatever comes first to the transfer port after an OACK starts the stream.
FirstData(m) ==
  /\ ToTransferPort(m) /\ justOACKed
  /\ justOACKed' = FALSE
  /\ SendNext(xfer[1])
  /\ UNCHANGED <<dhcpVars, client, hostVars>>

\* Mutant: any port's acknowledgement counts.
AnyPort(m) == TRUE
FromClient(m) == m.port = client[1].port

\* The block just sent was the short one (an empty buffer is short too).
ShortSent(x) == x.sent \in {0, Blocks[x.file]}

OnACK(m) ==
  /\ m.op = "ACK" /\ ~justOACKed /\ xfer # <<>> /\ FromClient(m)
  /\ LET x == xfer[1] IN
     CASE m.val = x.next /\ ShortSent(x)  -> xfer' = <<[x EXCEPT !.done = TRUE]>> /\ UNCHANGED net
       [] m.val = x.next /\ ~ShortSent(x) -> SendNext([x EXCEPT !.next = @ + 1])
       [] m.val # x.next /\ ~x.done       -> SendNext(x)
       [] m.val # x.next /\ x.done        -> UNCHANGED <<xfer, net>>
  /\ UNCHANGED <<dhcpVars, client, justOACKed, hostVars>>

ServerOnFrame(m) ==
  OnRequest(m) \/ OnRRQ(m) \/ OnNoReadRequest(m) \/ FirstData(m) \/ OnACK(m)

-----------------------------------------------------------------------------
(* The hosts. *)

Name(h) == Requests[h][req[h]]
Sends(h, op, val) == net' = net \cup {FromHost(op, h, req[h], val)}

Boot(h) ==
  /\ at[h] = "off" /\ at' = [at EXCEPT ![h] = "discover"]
  /\ net' = net \cup {DHCP("DISCOVER", h)}
  /\ UNCHANGED <<dhcpVars, tftpVars, req, granted, acked, got>>

OnOffer(h) ==
  /\ at[h] = "discover" /\ \E m \in net : m.op = "OFFER" /\ m.host = h
  /\ at' = [at EXCEPT ![h] = "request"]
  /\ net' = net \cup {DHCP("REQUEST", h)}
  /\ UNCHANGED <<dhcpVars, tftpVars, req, granted, acked, got>>

OnLease(h) ==
  /\ at[h] = "request"
  /\ \E m \in net : m.op = "LEASE" /\ m.host = h
  /\ at' = [at EXCEPT ![h] = "bound"]
  /\ UNCHANGED <<dhcpVars, tftpVars, req, granted, acked, got, net>>

\* The server's ARP reply arrives: the host asks for its file.
OnARPReply(h) ==
  /\ at[h] = "bound" /\ at' = [at EXCEPT ![h] = "xfer"]
  /\ granted' = [granted EXCEPT ![h] = FALSE]
  /\ acked' = [acked EXCEPT ![h] = 0] /\ got' = [got EXCEPT ![h] = <<>>]
  /\ Sends(h, "RRQ", Name(h))
  /\ UNCHANGED <<dhcpVars, tftpVars, req>>

Mine(h, m) == at[h] = "xfer" /\ m.host = h /\ m.port = Port[h][req[h]]

onOACK(h, m) ==
  /\ m.op = "OACK" /\ Mine(h, m)
  /\ granted' = [granted EXCEPT ![h] = TRUE]
  /\ Sends(h, "ACK", 0)
  /\ UNCHANGED <<dhcpVars, tftpVars, at, req, acked, got>>

\* The host goes on to its next file.
NextRequest(h) ==
  /\ req[h] < Len(Requests[h])
  /\ req' = [req EXCEPT ![h] = @ + 1] /\ at' = [at EXCEPT ![h] = "bound"]
  /\ UNCHANGED <<dhcpVars, tftpVars, granted, acked, got>>

\* A boot ROM that wanted to know the size of the file only.
Decline(h, m) ==
  /\ m.op = "OACK" /\ Mine(h, m) /\ acked[h] = 0
  /\ Sends(h, "DECLINE", 0)
  /\ NextRequest(h)

NotFound(h, m) == m.op = "ERROR" /\ Mine(h, m) /\ NextRequest(h) /\ UNCHANGED net

\* Is the last block shorter than the block size the host goes by?
EndsFile(h, d) == d[2] = Blocks[d[1]] /\ (granted[h] \/ d[1] \notin LongTail)

OnDATA(h, m) ==
  /\ m.op = "DATA" /\ Mine(h, m) /\ m.block = acked[h] + 1
  /\ got' = [got EXCEPT ![h] = Append(@, m.data)]
  /\ acked' = [acked EXCEPT ![h] = m.block]
  /\ at' = [at EXCEPT ![h] = IF EndsFile(h, m.data) THEN "stored" ELSE "xfer"]
  /\ Sends(h, "ACK", m.block)
  /\ UNCHANGED <<dhcpVars, tftpVars, req, granted>>

HostOnFrame(h, m) == onOACK(h, m) \/ Decline(h, m) \/ NotFound(h, m) \/ OnDATA(h, m)

HostStep(h) ==
  \/ Boot(h) \/ OnOffer(h) \/ OnLease(h) \/ OnARPReply(h)
  \/ at[h] = "stored" /\ NextRequest(h) /\ UNCHANGED net
  \/ \E m \in net : HostOnFrame(h, m)

\* Any machine of the network writes to the server's port 69.
AskNoRead ==
  /\ net' = net \cup {NoReadRequest}
  /\ UNCHANGED <<dhcpVars, tftpVars, hostVars>>

Next ==
  \/ \E h \in Hosts : HostStep(h)
  \/ AskNoRead
  \/ \E m \in net : ServerOnFrame(m)

Spec == Init /\ [][Next]_vars

-----------------------------------------------------------------------------
(* Properties. *)

Given == {m \in net : m.op \in {"OFFER", "LEASE"}}

\* A host is offered and leased one address, whatever was repeated, and no two
\* hosts the same one as long as the PXE clients are no more than the pool;
\* other machines of the network use none up (responder.go, "Rogue-DHCP
\* protection").
AddressesHold ==
  /\ \A m, n \in Given : m.host = n.host => m.addr = n.addr
  /\ Cardinality(PXE) <= PoolSize /\ PoolSize <= AddrMod =>
       \A m, n \in Given : m.addr = n.addr => m.host = n.host

\* What a host takes is the file it asked for, in order, and it ends with
\* the last block, whoever else the server was answering (ServerLoop.OnRRQ).
EachGetsItsFile ==
  \A h \in Hosts : at[h] \in {"xfer", "stored"} =>
    /\ got[h] = [i \in 1 .. acked[h] |-> <<Name(h), i>>]
    /\ at[h] = "stored" => acked[h] = Blocks[Name(h)]

\* Does the server serve the request that h is at?
ServesNow(h) ==
  /\ xfer # <<>> /\ at[h] # "bound"
  /\ client[1] = [host |-> h, port |-> Port[h][req[h]]]

\* The transfer belongs to its client: its block is at most the one after the
\* last that client stored, and it is done only when the client has the file.
\* The one exception, against serverxfer.go:149: what came to port 69 as no
\* read request took a handoff away (server.go:115), and a left-over ACK 1 is
\* taken for that of the short block by a transfer that has sent nothing.
NobodyElseMovesIt ==
  \A h \in Hosts : ServesNow(h) =>
    /\ xfer[1].file = Name(h) /\ xfer[1].next <= acked[h] + 1
    /\ xfer[1].done =>
         acked[h] = Blocks[Name(h)] \/ (xfer[1].sent = 0 /\ NoReadRequest \in net)
=============================================================================

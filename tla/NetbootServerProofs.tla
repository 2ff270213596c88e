------------------------ MODULE NetbootServerProofs ------------------------
(***************************************************************************)
(* The netboot server for any number of hosts, requests, files and leases, *)
(* over a wire that loses, repeats, delays and reorders: who is given which *)
(* address, who takes which file, and who moves the one transfer on.       *)
(***************************************************************************)
EXTENDS NetbootServer, FiniteSetTheorems, TLAPS

USE NetbootAssumption
-----------------------------------------------------------------------------
(* Leases. The i-th MAC that asked has the i-th address of the pool; as    *)
(* long as there are no more boot ROMs than addresses that is another one  *)
(* for each, since the pool neither starts over nor laps the byte.         *)
Addr(i) == (PoolBase + (i % PoolSize)) % AddrMod

GivenInv == \A m \in Given : m.host \in DOMAIN leases /\ m.addr = leases[m.host]

LeaseInv ==
  /\ DOMAIN leases \subseteq PXE /\ nextIdx = Cardinality(DOMAIN leases)
  /\ \E nth \in [DOMAIN leases -> 0 .. nextIdx - 1] :
       /\ \A g, h \in DOMAIN leases : nth[g] = nth[h] => g = h
       /\ \A h \in DOMAIN leases : leases[h] = Addr(nth[h])

LEMMA LeasesFinite ==
  ASSUME LeaseInv PROVE IsFiniteSet(DOMAIN leases) /\ nextIdx \in Nat /\ IsFiniteSet(PXE)
<1>1. IsFiniteSet(PXE) BY FS_Subset
<1>2. IsFiniteSet(DOMAIN leases) BY <1>1, FS_Subset DEF LeaseInv
<1> QED BY <1>1, <1>2, FS_CardinalityType DEF LeaseInv

LEMMA AddressesDiffer ==
  ASSUME NEW M \in Nat \ {0}, NEW b \in Nat, NEW i \in Nat, NEW j \in Nat,
         i < j, j < M
  PROVE  (b + i) % M # (b + j) % M
<1> DEFINE x == b + i
           y == b + j
<1>1. x \in Nat /\ y \in Nat /\ x < y /\ y - x < M OBVIOUS
<1> HIDE DEF x, y
<1>2. PICK q \in Int : q = x \div M BY <1>1
<1>3. PICK r \in Int : r = y \div M BY <1>1
<1>4. x = (M * q) + (x % M) /\ y = (M * r) + (y % M) BY <1>1, <1>2, <1>3
<1>5. SUFFICES ASSUME x % M = y % M PROVE FALSE BY DEF x, y
<1>6. y - x = M * (r - q) BY <1>1, <1>2, <1>3, <1>4, <1>5
<1>7. PICK k \in Int : k = r - q BY <1>2, <1>3
<1>8. y - x = M * k BY <1>6, <1>7
<1>9. k >= 1 => M * k >= M OBVIOUS
<1>10. k <= 0 => M * k <= 0 OBVIOUS
<1> QED BY <1>1, <1>8, <1>9, <1>10

LEMMA RequestLease ==
  ASSUME LeaseInv, GivenInv, NEW m \in net, OnRequest(m) PROVE LeaseInv' /\ GivenInv'
<1> DEFINE h == m.host
<1>1. /\ h \in PXE
      /\ leases' = [g \in DOMAIN leases \cup {h} |-> IF g = h THEN lease(h) ELSE leases[g]]
      /\ nextIdx' = IF h \in DOMAIN leases THEN nextIdx ELSE nextIdx + 1
  BY DEF OnRequest, IsPXE
<1>2. \E op : net' = net \cup {DHCPReply(op, h, lease(h))} BY DEF OnRequest
<1> HIDE DEF h
<1>3. GivenInv'
  <2>1. DOMAIN leases \subseteq DOMAIN leases' /\ h \in DOMAIN leases' BY <1>1
  <2>2. leases'[h] = lease(h) BY <1>1
  <2>3. \A g \in DOMAIN leases : leases'[g] = leases[g] BY <1>1 DEF lease
  <2>4. ASSUME NEW n \in Given' PROVE n.host \in DOMAIN leases' /\ n.addr = leases'[n.host]
    <3>1. CASE n \in net
      <4>1. n \in Given BY <2>4, <3>1 DEF Given
      <4>2. n.host \in DOMAIN leases /\ n.addr = leases[n.host] BY <4>1 DEF GivenInv
      <4> QED BY <2>1, <2>3, <4>2
    <3>2. CASE n \notin net
      <4>1. n.host = h /\ n.addr = lease(h) BY <1>2, <2>4, <3>2 DEF Given, DHCPReply
      <4> QED BY <2>1, <2>2, <4>1
    <3> QED BY <3>1, <3>2
  <2> QED BY <2>4 DEF GivenInv
<1>4. LeaseInv'
  <2>1. PICK nth \in [DOMAIN leases -> 0 .. nextIdx - 1] :
          /\ \A f, g \in DOMAIN leases : nth[f] = nth[g] => f = g
          /\ \A g \in DOMAIN leases : leases[g] = Addr(nth[g])
    BY DEF LeaseInv
  <2>2. CASE h \in DOMAIN leases
    <3>1. DOMAIN leases' = DOMAIN leases /\ nextIdx' = nextIdx
          /\ \A g \in DOMAIN leases : leases'[g] = leases[g]
      BY <1>1, <2>2 DEF lease
    <3> QED BY <2>1, <3>1 DEF LeaseInv
  <2>3. CASE h \notin DOMAIN leases
    <3>1. /\ DOMAIN leases' = DOMAIN leases \cup {h} /\ nextIdx' = nextIdx + 1
          /\ leases'[h] = Addr(nextIdx)
          /\ \A g \in DOMAIN leases : leases'[g] = leases[g]
      BY <1>1, <2>3 DEF lease, Addr
    <3>2. nextIdx \in Nat /\ nextIdx' = Cardinality(DOMAIN leases')
      <4>1. IsFiniteSet(DOMAIN leases) /\ nextIdx \in Nat BY LeasesFinite
      <4>2. Cardinality(DOMAIN leases \cup {h}) = Cardinality(DOMAIN leases) + 1
        BY <2>3, <4>1, FS_AddElement
      <4> QED BY <3>1, <4>1, <4>2 DEF LeaseInv
    <3> DEFINE new == [g \in DOMAIN leases \cup {h} |-> IF g = h THEN nextIdx ELSE nth[g]]
    <3>3. \A g \in DOMAIN leases : nth[g] \in 0 .. nextIdx - 1 BY <2>1
    <3>4. new \in [DOMAIN leases' -> 0 .. nextIdx' - 1] BY <3>1, <3>2, <3>3
    <3>5. \A f, g \in DOMAIN leases' : new[f] = new[g] => f = g
      BY <2>1, <2>3, <3>1, <3>2, <3>3
    <3>6. \A g \in DOMAIN leases' : leases'[g] = Addr(new[g]) BY <2>1, <2>3, <3>1
    <3> HIDE DEF new
    <3>7. DOMAIN leases' \subseteq PXE BY <1>1, <3>1 DEF LeaseInv
    <3> QED BY <3>2, <3>4, <3>5, <3>6, <3>7 DEF LeaseInv
  <2> QED BY <2>2, <2>3
<1> QED BY <1>3, <1>4

(* Nothing else is an offer or a lease.                                    *)
NothingGiven ==
  /\ UNCHANGED dhcpVars
  /\ net \subseteq net' /\ \A m \in net' \ net : m.op \notin {"OFFER", "LEASE"}

LEMMA NotGiven == ASSUME NothingGiven, LeaseInv, GivenInv PROVE LeaseInv' /\ GivenInv'
<1>1. Given' = Given BY DEF Given, NothingGiven
<1> QED BY <1>1 DEF dhcpVars, LeaseInv, GivenInv, NothingGiven

LEMMA ServerGivesNone ==
  ASSUME NEW m \in net, OnRRQ(m) \/ OnNoReadRequest(m) \/ FirstData(m) \/ OnACK(m)
  PROVE  NothingGiven
<1>0. ASSUME NEW x, SendNext(x), UNCHANGED dhcpVars PROVE NothingGiven
  BY <1>0 DEF SendNext, ToClient, NothingGiven
<1>1. CASE OnRRQ(m)
  <2>1. UNCHANGED dhcpVars BY <1>1 DEF OnRRQ
  <2>2. PICK op \in {"OACK", "ERROR"} : \E c : net' = net \cup {ToClient(c, op, 0, <<>>)}
    BY <1>1 DEF OnRRQ
  <2> QED BY <2>1, <2>2 DEF ToClient, NothingGiven
<1>2. CASE FirstData(m) BY <1>0, <1>2 DEF FirstData
<1>3. CASE OnACK(m)
  <2>1. UNCHANGED dhcpVars /\ (UNCHANGED net \/ \E x : SendNext(x)) BY <1>3 DEF OnACK
  <2> QED BY <1>0, <2>1 DEF NothingGiven
<1>4. CASE OnNoReadRequest(m) BY <1>4 DEF OnNoReadRequest, NothingGiven
<1> QED BY <1>1, <1>2, <1>3, <1>4

LEMMA HostGivesNone == ASSUME NEW h \in Hosts, HostStep(h) PROVE NothingGiven
<1>1. CASE Boot(h) BY <1>1 DEF Boot, DHCP, NothingGiven
<1>2. CASE OnOffer(h) BY <1>2 DEF OnOffer, DHCP, NothingGiven
<1>3. CASE OnLease(h) BY <1>3 DEF OnLease, NothingGiven
<1>4. CASE OnARPReply(h) BY <1>4 DEF OnARPReply, Sends, FromHost, NothingGiven
<1>5. CASE NextRequest(h) /\ UNCHANGED net BY <1>5 DEF NextRequest, NothingGiven
<1>6. ASSUME NEW m \in net, HostOnFrame(h, m) PROVE NothingGiven
  <2>1. CASE onOACK(h, m) BY <2>1 DEF onOACK, Sends, FromHost, NothingGiven
  <2>2. CASE Decline(h, m) BY <2>2 DEF Decline, NextRequest, Sends, FromHost, NothingGiven
  <2>3. CASE NotFound(h, m) BY <2>3 DEF NotFound, NextRequest, NothingGiven
  <2>4. CASE OnDATA(h, m) BY <2>4 DEF OnDATA, Sends, FromHost, NothingGiven
  <2> QED BY <1>6, <2>1, <2>2, <2>3, <2>4 DEF HostOnFrame
<1> QED BY <1>1, <1>2, <1>3, <1>4, <1>5, <1>6 DEF HostStep

(* A boot ROM keeps the address it was first offered, no two have the same *)
(* one while the pool suffices, and nobody else is given one               *)
(* (Responder.lease and the gate in Responder.OnRequest).                  *)
THEOREM AddressesAlwaysHold == Spec => []AddressesHold
<1>1. Init => LeaseInv /\ GivenInv
  <2> SUFFICES ASSUME Init PROVE LeaseInv /\ GivenInv
    OBVIOUS
  <2>1. DOMAIN leases = {} /\ nextIdx = 0 /\ Given = {} BY DEF Init, Given
  <2>2. leases \in [DOMAIN leases -> 0 .. nextIdx - 1] BY <2>1 DEF Init
  <2> QED BY <2>1, <2>2, FS_EmptySet DEF LeaseInv, GivenInv
<1>2. LeaseInv /\ GivenInv /\ [Next]_vars => LeaseInv' /\ GivenInv'
  <2> SUFFICES ASSUME LeaseInv, GivenInv, [Next]_vars PROVE LeaseInv' /\ GivenInv'
    OBVIOUS
  <2>1. ASSUME NEW h \in Hosts, HostStep(h) PROVE LeaseInv' /\ GivenInv'
    BY <2>1, HostGivesNone, NotGiven
  <2>2. ASSUME NEW m \in net, ServerOnFrame(m) PROVE LeaseInv' /\ GivenInv'
    BY <2>2, RequestLease, ServerGivesNone, NotGiven DEF ServerOnFrame
  <2>3. CASE AskNoRead
    <3>1. NothingGiven BY <2>3 DEF AskNoRead, NoReadRequest, NothingGiven
    <3> QED BY <3>1, NotGiven
  <2>4. CASE UNCHANGED vars
    <3>1. NothingGiven BY <2>4 DEF vars, NothingGiven
    <3> QED BY <3>1, NotGiven
  <2> QED BY <2>1, <2>2, <2>3, <2>4 DEF Next
<1>3. LeaseInv /\ GivenInv => AddressesHold
  <2> SUFFICES ASSUME LeaseInv, GivenInv PROVE AddressesHold
    OBVIOUS
  <2>1. PICK nth \in [DOMAIN leases -> 0 .. nextIdx - 1] :
          /\ \A f, g \in DOMAIN leases : nth[f] = nth[g] => f = g
          /\ \A g \in DOMAIN leases : leases[g] = Addr(nth[g])
    BY DEF LeaseInv
  <2>2. \A m, n \in Given : m.host = n.host => m.addr = n.addr BY DEF GivenInv
  <2>3. ASSUME Cardinality(PXE) <= PoolSize, PoolSize <= AddrMod,
               NEW m \in Given, NEW n \in Given, m.addr = n.addr
        PROVE  m.host = n.host
    <3> DEFINE i == nth[m.host]
               j == nth[n.host]
    <3>1. nextIdx \in Nat /\ nextIdx <= PoolSize
      <4>1. nextIdx <= Cardinality(PXE) /\ nextIdx \in Nat /\ Cardinality(PXE) \in Nat
        BY LeasesFinite, FS_Subset, FS_CardinalityType DEF LeaseInv
      <4> QED BY <2>3, <4>1
    <3>2. /\ m.host \in DOMAIN leases /\ n.host \in DOMAIN leases
          /\ leases[m.host] = leases[n.host]
      BY <2>3 DEF GivenInv
    <3>3. i \in 0 .. nextIdx - 1 /\ j \in 0 .. nextIdx - 1 /\ Addr(i) = Addr(j)
      BY <2>1, <3>2
    <3> HIDE DEF i, j
    <3>4. i \in Nat /\ j \in Nat /\ i < PoolSize /\ j < PoolSize BY <3>1, <3>3
    <3>5. (PoolBase + i) % AddrMod = (PoolBase + j) % AddrMod BY <3>3, <3>4 DEF Addr
    <3>6. i < AddrMod /\ j < AddrMod BY <2>3, <3>4
    <3>7. ~ i < j /\ ~ j < i BY <3>4, <3>5, <3>6, AddressesDiffer
    <3>8. i = j BY <3>4, <3>7
    <3> QED BY <2>1, <3>2, <3>8 DEF i, j
  <2> QED BY <2>2, <2>3 DEF AddressesHold
<1> QED BY <1>1, <1>2, <1>3, PTL DEF Spec
-----------------------------------------------------------------------------
(* Transfers. A request was made when its host has come to it and asked, or *)
(* has gone on.                                                            *)
Made(h, k) ==
  /\ h \in Hosts /\ k \in DOMAIN Requests[h]
  /\ k < req[h] \/ (k = req[h] /\ at[h] \in {"xfer", "stored"})

Places == {"off", "discover", "request", "bound", "xfer", "stored"}

HostTyped ==
  /\ at \in [Hosts -> Places] /\ req \in [Hosts -> Nat] /\ acked \in [Hosts -> Nat]
  /\ DOMAIN got = Hosts
  /\ \A h \in Hosts : req[h] \in DOMAIN Requests[h]

(* A host that fetches has the first blocks of the file it asked for.      *)
HasPrefix(h) ==
  /\ got[h] = [i \in 1 .. acked[h] |-> <<Name(h), i>>]
  /\ acked[h] # 0 => Name(h) \in Files /\ acked[h] <= Blocks[Name(h)]
  /\ at[h] = "stored" => acked[h] = Blocks[Name(h)]

HostInv == HostTyped /\ \A h \in Hosts : at[h] \in {"xfer", "stored"} => HasPrefix(h)

(* What a datagram tells of the request it belongs to: its name, a block   *)
(* its host has stored, a block of its file.                               *)
Tells(m, h, k) ==
  /\ Made(h, k) /\ m.host = h /\ m.port = Port[h][k]
  /\ m.op = "RRQ" => m.val = Requests[h][k]
  /\ m.op = "ACK" => m.val \in Nat /\ (k = req[h] => m.val <= acked[h])
  /\ m.op = "DATA" => /\ Requests[h][k] \in Files /\ m.block \in 1 .. Blocks[Requests[h][k]]
                     /\ m.data = <<Requests[h][k], m.block>>

WireInv == \A m \in net : m.op \in {"RRQ", "ACK", "DATA"} => \E h, k : Tells(m, h, k)

(* A transfer that has sent nothing is at its first block and waits for    *)
(* the datagram that starts it, unless that was forgotten over one that is *)
(* no read request: only then may it be done before its client is.         *)
NothingSent(x) ==
  x.sent = 0 /\ x.next = 1 /\ IF justOACKed THEN ~x.done ELSE NoReadRequest \in net

DoneRightly(h, k, x) ==
  k = req[h] /\ x.done => x.sent = 0 \/ acked[h] = Blocks[Requests[h][k]]

(* The server's transfer x is that of the k-th request of host h, and never *)
(* further than one block ahead of it.                                     *)
Serving(h, k, x) ==
  /\ xfer = <<x>> /\ client = <<[host |-> h, port |-> Port[h][k]]>>
  /\ Made(h, k) /\ Requests[h][k] \in Files
  /\ x \in [file : {Requests[h][k]}, next : Nat, sent : Nat, done : BOOLEAN]
  /\ x.next \in 1 .. Blocks[Requests[h][k]]
  /\ NothingSent(x) \/ (~justOACKed /\ x.sent = x.next)
  /\ k = req[h] => x.next <= acked[h] + 1
  /\ DoneRightly(h, k, x)

ServerInv ==
  /\ justOACKed \in BOOLEAN /\ (justOACKed => xfer # <<>>)
  /\ xfer # <<>> => \E h, k, x : Serving(h, k, x)

TransferInv == HostInv /\ WireInv /\ ServerInv
-----------------------------------------------------------------------------
LEMMA OnePort ==
  ASSUME NEW g \in Hosts, NEW j \in DOMAIN Requests[g],
         NEW h \in Hosts, NEW k \in DOMAIN Requests[h], Port[g][j] = Port[h][k]
  PROVE  g = h /\ j = k
<1>1. <<g, j>> \in Transfers /\ <<h, k>> \in Transfers BY DEF Transfers
<1>2. Port[<<g, j>>[1]][<<g, j>>[2]] = Port[<<h, k>>[1]][<<h, k>>[2]] OBVIOUS
<1>3. <<g, j>> = <<h, k>> BY <1>1, <1>2, PortsDiffer
<1> QED BY <1>3

(* What a host does takes no request back, and while it stays with one it  *)
(* acknowledges no less.                                                   *)
Forward ==
  \A h, k : Made(h, k) => Made(h, k)' /\ (k = req'[h] => k = req[h] /\ acked[h] <= acked'[h])

LEMMA WireKept ==
  ASSUME WireInv, Forward, HostTyped, HostTyped',
         \A m \in net' \ net : m.op \in {"RRQ", "ACK", "DATA"} => \E h, k : Tells(m, h, k)'
  PROVE  WireInv'
<1> SUFFICES ASSUME NEW m \in net', m \in net, m.op \in {"RRQ", "ACK", "DATA"}
             PROVE  \E h, k : Tells(m, h, k)'
  BY DEF WireInv
<1>1. PICK h, k : Tells(m, h, k) BY DEF WireInv
<1>2. Made(h, k)' /\ (k = req'[h] => k = req[h] /\ acked[h] <= acked'[h])
  BY <1>1 DEF Tells, Forward
<1>3. h \in Hosts BY <1>1 DEF Tells, Made
<1>4. acked[h] \in Nat /\ acked'[h] \in Nat BY <1>3 DEF HostTyped
<1>5. Tells(m, h, k)' BY <1>1, <1>2, <1>4 DEF Tells
<1> QED BY <1>5

LEMMA ServingKept ==
  ASSUME ServerInv, Forward, HostInv, HostInv', UNCHANGED tftpVars, net \subseteq net'
  PROVE  ServerInv'
<1>1. CASE xfer = <<>> BY <1>1 DEF tftpVars, ServerInv
<1>2. CASE xfer # <<>>
  <2>1. PICK h, k, x : Serving(h, k, x) BY <1>2 DEF ServerInv
  <2>2. Made(h, k)' /\ (k = req'[h] => k = req[h] /\ acked[h] <= acked'[h])
    BY <2>1 DEF Serving, Forward
  <2>3. h \in Hosts BY <2>1 DEF Serving, Made
  <2>4. acked[h] \in Nat /\ acked'[h] \in Nat /\ x.next \in Nat /\ x.next >= 1
    BY <2>1, <2>3 DEF HostInv, HostTyped, Serving
  <2>5. ASSUME k = req'[h]
        PROVE  /\ x.next <= acked'[h] + 1
               /\ x.done => x.sent = 0 \/ acked'[h] = Blocks[Requests[h][k]]
    <3>1. x.next <= acked'[h] + 1 BY <2>1, <2>2, <2>4, <2>5 DEF Serving
    <3>2. ASSUME x.done, x.sent # 0 PROVE acked'[h] = Blocks[Requests[h][k]]
      <4>1. Blocks[Requests[h][k]] \in Nat \ {0} BY <2>1 DEF Serving
      <4>2. acked[h] = Blocks[Requests[h][k]] /\ acked[h] <= acked'[h]
        BY <2>1, <2>2, <2>5, <3>2 DEF Serving, DoneRightly
      <4>3. at'[h] \in {"xfer", "stored"}
        <5>1. req'[h] \in Nat BY <2>3 DEF HostInv, HostTyped
        <5> QED BY <2>2, <2>5, <5>1 DEF Made
      <4>4. acked'[h] # 0 BY <2>4, <4>1, <4>2
      <4>5. acked'[h] <= Blocks[Requests[h][k]]
        BY <2>3, <2>5, <4>3, <4>4 DEF HostInv, HasPrefix, Name
      <4> QED BY <2>4, <4>1, <4>2, <4>5
    <3> QED BY <3>1, <3>2
  <2>6. DoneRightly(h, k, x)' BY <2>5 DEF DoneRightly
  <2>7. NothingSent(x) => NothingSent(x)' BY DEF NothingSent, NoReadRequest, tftpVars
  <2>8. Serving(h, k, x)' BY <2>1, <2>2, <2>5, <2>6, <2>7 DEF Serving, tftpVars
  <2> QED BY <2>8 DEF ServerInv, tftpVars
<1> QED BY <1>1, <1>2
-----------------------------------------------------------------------------
(* The hosts' steps. Each keeps HostInv, goes forward, and sends what is   *)
(* true.                                                                   *)
HostGoesOn ==
  /\ HostInv' /\ Forward /\ UNCHANGED tftpVars /\ net \subseteq net'
  /\ \A m \in net' \ net : m.op \in {"RRQ", "ACK", "DATA"} => \E h, k : Tells(m, h, k)'

LEMMA HostKeepsAll == ASSUME TransferInv, HostGoesOn PROVE TransferInv'
BY WireKept, ServingKept DEF TransferInv, HostGoesOn, HostInv

(* A host on its way to its first request.                                 *)
LEMMA BootSteps ==
  ASSUME TransferInv, NEW h \in Hosts, Boot(h) \/ OnOffer(h) \/ OnLease(h) PROVE HostGoesOn
<1>1. /\ \E from, to \in {"off", "discover", "request", "bound"} :
            at[h] = from /\ at' = [at EXCEPT ![h] = to]
      /\ UNCHANGED <<tftpVars, req, granted, acked, got>>
      /\ net \subseteq net' /\ \A m \in net' \ net : m.op \in {"DISCOVER", "REQUEST"}
  BY DEF Boot, OnOffer, OnLease, DHCP
<1>2. HostInv' BY <1>1 DEF TransferInv, HostInv, HostTyped, HasPrefix, Name, Places
<1>3. Forward
  <2> SUFFICES ASSUME NEW g, NEW k, Made(g, k)
               PROVE  Made(g, k)' /\ (k = req'[g] => k = req[g] /\ acked[g] <= acked'[g])
    BY DEF Forward
  <2>1. g \in Hosts /\ at \in [Hosts -> Places] /\ acked[g] \in Nat
    BY DEF Made, TransferInv, HostInv, HostTyped
  <2> QED BY <1>1, <2>1 DEF Made
<1> QED BY <1>1, <1>2, <1>3 DEF HostGoesOn

(* A host the step does not touch has what it had.                        *)
Untouched(g) ==
  at'[g] = at[g] /\ got'[g] = got[g] /\ acked'[g] = acked[g] /\ req'[g] = req[g]

LEMMA Bystander ==
  ASSUME HostInv, NEW g \in Hosts, Untouched(g), at'[g] \in {"xfer", "stored"}
  PROVE  HasPrefix(g)'
<1>1. HasPrefix(g) BY DEF HostInv, Untouched
<1>2. Name(g)' = Name(g) BY DEF Name, Untouched
<1> QED BY <1>1, <1>2 DEF HasPrefix, Untouched

LEMMA AskStep == ASSUME TransferInv, NEW h \in Hosts, OnARPReply(h) PROVE HostGoesOn
<1>1. /\ at[h] = "bound" /\ at' = [at EXCEPT ![h] = "xfer"]
      /\ acked' = [acked EXCEPT ![h] = 0] /\ got' = [got EXCEPT ![h] = <<>>]
      /\ net' = net \cup {FromHost("RRQ", h, req[h], Name(h))}
      /\ UNCHANGED <<tftpVars, req>>
  BY DEF OnARPReply, Sends
<1>2. HostTyped /\ HostTyped' BY <1>1 DEF TransferInv, HostInv, HostTyped, Places
<1>3. HostInv'
  <2> SUFFICES ASSUME NEW g \in Hosts, at'[g] \in {"xfer", "stored"} PROVE HasPrefix(g)'
    BY <1>2 DEF HostInv
  <2>1. CASE g = h
    <3>1. acked'[h] = 0 /\ got'[h] = <<>> /\ at'[h] = "xfer" BY <1>1, <1>2 DEF HostTyped
    <3>2. <<>> = [i \in 1 .. 0 |-> <<Name(h)', i>>] OBVIOUS
    <3> QED BY <2>1, <3>1, <3>2 DEF HasPrefix
  <2>2. CASE g # h
    <3>1. Untouched(g) BY <1>1, <1>2, <2>2 DEF Untouched, HostTyped
    <3> QED BY <3>1, Bystander DEF TransferInv
  <2> QED BY <2>1, <2>2
<1>4. Forward
  <2> SUFFICES ASSUME NEW g, NEW k, Made(g, k)
               PROVE  Made(g, k)' /\ (k = req'[g] => k = req[g] /\ acked[g] <= acked'[g])
    BY DEF Forward
  <2>1. g \in Hosts /\ k \in Nat /\ req[g] \in Nat /\ acked[g] \in Nat BY <1>2 DEF Made, HostTyped
  <2> QED BY <1>1, <1>2, <2>1 DEF Made, HostTyped
<1>5. Tells(FromHost("RRQ", h, req[h], Name(h)), h, req[h])'
  <2>1. Made(h, req[h])' BY <1>1, <1>2 DEF Made, HostTyped
  <2> QED BY <1>1, <2>1 DEF Tells, FromHost, Name
<1>6. ASSUME NEW m \in net' \ net PROVE \E g, k : Tells(m, g, k)'
  <2>1. m = FromHost("RRQ", h, req[h], Name(h))' BY <1>1 DEF Name
  <2> QED BY <1>5, <2>1
<1> QED BY <1>1, <1>3, <1>4, <1>6 DEF HostGoesOn

(* The host goes on to its next file.                                      *)
LEMMA NextRequestSteps ==
  ASSUME TransferInv, NEW h \in Hosts, NextRequest(h), net \subseteq net',
         \A m \in net' \ net : m.op \notin {"RRQ", "ACK", "DATA"}
  PROVE  HostGoesOn
<1>1. /\ req[h] < Len(Requests[h]) /\ req' = [req EXCEPT ![h] = @ + 1]
      /\ at' = [at EXCEPT ![h] = "bound"]
      /\ UNCHANGED <<tftpVars, acked, got>>
  BY DEF NextRequest
<1>2. HostTyped BY DEF TransferInv, HostInv
<1>3. HostTyped' BY <1>1, <1>2 DEF HostTyped, Places
<1>4. HostInv'
  <2> SUFFICES ASSUME NEW g \in Hosts, at'[g] \in {"xfer", "stored"} PROVE HasPrefix(g)'
    BY <1>3 DEF HostInv
  <2>1. g # h BY <1>1, <1>2 DEF HostTyped
  <2>2. Untouched(g) BY <1>1, <1>2, <2>1 DEF Untouched, HostTyped
  <2> QED BY <2>2, Bystander DEF TransferInv
<1>5. Forward
  <2> SUFFICES ASSUME NEW g, NEW k, Made(g, k)
               PROVE  Made(g, k)' /\ (k = req'[g] => k = req[g] /\ acked[g] <= acked'[g])
    BY DEF Forward
  <2>1. g \in Hosts /\ k \in Nat /\ req[g] \in Nat /\ acked[g] \in Nat /\ k <= req[g]
    BY <1>2 DEF Made, HostTyped
  <2>2. CASE g = h
    <3>1. req'[g] = req[g] + 1 BY <1>1, <1>2, <2>2 DEF HostTyped
    <3>2. k < req'[g] /\ k # req'[g] BY <2>1, <3>1
    <3> QED BY <3>2 DEF Made
  <2>3. CASE g # h
    <3>1. req'[g] = req[g] /\ at'[g] = at[g] /\ acked'[g] = acked[g]
      BY <1>1, <1>2, <2>1, <2>3 DEF HostTyped
    <3> QED BY <2>1, <3>1 DEF Made
  <2> QED BY <2>2, <2>3
<1> QED BY <1>1, <1>4, <1>5 DEF HostGoesOn

(* An acknowledgement of a block the host has, of the OACK too.            *)
LEMMA TrueAck ==
  ASSUME HostTyped', NEW h \in Hosts, at'[h] \in {"xfer", "stored"}, UNCHANGED req,
         NEW b \in Nat, b <= acked'[h]
  PROVE  Tells(FromHost("ACK", h, req[h], b), h, req[h])'
<1>1. Made(h, req[h])' BY DEF Made, HostTyped
<1> QED BY <1>1 DEF Tells, FromHost

LEMMA OackStep == ASSUME TransferInv, NEW h \in Hosts, NEW m \in net, onOACK(h, m) PROVE HostGoesOn
<1>1. /\ at[h] = "xfer" /\ net' = net \cup {FromHost("ACK", h, req[h], 0)}
      /\ UNCHANGED <<tftpVars, at, req, acked, got>>
  BY DEF onOACK, Sends, Mine
<1>2. HostTyped /\ HostTyped' BY <1>1 DEF TransferInv, HostInv, HostTyped
<1>3. HostInv' BY <1>1, <1>2 DEF TransferInv, HostInv, HasPrefix, Name
<1>4. Forward BY <1>1, <1>2 DEF Forward, Made, HostTyped
<1>5. Tells(FromHost("ACK", h, req[h], 0), h, req[h])'
  <2>1. acked'[h] \in Nat /\ at'[h] = "xfer" BY <1>1, <1>2 DEF HostTyped
  <2> QED BY <1>1, <1>2, <2>1, TrueAck
<1>6. \A n \in net' \ net : n.op \in {"RRQ", "ACK", "DATA"} => \E g, k : Tells(n, g, k)'
  BY <1>1, <1>5
<1> QED BY <1>1, <1>3, <1>4, <1>6 DEF HostGoesOn

LEMMA AppendBlock ==
  ASSUME NEW f, NEW n \in Nat
  PROVE  Append([i \in 1 .. n |-> <<f, i>>], <<f, n + 1>>) = [i \in 1 .. n + 1 |-> <<f, i>>]
<1> DEFINE s == [i \in 1 .. n |-> <<f, i>>]
           t == Append(s, <<f, n + 1>>)
<1>1. s \in Seq({f} \X Nat) /\ Len(s) = n OBVIOUS
<1>2. <<f, n + 1>> \in {f} \X Nat OBVIOUS
<1>3. DOMAIN t = 1 .. n + 1 /\ t = [i \in 1 .. n + 1 |-> t[i]]
  <2> HIDE DEF s
  <2> QED BY <1>1, <1>2
<1>4. \A i \in 1 .. n + 1 : t[i] = <<f, i>> OBVIOUS
<1> HIDE DEF t
<1>5. t = [i \in 1 .. n + 1 |-> <<f, i>>] BY <1>3, <1>4
<1> QED BY <1>5 DEF t

LEMMA DataStep == ASSUME TransferInv, NEW h \in Hosts, NEW m \in net, OnDATA(h, m) PROVE HostGoesOn
<1>1. /\ m.op = "DATA" /\ at[h] = "xfer" /\ m.host = h /\ m.port = Port[h][req[h]]
      /\ m.block = acked[h] + 1
      /\ got' = [got EXCEPT ![h] = Append(got[h], m.data)]
      /\ acked' = [acked EXCEPT ![h] = m.block]
      /\ at' = [at EXCEPT ![h] = IF EndsFile(h, m.data) THEN "stored" ELSE "xfer"]
      /\ net' = net \cup {FromHost("ACK", h, req[h], m.block)}
      /\ UNCHANGED <<tftpVars, req>>
  BY DEF OnDATA, Mine, Sends
<1>2. HostTyped /\ HasPrefix(h) BY <1>1 DEF TransferInv, HostInv
<1>3. /\ Name(h) \in Files /\ m.block \in 1 .. Blocks[Name(h)] /\ m.data = <<Name(h), m.block>>
      /\ Blocks[Name(h)] \in Nat
  <2>1. PICK g, k : Tells(m, g, k) BY <1>1 DEF TransferInv, WireInv
  <2>2. g = h /\ k = req[h]
    <3>1. /\ g \in Hosts /\ k \in DOMAIN Requests[g] /\ m.port = Port[g][k]
          /\ req[h] \in DOMAIN Requests[h]
      BY <1>2, <2>1 DEF Tells, Made, HostTyped
    <3>2. Port[g][k] = Port[h][req[h]] BY <1>1, <3>1
    <3> QED BY <3>1, <3>2, OnePort
  <2> QED BY <1>1, <2>1, <2>2 DEF Tells, Name
<1>4. m.block \in Nat /\ acked[h] \in Nat BY <1>2, <1>3 DEF HostTyped
<1>5. HostTyped' BY <1>1, <1>2, <1>4 DEF HostTyped, Places
<1>6. got'[h] = [i \in 1 .. m.block |-> <<Name(h), i>>]
  <2>1. got'[h] = Append([i \in 1 .. acked[h] |-> <<Name(h), i>>], <<Name(h), acked[h] + 1>>)
    BY <1>1, <1>2, <1>3 DEF HostTyped, HasPrefix
  <2>2. got'[h] = [i \in 1 .. acked[h] + 1 |-> <<Name(h), i>>] BY <1>4, <2>1, AppendBlock
  <2> QED BY <1>1, <2>2
<1>7. HasPrefix(h)'
  <2>1. acked'[h] = m.block /\ Name(h)' = Name(h) BY <1>1, <1>2 DEF HostTyped, Name
  <2>2. at'[h] = "stored" => m.block = Blocks[Name(h)]
    BY <1>1, <1>2, <1>3 DEF HostTyped, EndsFile
  <2>3. m.block <= Blocks[Name(h)] BY <1>3
  <2> QED BY <1>3, <1>6, <2>1, <2>2, <2>3 DEF HasPrefix
<1>8. HostInv'
  <2> SUFFICES ASSUME NEW g \in Hosts, at'[g] \in {"xfer", "stored"} PROVE HasPrefix(g)'
    BY <1>5 DEF HostInv
  <2>1. CASE g # h
    <3>1. Untouched(g) BY <1>1, <1>2, <2>1 DEF Untouched, HostTyped
    <3> QED BY <3>1, Bystander DEF TransferInv
  <2> QED BY <1>7, <2>1
<1>9. Forward
  <2> SUFFICES ASSUME NEW g, NEW k, Made(g, k)
               PROVE  Made(g, k)' /\ (k = req'[g] => k = req[g] /\ acked[g] <= acked'[g])
    BY DEF Forward
  <2>1. g \in Hosts /\ acked[g] \in Nat BY <1>2 DEF Made, HostTyped
  <2>2. acked[g] <= acked'[g] BY <1>1, <1>2, <1>4, <2>1 DEF HostTyped
  <2>3. at[g] \in {"xfer", "stored"} => at'[g] \in {"xfer", "stored"}
    BY <1>1, <1>2, <2>1 DEF HostTyped
  <2> QED BY <1>1, <2>2, <2>3 DEF Made
<1>10. Tells(FromHost("ACK", h, req[h], m.block), h, req[h])'
  <2>1. acked'[h] = m.block /\ at'[h] \in {"xfer", "stored"} BY <1>1, <1>2 DEF HostTyped
  <2> QED BY <1>1, <1>4, <1>5, <2>1, TrueAck
<1>11. \A n \in net' \ net : n.op \in {"RRQ", "ACK", "DATA"} => \E g, k : Tells(n, g, k)'
  BY <1>1, <1>10
<1> QED BY <1>1, <1>8, <1>9, <1>11 DEF HostGoesOn

LEMMA HostStepKeepsAll == ASSUME TransferInv, NEW h \in Hosts, HostStep(h) PROVE TransferInv'
<1>1. CASE NextRequest(h) /\ UNCHANGED net BY <1>1, NextRequestSteps, HostKeepsAll
<1>2. ASSUME NEW m \in net, HostOnFrame(h, m) PROVE TransferInv'
  <2>1. CASE Decline(h, m)
    <3>1. /\ NextRequest(h) /\ net \subseteq net'
          /\ \A n \in net' \ net : n.op = "DECLINE"
      BY <2>1 DEF Decline, Sends, FromHost
    <3> QED BY <3>1, NextRequestSteps, HostKeepsAll
  <2>2. CASE NotFound(h, m) BY <2>2, NextRequestSteps, HostKeepsAll DEF NotFound
  <2> QED BY <1>2, <2>1, <2>2, OackStep, DataStep, HostKeepsAll DEF HostOnFrame
<1> QED BY <1>1, <1>2, BootSteps, AskStep, HostKeepsAll DEF HostStep
-----------------------------------------------------------------------------
(* The server's steps. They leave the hosts alone, and what they send is   *)
(* an OFFER, a LEASE, an OACK, an ERROR or the block that is next.         *)
LEMMA HostsAlone ==
  ASSUME TransferInv, UNCHANGED hostVars,
         \A m \in net' \ net : m.op \in {"RRQ", "ACK", "DATA"} => \E h, k : Tells(m, h, k)'
  PROVE  HostInv' /\ WireInv'
<1>1. HostInv' BY DEF hostVars, TransferInv, HostInv, HostTyped, HasPrefix, Name
<1>2. HostTyped /\ HostTyped' BY <1>1 DEF TransferInv, HostInv
<1>3. Forward BY <1>2 DEF hostVars, Forward, Made, HostTyped
<1> QED BY <1>1, <1>2, <1>3, WireKept DEF TransferInv

(* A step that leaves the transfer alone too.                              *)
LEMMA TransferAlone ==
  ASSUME TransferInv, UNCHANGED <<tftpVars, hostVars>>, net \subseteq net',
         \A m \in net' \ net : m.op \notin {"RRQ", "ACK", "DATA"}
  PROVE  TransferInv'
<1>1. HostInv' /\ WireInv' BY HostsAlone
<1>2. Forward BY DEF hostVars, Forward, Made, TransferInv, HostInv, HostTyped
<1>3. ServerInv' BY <1>1, <1>2, ServingKept DEF TransferInv
<1> QED BY <1>1, <1>3 DEF TransferInv

LEMMA RequestAlone == ASSUME TransferInv, NEW m \in net, OnRequest(m) PROVE TransferInv'
<1>1. /\ UNCHANGED <<tftpVars, hostVars>> /\ net \subseteq net'
      /\ \A n \in net' \ net : n.op \in {"OFFER", "LEASE"}
  BY DEF OnRequest, DHCPReply
<1> QED BY <1>1, TransferAlone

LEMMA AskAlone == ASSUME TransferInv, AskNoRead PROVE TransferInv'
<1>1. /\ UNCHANGED <<tftpVars, hostVars>> /\ net \subseteq net'
      /\ \A n \in net' \ net : n.op = "NORRQ"
  BY DEF AskNoRead, NoReadRequest
<1> QED BY <1>1, TransferAlone

(* What is no read request takes the handoff away from a transfer that has *)
(* sent nothing, and is on record when it does.                            *)
LEMMA NoReadRequestStep ==
  ASSUME TransferInv, NEW m \in net, OnNoReadRequest(m) PROVE TransferInv'
<1>1. /\ NoReadRequest \in net /\ justOACKed' = FALSE
      /\ UNCHANGED <<client, xfer, hostVars, net>>
  BY DEF OnNoReadRequest
<1>2. HostInv' /\ WireInv' BY <1>1, HostsAlone
<1>3. ASSUME NEW h, NEW k, NEW x, Serving(h, k, x) PROVE Serving(h, k, x)'
  <2>1. Made(h, k)' /\ DoneRightly(h, k, x)' BY <1>1, <1>3 DEF Serving, Made, DoneRightly, hostVars
  <2>2. NothingSent(x) => NothingSent(x)'
    <3>1. NoReadRequest' = NoReadRequest BY DEF NoReadRequest
    <3> QED BY <1>1, <3>1 DEF NothingSent
  <2> QED BY <1>1, <1>3, <2>1, <2>2 DEF Serving, hostVars
<1>4. ServerInv' BY <1>1, <1>3 DEF TransferInv, ServerInv
<1> QED BY <1>2, <1>4 DEF TransferInv

(* A read request is a host's, who is behind or just there: a new transfer *)
(* has its first block next, which is never too far ahead.                 *)
LEMMA ReadRequestStep == ASSUME TransferInv, NEW m \in net, OnRRQ(m) PROVE TransferInv'
<1> DEFINE c == [host |-> m.host, port |-> m.port]
<1>1. /\ m.op = "RRQ" /\ client' = <<c>> /\ justOACKed' = Resolve(m.val)
      /\ Resolve(m.val) => xfer' = <<NewServerXfer(m.val)>>
      /\ ~Resolve(m.val) => xfer' = <<>>
      /\ UNCHANGED hostVars
      /\ \A n \in net' \ net : n.op \in {"OACK", "ERROR"}
  BY DEF OnRRQ, SetSource, ToClient
<1>2. HostInv' /\ WireInv' BY <1>1, HostsAlone
<1>3. PICK h, k : Tells(m, h, k) BY <1>1 DEF TransferInv, WireInv
<1>4. CASE ~Resolve(m.val)
  <2>1. justOACKed' = FALSE BY <1>1, <1>4 DEF Resolve
  <2>2. ServerInv' BY <1>1, <1>4, <2>1 DEF ServerInv
  <2> QED BY <1>2, <2>2 DEF TransferInv
<1>5. CASE Resolve(m.val)
  <2> DEFINE x == NewServerXfer(m.val)
  <2>1. m.val = Requests[h][k] /\ Made(h, k) /\ m.val \in Files /\ c = [host |-> h, port |-> Port[h][k]]
    BY <1>1, <1>3, <1>5 DEF Tells, Resolve
  <2>2. Made(h, k)' BY <1>1, <2>1 DEF Made, hostVars
  <2>3. acked'[h] \in Nat BY <1>2, <2>1 DEF HostInv, HostTyped, Made
  <2>4. /\ x \in [file : {Requests[h][k]}, next : Nat, sent : Nat, done : BOOLEAN]
        /\ x.next = 1 /\ x.sent = 0 /\ x.done = FALSE
    BY <2>1 DEF NewServerXfer
  <2>5. 1 \in 1 .. Blocks[Requests[h][k]] BY <2>1
  <2>6. xfer' = <<x>> /\ justOACKed' = TRUE BY <1>1, <1>5
  <2>7. x.next <= acked'[h] + 1 BY <2>3, <2>4
  <2> HIDE DEF x
  <2>8. client' = <<[host |-> h, port |-> Port[h][k]]>> BY <1>1, <2>1
  <2>9. Serving(h, k, x)'
    <3>1. NothingSent(x)' /\ DoneRightly(h, k, x)' BY <2>4, <2>6 DEF NothingSent, DoneRightly
    <3> QED BY <2>1, <2>2, <2>4, <2>5, <2>6, <2>7, <2>8, <3>1 DEF Serving
  <2>10. ServerInv'
    <3>1. xfer' # <<>> BY <2>6
    <3> QED BY <2>6, <2>9, <3>1 DEF ServerInv
  <2> QED BY <1>2, <2>10 DEF TransferInv
<1> QED BY <1>4, <1>5

(* To send the block that is next keeps what the server serves.            *)
LEMMA SendStep ==
  ASSUME TransferInv, UNCHANGED <<client, hostVars>>, justOACKed' = FALSE,
         NEW h, NEW k, NEW x, NEW y,
         Serving(h, k, x), SendNext(y),
         y \in [file : {Requests[h][k]}, next : Nat, sent : Nat, done : BOOLEAN],
         y.next \in 1 .. Blocks[Requests[h][k]],
         k = req[h] => y.next <= acked[h] + 1 /\ (y.done => acked[h] = Blocks[Requests[h][k]])
  PROVE  TransferInv'
<1> DEFINE z == [y EXCEPT !.sent = y.next]
           n == ToClient(client[1], "DATA", y.next, <<y.file, y.next>>)
<1>1. xfer' = <<z>> /\ net' = net \cup {n} BY DEF SendNext
<1>2. Made(h, k) /\ Made(h, k)' BY DEF Serving, Made, hostVars
<1>3. y.file = Requests[h][k] /\ Requests[h][k] \in Files BY DEF Serving
<1>4. client[1] = [host |-> h, port |-> Port[h][k]] BY DEF Serving
<1>5. n = [op |-> "DATA", host |-> h, port |-> Port[h][k], block |-> y.next,
           data |-> <<y.file, y.next>>]
  BY <1>4 DEF ToClient
<1>6. Tells(n, h, k)' BY <1>2, <1>3, <1>5 DEF Tells
<1> HIDE DEF n
<1>7. HostInv' /\ WireInv'
  <2>1. ASSUME NEW m \in net' \ net PROVE \E g, j : Tells(m, g, j)'
    <3>1. m = n BY <1>1
    <3>2. n' = n BY <1>5, <1>6 DEF n
    <3> QED BY <1>6, <3>1, <3>2
  <2> QED BY <2>1, HostsAlone
<1>8. /\ z \in [file : {Requests[h][k]}, next : Nat, sent : Nat, done : BOOLEAN]
      /\ z.next = y.next /\ z.sent = y.next /\ z.done = y.done
  OBVIOUS
<1> HIDE DEF z
<1>9. Serving(h, k, z)'
  <2>1. DoneRightly(h, k, z)' BY <1>8 DEF DoneRightly, hostVars
  <2> QED BY <1>1, <1>2, <1>3, <1>8, <2>1 DEF Serving, hostVars
<1>10. ServerInv' BY <1>1, <1>9 DEF ServerInv
<1> QED BY <1>7, <1>10 DEF TransferInv

LEMMA FirstDataStep == ASSUME TransferInv, NEW m \in net, FirstData(m) PROVE TransferInv'
<1>1. PICK h, k, x : Serving(h, k, x) BY DEF FirstData, TransferInv, ServerInv
<1>2. SendNext(x) /\ justOACKed' = FALSE /\ UNCHANGED <<client, hostVars>>
  BY <1>1 DEF FirstData, Serving
<1>3. /\ x \in [file : {Requests[h][k]}, next : Nat, sent : Nat, done : BOOLEAN]
      /\ x.next \in 1 .. Blocks[Requests[h][k]]
      /\ k = req[h] => x.next <= acked[h] + 1
      /\ ~x.done
  BY <1>1 DEF Serving, NothingSent, FirstData
<1> QED BY <1>1, <1>2, <1>3, SendStep

(* An acknowledgement of the block that is next is its client's, from the  *)
(* request it serves: the client has stored that block.                    *)
LEMMA AckStep == ASSUME TransferInv, NEW m \in net, OnACK(m) PROVE TransferInv'
<1>1. PICK h, k, x : Serving(h, k, x) BY DEF OnACK, TransferInv, ServerInv
<1>2. /\ m.op = "ACK" /\ justOACKed = FALSE /\ justOACKed' = FALSE /\ m.port = Port[h][k]
      /\ UNCHANGED <<client, hostVars>> /\ xfer = <<x>>
  BY <1>1 DEF OnACK, Serving, FromClient, TransferInv, ServerInv
<1>3. /\ x \in [file : {Requests[h][k]}, next : Nat, sent : Nat, done : BOOLEAN]
      /\ x.next \in 1 .. Blocks[Requests[h][k]] /\ (NothingSent(x) \/ x.sent = x.next)
      /\ k = req[h] => x.next <= acked[h] + 1
      /\ DoneRightly(h, k, x)
      /\ h \in Hosts /\ k \in DOMAIN Requests[h] /\ Requests[h][k] \in Files
  BY <1>1, <1>2 DEF Serving, Made
<1>4. x.next \in Nat /\ acked[h] \in Nat /\ Blocks[Requests[h][k]] \in Nat \ {0}
  BY <1>3 DEF TransferInv, HostInv, HostTyped
<1>5. m.val \in Nat /\ (k = req[h] => m.val <= acked[h])
  <2>1. PICK g, j : Tells(m, g, j) BY <1>2 DEF TransferInv, WireInv
  <2>2. g \in Hosts /\ j \in DOMAIN Requests[g] /\ Port[g][j] = Port[h][k]
    BY <1>2, <2>1 DEF Tells, Made
  <2>3. g = h /\ j = k BY <1>3, <2>2, OnePort
  <2> QED BY <1>2, <2>1, <2>3 DEF Tells
<1>6. ShortSent(x) <=> x.sent = 0 \/ x.next = Blocks[Requests[h][k]]
  <2>1. x.sent = 0 \/ x.sent = x.next BY <1>3 DEF NothingSent
  <2>2. x.file = Requests[h][k] BY <1>3
  <2>3. CASE x.sent = 0 BY <2>3 DEF ShortSent
  <2>4. CASE x.sent = x.next /\ x.sent # 0 BY <2>2, <2>4 DEF ShortSent
  <2> QED BY <2>1, <2>3, <2>4
<1>7. CASE m.val = x.next /\ ShortSent(x)
  <2> DEFINE z == [x EXCEPT !.done = TRUE]
  <2>1. xfer' = <<z>> /\ UNCHANGED net BY <1>2, <1>7 DEF OnACK
  <2>2. HostInv' /\ WireInv' BY <1>2, <2>1, HostsAlone
  <2>3. /\ z \in [file : {Requests[h][k]}, next : Nat, sent : Nat, done : BOOLEAN]
        /\ z.next = x.next /\ z.sent = x.sent /\ z.done = TRUE
    BY <1>3
  <2> HIDE DEF z
  <2>4. k = req[h] => x.sent = 0 \/ acked[h] = Blocks[Requests[h][k]]
    <3> SUFFICES ASSUME k = req[h], x.sent # 0 PROVE acked[h] = Blocks[Requests[h][k]]
      OBVIOUS
    <3>1. x.next <= acked[h] /\ x.next = Blocks[Requests[h][k]] BY <1>5, <1>6, <1>7
    <3>2. acked[h] # 0 BY <1>4, <3>1
    <3>3. at[h] \in {"xfer", "stored"}
      <4>1. req[h] \in Nat BY <1>3 DEF TransferInv, HostInv, HostTyped
      <4> QED BY <1>1, <4>1 DEF Serving, Made
    <3>4. acked[h] <= Blocks[Requests[h][k]]
      BY <1>3, <3>2, <3>3 DEF TransferInv, HostInv, HasPrefix, Name
    <3> QED BY <1>4, <3>1, <3>4
  <2>5. Serving(h, k, z)'
    <3>1. DoneRightly(h, k, z)' BY <1>2, <2>3, <2>4 DEF DoneRightly, hostVars
    <3>2. NothingSent(x) => NothingSent(z)'
      <4>1. NoReadRequest' = NoReadRequest BY DEF NoReadRequest
      <4> QED BY <1>2, <2>1, <2>3, <4>1 DEF NothingSent
    <3> QED BY <1>1, <1>2, <1>3, <2>1, <2>3, <3>1, <3>2 DEF Serving, Made, hostVars
  <2> QED BY <2>1, <2>2, <2>5, <1>2 DEF TransferInv, ServerInv
<1>8. CASE m.val = x.next /\ ~ShortSent(x)
  <2> DEFINE y == [x EXCEPT !.next = @ + 1]
  <2>1. SendNext(y) BY <1>2, <1>8 DEF OnACK
  <2>2. /\ y \in [file : {Requests[h][k]}, next : Nat, sent : Nat, done : BOOLEAN]
        /\ y.next = x.next + 1 /\ y.done = x.done
    BY <1>3
  <2>3. y.next \in 1 .. Blocks[Requests[h][k]] BY <1>3, <1>4, <1>6, <1>8, <2>2
  <2>4. k = req[h] => y.next <= acked[h] + 1 BY <1>4, <1>5, <1>8, <2>2
  <2>5. k = req[h] /\ y.done => acked[h] = Blocks[Requests[h][k]]
    BY <1>3, <1>6, <1>8, <2>2 DEF DoneRightly
  <2> HIDE DEF y
  <2> QED BY <1>1, <1>2, <1>3, <2>1, <2>2, <2>3, <2>4, <2>5, SendStep
<1>9. CASE m.val # x.next /\ ~x.done
  <2>1. SendNext(x) BY <1>2, <1>9 DEF OnACK
  <2> QED BY <1>1, <1>2, <1>3, <1>9, <2>1, SendStep
<1>10. CASE m.val # x.next /\ x.done
  <2>1. UNCHANGED <<xfer, net>> BY <1>2, <1>10 DEF OnACK
  <2>2. HostInv' /\ WireInv' BY <1>2, <2>1, HostsAlone
  <2>3. Serving(h, k, x)'
    <3>1. (NothingSent(x) => NothingSent(x)') /\ DoneRightly(h, k, x)'
      <4>1. NoReadRequest' = NoReadRequest BY DEF NoReadRequest
      <4> QED BY <1>2, <1>3, <2>1, <4>1 DEF NothingSent, DoneRightly, hostVars
    <3> QED BY <1>1, <1>2, <2>1, <3>1 DEF Serving, Made, hostVars
  <2> QED BY <1>2, <2>1, <2>2, <2>3 DEF TransferInv, ServerInv
<1>11. x.done \in BOOLEAN BY <1>3
<1> QED BY <1>7, <1>8, <1>9, <1>10, <1>11

LEMMA TransferInvHolds == Spec => []TransferInv
<1>1. Init => TransferInv
  <2> SUFFICES ASSUME Init PROVE TransferInv
    OBVIOUS
  <2>1. HostTyped BY DEF Init, HostTyped, Places
  <2> QED BY <2>1 DEF Init, TransferInv, HostInv, WireInv, ServerInv
<1>2. TransferInv /\ [Next]_vars => TransferInv'
  <2> SUFFICES ASSUME TransferInv, [Next]_vars PROVE TransferInv'
    OBVIOUS
  <2>1. ASSUME NEW m \in net, ServerOnFrame(m) PROVE TransferInv'
    BY <2>1, RequestAlone, ReadRequestStep, NoReadRequestStep, FirstDataStep, AckStep
       DEF ServerOnFrame
  <2>2. CASE UNCHANGED vars BY <2>2, TransferAlone DEF vars
  <2> QED BY <2>1, <2>2, HostStepKeepsAll, AskAlone DEF Next
<1> QED BY <1>1, <1>2, PTL DEF Spec

(* A host ends with the file it asked for, each block once and in order,   *)
(* and it ends at the last, however the server goes to and fro between     *)
(* hosts (ServerLoop.OnRRQ, ClientXfer.OnDATA).                            *)
THEOREM EachAlwaysGetsItsFile == Spec => []EachGetsItsFile
<1>1. TransferInv => EachGetsItsFile BY DEF TransferInv, HostInv, HasPrefix, EachGetsItsFile
<1> QED BY <1>1, TransferInvHolds, PTL

(* Nobody but the client of a transfer moves it: it is never further than  *)
(* one block ahead of that client, and done only when the client has the   *)
(* file, or else it had sent nothing and something that was no read        *)
(* request had come to port 69 (ServerLoop.OnFrame, ServerXfer.OnACK).     *)
THEOREM NobodyElseEverMovesIt == Spec => []NobodyElseMovesIt
<1>1. TransferInv => NobodyElseMovesIt
  <2> SUFFICES ASSUME TransferInv, NEW h \in Hosts, ServesNow(h)
               PROVE  /\ xfer[1].file = Name(h) /\ xfer[1].next <= acked[h] + 1
                      /\ xfer[1].done =>
                           \/ acked[h] = Blocks[Name(h)]
                           \/ (xfer[1].sent = 0 /\ NoReadRequest \in net)
    BY DEF NobodyElseMovesIt
  <2>1. PICK g, k, x : Serving(g, k, x) BY DEF ServesNow, TransferInv, ServerInv
  <2>2. Port[g][k] = Port[h][req[h]] /\ g \in Hosts /\ k \in DOMAIN Requests[g]
    BY <2>1 DEF ServesNow, Serving, Made
  <2>3. req[h] \in DOMAIN Requests[h] BY DEF TransferInv, HostInv, HostTyped
  <2>4. g = h /\ k = req[h] BY <2>2, <2>3, OnePort
  <2>5. xfer[1] = x /\ x.file = Name(h) /\ x.next <= acked[h] + 1
    BY <2>1, <2>4 DEF Serving, Name
  <2>6. ASSUME x.done
        PROVE  acked[h] = Blocks[Name(h)] \/ (x.sent = 0 /\ NoReadRequest \in net)
    <3>1. x.sent = 0 \/ acked[h] = Blocks[Name(h)]
      BY <2>1, <2>4, <2>6 DEF Serving, DoneRightly, Name
    <3>2. x.sent = 0 => NoReadRequest \in net
      <4>1. x.next # 0 BY <2>1 DEF Serving
      <4> QED BY <2>1, <2>6, <4>1 DEF Serving, NothingSent
    <3> QED BY <3>1, <3>2
  <2> QED BY <2>5, <2>6
<1> QED BY <1>1, TransferInvHolds, PTL
=============================================================================

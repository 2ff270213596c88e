---------------------------- MODULE TftpTransfer ----------------------------
(***************************************************************************)
(* A whole fetch: the client of TftpClient against the TFTP side of the    *)
(* netboot server (tftp/serverloop.go over ServerXfer, called as           *)
(* server/server.go does).  The server has no timer of its own: it acts on *)
(* a received packet and never else.  A ServerXfer can be driven in two    *)
(* ways: block by block, as Server.OnFrame drives it whatever window the   *)
(* OACK granted, or a window at a time (RFC 7440).                         *)
(***************************************************************************)
EXTENDS TftpClient

CONSTANT Windowed   \* FirstWindow and OnACKWindow are called, not FirstData and OnACK

ASSUME ModeAssumption == Windowed \in BOOLEAN

VARIABLES
  armed,          \* ServerLoop.xfer # nil
  next,           \* ServerXfer.next
  sent,           \* ServerXfer.sent, as its token; 0 is nil
  winAcked,       \* the window's left edge
  winFinal,       \* the final block's number once sent, or 0
  sdone,          \* ServerXfer.done
  justOACKed      \* Server.justOACKed: the next packet is the ACK of the OACK

xferVars == <<next, sent, winAcked, winFinal>>
serverVars == <<armed, xferVars, sdone, justOACKed>>
vars == <<net, clientVars, serverVars>>

ServerInit == /\ armed = FALSE /\ next = 1 /\ sent = 0 /\ winAcked = 0
              /\ winFinal = 0 /\ sdone = FALSE /\ justOACKed = FALSE

Init == ClientInit /\ ServerInit

\* Mutant: a repeated RRQ restarts the numbering and keeps the old buffer.
RRQKeepsBuffer == /\ Take(RRQ, {OACK})
                  /\ armed' = TRUE /\ next' = 1 /\ UNCHANGED sent
                  /\ winAcked' = 0 /\ winFinal' = 0
                  /\ sdone' = FALSE /\ justOACKed' = TRUE
                  /\ UNCHANGED clientVars

\* An RRQ, the first or a repeated one, starts the transfer afresh.
OnRRQ == /\ Take(RRQ, {OACK})
         /\ armed' = TRUE /\ next' = 1 /\ sent' = 0
         /\ winAcked' = 0 /\ winFinal' = 0
         /\ sdone' = FALSE /\ justOACKed' = TRUE
         /\ UNCHANGED clientVars
-----------------------------------------------------------------------------
(* Block by block.                                                         *)

\* Send block b: the token at offset (b - 1) * blksize.
NextData(m, b) == /\ sent' = b /\ Take(m, {DATA("server", b, b)})
                  /\ UNCHANGED <<winAcked, winFinal>>

\* The first packet after an OACK, whatever its block, starts the flow.
FirstData(b) == /\ ~Windowed /\ justOACKed /\ armed
                /\ NextData(ACK(b), next) /\ justOACKed' = FALSE
                /\ UNCHANGED <<clientVars, armed, next, sdone>>

AckPhase == armed /\ ~justOACKed

\* Mutant: the final block counts as acknowledged by any acknowledgement.
AnyAckFinishes(b) == AckPhase /\ Short(sent)

\* The acknowledgement of the block outstanding, when that is the short one.
Finishes(b) == AckPhase /\ b = next /\ Short(sent)

Advances(b) == AckPhase /\ b = next /\ ~Short(sent)

\* Mutant: a stale acknowledgement is dropped.
NothingIsStale(b) == FALSE

\* Any other acknowledgement has the outstanding block sent again.
Stale(b) == AckPhase /\ b # next /\ ~sdone

OnACK(b) ==
  /\ ~Windowed
  /\ \/ /\ Finishes(b) /\ sdone' = TRUE /\ Take(ACK(b), {})
        /\ UNCHANGED <<clientVars, armed, xferVars, justOACKed>>
     \/ /\ ~Finishes(b) /\ Advances(b)
        /\ next' = Wrap16(next + 1) /\ NextData(ACK(b), next')
        /\ UNCHANGED <<clientVars, armed, sdone, justOACKed>>
     \/ /\ ~Finishes(b) /\ ~Advances(b) /\ Stale(b) /\ NextData(ACK(b), next)
        /\ UNCHANGED <<clientVars, armed, next, sdone, justOACKed>>
-----------------------------------------------------------------------------
(* A window at a time: the blocks sent back to back from a left edge, Win  *)
(* of them or up to the short one.                                         *)
Window(edge) == {b \in 1..FileLen : edge < b /\ b <= edge + Win}

NextWindow(m) ==
  /\ winFinal' = IF FileLen \in Window(winAcked') THEN FileLen ELSE winFinal
  /\ Take(m, {DATA("server", b, b) : b \in Window(winAcked')})
  /\ UNCHANGED <<next, sent>>

\* The acknowledgement that follows an OACK asks for the first window.
FirstWindow(b) == /\ Windowed /\ armed /\ justOACKed /\ justOACKed' = FALSE
                  /\ winAcked' = winAcked /\ NextWindow(ACK(b))
                  /\ UNCHANGED <<clientVars, armed, sdone>>

IsFinal(b) == winFinal # 0 /\ b = winFinal

\* The last block the receiver may acknowledge, in 16-bit arithmetic.
maxSent == LET m == Wrap16(winAcked + Win)
           IN  IF winFinal # 0 /\ winFinal < m THEN winFinal ELSE m

InWindow(b) == winAcked <= b /\ b <= maxSent

Streaming == armed /\ ~justOACKed /\ ~sdone

\* A cumulative acknowledgement: finish, or move the edge (a stale or
\* impossible one leaves it) and send the window from there.
OnACKWindow(b) ==
  /\ Windowed /\ Streaming
  /\ \/ /\ IsFinal(b) /\ sdone' = TRUE /\ Take(ACK(b), {})
        /\ UNCHANGED <<clientVars, armed, xferVars, justOACKed>>
     \/ /\ ~IsFinal(b)
        /\ winAcked' = IF InWindow(b) THEN b ELSE winAcked
        /\ NextWindow(ACK(b))
        /\ UNCHANGED <<clientVars, armed, sdone, justOACKed>>
-----------------------------------------------------------------------------
\* Everything else sent to the transfer port falls on the floor.
DropAck(b) == /\ ~justOACKed
              /\ IF Windowed THEN ~Streaming ELSE ~armed \/ (sdone /\ b # next)
              /\ Take(ACK(b), {}) /\ UNCHANGED <<clientVars, serverVars>>

AckReceived(b) == \/ FirstData(b) \/ OnACK(b)
                  \/ FirstWindow(b) \/ OnACKWindow(b)
                  \/ DropAck(b)

ServerStep == OnRRQ \/ \E b \in 0..FileLen : AckReceived(b)

Next == \/ ClientStep /\ UNCHANGED serverVars
        \/ ServerStep

Spec == Init /\ [][Next]_vars

\* The wire is fair: a datagram sent again and again is received in the end.
\* The client's timer, where it has one, keeps firing.
DataReceived(b) == \E d \in Tokens : LET m == DATA("server", b, d) IN
                     m \in net /\ ClientFrame(m) /\ UNCHANGED serverVars

Fairness ==
  /\ WF_vars(OnARPReply /\ UNCHANGED serverVars)
  /\ WF_vars(ClientOnTimeout /\ UNCHANGED serverVars)
  /\ SF_vars(onOACK /\ UNCHANGED serverVars) /\ SF_vars(OnRRQ)
  /\ \A b \in 1..FileLen : SF_vars(DataReceived(b))
  /\ \A b \in 0..FileLen : SF_vars(AckReceived(b))

FairSpec == Spec /\ Fairness
-----------------------------------------------------------------------------
TypeOK == /\ ClientTypeOK
          /\ {armed, sdone, justOACKed} \subseteq BOOLEAN
          /\ next \in 1..FileLen /\ sent \in Tokens
          /\ winAcked \in 0..FileLen - 1 /\ winFinal \in {0, FileLen}

(* The server calls the transfer finished only when the client has the     *)
(* whole file: an acknowledgement left over from before a restarted        *)
(* transfer, or a stale one, must not finish it early (serverxfer.go:109,  *)
(* serverxfer.go:144).                                                     *)
FinishedMeansDelivered == sdone => phase = "DONE" /\ Len(got) = FileLen

(* The sender never runs ahead of the receiver: the block outstanding is   *)
(* at most the one after the last block stored, over restarts of the       *)
(* transfer and stale acknowledgements of an earlier one too.              *)
OneBlockAhead == /\ next <= acked + 1
                 /\ sent # 0 => sent = next

(* The left edge is a block the receiver has stored: whatever              *)
(* acknowledgements cross a restart of the transfer, the sender skips no   *)
(* block the receiver still needs (serverxfer.go:113-120).                 *)
EdgeConfirmed == winAcked <= acked

(* Within one transfer the left edge never moves back: an old              *)
(* acknowledgement does not undo a newer one (serverxfer.go:98-104).       *)
EdgeNeverRetreats == [][winAcked' >= winAcked \/ OnRRQ]_vars

(* The transfer is a copy of the file, step for step (FileCopy).           *)
CopiesFile == Copy!SafeSpec

(* Every fetch ends with the whole file stored, over a wire that loses and *)
(* reorders packets, with a timer that fires at any moment (client.go:24). *)
Completes == <>(phase = "DONE")
=============================================================================

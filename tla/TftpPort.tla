------------------------------ MODULE TftpPort ------------------------------
(***************************************************************************)
(* The fetch against the Z80 netboot server (src/netboot/                  *)
(* netboot_server.asm), the port of the server in TftpTransfer.  It        *)
(* answers any acknowledgement b with block b + 1, filled from a file      *)
(* offset that every block it sends moves on.                              *)
(***************************************************************************)
EXTENDS TftpClient

VARIABLES
  active,         \* XFER_ACTIVE
  offset,         \* XFER_OFFSET, in blocks
  lastShort,      \* XFER_LAST_SHORT
  justOACKed      \* XFER_JUST_OACKED

serverVars == <<active, offset, lastShort, justOACKed>>
vars == <<net, clientVars, serverVars>>

Init == /\ ClientInit /\ active = FALSE /\ offset = 0
        /\ lastShort = FALSE /\ justOACKed = FALSE

handle_rrq == /\ Take(RRQ, {OACK})
              /\ active' = TRUE /\ offset' = 0 /\ justOACKed' = TRUE
              /\ UNCHANGED <<clientVars, lastShort>>

\* Block `block' carries whatever the offset has reached.
send_next_data(m, block) ==
  /\ offset' = offset + 1 /\ lastShort' = Short(offset')
  /\ Take(m, {DATA("server", block, offset')})

\* The ACK of the OACK, then the acknowledgements; one that comes after the
\* short block was sent ends the transfer, whichever block it names.
handle_ack(b) ==
  /\ active /\ UNCHANGED clientVars
  /\ \/ justOACKed /\ send_next_data(ACK(b), 1) /\ justOACKed' = FALSE /\ UNCHANGED active
     \/ /\ ~justOACKed /\ lastShort
        /\ Take(ACK(b), {}) /\ active' = FALSE /\ UNCHANGED <<offset, lastShort, justOACKed>>
     \/ /\ ~justOACKed /\ ~lastShort
        /\ send_next_data(ACK(b), Wrap16(b + 1)) /\ UNCHANGED <<active, justOACKed>>

ns_none(b) == ~active /\ Take(ACK(b), {}) /\ UNCHANGED <<clientVars, serverVars>>

Next == \/ ClientStep /\ UNCHANGED serverVars
        \/ handle_rrq
        \/ \E b \in 0..FileLen : handle_ack(b) \/ ns_none(b)

Spec == Init /\ [][Next]_vars

(* The port "mirrors serverloop.FirstData/OnACK" (netboot_server.asm:755), *)
(* so the client ends up with the file: block i of what it stored is block *)
(* i of the file.                                                          *)
StoresTheFile == \A i \in 1..Len(got) : got[i] = i
=============================================================================

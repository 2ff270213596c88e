-------------------------- MODULE MCNetbootServer --------------------------
(* Two boot ROMs and a machine that is no PXE client; a pool of two, whose   *)
(* second address wraps the byte; a serial-directory probe, and a file asked *)
(* for twice, so that a host may decline it first; a file of three blocks and *)
(* one of two whose last is a long block.                                    *)
EXTENDS NetbootServer, TLC

PXEHosts == {"h1", "h2"}
MCHosts  == PXEHosts \cup {"laptop"}
MCRequests ==
  [h1 |-> <<"serial/a", "a", "a">>, h2 |-> <<"b", "a">>, laptop |-> <<"a">>]
MCPort   == [h1 |-> <<11, 12, 13>>, h2 |-> <<21, 22>>, laptop |-> <<31>>]
MCBlocks == [a |-> 3, b |-> 2] @@ ("serial/a" :> 1)
=============================================================================

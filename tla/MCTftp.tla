------------------------------- MODULE MCTftp -------------------------------
(***************************************************************************)
(* Values of Tftp's constants for TLC: how many blocks the file has at each *)
(* server, and what a stranger may send: a runt, an error, block 0 in a full *)
(* and in a short packet.                                                   *)
(***************************************************************************)
EXTENDS Tftp

MCSame == <<3, 3>>          \* the same file on two
MCTwo == <<3, 1>>           \* different files
MCRefusing == <<2, 0>>      \* the second has no such file

Stranger == <<9, 1>>
Stray(op, block, len) ==
    [from |-> Stranger, op |-> op, block |-> block, idx |-> 0, len |-> len]

MCStrays == {Stray("OTHER", 0, 2), Stray("ERROR", 0, 20),
             Stray("DATA", 0, FULL_PACKET_SIZE),
             Stray("DATA", 0, MIN_DATA_PACK_SIZE)}
=============================================================================

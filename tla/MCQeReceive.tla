---------------------------- MODULE MCQeReceive ----------------------------
(***************************************************************************)
(* Values of QeReceive's constants for TLC.  Bytes of a register take       *)
(* MCRadix = 8 values, so that a carry between the halves of RX_RSR (0x00FE *)
(* to 0x0100 on the card) needs two short packets only.                     *)
(***************************************************************************)
EXTENDS QeReceive

MCRadix == 8
MCLineFeeds == {1, 4}
=============================================================================

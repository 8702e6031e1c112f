------------------------------- MODULE MCDhcp -------------------------------
(***************************************************************************)
(* Dhcp with two servers; the clock has 16 values and comes round in the     *)
(* middle of a run.                                                         *)
(***************************************************************************)
EXTENDS Dhcp

CONSTANTS A, B

MCServers == {A, B}
MCAckOptions == {TRUE, FALSE}
MCBootTimes == {14}
=============================================================================

---------------------------- MODULE MCDriverStart ----------------------------
(***************************************************************************)
(* DriverStart with three candidates, the card at the first, at the last or *)
(* at none of them, and two sockets.                                        *)
(***************************************************************************)
EXTENDS DriverStart

MCPositions == {NoCard, 1, 3}
=============================================================================

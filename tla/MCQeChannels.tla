---------------------------- MODULE MCQeChannels ----------------------------
(***************************************************************************)
(* QeChannels with two sockets, the resolver's and another one.            *)
(***************************************************************************)
EXTENDS QeChannels

MCNames == {"bare", "malformed", "ip", "host"}
MCOutcomes == {"address", "noaddress", "rcode"}
=============================================================================

---------------------------- MODULE AddressLease ----------------------------
(***************************************************************************)
(* What a DHCP client promises: the station uses an address only if a       *)
(* server has acknowledged it, and gives it up before it asks again.        *)
(***************************************************************************)
CONSTANTS Addresses, NoAddress

VARIABLES granted, address

Init == granted = {} /\ address = NoAddress

\* A server acknowledges a request for one of its addresses.
Grant(a) == granted' = granted \cup {a} /\ UNCHANGED address

\* The station takes an address into use.
Take(a) == a \in granted /\ address' = a /\ UNCHANGED granted

\* The station begins anew.
Drop == address' = NoAddress /\ UNCHANGED granted

Next == Drop \/ \E a \in Addresses : Grant(a) \/ Take(a)

Spec == Init /\ [][Next]_<<granted, address>>
=============================================================================

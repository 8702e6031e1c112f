----------------------------- MODULE MCResolver -----------------------------
(***************************************************************************)
(* Resolver with three hosts and two cache entries: one host has three       *)
(* addresses, one an alias and a server that does not compress, one aliases  *)
(* so long that the last name begins behind byte 128.                        *)
(***************************************************************************)
EXTENDS Resolver

A == <<97>>
B == <<98, 98>>
C == <<99>>
Long(c) == [j \in 1 .. 50 |-> c]
Ip(n) == <<10, 0, n, 1>>

MCHosts == {<<A>>, <<B>>, <<C>>}
MCAddresses == {Ip(1), Ip(2), Ip(3), Ip(4)}

Reply(chain, addresses, compressed, code) ==
    [chain |-> chain, addresses |-> addresses, compressed |-> compressed, rcode |-> code]

MCReplies == <<
    Reply(<<<<A>>>>, <<Ip(1), Ip(2), Ip(1)>>, TRUE, 0),
    Reply(<<<<A>>>>, <<>>, TRUE, 3),
    Reply(<<<<B>>, <<A, B>>>>, <<Ip(3), Ip(2)>>, TRUE, 0),
    Reply(<<<<B>>, <<A, B>>>>, <<Ip(3)>>, FALSE, 0),
    Reply(<<<<C>>, <<Long(121), Long(122)>>, <<A, C>>>>, <<Ip(4)>>, TRUE, 0)>>

MCCharSigned == {TRUE, FALSE}

\* What the theorems take of the replies, here of these.
ASSUME MCRepliesAreRead == RepliesAreRead
ASSUME MCRecordsAreFound == RecordsAreFound
=============================================================================

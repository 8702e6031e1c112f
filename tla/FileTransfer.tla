---------------------------- MODULE FileTransfer ----------------------------
(***************************************************************************)
(* What a file transfer promises: the file that grows at the receiver is a *)
(* prefix of the file of one source, and "ok" means that it is all of it.   *)
(* There are no packets, acknowledgements or time-outs here.                *)
(***************************************************************************)
EXTENDS Naturals, Sequences

CONSTANTS
    Sources,            \* who may send the file
    Length              \* Length[s]: how many blocks its file has

VARIABLES
    file,               \* the blocks written: [from, idx], idx counted from 1
    outcome             \* "none" while the transfer runs

vars == <<file, outcome>>

Init == file = <<>> /\ outcome = "none"

Complete(f) == f # <<>> /\ Len(f) = Length[f[1].from]

\* The next block of the source chosen with the first one.
NextBlock(s) ==
    /\ file # <<>> => file[1].from = s
    /\ Len(file) < Length[s]
    /\ file' = Append(file, [from |-> s, idx |-> Len(file) + 1])

Proceed ==
    /\ outcome = "none"
    /\ (\E s \in Sources : NextBlock(s)) \/ UNCHANGED file
    /\ outcome' \in {"none", "ok", "failed"}
    /\ outcome' = "ok" => Complete(file')

Spec == Init /\ [][Proceed]_vars
=============================================================================

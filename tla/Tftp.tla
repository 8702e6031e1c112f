-------------------------------- MODULE Tftp --------------------------------
(***************************************************************************)
(* The TFTP client (tftp.c: handle_get, tftp_get) against servers and a     *)
(* network that lose, delay, repeat and reorder packets.                    *)
(*                                                                          *)
(* The client is a protothread that blocks in one place, PT_WAIT_UNTIL      *)
(* (bytes_available or timer_expired): an action here is what it does from  *)
(* there to there.  The timer is not counted: it may expire whenever the    *)
(* client waits.  Packets are never removed from the sets of packets sent;  *)
(* one that is not delivered is lost, one delivered twice repeated.         *)
(***************************************************************************)
EXTENDS Integers, Sequences

CONSTANTS
    Servers,        \* hosts that answer on port 69, positive numbers
    Blocks,         \* Blocks[s]: blocks of the file at server s, 0 if it has none
    BlockMod,       \* block numbers are counted modulo 65536
    MAX_RESENDS,
    MaxRequests,    \* bound on the requests a server answers
    MaxSurplus,     \* bound on the deliveries of packets delivered before
    Strays          \* packets of other senders

ASSUME TftpAssumption ==
    /\ Servers \subseteq Nat \ {0}
    /\ Blocks \in [Servers -> Nat]
    /\ BlockMod \in Nat /\ BlockMod > 1
    /\ MAX_RESENDS \in Nat /\ MaxRequests \in Nat /\ MaxSurplus \in Nat
    /\ \A m \in Strays :
          /\ m.from \in (Nat \X Nat) /\ m.from[1] \notin Servers \cup {0}
          /\ m.op \in {"DATA", "ERROR", "OTHER"} /\ (m.op = "DATA" => m.block = 0)
          /\ m.block \in 0 .. BlockMod - 1 /\ m.len \in Nat /\ m.idx = 0

FULL_PACKET_SIZE == 516
MIN_DATA_PACK_SIZE == 4

\* An address and port.  A server answers each copy of the request that it
\* gets from a port of its own: <<s, k>> answers the k-th.
Endpoints == Servers \X (1 .. MaxRequests)
Broadcast == <<0, 0>>       \* 255.255.255.255, port 69

VARIABLES
    (* the client, all static variables of tftp.c *)
    pc,                 \* "start", "wait", or how the protothread ended
    expected,           \* expected_addr and expected_port
    expected_block, block_no, recv_len, num_resends, error,
    file,               \* what went to the output channel: [from, idx]
    (* the network and the servers *)
    requests,           \* copies of the RRQ sent, counted up to MaxRequests
    acks,               \* ACK packets sent
    current,            \* the block each endpoint sends, 0 before it answers
    seen, surplus       \* packets delivered, and how many of them again

client == <<pc, expected, expected_block, block_no, recv_len, num_resends, error, file>>
vars == <<client, requests, acks, current, seen, surplus>>

-----------------------------------------------------------------------------
(* The packets sent to the client.  idx is the place of a block in its file. *)

DataPacket(e, b) ==
    [from |-> e, op |-> "DATA", block |-> b % BlockMod, idx |-> b,
     len |-> IF b = Blocks[e[1]] THEN MIN_DATA_PACK_SIZE ELSE FULL_PACKET_SIZE]

Refusal(e) == [from |-> e, op |-> "ERROR", block |-> 0, idx |-> 0, len |-> 20]

SentBy(e) ==
    IF current[e] = 0 THEN {}
    ELSE IF Blocks[e[1]] = 0 THEN {Refusal(e)}
    ELSE {DataPacket(e, b) : b \in 1 .. current[e]}

Sent == (UNION {SentBy(e) : e \in Endpoints}) \cup Strays

Init ==
    /\ pc = "start" /\ expected = Broadcast
    /\ expected_block = 0 /\ block_no = 0 /\ recv_len = 0
    /\ num_resends = 0 /\ error = "none" /\ file = <<>>
    /\ requests = 0 /\ acks = {} /\ current = [e \in Endpoints |-> 0]
    /\ seen = {} /\ surplus = 0

-----------------------------------------------------------------------------
(* The client *)

Exit(err) == pc' = "exited" /\ error' = err

\* create_rrq and sendto, which gives up when the chip reports a time-out.
SendRequest ==
    \/ Exit("send") /\ UNCHANGED <<expected_block, requests>>
    \/ /\ requests' = IF expected = Broadcast /\ requests < MaxRequests
                      THEN requests + 1 ELSE requests
       /\ expected_block' = 1
       /\ pc' = "wait" /\ UNCHANGED error

Start ==
    /\ pc = "start"
    /\ SendRequest
    /\ UNCHANGED <<expected, block_no, recv_len, num_resends, file,
                   acks, current, seen, surplus>>

\* Mutant: the ACK says which block is expected.
MutAckedBlock(block) == expected_block

AckedBlock(block) == block

\* Mutant: a full packet ends the transfer too.
MutIsLast(len) == FULL_PACKET_SIZE >= len

IsLast(len) == FULL_PACKET_SIZE > len

\* STATE_SEND_ACK: the length of the packet received last tells whether the
\* transfer is over, its block number goes into the ACK.
SendAck(peer, block, len) ==
    \/ Exit("send") /\ UNCHANGED acks
    \/ /\ acks' = acks \cup {[to |-> peer, block |-> AckedBlock(block)]}
       /\ pc' = IF IsLast(len) THEN "ended" ELSE "wait"
       /\ UNCHANGED error

\* Packet m is in the socket's memory while the client waits.
Delivered(m) ==
    /\ pc = "wait"
    /\ m \in Sent
    /\ IF m \in seen THEN surplus < MaxSurplus /\ surplus' = surplus + 1
                     ELSE UNCHANGED surplus
    /\ seen' = seen \cup {m}
    /\ recv_len' = m.len

\* The wrong host/port combination after the initial DATA packet.
Foreign(m) == expected_block > 1 /\ m.from # expected

\* A runt, a foreign packet, or one that is neither DATA nor ERROR.
IgnorePacket(m) ==
    /\ Delivered(m)
    /\ \/ m.len < MIN_DATA_PACK_SIZE
       \/ Foreign(m)
       \/ m.op \notin {"DATA", "ERROR"}
    /\ UNCHANGED <<pc, expected, expected_block, block_no, num_resends, error,
                   file, requests, acks, current>>

Relevant(m) == Delivered(m) /\ m.len >= MIN_DATA_PACK_SIZE /\ ~Foreign(m)

ServerError(m) ==
    /\ Relevant(m) /\ m.op = "ERROR"
    /\ Exit("server")
    /\ UNCHANGED <<expected, expected_block, block_no, num_resends, file,
                   requests, acks, current>>

\* Mutant: the block before is taken as well.
MutIsExpected(m) == m.block \in {expected_block, expected_block - 1}

IsExpected(m) == m.block = expected_block

\* Mutant: the client keeps listening to the broadcast address.
MutSender(m) == expected

\* Who is listened to after block m.
Sender(m) == IF expected_block = 1 THEN m.from ELSE expected

\* An out of sequence block: neither the one expected nor the one before.
IgnoreBlock(m) ==
    /\ Relevant(m) /\ m.op = "DATA"
    /\ ~IsExpected(m) /\ m.block # expected_block - 1
    /\ block_no' = m.block
    /\ UNCHANGED <<pc, expected, expected_block, num_resends, error, file,
                   requests, acks, current>>

\* The block before the one expected is acknowledged again.
RepeatedBlock(m) ==
    /\ Relevant(m) /\ m.op = "DATA"
    /\ ~IsExpected(m) /\ m.block = expected_block - 1
    /\ block_no' = m.block
    /\ num_resends' = 0
    /\ SendAck(expected, m.block, m.len)
    /\ UNCHANGED <<expected, expected_block, file, requests, current>>

\* The block expected is written and acknowledged; the first one says who is
\* listened to from then on.
NewBlock(m) ==
    /\ Relevant(m) /\ m.op = "DATA" /\ IsExpected(m)
    /\ block_no' = m.block
    /\ expected' = Sender(m)
    /\ expected_block' = (expected_block + 1) % BlockMod
    /\ \/ /\ Exit("file")                           \* io_sstrg failed
          /\ UNCHANGED <<file, num_resends, acks>>
       \/ /\ file' = Append(file, [from |-> m.from, idx |-> m.idx])
          /\ num_resends' = 0
          /\ SendAck(expected', m.block, m.len)
    /\ UNCHANGED <<requests, current>>

\* Mutant: the counter wraps to zero before it passes the limit.
MutCounted == (num_resends + 2) % (MAX_RESENDS + 1)

\* Once in the statement before the test and once in the test.
Counted == num_resends + 2

Timeout ==
    /\ pc = "wait"
    /\ num_resends' = Counted
    /\ IF num_resends + 1 > MAX_RESENDS
       THEN Exit("resends") /\ UNCHANGED <<expected_block, requests, acks>>
       ELSE IF expected_block = 1
       THEN SendRequest /\ UNCHANGED acks
       ELSE /\ SendAck(expected, block_no, recv_len)
            /\ UNCHANGED <<expected_block, requests>>
    /\ UNCHANGED <<expected, block_no, recv_len, file, current, seen, surplus>>

Receive(m) ==
    \/ IgnorePacket(m) \/ ServerError(m) \/ IgnoreBlock(m)
    \/ RepeatedBlock(m) \/ NewBlock(m)

-----------------------------------------------------------------------------
(* The servers *)

Answer(e) ==
    /\ current[e] = 0 /\ e[2] <= requests
    /\ current' = [current EXCEPT ![e] = 1]
    /\ UNCHANGED <<client, requests, acks, seen, surplus>>

Acknowledged(e) ==
    /\ current[e] \in 1 .. Blocks[e[1]] - 1
    /\ [to |-> e, block |-> current[e] % BlockMod] \in acks
    /\ current' = [current EXCEPT ![e] = current[e] + 1]
    /\ UNCHANGED <<client, requests, acks, seen, surplus>>

Server == \E e \in Endpoints : Answer(e) \/ Acknowledged(e)

Done == pc \in {"ended", "exited"} /\ UNCHANGED vars

Next == Start \/ (\E m \in Sent : Receive(m)) \/ Timeout \/ Server \/ Done

Spec == Init /\ [][Next]_vars

(* The client runs, and its timer expires.  Nothing is asked of the servers *)
(* or the network.                                                          *)
FairSpec == Spec /\ WF_vars(Start) /\ WF_vars(Timeout)
-----------------------------------------------------------------------------
(* Properties *)

\* The type invariant.
TypeOK ==
    /\ pc \in {"start", "wait", "ended", "exited"}
    /\ expected \in (Nat \X Nat)
    /\ expected_block \in 0 .. BlockMod - 1 /\ block_no \in 0 .. BlockMod - 1
    /\ recv_len \in Nat /\ num_resends \in Nat
    /\ error \in {"none", "send", "server", "file", "resends"}
    /\ file \in Seq([from : Nat \X Nat, idx : Nat])
    /\ requests \in Nat
    /\ acks \subseteq [to : Nat \X Nat, block : 0 .. BlockMod - 1]
    /\ current \in [Endpoints -> Nat]
    /\ surplus \in Nat

\* However packets are lost, repeated and reordered, and whatever other
\* servers and strangers send: the file is written block by block, each once,
\* and all of it from the sender of its first block.
WrittenInOrder ==
    \A k \in 1 .. Len(file) : file[k] = [from |-> file[1].from, idx |-> k]

\* No block is acknowledged to its sender before it has been written.
AckedIsWritten ==
    \A a \in acks : a.to \in Endpoints =>
        \E k \in 1 .. Len(file) : file[k].from = a.to /\ k % BlockMod = a.block

\* When all servers have the file and there are no strangers, the client
\* implements FileTransfer: when it says GET_OK the file is whole.
Transfer == INSTANCE FileTransfer WITH
    Sources <- Endpoints, Length <- [e \in Endpoints |-> Blocks[e[1]]],
    outcome <- CASE pc = "ended" -> "ok" [] pc = "exited" -> "failed" [] OTHER -> "none"

ImplementsTransfer == Transfer!Spec

\* The client comes to an end: servers that fall silent, and packets repeated
\* a bounded number of times, cannot hold it for ever.
TransferEnds == <>(pc \in {"ended", "exited"})

(* What a comment of the code says *)

\* tftp.c:210, "quit if end of transmission".
QuitAtEnd ==
    pc = "ended" => file # <<>> /\ Len(file) = Blocks[file[1].from[1]]
-----------------------------------------------------------------------------
(* The inductive invariants.  Neither holds once a file is so long that its *)
(* block numbers come round.                                                *)

NoWrap == \A s \in Servers : Blocks[s] < BlockMod

\* The client waits for the block after the last one written, from the sender
\* of the first.
ClientOK ==
    /\ pc = "wait" => expected_block = Len(file) + 1
    /\ pc = "start" => file = <<>> /\ expected_block = 0
    /\ pc \in {"start", "wait"} /\ file = <<>> => expected = Broadcast
    /\ file # <<>> => expected = file[1].from /\ expected \in Endpoints
    /\ pc = "wait" /\ file # <<>> => block_no \in 1 .. Len(file)

\* A server is at most one block ahead of the file, and only the one listened
\* to is past its first block.
ServersOK ==
    \A e \in Endpoints :
        /\ Blocks[e[1]] # 0 => current[e] <= Blocks[e[1]]
        /\ current[e] > 1 =>
              file # <<>> /\ file[1].from = e /\ current[e] <= Len(file) + 1

IInv == TypeOK /\ WrittenInOrder /\ AckedIsWritten /\ ClientOK /\ ServersOK

\* All servers have the same file, and nobody else sends.
Agreement ==
    /\ Strays = {}
    /\ \A s, t \in Servers : Blocks[s] = Blocks[t]
    /\ \A s \in Servers : Blocks[s] > 0

\* The packet received last, whoever sent it, was a full one, as long as the
\* file is not whole.
LengthOK ==
    /\ pc = "wait" /\ file # <<>> =>
          /\ recv_len = FULL_PACKET_SIZE
          /\ Len(file) < Blocks[file[1].from[1]]
    /\ pc = "ended" => file # <<>> /\ Len(file) = Blocks[file[1].from[1]]
=============================================================================

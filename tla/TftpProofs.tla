----------------------------- MODULE TftpProofs -----------------------------
(***************************************************************************)
(* Theorems about Tftp: for any servers, files shorter than the range of   *)
(* block numbers, resends, repetitions and strangers.                       *)
(***************************************************************************)
EXTENDS Tftp, SequenceTheorems, TLAPS

\* An endpoint is a pair of numbers, and is not the broadcast address.
LEMMA EndpointType ==
    ASSUME NEW e \in Endpoints
    PROVE  /\ e \in Nat \X Nat /\ e # Broadcast
           /\ e[1] \in Servers /\ Blocks[e[1]] \in Nat
  <1>1. Servers \subseteq Nat \ {0} /\ Blocks \in [Servers -> Nat] /\ MaxRequests \in Nat
    BY TftpAssumption DEF TftpAssumption
  <1>2. PICK s \in Servers, k \in 1 .. MaxRequests : e = <<s, k>>
    BY DEF Endpoints
  <1>3. s \in Nat /\ s # 0 /\ k \in Nat /\ Blocks[s] \in Nat
    BY <1>1, <1>2
  <1> QED
    BY <1>2, <1>3 DEF Broadcast

LEMMA SmallRemainder ==
    ASSUME NEW n \in Nat, NEW d \in Nat, n < d
    PROVE  n % d = n
  OBVIOUS

\* What a packet that can be delivered is: a block of an endpoint that has
\* sent it, a refusal, or a stranger's.
LEMMA SentType ==
    ASSUME NoWrap, TypeOK, ServersOK, NEW m \in Sent
    PROVE  /\ m.from \in Nat \X Nat /\ m.len \in Nat
           /\ m.block \in 0 .. BlockMod - 1 /\ m.idx \in Nat
           /\ m.op = "DATA" /\ m.block # 0 =>
                 /\ m.from \in Endpoints /\ m.idx = m.block
                 /\ m.block \in 1 .. current[m.from]
                 /\ m.block <= Blocks[m.from[1]]
                 /\ m.len = IF m.block = Blocks[m.from[1]]
                            THEN MIN_DATA_PACK_SIZE ELSE FULL_PACKET_SIZE
           /\ m.op = "DATA" /\ m.block = 0 => m.from \notin Endpoints
  <1>1. CASE m \in Strays
    <2>1. m.from \in Nat \X Nat
      BY <1>1, TftpAssumption DEF TftpAssumption
    <2> QED
      BY <1>1, <2>1, TftpAssumption DEF TftpAssumption, Endpoints
  <1>2. CASE m \notin Strays
    <2>1. PICK e \in Endpoints : m \in SentBy(e)
      BY <1>2 DEF Sent
    <2>2. e \in Nat \X Nat /\ e[1] \in Servers /\ Blocks[e[1]] \in Nat /\ current[e] \in Nat
      BY EndpointType DEF TypeOK
    <2>3. CASE m = Refusal(e)
      BY <2>2, <2>3, TftpAssumption DEF TftpAssumption, Refusal
    <2>4. CASE m # Refusal(e)
      <3>1. PICK b \in 1 .. current[e] : m = DataPacket(e, b)
        BY <2>1, <2>4 DEF SentBy
      <3>2. Blocks[e[1]] # 0
        BY <2>1, <2>4 DEF SentBy
      <3>3. b <= Blocks[e[1]] /\ Blocks[e[1]] < BlockMod
        BY <2>2, <3>1, <3>2 DEF ServersOK, NoWrap
      <3>4. b % BlockMod = b /\ b \in 1 .. BlockMod - 1
        BY <2>2, <3>1, <3>3, TftpAssumption DEF TftpAssumption
      <3> QED
        BY <2>2, <3>1, <3>3, <3>4 DEF DataPacket, MIN_DATA_PACK_SIZE, FULL_PACKET_SIZE
    <2> QED
      BY <2>3, <2>4
  <1> QED
    BY <1>1, <1>2

\* Under NoWrap the client, while it waits, listens to one endpoint once the
\* file has begun, and the number it waits for is that of the next block.
LEMMA WaitingClient ==
    ASSUME IInv, NoWrap, pc = "wait"
    PROVE  /\ Len(file) \in Nat /\ expected_block = Len(file) + 1
           /\ expected_block \in 1 .. BlockMod - 1
           /\ file = <<>> <=> Len(file) = 0
           /\ file = <<>> <=> expected_block = 1
           /\ file # <<>> => /\ expected = file[1].from /\ expected \in Endpoints
                             /\ expected_block > 1
                             /\ current[expected] <= Len(file) + 1
                             /\ block_no \in 1 .. Len(file)
  <1>1. BlockMod \in Nat
    BY TftpAssumption DEF TftpAssumption
  <1>2. Len(file) \in Nat /\ (file = <<>> <=> Len(file) = 0)
    BY DEF IInv, TypeOK
  <1>3. expected_block = Len(file) + 1 /\ expected_block \in 0 .. BlockMod - 1
    BY DEF IInv, TypeOK, ClientOK
  <1>4. ASSUME file # <<>>
        PROVE  /\ expected = file[1].from /\ expected \in Endpoints
               /\ block_no \in 1 .. Len(file)
    BY <1>4 DEF IInv, ClientOK
  <1>5. ASSUME file # <<>> PROVE current[expected] <= Len(file) + 1
    <2>1. current[expected] \in Nat /\ Len(file) \in Nat
      BY <1>4, <1>5, <1>2 DEF IInv, TypeOK
    <2>2. current[expected] > 1 => current[expected] <= Len(file) + 1
      BY <1>4, <1>5 DEF IInv, ServersOK
    <2> QED
      BY <2>1, <2>2
  <1> QED
    BY <1>1, <1>2, <1>3, <1>4, <1>5

\* Acknowledging block b of the sender listened to, once it is in the file,
\* keeps AckedIsWritten.
LEMMA AckKeepsWritten ==
    ASSUME TypeOK,
           NEW peer \in Nat \X Nat, NEW b \in 0 .. BlockMod - 1, NEW len,
           SendAck(peer, b, len),
           \A a \in acks : a.to \in Endpoints =>
              \E k \in 1 .. Len(file') : file'[k].from = a.to /\ k % BlockMod = a.block,
           peer \in Endpoints =>
              \E k \in 1 .. Len(file') : file'[k].from = peer /\ k % BlockMod = b
    PROVE  /\ AckedIsWritten'
           /\ acks' \subseteq [to : Nat \X Nat, block : 0 .. BlockMod - 1]
           /\ pc' \in {"wait", "ended", "exited"}
           /\ error' \in {"none", "send", "server", "file", "resends"}
           /\ pc' = "wait" => ~IsLast(len)
  <1>1. acks' \subseteq acks \cup {[to |-> peer, block |-> b]}
    BY DEF SendAck, AckedBlock
  <1>2. AckedIsWritten'
    BY <1>1 DEF AckedIsWritten
  <1>3. [to |-> peer, block |-> b] \in [to : Nat \X Nat, block : 0 .. BlockMod - 1]
    OBVIOUS
  <1>4. acks' \subseteq [to : Nat \X Nat, block : 0 .. BlockMod - 1]
    BY <1>1, <1>3 DEF TypeOK
  <1>5. /\ pc' \in {"wait", "ended", "exited"}
        /\ error' \in {"none", "send", "server", "file", "resends"}
        /\ pc' = "wait" => ~IsLast(len)
    BY DEF SendAck, Exit, TypeOK
  <1> QED
    BY <1>2, <1>4, <1>5

\* A block of the file that the client can name.
LEMMA WrittenBlock ==
    ASSUME IInv, NEW b \in 1 .. Len(file), b < BlockMod
    PROVE  \E k \in 1 .. Len(file) : file[k].from = file[1].from /\ k % BlockMod = b
  <1>1. BlockMod \in Nat /\ BlockMod > 1
    BY TftpAssumption DEF TftpAssumption
  <1>2. file[b].from = file[1].from
    <2>1. file[b] = [from |-> file[1].from, idx |-> b]
      BY DEF IInv, WrittenInOrder
    <2> QED
      BY <2>1
  <1>3. Len(file) \in Nat
    BY DEF IInv, TypeOK
  <1>4. b % BlockMod = b
    BY <1>1, <1>3
  <1> QED
    BY <1>2, <1>4

\* The file does not change: what is left to show.
LEMMA FileUnchanged ==
    ASSUME IInv, UNCHANGED file
    PROVE  /\ WrittenInOrder'
           /\ file' \in Seq([from : Nat \X Nat, idx : Nat])
           /\ \A a \in acks : a.to \in Endpoints =>
                 \E k \in 1 .. Len(file') :
                    file'[k].from = a.to /\ k % BlockMod = a.block
  BY DEF IInv, WrittenInOrder, TypeOK, AckedIsWritten

\* One lemma for each action follows: it keeps the inductive invariant.
LEMMA StartKeeps ==
    ASSUME IInv, Start
    PROVE  IInv'
  <1>1. BlockMod \in Nat /\ BlockMod > 1
    BY TftpAssumption DEF TftpAssumption
  <1>2. file = <<>> /\ UNCHANGED <<file, expected, acks, current>>
    BY DEF Start, IInv, ClientOK
  <1>3. TypeOK'
    BY <1>1, <1>2 DEF IInv, TypeOK, Start, SendRequest, Exit
  <1>4. ClientOK'
    BY <1>2 DEF IInv, ClientOK, Start, SendRequest, Exit
  <1>5. AckedIsWritten' /\ WrittenInOrder' /\ ServersOK'
    BY <1>2 DEF IInv, AckedIsWritten, WrittenInOrder, ServersOK
  <1> QED
    BY <1>3, <1>4, <1>5 DEF IInv

LEMMA IgnorePacketKeeps ==
    ASSUME IInv, NoWrap, NEW m \in Sent, IgnorePacket(m)
    PROVE  IInv'
  <1>1. TypeOK'
    BY SentType DEF IInv, TypeOK, IgnorePacket, Delivered
  <1>2. UNCHANGED <<pc, expected, expected_block, block_no, file, acks, current>>
    BY DEF IgnorePacket
  <1> QED
    BY <1>1, <1>2 DEF IInv, AckedIsWritten, WrittenInOrder, ServersOK, ClientOK

LEMMA ServerErrorKeeps ==
    ASSUME IInv, NoWrap, NEW m \in Sent, ServerError(m)
    PROVE  IInv'
  <1>1. TypeOK'
    BY SentType DEF IInv, TypeOK, ServerError, Relevant, Delivered, Exit
  <1>2. UNCHANGED <<expected, expected_block, block_no, file, acks, current>> /\ pc' = "exited"
    BY DEF ServerError, Exit
  <1> QED
    BY <1>1, <1>2 DEF IInv, AckedIsWritten, WrittenInOrder, ServersOK, ClientOK

\* A DATA packet that the client takes notice of once the file has begun is a
\* block of the sender of the first, and not one past the block expected.
LEMMA RelevantData ==
    ASSUME IInv, NoWrap, NEW m \in Sent, Relevant(m), m.op = "DATA", file # <<>>
    PROVE  m.from = expected /\ m.block \in 1 .. Len(file) + 1
  <1>1. pc = "wait" /\ ~Foreign(m)
    BY DEF Relevant, Delivered
  <1>2. expected \in Endpoints /\ expected_block > 1 /\ Len(file) \in Nat
        /\ current[expected] <= Len(file) + 1
    BY <1>1, WaitingClient
  <1>3. m.from = expected
    BY <1>1, <1>2 DEF Foreign
  <1>4. m.block # 0 /\ m.block \in 1 .. current[expected]
    BY <1>2, <1>3, SentType DEF IInv
  <1>5. current[expected] \in Nat
    BY <1>2 DEF IInv, TypeOK
  <1> QED
    BY <1>2, <1>3, <1>4, <1>5

LEMMA IgnoreBlockKeeps ==
    ASSUME IInv, NoWrap, NEW m \in Sent, IgnoreBlock(m)
    PROVE  IInv'
  <1>1. TypeOK'
    BY SentType DEF IInv, TypeOK, IgnoreBlock, Relevant, Delivered
  <1>2. UNCHANGED <<pc, expected, expected_block, file, acks, current>> /\ pc = "wait"
    BY DEF IgnoreBlock, Relevant, Delivered
  <1>3. ASSUME file # <<>> PROVE block_no' \in 1 .. Len(file)
    <2>1. block_no' = m.block /\ m.block # Len(file) + 1 /\ Len(file) \in Nat
      BY <1>2, WaitingClient DEF IgnoreBlock, IsExpected
    <2>2. m.block \in 1 .. Len(file) + 1
      BY <1>3, RelevantData DEF IgnoreBlock
    <2> QED
      BY <2>1, <2>2
  <1>4. ClientOK'
    BY <1>2, <1>3 DEF IInv, ClientOK
  <1> QED
    BY <1>1, <1>2, <1>4 DEF IInv, AckedIsWritten, WrittenInOrder, ServersOK

LEMMA RepeatedBlockKeeps ==
    ASSUME IInv, NoWrap, NEW m \in Sent, RepeatedBlock(m)
    PROVE  IInv'
  <1>1. /\ pc = "wait" /\ SendAck(expected, m.block, m.len)
        /\ UNCHANGED <<expected, expected_block, file, current>>
        /\ block_no' = m.block /\ m.block = expected_block - 1
        /\ m.op = "DATA" /\ Relevant(m)
        /\ recv_len' = m.len /\ num_resends' = 0
        /\ requests' = requests
        /\ (surplus' = surplus \/ surplus' = surplus + 1)
    BY DEF RepeatedBlock, Relevant, Delivered
  <1>2. /\ Len(file) \in Nat /\ m.block = Len(file)
        /\ (file = <<>> <=> Len(file) = 0)
    BY <1>1, WaitingClient
  <1>3. m.block \in 0 .. BlockMod - 1 /\ m.len \in Nat /\ expected \in Nat \X Nat
    BY SentType DEF IInv, TypeOK
  <1>4. expected \in Endpoints =>
            \E k \in 1 .. Len(file) : file[k].from = expected /\ k % BlockMod = m.block
    <2> SUFFICES ASSUME expected \in Endpoints
                 PROVE  \E k \in 1 .. Len(file) :
                           file[k].from = expected /\ k % BlockMod = m.block
      OBVIOUS
    <2>1. file # <<>>
      BY <1>1, EndpointType DEF IInv, ClientOK
    <2>2. expected = file[1].from
      BY <2>1 DEF IInv, ClientOK
    <2>3. m.block \in 1 .. Len(file) /\ m.block < BlockMod
      BY <2>1, <1>2, <1>3, TftpAssumption DEF TftpAssumption
    <2> QED
      BY <2>2, <2>3, WrittenBlock
  <1>5. /\ AckedIsWritten'
        /\ acks' \subseteq [to : Nat \X Nat, block : 0 .. BlockMod - 1]
        /\ pc' \in {"wait", "ended", "exited"}
        /\ error' \in {"none", "send", "server", "file", "resends"}
    BY <1>1, <1>3, <1>4, AckKeepsWritten, FileUnchanged DEF IInv
  <1>6. TypeOK'
    BY <1>1, <1>3, <1>5 DEF IInv, TypeOK
  <1>7. ClientOK'
    BY <1>1, <1>2, <1>5 DEF IInv, ClientOK
  <1> QED
    BY <1>1, <1>5, <1>6, <1>7 DEF IInv, WrittenInOrder, ServersOK

LEMMA TimeoutKeeps ==
    ASSUME IInv, NoWrap, Timeout
    PROVE  IInv'
  <1>1. /\ pc = "wait" /\ num_resends' = num_resends + 2
        /\ UNCHANGED <<expected, block_no, recv_len, file, current, surplus>>
    BY DEF Timeout, Counted
  <1>2. MAX_RESENDS \in Nat /\ MaxRequests \in Nat /\ BlockMod \in Nat /\ BlockMod > 1
    BY TftpAssumption DEF TftpAssumption
  <1>3. requests' \in Nat
    BY <1>2 DEF Timeout, SendRequest, IInv, TypeOK
  <1>4. CASE UNCHANGED acks /\ (UNCHANGED expected_block \/ (expected_block = 1 /\ expected_block' = 1))
             /\ pc' \in {"wait", "exited"} /\ error' \in {"none", "send", "server", "file", "resends"}
    <2>1. UNCHANGED expected_block
      BY <1>4
    <2>2. TypeOK'
      BY <1>1, <1>2, <1>3, <1>4, <2>1 DEF IInv, TypeOK
    <2>3. ClientOK'
      BY <1>1, <1>4, <2>1 DEF IInv, ClientOK
    <2> QED
      BY <1>1, <1>4, <2>2, <2>3 DEF IInv, WrittenInOrder, AckedIsWritten, ServersOK
  <1>5. CASE expected_block # 1 /\ UNCHANGED expected_block
             /\ SendAck(expected, block_no, recv_len)
    <2>1. /\ file # <<>> /\ expected = file[1].from
          /\ block_no \in 1 .. Len(file) /\ Len(file) \in Nat
      BY <1>1, <1>5, WaitingClient
    <2>2. /\ block_no \in 0 .. BlockMod - 1 /\ expected \in Nat \X Nat
          /\ recv_len \in Nat
      BY DEF IInv, TypeOK
    <2>3. \E k \in 1 .. Len(file) : file[k].from = expected /\ k % BlockMod = block_no
      BY <1>2, <2>1, <2>2, WrittenBlock
    <2>4. /\ AckedIsWritten'
          /\ acks' \subseteq [to : Nat \X Nat, block : 0 .. BlockMod - 1]
          /\ pc' \in {"wait", "ended", "exited"}
          /\ error' \in {"none", "send", "server", "file", "resends"}
      BY <1>1, <1>5, <2>2, <2>3, AckKeepsWritten, FileUnchanged DEF IInv
    <2>5. TypeOK'
      BY <1>1, <1>3, <1>5, <2>4 DEF IInv, TypeOK
    <2>6. ClientOK'
      BY <1>1, <1>5, <2>4 DEF IInv, ClientOK
    <2> QED
      BY <1>1, <2>4, <2>5, <2>6 DEF IInv, WrittenInOrder, ServersOK
  <1> QED
    <2>1. CASE num_resends + 1 > MAX_RESENDS
      BY <2>1, <1>4 DEF Timeout, Exit
    <2>2. CASE ~(num_resends + 1 > MAX_RESENDS) /\ expected_block = 1
      BY <2>2, <1>4 DEF Timeout, SendRequest, Exit, IInv, TypeOK
    <2>3. CASE ~(num_resends + 1 > MAX_RESENDS) /\ expected_block # 1
      BY <2>3, <1>5 DEF Timeout
    <2> QED
      BY <2>1, <2>2, <2>3

LEMMA AnswerKeeps ==
    ASSUME IInv, NEW e \in Endpoints, Answer(e)
    PROVE  IInv'
  <1>1. UNCHANGED <<client, requests, acks, surplus>>
        /\ current' = [current EXCEPT ![e] = 1]
    BY DEF Answer
  <1>2. TypeOK'
    BY <1>1 DEF IInv, TypeOK, client
  <1>3. ServersOK'
    <2> SUFFICES ASSUME NEW f \in Endpoints
                 PROVE  /\ Blocks[f[1]] # 0 => current'[f] <= Blocks[f[1]]
                        /\ current'[f] > 1 =>
                              /\ file # <<>> /\ file[1].from = f
                              /\ current'[f] <= Len(file) + 1
      BY <1>1 DEF ServersOK, client
    <2>1. CASE f = e
      <3>1. current'[f] = 1 /\ Blocks[f[1]] \in Nat
        BY <1>1, <2>1, EndpointType DEF IInv, TypeOK
      <3> QED
        BY <3>1
    <2>2. CASE f # e
      BY <1>1, <2>2 DEF IInv, TypeOK, ServersOK
    <2> QED
      BY <2>1, <2>2
  <1> QED
    BY <1>1, <1>2, <1>3
       DEF IInv, WrittenInOrder, AckedIsWritten, ClientOK, client

LEMMA AcknowledgedKeeps ==
    ASSUME IInv, NoWrap, NEW e \in Endpoints, Acknowledged(e)
    PROVE  IInv'
  <1>1. /\ UNCHANGED <<client, requests, acks, surplus>>
        /\ current' = [current EXCEPT ![e] = current[e] + 1]
        /\ current[e] \in 1 .. Blocks[e[1]] - 1
        /\ [to |-> e, block |-> current[e] % BlockMod] \in acks
    BY DEF Acknowledged
  <1>2. /\ current \in [Endpoints -> Nat] /\ current[e] \in Nat /\ Blocks[e[1]] \in Nat
        /\ Blocks[e[1]] < BlockMod /\ BlockMod \in Nat /\ BlockMod > 1 /\ Len(file) \in Nat
    BY EndpointType, TftpAssumption DEF TftpAssumption, IInv, TypeOK, NoWrap
  <1>3. TypeOK'
    <2>1. current' \in [Endpoints -> Nat]
      BY <1>1, <1>2
    <2> QED
      BY <1>1, <2>1 DEF IInv, TypeOK, client
  <1>4. current[e] % BlockMod = current[e]
    <2>1. current[e] < BlockMod
      BY <1>1, <1>2
    <2> QED
      BY <1>2, <2>1, SmallRemainder
  <1>5. PICK k \in 1 .. Len(file) : file[k].from = e /\ k % BlockMod = current[e]
    BY <1>1, <1>4 DEF IInv, AckedIsWritten
  <1>6. k \in Nat /\ k % BlockMod <= k
    BY <1>2, <1>5
  <1>7. current[e] + 1 <= Len(file) + 1 /\ file # <<>>
    BY <1>2, <1>5, <1>6
  <1>8. file[1].from = e
    <2>1. file[k] = [from |-> file[1].from, idx |-> k]
      BY DEF IInv, WrittenInOrder
    <2> QED
      BY <2>1, <1>5
  <1>9. ServersOK'
    <2> SUFFICES ASSUME NEW f \in Endpoints
                 PROVE  /\ Blocks[f[1]] # 0 => current'[f] <= Blocks[f[1]]
                        /\ current'[f] > 1 =>
                              /\ file # <<>> /\ file[1].from = f
                              /\ current'[f] <= Len(file) + 1
      BY <1>1 DEF ServersOK, client
    <2>1. CASE f = e
      <3>1. current'[f] = current[e] + 1
        BY <1>1, <1>2, <2>1
      <3> QED
        BY <3>1, <1>1, <1>2, <1>7, <1>8, <2>1
    <2>2. CASE f # e
      BY <1>1, <2>2 DEF IInv, TypeOK, ServersOK
    <2> QED
      BY <2>1, <2>2
  <1> QED
    BY <1>1, <1>3, <1>9
       DEF IInv, WrittenInOrder, AckedIsWritten, ClientOK, client

\* The block taken as the next one: it is the next of the sender listened to.
LEMMA NewBlockIsNext ==
    ASSUME IInv, NoWrap, NEW m \in Sent, NewBlock(m)
    PROVE  /\ Len(file) \in Nat /\ (file = <<>> <=> Len(file) = 0)
           /\ m.block = Len(file) + 1 /\ m.idx = Len(file) + 1
           /\ m.block \in 1 .. BlockMod - 1 /\ m.len \in Nat
           /\ m.from \in Endpoints /\ m.from \in Nat \X Nat
           /\ file # <<>> => m.from = file[1].from
           /\ expected' = m.from /\ expected_block = Len(file) + 1
           /\ m.block <= Blocks[m.from[1]] /\ Blocks[m.from[1]] \in Nat
           /\ Blocks[m.from[1]] < BlockMod
           /\ m.len = IF m.block = Blocks[m.from[1]]
                      THEN MIN_DATA_PACK_SIZE ELSE FULL_PACKET_SIZE
  <1>1. /\ pc = "wait" /\ m.op = "DATA" /\ m.block = expected_block
        /\ ~Foreign(m) /\ expected' = Sender(m) /\ Relevant(m)
    BY DEF NewBlock, Relevant, Delivered, IsExpected
  <1>2. /\ Len(file) \in Nat /\ (file = <<>> <=> Len(file) = 0)
        /\ m.block = Len(file) + 1 /\ m.block \in 1 .. BlockMod - 1
        /\ (file = <<>> <=> expected_block = 1) /\ expected_block = Len(file) + 1
        /\ (file # <<>> => expected = file[1].from /\ expected_block > 1)
    BY <1>1, WaitingClient
  <1>3. m.block # 0
    BY <1>2
  <1>4. /\ m.from \in Nat \X Nat /\ m.len \in Nat
        /\ m.from \in Endpoints /\ m.idx = m.block
        /\ m.block <= Blocks[m.from[1]]
        /\ m.len = IF m.block = Blocks[m.from[1]]
                   THEN MIN_DATA_PACK_SIZE ELSE FULL_PACKET_SIZE
    BY <1>1, <1>3, SentType DEF IInv
  <1>5. expected' = m.from /\ (file # <<>> => m.from = file[1].from)
    BY <1>1, <1>2 DEF Sender, Foreign
  <1>6. Blocks[m.from[1]] \in Nat /\ Blocks[m.from[1]] < BlockMod
    BY <1>4, EndpointType DEF NoWrap
  <1> QED
    BY <1>2, <1>4, <1>5, <1>6

LEMMA NewBlockKeeps ==
    ASSUME IInv, NoWrap, NEW m \in Sent, NewBlock(m)
    PROVE  IInv'
  <1> DEFINE n == Len(file)
  <1>1. /\ n \in Nat /\ (file = <<>> <=> n = 0)
        /\ m.block = n + 1 /\ m.idx = n + 1
        /\ m.block \in 1 .. BlockMod - 1 /\ m.len \in Nat
        /\ m.from \in Endpoints /\ m.from \in Nat \X Nat
        /\ (file # <<>> => m.from = file[1].from)
        /\ expected' = m.from /\ expected_block = n + 1
    BY NewBlockIsNext
  <1>2. /\ UNCHANGED <<requests, current>>
        /\ block_no' = m.block /\ recv_len' = m.len
        /\ expected_block' = (expected_block + 1) % BlockMod
        /\ (surplus' = surplus \/ surplus' = surplus + 1)
    BY DEF NewBlock, Relevant, Delivered
  <1>3. BlockMod \in Nat /\ BlockMod > 1
    BY TftpAssumption DEF TftpAssumption
  <1>4. /\ expected_block' \in 0 .. BlockMod - 1 /\ block_no' \in 0 .. BlockMod - 1
        /\ expected' \in Nat \X Nat /\ recv_len' \in Nat /\ surplus' \in Nat
    <2>1. expected_block \in Nat /\ surplus \in Nat
      BY <1>1 DEF IInv, TypeOK
    <2>2. (expected_block + 1) % BlockMod \in 0 .. BlockMod - 1
      BY <1>3, <2>1
    <2> QED
      BY <1>1, <1>2, <2>1, <2>2
  <1>5. CASE Exit("file") /\ UNCHANGED <<file, num_resends, acks>>
    <2>1. TypeOK'
      BY <1>2, <1>4, <1>5 DEF IInv, TypeOK, Exit
    <2>2. ClientOK'
      BY <1>1, <1>5 DEF ClientOK, Exit
    <2> QED
      BY <1>2, <1>5, <2>1, <2>2 DEF IInv, WrittenInOrder, AckedIsWritten, ServersOK
  <1>6. CASE /\ file' = Append(file, [from |-> m.from, idx |-> m.idx])
             /\ num_resends' = 0
             /\ SendAck(expected', m.block, m.len)
    <2>1. /\ file \in Seq([from : Nat \X Nat, idx : Nat])
          /\ [from |-> m.from, idx |-> m.idx] \in [from : Nat \X Nat, idx : Nat]
      BY <1>1 DEF IInv, TypeOK
    <2>2. /\ file' \in Seq([from : Nat \X Nat, idx : Nat]) /\ file' # <<>>
          /\ Len(file') = n + 1
          /\ \A k \in 1 .. n : file'[k] = file[k]
          /\ file'[n + 1] = [from |-> m.from, idx |-> n + 1]
      BY <1>1, <1>6, <2>1, AppendProperties
    <2>3. file'[1].from = m.from /\ (file # <<>> => file'[1] = file[1])
      <3>1. CASE file = <<>>
        BY <3>1, <1>1, <2>2
      <3>2. CASE file # <<>>
        <4>1. 1 \in 1 .. n
          BY <3>2, <1>1
        <4>2. file'[1] = file[1]
          BY <4>1, <2>2
        <4> QED
          BY <3>2, <4>2, <1>1
      <3> QED
        BY <3>1, <3>2
    <2>4. WrittenInOrder'
      <3> SUFFICES ASSUME NEW k \in 1 .. n + 1
                   PROVE  file'[k] = [from |-> file'[1].from, idx |-> k]
        BY <2>2 DEF WrittenInOrder
      <3>1. CASE k = n + 1
        BY <3>1, <2>2, <2>3
      <3>2. CASE k \in 1 .. n
        <4>1. file[k] = [from |-> file[1].from, idx |-> k] /\ file # <<>>
          BY <3>2, <1>1 DEF IInv, WrittenInOrder
        <4> QED
          BY <4>1, <3>2, <2>2, <2>3
      <3> QED
        BY <1>1, <3>1, <3>2
    <2>5. ASSUME NEW a \in acks, a.to \in Endpoints
          PROVE  \E k \in 1 .. Len(file') : file'[k].from = a.to /\ k % BlockMod = a.block
      <3>1. PICK k \in 1 .. n : file[k].from = a.to /\ k % BlockMod = a.block
        BY <2>5 DEF IInv, AckedIsWritten
      <3>2. k \in 1 .. Len(file') /\ file'[k] = file[k]
        BY <1>1, <2>2
      <3> QED
        BY <3>1, <3>2
    <2>6. \E k \in 1 .. Len(file') : file'[k].from = m.from /\ k % BlockMod = m.block
      <3>1. n + 1 \in 1 .. Len(file') /\ file'[n + 1].from = m.from
        BY <1>1, <2>2
      <3>2. m.block \in Nat /\ m.block < BlockMod
        BY <1>1, <1>3
      <3>3. (n + 1) % BlockMod = m.block
        BY <1>1, <1>3, <3>2, SmallRemainder
      <3> QED
        BY <3>1, <3>3
    <2>7. SendAck(m.from, m.block, m.len) /\ m.block \in 0 .. BlockMod - 1
      BY <1>1, <1>3, <1>6
    <2>8. /\ AckedIsWritten'
          /\ acks' \subseteq [to : Nat \X Nat, block : 0 .. BlockMod - 1]
          /\ pc' \in {"wait", "ended", "exited"}
          /\ error' \in {"none", "send", "server", "file", "resends"}
          /\ (pc' = "wait" => ~IsLast(m.len))
      BY <1>1, <2>5, <2>6, <2>7, AckKeepsWritten DEF IInv
    <2>9. TypeOK'
      BY <1>2, <1>4, <1>6, <2>2, <2>8 DEF IInv, TypeOK
    <2>10. ASSUME pc' = "wait" PROVE expected_block' = Len(file') + 1
      <3>1. /\ m.block <= Blocks[m.from[1]] /\ Blocks[m.from[1]] \in Nat
            /\ Blocks[m.from[1]] < BlockMod
            /\ m.len = IF m.block = Blocks[m.from[1]]
                       THEN MIN_DATA_PACK_SIZE ELSE FULL_PACKET_SIZE
        BY NewBlockIsNext
      <3>2. m.block # Blocks[m.from[1]]
        BY <2>8, <2>10, <3>1
           DEF IsLast, FULL_PACKET_SIZE, MIN_DATA_PACK_SIZE
      <3>3. expected_block + 1 \in Nat /\ expected_block + 1 < BlockMod
        BY <1>1, <1>3, <3>1, <3>2
      <3>4. expected_block' = expected_block + 1
        BY <1>2, <1>3, <3>3, SmallRemainder
      <3> QED
        BY <1>1, <2>2, <3>4
    <2>11. ClientOK'
      BY <1>1, <1>2, <2>2, <2>3, <2>8, <2>10 DEF ClientOK
    <2>12. ServersOK'
      <3> SUFFICES ASSUME NEW e \in Endpoints, current[e] > 1
                   PROVE  file'[1].from = e /\ current[e] <= Len(file') + 1
        BY <1>2, <2>2 DEF IInv, ServersOK
      <3>1. file # <<>> /\ file[1].from = e /\ current[e] <= n + 1 /\ current[e] \in Nat
        BY DEF IInv, ServersOK, TypeOK
      <3> QED
        BY <1>1, <2>2, <2>3, <3>1
    <2> QED
      BY <2>4, <2>8, <2>9, <2>11, <2>12 DEF IInv
  <1> QED
    BY <1>5, <1>6 DEF NewBlock

\* No step of the client, a server or the network breaks the invariant.
LEMMA StepKeeps ==
    ASSUME IInv, NoWrap, [Next]_vars
    PROVE  IInv'
  <1>1. CASE Start
    BY <1>1, StartKeeps
  <1>2. ASSUME NEW m \in Sent, Receive(m) PROVE IInv'
    BY <1>2, IgnorePacketKeeps, ServerErrorKeeps, IgnoreBlockKeeps,
       RepeatedBlockKeeps, NewBlockKeeps DEF Receive
  <1>3. CASE Timeout
    BY <1>3, TimeoutKeeps
  <1>4. CASE Server
    BY <1>4, AnswerKeeps, AcknowledgedKeeps DEF Server
  <1>5. CASE UNCHANGED vars
    BY <1>5 DEF vars, client, IInv, TypeOK, WrittenInOrder, AckedIsWritten,
                ClientOK, ServersOK
  <1> QED
    BY <1>1, <1>2, <1>3, <1>4, <1>5 DEF Next, Done

LEMMA InitKeeps == Init => IInv
  <1> SUFFICES ASSUME Init PROVE IInv
    OBVIOUS
  <1>1. BlockMod \in Nat /\ BlockMod > 1
    BY TftpAssumption DEF TftpAssumption
  <1>2. file = <<>> /\ Len(file) = 0 /\ acks = {} /\ expected \in Nat \X Nat
    BY DEF Init, Broadcast
  <1>3. TypeOK
    BY <1>1, <1>2 DEF Init, TypeOK
  <1>4. WrittenInOrder /\ AckedIsWritten
    BY <1>2 DEF WrittenInOrder, AckedIsWritten
  <1>5. ClientOK
    BY <1>2 DEF Init, ClientOK
  <1>6. ServersOK
    BY EndpointType DEF Init, ServersOK
  <1> QED
    BY <1>3, <1>4, <1>5, <1>6 DEF IInv

\* The inductive invariant holds for any servers and strangers, as long as no
\* file is so long that its block numbers come round.
THEOREM TransferInvariant ==
    ASSUME NoWrap PROVE Spec => []IInv
  <1>1. IInv /\ [Next]_vars => IInv'
    BY NoWrap, StepKeeps
  <1> QED
    BY <1>1, InitKeeps, PTL DEF Spec

\* A file is written block by block, each once, and from one sender.
THEOREM FileInOrder ==
    ASSUME NoWrap PROVE Spec => []WrittenInOrder
  <1>1. IInv => WrittenInOrder
    BY DEF IInv
  <1> QED
    BY NoWrap, <1>1, TransferInvariant, PTL

\* No block is acknowledged before it is in the file.
THEOREM NothingLost ==
    ASSUME NoWrap PROVE Spec => []AckedIsWritten
  <1>1. IInv => AckedIsWritten
    BY DEF IInv
  <1> QED
    BY NoWrap, <1>1, TransferInvariant, PTL
-----------------------------------------------------------------------------
(* All servers have the same file, and nobody else sends. *)

\* Every packet is then a block of a file, and a full one unless it is the
\* last of the file.
LEMMA AgreedPacket ==
    ASSUME IInv, NoWrap, Agreement, NEW m \in Sent
    PROVE  /\ m.op = "DATA" /\ m.from \in Endpoints
           /\ m.block \in 1 .. current[m.from] /\ current[m.from] \in Nat
           /\ m.block \in Nat /\ m.block # 0
           /\ Blocks[m.from[1]] \in Nat /\ Blocks[m.from[1]] > 0
           /\ m.block # Blocks[m.from[1]] => m.len = FULL_PACKET_SIZE
           /\ m.block = Blocks[m.from[1]] => m.len = MIN_DATA_PACK_SIZE
  <1>1. PICK e \in Endpoints : m \in SentBy(e)
    BY DEF Sent, Agreement
  <1>2. /\ Blocks[e[1]] \in Nat /\ Blocks[e[1]] > 0 /\ e[1] \in Servers
        /\ current[e] \in Nat
    BY EndpointType DEF Agreement, IInv, TypeOK
  <1>3. PICK b \in 1 .. current[e] : m = DataPacket(e, b)
    BY <1>1, <1>2 DEF SentBy
  <1>4. m.op = "DATA" /\ m.from = e /\ m.block = b % BlockMod
    BY <1>3 DEF DataPacket
  <1>5. b <= Blocks[e[1]] /\ Blocks[e[1]] < BlockMod /\ BlockMod \in Nat
    <2>1. current[e] <= Blocks[e[1]]
      BY <1>2 DEF IInv, ServersOK
    <2>2. Blocks[e[1]] < BlockMod /\ BlockMod \in Nat
      BY <1>2, TftpAssumption DEF TftpAssumption, NoWrap
    <2> QED
      BY <1>2, <2>1, <2>2
  <1>6. b % BlockMod = b
    <2>1. b \in Nat /\ b < BlockMod
      BY <1>2, <1>3, <1>5
    <2> QED
      BY <1>5, <2>1, SmallRemainder
  <1>7. m.block = b
    BY <1>4, <1>6
  <1>8. /\ b # Blocks[e[1]] => m.len = FULL_PACKET_SIZE
        /\ b = Blocks[e[1]] => m.len = MIN_DATA_PACK_SIZE
    BY <1>3 DEF DataPacket
  <1> QED
    BY <1>2, <1>3, <1>4, <1>7, <1>8

\* Whoever sent it, a packet that comes while the file is not whole, and is
\* not the next block, is a full one: it is the first block of another server,
\* or one already in the file.
LEMMA OldPacketIsFull ==
    ASSUME IInv, LengthOK, NoWrap, Agreement, NEW m \in Sent,
           pc = "wait", file # <<>>,
           m.from = expected => m.block # Len(file) + 1
    PROVE  m.len = FULL_PACKET_SIZE
  <1>1. /\ m.from \in Endpoints /\ m.block \in 1 .. current[m.from]
        /\ current[m.from] \in Nat /\ m.block \in Nat
        /\ (m.block # Blocks[m.from[1]] => m.len = FULL_PACKET_SIZE)
    BY AgreedPacket
  <1>2. /\ Len(file) \in Nat /\ Len(file) > 0 /\ expected = file[1].from
        /\ expected \in Endpoints /\ current[expected] <= Len(file) + 1
    BY WaitingClient
  <1>3. Blocks[m.from[1]] = Blocks[expected[1]] /\ Blocks[expected[1]] \in Nat
    BY <1>1, <1>2, EndpointType DEF Agreement
  <1>4. Len(file) < Blocks[expected[1]]
    BY <1>2 DEF LengthOK
  <1>5. CASE m.from = expected
    <2>1. m.block <= Len(file)
      BY <1>1, <1>2, <1>5
    <2> QED
      BY <1>1, <1>2, <1>3, <1>4, <2>1
  <1>6. CASE m.from # expected
    <2>1. current[m.from] <= 1
      BY <1>1, <1>2, <1>6 DEF IInv, ServersOK
    <2>2. m.block = 1
      BY <1>1, <2>1
    <2> QED
      BY <1>1, <1>2, <1>3, <1>4, <2>2
  <1> QED
    BY <1>5, <1>6

\* A full packet does not end the transfer.
LEMMA FullIsNotLast == ~IsLast(FULL_PACKET_SIZE)
  BY DEF IsLast, FULL_PACKET_SIZE

LEMMA ReceiveKeepsLength ==
    ASSUME IInv, LengthOK, NoWrap, Agreement, NEW m \in Sent, Receive(m)
    PROVE  LengthOK'
  <1>1. pc = "wait" /\ recv_len' = m.len
    BY DEF Receive, IgnorePacket, ServerError, IgnoreBlock, RepeatedBlock,
           NewBlock, Relevant, Delivered
  <1>2. m.op = "DATA" /\ m.block # 0
    BY AgreedPacket
  <1>3. Len(file) \in Nat /\ expected_block = Len(file) + 1 /\ (file = <<>> <=> Len(file) = 0)
        /\ (file # <<>> => expected_block > 1)
    BY <1>1, WaitingClient
  <1>4. CASE IgnorePacket(m)
    <2>1. UNCHANGED <<pc, file>>
      BY <1>4 DEF IgnorePacket
    <2>2. ASSUME file # <<>> PROVE m.len = FULL_PACKET_SIZE
      <3>1. CASE m.from = expected
        <4>1. m.len < MIN_DATA_PACK_SIZE
          BY <1>2, <1>4, <3>1 DEF IgnorePacket, Foreign
        <4> QED
          BY <4>1, AgreedPacket DEF MIN_DATA_PACK_SIZE, FULL_PACKET_SIZE
      <3>2. CASE m.from # expected
        BY <1>1, <2>2, <3>2, OldPacketIsFull
      <3> QED
        BY <3>1, <3>2
    <2> QED
      BY <1>1, <2>1, <2>2 DEF LengthOK
  <1>5. CASE ServerError(m)
    BY <1>2, <1>5 DEF ServerError
  <1>6. CASE IgnoreBlock(m)
    <2>1. UNCHANGED <<pc, file>> /\ m.block # Len(file) + 1
      BY <1>3, <1>6 DEF IgnoreBlock, IsExpected
    <2> QED
      BY <1>1, <2>1, OldPacketIsFull DEF LengthOK
  <1>7. CASE RepeatedBlock(m)
    <2>1. UNCHANGED file /\ m.block = Len(file) /\ file # <<>>
      BY <1>2, <1>3, <1>7 DEF RepeatedBlock
    <2>2. m.len = FULL_PACKET_SIZE
      BY <1>1, <1>3, <2>1, OldPacketIsFull
    <2>3. pc' # "ended"
      BY <1>7, <2>2, FullIsNotLast DEF RepeatedBlock, SendAck, Exit
    <2> QED
      BY <1>1, <2>1, <2>2, <2>3 DEF LengthOK
  <1>8. CASE NewBlock(m)
    <2>1. /\ m.block = Len(file) + 1 /\ m.from \in Endpoints
          /\ m.block <= Blocks[m.from[1]] /\ Blocks[m.from[1]] \in Nat
          /\ m.len = IF m.block = Blocks[m.from[1]]
                     THEN MIN_DATA_PACK_SIZE ELSE FULL_PACKET_SIZE
          /\ expected' = m.from
      BY <1>8, NewBlockIsNext
    <2>2. CASE Exit("file")
      BY <2>2 DEF LengthOK, Exit
    <2>3. CASE file' = Append(file, [from |-> m.from, idx |-> m.idx])
               /\ SendAck(expected', m.block, m.len)
      <3>1. Len(file') = Len(file) + 1 /\ file' # <<>>
        <4>1. [from |-> m.from, idx |-> m.idx] \in [from : Nat \X Nat, idx : Nat]
          BY <1>8, <1>3, NewBlockIsNext
        <4>2. file \in Seq([from : Nat \X Nat, idx : Nat])
          BY DEF IInv, TypeOK
        <4> QED
          BY <2>3, <4>1, <4>2, AppendProperties
      <3>2. IInv'
        BY <1>8, NewBlockKeeps
      <3>3. file'[1].from = m.from
        BY <2>1, <3>1, <3>2 DEF IInv, ClientOK
      <3>4. pc' = "wait" => ~IsLast(m.len)
        BY <2>3 DEF SendAck, Exit
      <3>5. pc' = "ended" => IsLast(m.len)
        BY <2>3 DEF SendAck, Exit
      <3>6. IsLast(m.len) <=> m.block = Blocks[m.from[1]]
        BY <2>1 DEF IsLast, FULL_PACKET_SIZE, MIN_DATA_PACK_SIZE
      <3> QED
        BY <1>1, <1>3, <2>1, <3>1, <3>3, <3>4, <3>5, <3>6 DEF LengthOK
    <2> QED
      BY <1>8, <2>2, <2>3 DEF NewBlock
  <1> QED
    BY <1>4, <1>5, <1>6, <1>7, <1>8 DEF Receive

LEMMA LengthStep ==
    ASSUME IInv, LengthOK, NoWrap, Agreement, [Next]_vars
    PROVE  LengthOK'
  <1>1. CASE Start
    BY <1>1 DEF Start, SendRequest, Exit, LengthOK, IInv, ClientOK
  <1>2. CASE Timeout
    <2>1. pc = "wait" /\ UNCHANGED <<file, recv_len>>
      BY <1>2 DEF Timeout
    <2>2. file = <<>> <=> expected_block = 1
      BY <2>1, WaitingClient
    <2>3. pc' # "ended"
      BY <1>2, <2>1, <2>2, FullIsNotLast
         DEF Timeout, SendRequest, SendAck, Exit, LengthOK
    <2> QED
      BY <2>1, <2>3 DEF LengthOK
  <1>3. CASE Server
    BY <1>3 DEF Server, Answer, Acknowledged, client, LengthOK
  <1>4. CASE UNCHANGED vars
    BY <1>4 DEF vars, client, LengthOK
  <1> QED
    BY <1>1, <1>2, <1>3, <1>4, ReceiveKeepsLength DEF Next, Done

\* The packet received last tells the truth about the end of the file.
THEOREM LengthInvariant ==
    ASSUME NoWrap, Agreement PROVE Spec => []LengthOK
  <1>1. Init => LengthOK
    BY DEF Init, LengthOK
  <1>2. IInv /\ LengthOK /\ [Next]_vars => LengthOK'
    BY NoWrap, Agreement, LengthStep
  <1> QED
    BY NoWrap, <1>1, <1>2, TransferInvariant, PTL DEF Spec

\* A step that leaves the file alone is one of FileTransfer, or none.
LEMMA QuietStep ==
    ASSUME IInv, IInv', LengthOK', UNCHANGED file, pc \in {"start", "wait"}
    PROVE  [Transfer!Proceed]_(Transfer!vars)
  <1>1. pc' = "ended" => Transfer!Complete(file')
    <2> SUFFICES ASSUME pc' = "ended" PROVE Transfer!Complete(file')
      OBVIOUS
    <2>1. file' # <<>> /\ Len(file') = Blocks[file'[1].from[1]]
      BY DEF LengthOK
    <2>2. file'[1].from \in Endpoints
      BY <2>1 DEF IInv, ClientOK
    <2> QED
      BY <2>1, <2>2 DEF Transfer!Complete
  <1>2. pc' \in {"start", "wait", "ended", "exited"}
    BY DEF IInv, TypeOK
  <1> QED
    BY <1>1, <1>2 DEF Transfer!Proceed

\* A new block is the next of its sender.
LEMMA NewBlockStep ==
    ASSUME IInv, IInv', LengthOK', NoWrap, NEW m \in Sent, NewBlock(m)
    PROVE  [Transfer!Proceed]_(Transfer!vars)
  <1>1. pc = "wait"
    BY DEF NewBlock, Relevant, Delivered
  <1>2. CASE UNCHANGED file
    BY <1>1, <1>2, QuietStep
  <1>3. CASE file' = Append(file, [from |-> m.from, idx |-> m.idx])
    <2>1. /\ Len(file) \in Nat /\ m.block = Len(file) + 1 /\ m.idx = Len(file) + 1
          /\ m.from \in Endpoints /\ (file # <<>> => m.from = file[1].from)
          /\ m.block <= Blocks[m.from[1]] /\ Blocks[m.from[1]] \in Nat
      BY NewBlockIsNext
    <2>2. Transfer!NextBlock(m.from)
      BY <1>3, <2>1 DEF Transfer!NextBlock
    <2>3. pc' = "ended" => Transfer!Complete(file')
      <3> SUFFICES ASSUME pc' = "ended" PROVE Transfer!Complete(file')
        OBVIOUS
      <3>1. file' # <<>> /\ Len(file') = Blocks[file'[1].from[1]]
        BY DEF LengthOK
      <3>2. file'[1].from \in Endpoints
        BY <3>1 DEF IInv, ClientOK
      <3> QED
        BY <3>1, <3>2 DEF Transfer!Complete
    <2>4. pc' \in {"start", "wait", "ended", "exited"}
      BY DEF IInv, TypeOK
    <2> QED
      BY <1>1, <2>1, <2>2, <2>3, <2>4 DEF Transfer!Proceed
  <1> QED
    BY <1>2, <1>3 DEF NewBlock

LEMMA StepImplements ==
    ASSUME IInv, IInv', LengthOK', NoWrap, [Next]_vars
    PROVE  [Transfer!Proceed]_(Transfer!vars)
  <1>1. CASE Start
    BY <1>1, QuietStep DEF Start
  <1>2. ASSUME NEW m \in Sent, Receive(m) PROVE [Transfer!Proceed]_(Transfer!vars)
    <2>1. CASE NewBlock(m)
      BY <2>1, NewBlockStep
    <2>2. CASE ~NewBlock(m)
      <3>1. pc = "wait" /\ UNCHANGED file
        BY <1>2, <2>2 DEF Receive, IgnorePacket, ServerError, IgnoreBlock,
                          RepeatedBlock, Relevant, Delivered
      <3> QED
        BY <3>1, QuietStep
    <2> QED
      BY <2>1, <2>2
  <1>3. CASE Timeout
    BY <1>3, QuietStep DEF Timeout
  <1>4. CASE Server \/ UNCHANGED vars
    <2>1. UNCHANGED <<pc, file>>
      BY <1>4 DEF Server, Answer, Acknowledged, vars, client
    <2> QED
      BY <2>1 DEF Transfer!vars
  <1> QED
    BY <1>1, <1>2, <1>3, <1>4 DEF Next, Done

\* The client implements FileTransfer: if it says GET_OK, it has written the
\* whole file of one server, whatever the network did.
THEOREM TransferImplemented ==
    ASSUME NoWrap, Agreement PROVE Spec => ImplementsTransfer
  <1>1. Init => Transfer!Init
    BY DEF Init, Transfer!Init
  <1>2. IInv /\ IInv' /\ LengthOK' /\ [Next]_vars => [Transfer!Proceed]_(Transfer!vars)
    BY NoWrap, StepImplements
  <1> QED
    BY NoWrap, Agreement, <1>1, <1>2, TransferInvariant, LengthInvariant, PTL
       DEF Spec, ImplementsTransfer, Transfer!Spec
=============================================================================

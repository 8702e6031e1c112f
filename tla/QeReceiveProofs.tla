-------------------------- MODULE QeReceiveProofs --------------------------
(***************************************************************************)
(* Proofs about QeReceive for every value of its constants, on a TCP or SCK *)
(* channel (~Udp): on a UDP channel they do not hold.                       *)
(***************************************************************************)
EXTENDS QeReceive, SequenceTheorems, TLAPS

\* A function on 1 .. n is a sequence of length n.
LEMMA FunctionIsSequence ==
    ASSUME NEW S, NEW n \in Nat, NEW f \in [1 .. n -> S]
    PROVE  f \in Seq(S) /\ Len(f) = n
<1>1. f \in Seq(S) BY SeqDef
<1>2. Len(f) \in Nat /\ DOMAIN f = 1 .. Len(f) BY <1>1, LenProperties
<1>3. DOMAIN f = 1 .. n OBVIOUS
<1>4. \A k : k \in 1 .. Len(f) <=> k \in 1 .. n BY <1>2, <1>3, Zenon
<1>5. Len(f) <= n
  <2>1. CASE Len(f) = 0 BY <2>1
  <2>2. CASE Len(f) # 0
    <3>1. Len(f) \in 1 .. Len(f) BY <2>2, <1>2
    <3> QED BY <3>1, <1>4, <1>2
  <2> QED BY <2>1, <2>2
<1>6. n <= Len(f)
  <2>1. CASE n = 0 BY <2>1, <1>2
  <2>2. CASE n # 0
    <3>1. n \in 1 .. n BY <2>2
    <3> QED BY <3>1, <1>4, <1>2
  <2> QED BY <2>1, <2>2
<1> QED BY <1>1, <1>2, <1>5, <1>6

\* w5300_read_fifo reads exactly the words the chip used for the packet.
LEMMA WordsToReadIsExact ==
    ASSUME NEW n \in Nat
    PROVE  /\ WordsToRead(n) = DataWords(n)
           /\ DataWords(n) \in Nat
           /\ n <= 2 * DataWords(n) /\ 2 * DataWords(n) <= n + 1
BY DEF WordsToRead, DataWords

\* The two bytes of a register make up its value.
LEMMA RegisterBytes ==
    ASSUME NEW r \in Nat
    PROVE  /\ r \div Radix \in Nat
           /\ r % Radix \in Nat
           /\ r = (r \div Radix) * Radix + (r % Radix)
BY ReceiveAssumption DEF ReceiveAssumption

LEMMA RegisterZero == 0 \div Radix = 0 /\ 0 % Radix = 0
BY ReceiveAssumption DEF ReceiveAssumption

\* A packet in the FIFO: its size, and then its data words in order.
LEMMA PacketWords ==
    ASSUME ~Udp, NEW n \in 1 .. MaxPacket, NEW pos \in Nat
    PROVE  /\ Packet(n, pos) \in Seq(WordType)
           /\ Len(Packet(n, pos)) = DataWords(n) + 1
           /\ Packet(n, pos)[1] = Header(n, pos)
           /\ \A k \in 1 .. DataWords(n) :
                 Packet(n, pos)[k + 1] = Data(pos + 2 * (k - 1))
<1> DEFINE W == DataWords(n)
<1> DEFINE P == Packet(n, pos)
<1>1. n \in Nat /\ W \in Nat
  BY WordsToReadIsExact, ReceiveAssumption DEF ReceiveAssumption
<1>2. HeaderWords = 1
  BY DEF HeaderWords
<1>3. P = [k \in 1 .. 1 + W |->
            IF k = 1 THEN Header(n, pos) ELSE Data(pos + 2 * (k - 2))]
  <2>1. P = [k \in 1 .. 1 + W |->
              IF k < 1 THEN Header(AddrWord, pos)
              ELSE IF k = 1 THEN Header(n, pos)
              ELSE Data(pos + 2 * (k - 1 - 1))]
    BY <1>2 DEF Packet
  <2> QED BY <2>1, <1>1
<1> HIDE DEF W, P
<1>4. \A k \in 1 .. 1 + W : P[k] \in WordType
  BY <1>1, <1>3 DEF Header, Data, WordType
<1>5. P \in [1 .. 1 + W -> WordType]
  BY <1>3, <1>4
<1>6. P \in Seq(WordType) /\ Len(P) = W + 1
  <2>1. 1 + W \in Nat BY <1>1
  <2> QED BY <1>5, <1>1, <2>1, FunctionIsSequence
<1>7. P[1] = Header(n, pos) BY <1>1, <1>3
<1>8. \A k \in 1 .. W : P[k + 1] = Data(pos + 2 * (k - 1))
  <2> TAKE k \in 1 .. W
  <2>1. k + 1 \in 1 .. 1 + W /\ k + 1 # 1 /\ (k + 1) - 2 = k - 1 BY <1>1
  <2> QED BY <2>1, <1>3
<1> QED BY <1>6, <1>7, <1>8 DEF W, P

-----------------------------------------------------------------------------
(* The invariant holds at the start and is kept by every step. *)

LEMMA InitIInv == Init => IInv
<1> SUFFICES ASSUME Init PROVE IInv OBVIOUS
<1> USE DEF Init
<1>1. <<>> \in Seq(WordType) /\ <<>> \in Seq(Int) /\ Len(<<>>) = 0
  BY EmptySeq
<1>2. TypeOK
  <2>1. result \in [op : Ops, err : {"OK", "NC", "EF", "BO"}, n : Int]
    BY DEF Ops
  <2>2. lf \in BOOLEAN /\ recv \in BOOLEAN OBVIOUS
  <2> QED BY <1>1, <2>1, <2>2 DEF TypeOK, Ops
<1>3. InOrder /\ FifoOK BY <1>1 DEF InOrder, FifoOK, AllPackets
<1>4. CursorInBounds BY ReceiveAssumption DEF CursorInBounds, ReceiveAssumption
<1>5. HeadOK BY <1>1 DEF HeadOK
<1>6. BufferOK BY DEF BufferOK
<1>7. PhaseOK BY <1>1 DEF PhaseOK
<1>8. CallOK BY DEF CallOK
<1> QED BY <1>2, <1>3, <1>4, <1>5, <1>6, <1>7, <1>8 DEF IInv

LEMMA StutterIInv == IInv /\ UNCHANGED vars => IInv'
BY DEF IInv, TypeOK, InOrder, CursorInBounds, FifoOK, HeadOK, BufferOK,
       PhaseOK, CallOK, Finished, vars, chip, sock, frame, Ops

\* A packet in the FIFO holds bytes that the program has not been given.
LEMMA HeadBeforeEnd ==
    ASSUME IInv, fifo # <<>>
    PROVE  Len(out) < arrived
<1> USE DEF IInv, TypeOK
<1>1. Len(out) \in Nat BY LenProperties
<1>2. Len(fifo) \in Nat \ {0} BY EmptySeq
<1>3. fifo[1] \in WordType BY <1>2, ElementOfSeq
<1>4. /\ fifo[1].hdr /\ fifo[1].pos = Len(out) + tcp_pack_remain
      /\ PacketAt(fifo, 1, arrived)
  BY <1>2 DEF HeadOK, FifoOK, AllPackets
<1>5. /\ fifo[1].val \in 1 .. MaxPacket
      /\ fifo[1].pos + fifo[1].val <= arrived
  BY <1>4 DEF PacketAt
<1> QED BY <1>1, <1>3, <1>4, <1>5 DEF WordType

\* What can be said of the byte at recv_buf_ptr: it is the next one.
LEMMA CurrentByteIsNext ==
    ASSUME IInv, tcp_pack_remain > 0
    PROVE  /\ CurrentByte = Len(out)
           /\ Len(out) \in Nat
           /\ Len(out) < arrived
<1> USE DEF IInv, TypeOK
<1>1. Len(out) \in Nat BY LenProperties
<1>2. recv_buf_ptr \in recv_buf_ptr .. tcp_pack_size - 1
  BY DEF CursorInBounds
<1>3. /\ recv_buf_ptr \div 2 < Len(recv_buf)
      /\ ~recv_buf[(recv_buf_ptr \div 2) + 1].hdr
      /\ recv_buf[(recv_buf_ptr \div 2) + 1].pos + (recv_buf_ptr % 2) = Len(out)
  <2>1. BufferOK OBVIOUS
  <2>2. /\ recv_buf_ptr \div 2 < Len(recv_buf)
        /\ ~recv_buf[(recv_buf_ptr \div 2) + 1].hdr
        /\ recv_buf[(recv_buf_ptr \div 2) + 1].pos + (recv_buf_ptr % 2)
             = Len(out) + (recv_buf_ptr - recv_buf_ptr)
    BY <1>2, <2>1, Zenon DEF BufferOK
  <2>3. Len(out) + (recv_buf_ptr - recv_buf_ptr) = Len(out) BY <1>1
  <2> QED BY <2>2, <2>3, Zenon
<1>4. Len(recv_buf) \in Nat BY LenProperties
<1>5. CurrentByte = Len(out) BY <1>3, <1>4 DEF CurrentByte
<1>6. Len(out) < arrived
  <2>1. CASE fifo = <<>> BY <1>1, <2>1 DEF HeadOK
  <2>2. CASE fifo # <<>> BY <2>2, HeadBeforeEnd
  <2> QED BY <2>1, <2>2
<1> QED BY <1>1, <1>5, <1>6

LEMMA ReturnIInv ==
    ASSUME IInv, NEW err \in {"OK", "NC", "EF", "BO"}, Return(err),
           UNCHANGED <<chip, sock, out>>, ~recv
    PROVE  IInv'
<1> USE DEF Return, chip, sock
<1>1. TypeOK'
  <2>1. result' \in [op : Ops, err : {"OK", "NC", "EF", "BO"}, n : Int]
    BY DEF IInv, TypeOK
  <2>2. lf' \in BOOLEAN OBVIOUS
  <2> QED BY <2>1, <2>2 DEF IInv, TypeOK, Ops
<1>2. InOrder' /\ CursorInBounds' /\ FifoOK' /\ HeadOK' /\ BufferOK'
  BY DEF IInv, InOrder, CursorInBounds, FifoOK, HeadOK, BufferOK
<1>3. PhaseOK' BY DEF IInv, PhaseOK
<1>4. CallOK' BY DEF CallOK, Finished
<1> QED BY <1>1, <1>2, <1>3, <1>4 DEF IInv

LEMMA CallIInv ==
    ASSUME IInv, NEW o \in Ops \ {"none"}, NEW len \in Nat, Call(o, len),
           o = "fbyte" => len = 1, o = "pend" => len = 0
    PROVE  IInv'
<1> USE DEF Call, chip, sock
<1>1. TypeOK' BY DEF IInv, TypeOK, Ops
<1>2. InOrder' /\ CursorInBounds' /\ FifoOK' /\ HeadOK' /\ BufferOK'
  BY DEF IInv, InOrder, CursorInBounds, FifoOK, HeadOK, BufferOK
<1>3. PhaseOK' BY DEF IInv, PhaseOK
<1>4. CallOK' BY DEF CallOK, Finished
<1> QED BY <1>1, <1>2, <1>3, <1>4 DEF IInv

LEMMA CloseIInv ==
    ASSUME IInv, PeerFin \/ PeerReset
    PROVE  IInv'
<1> USE DEF PeerFin, PeerReset, sock, frame
<1>1. TypeOK' BY DEF IInv, TypeOK, Ops
<1>2. InOrder' /\ CursorInBounds' /\ FifoOK' /\ HeadOK' /\ BufferOK'
  BY DEF IInv, InOrder, CursorInBounds, FifoOK, HeadOK, BufferOK
<1>3. PhaseOK' /\ CallOK' BY DEF IInv, PhaseOK, CallOK, Finished
<1> QED BY <1>1, <1>2, <1>3 DEF IInv

LEMMA RecvCommandIInv ==
    ASSUME IInv, RecvCommand
    PROVE  IInv'
<1> USE DEF RecvCommand, sock, frame
<1>0. Len(fifo) \in Nat BY LenProperties DEF IInv, TypeOK
<1>1. TypeOK'
  <2>1. rsr' \in Nat BY <1>0
  <2>2. recv' \in BOOLEAN OBVIOUS
  <2> QED BY <2>1, <2>2 DEF IInv, TypeOK, Ops
<1>2. InOrder' /\ CursorInBounds' /\ FifoOK' /\ HeadOK' /\ BufferOK'
  BY DEF IInv, InOrder, CursorInBounds, FifoOK, HeadOK, BufferOK
<1>3. PhaseOK' BY DEF IInv, PhaseOK
<1>4. CallOK' BY DEF IInv, CallOK, Finished
<1> QED BY <1>1, <1>2, <1>3, <1>4 DEF IInv

-----------------------------------------------------------------------------
(* The FIFO: adding a packet at its end and taking one from its front. *)

LEMMA PacketAdded ==
    ASSUME NEW f \in Seq(WordType), NEW P \in Seq(WordType), NEW a \in Nat,
           NEW n \in 1 .. MaxPacket, NEW W \in Nat, W = DataWords(n),
           Len(P) = W + 1, P[1] = Header(n, a),
           \A k \in 1 .. W : P[k + 1] = Data(a + 2 * (k - 1)),
           AllPackets(f, a)
    PROVE  AllPackets(f \o P, a + n)
<1>1. PICK L \in Nat : L = Len(f) BY LenProperties
<1>2. n \in Nat \ {0} BY ReceiveAssumption DEF ReceiveAssumption
<1>3. PICK g : g = f \o P OBVIOUS
<1>4. /\ Len(g) = L + (W + 1)
      /\ \A i \in 1 .. L + (W + 1) : g[i] = IF i <= L THEN f[i] ELSE P[i - L]
  <2>1. /\ Len(f \o P) = Len(f) + Len(P)
        /\ \A i \in 1 .. Len(f) + Len(P) :
              (f \o P)[i] = IF i <= Len(f) THEN f[i] ELSE P[i - Len(f)]
    BY ConcatProperties, Zenon
  <2>2. Len(g) = Len(f) + Len(P) BY <2>1, <1>3, Zenon
  <2>3. \A i \in 1 .. Len(f) + Len(P) :
           g[i] = IF i <= Len(f) THEN f[i] ELSE P[i - Len(f)]
    BY <2>1, <1>3, Zenon
  <2> QED BY <2>2, <2>3, <1>1
<1>5. \A i \in 1 .. L : g[i] = f[i]
  BY <1>4
<1>6. \A i \in 1 .. W + 1 : g[L + i] = P[i]
  <2> TAKE i \in 1 .. W + 1
  <2>1. L + i \in 1 .. L + (W + 1) /\ ~(L + i <= L) /\ (L + i) - L = i
    OBVIOUS
  <2> QED BY <2>1, <1>4
<1>7. g[L + 1].hdr /\ g[L + 1].val = n /\ g[L + 1].pos = a
  <2>1. 1 \in 1 .. W + 1 OBVIOUS
  <2>2. g[L + 1] = Header(n, a) BY <2>1, <1>6
  <2> QED BY <2>2 DEF Header
<1>8. \A k \in 1 .. W : ~g[L + 1 + k].hdr /\ g[L + 1 + k].pos = a + 2 * (k - 1)
  <2> TAKE k \in 1 .. W
  <2>1. k + 1 \in 1 .. W + 1 /\ L + (k + 1) = L + 1 + k OBVIOUS
  <2>2. g[L + 1 + k] = P[k + 1] BY <2>1, <1>6
  <2>3. g[L + 1 + k] = Data(a + 2 * (k - 1)) BY <2>2
  <2> QED BY <2>3 DEF Data
<1>9. SUFFICES ASSUME NEW j \in 1 .. Len(g), g[j].hdr
               PROVE  PacketAt(g, j, a + n)
  BY <1>3 DEF AllPackets
<1>10. j \in Nat BY <1>4
<1>11. CASE j <= L
  <2>1. j \in 1 .. L /\ g[j] = f[j] BY <1>11, <1>5, <1>4
  <2>2. f[j] \in WordType BY <2>1, <1>1, ElementOfSeq
  <2>3. PICK v, p : v = f[j].val /\ p = f[j].pos OBVIOUS
  <2>4. PICK D : D = DataWords(v) OBVIOUS
  <2>5. PacketAt(f, j, a) BY <2>1, <1>9, <1>1 DEF AllPackets
  <2>6. /\ v \in 1 .. MaxPacket /\ p + v <= a
        /\ j + D <= L
        /\ \A k \in 1 .. D : ~f[j + k].hdr /\ f[j + k].pos = p + 2 * (k - 1)
        /\ IF j + D < L THEN f[j + D + 1].hdr /\ f[j + D + 1].pos = p + v
           ELSE p + v = a
    BY <2>5, <2>3, <2>4, <1>1 DEF PacketAt
  <2>7. v \in Nat /\ p \in Nat /\ D \in Nat /\ j + D <= L /\ j >= 1
    <3>1. v \in Nat /\ p \in Nat BY <2>2, <2>3 DEF WordType
    <3>2. D \in Nat BY <2>4, <3>1, WordsToReadIsExact
    <3>3. j + D <= L BY <2>6, Zenon
    <3>4. j >= 1 BY <2>1
    <3> QED BY <3>1, <3>2, <3>3, <3>4
  <2>8. p + v <= a + n BY <2>6, <2>7, <1>2
  <2>9. j + D < Len(g) BY <2>6, <2>7, <1>4
  <2>10. \A k \in 1 .. D : ~g[j + k].hdr /\ g[j + k].pos = p + 2 * (k - 1)
    <3> TAKE k \in 1 .. D
    <3>1. j + k \in 1 .. L BY <1>10, <2>7
    <3> QED BY <3>1, <2>6, <1>5
  <2>11. g[j + D + 1].hdr /\ g[j + D + 1].pos = p + v
    <3>1. CASE j + D < L
      <4>1. j + D + 1 \in 1 .. L BY <3>1, <2>1, <2>7
      <4> QED BY <4>1, <3>1, <2>6, <1>5
    <3>2. CASE ~(j + D < L)
      <4>1. j + D + 1 = L + 1 BY <3>2, <1>10, <2>7
      <4> QED BY <4>1, <3>2, <2>6, <1>7
    <3> QED BY <3>1, <3>2
  <2> QED BY <2>1, <2>3, <2>4, <2>6, <2>8, <2>9, <2>10, <2>11 DEF PacketAt
<1>12. CASE j = L + 1
  <2>1. j + W = Len(g) BY <1>12, <1>4
  <2>2. g[j].val = n /\ g[j].pos = a BY <1>12, <1>7
  <2>3. \A k \in 1 .. W : ~g[j + k].hdr /\ g[j + k].pos = a + 2 * (k - 1)
    BY <1>12, <1>8
  <2> QED BY <2>1, <2>2, <2>3, <1>2 DEF PacketAt
<1>13. CASE j > L + 1
  <2>1. PICK k \in 1 .. W : j = L + 1 + k
    <3>1. j - (L + 1) \in 1 .. W /\ j = L + 1 + (j - (L + 1)) BY <1>13, <1>10, <1>4
    <3> QED BY <3>1
  <2> QED BY <2>1, <1>8, <1>9
<1> QED BY <1>10, <1>11, <1>12, <1>13

LEMMA PacketTaken ==
    ASSUME NEW f \in Seq(WordType), NEW a \in Nat, NEW m \in Nat,
           m <= Len(f), AllPackets(f, a)
    PROVE  /\ SubSeq(f, m + 1, Len(f)) \in Seq(WordType)
           /\ Len(SubSeq(f, m + 1, Len(f))) = Len(f) - m
           /\ \A i \in 1 .. Len(f) - m : SubSeq(f, m + 1, Len(f))[i] = f[m + i]
           /\ AllPackets(SubSeq(f, m + 1, Len(f)), a)
<1>1. PICK L \in Nat : L = Len(f) BY LenProperties
<1>2. PICK g : g = SubSeq(f, m + 1, L) OBVIOUS
<1>3. g \in Seq(WordType) /\ Len(g) = L - m
  <2>1. \A i \in m + 1 .. L : f[i] \in WordType
    <3> TAKE i \in m + 1 .. L
    <3>1. i \in 1 .. Len(f) BY <1>1
    <3> QED BY <3>1, ElementOfSeq
  <2>2. m + 1 \in Int /\ L \in Int OBVIOUS
  <2>3. /\ g \in Seq(WordType)
        /\ Len(g) = IF m + 1 <= L THEN L - (m + 1) + 1 ELSE 0
    BY <1>2, <2>1, <2>2, SubSeqProperties
  <2> QED BY <2>3, <1>1
<1>4. \A i \in 1 .. L - m : g[i] = f[m + i]
  <2>1. \A i \in m + 1 .. L : f[i] \in WordType
    <3> TAKE i \in m + 1 .. L
    <3>1. i \in 1 .. Len(f) BY <1>1
    <3> QED BY <3>1, ElementOfSeq
  <2>2. m + 1 \in Int /\ L \in Int OBVIOUS
  <2>3. \A i \in 1 .. L - (m + 1) + 1 : g[i] = f[m + 1 + i - 1]
    BY <1>2, <2>1, <2>2, SubSeqProperties
  <2> TAKE i \in 1 .. L - m
  <2>4. i \in 1 .. L - (m + 1) + 1 /\ m + 1 + i - 1 = m + i OBVIOUS
  <2> QED BY <2>3, <2>4
<1>5. AllPackets(g, a)
  <2> SUFFICES ASSUME NEW j \in 1 .. L - m, g[j].hdr PROVE PacketAt(g, j, a)
    BY <1>3 DEF AllPackets
  <2>1. m + j \in 1 .. L /\ g[j] = f[m + j] BY <1>1, <1>4
  <2>2. f[m + j] \in WordType BY <2>1, <1>1, ElementOfSeq
  <2>3. PICK v, p : v = f[m + j].val /\ p = f[m + j].pos OBVIOUS
  <2>4. PICK D : D = DataWords(v) OBVIOUS
  <2>5. PacketAt(f, m + j, a) BY <2>1, <1>1 DEF AllPackets
  <2>6. /\ v \in 1 .. MaxPacket /\ p + v <= a
        /\ m + j + D <= L
        /\ \A k \in 1 .. D : ~f[m + j + k].hdr /\ f[m + j + k].pos = p + 2 * (k - 1)
        /\ IF m + j + D < L THEN f[m + j + D + 1].hdr /\ f[m + j + D + 1].pos = p + v
           ELSE p + v = a
    BY <2>5, <2>3, <2>4, <1>1 DEF PacketAt
  <2>7. v \in Nat /\ p \in Nat /\ D \in Nat
    BY <2>2, <2>3, <2>4, WordsToReadIsExact DEF WordType
  <2>8. \A k \in 1 .. D : ~g[j + k].hdr /\ g[j + k].pos = p + 2 * (k - 1)
    <3> TAKE k \in 1 .. D
    <3>1. j + k \in 1 .. L - m /\ m + (j + k) = m + j + k BY <2>1, <2>6, <2>7
    <3>2. g[j + k] = f[m + j + k] BY <3>1, <1>4
    <3> QED BY <3>2, <2>6
  <2>9. j + D <= Len(g) BY <2>6, <2>7, <1>3
  <2>10. IF j + D < Len(g) THEN g[j + D + 1].hdr /\ g[j + D + 1].pos = p + v
         ELSE p + v = a
    <3>1. CASE j + D < Len(g)
      <4>1. /\ j + D + 1 \in 1 .. L - m
            /\ m + (j + D + 1) = m + j + D + 1
            /\ m + j + D < L
        BY <3>1, <2>7, <1>3
      <4>2. g[j + D + 1] = f[m + j + D + 1] BY <4>1, <1>4
      <4> QED BY <4>1, <4>2, <3>1, <2>6
    <3>2. CASE ~(j + D < Len(g))
      <4>1. ~(m + j + D < L) BY <3>2, <2>7, <1>3
      <4> QED BY <4>1, <3>2, <2>6
    <3> QED BY <3>1, <3>2
  <2> QED BY <2>1, <2>3, <2>4, <2>6, <2>8, <2>9, <2>10 DEF PacketAt
<1> QED BY <1>1, <1>2, <1>3, <1>4, <1>5

-----------------------------------------------------------------------------
(* Every step keeps the invariant. *)

LEMMA ArriveIInv ==
    ASSUME ~Udp, IInv, NEW n \in 1 .. MaxPacket, Arrive(n)
    PROVE  IInv'
<1>1. /\ fifo \in Seq(WordType) /\ Len(fifo) \in Nat /\ arrived \in Nat
      /\ Len(out) \in Nat /\ n \in Nat \ {0} /\ tcp_pack_remain \in Nat
  BY LenProperties, ReceiveAssumption DEF IInv, TypeOK, ReceiveAssumption
<1>2. PICK W \in Nat : W = DataWords(n) BY <1>1, WordsToReadIsExact
<1>3. PICK P \in Seq(WordType) :
         /\ P = Packet(n, arrived) /\ Len(P) = W + 1
         /\ P[1] = Header(n, arrived)
         /\ \A k \in 1 .. W : P[k + 1] = Data(arrived + 2 * (k - 1))
  BY <1>1, <1>2, PacketWords
<1>4. fifo' = fifo \o P /\ rsr' = rsr + 2 * (1 + W) /\ arrived' = arrived + n
  BY <1>2, <1>3 DEF Arrive, HeaderWords
<1>5. /\ fifo' \in Seq(WordType) /\ Len(fifo') = Len(fifo) + (W + 1)
      /\ \A i \in 1 .. Len(fifo) + Len(P) :
            (fifo \o P)[i] = IF i <= Len(fifo) THEN fifo[i] ELSE P[i - Len(fifo)]
  <2>1. /\ fifo \o P \in Seq(WordType)
        /\ Len(fifo \o P) = Len(fifo) + Len(P)
        /\ \A i \in 1 .. Len(fifo) + Len(P) :
            (fifo \o P)[i] = IF i <= Len(fifo) THEN fifo[i] ELSE P[i - Len(fifo)]
    BY <1>1, ConcatProperties, Zenon
  <2>2. fifo' \in Seq(WordType) /\ Len(fifo') = Len(fifo) + Len(P)
    BY <2>1, <1>4, Zenon
  <2> QED BY <2>1, <2>2, <1>3
<1>6. TypeOK'
  <2>1. rsr' \in Nat /\ arrived' \in Nat
    BY <1>1, <1>2, <1>4 DEF IInv, TypeOK
  <2> QED BY <1>5, <2>1 DEF IInv, TypeOK, Ops, Arrive, sock, frame
<1>7. InOrder' /\ CursorInBounds' /\ BufferOK' /\ CallOK'
  BY DEF IInv, InOrder, CursorInBounds, BufferOK, CallOK, Finished, Arrive, sock, frame
<1>8. fifo' # <<>> /\ UNCHANGED <<out, tcp_pack_remain>>
  BY <1>1, <1>2, <1>5, EmptySeq DEF Arrive, sock
<1>9. HeadOK'
  <2>1. CASE fifo = <<>>
    <3>1. Len(fifo) = 0 BY <2>1, EmptySeq
    <3>2. 1 \in 1 .. Len(fifo) + Len(P) /\ ~(1 <= Len(fifo)) /\ 1 - Len(fifo) = 1
      BY <3>1, <1>1, <1>3
    <3>3. fifo'[1] = P[1] BY <3>2, <1>4, <1>5
    <3>4. fifo'[1].hdr /\ fifo'[1].pos = arrived BY <3>3, <1>3 DEF Header
    <3> QED BY <1>8, <2>1, <3>4 DEF IInv, HeadOK
  <2>2. CASE fifo # <<>>
    <3>1. 1 <= Len(fifo) /\ 1 \in 1 .. Len(fifo) + Len(P)
      BY <2>2, <1>1, <1>3, EmptySeq
    <3>2. fifo'[1] = fifo[1] BY <3>1, <1>4, <1>5
    <3> QED BY <1>8, <2>2, <3>2 DEF IInv, HeadOK
  <2> QED BY <2>1, <2>2
<1>10. FifoOK'
  <2>1. AllPackets(fifo, arrived) BY DEF IInv, FifoOK
  <2>2. AllPackets(fifo \o P, arrived + n)
    BY <1>1, <1>2, <1>3, <2>1, PacketAdded
  <2> QED BY <2>2, <1>4 DEF FifoOK
<1>11. PhaseOK'
  <2>1. rsr \in Nat /\ polled \in Nat BY DEF IInv, TypeOK
  <2>2. ~recv' => rsr' = 2 * Len(fifo')
    BY <1>1, <1>2, <1>4, <1>5, <2>1 DEF IInv, PhaseOK, Arrive
  <2>3. rsr' > 0 /\ arrived' > arrived
    BY <1>1, <1>2, <1>4, <2>1
  <2>4. UNCHANGED <<recv, sock, frame, out, polled>> BY DEF Arrive
  <2>5. pc \in {"rsr_lo", "status"} => polled < arrived'
    BY <2>1, <2>3, <1>1, <1>4 DEF IInv, PhaseOK
  <2> QED BY <2>1, <2>2, <2>3, <2>4, <2>5, <1>1, <1>4, <1>8 DEF IInv, PhaseOK, frame, sock
<1> QED BY <1>6, <1>7, <1>9, <1>10, <1>11 DEF IInv

LEMMA ReadRsrHighIInv ==
    ASSUME IInv, ReadRsrHigh
    PROVE  IInv'
<1> USE DEF ReadRsrHigh, chip, sock
<1>1. /\ rsr \in Nat /\ rsr \div Radix \in Nat /\ arrived \in Nat
      /\ rsr = 0 => rsr \div Radix = 0
  BY RegisterBytes, RegisterZero DEF IInv, TypeOK
<1>2. TypeOK' BY <1>1 DEF IInv, TypeOK, Ops
<1>3. InOrder' /\ CursorInBounds' /\ FifoOK' /\ HeadOK' /\ BufferOK'
  BY DEF IInv, InOrder, CursorInBounds, FifoOK, HeadOK, BufferOK
<1>4. PhaseOK' BY <1>1 DEF IInv, PhaseOK
<1>5. CallOK' BY DEF IInv, CallOK, Finished
<1> QED BY <1>2, <1>3, <1>4, <1>5 DEF IInv

\* bytes_available finds something only when there is something.
LEMMA AvailableIsTrue ==
    ASSUME IInv, pc = "rsr_lo"
    PROVE  /\ BytesAvailable \in Nat
           /\ BytesAvailable # 0 => fifo # <<>>
           /\ BytesAvailable = 0 => polled = Len(out) \/ arrived > polled
<1>1. /\ rsr \in Nat /\ rsr_hi \in Nat /\ polled \in Nat /\ arrived \in Nat
      /\ ~recv /\ rsr = 2 * Len(fifo) /\ tcp_pack_remain = 0
      /\ rsr_hi > 0 => rsr > 0
      /\ arrived = polled => rsr_hi = rsr \div Radix
      /\ polled <= arrived
  BY DEF IInv, TypeOK, PhaseOK
<1>2. Len(fifo) \in Nat /\ Len(out) \in Nat BY LenProperties DEF IInv, TypeOK
<1>3. /\ rsr % Radix \in Nat
      /\ rsr = (rsr \div Radix) * Radix + (rsr % Radix)
      /\ rsr = 0 => rsr % Radix = 0
  BY <1>1, RegisterBytes, RegisterZero
<1>4. Radix \in Nat \ {0} BY ReceiveAssumption DEF ReceiveAssumption
<1>5. /\ rsr_hi * Radix \in Nat
      /\ rsr_hi = 0 <=> rsr_hi * Radix = 0
  BY <1>1, <1>4
<1>6. BytesAvailable \in Nat BY <1>3, <1>5 DEF BytesAvailable
<1>7. ASSUME BytesAvailable # 0 PROVE fifo # <<>>
  <2>1. rsr > 0
    <3>1. CASE rsr_hi = 0 BY <3>1, <1>7, <1>1, <1>3, <1>5 DEF BytesAvailable
    <3>2. CASE rsr_hi # 0 BY <3>2, <1>1
    <3> QED BY <3>1, <3>2
  <2> QED BY <2>1, <1>1, <1>2, EmptySeq
<1>8. ASSUME BytesAvailable = 0, ~(arrived > polled) PROVE polled = Len(out)
  <2>1. rsr_hi = 0 /\ rsr % Radix = 0 BY <1>8, <1>3, <1>5 DEF BytesAvailable
  <2>2. rsr_hi = rsr \div Radix BY <1>1, <1>8
  <2>3. rsr = 0 BY <2>1, <2>2, <1>3, <1>4
  <2>4. fifo = <<>> BY <2>3, <1>1, <1>2, EmptySeq DEF IInv, TypeOK
  <2> QED BY <2>4, <1>1, <1>2, <1>8 DEF IInv, HeadOK
<1> QED BY <1>6, <1>7, <1>8

LEMMA ReadRsrLowIInv ==
    ASSUME IInv, ReadRsrLow
    PROVE  IInv'
<1>1. CASE op = "pend"
  <2>1. Return(IF BytesAvailable # 0 THEN "OK" ELSE "NC") BY <1>1 DEF ReadRsrLow
  <2>2. ~recv BY DEF ReadRsrLow, IInv, PhaseOK
  <2>3. UNCHANGED <<chip, sock, out>> BY DEF ReadRsrLow
  <2>4. (IF BytesAvailable # 0 THEN "OK" ELSE "NC") \in {"OK", "NC", "EF", "BO"}
    OBVIOUS
  <2> QED BY <2>1, <2>2, <2>3, <2>4, ReturnIInv
<1>2. CASE op # "pend"
  <2> USE <1>2 DEF ReadRsrLow, chip, sock
  <2>1. TypeOK' BY DEF IInv, TypeOK, Ops
  <2>2. InOrder' /\ CursorInBounds' /\ FifoOK' /\ HeadOK' /\ BufferOK'
    BY DEF IInv, InOrder, CursorInBounds, FifoOK, HeadOK, BufferOK
  <2>3. PhaseOK' BY AvailableIsTrue DEF IInv, PhaseOK
  <2>4. CallOK' BY DEF IInv, CallOK, Finished
  <2> QED BY <2>1, <2>2, <2>3, <2>4 DEF IInv
<1> QED BY <1>1, <1>2

\* get_next_packet takes the first packet, all of it and nothing more.
LEMMA ReadPacketIInv ==
    ASSUME IInv, ReadPacket
    PROVE  IInv'
<1>1. /\ fifo \in Seq(WordType) /\ Len(fifo) \in Nat /\ fifo # <<>>
      /\ arrived \in Nat /\ Len(out) \in Nat /\ tcp_pack_remain = 0
  BY LenProperties DEF IInv, TypeOK, ReadPacket, PhaseOK
<1>2. Len(fifo) >= 1 BY <1>1, EmptySeq
<1>3. fifo[1].hdr /\ fifo[1].pos = Len(out) BY <1>1 DEF IInv, HeadOK
<1>4. PICK size, n : size = fifo[1].val /\ n = DataWords(size) OBVIOUS
<1>5. PacketAt(fifo, 1, arrived)
  BY <1>1, <1>2, <1>3 DEF IInv, FifoOK, AllPackets
<1>6. /\ size \in 1 .. MaxPacket /\ Len(out) + size <= arrived
      /\ 1 + n <= Len(fifo)
      /\ \A k \in 1 .. n : ~fifo[1 + k].hdr /\ fifo[1 + k].pos = Len(out) + 2 * (k - 1)
      /\ IF 1 + n < Len(fifo)
         THEN fifo[1 + n + 1].hdr /\ fifo[1 + n + 1].pos = Len(out) + size
         ELSE Len(out) + size = arrived
  BY <1>5, <1>4, <1>3 DEF PacketAt
<1>7. size \in Nat /\ size > 0 /\ size <= MaxPacket
  BY <1>6, ReceiveAssumption DEF ReceiveAssumption
<1>8. n \in Nat /\ WordsToRead(size) = n /\ size <= 2 * n /\ 2 * n <= size + 1
  BY <1>4, <1>7, WordsToReadIsExact
<1>9. n + 1 <= Len(fifo) BY <1>6, <1>8, <1>1
<1>10. /\ tcp_pack_size' = size /\ tcp_pack_remain' = size
       /\ recv_buf' = [k \in 1 .. n |-> FifoWord(k + 1)]
       /\ fifo' = SubSeq(fifo, n + 2, Len(fifo))
       /\ recv_buf_ptr' = 0 /\ recv' = TRUE /\ pc' = "recv_wait"
       /\ UNCHANGED <<ssr, rsr, arrived, op, buf_len, num_read, lf, rsr_hi,
                      out, result, polled>>
  BY <1>2, <1>4, <1>8 DEF ReadPacket, FifoWord, Rewound
<1>11. \A k \in 1 .. n : FifoWord(k + 1) = fifo[1 + k] /\ fifo[1 + k] \in WordType
  <2> TAKE k \in 1 .. n
  <2>1. k + 1 \in 1 .. Len(fifo) /\ k + 1 = 1 + k BY <1>8, <1>9, <1>1
  <2>2. fifo[k + 1] \in WordType BY <2>1, <1>1, ElementOfSeq
  <2> QED BY <2>1, <2>2 DEF FifoWord
<1>12. recv_buf' \in Seq(WordType) /\ Len(recv_buf') = n
  <2>1. recv_buf' \in [1 .. n -> WordType] BY <1>10, <1>11
  <2> QED BY <2>1, <1>8, FunctionIsSequence
<1>13. /\ fifo' \in Seq(WordType) /\ Len(fifo') = Len(fifo) - (n + 1)
       /\ \A i \in 1 .. Len(fifo) - (n + 1) : fifo'[i] = fifo[n + 1 + i]
       /\ AllPackets(fifo', arrived)
  <2>1. AllPackets(fifo, arrived) BY DEF IInv, FifoOK
  <2>2. n + 1 \in Nat BY <1>8
  <2>3. PICK m \in Nat : m = n + 1 BY <2>2
  <2>4. m + 1 = n + 2 BY <2>3, <1>8
  <2>5. fifo' = SubSeq(fifo, m + 1, Len(fifo)) BY <2>4, <1>10
  <2>6. m <= Len(fifo) BY <2>3, <1>9
  <2>7. /\ fifo' \in Seq(WordType) /\ Len(fifo') = Len(fifo) - m
        /\ \A i \in 1 .. Len(fifo) - m : fifo'[i] = fifo[m + i]
        /\ AllPackets(fifo', arrived)
    BY <2>1, <2>5, <2>6, <1>1, PacketTaken
  <2> QED BY <2>7, <2>3
<1>14. TypeOK'
  <2>1. recv' \in BOOLEAN BY <1>10
  <2> QED BY <2>1, <1>7, <1>10, <1>12, <1>13 DEF IInv, TypeOK, Ops
<1>15. InOrder' BY <1>10 DEF IInv, InOrder
<1>16. CursorInBounds'
  BY <1>7, <1>10, ReceiveAssumption DEF CursorInBounds, ReceiveAssumption
<1>17. FifoOK' BY <1>10, <1>13 DEF FifoOK
<1>18. HeadOK'
  <2>1. CASE n + 1 = Len(fifo)
    <3>1. Len(fifo') = 0 BY <2>1, <1>13, <1>1
    <3>2. fifo' = <<>> BY <3>1, <1>13, EmptySeq
    <3>3. Len(out) + size = arrived BY <2>1, <1>6, <1>8
    <3> QED BY <3>2, <3>3, <1>10 DEF HeadOK
  <2>2. CASE n + 1 # Len(fifo)
    <3>1. 1 \in 1 .. Len(fifo) - (n + 1) /\ n + 1 + 1 = 1 + n + 1 /\ 1 + n < Len(fifo)
      BY <2>2, <1>1, <1>8, <1>9
    <3>2. fifo'[1] = fifo[1 + n + 1] BY <3>1, <1>13
    <3>3. fifo' # <<>> BY <3>1, <1>1, <1>8, <1>13, EmptySeq
    <3> QED BY <3>1, <3>2, <3>3, <1>6, <1>10 DEF HeadOK
  <2> QED BY <2>1, <2>2
<1>19. BufferOK'
  <2> SUFFICES ASSUME NEW q \in 0 .. size - 1
      PROVE  /\ q \div 2 < Len(recv_buf')
             /\ ~recv_buf'[(q \div 2) + 1].hdr
             /\ recv_buf'[(q \div 2) + 1].pos + (q % 2) = Len(out) + (q - 0)
    BY <1>10 DEF BufferOK
  <2>1. PICK h \in Nat, r \in Nat : h = q \div 2 /\ r = q % 2 /\ q = 2 * h + r
    <3>1. q \div 2 \in Nat /\ q % 2 \in Nat /\ q = 2 * (q \div 2) + (q % 2)
      BY <1>7
    <3> QED BY <3>1
  <2>2. h < n /\ h + 1 \in 1 .. n BY <2>1, <1>7, <1>8
  <2>3. recv_buf'[h + 1] = fifo[1 + (h + 1)] BY <2>2, <1>10, <1>11
  <2>4. ~fifo[1 + (h + 1)].hdr /\ fifo[1 + (h + 1)].pos = Len(out) + 2 * h
    <3>1. /\ ~fifo[1 + (h + 1)].hdr
          /\ fifo[1 + (h + 1)].pos = Len(out) + 2 * ((h + 1) - 1)
      BY <2>2, <1>6
    <3> QED BY <3>1, <2>1
  <2> QED BY <2>1, <2>2, <2>3, <2>4, <1>1, <1>12
<1>20. PhaseOK' BY <1>7, <1>10 DEF IInv, PhaseOK
<1>21. CallOK' BY <1>10 DEF IInv, CallOK, Finished, ReadPacket
<1> QED BY <1>14, <1>15, <1>16, <1>17, <1>18, <1>19, <1>20, <1>21 DEF IInv

LEMMA TakeByteIInv ==
    ASSUME IInv, TakeByte, tcp_pack_remain > 0, op # "pend", ~Finished, ~recv,
           pc # "idle"
    PROVE  IInv'
<1>1. PICK c \in Nat : c = Len(out) BY CurrentByteIsNext
<1>2. /\ out' = Append(out, c) /\ lf' = (c \in LineFeeds)
      /\ tcp_pack_remain' = tcp_pack_remain - 1
      /\ recv_buf_ptr' = recv_buf_ptr + 1 /\ num_read' = num_read + 1
      /\ pc' = "loop"
      /\ UNCHANGED <<chip, tcp_pack_size, recv_buf, op, buf_len, rsr_hi, result, polled>>
  BY <1>1, CurrentByteIsNext DEF TakeByte
<1>3. /\ out \in Seq(Int) /\ tcp_pack_remain \in Nat /\ recv_buf_ptr \in Nat
      /\ num_read \in Nat /\ buf_len \in Nat /\ tcp_pack_size \in Nat
  BY DEF IInv, TypeOK
<1>4. /\ out' \in Seq(Int) /\ Len(out') = c + 1
      /\ \A k \in 1 .. c : out'[k] = out[k]
      /\ out'[c + 1] = c
  <2>1. c \in Int OBVIOUS
  <2> QED BY <1>1, <1>2, <1>3, <2>1
<1>5. TypeOK'
  <2>1. lf' \in BOOLEAN BY <1>2
  <2>2. tcp_pack_remain' \in Nat /\ recv_buf_ptr' \in Nat /\ num_read' \in Nat
    BY <1>2, <1>3
  <2> QED BY <2>1, <2>2, <1>2, <1>4 DEF IInv, TypeOK, Ops, chip
<1>6. InOrder'
  <2> SUFFICES ASSUME NEW k \in 1 .. c + 1 PROVE out'[k] = k - 1
    BY <1>4 DEF InOrder
  <2>1. CASE k = c + 1 BY <2>1, <1>4
  <2>2. CASE k # c + 1
    <3>1. k \in 1 .. c BY <2>2
    <3> QED BY <3>1, <1>1, <1>4 DEF IInv, InOrder
  <2> QED BY <2>1, <2>2
<1>7. CursorInBounds' BY <1>2, <1>3 DEF IInv, CursorInBounds
<1>8. FifoOK' BY <1>2 DEF IInv, FifoOK, chip
<1>9. Len(out') + tcp_pack_remain' = Len(out) + tcp_pack_remain
  BY <1>1, <1>2, <1>3, <1>4
<1>10. HeadOK' BY <1>2, <1>9 DEF IInv, HeadOK, chip
<1>11. BufferOK'
  <2> SUFFICES ASSUME NEW q \in recv_buf_ptr + 1 .. tcp_pack_size - 1
      PROVE  /\ q \div 2 < Len(recv_buf)
             /\ ~recv_buf[(q \div 2) + 1].hdr
             /\ recv_buf[(q \div 2) + 1].pos + (q % 2)
                  = Len(out') + (q - (recv_buf_ptr + 1))
    BY <1>2 DEF BufferOK
  <2>1. q \in recv_buf_ptr .. tcp_pack_size - 1 BY <1>3
  <2>2. Len(out') + (q - (recv_buf_ptr + 1)) = Len(out) + (q - recv_buf_ptr)
    BY <1>1, <1>3, <1>4
  <2> QED BY <2>1, <2>2 DEF IInv, BufferOK
<1>12. PhaseOK' BY <1>2 DEF IInv, PhaseOK, chip
<1>13. CallOK'
  <2>1. num_read < buf_len BY <1>3 DEF Finished
  <2> QED BY <2>1, <1>2, <1>3 DEF IInv, CallOK, Finished
<1> QED BY <1>5, <1>6, <1>7, <1>8, <1>10, <1>11, <1>12, <1>13 DEF IInv

LEMMA FinishIInv ==
    ASSUME IInv, Finish \/ PendBuffered
    PROVE  IInv'
<1>1. ~recv /\ UNCHANGED <<chip, sock, out>>
  BY DEF Finish, PendBuffered, IInv, PhaseOK
<1>2. CASE Finish
  <2>1. Return(IF op = "fline" /\ ~lf THEN "BO" ELSE "OK") BY <1>2 DEF Finish
  <2>2. (IF op = "fline" /\ ~lf THEN "BO" ELSE "OK") \in {"OK", "NC", "EF", "BO"}
    OBVIOUS
  <2> QED BY <2>1, <2>2, <1>1, ReturnIInv
<1>3. CASE PendBuffered
  BY <1>1, <1>3, ReturnIInv DEF PendBuffered
<1> QED BY <1>2, <1>3

LEMMA CopyByteIInv ==
    ASSUME IInv, CopyByte
    PROVE  IInv'
<1>1. tcp_pack_remain > 0 /\ ~recv BY DEF CopyByte, IInv, TypeOK, PhaseOK
<1> QED BY <1>1, TakeByteIInv DEF CopyByte

\* A packet of a TCP channel is never refused by the tests of its size.
LEMMA StatusIsGood ==
    ASSUME IInv, pc = "recv_wait"
    PROVE  ~BadStatus /\ tcp_pack_remain > 0 /\ op # "pend" /\ ~Finished
<1>1. /\ tcp_pack_remain \in Nat /\ tcp_pack_remain > 0 /\ recv_buf_ptr \in Nat
      /\ tcp_pack_size \in Nat
      /\ recv_buf_ptr + tcp_pack_remain = tcp_pack_size
      /\ tcp_pack_size <= TCP_MAX_MTU
  BY DEF IInv, TypeOK, PhaseOK, CursorInBounds
<1>2. /\ TCP_MAX_MTU \in Nat /\ Radix * Radix \in Nat
      /\ 2 * TCP_MAX_MTU < Radix * Radix
  BY ReceiveAssumption DEF ReceiveAssumption
<1>3. PICK rr \in Nat : rr = Radix * Radix BY <1>2
<1>4. 2 * tcp_pack_remain < rr BY <1>1, <1>2, <1>3
<1>5. ~BadStatus BY <1>1, <1>3, <1>4 DEF BadStatus
<1> QED BY <1>1, <1>5 DEF IInv, CallOK

LEMMA RecvDoneIInv ==
    ASSUME IInv, RecvDone
    PROVE  IInv'
<1>1. pc = "recv_wait" /\ ~recv BY DEF RecvDone, RecvCleared
<1>2. ~BadStatus /\ tcp_pack_remain > 0 /\ op # "pend" /\ ~Finished
  BY <1>1, StatusIsGood
<1>3. TakeByte BY <1>2 DEF RecvDone
<1> QED BY <1>1, <1>2, <1>3, TakeByteIInv

LEMMA ReadStatusIInv ==
    ASSUME IInv, ReadStatus
    PROVE  IInv'
<1> DEFINE err == IF IsClosed THEN "EF" ELSE IF op = "ip_recv" THEN "OK" ELSE "NC"
<1>1. ~recv /\ Return(err) /\ err \in {"OK", "NC", "EF", "BO"} /\ pc = "status"
  BY DEF ReadStatus, IInv, PhaseOK
<1>2. CASE ~(op = "fbyte" /\ IsClosed)
  <2>1. UNCHANGED <<chip, sock, out>> BY <1>2 DEF ReadStatus
  <2> HIDE DEF err
  <2> QED BY <1>1, <2>1, ReturnIInv
<1>3. CASE op = "fbyte" /\ IsClosed
  <2>1. /\ tcp_pack_remain' = 0 /\ tcp_pack_size' = 0 /\ recv_buf_ptr' = 0
        /\ UNCHANGED <<recv_buf, ssr, fifo, rsr, recv, arrived, out>>
        /\ err = "EF" /\ tcp_pack_remain = 0
    BY <1>3 DEF ReadStatus, chip, IInv, PhaseOK
  <2> HIDE DEF err
  <2> USE <1>1, <2>1 DEF Return
  <2>2. TypeOK'
    <3>1. result' \in [op : Ops, err : {"OK", "NC", "EF", "BO"}, n : Int]
      BY DEF IInv, TypeOK
    <3>2. lf' \in BOOLEAN OBVIOUS
    <3> QED BY <3>1, <3>2 DEF IInv, TypeOK, Ops
  <2>3. InOrder' /\ FifoOK' /\ HeadOK' BY DEF IInv, InOrder, FifoOK, HeadOK
  <2>4. CursorInBounds'
    BY ReceiveAssumption DEF CursorInBounds, ReceiveAssumption
  <2>5. BufferOK' BY DEF BufferOK
  <2>6. PhaseOK' BY DEF IInv, PhaseOK
  <2>7. CallOK' BY DEF CallOK, Finished
  <2> QED BY <2>2, <2>3, <2>4, <2>5, <2>6, <2>7 DEF IInv
<1> QED BY <1>2, <1>3

LEMMA NextIInv ==
    ASSUME ~Udp, IInv, [Next]_vars
    PROVE  IInv'
<1>1. CASE Caller
  <2>1. ASSUME ReadCall PROVE IInv'
    <3>1. CASE Call("fbyte", 1) BY <3>1, CallIInv DEF Ops
    <3>2. CASE \E o \in {"fline", "ip_recv"}, len \in 1 .. MaxBufLen : Call(o, len)
      <4>1. PICK o \in {"fline", "ip_recv"}, len \in 1 .. MaxBufLen : Call(o, len)
        BY <3>2
      <4>2. /\ o \in Ops \ {"none"} /\ len \in Nat
            /\ o # "fbyte" /\ o # "pend"
        BY ReceiveAssumption DEF Ops, ReceiveAssumption
      <4> QED BY <4>1, <4>2, CallIInv
    <3> QED BY <2>1, <3>1, <3>2 DEF ReadCall
  <2>2. ASSUME NEW o \in {"pend", "fline", "ip_recv"}, Call(o, 0) PROVE IInv'
    <3>1. o \in Ops \ {"none"} /\ 0 \in Nat /\ o # "fbyte" BY DEF Ops
    <3> QED BY <2>2, <3>1, CallIInv
  <2> QED BY <1>1, <2>1, <2>2 DEF Caller
<1>2. CASE Driver
  BY <1>2, FinishIInv, CopyByteIInv, ReadRsrHighIInv, ReadRsrLowIInv,
     ReadPacketIInv, RecvDoneIInv, ReadStatusIInv DEF Driver
<1>3. CASE Chip
  BY <1>3, ArriveIInv, CloseIInv, RecvCommandIInv DEF Chip
<1>4. CASE UNCHANGED vars BY <1>4, StutterIInv
<1> QED BY <1>1, <1>2, <1>3, <1>4 DEF Next

\* The inductive invariant holds in every reachable state.
THEOREM Invariant == ~Udp => (Spec => []IInv)
<1> SUFFICES ASSUME ~Udp PROVE Spec => []IInv OBVIOUS
<1>1. Init => IInv BY InitIInv
<1>2. IInv /\ [Next]_vars => IInv' BY NextIInv
<1> QED BY <1>1, <1>2, PTL DEF Spec

\* Every variable of the model keeps its type: no count goes below zero.
THEOREM TypeCorrect == ~Udp => (Spec => []TypeOK)
<1> SUFFICES ASSUME ~Udp PROVE Spec => []TypeOK OBVIOUS
<1>1. IInv => TypeOK BY DEF IInv
<1> QED BY <1>1, Invariant, PTL

\* The program is given the peer's stream, byte after byte.
THEOREM StreamInOrder == ~Udp => (Spec => []InOrder)
<1> SUFFICES ASSUME ~Udp PROVE Spec => []InOrder OBVIOUS
<1>1. IInv => InOrder BY DEF IInv
<1> QED BY <1>1, Invariant, PTL

\* recv_buf_ptr never leaves the packet in recv_buf, nor the packet recv_buf.
THEOREM CursorCorrect == ~Udp => (Spec => []CursorInBounds)
<1> SUFFICES ASSUME ~Udp PROVE Spec => []CursorInBounds OBVIOUS
<1>1. IInv => CursorInBounds BY DEF IInv
<1> QED BY <1>1, Invariant, PTL

-----------------------------------------------------------------------------
(* What the answers say *)

LEMMA HonestStep ==
    ASSUME IInv, [Next]_vars, Answered, SaysNoInput
    PROVE  polled = Len(out) \/ arrived > polled
<1>1. /\ num_read \in Nat /\ buf_len \in Nat /\ polled \in Nat /\ arrived \in Nat
      /\ pc # "idle" /\ pc' = "idle"
  BY DEF IInv, TypeOK, Answered
<1>2. CASE Finish
  <2>1. result'.err \in {"BO", "OK"} BY <1>2 DEF Finish, Return
  <2>2. num_read >= buf_len \/ op = "fline" BY <1>2 DEF Finish, Finished
  <2>3. result'.n # -1 BY <1>1, <1>2, <2>2 DEF Finish, Return
  <2> QED BY <2>1, <2>3 DEF SaysNoInput
<1>3. CASE PendBuffered
  <2>1. result'.err = "OK" /\ result'.n = num_read BY <1>3 DEF PendBuffered, Return
  <2> QED BY <2>1, <1>1 DEF SaysNoInput
<1>4. CASE ReadRsrLow
  <2>1. op = "pend" BY <1>1, <1>4 DEF ReadRsrLow
  <2>2. /\ pc = "rsr_lo" /\ result'.n = num_read
        /\ result'.err = IF BytesAvailable # 0 THEN "OK" ELSE "NC"
    BY <2>1, <1>4 DEF ReadRsrLow, Return
  <2>3. BytesAvailable = 0 BY <2>2, <1>1 DEF SaysNoInput
  <2> QED BY <2>2, <2>3, AvailableIsTrue
<1>5. CASE RecvDone
  <2>1. ~BadStatus BY <1>5, StatusIsGood DEF RecvDone
  <2> QED BY <2>1, <1>1, <1>5 DEF RecvDone, TakeByte
<1>6. CASE ReadStatus BY <1>6 DEF ReadStatus, IInv, PhaseOK
<1>7. CASE CopyByte BY <1>7, <1>1 DEF CopyByte, TakeByte
<1>8. CASE ReadRsrHigh BY <1>8, <1>1 DEF ReadRsrHigh
<1>9. CASE ReadPacket BY <1>9, <1>1 DEF ReadPacket
<1>10. CASE Caller BY <1>10, <1>1 DEF Caller, ReadCall, Call
<1>11. CASE Chip
  BY <1>11, <1>1 DEF Chip, Arrive, PeerFin, PeerReset, RecvCommand, frame
<1>12. CASE UNCHANGED vars BY <1>12, <1>1 DEF vars, frame
<1> QED BY <1>2, <1>3, <1>4, <1>5, <1>6, <1>7, <1>8, <1>9, <1>10, <1>11, <1>12
        DEF Next, Driver

\* ERR_NC, ERR_EF and -1 are given only when all that was there has been read,
\* or a packet came in between the two halves of a register or a call.
THEOREM HonestAnswers == ~Udp => (Spec => NoInputIsHonest)
<1> SUFFICES ASSUME ~Udp PROVE Spec => NoInputIsHonest OBVIOUS
<1>1. IInv /\ [Next]_vars
        => [Answered /\ SaysNoInput => polled = Len(out) \/ arrived > polled]_vars
  BY HonestStep
<1> QED BY <1>1, Invariant, PTL DEF Spec, NoInputIsHonest

-----------------------------------------------------------------------------
(* How long a call takes *)

\* Each step of the driver leaves fewer: a byte taken costs its loop four at most.
LEMMA ShorterStep ==
    ASSUME IInv, Driver
    PROVE  StepsLeft' \in 0 .. StepsLeft - 1
<1>1. /\ num_read \in Nat /\ buf_len \in Nat /\ num_read <= buf_len
      /\ ~Finished /\ op # "pend" => num_read < buf_len
  BY DEF IInv, TypeOK, CallOK, Finished
<1>2. ASSUME NEW err, Return(err), pc \in {"loop", "rsr_lo", "recv_wait", "status"}
      PROVE  StepsLeft' \in 0 .. StepsLeft - 1
  <2>1. StepsLeft' = 0 BY <1>2 DEF StepsLeft, Return
  <2>2. StepsLeft \in Nat /\ StepsLeft > 0 BY <1>1, <1>2 DEF StepsLeft
  <2> QED BY <2>1, <2>2
<1>3. ASSUME TakeByte, pc \in {"loop", "recv_wait"}, num_read < buf_len
      PROVE  StepsLeft' \in 0 .. StepsLeft - 1
  BY <1>1, <1>3 DEF TakeByte, StepsLeft
<1>4. CASE Finish BY <1>2, <1>4 DEF Finish
<1>5. CASE PendBuffered BY <1>2, <1>5 DEF PendBuffered
<1>6. CASE CopyByte BY <1>1, <1>3, <1>6 DEF CopyByte
<1>7. CASE ReadRsrHigh BY <1>1, <1>7 DEF ReadRsrHigh, StepsLeft
<1>8. CASE ReadRsrLow
  <2>1. CASE op = "pend" BY <1>2, <1>8, <2>1 DEF ReadRsrLow
  <2>2. CASE op # "pend" BY <1>1, <1>8, <2>2 DEF ReadRsrLow, StepsLeft
  <2> QED BY <2>1, <2>2
<1>9. CASE ReadPacket BY <1>1, <1>9 DEF ReadPacket, StepsLeft
<1>10. CASE RecvDone
  <2>1. ~BadStatus /\ op # "pend" /\ ~Finished BY <1>10, StatusIsGood DEF RecvDone
  <2>2. TakeByte /\ pc = "recv_wait" BY <1>10, <2>1 DEF RecvDone
  <2> QED BY <1>1, <1>3, <2>1, <2>2
<1>11. CASE ReadStatus BY <1>2, <1>11 DEF ReadStatus
<1> QED BY <1>4, <1>5, <1>6, <1>7, <1>8, <1>9, <1>10, <1>11 DEF Driver

\* A call of the receive functions takes no more than four steps for each byte
\* that is wanted, and five: the part of CallReturns that rests on no fairness.
THEOREM CallsEnd == ~Udp => (Spec => CallShortens)
<1> SUFFICES ASSUME ~Udp PROVE Spec => CallShortens OBVIOUS
<1>1. IInv /\ [Next]_vars => [Driver => StepsLeft' \in 0 .. StepsLeft - 1]_vars
  BY ShorterStep
<1> QED BY <1>1, Invariant, PTL DEF Spec, CallShortens

-----------------------------------------------------------------------------
(* The refinement of ByteStream *)

LEMMA StreamInit == Init => Stream!Init
BY DEF Init, Stream!Init, StreamCall, Stream!NoCall

LEMMA StreamReply ==
    ASSUME IInv, NEW err, Return(err), UNCHANGED <<chip, out>>,
           pc # "idle", Stream!Answer(err)
    PROVE  Stream!Next
<1>1. StreamCall = [op |-> op, len |-> buf_len, n |-> num_read, lf |-> lf]
  BY DEF StreamCall
<1>2. op # "none" BY DEF IInv, CallOK
<1>3. StreamCall # Stream!NoCall BY <1>1, <1>2 DEF Stream!NoCall
<1>4. StreamCall' = Stream!NoCall BY DEF StreamCall, Return, Stream!NoCall
<1>5. /\ StreamCall.op = op /\ StreamCall.len = buf_len /\ StreamCall.n = num_read
  BY <1>1
<1>6. result' = [op |-> StreamCall.op, err |-> err,
                 n |-> IF StreamCall.op = "ip_recv" /\ StreamCall.n = 0 /\ StreamCall.len # 0
                       THEN -1 ELSE StreamCall.n]
  BY <1>5 DEF Return
<1>7. result'.err = err BY <1>6
<1>8. Stream!Reply
  BY <1>3, <1>4, <1>6, <1>7 DEF Stream!Reply, chip
<1> QED BY <1>8 DEF Stream!Next

LEMMA StreamDeliver ==
    ASSUME IInv, TakeByte, tcp_pack_remain > 0, op # "pend", ~Finished,
           pc # "idle"
    PROVE  Stream!Next
<1>1. CurrentByte = Len(out) /\ Len(out) < arrived BY CurrentByteIsNext
<1>2. StreamCall = [op |-> op, len |-> buf_len, n |-> num_read, lf |-> lf]
  BY DEF StreamCall
<1>3. op \in {"fbyte", "fline", "ip_recv"}
  BY DEF IInv, TypeOK, CallOK, Ops
<1>4. num_read < buf_len /\ (op = "fline" => ~lf)
  BY DEF Finished, IInv, TypeOK
<1>5. StreamCall' = [op |-> op, len |-> buf_len, n |-> num_read + 1,
                     lf |-> Len(out) \in LineFeeds]
  BY <1>1 DEF StreamCall, TakeByte
<1>6. /\ StreamCall.op = op /\ StreamCall.len = buf_len
      /\ StreamCall.n = num_read /\ StreamCall.lf = lf
  BY <1>2
<1>6a. StreamCall' = [op |-> StreamCall.op, len |-> StreamCall.len,
                      n |-> StreamCall.n + 1, lf |-> Len(out) \in LineFeeds]
  BY <1>5, <1>6, Zenon
<1>6b. out' = Append(out, Len(out)) /\ UNCHANGED <<arrived, ssr = "CLOSED", result>>
  BY <1>1 DEF TakeByte, chip
<1>6c. /\ StreamCall.op \in {"fbyte", "fline", "ip_recv"}
       /\ StreamCall.n < StreamCall.len
       /\ StreamCall.op = "fline" => ~StreamCall.lf
  BY <1>3, <1>4, <1>6
<1>7. Stream!Deliver
  BY <1>1, <1>6a, <1>6b, <1>6c, Zenon DEF Stream!Deliver
<1> QED BY <1>7 DEF Stream!Next

LEMMA StreamStep ==
    ASSUME ~Udp, IInv, [Next]_vars
    PROVE  Stream!Next \/ UNCHANGED Stream!vars
<1> USE DEF Stream!vars
<1>1. CASE Caller
  <2>1. PICK o \in {"pend", "fbyte", "fline", "ip_recv"}, len \in 0 .. MaxBufLen \cup {1} :
           Call(o, len)
    BY <1>1, ReceiveAssumption DEF Caller, ReadCall, ReceiveAssumption
  <2>2. StreamCall = Stream!NoCall
    BY <2>1 DEF Call, StreamCall, Stream!NoCall
  <2>3. StreamCall' = [op |-> o, len |-> len, n |-> 0, lf |-> FALSE]
    BY <2>1 DEF Call, StreamCall
  <2>4. StreamCall'.op = o /\ StreamCall'.len = len BY <2>3
  <2>5. Stream!Invoke
    BY <2>1, <2>2, <2>3, <2>4 DEF Stream!Invoke, Call, chip
  <2> QED BY <2>5 DEF Stream!Next
<1>2. CASE Chip
  <2>1. ASSUME NEW n \in 1 .. MaxPacket, Arrive(n) PROVE Stream!Next
    <3>1. StreamCall' = StreamCall BY <2>1 DEF Arrive, StreamCall, frame
    <3>2. arrived' \in Nat /\ arrived' > arrived
      BY <2>1, ReceiveAssumption DEF IInv, TypeOK, Arrive, ReceiveAssumption
    <3>3. Stream!Arrive BY <2>1, <3>1, <3>2 DEF Stream!Arrive, Arrive
    <3> QED BY <3>3 DEF Stream!Next
  <2>2. CASE PeerFin
    BY <2>2 DEF PeerFin, StreamCall, frame
  <2>3. CASE PeerReset
    <3>1. StreamCall' = StreamCall BY <2>3 DEF PeerReset, StreamCall, frame
    <3>2. Stream!Close BY <2>3, <3>1 DEF Stream!Close, PeerReset
    <3> QED BY <3>2 DEF Stream!Next
  <2>4. CASE RecvCommand
    BY <2>4 DEF RecvCommand, StreamCall, frame
  <2> QED BY <1>2, <2>1, <2>2, <2>3, <2>4 DEF Chip
<1>3. CASE Driver
  <2>0. pc # "idle" => /\ StreamCall.op = op /\ StreamCall.len = buf_len
                       /\ StreamCall.n = num_read /\ StreamCall.lf = lf
    BY DEF StreamCall
  <2>0a. /\ num_read \in Nat /\ buf_len \in Nat /\ num_read <= buf_len
         /\ op \in Ops /\ (pc # "idle" => op # "none")
         /\ op = "fbyte" => buf_len = 1
    BY DEF IInv, TypeOK, CallOK
  <2>1. CASE Finish
    <3>1. pc # "idle" /\ op # "pend" BY <2>1 DEF Finish, Finished
    <3>2. num_read = buf_len \/ (op = "fline" /\ lf)
      BY <2>1, <2>0a DEF Finish, Finished
    <3>3. Stream!Answer(IF op = "fline" /\ ~lf THEN "BO" ELSE "OK")
      BY <3>1, <3>2, <2>0, <2>0a DEF Stream!Answer, Stream!Satisfied, Ops
    <3> QED BY <3>1, <3>3, <2>1, StreamReply DEF Finish
  <2>2. CASE PendBuffered
    <3>1. pc # "idle" /\ op = "pend" BY <2>2 DEF PendBuffered
    <3>2. Len(out) < arrived
      BY <2>2, CurrentByteIsNext DEF PendBuffered, IInv, TypeOK
    <3>3. Stream!Answer("OK") BY <3>1, <3>2, <2>0 DEF Stream!Answer
    <3> QED BY <3>1, <3>3, <2>2, StreamReply DEF PendBuffered
  <2>3. CASE CopyByte
    <3>1. tcp_pack_remain > 0 BY <2>3 DEF CopyByte, IInv, TypeOK
    <3> QED BY <2>3, <3>1, StreamDeliver DEF CopyByte
  <2>4. CASE ReadRsrHigh
    BY <2>4 DEF ReadRsrHigh, StreamCall, chip
  <2>5. CASE ReadRsrLow
    <3>1. CASE op = "pend"
      <4>1. /\ pc = "rsr_lo" /\ UNCHANGED <<chip, sock, out>>
            /\ Return(IF BytesAvailable # 0 THEN "OK" ELSE "NC")
        BY <3>1, <2>5 DEF ReadRsrLow
      <4>2. CASE BytesAvailable # 0
        <5>1. fifo # <<>> BY <4>1, <4>2, AvailableIsTrue
        <5>2. Len(out) < arrived BY <4>1, <5>1, HeadBeforeEnd DEF IInv, PhaseOK
        <5>3. Stream!Answer("OK") BY <3>1, <4>1, <5>2, <2>0 DEF Stream!Answer
        <5> QED BY <4>1, <4>2, <5>3, StreamReply
      <4>3. CASE BytesAvailable = 0
        <5>1. Stream!Answer("NC")
          BY <3>1, <4>1, <2>0 DEF Stream!Answer, Stream!Satisfied
        <5> QED BY <4>1, <4>3, <5>1, StreamReply
      <4> QED BY <4>2, <4>3
    <3>2. CASE op # "pend"
      BY <2>5, <3>2 DEF ReadRsrLow, StreamCall, chip
    <3> QED BY <3>1, <3>2
  <2>6. CASE ReadPacket
    BY <2>6 DEF ReadPacket, StreamCall
  <2>7. CASE RecvDone
    <3>1. pc = "recv_wait" BY <2>7 DEF RecvDone
    <3>2. ~BadStatus /\ tcp_pack_remain > 0 /\ op # "pend" /\ ~Finished
      BY <3>1, StatusIsGood
    <3> QED BY <2>7, <3>1, <3>2, StreamDeliver DEF RecvDone
  <2>8. CASE ReadStatus
    <3>1. pc = "status" /\ op # "pend" /\ ~Finished
      BY <2>8 DEF ReadStatus, IInv, CallOK
    <3>2. num_read < buf_len /\ ~(op = "fline" /\ lf)
      BY <3>1, <2>0a DEF Finished
    <3>3. Return(IF IsClosed THEN "EF" ELSE IF op = "ip_recv" THEN "OK" ELSE "NC")
      BY <2>8 DEF ReadStatus
    <3>4. Stream!Answer(IF IsClosed THEN "EF" ELSE IF op = "ip_recv" THEN "OK" ELSE "NC")
      BY <3>1, <3>2, <2>0, <2>0a DEF Stream!Answer, Stream!Satisfied, IsClosed, Ops
    <3>5. UNCHANGED <<chip, out>> BY <2>8 DEF ReadStatus
    <3> QED BY <3>1, <3>3, <3>4, <3>5, StreamReply
  <2> QED BY <1>3, <2>1, <2>2, <2>3, <2>4, <2>5, <2>6, <2>7, <2>8 DEF Driver
<1>4. CASE UNCHANGED vars
  BY <1>4 DEF vars, chip, frame, StreamCall
<1> QED BY <1>1, <1>2, <1>3, <1>4 DEF Next

\* The receive path implements an in-order byte stream.
THEOREM Refinement == ~Udp => (Spec => ImplementsByteStream)
<1> SUFFICES ASSUME ~Udp PROVE Spec => Stream!Spec BY DEF ImplementsByteStream
<1>1. Init => Stream!Init BY StreamInit
<1>2. IInv /\ [Next]_vars => [Stream!Next]_(Stream!vars) BY StreamStep
<1> QED BY <1>1, <1>2, Invariant, PTL DEF Spec, Stream!Spec
=============================================================================

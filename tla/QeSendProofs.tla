---------------------------- MODULE QeSendProofs ----------------------------
(***************************************************************************)
(* Theorems about QeSend, for any size of the TX memory and of its register, *)
(* and any number and length of sends and connections.                       *)
(***************************************************************************)
EXTENDS QeSend, TLAPS

-----------------------------------------------------------------------------
(* Sequences of bytes *)

LEMMA Concatenated ==
    ASSUME NEW s \in Seq(Int), NEW t \in Seq(Int)
    PROVE  /\ s \o t \in Seq(Int) /\ Len(s \o t) = Len(s) + Len(t)
           /\ \A k \in 1 .. Len(s) : (s \o t)[k] = s[k]
           /\ \A k \in 1 .. Len(t) : (s \o t)[Len(s) + k] = t[k]
  OBVIOUS

LEMMA FrontPart ==
    ASSUME NEW s \in Seq(Int), NEW n \in 0 .. Len(s)
    PROVE  /\ SubSeq(s, 1, n) \in Seq(Int) /\ Len(SubSeq(s, 1, n)) = n
           /\ \A k \in 1 .. n : SubSeq(s, 1, n)[k] = s[k]
  OBVIOUS

LEMMA BackPart ==
    ASSUME NEW s \in Seq(Int), NEW n \in 0 .. Len(s)
    PROVE  /\ SubSeq(s, n + 1, Len(s)) \in Seq(Int)
           /\ Len(SubSeq(s, n + 1, Len(s))) = Len(s) - n
           /\ \A k \in 1 .. Len(s) - n : SubSeq(s, n + 1, Len(s))[k] = s[n + k]
  OBVIOUS

LEMMA LengthIsNat ==
    \A s \in Seq(Int) : Len(s) \in Nat /\ (s = <<>> <=> Len(s) = 0)
  OBVIOUS

\* Whole words hold the bytes, and a byte more at most.
LEMMA EvenIsEnough ==
    ASSUME NEW n \in Nat
    PROVE  /\ Even(n) \in Nat /\ n <= Even(n) /\ (n > 0 => Even(n) > 0)
           /\ 2 * ((n + 1) \div 2) = Even(n)
           /\ 2 * WordsToWrite(n) = Even(n)
  BY DEF Even, WordsToWrite

\* w5300_write_fifo writes the bytes from addr1 on.
LEMMA WrittenBytes ==
    ASSUME NEW n \in Nat, addr1 \in Int
    PROVE  /\ Written(n) \in Seq(Int) /\ Len(Written(n)) = Even(n)
           /\ \A k \in 1 .. n : Written(n)[k] = addr1 + k
  <1>1. Even(n) \in Nat /\ n <= Even(n) /\ 2 * WordsToWrite(n) = Even(n)
    BY EvenIsEnough
  <1>2. Written(n) = [k \in 1 .. Even(n) |-> IF k <= n THEN addr1 + k ELSE 0]
    BY <1>1 DEF Written
  <1> QED
    BY <1>1, <1>2

-----------------------------------------------------------------------------
(* The free size *)

\* A register's value is put together from its two digits, and its high digit
\* does not go down when the value does not.
LEMMA Digits ==
    ASSUME NEW a \in Nat, NEW b \in Nat, a <= b
    PROVE  /\ a \div Radix \in Nat /\ a % Radix \in Nat
           /\ a = (a \div Radix) * Radix + (a % Radix)
           /\ a \div Radix <= b \div Radix
  <1> USE SendAssumption DEF SendAssumption
  <1>1. a \div Radix \in Nat /\ a % Radix \in 0 .. Radix - 1
        /\ a = Radix * (a \div Radix) + (a % Radix)
    OBVIOUS
  <1>2. b \div Radix \in Nat /\ b % Radix \in 0 .. Radix - 1
        /\ b = Radix * (b \div Radix) + (b % Radix)
    OBVIOUS
  <1>3. a \div Radix <= b \div Radix
    <2> DEFINE p == a \div Radix
               q == b \div Radix
               r == a % Radix
               t == b % Radix
    <2> SUFFICES ASSUME p >= q + 1 PROVE FALSE
      BY <1>1, <1>2
    <2>1. Radix * p >= Radix * (q + 1)
      BY <1>1, <1>2
    <2>2. Radix * (q + 1) = Radix * q + Radix
      BY <1>2
    <2> HIDE DEF p, q, r, t
    <2>3. Radix * p + r >= Radix * q + Radix + r
      BY <1>1, <1>2, <2>1, <2>2 DEF p, q, r
    <2> QED
      BY <1>1, <1>2, <2>3 DEF p, q, r, t
  <1> QED
    BY <1>1, <1>2, <1>3

LEMMA SizeReadIsThere ==
    ASSUME NEW hi \in Nat, NEW f \in Nat, hi <= f \div Radix
    PROVE  hi * Radix + (f % Radix) \in Nat /\ hi * Radix + (f % Radix) <= f
  <1>1. /\ f \div Radix \in Nat /\ f % Radix \in Nat
        /\ f = (f \div Radix) * Radix + (f % Radix)
    BY Digits
  <1> DEFINE q == f \div Radix
             r == f % Radix
  <1>2. Radix \in Nat
    BY SendAssumption DEF SendAssumption
  <1>3. hi * Radix <= q * Radix /\ hi * Radix \in Nat
    BY <1>1, <1>2
  <1> HIDE DEF q, r
  <1> QED
    BY <1>1, <1>2, <1>3 DEF q, r

-----------------------------------------------------------------------------
(* Steps that move no bytes *)

LEMMA InitIInv ==
    Init => IInv
  <1> SUFFICES ASSUME Init PROVE IInv
    OBVIOUS
  <1> USE SendAssumption DEF SendAssumption, Init
  <1>0. {sendok, timeout, check_sendok_flag, isr_timeout, taken, tainted} \subseteq BOOLEAN
    OBVIOUS
  <1>1. TypeOK
    <2>1. txfifo \in Seq(Int) /\ air \in Seq(Int) /\ peer \in Seq(Int)
      OBVIOUS
    <2>2. wrsr \in Nat /\ fsr \in 0 .. TxMemory /\ opens \in 0 .. MaxOpens
      OBVIOUS
    <2> QED
      BY <1>0, <2>1, <2>2 DEF TypeOK
  <1>2. CallOK /\ SendokOK /\ SendtoOK
    BY DEF CallOK, SendokOK, SendtoOK, Steady, Live, Outstanding, SstrgPcs, SendtoPcs
  <1>3. DataOK
    BY DEF DataOK, Steady, Live
  <1>4. FreeOK
    BY DEF FreeOK, FreeSizeHonest
  <1>5. PeerInOrder
    BY DEF PeerInOrder
  <1> QED
    BY <1>1, <1>2, <1>3, <1>4, <1>5 DEF IInv

\* A step that leaves the bytes and the commands where they are.
LEMMA DataKept ==
    ASSUME IInv, UNCHANGED <<ssr, cr, wrsr, txfifo, air, addr1, peer, tainted, chan>>,
           pc # "close", pc' # "close", InFifo' = InFifo, InFifo > 0 => ret' = ret
    PROVE  DataOK' /\ PeerInOrder'
  <1>1. Steady' = Steady /\ Pending' = Pending /\ Gone' = Gone /\ Outstanding' = Outstanding
    BY DEF Steady, Live, Pending, Gone, Outstanding
  <1>2. DataOK'
    BY <1>1 DEF IInv, DataOK
  <1>3. PeerInOrder'
    BY DEF IInv, PeerInOrder
  <1> QED
    BY <1>2, <1>3

\* Free memory that grows is no less honest than before.
LEMMA FreeGrows ==
    ASSUME IInv, fsr \in Nat, fsr' \in Nat, fsr <= fsr',
           UNCHANGED <<pc, ret, fsr_hi, taken>>
    PROVE  FreeOK'
  <1>1. fsr \div Radix \in Nat /\ fsr' \div Radix \in Nat
        /\ fsr \div Radix <= fsr' \div Radix
    <2>1. fsr \div Radix \in Nat /\ fsr \div Radix <= fsr' \div Radix
      BY Digits
    <2>2. fsr' <= fsr' /\ fsr' \div Radix \in Nat
      BY Digits
    <2> QED
      BY <2>1, <2>2
  <1> DEFINE a == fsr \div Radix
             b == fsr' \div Radix
  <1>2. ret \in Nat /\ fsr_hi \in Nat
    BY DEF IInv, TypeOK
  <1>3. pc = "fsr_lo" /\ ~taken => fsr_hi <= a
    BY DEF IInv, FreeOK
  <1> HIDE DEF a, b
  <1>4. pc' = "fsr_lo" /\ ~taken' => fsr_hi' <= b
    BY <1>1, <1>2, <1>3 DEF a, b
  <1>5. FreeSizeHonest'
    BY <1>2 DEF IInv, FreeOK, FreeSizeHonest
  <1> QED
    BY <1>4, <1>5 DEF FreeOK, b

LEMMA PeerKept ==
    ASSUME IInv, UNCHANGED <<peer, chan>>, tainted => tainted'
    PROVE  PeerInOrder'
  BY DEF IInv, PeerInOrder, TypeOK

LEMMA SstrgKeeps ==
    ASSUME IInv, NEW len \in 1 .. MaxLen, Sstrg(len)
    PROVE  IInv'
  <1>1. /\ pc = "idle" /\ pc' = "fsr" /\ ret' = len /\ chan \in {"TCP", "UDP"}
        /\ UNCHANGED <<ssr, cr, wrsr, txfifo, fsr, sendok, timeout, air,
                       check_sendok_flag, addr1, fsr_hi, isr_timeout, taken,
                       chan, opens, peer, accepted, tainted>>
    BY DEF Sstrg, chip, conn, history
  <1>2. len \in Nat /\ len > 0
    BY SendAssumption DEF SendAssumption
  <1>3. TypeOK'
    BY <1>1, <1>2 DEF IInv, TypeOK
  <1>4. CallOK'
    BY <1>1, <1>2 DEF IInv, CallOK, Live, SstrgPcs, SendtoPcs
  <1>5. SendokOK' /\ SendtoOK'
    BY <1>1 DEF IInv, SendokOK, SendtoOK, Steady, Live, Outstanding
  <1>6. DataOK' /\ PeerInOrder'
    BY <1>1, DataKept DEF InFifo
  <1>7. FreeOK'
    BY <1>1 DEF FreeOK, FreeSizeHonest
  <1> QED
    BY <1>3, <1>4, <1>5, <1>6, <1>7 DEF IInv

LEMMA ReadFsrHighKeeps ==
    ASSUME IInv, ReadFsrHigh
    PROVE  IInv'
  <1>1. /\ pc = "fsr" /\ pc' = "fsr_lo" /\ fsr_hi' = fsr \div Radix
        /\ UNCHANGED <<ssr, cr, wrsr, txfifo, fsr, sendok, timeout, air,
                       check_sendok_flag, addr1, ret, isr_timeout, taken,
                       chan, opens, peer, accepted, tainted>>
    BY DEF ReadFsrHigh, chip, conn, history
  <1>2. fsr_hi' \in Nat /\ fsr_hi' <= fsr \div Radix
    <2>1. fsr \in Nat
      BY SendAssumption DEF SendAssumption, IInv, TypeOK
    <2> QED
      BY <1>1, <2>1, Digits
  <1>3. TypeOK'
    BY <1>1, <1>2 DEF IInv, TypeOK
  <1>4. CallOK'
    BY <1>1 DEF IInv, CallOK, Live, SstrgPcs, SendtoPcs
  <1>5. SendokOK' /\ SendtoOK'
    BY <1>1 DEF IInv, CallOK, SendokOK, SendtoOK, Steady, Live, Outstanding, SstrgPcs
  <1>6. DataOK' /\ PeerInOrder'
    BY <1>1, DataKept DEF InFifo
  <1>7. FreeOK'
    BY <1>1, <1>2 DEF FreeOK, FreeSizeHonest
  <1> QED
    BY <1>3, <1>4, <1>5, <1>6, <1>7 DEF IInv

LEMMA ReadFsrLowKeeps ==
    ASSUME IInv, ReadFsrLow
    PROVE  IInv'
  <1> DEFINE freesize == (fsr_hi * Radix) + (fsr % Radix)
  <1>1. /\ pc = "fsr_lo" /\ chan \in {"TCP", "UDP"} /\ ret > 0 /\ ret \in Nat
        /\ UNCHANGED <<ssr, cr, wrsr, txfifo, fsr, sendok, timeout, air,
                       check_sendok_flag, addr1, fsr_hi, isr_timeout, taken,
                       chan, opens, peer, accepted, tainted>>
    BY DEF ReadFsrLow, chip, conn, history, IInv, TypeOK, CallOK, Live, SstrgPcs
  <1>2. /\ fsr \in Nat /\ fsr_hi \in Nat /\ freesize \in Nat
        /\ ~taken => freesize <= fsr
    <2>1. fsr \in Nat /\ fsr_hi \in Nat
      BY SendAssumption DEF SendAssumption, IInv, TypeOK
    <2>2. fsr % Radix \in Nat /\ fsr_hi * Radix \in Nat
      BY <2>1, Digits, SendAssumption DEF SendAssumption
    <2>3. ~taken => fsr_hi <= fsr \div Radix
      BY <1>1 DEF IInv, FreeOK
    <2> QED
      BY <2>1, <2>2, <2>3, SizeReadIsThere
  <1>3. \/ pc' = "fsr" /\ ret' = ret
        \/ /\ pc' = "fifo" /\ ret' \in Nat /\ ret' > 0 /\ ret' <= freesize
    <2>1. CASE freesize = 0
      BY <2>1 DEF ReadFsrLow
    <2>2. CASE freesize # 0
      <3>1. pc' = "fifo" /\ ret' = Limited(ret, freesize)
        BY <2>2 DEF ReadFsrLow
      <3> HIDE DEF freesize
      <3> QED
        BY <1>1, <1>2, <2>2, <3>1 DEF Limited
    <2> QED
      BY <2>1, <2>2
  <1> HIDE DEF freesize
  <1>4. TypeOK'
    BY <1>1, <1>3 DEF IInv, TypeOK
  <1>5. CallOK'
    BY <1>1, <1>3 DEF IInv, CallOK, Live, SstrgPcs, SendtoPcs
  <1>6. SendokOK' /\ SendtoOK'
    BY <1>1, <1>3 DEF IInv, SendokOK, SendtoOK, Steady, Live, Outstanding
  <1>7. DataOK' /\ PeerInOrder'
    BY <1>1, <1>3, DataKept DEF InFifo
  <1>8. FreeOK'
    BY <1>1, <1>2, <1>3 DEF FreeOK, FreeSizeHonest
  <1> QED
    BY <1>4, <1>5, <1>6, <1>7, <1>8 DEF IInv

LEMMA ReadIrKeeps ==
    ASSUME IInv, ReadIr
    PROVE  IInv'
  <1>1. /\ pc = "sendok" /\ pc' = IF sendok THEN "clear" ELSE "status"
        /\ UNCHANGED <<ssr, cr, wrsr, txfifo, fsr, sendok, timeout, air,
                       check_sendok_flag, addr1, ret, fsr_hi, isr_timeout, taken,
                       chan, opens, peer, accepted, tainted>>
    BY DEF ReadIr, SendokSeen, chip, call, conn, history
  <1>2. sendok \in BOOLEAN /\ pc' \in {"clear", "status"}
    BY <1>1 DEF IInv, TypeOK
  <1>3. TypeOK'
    BY <1>1, <1>2 DEF IInv, TypeOK
  <1>4. CallOK'
    BY <1>1, <1>2 DEF IInv, CallOK, Live, SstrgPcs, SendtoPcs
  <1>5. SendokOK' /\ SendtoOK'
    BY <1>1, <1>2 DEF IInv, CallOK, SendokOK, SendtoOK, Steady, Live, Outstanding, SstrgPcs
  <1>6. DataOK' /\ PeerInOrder'
    <2>1. InFifo' = InFifo /\ pc # "close" /\ pc' # "close"
      BY <1>1, <1>2 DEF InFifo, Even, WordsToWrite
    <2> QED
      BY <1>1, <2>1, DataKept
  <1>7. FreeOK'
    BY <1>1, <1>2 DEF FreeOK, FreeSizeHonest
  <1> QED
    BY <1>3, <1>4, <1>5, <1>6, <1>7 DEF IInv

LEMMA ReadStatusKeeps ==
    ASSUME IInv, ReadStatus
    PROVE  IInv'
  <1>1. /\ pc = "status"
        /\ UNCHANGED <<ssr, cr, wrsr, txfifo, fsr, sendok, timeout, air,
                       check_sendok_flag, chan, opens, peer, accepted, tainted>>
    BY DEF ReadStatus, chip, conn, history
  <1>2. chan \in {"TCP", "UDP"} /\ chan # "client"
    BY <1>1 DEF IInv, CallOK, Live, SstrgPcs
  <1>3. CASE ssr = "CLOSED"
    <2>1. /\ pc' = "idle" /\ addr1' = addr1 - 1 /\ ret' = 0 /\ fsr_hi' = 0
          /\ isr_timeout' = FALSE /\ taken' = FALSE
      BY <1>3 DEF ReadStatus, Returned, NoCall
    <2>b. {sendok, timeout, check_sendok_flag, isr_timeout, taken, tainted}' \subseteq BOOLEAN
      BY <1>1, <2>1 DEF IInv, TypeOK
    <2>2. TypeOK'
      BY <1>1, <2>1, <2>b DEF IInv, TypeOK
    <2>3. CallOK'
      BY <1>1, <1>2, <1>3, <2>1 DEF IInv, CallOK, Live, SstrgPcs, SendtoPcs
    <2>4. SendokOK' /\ SendtoOK' /\ DataOK'
      BY <1>1, <1>2, <1>3 DEF SendokOK, SendtoOK, DataOK, Steady, Live
    <2>5. FreeOK' /\ PeerInOrder'
      BY <1>1, <2>1, PeerKept DEF FreeOK, FreeSizeHonest
    <2> QED
      BY <2>2, <2>3, <2>4, <2>5 DEF IInv
  <1>4. CASE ssr # "CLOSED"
    <2>1. pc' = "sendok" /\ UNCHANGED <<addr1, ret, fsr_hi, isr_timeout, taken>>
      BY <1>4 DEF ReadStatus, call
    <2>2. TypeOK'
      BY <1>1, <2>1 DEF IInv, TypeOK
    <2>3. CallOK'
      BY <1>1, <2>1 DEF IInv, CallOK, Live, SstrgPcs, SendtoPcs
    <2>4. SendokOK' /\ SendtoOK'
      BY <1>1, <1>2, <2>1 DEF IInv, SendokOK, SendtoOK, Steady, Live, Outstanding
    <2>5. InFifo' = InFifo /\ pc # "close" /\ pc' # "close"
      BY <1>1, <2>1 DEF InFifo, Even, WordsToWrite
    <2>6. DataOK' /\ PeerInOrder'
      BY <1>1, <2>1, <2>5, DataKept
    <2>7. FreeOK'
      BY <2>1 DEF FreeOK, FreeSizeHonest
    <2> QED
      BY <2>2, <2>3, <2>4, <2>6, <2>7 DEF IInv
  <1> QED
    BY <1>3, <1>4

LEMMA ClearSendokKeeps ==
    ASSUME IInv, ClearSendok
    PROVE  IInv'
  <1>1. /\ pc = "clear" /\ pc' = "command" /\ sendok' = FALSE
        /\ UNCHANGED <<ssr, cr, wrsr, txfifo, fsr, timeout, air,
                       check_sendok_flag, addr1, ret, fsr_hi, isr_timeout, taken,
                       chan, opens, peer, accepted, tainted>>
    BY DEF ClearSendok, call, conn, history
  <1>2. chan \in {"TCP", "UDP"} /\ sendok
    BY <1>1 DEF IInv, CallOK, Live, SstrgPcs
  <1>3. TypeOK'
    BY <1>1 DEF IInv, TypeOK
  <1>4. CallOK'
    BY <1>1 DEF IInv, CallOK, Live, SstrgPcs, SendtoPcs
  <1>5. SendokOK' /\ SendtoOK'
    BY <1>1, <1>2 DEF IInv, SendokOK, SendtoOK, Steady, Live, Outstanding
  <1>6. DataOK' /\ PeerInOrder'
    <2>1. InFifo' = InFifo /\ pc # "close" /\ pc' # "close"
      BY <1>1 DEF InFifo, Even, WordsToWrite
    <2> QED
      BY <1>1, <2>1, DataKept
  <1>7. FreeOK'
    BY <1>1 DEF FreeOK, FreeSizeHonest
  <1> QED
    BY <1>3, <1>4, <1>5, <1>6, <1>7 DEF IInv

LEMMA SendtoReadIrKeeps ==
    ASSUME IInv, SendtoReadIr
    PROVE  IInv'
  <1>1. /\ pc = "to_ir" /\ pc' = IF sendok THEN "to_clear" ELSE "to_status"
        /\ isr_timeout' = timeout
        /\ UNCHANGED <<ssr, cr, wrsr, txfifo, fsr, sendok, timeout, air,
                       check_sendok_flag, addr1, ret, fsr_hi, taken,
                       chan, opens, peer, accepted, tainted>>
    BY DEF SendtoReadIr, DatagramSent, chip, conn, history
  <1>2. /\ sendok \in BOOLEAN /\ timeout \in BOOLEAN /\ pc' \in {"to_clear", "to_status"}
        /\ chan = "client" /\ ssr = "UDP"
    BY <1>1 DEF IInv, TypeOK, CallOK, Live, SendtoPcs
  <1>3. TypeOK'
    BY <1>1, <1>2 DEF IInv, TypeOK
  <1>4. CallOK'
    BY <1>1, <1>2 DEF IInv, CallOK, Live, SstrgPcs, SendtoPcs
  <1>5. SendokOK' /\ SendtoOK'
    BY <1>1, <1>2 DEF IInv, SendokOK, SendtoOK, Steady, Live, Outstanding
  <1>6. DataOK' /\ PeerInOrder'
    BY <1>1, <1>2, DataKept DEF InFifo
  <1>7. FreeOK'
    BY <1>1, <1>2 DEF FreeOK, FreeSizeHonest
  <1> QED
    BY <1>3, <1>4, <1>5, <1>6, <1>7 DEF IInv

LEMMA SendtoReadStatusKeeps ==
    ASSUME IInv, SendtoReadStatus
    PROVE  IInv'
  <1>1. /\ pc = "to_status" /\ chan = "client" /\ ssr = "UDP"
        /\ UNCHANGED <<ssr, cr, wrsr, txfifo, fsr, sendok, air,
                       check_sendok_flag, addr1, chan, opens, peer, accepted, tainted>>
    BY DEF SendtoReadStatus, conn, history, IInv, CallOK, Live, SendtoPcs
  <1>2. \/ /\ isr_timeout /\ timeout' = FALSE /\ pc' = "idle" /\ ret' = 0 /\ fsr_hi' = 0
           /\ isr_timeout' = FALSE /\ taken' = FALSE
        \/ pc' = "to_ir" /\ UNCHANGED <<timeout, ret, fsr_hi, isr_timeout, taken>>
    BY <1>1 DEF SendtoReadStatus, Returned, NoCall, call
  <1>b. {sendok, timeout, check_sendok_flag, isr_timeout, taken, tainted}' \subseteq BOOLEAN
    BY <1>1, <1>2 DEF IInv, TypeOK
  <1>3. TypeOK'
    BY <1>1, <1>2, <1>b DEF IInv, TypeOK
  <1>4. CallOK'
    BY <1>1, <1>2 DEF IInv, CallOK, Live, SstrgPcs, SendtoPcs
  <1>5. SendokOK' /\ SendtoOK'
    BY <1>1, <1>2 DEF IInv, SendokOK, SendtoOK, Steady, Live, Outstanding
  <1>6. DataOK' /\ PeerInOrder'
    BY <1>1, <1>2, DataKept DEF InFifo
  <1>7. FreeOK'
    BY <1>1, <1>2 DEF FreeOK, FreeSizeHonest
  <1> QED
    BY <1>3, <1>4, <1>5, <1>6, <1>7 DEF IInv

LEMMA SendtoDoneKeeps ==
    ASSUME IInv, SendtoDone
    PROVE  IInv'
  <1>1. /\ pc = "to_clear" /\ chan = "client" /\ ssr = "UDP" /\ sendok
        /\ sendok' = FALSE /\ accepted' = addr1 /\ pc' = "idle" /\ ret' = 0
        /\ fsr_hi' = 0 /\ isr_timeout' = FALSE /\ taken' = FALSE
        /\ UNCHANGED <<ssr, cr, wrsr, txfifo, fsr, timeout, air,
                       check_sendok_flag, addr1, chan, opens, peer, tainted>>
    BY DEF SendtoDone, Returned, NoCall, conn, IInv, CallOK, Live, SendtoPcs
  <1>2. TypeOK'
    BY <1>1 DEF IInv, TypeOK
  <1>3. CallOK'
    BY <1>1 DEF IInv, CallOK, Live, SstrgPcs, SendtoPcs
  <1>4. SendokOK' /\ SendtoOK'
    BY <1>1 DEF IInv, SendokOK, SendtoOK, Steady, Live, Outstanding
  <1>5. DataOK' /\ PeerInOrder'
    BY <1>1, DataKept DEF InFifo
  <1>6. FreeOK'
    BY <1>1 DEF FreeOK, FreeSizeHonest
  <1> QED
    BY <1>2, <1>3, <1>4, <1>5, <1>6 DEF IInv

-----------------------------------------------------------------------------
(* Opening and closing *)

LEMMA OpenKeeps ==
    ASSUME IInv, NEW user \in {"TCP", "UDP", "client"}, Open(user)
    PROVE  IInv'
  <1>1. /\ pc = "idle" /\ chan = "none" /\ opens < MaxOpens
        /\ chan' = user /\ opens' = opens + 1
        /\ ssr' \in IF user = "TCP" THEN {"ESTABLISHED", "CLOSED", "INIT"} ELSE {"UDP"}
        /\ txfifo' = <<>> /\ fsr' = TxMemory /\ cr' = "none" /\ wrsr' = 0 /\ air' = <<>>
        /\ check_sendok_flag' = TRUE
        /\ peer' = <<>> /\ accepted' = 0 /\ addr1' = 0
        /\ tainted' = (sendok \/ timeout)
        /\ UNCHANGED <<sendok, timeout, pc, ret, fsr_hi, isr_timeout, taken>>
    BY DEF Open, FirstSend, call
  <1>2. sendok \in BOOLEAN /\ timeout \in BOOLEAN /\ ~isr_timeout
    BY <1>1 DEF IInv, TypeOK, CallOK, Live
  <1>3. TypeOK'
    <2>1. {sendok, timeout, check_sendok_flag, isr_timeout, taken, tainted}' \subseteq BOOLEAN
      BY <1>1, <1>2 DEF IInv, TypeOK
    <2>2. txfifo' \in Seq(Int) /\ air' \in Seq(Int) /\ peer' \in Seq(Int)
      BY <1>1
    <2>3. wrsr' \in Nat /\ fsr' \in 0 .. TxMemory /\ opens' \in 0 .. MaxOpens
      BY <1>1, SendAssumption DEF SendAssumption, IInv, TypeOK
    <2>4. ssr' \in {"ESTABLISHED", "CLOSED", "INIT", "UDP"}
      BY <1>1
    <2> QED
      BY <1>1, <2>1, <2>2, <2>3, <2>4 DEF IInv, TypeOK
  <1>4. CallOK'
    BY <1>1, <1>2 DEF CallOK, Live, SstrgPcs, SendtoPcs
  <1>5. SendokOK' /\ SendtoOK'
    BY <1>1, <1>2 DEF SendokOK, SendtoOK, Steady, Live, Outstanding
  <1>6. DataOK'
    <2>1. Len(air') = 0 /\ Len(peer') = 0 /\ Len(txfifo') = 0
      <3>1. Len(<<>>) = 0
        OBVIOUS
      <3> QED
        BY <1>1, <3>1, Zenon
    <2>2. InFifo' = 0
      BY <1>1 DEF InFifo
    <2>3. Gone' = 0
      <3>1. addr1' = 0 /\ Pending' = 0
        BY <1>1 DEF Pending
      <3> QED
        BY <2>1, <3>1 DEF Gone
    <2> QED
      BY <1>1, <2>1, <2>2, <2>3 DEF DataOK
  <1>7. FreeOK' /\ PeerInOrder'
    BY <1>1 DEF FreeOK, FreeSizeHonest, PeerInOrder
  <1> QED
    BY <1>3, <1>4, <1>5, <1>6, <1>7 DEF IInv

\* DISCON takes the place of a SEND that the chip has not taken yet.
LEMMA DisconnectKeeps ==
    ASSUME IInv, Disconnect
    PROVE  IInv'
  <1>1. /\ pc = "idle" /\ chan # "none" /\ pc' = "close"
        /\ cr' = (IF chan = "TCP" THEN "none" ELSE cr)
        /\ sendok' = FALSE /\ timeout' = FALSE
        /\ UNCHANGED <<ssr, wrsr, txfifo, fsr, air, check_sendok_flag, addr1,
                       ret, fsr_hi, isr_timeout, taken, chan, opens,
                       peer, accepted, tainted>>
    BY DEF Disconnect, call, conn, history
  <1>2. TypeOK'
    <2>1. {sendok, timeout, check_sendok_flag, isr_timeout, taken, tainted}' \subseteq BOOLEAN
      BY <1>1 DEF IInv, TypeOK
    <2> QED
      BY <1>1, <2>1 DEF IInv, TypeOK
  <1>3. CallOK'
    BY <1>1 DEF IInv, CallOK, Live, SstrgPcs, SendtoPcs
  <1>4. SendokOK' /\ SendtoOK'
    BY <1>1 DEF IInv, SendokOK, SendtoOK, Steady, Live, Outstanding
  <1>5. DataOK'
    <2> SUFFICES ASSUME Steady PROVE DataOK'
      BY <1>1 DEF DataOK, Steady, Live
    <2> USE DEF IInv, DataOK, InFifo
    <2>1. /\ cr' \in {"none", cr} /\ (cr' = "none" /\ cr # "none" => chan = "TCP")
          /\ Steady' = Steady /\ InFifo' = 0 /\ InFifo = 0
          /\ cr = "SEND" => wrsr \in Nat
          /\ cr \in {"none", "SEND"}
      BY <1>1 DEF Steady, Live, TypeOK
    <2>2. addr1 \in Int /\ Len(air) \in Nat /\ Len(peer) \in Nat /\ peer \in Seq(Int)
      BY DEF TypeOK
    <2>3. Gone' = Gone \/ (Gone' >= Gone /\ cr = "SEND" /\ cr' = "none")
      BY <1>1, <2>1, <2>2 DEF Gone, Pending
    <2>4. Gone \in Int /\ Gone' \in Int
      BY <1>1, <2>1, <2>2 DEF Gone, Pending
    <2>5. \A k \in 1 .. Len(peer) : peer[k] <= Gone'
      <3> SUFFICES ASSUME NEW k \in 1 .. Len(peer) PROVE peer[k] <= Gone'
        OBVIOUS
      <3>1. peer[k] <= Gone /\ peer[k] \in Int
        BY <2>2
      <3> QED
        BY <2>3, <2>4, <3>1
    <2>6. Gone' >= 0
      BY <2>3, <2>4
    <2>7. chan = "TCP" /\ Outstanding' => Len(peer) = Gone'
      BY <1>1, <2>1 DEF Outstanding, SendokOK, Gone, Pending
    <2> QED
      BY <1>1, <2>1, <2>5, <2>6, <2>7
  <1>6. FreeOK'
    BY <1>1 DEF FreeOK, FreeSizeHonest
  <1>7. PeerInOrder'
    BY <1>1, PeerKept
  <1> QED
    BY <1>2, <1>3, <1>4, <1>5, <1>6, <1>7 DEF IInv

LEMMA CloseKeeps ==
    ASSUME IInv, Close
    PROVE  IInv'
  <1>1. /\ pc = "close" /\ ssr' = "CLOSED" /\ cr' = "none" /\ air' = <<>>
        /\ chan' = "none" /\ pc' = "idle"
        /\ UNCHANGED <<wrsr, txfifo, fsr, sendok, timeout, check_sendok_flag, addr1,
                       ret, fsr_hi, isr_timeout, taken, opens, peer, accepted, tainted>>
    BY DEF Close, call, history
  <1>2. TypeOK'
    <2>1. air' \in Seq(Int)
      BY <1>1
    <2> QED
      BY <1>1, <2>1 DEF IInv, TypeOK
  <1>3. CallOK'
    BY <1>1 DEF IInv, CallOK, Live, SstrgPcs, SendtoPcs
  <1>4. SendokOK' /\ SendtoOK' /\ DataOK'
    BY <1>1 DEF SendokOK, SendtoOK, DataOK, Steady, Live
  <1>5. FreeOK'
    BY <1>1 DEF FreeOK, FreeSizeHonest
  <1>6. PeerInOrder'
    BY <1>1 DEF IInv, PeerInOrder
  <1> QED
    BY <1>2, <1>3, <1>4, <1>5, <1>6 DEF IInv

-----------------------------------------------------------------------------
(* Steps that put bytes in the FIFO or give them to the chip *)

LEMMA WriteFifoKeeps ==
    ASSUME IInv, WriteFifo
    PROVE  IInv'
  <1>1. /\ pc = "fifo" /\ txfifo' = txfifo \o Written(ret)
        /\ tainted' = (tainted \/ Overfills(ret))
        /\ pc' = (IF check_sendok_flag THEN "command" ELSE "sendok")
        /\ check_sendok_flag' = FALSE
        /\ UNCHANGED <<ssr, cr, wrsr, fsr, sendok, timeout, air, addr1,
                       ret, fsr_hi, isr_timeout, taken, chan, opens, peer, accepted>>
    BY DEF WriteFifo, call, conn
  <1>2. /\ chan \in {"TCP", "UDP"} /\ ret \in Nat /\ ret > 0 /\ addr1 \in Int
        /\ txfifo \in Seq(Int) /\ check_sendok_flag \in BOOLEAN
        /\ pc' \in {"command", "sendok"}
    BY <1>1 DEF IInv, TypeOK, CallOK, Live, SstrgPcs
  <1>3. /\ Written(ret) \in Seq(Int) /\ Len(Written(ret)) = Even(ret)
        /\ \A k \in 1 .. ret : Written(ret)[k] = addr1 + k
        /\ Even(ret) \in Nat /\ ret <= Even(ret) /\ Even(ret) > 0
    BY <1>2, WrittenBytes, EvenIsEnough
  <1>4. /\ txfifo' \in Seq(Int) /\ Len(txfifo') = Len(txfifo) + Even(ret)
        /\ \A k \in 1 .. Len(txfifo) : txfifo'[k] = txfifo[k]
        /\ \A k \in 1 .. Even(ret) : txfifo'[Len(txfifo) + k] = Written(ret)[k]
    <2> DEFINE w == Written(ret)
    <2>1. w \in Seq(Int) /\ Len(w) = Even(ret)
      BY <1>3
    <2> HIDE DEF w
    <2>2. /\ txfifo \o w \in Seq(Int) /\ Len(txfifo \o w) = Len(txfifo) + Len(w)
          /\ \A k \in 1 .. Len(txfifo) : (txfifo \o w)[k] = txfifo[k]
          /\ \A k \in 1 .. Len(w) : (txfifo \o w)[Len(txfifo) + k] = w[k]
      BY <1>2, <2>1, Concatenated
    <2>3. txfifo' = txfifo \o w
      BY <1>1 DEF w
    <2>4. /\ txfifo' \in Seq(Int) /\ Len(txfifo') = Len(txfifo) + Even(ret)
          /\ \A k \in 1 .. Len(txfifo) : txfifo'[k] = txfifo[k]
          /\ \A k \in 1 .. Even(ret) : txfifo'[Len(txfifo) + k] = w[k]
      BY <2>1, <2>2, <2>3
    <2> QED
      BY <2>4 DEF w
  <1>5. tainted' \in BOOLEAN /\ (tainted => tainted')
    <2>1. Overfills(ret) \in BOOLEAN
      BY DEF Overfills
    <2> QED
      BY <1>1, <2>1 DEF IInv, TypeOK
  <1>6. TypeOK'
    <2>1. {sendok, timeout, check_sendok_flag, isr_timeout, taken, tainted}' \subseteq BOOLEAN
      BY <1>1, <1>5 DEF IInv, TypeOK
    <2> QED
      BY <1>1, <1>2, <1>4, <2>1 DEF IInv, TypeOK
  <1>7. CallOK'
    BY <1>1, <1>2, <1>5 DEF IInv, CallOK, SendokOK, Steady, Live, SstrgPcs, SendtoPcs
  <1>8. SendokOK' /\ SendtoOK'
    BY <1>1, <1>2, <1>5 DEF IInv, SendokOK, SendtoOK, Steady, Live, Outstanding
  <1>9. DataOK'
    <2> SUFFICES ASSUME Steady PROVE DataOK'
      BY <1>1, <1>5 DEF DataOK, Steady, Live
    <2>1. InFifo = 0 /\ InFifo' = Even(ret)
      BY <1>1, <1>2 DEF InFifo, Even, WordsToWrite
    <2>2. Gone' = Gone /\ Outstanding' = Outstanding
      BY <1>1 DEF Gone, Pending, Outstanding
    <2>3. cr = "SEND" => /\ wrsr > 0 /\ Len(txfifo) = Even(wrsr)
                         /\ \A k \in 1 .. wrsr : txfifo[k] = addr1 - wrsr + k
      <3>1. wrsr \in Nat /\ Even(wrsr) \in Nat
        BY EvenIsEnough DEF IInv, TypeOK
      <3>2. cr = "SEND" => /\ wrsr > 0 /\ Len(txfifo) = Even(wrsr) + 0
                           /\ \A k \in 1 .. wrsr : txfifo[k] = addr1 - wrsr + k
        BY <2>1 DEF IInv, DataOK
      <3> QED
        BY <3>1, <3>2
    <2>4. cr = "SEND" => Len(txfifo') = Even(wrsr) + InFifo'
      BY <1>4, <2>1, <2>3
    <2>5. cr = "SEND" => \A k \in 1 .. wrsr : txfifo'[k] = addr1 - wrsr + k
      <3> SUFFICES ASSUME cr = "SEND", NEW k \in 1 .. wrsr
                   PROVE  txfifo'[k] = addr1 - wrsr + k
        OBVIOUS
      <3>1. wrsr \in Nat
        BY DEF IInv, TypeOK
      <3>2. wrsr <= Even(wrsr) /\ Even(wrsr) \in Nat
        BY <3>1, EvenIsEnough
      <3>3. k \in 1 .. Len(txfifo)
        BY <2>3, <3>1, <3>2
      <3> QED
        BY <1>4, <2>3, <3>3
    <2>6. cr = "none" => Len(txfifo') = InFifo'
      BY <1>1, <1>3, <1>4, <2>1 DEF IInv, DataOK
    <2>7. \A k \in 1 .. ret : txfifo'[Len(txfifo') - InFifo' + k] = addr1 + k
      <3> SUFFICES ASSUME NEW k \in 1 .. ret
                   PROVE  txfifo'[Len(txfifo') - InFifo' + k] = addr1 + k
        OBVIOUS
      <3>1. k \in 1 .. Even(ret) /\ Len(txfifo') - InFifo' + k = Len(txfifo) + k
        BY <1>2, <1>3, <1>4, <2>1
      <3> QED
        BY <1>3, <1>4, <3>1
    <2> QED
      BY <1>1, <1>2, <2>2, <2>3, <2>4, <2>5, <2>6, <2>7 DEF IInv, DataOK
  <1>10. FreeOK'
    BY <1>1, <1>2 DEF FreeOK, FreeSizeHonest
  <1>11. PeerInOrder'
    BY <1>1, <1>5, PeerKept
  <1> QED
    BY <1>6, <1>7, <1>8, <1>9, <1>10, <1>11 DEF IInv

LEMMA GiveSendKeeps ==
    ASSUME IInv, GiveSend
    PROVE  IInv'
  <1>1. /\ pc = "command" /\ cr' = "SEND" /\ wrsr' = ret
        /\ addr1' = addr1 + ret /\ accepted' = accepted + ret
        /\ pc' = "idle" /\ ret' = 0 /\ fsr_hi' = 0 /\ isr_timeout' = FALSE /\ taken' = FALSE
        /\ UNCHANGED <<ssr, txfifo, fsr, sendok, timeout, air, check_sendok_flag,
                       chan, opens, peer, tainted>>
    BY DEF GiveSend, Command, Returned, NoCall, conn
  <1>2. chan \in {"TCP", "UDP"} /\ ret \in Nat /\ ret > 0 /\ addr1 \in Int
    BY <1>1 DEF IInv, TypeOK, CallOK, Live, SstrgPcs
  <1>3. TypeOK'
    <2>1. {sendok, timeout, check_sendok_flag, isr_timeout, taken, tainted}' \subseteq BOOLEAN
      BY <1>1 DEF IInv, TypeOK
    <2>2. addr1' \in Int /\ accepted' \in Int /\ wrsr' \in Nat
      BY <1>1, <1>2 DEF IInv, TypeOK
    <2> QED
      BY <1>1, <2>1, <2>2 DEF IInv, TypeOK
  <1>4. CallOK'
    BY <1>1, <1>2 DEF IInv, CallOK, Live, SstrgPcs, SendtoPcs
  <1>5. Steady => cr = "none" /\ air = <<>> /\ ~sendok /\ ~check_sendok_flag
    BY <1>1 DEF IInv, TypeOK, CallOK, SendokOK, Steady, Live, Outstanding
  <1>6. SendokOK' /\ SendtoOK'
    BY <1>1, <1>2, <1>5 DEF SendokOK, SendtoOK, Steady, Live, Outstanding
  <1>7. DataOK'
    <2> SUFFICES ASSUME Steady PROVE DataOK'
      BY <1>1 DEF DataOK, Steady, Live
    <2>1. InFifo = Even(ret) /\ InFifo' = 0 /\ Even(ret) \in Nat /\ Even(ret) > 0
      BY <1>1, <1>2, EvenIsEnough DEF InFifo
    <2>2. Len(txfifo) = Even(ret) /\ \A k \in 1 .. ret : txfifo[k] = addr1 + k
      <3>1. Len(txfifo) = Even(ret)
        BY <1>1, <1>5, <2>1 DEF IInv, DataOK
      <3>2. \A k \in 1 .. ret : txfifo[Len(txfifo) - InFifo + k] = addr1 + k
        BY <2>1 DEF IInv, DataOK
      <3>3. \A k \in 1 .. ret : Len(txfifo) - InFifo + k = k
        BY <1>2, <2>1, <3>1
      <3> QED
        BY <3>1, <3>2, <3>3
    <2>3. Gone = addr1 /\ Gone' = addr1 /\ Len(air) = 0
      BY <1>1, <1>2, <1>5 DEF Gone, Pending
    <2>4. \A k \in 1 .. ret : txfifo[k] = addr1' - ret + k
      BY <1>1, <1>2, <2>2
    <2>5. /\ Gone >= 0 /\ \A k \in 1 .. Len(peer) : peer[k] <= Gone
          /\ chan = "TCP" => Len(peer) = Gone
      BY <1>1 DEF IInv, DataOK
    <2>6. Len(txfifo) = Even(ret) + 0
      BY <2>1, <2>2
    <2> QED
      BY <1>1, <1>2, <1>5, <2>1, <2>3, <2>4, <2>5, <2>6 DEF DataOK, Even, WordsToWrite
  <1>8. FreeOK'
    BY <1>1 DEF FreeOK, FreeSizeHonest
  <1>9. PeerInOrder'
    BY <1>1, PeerKept
  <1> QED
    BY <1>3, <1>4, <1>6, <1>7, <1>8, <1>9 DEF IInv

LEMMA SendtoKeeps ==
    ASSUME IInv, NEW len \in 1 .. MaxLen, Sendto(len)
    PROVE  IInv'
  <1>1. /\ pc = "idle" /\ chan = "client" /\ txfifo' = txfifo \o Written(len)
        /\ tainted' = (tainted \/ Overfills(len))
        /\ cr' = "SEND" /\ wrsr' = len /\ ret' = len /\ addr1' = addr1 + len
        /\ pc' = "to_ir"
        /\ UNCHANGED <<ssr, fsr, sendok, timeout, air, check_sendok_flag, fsr_hi,
                       isr_timeout, taken, chan, opens, peer, accepted>>
    BY DEF Sendto, Command, conn
  <1>2. /\ len \in Nat /\ len > 0 /\ addr1 \in Int /\ txfifo \in Seq(Int)
        /\ ~isr_timeout /\ ssr = "UDP"
    BY <1>1, SendAssumption DEF SendAssumption, IInv, TypeOK, CallOK, Live
  <1>3. /\ Written(len) \in Seq(Int) /\ Len(Written(len)) = Even(len)
        /\ \A k \in 1 .. len : Written(len)[k] = addr1 + k
        /\ Even(len) \in Nat /\ len <= Even(len)
    BY <1>2, WrittenBytes, EvenIsEnough
  <1>4. /\ txfifo' \in Seq(Int) /\ Len(txfifo') = Len(txfifo) + Even(len)
        /\ \A k \in 1 .. Even(len) : txfifo'[Len(txfifo) + k] = Written(len)[k]
    <2> DEFINE w == Written(len)
    <2>1. w \in Seq(Int) /\ Len(w) = Even(len)
      BY <1>3
    <2> HIDE DEF w
    <2>2. /\ txfifo \o w \in Seq(Int) /\ Len(txfifo \o w) = Len(txfifo) + Len(w)
          /\ \A k \in 1 .. Len(txfifo) : (txfifo \o w)[k] = txfifo[k]
          /\ \A k \in 1 .. Len(w) : (txfifo \o w)[Len(txfifo) + k] = w[k]
      BY <1>2, <2>1, Concatenated
    <2>3. txfifo' = txfifo \o w
      BY <1>1 DEF w
    <2>4. /\ txfifo' \in Seq(Int) /\ Len(txfifo') = Len(txfifo) + Even(len)
          /\ \A k \in 1 .. Len(txfifo) : txfifo'[k] = txfifo[k]
          /\ \A k \in 1 .. Even(len) : txfifo'[Len(txfifo) + k] = w[k]
      BY <2>1, <2>2, <2>3
    <2> QED
      BY <2>4 DEF w
  <1>5. tainted' \in BOOLEAN /\ (tainted => tainted')
    <2>1. Overfills(len) \in BOOLEAN
      BY DEF Overfills
    <2> QED
      BY <1>1, <2>1 DEF IInv, TypeOK
  <1>6. TypeOK'
    <2>1. {sendok, timeout, check_sendok_flag, isr_timeout, taken, tainted}' \subseteq BOOLEAN
      BY <1>1, <1>5 DEF IInv, TypeOK
    <2>2. addr1' \in Int
      BY <1>1, <1>2
    <2> QED
      BY <1>1, <1>2, <1>4, <2>1, <2>2 DEF IInv, TypeOK
  <1>7. CallOK'
    BY <1>1, <1>2 DEF IInv, CallOK, Live, SstrgPcs, SendtoPcs
  <1>8. ~tainted => ~Outstanding /\ cr = "none" /\ air = <<>> /\ ~sendok /\ ~timeout
    BY <1>1 DEF IInv, TypeOK, SendtoOK, Outstanding
  <1>9. SendokOK' /\ SendtoOK'
    BY <1>1, <1>2, <1>5, <1>8 DEF SendokOK, SendtoOK, Steady, Live, Outstanding
  <1>10. DataOK'
    <2> SUFFICES ASSUME ~tainted PROVE DataOK'
      BY <1>5 DEF DataOK, Steady, Live
    <2>1. Steady /\ InFifo = 0 /\ InFifo' = 0
      BY <1>1, <1>2 DEF Steady, Live, InFifo
    <2>2. Len(txfifo) = 0 /\ Len(txfifo') = Even(len) + 0
      BY <1>1, <1>3, <1>4, <1>8, <2>1 DEF IInv, DataOK
    <2>3. \A k \in 1 .. len : txfifo'[k] = addr1' - len + k
      <3> SUFFICES ASSUME NEW k \in 1 .. len PROVE txfifo'[k] = addr1' - len + k
        OBVIOUS
      <3>1. k \in 1 .. Even(len) /\ Len(txfifo) + k = k
        BY <1>2, <1>3, <2>2
      <3>2. txfifo'[k] = Written(len)[k]
        BY <1>4, <3>1
      <3> QED
        BY <1>1, <1>2, <1>3, <3>2
    <2>4. Gone = addr1 /\ Gone' = addr1 /\ Len(air) = 0
      BY <1>1, <1>2, <1>8 DEF Gone, Pending
    <2>5. Gone >= 0 /\ \A k \in 1 .. Len(peer) : peer[k] <= Gone
      BY <2>1 DEF IInv, DataOK
    <2> QED
      BY <1>1, <1>2, <1>8, <2>1, <2>2, <2>3, <2>4, <2>5 DEF DataOK, Even, WordsToWrite
  <1>11. FreeOK'
    BY <1>1 DEF FreeOK, FreeSizeHonest
  <1>12. PeerInOrder'
    BY <1>1, <1>5, PeerKept
  <1> QED
    BY <1>6, <1>7, <1>9, <1>10, <1>11, <1>12 DEF IInv

-----------------------------------------------------------------------------
(* The chip, the network and the peer *)

\* The bytes of the SEND go on the air, and what is behind them in the FIFO moves
\* to its head.
LEMMA TakeSendKeeps ==
    ASSUME IInv, TakeSend
    PROVE  IInv'
  <1>1. /\ cr = "SEND" /\ cr' = "none"
        /\ UNCHANGED <<ssr, wrsr, sendok, timeout, check_sendok_flag, pc, addr1, ret,
                       fsr_hi, isr_timeout, chan, opens, peer, accepted, tainted>>
    BY DEF TakeSend, conn, history
  <1>2. CASE ~Live
    <2>1. UNCHANGED <<txfifo, fsr, air, taken>>
      BY <1>2 DEF TakeSend
    <2>2. TypeOK'
      BY <1>1, <2>1 DEF IInv, TypeOK
    <2>3. CallOK'
      BY <1>1, <2>1 DEF IInv, CallOK, Live
    <2>4. SendokOK' /\ DataOK'
      BY <1>1, <1>2 DEF SendokOK, DataOK, Steady, Live
    <2>5. SendtoOK'
      BY <1>1, <1>2 DEF IInv, CallOK, Live, SendtoOK
    <2>6. FreeOK' /\ PeerInOrder'
      BY <1>1, <2>1, PeerKept DEF IInv, FreeOK, FreeSizeHonest
    <2> QED
      BY <2>2, <2>3, <2>4, <2>5, <2>6 DEF IInv
  <1>3. CASE Live
    <2> DEFINE size == Shorter(wrsr, Len(txfifo))
               words == Shorter(2 * ((wrsr + 1) \div 2), Len(txfifo))
    <2>1. /\ air' = air \o SubSeq(txfifo, 1, size)
          /\ txfifo' = SubSeq(txfifo, words + 1, Len(txfifo))
          /\ fsr' = fsr - Shorter(wrsr, fsr) /\ taken' = (pc # "idle")
      BY <1>3 DEF TakeSend
    <2>2. /\ wrsr \in Nat /\ fsr \in 0 .. TxMemory /\ TxMemory \in Nat
          /\ txfifo \in Seq(Int) /\ Len(txfifo) \in Nat /\ air \in Seq(Int) /\ addr1 \in Int
          /\ Even(wrsr) \in Nat /\ wrsr <= Even(wrsr) /\ 2 * ((wrsr + 1) \div 2) = Even(wrsr)
      BY EvenIsEnough, LengthIsNat, SendAssumption DEF SendAssumption, IInv, TypeOK
    <2>3. size \in 0 .. Len(txfifo) /\ words \in 0 .. Len(txfifo)
      BY <2>2 DEF Shorter
    <2>4. /\ SubSeq(txfifo, 1, size) \in Seq(Int) /\ Len(SubSeq(txfifo, 1, size)) = size
          /\ \A k \in 1 .. size : SubSeq(txfifo, 1, size)[k] = txfifo[k]
      BY <2>2, <2>3, FrontPart
    <2>5. /\ txfifo' \in Seq(Int) /\ Len(txfifo') = Len(txfifo) - words
          /\ \A k \in 1 .. Len(txfifo) - words : txfifo'[k] = txfifo[words + k]
      BY <2>1, <2>2, <2>3, BackPart
    <2> HIDE DEF size, words
    <2> DEFINE part == SubSeq(txfifo, 1, size)
    <2> HIDE DEF part
    <2>6. air' \in Seq(Int)
      <3>1. part \in Seq(Int)
        BY <2>4 DEF part
      <3>2. air \o part \in Seq(Int)
        BY <2>2, <3>1, Concatenated
      <3> QED
        BY <2>1, <3>2 DEF part
    <2>7. TypeOK'
      <3>1. fsr' \in 0 .. TxMemory
        BY <2>1, <2>2 DEF Shorter
      <3>2. {sendok, timeout, check_sendok_flag, isr_timeout, taken, tainted}' \subseteq BOOLEAN
        BY <1>1, <2>1 DEF IInv, TypeOK
      <3> QED
        BY <1>1, <2>5, <2>6, <3>1, <3>2 DEF IInv, TypeOK
    <2>8. CallOK'
      BY <1>1, <1>3 DEF IInv, CallOK, Live
    <2>9. Outstanding
      BY <1>1 DEF Outstanding
    <2>10. SendokOK'
      BY <1>1, <2>9 DEF IInv, SendokOK, Steady, Live
    <2>11. SendtoOK'
      BY <1>1, <2>9 DEF IInv, SendtoOK
    <2>12. DataOK'
      <3> SUFFICES ASSUME Steady PROVE DataOK'
        BY <1>1 DEF DataOK, Steady, Live
      <3> DEFINE rest == InFifo
      <3>1. /\ air = <<>> /\ wrsr > 0 /\ Len(txfifo) = Even(wrsr) + rest
            /\ \A k \in 1 .. wrsr : txfifo[k] = addr1 - wrsr + k
            /\ rest > 0 => \A k \in 1 .. ret : txfifo[Len(txfifo) - rest + k] = addr1 + k
        BY <1>1 DEF IInv, SendokOK, DataOK
      <3>2. rest \in Nat /\ InFifo' = rest /\ ret \in Nat /\ (rest > 0 => ret <= rest)
        BY <1>1, EvenIsEnough DEF InFifo, IInv, TypeOK, Even, WordsToWrite
      <3> HIDE DEF rest
      <3>3. size = wrsr /\ words = Even(wrsr)
        BY <2>2, <3>1, <3>2 DEF size, words, Shorter
      <3>4. Len(air') = wrsr /\ \A k \in 1 .. wrsr : air'[k] = addr1 - wrsr + k
        <4>1. part \in Seq(Int) /\ Len(part) = wrsr /\ \A k \in 1 .. wrsr : part[k] = txfifo[k]
          BY <2>4, <3>3 DEF part
        <4>2. <<>> \o part = part
          BY <4>1
        <4>3. air' = part
          BY <2>1, <3>1, <4>2 DEF part
        <4> QED
          BY <3>1, <4>1, <4>3
      <3>5. Len(txfifo') = rest
        BY <2>2, <2>5, <3>1, <3>2, <3>3
      <3>6. rest > 0 => \A k \in 1 .. ret : txfifo'[Len(txfifo') - InFifo' + k] = addr1 + k
        <4> SUFFICES ASSUME rest > 0, NEW k \in 1 .. ret
                     PROVE  txfifo'[Len(txfifo') - InFifo' + k] = addr1 + k
          OBVIOUS
        <4>0. Len(txfifo) - words = rest /\ k \in Nat /\ k <= rest
          <5>1. Len(txfifo) - words = rest
            BY <2>2, <3>1, <3>2, <3>3
          <5>2. k \in Nat /\ k <= ret /\ ret <= rest
            BY <3>2
          <5> QED
            BY <3>2, <5>1, <5>2
        <4>1. k \in 1 .. Len(txfifo) - words /\ Len(txfifo') - InFifo' + k = k
          <5>1. Len(txfifo') - InFifo' + k = k
            BY <3>2, <3>5, <4>0
          <5> QED
            BY <3>2, <4>0, <5>1
        <4>2. Len(txfifo) - rest + k = words + k
          BY <2>2, <3>1, <3>2, <3>3
        <4> QED
          BY <2>5, <3>1, <4>1, <4>2
      <3>7. Gone' = Gone
        <4>1. Len(air) = 0
          BY <3>1
        <4> QED
          BY <1>1, <2>2, <3>4, <4>1 DEF Gone, Pending
      <3> QED
        BY <1>1, <2>9, <3>2, <3>4, <3>5, <3>6, <3>7 DEF IInv, DataOK
    <2>13. FreeOK'
      BY <1>1, <2>1 DEF FreeOK, FreeSizeHonest
    <2>14. PeerInOrder'
      BY <1>1, PeerKept
    <2> QED
      BY <2>7, <2>8, <2>10, <2>11, <2>12, <2>13, <2>14 DEF IInv
  <1> QED
    BY <1>2, <1>3

\* The beginning of what is in the air joins what the peer has, in order.
LEMMA Joined ==
    ASSUME IInv, Steady, air # <<>>, NEW n \in 0 .. Len(air),
           peer' = peer \o SubSeq(air, 1, n), chan' = chan
    PROVE  /\ peer' \in Seq(Int) /\ Len(peer') = Len(peer) + n /\ PeerInOrder'
           /\ \A k \in 1 .. Len(peer') : peer'[k] <= addr1 - Len(air) + n
           /\ n > 0 => peer'[Len(peer')] = addr1 - Len(air) + n
           /\ cr = "none"
  <1> DEFINE part == SubSeq(air, 1, n)
             base == addr1 - Len(air)
  <1>1. air \in Seq(Int) /\ peer \in Seq(Int) /\ addr1 \in Int /\ Len(air) \in Nat
        /\ Len(peer) \in Nat
    BY LengthIsNat DEF IInv, TypeOK
  <1>2. cr = "none"
    BY DEF IInv, TypeOK, SendokOK, Steady, Live
  <1>3. Gone = base /\ base \in Int
    BY <1>1, <1>2 DEF Gone, Pending
  <1>4. /\ base >= 0 /\ \A k \in 1 .. Len(air) : air[k] = base + k
        /\ \A k \in 1 .. Len(peer) : peer[k] <= base
        /\ chan = "TCP" => Len(peer) = base
    BY <1>3 DEF IInv, DataOK, Outstanding
  <1>5. /\ part \in Seq(Int) /\ Len(part) = n
        /\ \A k \in 1 .. n : part[k] = air[k]
    BY <1>1, FrontPart
  <1> HIDE DEF part, base
  <1>6. \A k \in 1 .. n : part[k] = base + k
    <2> SUFFICES ASSUME NEW k \in 1 .. n PROVE part[k] = base + k
      OBVIOUS
    <2>1. k \in 1 .. Len(air)
      BY <1>1
    <2> QED
      BY <1>4, <1>5, <2>1
  <1>7. /\ peer \o part \in Seq(Int) /\ Len(peer \o part) = Len(peer) + Len(part)
        /\ \A k \in 1 .. Len(peer) : (peer \o part)[k] = peer[k]
        /\ \A k \in 1 .. Len(part) : (peer \o part)[Len(peer) + k] = part[k]
    BY <1>1, <1>5, Concatenated
  <1>8. /\ peer' \in Seq(Int) /\ Len(peer') = Len(peer) + n
        /\ \A k \in 1 .. Len(peer) : peer'[k] = peer[k]
        /\ \A k \in 1 .. n : peer'[Len(peer) + k] = base + k
    BY <1>5, <1>6, <1>7 DEF part
  <1>9. \A k \in 1 .. Len(peer') : k > Len(peer) => peer'[k] = base + (k - Len(peer))
    <2> SUFFICES ASSUME NEW k \in 1 .. Len(peer'), k > Len(peer)
                 PROVE  peer'[k] = base + (k - Len(peer))
      OBVIOUS
    <2>1. k - Len(peer) \in 1 .. n /\ Len(peer) + (k - Len(peer)) = k
      BY <1>1, <1>8
    <2> QED
      BY <1>8, <2>1
  <1>10. \A k \in 1 .. Len(peer) : peer[k] \in Int
    BY <1>1
  <1>11. /\ \A k \in 1 .. Len(peer) - 1 : peer[k] < peer[k + 1]
         /\ \A k \in 1 .. Len(peer) : peer[k] > 0 /\ (chan = "TCP" => peer[k] = k)
    BY DEF IInv, PeerInOrder, Steady, Live
  <1>12. \A k \in 1 .. Len(peer') : peer'[k] <= base + n
    <2> SUFFICES ASSUME NEW k \in 1 .. Len(peer') PROVE peer'[k] <= base + n
      OBVIOUS
    <2>1. CASE k > Len(peer)
      BY <1>1, <1>3, <1>8, <1>9, <2>1
    <2>2. CASE ~ (k > Len(peer))
      <3>1. k \in 1 .. Len(peer)
        BY <1>1, <1>8, <2>2
      <3> QED
        BY <1>1, <1>3, <1>4, <1>8, <1>10, <3>1
    <2> QED
      BY <2>1, <2>2
  <1>13. n > 0 => peer'[Len(peer')] = base + n
    <2> SUFFICES ASSUME n > 0 PROVE peer'[Len(peer')] = base + n
      OBVIOUS
    <2>1. Len(peer') \in 1 .. Len(peer') /\ Len(peer') > Len(peer) /\ Len(peer') - Len(peer) = n
      BY <1>1, <1>8
    <2> QED
      BY <1>9, <2>1
  <1>14. \A k \in 1 .. Len(peer') - 1 : peer'[k] < peer'[k + 1]
    <2> SUFFICES ASSUME NEW k \in 1 .. Len(peer') - 1 PROVE peer'[k] < peer'[k + 1]
      OBVIOUS
    <2>1. k + 1 \in 1 .. Len(peer') /\ k \in 1 .. Len(peer')
      BY <1>1, <1>8
    <2>2. CASE k + 1 <= Len(peer)
      <3>1. k \in 1 .. Len(peer) - 1 /\ k \in 1 .. Len(peer) /\ k + 1 \in 1 .. Len(peer)
        BY <1>1, <2>2
      <3> QED
        BY <1>8, <1>11, <3>1
    <2>3. CASE k = Len(peer)
      <3>1. k \in 1 .. Len(peer) /\ k + 1 > Len(peer) /\ k + 1 - Len(peer) = 1
        BY <1>1, <2>3
      <3>2. peer'[k + 1] = base + 1 /\ peer'[k] <= base /\ peer'[k] \in Int
        BY <1>4, <1>8, <1>9, <1>10, <2>1, <3>1
      <3> QED
        BY <1>3, <3>2
    <2>4. CASE k > Len(peer)
      BY <1>1, <1>3, <1>8, <1>9, <2>1, <2>4
    <2> QED
      BY <1>1, <2>2, <2>3, <2>4
  <1>15. \A k \in 1 .. Len(peer') : peer'[k] > 0 /\ (chan = "TCP" => peer'[k] = k)
    <2> SUFFICES ASSUME NEW k \in 1 .. Len(peer')
                 PROVE  peer'[k] > 0 /\ (chan = "TCP" => peer'[k] = k)
      OBVIOUS
    <2>1. CASE k > Len(peer)
      BY <1>1, <1>3, <1>4, <1>8, <1>9, <2>1
    <2>2. CASE ~ (k > Len(peer))
      <3>1. k \in 1 .. Len(peer)
        BY <1>1, <1>8, <2>2
      <3> QED
        BY <1>8, <1>11, <3>1
    <2> QED
      BY <2>1, <2>2
  <1>16. PeerInOrder'
    BY <1>14, <1>15 DEF PeerInOrder
  <1> QED
    BY <1>2, <1>8, <1>12, <1>13, <1>16 DEF base

\* While bytes are in the air, the connection lives and the call waits.
LEMMA InTheAir ==
    ASSUME IInv, air # <<>>
    PROVE  /\ Live /\ Len(air) \in Nat /\ Len(air) > 0
           /\ ~tainted => Steady /\ Outstanding
  <1>1. Live /\ air \in Seq(Int)
    BY DEF IInv, CallOK, TypeOK
  <1> QED
    BY <1>1, LengthIsNat DEF Steady, Outstanding

LEMMA TransmittedKeeps ==
    ASSUME IInv, Transmitted
    PROVE  IInv'
  <1>1. /\ air # <<>> /\ peer' = peer \o air /\ air' = <<>> /\ sendok' = TRUE
        /\ fsr' = (IF chan = "TCP" THEN fsr ELSE TxMemory)
        /\ UNCHANGED <<ssr, cr, wrsr, txfifo, timeout, check_sendok_flag, pc, addr1,
                       ret, fsr_hi, isr_timeout, taken, chan, opens, accepted, tainted>>
    BY DEF Transmitted, call, conn
  <1>2. peer' = peer \o SubSeq(air, 1, Len(air)) /\ Len(air) \in 0 .. Len(air)
    <2>1. air = SubSeq(air, 1, Len(air)) /\ Len(air) \in Nat
      BY LengthIsNat DEF IInv, TypeOK
    <2> QED
      BY <1>1, <2>1
  <1>3. TypeOK'
    <2>1. {sendok, timeout, check_sendok_flag, isr_timeout, taken, tainted}' \subseteq BOOLEAN
      BY <1>1 DEF IInv, TypeOK
    <2>2. air' \in Seq(Int) /\ peer' \in Seq(Int)
      BY <1>1, Concatenated DEF IInv, TypeOK
    <2>3. fsr' \in 0 .. TxMemory
      BY <1>1, SendAssumption DEF SendAssumption, IInv, TypeOK
    <2> QED
      BY <1>1, <2>1, <2>2, <2>3 DEF IInv, TypeOK
  <1>4. CallOK'
    <2>1. pc = "command" => tainted
      BY <1>1, InTheAir DEF IInv, SendokOK
    <2> QED
      BY <1>1, <2>1 DEF IInv, CallOK, Live
  <1>5. ASSUME ~tainted
        PROVE  /\ Steady /\ Outstanding /\ cr = "none"
               /\ peer' \in Seq(Int) /\ Len(peer') = Len(peer) + Len(air) /\ PeerInOrder'
               /\ \A k \in 1 .. Len(peer') : peer'[k] <= addr1
               /\ Len(peer') > 0 /\ peer'[Len(peer')] = addr1
    <2>1. Steady /\ Outstanding /\ Len(air) \in Nat /\ Len(air) > 0 /\ addr1 \in Int
          /\ Len(peer) \in Nat
      BY <1>1, <1>5, InTheAir, LengthIsNat DEF IInv, TypeOK
    <2>2. /\ peer' \in Seq(Int) /\ Len(peer') = Len(peer) + Len(air) /\ PeerInOrder'
          /\ \A k \in 1 .. Len(peer') : peer'[k] <= addr1 - Len(air) + Len(air)
          /\ peer'[Len(peer')] = addr1 - Len(air) + Len(air)
          /\ cr = "none"
      BY <1>1, <1>2, <2>1, Joined
    <2>3. addr1 - Len(air) + Len(air) = addr1
      BY <2>1
    <2> QED
      BY <2>1, <2>2, <2>3
  <1>6. SendokOK'
    <2> SUFFICES ASSUME ~tainted PROVE SendokOK'
      BY <1>1 DEF SendokOK, Steady, Live
    <2>1. Outstanding' = FALSE
      BY <1>1, <1>5 DEF Outstanding
    <2>2. ~(chan # "client" /\ check_sendok_flag)
      BY <1>5 DEF IInv, SendokOK
    <2> QED
      BY <1>1, <1>5, <2>1, <2>2 DEF SendokOK
  <1>7. SendtoOK'
    <2> SUFFICES ASSUME ~tainted, chan = "client", pc # "close" PROVE SendtoOK'
      BY <1>1 DEF SendtoOK
    <2>1. Outstanding' = FALSE
      BY <1>1, <1>5 DEF Outstanding
    <2>2. pc \in {"to_ir", "to_status"} /\ ~timeout /\ (isr_timeout => timeout)
      BY <1>5 DEF IInv, SendtoOK
    <2>3. peer' # <<>>
      BY <1>5, LengthIsNat
    <2> QED
      BY <1>1, <1>5, <2>1, <2>2, <2>3 DEF SendtoOK
  <1>8. DataOK'
    <2> SUFFICES ASSUME ~tainted PROVE DataOK'
      BY <1>1 DEF DataOK, Steady, Live
    <2>1. Len(air') = 0
      BY <1>1, LengthIsNat
    <2>2. addr1 \in Int /\ Len(air) \in Nat /\ Len(peer) \in Nat
      BY LengthIsNat DEF IInv, TypeOK
    <2>3. Gone' = addr1 /\ Gone = addr1 - Len(air)
      BY <1>1, <1>5, <2>1, <2>2 DEF Gone, Pending
    <2>4. Gone' >= 0
      BY <1>5, <2>2, <2>3 DEF IInv, DataOK
    <2>5. chan = "TCP" => Len(peer') = Gone'
      <3>1. chan = "TCP" => Len(peer) = Gone
        BY <1>5 DEF IInv, DataOK
      <3> QED
        BY <1>5, <2>2, <2>3, <3>1
    <2>6. InFifo' = InFifo
      BY <1>1 DEF InFifo, Even, WordsToWrite
    <2>7. /\ pc # "close" => Len(txfifo) = InFifo
          /\ InFifo > 0 => \A k \in 1 .. ret : txfifo[Len(txfifo) - InFifo + k] = addr1 + k
      BY <1>5 DEF IInv, DataOK
    <2>8. \A k \in 1 .. Len(peer') : peer'[k] <= Gone'
      BY <1>5, <2>3
    <2>9. \A k \in 1 .. Len(air') : air'[k] = addr1' - Len(air') + k
      BY <2>1
    <2> QED
      BY <1>1, <1>5, <2>4, <2>5, <2>6, <2>7, <2>8, <2>9 DEF DataOK
  <1>9. FreeOK'
    <2>1. fsr \in Nat /\ fsr' \in Nat /\ fsr <= fsr'
      BY <1>1, SendAssumption DEF SendAssumption, IInv, TypeOK
    <2> QED
      BY <1>1, <2>1, FreeGrows
  <1>10. PeerInOrder'
    <2>1. CASE tainted
      BY <1>1, <2>1 DEF PeerInOrder
    <2> QED
      BY <1>5, <2>1
  <1> QED
    BY <1>3, <1>4, <1>6, <1>7, <1>8, <1>9, <1>10 DEF IInv

LEMMA NoHostKeeps ==
    ASSUME IInv, NoHost
    PROVE  IInv'
  <1>1. /\ chan # "TCP" /\ air # <<>> /\ air' = <<>> /\ timeout' = TRUE /\ fsr' = TxMemory
        /\ UNCHANGED <<ssr, cr, wrsr, txfifo, sendok, check_sendok_flag, pc, addr1,
                       ret, fsr_hi, isr_timeout, taken, chan, opens, peer, accepted, tainted>>
    BY DEF NoHost, call, conn, history
  <1>2. TypeOK'
    <2>1. {sendok, timeout, check_sendok_flag, isr_timeout, taken, tainted}' \subseteq BOOLEAN
      BY <1>1 DEF IInv, TypeOK
    <2>2. air' \in Seq(Int)
      BY <1>1
    <2>3. fsr' \in 0 .. TxMemory
      BY <1>1, SendAssumption DEF SendAssumption
    <2> QED
      BY <1>1, <2>1, <2>2, <2>3 DEF IInv, TypeOK
  <1>3. CallOK'
    BY <1>1 DEF IInv, CallOK, Live
  <1>4. ~tainted => Steady /\ Outstanding /\ cr = "none"
    BY <1>1, InTheAir DEF IInv, TypeOK, SendokOK
  <1>5. SendokOK'
    BY <1>1, <1>4 DEF IInv, SendokOK, Steady, Live, Outstanding
  <1>6. SendtoOK'
    BY <1>1, <1>4 DEF IInv, SendokOK, SendtoOK, Outstanding
  <1>7. DataOK'
    <2> SUFFICES ASSUME ~tainted PROVE DataOK'
      BY <1>1 DEF DataOK, Steady, Live
    <2>1. Len(air') = 0 /\ addr1 \in Int /\ Len(air) \in Nat /\ Len(peer) \in Nat
          /\ peer \in Seq(Int)
      BY <1>1, LengthIsNat DEF IInv, TypeOK
    <2>2. Gone' = addr1 /\ Gone = addr1 - Len(air)
      BY <1>1, <1>4, <2>1 DEF Gone, Pending
    <2>3. Gone >= 0 /\ \A k \in 1 .. Len(peer) : peer[k] <= Gone
      BY <1>4 DEF IInv, DataOK
    <2>4. \A k \in 1 .. Len(peer) : peer[k] <= Gone'
      <3> SUFFICES ASSUME NEW k \in 1 .. Len(peer) PROVE peer[k] <= Gone'
        OBVIOUS
      <3>1. peer[k] \in Int
        BY <2>1
      <3> QED
        BY <2>1, <2>2, <2>3, <3>1
    <2>5. InFifo' = InFifo
      BY <1>1 DEF InFifo, Even, WordsToWrite
    <2>6. /\ pc # "close" => Len(txfifo) = InFifo
          /\ InFifo > 0 => \A k \in 1 .. ret : txfifo[Len(txfifo) - InFifo + k] = addr1 + k
      BY <1>4 DEF IInv, DataOK
    <2>7. Gone' >= 0
      BY <2>1, <2>2, <2>3
    <2>8. \A k \in 1 .. Len(air') : air'[k] = addr1' - Len(air') + k
      BY <2>1
    <2> QED
      BY <1>1, <1>4, <2>4, <2>5, <2>6, <2>7, <2>8 DEF DataOK
  <1>8. FreeOK'
    <2>1. fsr \in Nat /\ fsr' \in Nat /\ fsr <= fsr'
      BY <1>1, SendAssumption DEF SendAssumption, IInv, TypeOK
    <2> QED
      BY <1>1, <2>1, FreeGrows
  <1>9. PeerInOrder'
    BY <1>1, PeerKept
  <1> QED
    BY <1>2, <1>3, <1>5, <1>6, <1>7, <1>8, <1>9 DEF IInv

LEMMA AckKeeps ==
    ASSUME IInv, Ack
    PROVE  IInv'
  <1>1. /\ fsr' \in fsr + 1 .. TxMemory - Len(air)
        /\ UNCHANGED <<ssr, cr, wrsr, txfifo, sendok, timeout, air, check_sendok_flag,
                       pc, addr1, ret, fsr_hi, isr_timeout, taken, chan, opens,
                       peer, accepted, tainted>>
    BY DEF Ack, call, conn, history
  <1>2. /\ fsr \in Nat /\ fsr' \in Nat /\ fsr <= fsr' /\ fsr' \in 0 .. TxMemory
    BY <1>1, LengthIsNat, SendAssumption DEF SendAssumption, IInv, TypeOK
  <1>3. TypeOK'
    BY <1>1, <1>2 DEF IInv, TypeOK
  <1>4. CallOK' /\ SendokOK' /\ SendtoOK'
    BY <1>1 DEF IInv, CallOK, SendokOK, SendtoOK, Steady, Live, Outstanding
  <1>5. Steady' = Steady /\ Gone' = Gone /\ InFifo' = InFifo /\ Outstanding' = Outstanding
    BY <1>1 DEF Steady, Live, Gone, Pending, InFifo, Even, WordsToWrite, Outstanding
  <1>6. DataOK'
    BY <1>1, <1>5 DEF IInv, DataOK
  <1>7. FreeOK'
    BY <1>1, <1>2, FreeGrows
  <1>8. PeerInOrder'
    BY <1>1, PeerKept
  <1> QED
    BY <1>3, <1>4, <1>6, <1>7, <1>8 DEF IInv

LEMMA PeerFinKeeps ==
    ASSUME IInv, PeerFin
    PROVE  IInv'
  <1>1. /\ ssr = "ESTABLISHED" /\ ssr' = "CLOSE_WAIT"
        /\ UNCHANGED <<cr, wrsr, txfifo, fsr, sendok, timeout, air, check_sendok_flag,
                       pc, addr1, ret, fsr_hi, isr_timeout, taken, chan, opens,
                       peer, accepted, tainted>>
    BY DEF PeerFin, call, conn, history
  <1>2. TypeOK'
    BY <1>1 DEF IInv, TypeOK
  <1>3. CallOK' /\ SendokOK' /\ SendtoOK'
    BY <1>1 DEF IInv, CallOK, SendokOK, SendtoOK, Steady, Live, Outstanding
  <1>4. Steady' = Steady /\ Gone' = Gone /\ InFifo' = InFifo /\ Outstanding' = Outstanding
    BY <1>1 DEF Steady, Live, Gone, Pending, InFifo, Even, WordsToWrite, Outstanding
  <1>5. DataOK'
    BY <1>1, <1>4 DEF IInv, DataOK
  <1>6. FreeOK' /\ PeerInOrder'
    BY <1>1, PeerKept DEF IInv, FreeOK, FreeSizeHonest
  <1> QED
    BY <1>2, <1>3, <1>5, <1>6 DEF IInv

LEMMA LostKeeps ==
    ASSUME IInv, Lost
    PROVE  IInv'
  <1>1. /\ ssr \in {"ESTABLISHED", "CLOSE_WAIT"} /\ ssr' = "CLOSED" /\ air' = <<>>
        /\ UNCHANGED <<cr, wrsr, txfifo, fsr, sendok, timeout, check_sendok_flag, pc,
                       addr1, ret, fsr_hi, isr_timeout, taken, chan, opens, accepted, tainted>>
    BY DEF Lost, call, conn
  <1>2. PICK n \in 0 .. Len(air) : peer' = peer \o SubSeq(air, 1, n)
    BY DEF Lost
  <1>3. air \in Seq(Int) /\ peer \in Seq(Int)
    BY DEF IInv, TypeOK
  <1>4. peer' \in Seq(Int)
    <2> DEFINE part == SubSeq(air, 1, n)
    <2>1. part \in Seq(Int)
      BY <1>3, FrontPart
    <2> HIDE DEF part
    <2>2. peer \o part \in Seq(Int)
      BY <1>3, <2>1, Concatenated
    <2> QED
      BY <1>2, <2>2 DEF part
  <1>5. TypeOK'
    <2>1. air' \in Seq(Int)
      BY <1>1
    <2> QED
      BY <1>1, <1>4, <2>1 DEF IInv, TypeOK
  <1>6. CallOK'
    BY <1>1 DEF IInv, CallOK, Live
  <1>7. SendokOK' /\ DataOK'
    BY <1>1 DEF SendokOK, DataOK, Steady, Live
  <1>8. SendtoOK'
    BY <1>1 DEF IInv, CallOK, Live, SendtoOK
  <1>9. FreeOK'
    BY <1>1 DEF IInv, FreeOK, FreeSizeHonest
  <1>10. PeerInOrder'
    <2>1. CASE tainted
      BY <1>1, <2>1 DEF PeerInOrder
    <2>2. CASE ~tainted /\ air # <<>>
      BY <1>1, <1>2, <2>2, InTheAir, Joined
    <2>3. CASE ~tainted /\ air = <<>>
      <3>1. SubSeq(air, 1, n) = <<>>
        BY <2>3
      <3>2. peer' = peer
        <4>1. peer \o <<>> = peer
          BY <1>3
        <4> QED
          BY <1>2, <3>1, <4>1, Zenon
      <3> QED
        BY <1>1, <3>2, PeerKept
    <2> QED
      BY <2>1, <2>2, <2>3
  <1> QED
    BY <1>5, <1>6, <1>7, <1>8, <1>9, <1>10 DEF IInv

-----------------------------------------------------------------------------
(* The theorems *)

LEMMA NextIInv ==
    IInv /\ [Next]_vars => IInv'
  <1> SUFFICES ASSUME IInv, [Next]_vars PROVE IInv'
    OBVIOUS
  <1>1. CASE \E user \in {"TCP", "UDP", "client"} : Open(user)
    BY <1>1, OpenKeeps
  <1>2. CASE Disconnect
    BY <1>2, DisconnectKeeps
  <1>3. CASE \E len \in 1 .. MaxLen : Sstrg(len) \/ Sendto(len)
    BY <1>3, SstrgKeeps, SendtoKeeps
  <1>4. CASE Driver
    BY <1>4, ReadFsrHighKeeps, ReadFsrLowKeeps, WriteFifoKeeps, ReadIrKeeps,
       ReadStatusKeeps, ClearSendokKeeps, GiveSendKeeps, SendtoReadIrKeeps,
       SendtoReadStatusKeeps, SendtoDoneKeeps, CloseKeeps DEF Driver
  <1>5. CASE TakeSend
    BY <1>5, TakeSendKeeps
  <1>6. CASE Network
    BY <1>6, TransmittedKeeps, NoHostKeeps, AckKeeps, PeerFinKeeps, LostKeeps DEF Network
  <1>7. CASE UNCHANGED vars
    <2>1. UNCHANGED <<ssr, cr, wrsr, txfifo, fsr, sendok, timeout, air, check_sendok_flag,
                      pc, addr1, ret, fsr_hi, isr_timeout, taken, chan, opens,
                      peer, accepted, tainted>>
      BY <1>7 DEF vars, chip, call, conn, history
    <2>2. TypeOK'
      BY <2>1 DEF IInv, TypeOK
    <2>3. CallOK' /\ SendokOK' /\ SendtoOK'
      BY <2>1 DEF IInv, CallOK, SendokOK, SendtoOK, Steady, Live, Outstanding
    <2>4. Steady' = Steady /\ Gone' = Gone /\ InFifo' = InFifo /\ Outstanding' = Outstanding
      BY <2>1 DEF Steady, Live, Gone, Pending, InFifo, Even, WordsToWrite, Outstanding
    <2>5. DataOK'
      BY <2>1, <2>4 DEF IInv, DataOK
    <2>6. FreeOK' /\ PeerInOrder'
      BY <2>1, PeerKept DEF IInv, FreeOK, FreeSizeHonest
    <2> QED
      BY <2>2, <2>3, <2>5, <2>6 DEF IInv
  <1> QED
    BY <1>1, <1>2, <1>3, <1>4, <1>5, <1>6, <1>7 DEF Next

\* In every reachable state of the send path the inductive invariant holds, for
\* any size of memory and register and any sends and connections.
THEOREM SendInvariant ==
    Spec => []IInv
  BY InitIInv, NextIInv, PTL DEF Spec

\* The peer gets the bytes in order, each once, and on a TCP connection none is
\* left out, unless a stale SENDOK or an overfilled FIFO tainted the connection.
THEOREM PeerGetsStream ==
    Spec => []PeerInOrder
  <1>1. IInv => PeerInOrder
    BY DEF IInv
  <1> QED
    BY <1>1, SendInvariant, PTL

\* socket_send gives a SEND only when the one before is done.
THEOREM OneSendAtATime ==
    Spec => []PreviousSendDone
  <1>1. IInv => PreviousSendDone
    BY DEF IInv, TypeOK, SendokOK, Steady, Live, Outstanding, PreviousSendDone
  <1> QED
    BY <1>1, SendInvariant, PTL

\* A free size read in two halves is never too large, if the chip takes no SEND
\* during the call.
THEOREM FreeSizeIsHonest ==
    Spec => []FreeSizeHonest
  <1>1. IInv => FreeSizeHonest
    BY DEF IInv, FreeOK
  <1> QED
    BY <1>1, SendInvariant, PTL

\* What sendto reports as sent has been transmitted.
THEOREM SendtoReportsSent ==
    Spec => SendtoHonest
  <1>1. IInv /\ [Next]_vars =>
          [pc = "to_clear" /\ pc' = "idle" /\ ~tainted
              => peer # <<>> /\ peer[Len(peer)] = addr1]_vars
    BY DEF IInv, CallOK, Live, SendtoOK, SendtoPcs
  <1> QED
    BY <1>1, SendInvariant, PTL DEF Spec, SendtoHonest

=============================================================================

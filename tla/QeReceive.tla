------------------------------ MODULE QeReceive ------------------------------
(***************************************************************************)
(* The receive path of one channel: the W5300 socket's RX FIFO and its      *)
(* received-size register on one side, and on the other the calls of        *)
(* chan_ops.c (pend, fbyte, fline, ip_recv), which share get_next_packet    *)
(* and the per-socket buffer recv_buf.                                      *)
(*                                                                          *)
(* The driver runs in supervisor mode, so one call is in progress at a time *)
(* and only the chip interleaves with it: every access to a chip register   *)
(* is a step of its own, and the 16-bit RX_RSR is read as two bytes, high   *)
(* byte first.  A byte of the peer's stream is its position in the stream.  *)
(***************************************************************************)
EXTENDS Integers, Sequences

CONSTANTS
    Radix,          \* values of one byte of a register (256 in the code)
    TCP_MAX_MTU,    \* size of recv_buf (1500)
    MaxPacket,      \* longest packet the chip puts in the FIFO (bound)
    RxMemory,       \* bytes of RX memory of the socket (8 KB)
    Udp,            \* the channel is a UDP_ channel
    AddrWord,       \* what the address and port words of a UDP header hold
    MaxBytes,       \* bound on the length of the peer's stream
    MaxBufLen,      \* bound on the caller's buffer
    LineFeeds       \* the stream positions that hold CHR_LF

ASSUME ReceiveAssumption ==
    /\ Radix \in Nat /\ Radix > 1
    /\ MaxPacket \in Nat \ {0} /\ TCP_MAX_MTU \in Nat
    /\ MaxPacket <= TCP_MAX_MTU /\ 2 * TCP_MAX_MTU < Radix * Radix
    /\ RxMemory \in Nat /\ RxMemory < Radix * Radix
    /\ Udp \in BOOLEAN
    /\ AddrWord \in Nat
    /\ MaxBytes \in Nat /\ MaxBufLen \in Nat
    /\ LineFeeds \subseteq Nat

VARIABLES
    (* the chip *)
    ssr,              \* socket status register
    fifo,             \* RX FIFO, a sequence of 16-bit words
    rsr,              \* received-size register
    recv,             \* the command register still holds RECV
    arrived,          \* bytes the peer's stream has brought so far
    (* the driver's per-socket variables *)
    tcp_pack_remain, tcp_pack_size, recv_buf, recv_buf_ptr,
    (* the call in progress *)
    pc, op, buf_len, num_read, lf, rsr_hi,
    (* what the caller has seen, and the history the properties need *)
    out, result, polled

chip == <<ssr, fifo, rsr, recv, arrived>>
sock == <<tcp_pack_remain, tcp_pack_size, recv_buf, recv_buf_ptr>>
frame == <<pc, op, buf_len, num_read, lf, rsr_hi>>
vars == <<chip, sock, frame, out, result, polled>>

-----------------------------------------------------------------------------
(* Words of the FIFO.  pos is the stream position of the first byte of a    *)
(* data word, and of the first byte of its packet for a header word; val is *)
(* what the word holds when it is read as a number.                         *)

Header(val, pos) == [hdr |-> TRUE, val |-> val, pos |-> pos]
Data(pos) == [hdr |-> FALSE, val |-> 0, pos |-> pos]
Garbage == [hdr |-> TRUE, val |-> 0, pos |-> 0]   \* read from an empty FIFO

WordType == [hdr : BOOLEAN, val : Nat, pos : Nat]

\* Words the chip uses for n bytes of data.
DataWords(n) == (n + 1) \div 2

\* Mutant: the odd byte's word is left in the FIFO.
MutWordsToRead(size) == size \div 2

\* w5300_read_fifo reads an odd size up to the next whole word.
WordsToRead(size) == IF size % 2 = 1 THEN (size \div 2) + 1 ELSE size \div 2

HeaderWords == IF Udp THEN 4 ELSE 1

\* A packet of n bytes as the chip queues it: the size word (TCP), or
\* address, port and size (UDP), and then the data.
Packet(n, pos) ==
    [k \in 1 .. HeaderWords + DataWords(n) |->
        IF k < HeaderWords THEN Header(AddrWord, pos)
        ELSE IF k = HeaderWords THEN Header(n, pos)
        ELSE Data(pos + 2 * (k - HeaderWords - 1))]

FifoWord(k) == IF k <= Len(fifo) THEN fifo[k] ELSE Garbage

\* The byte recv_buf_ptr points at; -1 stands for a byte that is not data.
CurrentByte ==
    LET w == recv_buf[(recv_buf_ptr \div 2) + 1]
    IN  IF recv_buf_ptr < 0 \/ recv_buf_ptr \div 2 >= Len(recv_buf) THEN -1
        ELSE IF w.hdr THEN -1
        ELSE w.pos + (recv_buf_ptr % 2)

-----------------------------------------------------------------------------
Init ==
    /\ ssr = "ESTABLISHED" /\ fifo = <<>> /\ rsr = 0 /\ recv = FALSE
    /\ arrived = 0
    /\ tcp_pack_remain = 0 /\ tcp_pack_size = 0
    /\ recv_buf = <<>> /\ recv_buf_ptr = 0
    /\ pc = "idle" /\ op = "none" /\ buf_len = 0 /\ num_read = 0
    /\ lf = FALSE /\ rsr_hi = 0
    /\ out = <<>> /\ polled = 0
    /\ result = [op |-> "none", err |-> "OK", n |-> 0]

(* The chip and the peer *)

Arrive(n) ==
    /\ ssr = "ESTABLISHED"
    /\ arrived + n <= MaxBytes
    /\ rsr + 2 * (HeaderWords + DataWords(n)) <= RxMemory
    /\ fifo' = fifo \o Packet(n, arrived)
    /\ rsr' = rsr + 2 * (HeaderWords + DataWords(n))
    /\ arrived' = arrived + n
    /\ UNCHANGED <<ssr, recv, sock, frame, out, result, polled>>

PeerFin ==
    /\ ssr = "ESTABLISHED"
    /\ ssr' = "CLOSE_WAIT"
    /\ UNCHANGED <<fifo, rsr, recv, arrived, sock, frame, out, result, polled>>

PeerReset ==
    /\ ssr # "CLOSED"
    /\ ssr' = "CLOSED"
    /\ UNCHANGED <<fifo, rsr, recv, arrived, sock, frame, out, result, polled>>

\* RECV: the chip accounts for what was read and clears the command register.
RecvCommand ==
    /\ recv
    /\ recv' = FALSE
    /\ rsr' = 2 * Len(fifo)
    /\ UNCHANGED <<ssr, fifo, arrived, sock, frame, out, result, polled>>

-----------------------------------------------------------------------------
(* The driver *)

\* A call as pend, fbyte, fline or ip_recv receives it.  How many bytes it wants:
\* fbyte takes one, fline and ip_recv a buffer.
Call(o, len) ==
    /\ pc = "idle"
    /\ pc' = "loop" /\ op' = o /\ buf_len' = len
    /\ num_read' = 0 /\ lf' = FALSE
    /\ UNCHANGED <<chip, sock, rsr_hi, out, result, polled>>

\* What the function gives back: err is what it stores in *error_code (*status
\* for pend), a whole int.  What ch_io_stub makes of it is not in this module.
Return(err) ==
    /\ result' = [op |-> op, err |-> err,
                  n |-> IF op = "ip_recv" /\ num_read = 0 /\ buf_len # 0
                        THEN -1 ELSE num_read]
    /\ pc' = "idle" /\ op' = "none" /\ buf_len' = 0 /\ num_read' = 0
    /\ lf' = FALSE /\ rsr_hi' = 0 /\ polled' = 0

\* Mutant: the test for the line feed is dropped.
MutFinished ==
    /\ op # "pend"
    /\ num_read >= buf_len

\* The end of the loops of fline and ip_recv, and of fbyte's single byte.
Finished ==
    /\ op # "pend"
    /\ num_read >= buf_len \/ (op = "fline" /\ lf)

Finish ==
    /\ pc = "loop" /\ Finished
    /\ Return(IF op = "fline" /\ ~lf THEN "BO" ELSE "OK")
    /\ UNCHANGED <<chip, sock, out>>

\* pend with bytes of the last packet still in recv_buf.
PendBuffered ==
    /\ pc = "loop" /\ op = "pend" /\ tcp_pack_remain # 0
    /\ Return("OK")
    /\ UNCHANGED <<chip, sock, out>>

TakeByte ==
    /\ out' = Append(out, CurrentByte)
    /\ lf' = (CurrentByte \in LineFeeds)
    /\ tcp_pack_remain' = tcp_pack_remain - 1
    /\ recv_buf_ptr' = recv_buf_ptr + 1
    /\ num_read' = num_read + 1
    /\ pc' = "loop"
    /\ UNCHANGED <<chip, tcp_pack_size, recv_buf, op, buf_len, rsr_hi,
                   result, polled>>

\* Mutant: an empty buffer is read as well.
MutCopyByte ==
    /\ pc = "loop" /\ op # "pend" /\ ~Finished
    /\ TakeByte

CopyByte ==
    /\ pc = "loop" /\ op # "pend" /\ ~Finished /\ tcp_pack_remain # 0
    /\ TakeByte

\* bytes_available, first half: the high byte of RX_RSR.
ReadRsrHigh ==
    /\ pc = "loop" /\ ~Finished /\ tcp_pack_remain = 0
    /\ rsr_hi' = rsr \div Radix
    /\ polled' = arrived
    /\ pc' = "rsr_lo"
    /\ UNCHANGED <<chip, sock, op, buf_len, num_read, lf, out, result>>

\* Mutant: only the low byte is used.
MutBytesAvailable == rsr % Radix

BytesAvailable == rsr_hi * Radix + (rsr % Radix)

\* bytes_available, second half, and the test of its value.
ReadRsrLow ==
    /\ pc = "rsr_lo"
    /\ IF op = "pend"
       THEN Return(IF BytesAvailable # 0 THEN "OK" ELSE "NC")
       ELSE /\ pc' = IF BytesAvailable # 0 THEN "packet" ELSE "status"
            /\ rsr_hi' = 0
            /\ UNCHANGED <<op, buf_len, num_read, lf, result, polled>>
    /\ UNCHANGED <<chip, sock, out>>

\* Mutant: recv_buf_ptr is not set to the start of the buffer.
MutRewound == recv_buf_ptr

\* recv_buf_ptr at the start of the buffer.
Rewound == 0

\* get_next_packet up to the RECV command.  The chip only appends to the
\* FIFO, so the words can be taken in one step.
ReadPacket ==
    /\ pc = "packet"
    /\ LET size == FifoWord(1).val
           n == WordsToRead(size)
       IN  /\ tcp_pack_size' = size
           /\ tcp_pack_remain' = size
           /\ recv_buf' = [k \in 1 .. n |-> FifoWord(k + 1)]
           /\ fifo' = SubSeq(fifo, n + 2, Len(fifo))
    /\ recv_buf_ptr' = Rewound
    /\ recv' = TRUE
    /\ pc' = "recv_wait"
    /\ UNCHANGED <<ssr, rsr, arrived, op, buf_len, num_read, lf, rsr_hi,
                   out, result, polled>>

\* The value get_next_packet returns is a short in fbyte and an int elsewhere.
BadStatus ==
    IF op = "fbyte" THEN 2 * tcp_pack_remain >= Radix * Radix
                    ELSE tcp_pack_remain <= 0

BadStatusError ==
    CASE op = "fbyte" -> "EF"
      [] op = "fline" -> "NC"
      [] OTHER -> "OK"

\* Mutant: get_next_packet waits for an empty socket, not for the command.
MutRecvCleared == ~recv /\ rsr = 0

RecvCleared == ~recv

\* get_next_packet waits for the command register to clear and returns.
RecvDone ==
    /\ pc = "recv_wait" /\ RecvCleared
    /\ IF BadStatus
       THEN Return(BadStatusError) /\ UNCHANGED <<chip, sock, out>>
       ELSE TakeByte

\* Mutant: the test names another state of the socket.
MutIsClosed == ssr = "CLOSE_WAIT"

IsClosed == ssr = "CLOSED"

\* is_closed, after bytes_available found nothing.
ReadStatus ==
    /\ pc = "status"
    /\ Return(IF IsClosed THEN "EF"
              ELSE IF op = "ip_recv" THEN "OK" ELSE "NC")
    /\ IF op = "fbyte" /\ IsClosed
       THEN /\ tcp_pack_remain' = 0 /\ tcp_pack_size' = 0
            /\ recv_buf_ptr' = 0
            /\ UNCHANGED recv_buf
       ELSE UNCHANGED sock
    /\ UNCHANGED <<chip, out>>

Driver ==
    \/ Finish \/ PendBuffered \/ CopyByte \/ ReadRsrHigh \/ ReadRsrLow
    \/ ReadPacket \/ RecvDone \/ ReadStatus

ReadCall ==
    \/ Call("fbyte", 1)
    \/ \E o \in {"fline", "ip_recv"}, len \in 1 .. MaxBufLen : Call(o, len)

Caller ==
    \/ ReadCall
    \/ \E o \in {"pend", "fline", "ip_recv"} : Call(o, 0)

Chip == (\E n \in 1 .. MaxPacket : Arrive(n)) \/ PeerFin \/ PeerReset \/ RecvCommand

Next == Caller \/ Driver \/ Chip

Spec == Init /\ [][Next]_vars

(* The chip executes its commands and the driver's code runs to its end.    *)
FairSpec == Spec /\ WF_vars(Driver) /\ WF_vars(RecvCommand)

(* A program that never stops asking for data.                              *)
ReaderSpec == FairSpec /\ SF_vars(ReadCall)
-----------------------------------------------------------------------------
(* Properties *)

Ops == {"none", "pend", "fbyte", "fline", "ip_recv"}

\* The type invariant.
TypeOK ==
    /\ ssr \in {"ESTABLISHED", "CLOSE_WAIT", "CLOSED"}
    /\ fifo \in Seq(WordType)
    /\ rsr \in Nat /\ recv \in BOOLEAN /\ arrived \in Nat
    /\ tcp_pack_remain \in Nat /\ tcp_pack_size \in Nat
    /\ recv_buf \in Seq(WordType) /\ recv_buf_ptr \in Nat
    /\ pc \in {"idle", "loop", "rsr_lo", "packet", "recv_wait", "status"}
    /\ op \in Ops /\ buf_len \in Nat /\ num_read \in Nat
    /\ lf \in BOOLEAN /\ rsr_hi \in Nat
    /\ out \in Seq(Int) /\ polled \in Nat
    /\ result \in [op : Ops, err : {"OK", "NC", "EF", "BO"}, n : Int]

\* Over any mix of fbyte, fline and ip_recv, and however packets arrive
\* meanwhile, the program is given the peer's stream: no byte lost at the end
\* of an odd packet, none twice, none from an earlier packet.
InOrder == \A k \in 1 .. Len(out) : out[k] = k - 1

\* recv_buf_ptr and tcp_pack_remain, kept by three functions, always describe
\* the unread end of one packet that fits recv_buf (socket.h: TCP_MAX_MTU).
CursorInBounds ==
    /\ recv_buf_ptr + tcp_pack_remain = tcp_pack_size
    /\ tcp_pack_size <= TCP_MAX_MTU
    /\ tcp_pack_remain >= 0

Answered == pc # "idle" /\ pc' = "idle"

SaysNoInput == result'.err \in {"NC", "EF"} \/ result'.n = -1

\* A call that ends for lack of input (ERR_NC, ERR_EF, or -1 from ip_recv)
\* had been handed everything that was there when it looked at RX_RSR, unless
\* another packet came in after it read the register's first byte.
NoInputIsHonest ==
    [][Answered /\ SaysNoInput => polled = Len(out) \/ arrived > polled]_vars

\* The refinement mapping: the frame of a call, without its program counter.
StreamCall ==
    IF pc = "idle" THEN [op |-> "none", len |-> 0, n |-> 0, lf |-> FALSE]
    ELSE [op |-> op, len |-> buf_len, n |-> num_read, lf |-> lf]

\* The channel is an in-order byte stream with the answers of ByteStream.
Stream == INSTANCE ByteStream WITH closed <- (ssr = "CLOSED"), call <- StreamCall

ImplementsByteStream == Stream!Spec

\* No call waits for ever on the chip: each one answers.
CallReturns == pc # "idle" ~> pc = "idle"

\* Steps of its own until the call in progress answers, at the latest.
StepsLeft ==
    4 * (buf_len - num_read)
    + CASE pc = "idle" -> 0 [] pc = "status" -> 1 [] pc = "recv_wait" -> 2
        [] pc = "packet" -> 3 [] pc = "rsr_lo" -> 4 [] pc = "loop" -> 5

\* Each step of fbyte, fline, ip_recv or pend brings the answer nearer, whatever
\* arrives meanwhile: the loops come to an end without the peer's help, and a call
\* can be held up by the RECV command only.
CallShortens == [][Driver => StepsLeft' \in 0 .. StepsLeft - 1]_vars

\* A program that keeps on reading gets every byte, one that arrived just
\* before the connection ended, or in the middle of a call, included.
AllDelivered ==
    \A k \in 1 .. MaxBytes : (arrived >= k) ~> (Len(out) >= k)

\* When fbyte, fline and ip_recv are called again and again on a connection that
\* has gone, one of them stores ERR_EF in *error_code, though each looks at the
\* size first and at the status second.
EofSeen == (ssr = "CLOSED") ~> (result.err = "EF")

(* What the comments of the code say *)

\* chan_ops.c:12: "First two bytes are the TCP packet size waiting in the FIFO".
FirstWordIsPacketSize ==
    pc = "recv_wait" => tcp_pack_size \in 1 .. MaxPacket
-----------------------------------------------------------------------------
(* The inductive invariant: TypeOK, InOrder and CursorInBounds, and what      *)
(* they rest on.                                                              *)

\* In f, whose stream ends at byte a, the header at j is followed by the data
\* words of its packet, and then by the header that continues the stream.
PacketAt(f, j, a) ==
    LET n == f[j].val
        e == j + DataWords(f[j].val)
    IN  /\ n \in 1 .. MaxPacket
        /\ f[j].pos + n <= a
        /\ e <= Len(f)
        /\ \A k \in 1 .. DataWords(n) :
               ~f[j + k].hdr /\ f[j + k].pos = f[j].pos + 2 * (k - 1)
        /\ IF e < Len(f) THEN f[e + 1].hdr /\ f[e + 1].pos = f[j].pos + n
                         ELSE f[j].pos + n = a

AllPackets(f, a) == \A j \in 1 .. Len(f) : f[j].hdr => PacketAt(f, j, a)

FifoOK == AllPackets(fifo, arrived)

\* The FIFO starts where the bytes in recv_buf end.
HeadOK ==
    IF fifo = <<>> THEN arrived = Len(out) + tcp_pack_remain
    ELSE fifo[1].hdr /\ fifo[1].pos = Len(out) + tcp_pack_remain

\* recv_buf holds, from recv_buf_ptr on, the bytes that come next.
BufferOK ==
    \A q \in recv_buf_ptr .. tcp_pack_size - 1 :
        /\ q \div 2 < Len(recv_buf)
        /\ ~recv_buf[(q \div 2) + 1].hdr
        /\ recv_buf[(q \div 2) + 1].pos + (q % 2) = Len(out) + (q - recv_buf_ptr)

\* What each point of the code knows about the chip.
PhaseOK ==
    /\ recv => pc = "recv_wait"
    /\ ~recv => rsr = 2 * Len(fifo)
    /\ pc \in {"rsr_lo", "packet", "status"} => tcp_pack_remain = 0
    /\ pc = "packet" => fifo # <<>>
    /\ pc = "recv_wait" => tcp_pack_remain > 0
    /\ pc = "rsr_lo" => /\ rsr_hi > 0 => rsr > 0
                        /\ arrived = polled => rsr_hi = rsr \div Radix
    /\ pc \in {"rsr_lo", "status"} => polled <= arrived
    /\ pc = "status" => polled = Len(out) \/ arrived > polled

\* What each point of the code knows about the call.
CallOK ==
    /\ pc # "idle" => op # "none"
    /\ pc \in {"packet", "recv_wait", "status"} => op # "pend"
    /\ pc \in {"rsr_lo", "packet", "recv_wait", "status"} => ~Finished
    /\ num_read <= buf_len
    /\ op = "fbyte" => buf_len = 1
    /\ op = "pend" => buf_len = 0 /\ ~lf

IInv ==
    /\ TypeOK /\ InOrder /\ CursorInBounds
    /\ FifoOK /\ HeadOK /\ BufferOK /\ PhaseOK /\ CallOK
=============================================================================

------------------------------- MODULE QeSend -------------------------------
(***************************************************************************)
(* The send path of one socket over its successive connections: sstrg       *)
(* (chan_ops.c), socket_send, sendto, and the parts of open_socket and       *)
(* socket_close that concern sending (socket.c), against the chip's TX FIFO, *)
(* its free-size register and its interrupt register.                       *)
(*                                                                          *)
(* A socket has one user at a time here, who has opened it.                  *)
(* One call of the driver is in progress at a time; the chip acts between    *)
(* any two accesses to its registers.  TX_FSR is read byte by byte, high     *)
(* bytes first; the two that are always 0 (8 KB of memory) are left out.     *)
(* A SEND stays in the command register until the chip takes it.  A byte is  *)
(* its position in what the program sends on the connection; 0 pads a word.  *)
(***************************************************************************)
EXTENDS Integers, Sequences

CONSTANTS
    Radix,          \* values of one byte of a register (256)
    TxMemory,       \* bytes of TX memory of the socket (8 KB)
    MaxLen,         \* bound on the length of one send
    MaxBytes,       \* bound on the bytes sent on one connection
    MaxOpens        \* bound on the number of connections

ASSUME SendAssumption ==
    /\ Radix \in Nat /\ Radix > 1
    /\ TxMemory \in Nat \ {0} /\ TxMemory < Radix * Radix
    /\ MaxLen \in Nat /\ MaxBytes \in Nat /\ MaxOpens \in Nat

VARIABLES
    (* the chip *)
    ssr, cr, wrsr, txfifo, fsr,
    sendok, timeout,  \* bits of the interrupt register
    air,              \* bytes the chip is transmitting
    (* the driver *)
    check_sendok_flag,
    pc, addr1,
    ret, fsr_hi, isr_timeout,
    taken,            \* history: the chip took a SEND since the call began
    (* the other ends, and history *)
    chan,             \* who has the socket: "none", a "TCP" or "UDP" channel, or
                      \* "client": the resolver, DHCP or TFTP, which use sendto
    opens,
    peer,             \* what the peer has received
    accepted,         \* bytes reported as sent, on this connection
    tainted           \* see Open and Overfills

chip == <<ssr, cr, wrsr, txfifo, fsr, sendok, timeout, air>>
call == <<ret, fsr_hi, isr_timeout, taken>>
conn == <<chan, opens>>
history == <<peer, accepted, tainted>>
vars == <<chip, check_sendok_flag, pc, addr1, call, conn, history>>

\* Between calls the variables of a call mean nothing.
NoCall == /\ ret' = 0 /\ fsr_hi' = 0 /\ isr_timeout' = FALSE /\ taken' = FALSE

Returned == pc' = "idle" /\ NoCall

Init ==
    /\ ssr = "CLOSED" /\ cr = "none" /\ wrsr = 0 /\ txfifo = <<>> /\ fsr = TxMemory
    /\ sendok = FALSE /\ timeout = FALSE /\ air = <<>>
    /\ check_sendok_flag = FALSE
    /\ pc = "idle" /\ addr1 = 0 /\ ret = 0 /\ fsr_hi = 0 /\ isr_timeout = FALSE
    /\ taken = FALSE
    /\ chan = "none" /\ opens = 0
    /\ peer = <<>> /\ accepted = 0 /\ tainted = FALSE

-----------------------------------------------------------------------------
(* Opening and closing *)

\* Mutant: the flag keeps the value the last connection left.
MutFirstSend == check_sendok_flag

\* open_socket: the first send waits for no SENDOK.
FirstSend == TRUE

\* OPEN clears the memory, and not the interrupt register: a SENDOK or time-out
\* that is still there taints the connection.  connect() comes back with a
\* connection or without one (FIN_WAIT needs a DISCON, which it does not give),
\* and is not called for a TCP_ channel that has no address or no port.
Open(user) ==
    /\ pc = "idle" /\ chan = "none" /\ opens < MaxOpens
    /\ chan' = user /\ opens' = opens + 1
    /\ ssr' \in IF user = "TCP" THEN {"ESTABLISHED", "CLOSED", "INIT"} ELSE {"UDP"}
    /\ txfifo' = <<>> /\ fsr' = TxMemory /\ cr' = "none" /\ wrsr' = 0 /\ air' = <<>>
    /\ check_sendok_flag' = FirstSend
    /\ peer' = <<>> /\ accepted' = 0 /\ addr1' = 0
    /\ tainted' = (sendok \/ timeout)
    /\ UNCHANGED <<sendok, timeout, pc, call>>

\* disconnect puts DISCON in the command register of a TCP socket and waits for
\* it, and socket_close clears the interrupt register ...
Disconnect ==
    /\ pc = "idle" /\ chan # "none"
    /\ cr' = IF chan = "TCP" THEN "none" ELSE cr
    /\ sendok' = FALSE /\ timeout' = FALSE
    /\ pc' = "close"
    /\ UNCHANGED <<ssr, wrsr, txfifo, fsr, air, check_sendok_flag, addr1, call,
                   conn, history>>

\* ... and gives the CLOSE command, which ends what is being transmitted.
Close ==
    /\ pc = "close"
    /\ ssr' = "CLOSED" /\ cr' = "none" /\ air' = <<>>
    /\ chan' = "none" /\ pc' = "idle"
    /\ UNCHANGED <<wrsr, txfifo, fsr, sendok, timeout, check_sendok_flag, addr1,
                   call, opens, history>>

-----------------------------------------------------------------------------
(* sstrg and socket_send *)

Sstrg(len) ==
    /\ pc = "idle" /\ chan \in {"TCP", "UDP"}
    /\ accepted + len <= MaxBytes /\ Len(txfifo) <= TxMemory
    /\ ret' = len
    /\ pc' = "fsr"
    /\ UNCHANGED <<chip, check_sendok_flag, addr1, fsr_hi, isr_timeout, taken,
                   conn, history>>

ReadFsrHigh ==
    /\ pc = "fsr"
    /\ fsr_hi' = fsr \div Radix
    /\ pc' = "fsr_lo"
    /\ UNCHANGED <<chip, check_sendok_flag, addr1, ret, isr_timeout, taken, conn, history>>

\* Mutant: the length is not cut down to the free memory.
MutLimited(len, freesize) == len

Limited(len, freesize) == IF len > freesize THEN freesize ELSE len

\* The loop over TX_FSR ends when it does not read 0.
ReadFsrLow ==
    LET freesize == (fsr_hi * Radix) + (fsr % Radix)
    IN  /\ pc = "fsr_lo"
        /\ IF freesize = 0
           THEN pc' = "fsr" /\ UNCHANGED ret
           ELSE pc' = "fifo" /\ ret' = Limited(ret, freesize)
        /\ UNCHANGED <<chip, check_sendok_flag, addr1, fsr_hi, isr_timeout, taken,
                       conn, history>>

\* Mutant: the odd byte's word is not written.
MutWordsToWrite(size) == size \div 2

WordsToWrite(size) == IF size % 2 = 1 THEN (size \div 2) + 1 ELSE size \div 2

\* What w5300_write_fifo writes: whole words.
Written(size) ==
    [k \in 1 .. 2 * WordsToWrite(size) |-> IF k <= size THEN addr1 + k ELSE 0]

\* More is written than the memory has room for.
Overfills(size) == size + (IF cr = "SEND" THEN wrsr ELSE 0) > fsr

\* The data goes into the FIFO before the last SEND is known to be done.
WriteFifo ==
    /\ pc = "fifo"
    /\ txfifo' = txfifo \o Written(ret)
    /\ tainted' = (tainted \/ Overfills(ret))
    /\ pc' = IF check_sendok_flag THEN "command" ELSE "sendok"
    /\ check_sendok_flag' = FALSE
    /\ UNCHANGED <<ssr, cr, wrsr, fsr, sendok, timeout, air, addr1, call, conn,
                   peer, accepted>>

\* Mutant: SENDOK is not waited for.
MutSendokSeen == TRUE

SendokSeen == sendok

ReadIr ==
    /\ pc = "sendok"
    /\ pc' = IF SendokSeen THEN "clear" ELSE "status"
    /\ UNCHANGED <<chip, check_sendok_flag, addr1, call, conn, history>>

\* A connection that is gone: socket_send gives -1, and sstrg adds that to the
\* caller's pointer and returns it as a count.
ReadStatus ==
    /\ pc = "status"
    /\ IF ssr = "CLOSED"
       THEN addr1' = addr1 - 1 /\ Returned
       ELSE pc' = "sendok" /\ UNCHANGED <<addr1, call>>
    /\ UNCHANGED <<chip, check_sendok_flag, conn, history>>

ClearSendok ==
    /\ pc = "clear"
    /\ sendok' = FALSE
    /\ pc' = "command"
    /\ UNCHANGED <<ssr, cr, wrsr, txfifo, fsr, timeout, air, check_sendok_flag,
                   addr1, call, conn, history>>

\* Mutant: the size is not written to WRSR.
MutCommand(size) == cr' = "SEND" /\ wrsr' = 0

Command(size) == cr' = "SEND" /\ wrsr' = size

\* WRSR and SEND; sstrg moves the caller's pointer on.
GiveSend ==
    /\ pc = "command"
    /\ Command(ret)
    /\ addr1' = addr1 + ret /\ accepted' = accepted + ret
    /\ Returned
    /\ UNCHANGED <<ssr, txfifo, fsr, sendok, timeout, air, check_sendok_flag, conn,
                   peer, tainted>>

-----------------------------------------------------------------------------
(* sendto *)

\* A datagram to a proper address; one to 0.0.0.0 or port 0 is refused with no
\* effect.  No free memory is looked for.
Sendto(len) ==
    /\ pc = "idle" /\ chan = "client" /\ addr1 + len <= MaxBytes
    /\ txfifo' = txfifo \o Written(len)
    /\ tainted' = (tainted \/ Overfills(len))
    /\ Command(len)
    /\ ret' = len /\ addr1' = addr1 + len
    /\ pc' = "to_ir"
    /\ UNCHANGED <<ssr, fsr, sendok, timeout, air, check_sendok_flag, fsr_hi,
                   isr_timeout, taken, conn, peer, accepted>>

\* Mutant: any interrupt ends the wait as SENDOK does.
MutDatagramSent == sendok \/ timeout

DatagramSent == sendok

SendtoReadIr ==
    /\ pc = "to_ir"
    /\ pc' = IF DatagramSent THEN "to_clear" ELSE "to_status"
    /\ isr_timeout' = timeout
    /\ UNCHANGED <<chip, check_sendok_flag, addr1, ret, fsr_hi, taken, conn, history>>

SendtoReadStatus ==
    /\ pc = "to_status"
    /\ IF ssr = "CLOSED" \/ isr_timeout
       THEN timeout' = FALSE /\ Returned
       ELSE pc' = "to_ir" /\ UNCHANGED <<timeout, call>>
    /\ UNCHANGED <<ssr, cr, wrsr, txfifo, fsr, sendok, air, check_sendok_flag,
                   addr1, conn, history>>

SendtoDone ==
    /\ pc = "to_clear"
    /\ sendok' = FALSE /\ accepted' = addr1
    /\ Returned
    /\ UNCHANGED <<ssr, cr, wrsr, txfifo, fsr, timeout, air, check_sendok_flag,
                   addr1, conn, peer, tainted>>

Driver ==
    \/ ReadFsrHigh \/ ReadFsrLow \/ WriteFifo \/ ReadIr \/ ReadStatus \/ ClearSendok
    \/ GiveSend \/ SendtoReadIr \/ SendtoReadStatus \/ SendtoDone \/ Close

-----------------------------------------------------------------------------
(* The chip, the network and the peer *)

Shorter(a, b) == IF a < b THEN a ELSE b

\* The socket transmits: it is a UDP socket's, or a connection has been made.
Live == ssr \in {"ESTABLISHED", "CLOSE_WAIT", "UDP"}

\* The chip takes a SEND: WRSR bytes, in whole words, from the head of the FIFO.
\* Without a connection nothing comes of it.
TakeSend ==
    LET size == Shorter(wrsr, Len(txfifo))
        words == Shorter(2 * ((wrsr + 1) \div 2), Len(txfifo))
    IN  /\ cr = "SEND" /\ cr' = "none"
        /\ IF ~Live
           THEN UNCHANGED <<txfifo, fsr, air, taken>>
           ELSE /\ air' = air \o SubSeq(txfifo, 1, size)
                /\ txfifo' = SubSeq(txfifo, words + 1, Len(txfifo))
                /\ fsr' = fsr - Shorter(wrsr, fsr)
                /\ taken' = (pc # "idle")
        /\ UNCHANGED <<ssr, wrsr, sendok, timeout, check_sendok_flag, pc, addr1, ret,
                       fsr_hi, isr_timeout, conn, history>>

\* A transmission is done; a datagram's memory is free again at once.
Transmitted ==
    /\ air # <<>>
    /\ peer' = peer \o air /\ air' = <<>>
    /\ sendok' = TRUE
    /\ fsr' = IF chan = "TCP" THEN fsr ELSE TxMemory
    /\ UNCHANGED <<ssr, cr, wrsr, txfifo, timeout, check_sendok_flag, pc, addr1,
                   call, conn, accepted, tainted>>

\* A datagram's host is not found.
NoHost ==
    /\ chan # "TCP" /\ air # <<>>
    /\ air' = <<>> /\ timeout' = TRUE /\ fsr' = TxMemory
    /\ UNCHANGED <<ssr, cr, wrsr, txfifo, sendok, check_sendok_flag, pc, addr1,
                   call, conn, history>>

\* The peer acknowledges.
Ack ==
    /\ chan = "TCP" /\ Live
    /\ fsr' \in fsr + 1 .. TxMemory - Len(air)
    /\ UNCHANGED <<ssr, cr, wrsr, txfifo, sendok, timeout, air, check_sendok_flag,
                   pc, addr1, call, conn, history>>

PeerFin ==
    /\ ssr = "ESTABLISHED" /\ ssr' = "CLOSE_WAIT"
    /\ UNCHANGED <<cr, wrsr, txfifo, fsr, sendok, timeout, air, check_sendok_flag,
                   pc, addr1, call, conn, history>>

\* The connection is reset, or the retransmissions time out.
Lost ==
    /\ ssr \in {"ESTABLISHED", "CLOSE_WAIT"} /\ ssr' = "CLOSED"
    /\ \E k \in 0 .. Len(air) : peer' = peer \o SubSeq(air, 1, k)
    /\ air' = <<>>
    /\ UNCHANGED <<cr, wrsr, txfifo, fsr, sendok, timeout, check_sendok_flag, pc,
                   addr1, call, conn, accepted, tainted>>

TransmissionEnds == air # <<>> /\ (Transmitted \/ NoHost \/ Lost)

Network == Transmitted \/ NoHost \/ Ack \/ PeerFin \/ Lost

Next ==
    \/ \E user \in {"TCP", "UDP", "client"} : Open(user)
    \/ Disconnect
    \/ \E len \in 1 .. MaxLen : Sstrg(len) \/ Sendto(len)
    \/ Driver
    \/ TakeSend
    \/ Network

Spec == Init /\ [][Next]_vars

(* The driver's code runs on, the chip takes its commands, and what is being *)
(* transmitted ends in some way.  The peer owes no acknowledgement.          *)
FairSpec ==
    /\ Spec
    /\ WF_vars(Driver) /\ WF_vars(TakeSend)
    /\ WF_vars(TransmissionEnds)

-----------------------------------------------------------------------------
(* Properties *)

\* The type invariant.
TypeOK ==
    /\ ssr \in {"CLOSED", "INIT", "ESTABLISHED", "CLOSE_WAIT", "UDP"}
    /\ cr \in {"none", "SEND"} /\ wrsr \in Nat /\ fsr \in 0 .. TxMemory
    /\ txfifo \in Seq(Int) /\ air \in Seq(Int) /\ peer \in Seq(Int)
    /\ {sendok, timeout, check_sendok_flag, isr_timeout, taken, tainted} \subseteq BOOLEAN
    /\ pc \in {"idle", "close", "fsr", "fsr_lo", "fifo", "sendok", "status", "clear",
               "command", "to_ir", "to_status", "to_clear"}
    /\ addr1 \in Int /\ ret \in Nat /\ fsr_hi \in Nat
    /\ chan \in {"none", "TCP", "UDP", "client"} /\ opens \in 0 .. MaxOpens
    /\ accepted \in Int

\* The peer gets what the program sent, in order, each byte once and none left
\* out (TCP), or none twice and in order (UDP): through sends that are cut
\* short, odd lengths, and a FIFO written before the last SEND is done.
PeerInOrder ==
    ~tainted =>
        /\ \A k \in 1 .. Len(peer) - 1 : peer[k] < peer[k + 1]
        /\ \A k \in 1 .. Len(peer) : peer[k] > 0 /\ (chan = "TCP" => peer[k] = k)

\* A SEND is given only when the one before is done (socket.c:164): the flag and
\* the SENDOK bit, which stays set from one send to the next, together keep count.
\* A bit left by another connection, or a FIFO overfilled, is the exception.
PreviousSendDone ==
    ~tainted /\ pc = "command" /\ Live => cr = "none" /\ air = <<>>

\* Though TX_FSR is read in two halves while the peer acknowledges, a send never
\* writes more than there is room for, if the chip took no SEND in the meantime.
FreeSizeHonest == pc = "fifo" /\ ~taken => ret <= fsr

\* What the driver knows while a connection lives that nothing tainted.
Steady == ~tainted /\ Live

Outstanding == cr = "SEND" \/ air # <<>>

SstrgPcs == {"fsr", "fsr_lo", "fifo", "sendok", "status", "clear", "command"}
SendtoPcs == {"to_ir", "to_status", "to_clear"}

\* Who uses the socket decides what calls there are and what may become of it.
CallOK ==
    /\ pc = "command" => ~sendok \/ tainted \/ ~Live
    /\ pc \in {"clear", "to_clear"} => sendok
    /\ pc \in {"sendok", "status", "clear", "command"} => ~check_sendok_flag
    /\ pc \in {"idle", "close"} => ~isr_timeout
    /\ pc \in SstrgPcs => chan \in {"TCP", "UDP"} /\ ret > 0
    /\ pc \in SendtoPcs => chan = "client"
    /\ chan = "none" => pc = "idle" /\ ssr = "CLOSED"
    /\ chan \in {"UDP", "client"} <=> ssr = "UDP"
    /\ ~Live => air = <<>>

\* At most one SEND is out, and no SENDOK of it has come; a first send finds none.
SendokOK ==
    Steady =>
        /\ Outstanding => ~sendok /\ pc \notin {"clear", "command"}
        /\ cr = "SEND" => air = <<>>
        /\ chan # "client" /\ check_sendok_flag => ~Outstanding /\ ~sendok

\* sendto leaves nothing behind: when it returns, its datagram is out or lost.
SendtoOK ==
    ~tainted /\ chan = "client" /\ pc # "close" =>
        /\ Outstanding => pc \in {"to_ir", "to_status"} /\ ~timeout
        /\ isr_timeout => timeout
        /\ timeout => ~sendok
        /\ pc = "idle" => ~sendok /\ ~timeout
        /\ sendok => peer # <<>> /\ peer[Len(peer)] = addr1

Even(n) == 2 * WordsToWrite(n)

Pending == IF cr = "SEND" THEN wrsr ELSE 0

\* Bytes the call in progress has put in the FIFO.
InFifo == IF pc \in {"sendok", "status", "clear", "command"} THEN Even(ret) ELSE 0

\* Bytes that are with the peer, or were lost on their way to it.
Gone == addr1 - Len(air) - Pending

\* Where the bytes are: with the peer, in the air, in the FIFO behind a SEND, and
\* in the FIFO before one, in this order and without a gap.
DataOK ==
    Steady =>
        /\ \A k \in 1 .. Len(air) : air[k] = addr1 - Len(air) + k
        /\ cr = "SEND" =>
            /\ wrsr > 0 /\ Len(txfifo) = Even(wrsr) + InFifo
            /\ \A k \in 1 .. wrsr : txfifo[k] = addr1 - wrsr + k
        /\ cr = "none" /\ pc # "close" => Len(txfifo) = InFifo
        /\ InFifo > 0 =>
            \A k \in 1 .. ret : txfifo[Len(txfifo) - InFifo + k] = addr1 + k
        /\ Gone >= 0
        /\ \A k \in 1 .. Len(peer) : peer[k] <= Gone
        /\ chan = "TCP" /\ (pc # "close" \/ Outstanding) => Len(peer) = Gone

\* TX_FSR does not go down but for a SEND that the chip takes.
FreeOK ==
    /\ pc = "fsr_lo" /\ ~taken => fsr_hi <= fsr \div Radix
    /\ FreeSizeHonest

\* The inductive invariant.
IInv == TypeOK /\ CallOK /\ SendokOK /\ SendtoOK /\ DataOK /\ FreeOK /\ PeerInOrder

\* What sendto reports as sent has been transmitted.
SendtoHonest ==
    [][pc = "to_clear" /\ pc' = "idle" /\ ~tainted
        => peer # <<>> /\ peer[Len(peer)] = addr1]_vars

\* A call comes to an end, with three exceptions: a connection whose memory is
\* full and stays so, closed or not; a UDP_ channel's datagram for a host that is
\* not found, whose time-out socket_send does not look at; and a TCP_ channel that
\* was never connected, whose second send waits for the SENDOK of a first that the
\* chip did not transmit (socket_send looks for CLOSED only).
SendReturns ==
    \/ []<>(pc = "idle")
    \/ <>[](pc \in {"fsr", "fsr_lo"} /\ fsr = 0)
    \/ <>[](pc \in {"sendok", "status"} /\ chan = "UDP" /\ timeout)
    \/ <>[](pc \in {"sendok", "status"} /\ ssr = "INIT")

\* What has been accepted on a TCP channel that was connected reaches the peer,
\* unless the connection is closed.
AcceptedIsDelivered ==
    \A n \in 1 .. MaxBytes :
        chan = "TCP" /\ Live /\ ~tainted /\ accepted >= n
            ~> Len(peer) >= n \/ ssr = "CLOSED" \/ tainted
=============================================================================

---------------------------- MODULE DriverStart ----------------------------
(***************************************************************************)
(* The programs that set the card up, and the driver's entry points while   *)
(* they run: main of the driver (qedrv.c), the BASIC keywords OMR and DHI   *)
(* (dhcpext.c, dhcpbas.s), the programs dhcpc (dhcpc_main.c) and tftp       *)
(* (tftp.c), the probe, the reset and the configuration of the chip         *)
(* (w5300-ops.c), sendto on the socket that DHCP and TFTP use (socket.c),   *)
(* and the I/O entry of the driver (qe_access.s).                           *)
(*                                                                          *)
(* Every program is linked with its own copy of w5300_base_addr; they share *)
(* the card.  One of them runs at a time (they are started from BASIC), in  *)
(* user mode: channels of other jobs are opened, used and closed between    *)
(* any two of its steps.  Which packets DHCP and TFTP exchange is the       *)
(* subject of Dhcp and Tftp, and what an open does that of QeChannels.      *)
(***************************************************************************)
EXTENDS Integers

CONSTANTS
    NumProbes,      \* NUM_PROBE_ADDRESSES, 7
    Positions,      \* where the card may be: a candidate's number, or NoCard
    NumSockets,     \* MAX_SOCK_NUM, 8
    MaxRuns         \* bound on the number of programs run

NoCard == 0

ASSUME StartAssumption ==
    /\ NumProbes \in Nat \ {0} /\ NumSockets \in Nat \ {0} /\ MaxRuns \in Nat
    /\ Positions \subseteq 0 .. NumProbes

Sockets == 0 .. NumSockets - 1
Programs == {"qedrv", "dhcp_cde", "dhcpc", "tftp"}
Kinds == {"SCK", "UDP", "TCP"}

\* What an OPEN and a CONNECT make of a socket: a "channel" transmits what it is
\* given.  An SCK_ channel gives no OPEN, and a TCP_ channel without an address or
\* a port no CONNECT (SOCK_INIT).
Opened(kind) ==
    CASE kind = "SCK" -> {}
      [] kind = "UDP" -> {"channel"}
      [] kind = "TCP" -> {"channel", "closed", "init"}

VARIABLES
    at,                         \* where the card answers
    ready, mac, sipr, sock,     \* the chip: out of reset, SHAR, SIPR, sockets
    sent,                       \* the client's SEND on socket 0: "no", "out", or
                                \* "done": SENDOK or TIMEOUT is in IR
    base,                       \* w5300_base_addr of each program
    i,                          \* the candidates that were probed
    job, step,                  \* the program that runs, and its next step
    linked, altsysstack, peers, recv_buf,   \* the driver
    keywords,                   \* OMR and DHI are there
    runs,
    early,      \* history: a channel was opened before the driver's main ended
    bare,       \* history: I/O ran on a stack that is not the driver's
    stray,      \* history: a register was written where the card is not
    full        \* history: all sockets were reserved at one time

chip == <<ready, mac, sipr, sock, sent>>
driver == <<linked, altsysstack, peers, recv_buf>>
history == <<early, bare, stray, full>>
vars == <<at, chip, base, i, job, step, driver, keywords, runs, history>>

\* The step that follows each: w5300_configure from "probe" to "address", the
\* client on socket 0 from "dhcp" or "open" to "exchange", and the stack, or the end.
After(p, done) ==
    CASE done = "link" -> "clear"
      [] done \in {"clear", "keywords"} -> "probe"
      [] done = "probe" -> IF p = "tftp" THEN "open" ELSE "reset"
      [] done = "reset" -> "wait"
      [] done = "wait" -> "memory"
      [] done = "memory" -> "address"
      [] done = "address" -> IF p = "dhcp_cde" THEN "none" ELSE "dhcp"
      [] done \in {"dhcp", "open"} -> "send"
      [] done = "send" -> "sendto"
      [] done = "sendto" -> "exchange"
      [] done = "exchange" -> IF p = "qedrv" THEN "stack" ELSE "none"
      [] done = "stack" -> "none"

Init ==
    /\ at \in Positions
    /\ ready = TRUE /\ mac = FALSE /\ sipr = FALSE
    /\ sock = [s \in Sockets |-> "closed"] /\ sent = "no"
    /\ base = [p \in Programs |-> 0]
    /\ i = 0 /\ job = "none" /\ step = "none"
    /\ linked = FALSE /\ altsysstack = FALSE
    /\ peers = [s \in Sockets |-> "none"] /\ recv_buf = {}
    /\ keywords = FALSE /\ runs = 0
    /\ early = FALSE /\ bare = FALSE /\ stray = FALSE /\ full = FALSE

-----------------------------------------------------------------------------
(* Running a program *)

Run(p, first) ==
    /\ job = "none" /\ runs < MaxRuns
    /\ runs' = runs + 1
    /\ job' = p /\ step' = first
    /\ UNCHANGED <<at, chip, i, driver, keywords, history>>

\* The driver and the keywords are loaded once, and stay.
Load ==
    \/ ~linked /\ Run("qedrv", "link") /\ UNCHANGED base
    \/ ~keywords /\ Run("dhcp_cde", "keywords") /\ UNCHANGED base

\* Each execution of dhcpc or tftp is a fresh copy of the program.
Exec ==
    \E p \in {"dhcpc", "tftp"} : Run(p, "probe") /\ base' = [base EXCEPT ![p] = 0]

OMR == keywords /\ Run("dhcp_cde", "probe") /\ UNCHANGED base

DHI == keywords /\ Run("dhcp_cde", "dhcp") /\ UNCHANGED base

Continue(next) == step' = next /\ job' = IF next = "none" THEN "none" ELSE job

Step(this) == step = this /\ Continue(After(job, this))

OnCard(p) == at # NoCard /\ base[p] = at

\* A write of the registers of the chip, through the program's base address.
Written(p) ==
    /\ stray' = (stray \/ ~OnCard(p))
    /\ UNCHANGED <<early, bare, full>>

-----------------------------------------------------------------------------
(* The steps *)

\* mt_liod: QDOS calls the driver's entry points from now on.
Link ==
    /\ Step("link")
    /\ linked' = TRUE
    /\ UNCHANGED <<at, chip, base, i, altsysstack, peers, recv_buf, keywords, runs, history>>

\* The tables of the sockets are cleared, peers[] excepted.
ClearTables ==
    /\ Step("clear")
    /\ recv_buf' = {}
    /\ UNCHANGED <<at, chip, base, i, linked, altsysstack, peers, keywords, runs, history>>

Keywords ==
    /\ Step("keywords")
    /\ keywords' = TRUE
    /\ UNCHANGED <<at, chip, base, i, driver, runs, history>>

\* Mutant: a probe that fails is repeated.
MutRepeated(p) == "probe"

\* Without a card the driver skips what is left of w5300_configure and goes on,
\* as main does not look at its result, and neither does tftp; the others end.
Unconfigured(p) ==
    CASE p = "qedrv" -> "dhcp" [] p = "tftp" -> "open" [] OTHER -> "none"

\* Mutant: the search does not stop at the end of the table.
MutProbeEnds(a) == a = at

\* W5300_IDR reads as $5300 where the card is.
ProbeEnds(a) == a = at \/ a = NumProbes

\* w5300_set_base_address: one candidate after the other.  When none answers,
\* the address of the last one stays.
Probe ==
    /\ step = "probe"
    /\ LET a == i + 1
       IN  /\ base' = [base EXCEPT ![job] = a]
           /\ i' = IF ProbeEnds(a) THEN 0 ELSE a
           /\ Continue(IF ~ProbeEnds(a) THEN "probe"
                       ELSE IF a = at THEN After(job, "probe") ELSE Unconfigured(job))
    /\ UNCHANGED <<at, chip, driver, keywords, runs, history>>

\* Mutant: the reset spares the addresses that were assigned.
MutResetChip ==
    /\ sock' = [s \in Sockets |-> "closed"] /\ sent' = "no"
    /\ mac' = FALSE /\ UNCHANGED sipr

\* The card's reset latch: every socket is closed, every address 0.
ResetChip ==
    /\ sock' = [s \in Sockets |-> "closed"] /\ sent' = "no"
    /\ mac' = FALSE /\ sipr' = FALSE

\* w5300_reset_impl sets its timer and pulls the reset.
Reset ==
    /\ Step("reset")
    /\ Written(job)
    /\ IF OnCard(job)
       THEN ready' = FALSE /\ ResetChip
       ELSE UNCHANGED chip
    /\ UNCHANGED <<at, base, i, driver, keywords, runs>>

\* The chip comes out of reset within the two seconds of the timer.
Ready ==
    /\ ~ready
    /\ ready' = TRUE
    /\ UNCHANGED <<at, mac, sipr, sock, sent, base, i, job, step, driver, keywords, runs,
                   history>>

\* PT_WAIT_UNTIL(timer_expired)
Wait ==
    /\ ready /\ Step("wait")
    /\ UNCHANGED <<at, chip, base, i, driver, keywords, runs, history>>

\* w5300_memory_config sets what a reset leaves as well: 8 kbyte for each.
MemoryConfig ==
    /\ Step("memory")
    /\ Written(job)
    /\ UNCHANGED <<at, chip, base, i, driver, keywords, runs>>

\* The MAC address, the last thing w5300_configure does.
SetAddress ==
    /\ Step("address")
    /\ Written(job)
    /\ mac' = (mac \/ OnCard(job))
    /\ UNCHANGED <<at, ready, sipr, sock, sent, base, i, driver, keywords, runs>>

\* dhcpc_init and tftp: open_socket((SOCKET)0, ...).
ClientSocket == 0

\* The beginning of dhcpc_init: no address, and the socket is opened, whoever
\* has it.
DhcpBegin ==
    /\ Step("dhcp")
    /\ Written(job)
    /\ IF OnCard(job)
       THEN /\ sipr' = FALSE
            /\ sock' = [sock EXCEPT ![ClientSocket] = "client"]
       ELSE UNCHANGED <<sipr, sock>>
    /\ UNCHANGED <<at, ready, mac, sent, base, i, driver, keywords, runs>>

\* tftp opens the same socket, with whatever address there is.
TftpBegin ==
    /\ Step("open")
    /\ Written(job)
    /\ sock' = IF OnCard(job) THEN [sock EXCEPT ![ClientSocket] = "client"] ELSE sock
    /\ UNCHANGED <<at, ready, mac, sipr, sent, base, i, driver, keywords, runs>>

\* sendto up to its wait.  A socket that was taken meanwhile and is not connected,
\* or was closed, transmits nothing.
Send ==
    /\ Step("send")
    /\ Written(job)
    /\ sent' = IF OnCard(job) /\ sock[ClientSocket] \in {"client", "channel"}
               THEN "out" ELSE "no"
    /\ UNCHANGED <<at, ready, mac, sipr, sock, base, i, driver, keywords, runs>>

\* A transmission ends: SENDOK or TIMEOUT.
Transmitted ==
    /\ sent = "out" /\ sent' = "done"
    /\ UNCHANGED <<at, ready, mac, sipr, sock, base, i, job, step, driver, keywords, runs,
                   history>>

\* The loop of sendto: SENDOK, TIMEOUT, or a socket that is closed.
SendtoEnds ==
    /\ Step("sendto")
    /\ OnCard(job) /\ (sent = "done" \/ sock[ClientSocket] = "closed")
    /\ sent' = "no"
    /\ UNCHANGED <<at, ready, mac, sipr, sock, base, i, driver, keywords, runs, history>>

\* Where no card is, the loop ends if what lies at the address happens to read
\* as one of the three; nothing says that it ever does.
SendtoFooled ==
    /\ Step("sendto") /\ ~OnCard(job)
    /\ Written(job)
    /\ UNCHANGED <<at, chip, base, i, driver, keywords, runs>>

\* The next packet of the exchange.
Another ==
    /\ step = "exchange" /\ Continue("send")
    /\ UNCHANGED <<at, chip, base, i, driver, keywords, runs, history>>

\* An ACK came to the socket: the address is set and the socket closed.
Acquired ==
    /\ job # "tftp" /\ Step("exchange")
    /\ OnCard(job) /\ sock[ClientSocket] # "init"
    /\ Written(job)
    /\ sipr' = TRUE
    /\ sock' = [sock EXCEPT ![ClientSocket] = "closed"]
    /\ UNCHANGED <<at, ready, mac, sent, base, i, driver, keywords, runs>>

\* Twenty seconds without one, looked at between two waits of handle_dhcp only:
\* the socket stays open.
TimedOut ==
    /\ job # "tftp" /\ Step("exchange")
    /\ UNCHANGED <<at, chip, base, i, driver, keywords, runs, history>>

\* tftp is done, or gives up, and closes the socket, whosever it is by then.
TftpEnds ==
    /\ job = "tftp" /\ Step("exchange")
    /\ Written(job)
    /\ sock' = IF OnCard(job) THEN [sock EXCEPT ![ClientSocket] = "closed"] ELSE sock
    /\ UNCHANGED <<at, ready, mac, sipr, sent, base, i, driver, keywords, runs>>

ExchangeEnds == Acquired \/ TimedOut \/ TftpEnds

\* The stack of the entry points is allocated at the very end of main.
AllocStack ==
    /\ Step("stack")
    /\ altsysstack' = TRUE
    /\ UNCHANGED <<at, chip, base, i, linked, peers, recv_buf, keywords, runs, history>>

Working ==
    \/ Link \/ ClearTables \/ Keywords \/ Probe \/ Reset \/ Wait \/ MemoryConfig
    \/ SetAddress \/ DhcpBegin \/ TftpBegin \/ Send \/ SendtoEnds \/ Another
    \/ ExchangeEnds \/ AllocStack

-----------------------------------------------------------------------------
(* Other jobs, through the entry points *)

FreeSockets == {s \in Sockets : peers[s] = "none"}

\* Mutant: the search begins with the first socket.
MutTaken(S) == CHOOSE s \in S : \A t \in S : s <= t

Taken(S) == CHOOSE s \in S : \A t \in S : s >= t

Starting == job = "qedrv"

\* ch_open takes the highest free socket and opens it; a chip in reset, or an
\* address where no card is, swallows the commands.  OPEN cuts a transmission off,
\* and leaves IR as it is.
ChOpen(kind) ==
    /\ linked /\ FreeSockets # {}
    /\ LET s == Taken(FreeSockets)
       IN  /\ peers' = [peers EXCEPT ![s] = "peer"]
           /\ recv_buf' = recv_buf \cup {s}
           /\ IF kind # "SCK" /\ OnCard("qedrv") /\ ready
              THEN /\ \E status \in Opened(kind) : sock' = [sock EXCEPT ![s] = status]
                   /\ sent' = IF s = ClientSocket /\ sent = "out" THEN "no" ELSE sent
              ELSE UNCHANGED <<sock, sent>>
           /\ full' = (full \/ FreeSockets = {s})
    /\ stray' = (stray \/ (kind # "SCK" /\ ~OnCard("qedrv")))
    /\ early' = (early \/ Starting)
    /\ UNCHANGED <<at, ready, mac, sipr, base, i, job, step, linked, altsysstack,
                   keywords, runs, bare>>

\* ch_close, which writes to the chip, IR included, whatever kind the channel is of.
ChClose(s) ==
    /\ peers[s] # "none"
    /\ peers' = [peers EXCEPT ![s] = "none"]
    /\ recv_buf' = recv_buf \ {s}
    /\ IF OnCard("qedrv") /\ ready
       THEN /\ sock' = [sock EXCEPT ![s] = "closed"]
            /\ sent' = IF s = ClientSocket THEN "no" ELSE sent
       ELSE UNCHANGED <<sock, sent>>
    /\ stray' = (stray \/ ~OnCard("qedrv"))
    /\ UNCHANGED <<at, ready, mac, sipr, base, i, job, step, linked, altsysstack,
                   keywords, runs, early, bare, full>>

\* Mutant: the stub stays on the caller's stack.
MutStack == FALSE

\* The stack the stub moves to is the one the driver allocated.
Stack == altsysstack

\* ch_io_stub: every operation, SD_CHENQ and unknown ones too, is run on the
\* stack at altsysstack_top, and the caller's is there again at the exit.
\* A send on socket 0 may clear the SENDOK the client waits for, but only to give a
\* SEND of its own, which ends as well: sent stays as it is.
ChIo(s) ==
    /\ peers[s] # "none"
    /\ bare' = (bare \/ ~Stack)
    /\ UNCHANGED <<at, chip, base, i, job, step, driver, keywords, runs, early, stray, full>>

Jobs ==
    \/ \E kind \in Kinds : ChOpen(kind)
    \/ \E s \in Sockets : ChClose(s) \/ ChIo(s)

Next ==
    \/ Load \/ Exec \/ OMR \/ DHI \/ Working \/ SendtoFooled
    \/ Ready \/ Transmitted \/ Jobs

Spec == Init /\ [][Next]_vars

(* The program is scheduled, a reset ends, and so does a transmission.  The    *)
(* exchange ends if it is looked at again and again: by the overall timer of   *)
(* dhcpc_init and the resends tftp counts (InitReturns in Dhcp, TransferEnds   *)
(* in Tftp).  SendtoFooled has no fairness.                                    *)
FairSpec ==
    /\ Spec
    /\ WF_vars(Working) /\ WF_vars(Ready) /\ WF_vars(Transmitted)
    /\ SF_vars(ExchangeEnds)

-----------------------------------------------------------------------------
(* Properties *)

Steps == {"link", "clear", "probe", "reset", "wait", "memory", "address",
          "keywords", "dhcp", "open", "send", "sendto", "exchange", "stack"}

\* The type invariant.
TypeOK ==
    /\ at \in Positions
    /\ {ready, mac, sipr, linked, altsysstack, keywords} \subseteq BOOLEAN
    /\ sock \in [Sockets -> {"closed", "channel", "init", "client"}]
    /\ sent \in {"no", "out", "done"}
    /\ base \in [Programs -> 0 .. NumProbes] /\ i \in 0 .. NumProbes - 1
    /\ job \in Programs \cup {"none"}
    /\ step \in Steps \cup {"none"} /\ (job = "none" <=> step = "none")
    /\ peers \in [Sockets -> {"none", "peer"}]
    /\ recv_buf \subseteq Sockets
    /\ runs \in 0 .. MaxRuns
    /\ {early, bare, stray, full} \subseteq BOOLEAN

\* The card never has an IP address without the MAC address that goes with it,
\* whatever programs configure it, in whatever order (w5300_configure before
\* dhcpc_init, and a reset that clears both).
AddressNeedsMac == sipr => mac

\* DHCP and TFTP take socket 0 from nobody but the channel that was opened when
\* all the other sockets were reserved (ch_open counts down, they have 0).
ClientTakesTheLast ==
    \A s \in Sockets : sock[s] = "client" /\ peers[s] # "none" => full

\* If there is a card and no channel is opened before main has ended, no
\* register is written elsewhere, every call of the I/O entry has the driver's
\* stack, and a socket has its buffer exactly while it has a channel.
CleanStart ==
    ~early =>
        /\ at # NoCard => ~stray
        /\ ~bare
        /\ recv_buf = {s \in Sockets : peers[s] # "none"}

\* Every program comes to its end, unless it stays in sendto (socket.c:313) with
\* no SENDOK or TIMEOUT to come: where no card is, or as channels were opened on
\* socket 0 that do not transmit, or that cut its transmission off.
ProgramEnds ==
    \/ []<>(job = "none")
    \/ <>[](step = "sendto" /\ sent = "no" /\ at = NoCard)
    \/ <>[](step = "sendto" /\ sent = "no") /\ []<>(peers[ClientSocket] # "none")

-----------------------------------------------------------------------------
(* The inductive invariant (proved in DriverStartProofs) *)

ClientSteps == {"dhcp", "open", "send", "sendto", "exchange", "stack"}
Configured == {"reset", "wait", "memory", "address"} \cup ClientSteps

\* Where there is a card, a program that is done with its search has found it.
FoundOK ==
    at # NoCard =>
        /\ i < at
        /\ step \in Configured => base[job] = at
        /\ linked /\ job # "qedrv" => base["qedrv"] = at
        /\ keywords /\ job # "dhcp_cde" => base["dhcp_cde"] = at

\* The MAC address is there when DHCP begins, in the run of a program and in
\* the next one; tftp changes nothing of that.
MacOK ==
    at # NoCard =>
        /\ step \in ClientSteps /\ job # "tftp" => mac
        /\ job \in {"none", "tftp"} => mac \/ \A p \in Programs \ {"tftp"} : base[p] # at

\* Which steps belong to which program.
ProgramOK ==
    /\ step \in {"link", "clear", "stack"} => job = "qedrv"
    /\ step = "keywords" => job = "dhcp_cde"
    /\ step = "open" => job = "tftp"
    /\ step \in {"reset", "wait", "memory", "address", "dhcp"} => job # "tftp"
    /\ step = "link" => ~linked
    /\ job = "qedrv" => linked \/ step = "link"
    /\ job = "dhcp_cde" => keywords \/ step = "keywords"

\* Channels need the driver, and its stack if they were not opened too early.
ChannelsOK ==
    /\ linked /\ job # "qedrv" => altsysstack
    /\ \A s \in Sockets : peers[s] # "none" =>
          linked /\ (early \/ (altsysstack /\ job # "qedrv"))

\* Sockets are reserved from the highest on.
SocketsOK ==
    /\ peers[ClientSocket] # "none" => full
    /\ \A s \in Sockets : sock[s] = "client" => s = ClientSocket

IInv ==
    /\ TypeOK /\ AddressNeedsMac /\ CleanStart
    /\ FoundOK /\ MacOK /\ ProgramOK /\ ChannelsOK /\ SocketsOK
=============================================================================

# QE_driver: specifications, model checking and proofs

QE_driver is a driver for a WIZnet W5300 TCP/IP card on the Sinclair QL. The
card keeps the connections; the driver (`qedrv`) makes each of its eight
sockets a QDOS channel (`TCP_host:port`, `UDP_host:port`, `SCK_`) that programs
open, read, write and close. Around it there are a resolver, a DHCP client and
a TFTP client, which use the same socket functions.

This directory holds TLA+ specifications of that code, the TLC runs that check
them on small instances, and proofs checked by TLAPS.

## Inventory

| component | state | operations | what makes it hard | what makes it correct | module |
|---|---|---|---|---|---|
| receive path: `chan_ops.c`, `socket.c`, `w5300-access.c` | per socket `tcp_pack_remain`, `tcp_pack_size`, `recv_buf`, `recv_buf_ptr`; on the chip RX FIFO, RX_RSR, status, command | `pend`, `fbyte`, `fline`, `ip_recv`, `get_next_packet`, `bytes_available`, `is_closed` | the chip changes its registers between any two accesses, and a 16-bit register is read in two; three functions share one cursor; odd packet sizes | bytes in order, each once; no answer denies what had arrived; reads end | `QeReceive` |
| send path: `socket.c`, `chan_ops.c` | `check_sendok_flag`, TX FIFO, TX_FSR, IR | `sstrg`, `socket_send`, `sendto` | waits that do not look at the connection; data in the FIFO before the check; a flag and an interrupt bit that outlive the connection | the peer gets what was accepted, in order; one SEND at a time; a send ends | `QeSend` |
| channels: `qedrv.c` | `peers`, `recv_buf`, the channel blocks, the frame of `ch_open` | `ch_open`, `parse_channel_def`, `ch_close` | six ways to fail with blocks allocated; the network goes on meanwhile; waiting for a connection in supervisor mode | one channel per socket, no leak, no double free, no data of an earlier channel, `ch_open` ends | `QeChannels` |
| heap: `heap.c` | QDOS common heap | `sv_memalloc`, `sv_memfree` | no error is looked at | every block held once | `QeChannels` |
| resolver: `resolv.c` | `hostents`, the reply buffer, the socket | `gethostbyname_impl`, `get_channel_hostent`, `sendQueryAndReceiveResponse`, `ngethostbyname` | takes socket 7 whoever has it; does not wait for the reply; frees before it knows the outcome; computes sizes and fills buffers in two walks | an answer belongs to the question; the two walks agree | `Resolver`, `DnsReply`, `QeChannels` |
| resolver cache: `resolv.c` | `entry_cache`, `cache_refcount` | `get_from_cache`, `store_in_cache`, `find_LRU_cache_entry` | one counter orders all uses | the name given up is the one not used for longest | `ResolverCache` |
| DHCP client: `dhcpc.c` | the protothread's state, server, addresses, two timers | `dhcpc_init`, `handle_dhcp`, `parse_msg` | late and foreign answers, a restart in the middle, an overall time-out | the address configured is one that was acknowledged; it ends | `Dhcp` |
| timers: `timer.c`, `clock-arch.c` | start, interval | `timer_set`, `timer_expired` | the clock comes round | a timer expires when its interval has passed, and not before | `Timer` |
| TFTP client: `tftp.c` | the protothread's state, block numbers, resend count, timer | `tftp_get`, `handle_get` | lost, repeated, reordered and foreign packets; 16-bit block numbers; time-outs | the file is written in order, whole, once | `Tftp` |
| driver start: `qedrv.c: main`, `w5300-ops.c` | the linkage block, tables, `altsysstack`, `w5300_base_addr` | `main`, `w5300_set_base_address`, `w5300_reset_impl`, `w5300_configure` | calls arrive as soon as the driver is linked, 20 seconds before it is ready; `sendto` waits for a chip that may not be there | no call sees what is not initialised; it ends | `DriverStart` |
| I/O stub: `qe_access.s` | `altsysstack`, `ssp_save`, `err_code` | `ch_io_stub` | one static stack and error word | every call on the driver's stack | `DriverStart` |
| DHCP keywords, and the programs that use socket 0: `dhcpext.c`, `dhcpbas.s`, `dhcpc_main.c`, `main` of `tftp.c` | a base address of their own | `DHI`, `OMR`, `dhcpc`, `tftp` | they reset the chip and take socket 0 under open channels | the card is not left half configured; they end | `DriverStart` |

The components meet in three places. The socket tables of `socket.c` are
written by `ch_open` and `ch_close` and by every read. The chip's sockets are
driven by channels, by the resolver (7) and by DHCP and TFTP (0), with no table
that all of them consult. And the QDOS heap is shared by everything. QDOS calls
the driver in supervisor mode, so two driver calls never overlap; what runs
concurrently with a call is the chip, and behind it the peers. `main`, the
keywords, `dhcpc` and `tftp` run in user mode: there a driver call may come between any
two steps.

## Modules

| module | what it is |
|---|---|
| `ByteStream` | abstract: a channel as an in-order byte stream, and the answers each operation may give |
| `QeReceive`, `MCQeReceive`, `QeReceiveProofs` | the receive path of one channel, register access by register access |
| `QeSend`, `MCQeSend`, `QeSendProofs` | the send path of one socket over successive connections |
| `QeChannels`, `MCQeChannels`, `QeChannelsProofs` | opening and closing channels, with the heap, the look-up of names and the chip's sockets |
| `LruMap` | abstract: a map that gives up the key not used for longest |
| `ResolverCache` | the resolver's cache |
| `DnsReply`, `DnsReplyProofs` | a reply as bytes, and the three walks over it |
| `Resolver`, `MCResolver`, `ResolverProofs` | both look-ups with the cache, the replies and a network |
| `Timer` | timers on a clock that comes round |
| `AddressLease` | abstract: an address is used only if it was granted |
| `Dhcp`, `MCDhcp`, `DhcpProofs` | the DHCP client against servers and a network |
| `FileTransfer` | abstract: a file that grows as a prefix of one source's file, and is whole when the outcome is "ok" |
| `Tftp`, `MCTftp`, `TftpProofs` | the TFTP client against servers and a network |
| `DriverStart`, `MCDriverStart`, `DriverStartProofs` | everything that sets up the card or takes socket 0, against the calls of other jobs |

`MC` modules give the constants their values for TLC, and `Proofs` modules hold
the theorems. An operator `MutX` beside an operator `X` is `X` with a plausible
mistake; put in its place, it makes a property of a run fail, which shows what
the property depends on.

### QeReceive

The chip's variables are `fifo` (16-bit words), `rsr` (RX_RSR), `ssr` (status)
and `recv` (the command register still holds RECV). The driver's are named as
in `socket.c`. `pc`, `op`, `buf_len`, `num_read`, `lf` and `rsr_hi` are the
frame of the one call in progress, `out` and `result` are what its caller got,
and `polled` is history: how much had arrived when the call read RX_RSR.

| action | code |
|---|---|
| `Call` | entry of `pend`, `fbyte`, `fline`, `ip_recv` |
| `PendBuffered`, `CopyByte` | bytes left in `recv_buf` |
| `ReadRsrHigh`, `ReadRsrLow` | `bytes_available`: the two byte reads of `w5300_read_reg16`, and the test |
| `ReadPacket`, `RecvDone` | `get_next_packet` up to the RECV command; the wait for it, and the test of the returned size |
| `ReadStatus` | `is_closed` and the answer |
| `Finish` | the loop conditions of `fline` and `ip_recv` |
| `Arrive`, `PeerFin`, `PeerReset`, `RecvCommand` | the chip and the peer (external) |

A byte is its position in the peer's stream, and a word of the FIFO the
position of its first byte. So order, loss and repetition are seen directly,
and no byte value is needed but "is it a line feed". The words of a packet are
read in one step: until RECV the chip only appends to the FIFO, so the steps in
between commute with the chip's. `ip_recv` is reached through `ch_io`, which
the driver linked before `ch_io_stub` replaced it; it is modelled as one of
`chan_ops.c`'s operations. `result.err` is what these functions store in
`*error_code`; what the stub makes of it is not in the model (see *Findings*).

`ImplementsByteStream` is `ByteStream!Spec` under the mapping `closed <- ssr =
"CLOSED"`, `call <- StreamCall` (the frame without its program counter). Every
driver step is a stutter, one `Deliver`, or one `Reply`.

### QeSend

The chip's variables are the status `ssr`, the command register `cr`, `wrsr`
(TX_WRSR), the FIFO, `fsr` (TX_FSR), the bits SENDOK and TIMEOUT of IR, and
`air`, what the chip is transmitting. The driver's are `check_sendok_flag` and
the frame of the call. A byte is its position in what the program sends on the
connection; `peer` is what arrived, `accepted` what was reported as sent.

| action | code |
|---|---|
| `Open` | `open_socket` with `connect`, which `ch_open` does not call for a `TCP_` channel that has no address or no port (INIT): OPEN clears the memory, not IR; the flag is set |
| `Disconnect`, `Close` | `disconnect`, and the two halves of `socket_close`: IR first, CLOSE after |
| `Sstrg`, `ReadFsrHigh`, `ReadFsrLow` | `sstrg`, and the wait for free memory in `socket_send` |
| `WriteFifo` | `w5300_write_fifo`, and the test of the flag |
| `ReadIr`, `ReadStatus`, `ClearSendok` | the wait for the SEND before; -1 when the socket is closed |
| `GiveSend` | TX_WRSR and SEND; the caller's pointer |
| `Sendto`, `SendtoReadIr`, `SendtoReadStatus`, `SendtoDone` | `sendto` |
| `TakeSend`, `Transmitted`, `NoHost`, `Ack`, `PeerFin`, `Lost` | the chip, the network and the peer (external) |

`tainted` records the two ways in which the code itself breaks what it relies
on: a SENDOK or TIMEOUT of an earlier connection that OPEN leaves, and a FIFO
filled beyond the memory (`sendto` does not look at TX_FSR, and `socket_send`
may read it while a SEND is being taken). Everything is claimed up to there.

A socket has one user at a time here; that the resolver, DHCP and TFTP open
sockets without asking is in `QeChannels` and `DriverStart`. `SCK_` channels,
which give no OPEN, are not in `QeSend`.

### QeChannels

`ch_open` is a sequence of actions, one for each point at which another party
may act or the call may fail; `ch_close` is one action. Heap blocks are
numbered, `sv_memalloc` takes the first free one (so that a freed block is
soon used again, the bad case for dangling pointers), and every pointer
variable of the code is a variable here. `Wild` is the pointer `sv_memalloc`
makes when the heap is exhausted. The chip is mode, status and the owner of the
last OPEN command for each socket, and whose data lies in its memory.

A look-up has three outcomes: an address, a reply without address, a response
code. `lost` and `tainted` record what a response code leaves behind, so that
`HeapSound` and `NoLeak` say exactly what is still true: before the first
look-up that failed on a socket with an earlier result, every block is held
once, and what leaks is one reply buffer for each failed look-up. `Wild` is
excepted: it is no block of the heap, and several places may hold it.

### DnsReply, ResolverCache and Resolver

`DnsReply` has the walks as recursive functions over the bytes of a reply:
`findMallocSize` counts, `fill_hostent` writes, `findIp` looks for one address.
They differ in how far they step over a name (`SizeStep`, `FillStep`,
`ReadNameCount`) and in what a name adds; that is kept, and the copying of bytes
is not. What is made of the records a walk finds has operators of its own:
`BlockSize` is the count, `HostentOf` the hostent, with `prev_start` the name
that waits for the next address or alias. `Encode` makes a reply as a server
does: a chain of aliases, then addresses, compressed or not. Whether `char` is
signed is the compiler's choice, and `signed` is both.

`ResolverCache` holds the cache's operations, and `Resolver` the two look-ups:
`ngethostbyname` and `gethostbyname_impl` up to `recvfrom`, `Receive` what they
make of what they read, `Arrive` the network. Neither waits for the reply. So
`Receive` may find an empty FIFO, and then read nothing or anything; and a reply
that was too late stays on the wire, has the right port and id, and is read as
the reply to the next query. `astray` records that, and `AnswerIsTrue` is about
everything up to then.

The block of a name that is evicted (`strdup`'d, given to `sv_memfree`) is not
followed, and the counter is not taken to the end of its `long`.

### Timer and Dhcp

`Timer` has `timer_set` and `timer_expired` on a clock of `ClockMod` values, the
difference taken as a signed long (`timer_reset` and `timer_restart` have no
caller). `Dhcp` extends it. `handle_dhcp` is a
protothread that blocks in two places, and an action is what it does from one to
the next.

| action | code |
|---|---|
| `dhcpc_init` | the function up to its loop |
| `Begin` | PT_BEGIN to the first wait |
| `Offer`, `NoOffer` | a packet, or the timer, while an offer is awaited |
| `Configure`, `NotAcked`, `NoAck` | the same for an acknowledgement, and what follows it |
| `GiveUp` | the overall timer of `dhcpc_init` |
| `Tick` | the clock (external) |
| `MakeOffer`, `Acknowledge`, `Refuse`, `Withdraw`, `Deliver` | servers and network (external) |

An address is named by the server that owns it. A packet that was sent can be
delivered any number of times, at any time, or never. `parse_msg` accepts every
reply to this client, whatever its type, and overwrites address and server
before the type is looked at; so a late offer changes both while a request is
out, and a refusal sets the address to 0.0.0.0.

`Dhcp` takes a card, and socket 0 for itself: `sendto`'s wait for SENDOK,
TIMEOUT or CLOSED (`socket.c:313`) ends at once in `Broadcast`. So `InitReturns`
is about the loop and the timers of `dhcpc_init`; that the wait may not end
without a card, or when a channel has taken the socket, is shown in
`DriverStart` (`ProgramEnds`).

`ImplementsLease` is `AddressLease!Spec` with `granted` read off the servers'
leases and `address` off the chip's SIPR.

### Tftp

`handle_get` is a protothread that blocks in one place, so an action is what it
does from one PT_WAIT_UNTIL to the next. The variables are `tftp.c`'s static
ones; `expected` is `expected_addr` with `expected_port`, and `file` what went
to the output channel.

| action | code |
|---|---|
| `Start` | STATE_SEND_RRQ, and the wait |
| `IgnorePacket` | the `continue`s for runts, other hosts and other packet types |
| `ServerError` | OP_ERROR |
| `IgnoreBlock`, `RepeatedBlock`, `NewBlock` | OP_DATA with a block that is neither, the one before, the one expected; with the write and the ACK |
| `Timeout` | the timer has expired: count, give up or send again |
| `Answer`, `Acknowledged` | a server answers a copy of the request from a port of its own, and sends the next block when the last was acknowledged (external) |

Everything ever sent stays in a set: a packet that is not delivered is lost, one
delivered twice repeated, and any order is possible. A server's resends are
repetitions. The request is broadcast, so every server may answer every copy of
it, and each answer is a transfer of its own (`Endpoints`). `Strays` are packets
of hosts that take no part. The timer may expire at any time while the client
waits. `bytes_available` is one step here (its torn read is `QeReceive`'s
subject), and the RECV command of `recvfrom` is taken before the next look, and
`sendto`'s wait ends, with the datagram sent or refused, in the step that sends
(`DriverStart` has that wait). `file` holds for each block who sent it and its
place in that sender's file, so that a file put together from two servers, or
with a block missing or twice, is seen. `requests` is counted up to
`MaxRequests`, as only so many are answered.

`ImplementsTransfer` is `FileTransfer!Spec` with `outcome` read from how the
protothread ended: a `NewBlock` is its `NextBlock`, everything else leaves the
file alone.

### DriverStart

One program at a time (`qedrv`'s `main`, OMR or DHI, `dhcpc`, `tftp`) goes
through its steps; `After` says which follows which. Each program has its own
`w5300_base_addr`. The driver's entry points are called by other jobs in
between, with channels of all three kinds. Of the chip there are the addresses,
what each socket is (`sock`: closed, a channel's that transmits, a `TCP_`
channel's that was never connected, or the client's), and `sent`: whether the
SEND a client gave on socket 0 is out, or SENDOK or TIMEOUT is there.

| action | code |
|---|---|
| `Load`, `Exec`, `OMR`, `DHI` | a program is started |
| `Link`, `ClearTables`, `AllocStack` | `main` of `qedrv.c` |
| `Keywords` | `dhcpbas.s` |
| `Probe`, `Reset`, `Wait`, `MemoryConfig`, `SetAddress` | `w5300-ops.c`, by way of `w5300_configure` (`tftp` probes only) |
| `DhcpBegin`, `TftpBegin` | `dhcpc_init` up to its loop; `open_socket` in `tftp.c` |
| `Send`, `SendtoEnds`, `SendtoFooled` | `sendto` up to its wait, and the end of the wait: on the card, and at an address where there is none |
| `Another` | the next packet of `handle_dhcp` or `handle_get` |
| `Acquired`, `TimedOut`, `TftpEnds` | the end of the exchange |
| `ChOpen`, `ChClose`, `ChIo` | the entry points, as far as stack, tables and socket are concerned |
| `Ready`, `Transmitted` | the chip comes out of reset; a transmission ends (external) |

`early`, `bare`, `stray` and `full` are history: a channel was opened before
`main` had ended, I/O ran on no stack of the driver, a register was written
where the card is not, all sockets were reserved at one time.

## Runs

| run | module | shows | size |
|---|---|---|---|
| `receive_tcp` | `MCQeReceive` | order, cursor, inductive invariant, honest answers, refinement; calls return, all is delivered, ERR_EF is stored when the connection has gone | 206 526 states |
| `send` | `MCQeSend` | order and completeness at the peer, one SEND at a time, honest sizes and results; sends end, but for three named ways; what was accepted on a connection is delivered | 51 097 states |
| `channels_open` | `MCQeChannels` | inductive invariant, heap, leaks, sockets, stale data; `ch_open` ends | 775 494 states |
| `resolver` | `MCResolver` | answers and hostents are the DNS's, blocks are large enough, the cache is an LRU map | 328 153 states |
| `dhcp` | `MCDhcp` | inductive invariant, consistent requests, exact timers, refinement; `dhcpc_init` ends | 594 089 states |
| `start` | `MCDriverStart` | inductive invariant, addresses, socket 0, a clean start; every program ends, but for two named ways | 205 641 states |
| `tftp_agree` | `MCTftp` | the file is whole at the end, refinement, the client ends | 9 526 states |
| `tftp_many` | `MCTftp` | order, acknowledgements, inductive invariant, with strangers | 301 992 states |
| `receive_udp` | `MCQeReceive` | finding: TCP framing on UDP channels | violated |
| `channels_dangling` | `MCQeChannels` | finding: the previous result freed twice | violated |
| `reply_overrun` | `MCResolver` | finding: the block of a hostent is too small | violated |
| `tftp_truncated` | `MCTftp` | finding: ends early | violated |

**Bounds.**

- `QeReceive`: a register byte has 8 values instead of 256, so that RX_RSR
  carries into its high byte with two packets queued (that is the torn read);
  packets of 1 to 3 bytes (even and odd), 14 bytes of RX memory (three packets,
  and a full memory), a stream of 5 bytes, buffers of 0 to 2 bytes (shorter than
  a packet, so a packet spans calls, and longer, so a call spans packets), line
  feeds at positions 1 and 4.
- `QeSend`: 3 bytes of memory, read as two digits of base 2 (so an
  acknowledgement can carry between the halves); sends of 1 to 3 bytes (odd,
  even, and cut short by the memory), 5 bytes on a connection (the memory is
  filled twice), two connections (a bit and a flag can outlive the first), each
  established, refused or never asked for.
- `QeChannels`: two sockets, the resolver's and another; four opens, so that a
  socket is used again after a close and both are taken when a third open comes;
  8 heap blocks, which one channel and an open that looks a name up exhaust.
- `Resolver`: three hosts and two cache entries (so one is given up), four
  look-ups (a hit after an eviction), five replies: three addresses, a response
  code, an alias with two addresses compressed, the same not compressed, and
  aliases so long that a pointer's low byte is above 127.
- `Dhcp`: two servers and a stranger's packet, one packet waiting at a time, one
  call of `dhcpc_init`, intervals doubled once, a clock of 16 values that comes
  round during the wait.
- `DriverStart`: three candidate addresses, the card at the first, the last or
  none; two sockets (socket 0 and one above); four programs run.
- `Tftp`: two servers, two requests answered (so four transfers compete), files
  of one to three blocks (a first, a middle and a last one), one repetition of a
  packet already delivered, time-outs up to the limit; block numbers modulo 8,
  which three blocks do not exhaust (`NoWrap`).

Deadlock is checked in the receive and TFTP runs. The others stop when their
opens, connections, look-ups or runs are used up, so theirs do not check it.

**Fairness.** The driver's code runs to its end (`WF(Driver)`, `WF(Opening)`):
it runs in supervisor mode and nothing preempts it. The chip executes a command
it was given (`WF(RecvCommand)`, `WF(TakeSend)`), a transmission ends in one way
or another (`WF(TransmissionEnds)`, `WF(Transmitted)`: sent, no such host, or the
connection is lost), and a CONNECT is answered or times out (the chip retransmits a bounded
number of times). The chip leaves its reset (`WF(Ready)`), and the program that
configures it is scheduled (`WF(Working)`). The exchange of `dhcpc_init` or
`tftp_get` ends if it is looked at again and again (`SF(ExchangeEnds)`): that is
what `InitReturns` and `TransferEnds` show, and it is strong because the next
packet may be sent in between. `SendtoFooled` has no fairness: what is read where
no card is, nobody knows. `dhcpc_init` calls `handle_dhcp` in
a loop (`WF(Client)`) and time passes (`WF(Tick)`). `tftp_get` calls
`handle_get` in a loop (`WF(Start)`), and its timer expires while nothing comes
(`WF(Timeout)`). Peers, servers and network owe nothing: no packet, no
acknowledgement, no FIN. `AllDelivered` and `EofSeen` are about a caller that
keeps on reading: `SF(ReadCall)`, strong because a read can be invoked only
between calls.

**Liveness.** `SendReturns` names the three ways in which `socket_send` never
comes back: memory that is full and never acknowledged, on a connection that is
closed or on one that lives; a datagram of a `UDP_` channel for a host that is
not found (IR has TIMEOUT, which `socket_send` does not look at); and a `TCP_`
channel that was never connected, whose second send waits for the SENDOK of the
first. TLC finds each of the three needed. `ProgramEnds` names the two in which a
program stays in `sendto`: no card, so that nothing comes of the SEND; or a
channel on socket 0, opened while the client has it, that is not connected or
whose OPEN cuts the client's transmission off. Each is needed here, too.
All runs but `start` take the card to be there and found: without one, the waits
of the resolver's `sendto` (in `ch_open`), `connect` and `socket_send` depend on
what is read where no card is, as that of `SendtoFooled` does.
`OpenEnds`
names the one in which `ch_open` does not: a connection accepted and
half-closed before `connect` looks. `InitReturns` holds whatever servers send;
`TransferEnds` holds for finitely many repetitions, as a stream of packets
without end does hold `handle_get`.

## Findings

With a run:

1. UDP channels are read with TCP framing (`receive_udp`).
2. A failed look-up leaves a pointer to a freed block, which the next one frees
   again (`channels_dangling`).
3. `fill_hostent` writes the owner's name once for every address, as
   `a_record_found` is only counted up where it already is not 0;
   `findMallocSize` counts it once. From three addresses on the block is too
   small (`reply_overrun`). Up to two it fits (`HostentFits`), because the size
   has a second name's room to spare.
4. A short packet of another host is ignored, but its length ends the transfer
   when the next time-out sends the ACK again: GET_OK with part of the file
   (`tftp_truncated`). `Agreement` says when that cannot happen.

Without a run, seen while translating; the models contain them, and where a
property would fail by one, the property names it as an exception.

*Reading.* `ch_io_stub` gives `pend`, `fbyte` and `fline` the address of one word
for their error code, an `int` of 32 bits (`resolv.h:83` and `qedrv.c:120` need
that many, and CFLAGS have no `-mshort`). The store runs over the word behind it,
and the stub returns the upper half: ERR_OK is 0, but ERR_EF and ERR_BO reach the
program as $FFFF, which is ERR_NC, so that through the stub no program is told of
the end of a connection. RX_RSR is read once as two bytes; while a packet arrives, a carry
reads as 0 and `pend` denies two packets (`NoInputIsHonest` says "unless another
arrived since"). Size first, status second: end of file is answered with data
unread, and a program that goes on reading still gets it (`AllDelivered`). A
peer that closes its side only is never reported.

*Sending.* `socket_close` clears IR before it gives CLOSE, and `open_socket`
does not: a SENDOK in between counts for the next connection's second send.
TX_FSR is read while the SEND before is being taken, so the size can be stale or
torn and the FIFO overfilled. A failed send has its data in the FIFO, moves the
caller's pointer back by one and answers ERR_OK. `UDP_` channels never set
DIPR and DPORT. A `TCP_` channel with a bare name, port 0, or no address found is
opened and not connected (`qedrv.c:221`): its first send is accepted and
dropped, and the second never returns (`SendReturns`).

*Opening.* A look-up re-opens socket 7, the first channel's. `sv_memalloc`
never returns NULL, so "Out of Memory" (`qedrv.c:178`) cannot be answered
(`Wild`).

*Looking up.* A reply that was late is read as the next query's, and cached
under its name. A `char` that is signed hides pointers: `findIp` then does not
recognise one, and reads a compressed reply from the wrong place; and
`findMallocSize` and `fill_hostent` misread pointers whose low byte is 128 or
more. Both step wrongly over an owner that is not compressed. A record of a type
that is neither A nor CNAME ends `fill_hostent` early. `h_name` is not set when
there is no A record. The name is measured before it is tested for NULL, and
`ngethostbyname` has no caller.

*DHCP.* A late offer of another server overwrites address and server while a
request is out; the next request is for that one. An acknowledgement without
options leaves the netmask and router of another server's offer. Any packet for
another client ends an attempt and doubles the interval. A refusal is no
restart: 0.0.0.0 is requested. A time-out leaves socket 0 open.

*Starting.* The driver is linked before its tables, its stack and the chip are
ready: I/O of an early channel runs on no stack, and `main` then drops its
buffer. The result of `w5300_configure` is ignored, so without a card registers
are written where none is, and `main` waits in `sendto` for what it reads there;
`tftp` does the same. OMR and `dhcpc` reset the chip under open channels, which
are not told. DHCP takes socket 0 from the last channel and leaves it open after
a time-out; `tftp` takes it and closes it. A channel that gets socket 0 while
they run can make their `sendto` wait for ever, and DHCP's overall timer is not
looked at there (`ProgramEnds`).

*TFTP.* `num_resends` is incremented twice for a time-out, so two resends are
made where MAX_RESENDS is 3 (`Counted`). After block 65535 `expected_block` is 0
and then 1, when packets of any host are taken (`Foreign`, excluded by
`NoWrap`).

## Proofs

Every safety theorem follows from an inductive invariant `IInv`: it holds
initially, every action preserves it (one lemma for each), and it implies the
property. Every safety property of a passing run is the subject of a theorem.
The runs check the `IInv`s of `QeReceive`, `QeChannels`, `Dhcp`, `DriverStart`
and `Tftp` as well; those of `QeSend` and `Resolver` are only proved. What
follows says, for each module, what `IInv` adds and why.

**QeReceive.** `QeReceiveProofs` proves for TCP channels (`~Udp`), for every
width of a register byte, packet size, memory size and stream, from
`ReceiveAssumption` alone: `Invariant`, `TypeCorrect`, `StreamInOrder`,
`CursorCorrect`, `HonestAnswers`, `CallsEnd` and `Refinement`.

The argument. `InOrder` is not inductive: that the next byte copied is the next
of the stream depends on what lies in `recv_buf` and behind it in the FIFO.
`IInv` adds four parts:

- `FifoOK`: every header in the FIFO is followed by the words of its packet,
  and those by the header that continues the stream;
- `HeadOK`: the FIFO starts where the bytes in `recv_buf` end, and when it is
  empty, nothing more has arrived;
- `BufferOK`: `recv_buf` holds, from the cursor on, the bytes that come next;
- `PhaseOK` and `CallOK`: what each point of the code knows. For example, RX_RSR
  equals the FIFO's size except while a RECV is being executed, and the driver
  never reads it then.

The lemmas on operators carry the content: `WordsToReadIsExact` (the driver
takes as many words as the chip queued, also for odd sizes), `PacketAdded` and
`PacketTaken` (the FIFO's shape survives an arrival and a read),
`RegisterBytes` and `RegisterZero` (the two halves of a register),
`AvailableIsTrue` (a size that does not read 0 means there is a packet, torn or
not) and `StatusIsGood` (`fbyte`'s short and `fline`'s int both see a good
size). `ReceiveAssumption` says what makes the last one true: twice TCP_MAX_MTU
is less than the square of `Radix`.

`CallsEnd` is what can be proved of `CallReturns`. `StepsLeft` counts the
driver's steps a call still has before it, four for each byte wanted and up to
five; `CallShortens` says that every step of the driver makes it less, whatever
the chip and the peer do, and that it is never below 0. So the loops of `fline`
and `ip_recv` cannot spin; what fairness is needed for is that the driver runs
and that the chip takes a RECV. `CallShortens` is an action property that no run
lists; TLC finds it true with the constants of `receive_tcp`.

**Tftp.** `TftpProofs` proves, for any servers, requests, strangers, losses,
repetitions and limit of resends, under `NoWrap` (every file has fewer blocks
than there are block numbers): `TransferInvariant`, `FileInOrder` and
`NothingLost`; and if also all servers have the same file and nobody else sends
(`Agreement`): `LengthInvariant` and `TransferImplemented`.

The argument. That the file is in order needs that a DATA packet with the
expected number, from the sender listened to, is the next block of its file.
`ClientOK` says which number is expected and from whom; `ServersOK` says that a
server is at most one block ahead of the file, and that only the one listened
to is past its first block. The latter holds because a server goes on only when
its block was acknowledged, and `AckedIsWritten` says that such a block is in
the file; so the three support each other and are inductive only together.
`LengthOK` rests on `OldPacketIsFull`: any packet that comes too late or from
another server is a full one while the file is not whole, so the length that
`recv_len` keeps cannot end the transfer. `tftp_truncated` is what happens
without `Agreement`.

**QeSend.** `QeSendProofs` proves, for any memory, register width, lengths and
number of connections: `SendInvariant`, `PeerGetsStream`, `OneSendAtATime`,
`FreeSizeIsHonest` and `SendtoReportsSent`. `PeerInOrder` says nothing of where
the next byte is. `DataOK` does: the bytes up to the caller's pointer are with
the peer, in the air and in the FIFO behind a SEND, in this order and without a
gap, and those of the call in progress come behind them, padded to whole words.
For that, no SEND may be given while another is out; `SendokOK` shows that
SENDOK and the flag say so, and `SendtoOK` that `sendto` leaves neither behind.
`FreeOK` is the argument about the torn TX_FSR: acknowledgements only let it
grow, so the high half read first is at most the present one, and the sum at
most the present size.

**QeChannels.** `QeChannelsProofs` proves, for any number of sockets and opens
and a heap of any size, also one that runs out: `ChannelsInvariant`,
`SocketsAreNotShared`, `SocketIsItsChannels`, `EveryBlockHeldOnce` (`HeapSound`)
and `NothingElseLeaks` (`NoLeak`). The invariant has two parts.

`SocketInv` adds `FrameOK` (the socket that the search found stays free, and its
peer allocated, until the channel takes it) and `ConnectOK` (a socket that waits
for its connection is its opener's).

`HeapInv` adds to the two properties what they need of each other. That a freed
block is held nowhere else is `HeapSound`; that a block the heap hands out is
held nowhere yet needs `NoLeak` with `LostIsLost` (a reply buffer left behind is
in nobody's hands), and that `NoLeak` survives a free needs to know which of
`ch_open`'s pointers are set at each of its points: `PlacesOK`. `Kept` says it
for any set of pointers, tagged with the places that hold them, and four lemmas
what each use of the heap does to it: `KeptAlloc`, `KeptFree`, `KeptMove` (a
pointer goes to another place) and `KeptLose` (it is forgotten). The lemma of an
action names the places it changes and strings these together.

**Resolver.** `ResolverProofs` proves, for a cache of any size and any replies,
`CacheInvariant` and `CacheIsLru`. `CacheOK` says that no name has two entries
and that the order of the counts is the order of the last uses; so the least
count belongs to `LruMap`'s oldest key. That the cache gives a name up exactly
when the map is full is counted by a bijection of used entries and names.

`AnswersAreTrue` (`AnswerIsTrue`), `HostentsAreTrue` (`HostentIsTrue`) and
`HostentsFit` (`HostentFits`) have one hypothesis each about the replies, on the
reading of bytes: `RepliesAreRead`, that `findIp` gives an address of the reply
or none; and `RecordsAreFound`, that the two other walks find the records of a
reply that is `Understood`, and that its block is smaller than 65536 bytes. What
a recursive walk computes for every reply is induction over data, which the
provers here cannot do; so these two stay with TLC, which evaluates them for the
replies of the run (`MCRepliesAreRead`, `MCRecordsAreFound`), plain and
compressed, with `char` signed and not. Everything built on the walks is proved:

- `AnswersAreTrue`: through hits, evictions and replies that are lost or late,
  an answer belongs to its host as long as no query took another's reply;
- `HostentsAreTrue`: `prev_start` pairs names and addresses rightly, for a chain
  of aliases and a list of addresses of any length, though the names stand in
  the block in the order of the reply and the last address names the host
  (`InOrderFrom`, `AnswersNumbered`, `HostentIsRight` in `DnsReplyProofs`);
- `HostentsFit`: the block is counted record by record and written name by name.
  Both are sums over the records (`Total`); `Sizing` and `FilledFrom` compare
  them, and `BlockIsEnough` shows that the room `findMallocSize` adds for one
  more name is what a second address takes. Sums are shown to exist by a least
  counterexample instead of an induction.

**Dhcp.** `DhcpProofs` proves, for any servers, queue and network:
`DhcpInvariant`, `RequestsAgree`, `TimersAreExact`, `PatienceIsKept` and
`LeaseImplemented`. `ClockOK` says that the clock is as far from a timer's start
as seconds have passed, modulo its range; with `DhcpAssumption` (the longest interval is less
than half the range) the signed difference is then the true one. `PacketsOK`
says that an acknowledgement under way was granted, `KnownOK` that server and
address were told by one packet.

`PatienceIsKept` bounds `dhcpc_init`: while it runs, no more than `Patience`
seconds have gone since it began (`PatienceOK`, a part of the `IInv` that the run
checks), however often `handle_dhcp` starts anew with a timer of its own. The
invariant relates the two timers on the clock that comes round: the seconds of
the inner one are among those of the outer. `DhcpAssumption` has `Patience` less
than half the clock's range for it, which 20 seconds are.

**DriverStart.** `DriverStartProofs` proves, for any number of sockets and
candidates and any sequence of programs and channels: `StartInvariant`,
`MacBeforeAddress`, `StartIsClean` and `ClientSocketIsLast`. `FoundOK` says that a
program past its search has the card's address if there is a card, `MacOK` that
the MAC address is set before DHCP and stays until the next reset, `ProgramOK`
which steps are whose, `ChannelsOK` that channels need the driver's stack unless
they came early, `SocketsOK` that sockets are reserved from the highest on, so
that socket 0 is the last.

The assumptions are those named in the modules (`ReceiveAssumption`,
`SendAssumption`, `ChannelsAssumption`, `CacheAssumption`,
`ResolverAssumption`, `TimerAssumption`, `DhcpAssumption`, `StartAssumption`,
`TftpAssumption`), which TLC evaluates in the runs.

Only model-checked are:

- all liveness (`CallReturns`, `AllDelivered`, `EofSeen`, `SendReturns`,
  `AcceptedIsDelivered`, `OpenEnds`, `InitReturns`, `ProgramEnds`,
  `TransferEnds`): fairness and ENABLED are beyond TLAPS;
- `RepliesAreRead` and `RecordsAreFound`, the hypotheses of the three theorems
  about look-ups, for the replies of the run;
- the violated claims.

## Not modelled

- The vendor's accessors and register map (`w5300.c`, `w5300.h`,
  `w5300-regs.h`): nothing calls the accessors. `pt.h` and `lc*.h` are
  third-party macros; their blocking points are the program counters here.
- `channel.c` is older code that is not built, `debug.c` is output only.
- Code without a caller: `socket_recv` and the peek cache, `listen`,
  `remove_channel_hostent`, `close_channel`, `dhcpc_poll_task`, and
  `gethostbyname_impl`'s branch for numeric names, which `parse_channel_def`
  does not reach.
- TFTP: opening and closing the output file and `main`'s arguments.
- `qe_access.s`: how registers are passed and saved, and the word of the error
  code that is handed on (*Findings*): `QeReceive` ends at what `chan_ops.c`
  stores.
- The drain loop at the end of `handle_dhcp`: it ends if RX_RSR is 0 after
  CLOSE, of which the source says nothing; `Configure` and `Acquired` take it to
  be so.
- Texts, traces, `alloc_balance`.

What remains to be done is to compose: the modules abstract each other where
they meet (`DriverStart` takes an exchange of packets, and an open, as few steps, `QeChannels`
takes the outcome of a look-up as given), and no composition is checked.

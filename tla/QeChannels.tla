----------------------------- MODULE QeChannels -----------------------------
(***************************************************************************)
(* Opening and closing channels (qedrv.c: ch_open, parse_channel_def,       *)
(* ch_close) with what they lean on: the common heap (heap.c), the lookup   *)
(* of a host name (resolv.c: gethostbyname_impl), and the socket calls      *)
(* open_socket, connect, disconnect and socket_close (socket.c).            *)
(*                                                                          *)
(* Both entry points run in supervisor mode, so they exclude each other; the *)
(* chip and the peers do not stop, and act between any two of their steps.  *)
(***************************************************************************)
EXTENDS Integers, FiniteSets

CONSTANTS
    NumSockets,     \* sockets of the chip (8)
    PoolSize,       \* blocks of the common heap (bound)
    MaxOpens,       \* bound on the number of channels opened
    Names,          \* forms of a channel name after the prefix
    Outcomes        \* what a lookup may come to

ASSUME ChannelsAssumption ==
    /\ NumSockets \in Nat \ {0} /\ PoolSize \in Nat /\ MaxOpens \in Nat
    /\ Names \subseteq {"bare", "malformed", "ip", "host"}
    /\ Outcomes \subseteq {"address", "noaddress", "rcode"}

Sockets == 0 .. NumSockets - 1
Blocks == 1 .. PoolSize
NULL == 0
Wild == -1          \* what sv_memalloc returns when the heap is exhausted
Types == {"SCK", "TCP", "UDP"}

\* sendQueryAndReceiveResponse: SOCKET s = 7, of sockets 0-7.
DnsSocket == NumSockets - 1

Nobody == 0         \* owners of a chip socket: nobody, the resolver, or the
Resolver == -1      \* number of the ch_open that opened it

VARIABLES
    live,           \* heap blocks in use
    peers, recv_buf, hostents,
    channels,       \* channels QDOS holds: [blk, sock, type, gen]
    (* the chip, per socket *)
    mode, ssr, rx,
    owner,          \* history: who gave the last OPEN command
    (* ch_open in progress *)
    pc, i, channel_block, peer, alloc_address, orig_buf, name, ip,
    result, opens,
    lost, tainted   \* history: reply buffers and content buffers a failed
                    \* lookup left behind

chip == <<mode, ssr, rx, owner>>
tables == <<peers, recv_buf, hostents, channels>>
frame == <<pc, i, channel_block, peer, alloc_address, orig_buf, name, ip>>
history == <<opens, lost, tainted>>
vars == <<live, tables, chip, frame, result, history>>

-----------------------------------------------------------------------------
(* The common heap: first fit.  sv_memalloc adds $20 to whatever address the *)
(* system call leaves in A0 and never looks at its error code.               *)

FirstFree(used) ==
    IF Blocks \subseteq used THEN Wild
    ELSE CHOOSE b \in Blocks \ used : \A c \in Blocks \ used : b <= c

Used(used, b) == IF b = Wild THEN used ELSE used \cup {b}

sv_memalloc == FirstFree(live)

ClosedFrame ==
    /\ pc' = "idle" /\ i' = 0 /\ channel_block' = NULL /\ peer' = NULL
    /\ alloc_address' = NULL /\ orig_buf' = NULL
    /\ name' = [type |-> "SCK", form |-> "bare"] /\ ip' = FALSE

Init ==
    /\ live = {}
    /\ peers = [s \in Sockets |-> NULL]
    /\ recv_buf = [s \in Sockets |-> NULL]
    /\ hostents = [s \in Sockets |-> [node |-> NULL, host |-> NULL, content |-> NULL]]
    /\ channels = {}
    /\ mode = [s \in Sockets |-> "none"]
    /\ ssr = [s \in Sockets |-> "CLOSED"]
    /\ rx = [s \in Sockets |-> Nobody]
    /\ owner = [s \in Sockets |-> Nobody]
    /\ pc = "idle" /\ i = 0 /\ channel_block = NULL /\ peer = NULL
    /\ alloc_address = NULL /\ orig_buf = NULL
    /\ name = [type |-> "SCK", form |-> "bare"] /\ ip = FALSE
    /\ result = "none" /\ opens = 0
    /\ lost = {} /\ tainted = FALSE

-----------------------------------------------------------------------------
(* ch_open, step by step *)

\* The channel block; a NULL pointer is answered with ERR_OM.
OpenBlock(type, form) ==
    /\ pc = "idle" /\ opens < MaxOpens
    /\ opens' = opens + 1
    /\ IF sv_memalloc = NULL
       THEN result' = "OM" /\ UNCHANGED <<live, frame>>
       ELSE /\ channel_block' = sv_memalloc
            /\ live' = Used(live, sv_memalloc)
            /\ name' = [type |-> type, form |-> form]
            /\ pc' = "search" /\ result' = "none"
            /\ UNCHANGED <<i, peer, alloc_address, orig_buf, ip>>
    /\ UNCHANGED <<tables, chip, lost, tainted>>

FreeSockets == {s \in Sockets : peers[s] = NULL}

\* Mutant: the search does not skip the sockets that have a peer.
MutHighest(S) == CHOOSE s \in Sockets : \A t \in Sockets : s >= t

\* Mutant: the search begins one past the table, whose end reads as NULL.
MutPastEnd(S) == NumSockets

Highest(S) == CHOOSE s \in S : \A t \in S : s >= t

\* The highest socket without a peer, or ERR_IU.
SearchSocket ==
    /\ pc = "search"
    /\ IF FreeSockets = {}
       THEN /\ live' = live \ {channel_block}
            /\ result' = "IU" /\ ClosedFrame
       ELSE /\ i' = Highest(FreeSockets)
            /\ pc' = "peer"
            /\ UNCHANGED <<live, result, channel_block, peer, alloc_address,
                           orig_buf, name, ip>>
    /\ UNCHANGED <<tables, chip, history>>

AllocPeer ==
    /\ pc = "peer"
    /\ IF sv_memalloc = NULL
       THEN /\ live' = live \ {channel_block}
            /\ result' = "OM" /\ ClosedFrame
       ELSE /\ peer' = sv_memalloc
            /\ live' = Used(live, sv_memalloc)
            /\ pc' = "parse"
            /\ UNCHANGED <<result, i, channel_block, alloc_address, orig_buf, name, ip>>
    /\ UNCHANGED <<tables, chip, history>>

\* Mutant: the blocks of a channel that is not opened are kept.
MutFreedOnError == {channel_block}

\* What ch_open gives back when parse_channel_def fails.
FreedOnError == {peer, channel_block}

\* parse_channel_def up to the address: without memory for a copy of the name
\* it gives -1 (ERR_NC), and a malformed host:port ERR_BP, the copy freed.  A
\* numeric address may be 0.0.0.0, or the port 0: then there is no ip.
Parse ==
    /\ pc = "parse"
    /\ CASE name.form = "bare" ->
              /\ pc' = "register"
              /\ UNCHANGED <<live, result, i, channel_block, peer, alloc_address,
                             orig_buf, name, ip>>
         [] name.form # "bare" /\ (sv_memalloc = NULL \/ name.form = "malformed") ->
              /\ live' = live \ FreedOnError
              /\ result' = (IF sv_memalloc = NULL THEN "NC" ELSE "BP") /\ ClosedFrame
         [] OTHER ->
              /\ alloc_address' = sv_memalloc
              /\ live' = Used(live, sv_memalloc)
              /\ ip' \in {FALSE, name.form = "ip"}
              /\ pc' = IF name.form = "ip" THEN "parsed" ELSE "resolve"
              /\ UNCHANGED <<result, i, channel_block, peer, orig_buf, name>>
    /\ UNCHANGED <<tables, chip, history>>

\* gethostbyname_impl: the socket's hostent is created, or the content of its
\* last lookup freed.  The pointer to that content is not cleared.
Resolve ==
    /\ pc = "resolve"
    /\ IF hostents[i].node = NULL
       THEN LET node == sv_memalloc
                host == FirstFree(Used(live, node))
            IN  /\ live' = Used(Used(live, node), host)
                /\ hostents' = [hostents EXCEPT ![i] =
                      [node |-> node, host |-> host, content |-> NULL]]
       ELSE live' = live \ {hostents[i].content} /\ UNCHANGED hostents
    /\ pc' = "query"
    /\ UNCHANGED <<peers, recv_buf, channels, chip, i, channel_block, peer,
                   alloc_address, orig_buf, name, ip, result, history>>

\* sendQueryAndReceiveResponse, on socket 7: OPEN as UDP, SEND, RECV, CLOSE.
\* A reply that comes after the RECV stays in the RX memory.
Query ==
    /\ pc = "query"
    /\ orig_buf' = sv_memalloc
    /\ live' = Used(live, sv_memalloc)
    /\ mode' = [mode EXCEPT ![DnsSocket] = "UDP"]
    /\ ssr' = [ssr EXCEPT ![DnsSocket] = "CLOSED"]
    /\ owner' = [owner EXCEPT ![DnsSocket] = Resolver]
    /\ \E late \in {Nobody, Resolver} : rx' = [rx EXCEPT ![DnsSocket] = late]
    /\ pc' = "answer"
    /\ UNCHANGED <<tables, i, channel_block, peer, alloc_address, name, ip,
                   result, history>>

\* The rest of gethostbyname_impl: a response code ends it with the reply
\* buffer still allocated; otherwise the reply becomes the new content.
Answer(outcome) ==
    /\ pc = "answer"
    /\ IF outcome = "rcode"
       THEN /\ lost' = lost \cup {orig_buf}
            /\ tainted' = (tainted \/ hostents[i].content # NULL)
            /\ UNCHANGED <<live, hostents, ip>>
       ELSE /\ hostents' = [hostents EXCEPT ![i].content = sv_memalloc]
            /\ live' = Used(live, sv_memalloc) \ {orig_buf}
            /\ ip' = (outcome = "address")
            /\ UNCHANGED <<lost, tainted>>
    /\ orig_buf' = NULL
    /\ pc' = "parsed"
    /\ UNCHANGED <<peers, recv_buf, channels, chip, i, channel_block, peer,
                   alloc_address, name, result, opens>>

\* parse_channel_def returns.
Parsed ==
    /\ pc = "parsed"
    /\ live' = live \ {alloc_address}
    /\ alloc_address' = NULL
    /\ pc' = "register"
    /\ UNCHANGED <<tables, chip, i, channel_block, peer, orig_buf, name, ip,
                   result, history>>

\* The channel takes the socket; the receive buffer is allocated when the
\* socket has none.
Register ==
    /\ pc = "register"
    /\ peers' = [peers EXCEPT ![i] = peer]
    /\ IF recv_buf[i] = NULL
       THEN /\ recv_buf' = [recv_buf EXCEPT ![i] = sv_memalloc]
            /\ live' = Used(live, sv_memalloc)
       ELSE UNCHANGED <<recv_buf, live>>
    /\ pc' = "socket"
    /\ UNCHANGED <<hostents, channels, chip, i, channel_block, peer,
                   alloc_address, orig_buf, name, ip, result, history>>

Opened ==
    /\ channels' = channels \cup
          {[blk |-> channel_block, sock |-> i, type |-> name.type, gen |-> opens]}
    /\ result' = "OK" /\ ClosedFrame

\* Mutant: the socket's memory is taken over as it is.
MutClearedRx(s) == rx

\* OPEN clears the socket's memory.
ClearedRx(s) == [rx EXCEPT ![s] = Nobody]

\* open_socket and the CONNECT command; an SCK_ channel leaves the chip alone.
OpenSocket ==
    /\ pc = "socket"
    /\ IF name.type = "SCK"
       THEN Opened /\ UNCHANGED chip
       ELSE /\ mode' = [mode EXCEPT ![i] = name.type]
            /\ rx' = ClearedRx(i)
            /\ owner' = [owner EXCEPT ![i] = opens]
            /\ IF name.type = "TCP" /\ ip
               THEN /\ ssr' = [ssr EXCEPT ![i] = "SYNSENT"]
                    /\ pc' = "connect"
                    /\ UNCHANGED <<channels, result, i, channel_block, peer,
                                   alloc_address, orig_buf, name, ip>>
               ELSE /\ ssr' = [ssr EXCEPT ![i] = IF name.type = "TCP" THEN "INIT" ELSE "UDP"]
                    /\ Opened
    /\ UNCHANGED <<live, peers, recv_buf, hostents, history>>

\* Mutant: connect takes an established connection only.
MutConnectDone == {"ESTABLISHED", "FIN_WAIT"}

\* The states connect() waits for.
ConnectDone == {"CLOSED", "ESTABLISHED", "FIN_WAIT"}

\* connect() polls the status register.
Connect ==
    /\ pc = "connect" /\ ssr[i] \in ConnectDone
    /\ Opened
    /\ UNCHANGED <<live, peers, recv_buf, hostents, chip, history>>

Opening ==
    \/ SearchSocket \/ AllocPeer \/ Parse \/ Resolve \/ Query
    \/ \E o \in Outcomes : Answer(o)
    \/ Parsed \/ Register \/ OpenSocket \/ Connect

-----------------------------------------------------------------------------
\* Mutant: the receive buffer is freed and its pointer kept.
MutForgetBuffer(s) == recv_buf

ForgetBuffer(s) == [recv_buf EXCEPT ![s] = NULL]

\* ch_close.  DISCON is followed at once by CLOSE, and what is left in the
\* socket's memory stays there.
Close(c) ==
    /\ pc = "idle" /\ c \in channels
    /\ ssr' = [ssr EXCEPT ![c.sock] = "CLOSED"]
    /\ live' = live \ {peers[c.sock], c.blk, recv_buf[c.sock]}
    /\ peers' = [peers EXCEPT ![c.sock] = NULL]
    /\ recv_buf' = ForgetBuffer(c.sock)
    /\ channels' = channels \ {c}
    /\ result' = "OK"
    /\ UNCHANGED <<hostents, mode, rx, owner, frame, history>>

(* The chip and the peers *)

SetStatus(s, from, to) ==
    /\ ssr[s] = from
    /\ ssr' = [ssr EXCEPT ![s] = to]
    /\ UNCHANGED <<live, tables, mode, rx, owner, frame, result, history>>

Accepted(s) == SetStatus(s, "SYNSENT", "ESTABLISHED")
Refused(s) == SetStatus(s, "SYNSENT", "CLOSED")
PeerFin(s) == SetStatus(s, "ESTABLISHED", "CLOSE_WAIT")
PeerReset(s) == \E from \in {"ESTABLISHED", "CLOSE_WAIT"} : SetStatus(s, from, "CLOSED")

DataArrives(s) ==
    /\ ssr[s] \in {"ESTABLISHED", "UDP"}
    /\ rx[s] # owner[s]
    /\ rx' = [rx EXCEPT ![s] = owner[s]]
    /\ UNCHANGED <<live, tables, mode, ssr, owner, frame, result, history>>

Network == \E s \in Sockets :
    Accepted(s) \/ Refused(s) \/ PeerFin(s) \/ PeerReset(s) \/ DataArrives(s)

Next ==
    \/ \E type \in Types, form \in Names : OpenBlock(type, form)
    \/ Opening
    \/ \E c \in channels : Close(c)
    \/ Network

Spec == Init /\ [][Next]_vars

(* ch_open runs to its end, and a CONNECT is answered or times out.         *)
FairSpec ==
    /\ Spec
    /\ WF_vars(Opening)
    /\ \A s \in Sockets : WF_vars(Accepted(s) \/ Refused(s))

-----------------------------------------------------------------------------
(* Properties *)

Pointer == Blocks \cup {NULL, Wild}

\* The type invariant.
TypeOK ==
    /\ live \subseteq Blocks
    /\ peers \in [Sockets -> Pointer] /\ recv_buf \in [Sockets -> Pointer]
    /\ hostents \in [Sockets -> [node : Pointer, host : Pointer, content : Pointer]]
    /\ \A c \in channels : c.blk \in Pointer /\ c.sock \in Sockets /\ c.type \in Types
    /\ mode \in [Sockets -> Types \cup {"none"}]
    /\ ssr \in [Sockets -> {"CLOSED", "INIT", "SYNSENT", "ESTABLISHED",
                            "CLOSE_WAIT", "FIN_WAIT", "UDP"}]
    /\ rx \in [Sockets -> -1 .. MaxOpens] /\ owner \in [Sockets -> -1 .. MaxOpens]
    /\ pc \in {"idle", "search", "peer", "parse", "resolve", "query", "answer",
               "parsed", "register", "socket", "connect"}
    /\ i \in Sockets /\ {channel_block, peer, alloc_address, orig_buf} \subseteq Pointer
    /\ ip \in BOOLEAN
    /\ result \in {"none", "OK", "BP", "IU", "OM", "NC"}

\* The content pointer is stale between the steps Resolve and Answer.
ContentIsFreed(s) == i = s /\ pc \in {"query", "answer"}

\* Every pointer the driver holds, tagged with the place that holds it.
References ==
    {r \in
        {<<"peers", s, peers[s]>> : s \in Sockets}
        \cup {<<"recv_buf", s, recv_buf[s]>> : s \in Sockets}
        \cup {<<"node", s, hostents[s].node>> : s \in Sockets}
        \cup {<<"host", s, hostents[s].host>> : s \in Sockets}
        \cup {<<"content", s, hostents[s].content>> : s \in {t \in Sockets : ~ContentIsFreed(t)}}
        \cup {<<"channel", c.sock, c.blk>> : c \in channels}
        \cup {<<"opening", 0, channel_block>>, <<"text", 0, alloc_address>>,
              <<"reply", 0, orig_buf>>}
        \cup {<<"peer", 0, IF pc \in {"socket", "connect"} THEN NULL ELSE peer>>}
     : r[3] # NULL}

Held == {r[3] : r \in References}

\* No block is held in two places, and none that is held has been given back,
\* across opens that fail, lookups and closes in any order, also when the heap
\* runs out: as long as no lookup failed on a socket that had a result before
\* (tainted).
HeapSound ==
    ~tainted => \A r \in References : r[3] # Wild =>
        r[3] \in live /\ \A q \in References : q[3] = r[3] => q = r

\* Nothing leaks: a block in use is held somewhere, or is the reply buffer of
\* a lookup that ended with a response code.
NoLeak == ~tainted => live = (Held \cup lost) \ {Wild}

\* What was left behind is held no more.
LostIsLost == ~tainted => Held \cap lost \subseteq {Wild}

\* The pointers that ch_open holds at each of its points, and those of a hostent.
PlacesOK ==
    /\ pc = "idle" <=> channel_block = NULL
    /\ pc \in {"idle", "search", "peer"} => peer = NULL
    /\ pc \in {"resolve", "query", "answer"} => alloc_address # NULL
    /\ pc \notin {"resolve", "query", "answer", "parsed"} => alloc_address = NULL
    /\ pc = "answer" <=> orig_buf # NULL
    /\ pc \in {"query", "answer"} => hostents[i].node # NULL
    /\ \A s \in Sockets : hostents[s].node = NULL =>
          hostents[s].host = NULL /\ hostents[s].content = NULL
    /\ NULL \notin lost

\* The part of the inductive invariant about the heap.
HeapInv == HeapSound /\ NoLeak /\ LostIsLost /\ PlacesOK

\* A socket has a peer exactly when one channel, open or being opened, uses it.
OneChannelPerSocket ==
    /\ \A c, d \in channels : c.sock = d.sock => c = d
    /\ \A s \in Sockets : peers[s] # NULL <=>
          \/ \E c \in channels : c.sock = s
          \/ pc \in {"socket", "connect"} /\ i = s

\* A TCP_ or UDP_ channel on any socket but the resolver's keeps the chip's
\* socket to itself, and finds no data in it from an earlier channel.
ChannelOwnsSocket ==
    \A c \in channels : c.type # "SCK" /\ c.sock # DnsSocket =>
        owner[c.sock] = c.gen /\ rx[c.sock] \in {Nobody, c.gen}

\* What ch_open knows on its way: the socket it found stays free until the
\* channel takes it, and then has no other channel; the peer it allocated is
\* there.
FrameOK ==
    /\ opens \in 0 .. MaxOpens
    /\ name.type \in Types
    /\ pc \in {"peer", "parse", "resolve", "query", "answer", "parsed", "register"}
            => peers[i] = NULL
    /\ pc \in {"parse", "resolve", "query", "answer", "parsed", "register", "socket",
               "connect"} => peer # NULL
    /\ pc \in {"socket", "connect"} => \A c \in channels : c.sock # i

\* A socket that waits for its connection is its opener's already.
ConnectOK ==
    pc = "connect" /\ i # DnsSocket => owner[i] = opens /\ rx[i] \in {Nobody, opens}

\* The part of the inductive invariant about the sockets.
SocketInv ==
    /\ TypeOK /\ FrameOK
    /\ OneChannelPerSocket /\ ChannelOwnsSocket /\ ConnectOK

\* The inductive invariant: who uses which socket, and who holds which block.
IInv == SocketInv /\ HeapInv

\* ch_open always comes to an end, except that connect() can be left waiting
\* on a connection that was accepted and then closed by the peer.
OpenEnds ==
    pc # "idle" ~> pc = "idle" \/ (pc = "connect" /\ ssr[i] = "CLOSE_WAIT")

(* What the comments of the code say *)

\* resolv.c:646, "If this hostent was used previously it will have allocated
\* space for the previous result. Free and reallocate to the new size".
PreviousResultIsAllocated ==
    [][pc = "resolve" /\ pc' = "query" /\ hostents[i].content # NULL
        => hostents[i].content \in live \ lost]_vars
=============================================================================

-------------------------- MODULE QeChannelsProofs --------------------------
(***************************************************************************)
(* Theorems about QeChannels, for any number of sockets and opens and any    *)
(* size of the heap, one that runs out included: who uses which socket, and   *)
(* who holds which block of the heap.                                       *)
(***************************************************************************)
EXTENDS QeChannels, WellFoundedInduction, TLAPS

-----------------------------------------------------------------------------
(* The operators *)

\* sv_memalloc gives a free block or the pointer it makes of an error.
LEMMA AllocatedIsFree ==
    ASSUME NEW used
    PROVE  FirstFree(used) \in (Blocks \ used) \cup {Wild}
  <1> USE ChannelsAssumption DEF ChannelsAssumption
  <1>1. CASE Blocks \subseteq used
    BY <1>1 DEF FirstFree
  <1>2. CASE ~ (Blocks \subseteq used)
    <2> DEFINE S == Blocks \ used
               R == OpToRel(<, Nat)
    <2>1. S \subseteq Nat /\ S # {}
      BY <1>2 DEF Blocks
    <2>2. IsWellFoundedOn(R, Nat)
      BY NatLessThanWellFounded
    <2>3. PICK x \in S : \A y \in S : ~ (<<y, x>> \in R)
      BY <2>1, <2>2, WFMin, Zenon
    <2>4. \A y \in S : ~ (y < x)
      BY <2>1, <2>3 DEF OpToRel
    <2>5. \A y \in S : x <= y
      BY <2>1, <2>4
    <2>6. FirstFree(used) = CHOOSE b \in S : \A c \in S : b <= c
      BY <1>2 DEF FirstFree
    <2>7. (CHOOSE b \in S : \A c \in S : b <= c) \in S
      <3> HIDE DEF S
      <3> QED
        BY <2>5
    <2> QED
      BY <2>6, <2>7
  <1> QED
    BY <1>1, <1>2

\* sv_memalloc gives a block or the wild pointer.
LEMMA AllocatedIsPointer ==
    ASSUME NEW used
    PROVE  FirstFree(used) \in Blocks \cup {Wild}
  BY AllocatedIsFree

\* sv_memalloc never answers NULL, so out of memory is never seen.
LEMMA AllocatedIsNotNull ==
    /\ sv_memalloc \in Pointer /\ sv_memalloc # NULL
    /\ \A used : FirstFree(used) \in Pointer
    /\ \A used \in SUBSET Blocks, b \in Blocks \cup {Wild} : Used(used, b) \subseteq Blocks
  <1>1. \A used : FirstFree(used) \in Blocks \cup {Wild}
    BY AllocatedIsPointer
  <1>2. NULL \notin Blocks \cup {Wild}
    BY DEF NULL, Blocks, Wild
  <1> QED
    BY <1>1, <1>2 DEF sv_memalloc, Pointer, Used

\* ch_open's search finds a socket if one is free.
LEMMA HighestIsFree ==
    ASSUME NEW S \in SUBSET Sockets, S # {}
    PROVE  Highest(S) \in S
  <1> DEFINE T == {NumSockets - 1 - s : s \in S}
             R == OpToRel(<, Nat)
  <1>1. NumSockets \in Nat \ {0} /\ \A s \in S : s \in 0 .. NumSockets - 1
    BY ChannelsAssumption DEF ChannelsAssumption, Sockets
  <1>2. T \subseteq Nat /\ T # {}
    BY <1>1
  <1>3. IsWellFoundedOn(R, Nat)
    BY NatLessThanWellFounded
  <1>4. PICK x \in T : \A y \in T : ~ (<<y, x>> \in R)
    BY <1>2, <1>3, WFMin, Zenon
  <1>5. \A y \in T : ~ (y < x)
    BY <1>2, <1>4 DEF OpToRel
  <1>6. PICK s \in S : x = NumSockets - 1 - s
    OBVIOUS
  <1>7. \A t \in S : s >= t
    BY <1>1, <1>5, <1>6
  <1> QED
    BY <1>7 DEF Highest

LEMMA DnsSocketIsSocket ==
    DnsSocket \in Sockets /\ 0 \in Sockets
  BY ChannelsAssumption DEF ChannelsAssumption, DnsSocket, Sockets

-----------------------------------------------------------------------------
(* Initially, and between calls *)

LEMMA InitSocketInv ==
    Init => SocketInv
  <1> SUFFICES ASSUME Init PROVE SocketInv
    OBVIOUS
  <1> USE ChannelsAssumption DEF ChannelsAssumption, Init
  <1>1. TypeOK
    <2>1. Nobody \in -1 .. MaxOpens /\ NULL \in Pointer
      BY DEF Nobody, Pointer
    <2>2. rx \in [Sockets -> -1 .. MaxOpens] /\ owner \in [Sockets -> -1 .. MaxOpens]
      BY <2>1
    <2> QED
      BY <2>1, <2>2, DnsSocketIsSocket DEF TypeOK, Types
  <1>2. FrameOK
    BY DEF FrameOK, Types
  <1>3. OneChannelPerSocket /\ ChannelOwnsSocket /\ ConnectOK
    BY DEF OneChannelPerSocket, ChannelOwnsSocket, ConnectOK
  <1> QED
    BY <1>1, <1>2, <1>3 DEF SocketInv

\* An open that fails leaves the tables and the chip as they are.
LEMMA FailedKeeps ==
    ASSUME SocketInv, pc \notin {"socket", "connect"}, ClosedFrame,
           UNCHANGED <<tables, chip, opens>>,
           live' \subseteq Blocks, result' \in {"none", "OK", "BP", "IU", "OM", "NC"}
    PROVE  SocketInv'
  <1> USE DEF SocketInv, tables, chip, ClosedFrame
  <1>1. TypeOK'
    BY DnsSocketIsSocket DEF TypeOK, Pointer
  <1>2. FrameOK'
    BY DEF FrameOK, Types
  <1>3. OneChannelPerSocket' /\ ChannelOwnsSocket' /\ ConnectOK'
    BY DEF OneChannelPerSocket, ChannelOwnsSocket, ConnectOK
  <1> QED
    BY <1>1, <1>2, <1>3

-----------------------------------------------------------------------------
(* ch_open *)

LEMMA OpenBlockKeeps ==
    ASSUME SocketInv, NEW type \in Types, NEW form \in Names, OpenBlock(type, form)
    PROVE  SocketInv'
  <1> USE DEF SocketInv, tables, chip
  <1>1. /\ channel_block' = sv_memalloc /\ live' = Used(live, sv_memalloc)
        /\ name' = [type |-> type, form |-> form] /\ pc' = "search" /\ result' = "none"
        /\ opens' = opens + 1 /\ pc = "idle" /\ opens < MaxOpens
        /\ UNCHANGED <<i, peer, alloc_address, orig_buf, ip, tables, chip>>
    BY AllocatedIsNotNull DEF OpenBlock
  <1>2. live' \subseteq Blocks
    BY <1>1, AllocatedIsPointer, AllocatedIsNotNull DEF TypeOK, sv_memalloc
  <1>3. TypeOK'
    BY <1>1, <1>2, AllocatedIsNotNull DEF TypeOK
  <1>4. FrameOK'
    BY <1>1, ChannelsAssumption DEF ChannelsAssumption, FrameOK
  <1>5. OneChannelPerSocket'
    BY <1>1 DEF OneChannelPerSocket
  <1>6. ChannelOwnsSocket' /\ ConnectOK'
    BY <1>1 DEF ChannelOwnsSocket, ConnectOK
  <1> QED
    BY <1>3, <1>4, <1>5, <1>6

LEMMA SearchSocketKeeps ==
    ASSUME SocketInv, SearchSocket
    PROVE  SocketInv'
  <1>1. CASE FreeSockets = {}
    <2>1. live' \subseteq Blocks
      BY <1>1 DEF SearchSocket, SocketInv, TypeOK
    <2> QED
      BY <1>1, <2>1, FailedKeeps DEF SearchSocket, history
  <1>2. CASE FreeSockets # {}
    <2> USE DEF SocketInv, tables, chip, history
    <2>1. /\ i' = Highest(FreeSockets) /\ pc' = "peer" /\ pc = "search"
          /\ UNCHANGED <<live, result, channel_block, peer, alloc_address, orig_buf,
                         name, ip, tables, chip, opens>>
      BY <1>2 DEF SearchSocket
    <2>2. i' \in Sockets /\ peers[i'] = NULL
      BY <1>2, <2>1, HighestIsFree DEF FreeSockets
    <2>3. TypeOK'
      BY <2>1, <2>2 DEF TypeOK
    <2>4. FrameOK'
      BY <2>1, <2>2 DEF FrameOK
    <2>5. OneChannelPerSocket' /\ ChannelOwnsSocket' /\ ConnectOK'
      BY <2>1 DEF OneChannelPerSocket, ChannelOwnsSocket, ConnectOK
    <2> QED
      BY <2>3, <2>4, <2>5
  <1> QED
    BY <1>1, <1>2

LEMMA AllocPeerKeeps ==
    ASSUME SocketInv, AllocPeer
    PROVE  SocketInv'
  <1> USE DEF SocketInv, tables, chip, history
  <1>1. /\ peer' = sv_memalloc /\ live' = Used(live, sv_memalloc)
        /\ pc = "peer" /\ pc' = "parse"
        /\ UNCHANGED <<result, i, channel_block, alloc_address, orig_buf, name, ip,
                       tables, chip, opens>>
    BY AllocatedIsNotNull DEF AllocPeer
  <1>2. live' \subseteq Blocks
    BY <1>1, AllocatedIsPointer, AllocatedIsNotNull DEF TypeOK, sv_memalloc
  <1>3. TypeOK'
    BY <1>1, <1>2, AllocatedIsNotNull DEF TypeOK
  <1>4. FrameOK'
    BY <1>1, AllocatedIsNotNull DEF FrameOK
  <1>5. OneChannelPerSocket' /\ ChannelOwnsSocket' /\ ConnectOK'
    BY <1>1 DEF OneChannelPerSocket, ChannelOwnsSocket, ConnectOK
  <1> QED
    BY <1>3, <1>4, <1>5

\* A step of ch_open that allocates and parses: the socket it found stays free,
\* the peer it has stays, and nothing of a channel is touched.
LEMMA FrameKeeps ==
    ASSUME SocketInv,
           pc \in {"parse", "resolve", "query", "answer", "parsed"},
           pc' \in {"resolve", "query", "answer", "parsed", "register"},
           live' \subseteq Blocks,
           UNCHANGED <<peers, recv_buf, channels, chip, i, channel_block, peer, name,
                       result, opens>>,
           hostents' \in [Sockets -> [node : Pointer, host : Pointer, content : Pointer]],
           {alloc_address', orig_buf'} \subseteq Pointer, ip' \in BOOLEAN
    PROVE  SocketInv'
  <1> USE DEF SocketInv, chip
  <1>1. TypeOK'
    BY DEF TypeOK
  <1>2. FrameOK'
    BY DEF FrameOK
  <1>3. OneChannelPerSocket' /\ ChannelOwnsSocket' /\ ConnectOK'
    BY DEF OneChannelPerSocket, ChannelOwnsSocket, ConnectOK
  <1> QED
    BY <1>1, <1>2, <1>3

LEMMA ParseKeeps ==
    ASSUME SocketInv, Parse
    PROVE  SocketInv'
  <1>1. pc = "parse" /\ UNCHANGED <<tables, chip, history>>
    BY DEF Parse
  <1>2. CASE name.form = "bare"
    <2>1. pc' = "register" /\ UNCHANGED <<live, result, i, channel_block, peer,
                                          alloc_address, orig_buf, name, ip>>
      BY <1>2 DEF Parse
    <2> QED
      BY <1>1, <2>1, FrameKeeps DEF SocketInv, TypeOK, tables, history
  <1>3. CASE name.form = "malformed"
    <2>1. live' \subseteq live /\ result' \in {"NC", "BP"} /\ ClosedFrame
      BY <1>3 DEF Parse
    <2>2. live' \subseteq Blocks
      BY <2>1 DEF SocketInv, TypeOK
    <2> QED
      BY <1>1, <2>1, <2>2, FailedKeeps DEF history
  <1>4. CASE name.form \notin {"bare", "malformed"}
    <2>1. /\ alloc_address' = sv_memalloc /\ live' = Used(live, sv_memalloc)
          /\ ip' \in BOOLEAN /\ pc' \in {"parsed", "resolve"}
          /\ UNCHANGED <<result, i, channel_block, peer, orig_buf, name>>
      BY <1>4, AllocatedIsNotNull DEF Parse
    <2>2. live' \subseteq Blocks
      BY <2>1, AllocatedIsPointer, AllocatedIsNotNull DEF SocketInv, TypeOK, sv_memalloc
    <2> QED
      BY <1>1, <2>1, <2>2, FrameKeeps, AllocatedIsNotNull DEF SocketInv, TypeOK, tables, history
  <1> QED
    BY <1>2, <1>3, <1>4

LEMMA ResolveKeeps ==
    ASSUME SocketInv, Resolve
    PROVE  SocketInv'
  <1>1. /\ pc = "resolve" /\ pc' = "query"
        /\ UNCHANGED <<peers, recv_buf, channels, chip, i, channel_block, peer,
                       alloc_address, orig_buf, name, ip, result, opens>>
    BY DEF Resolve, history
  <1>2. live' \subseteq Blocks
    /\ hostents' \in [Sockets -> [node : Pointer, host : Pointer, content : Pointer]]
    <2>1. CASE hostents[i].node = NULL
      <3> DEFINE node == sv_memalloc
                 host == FirstFree(Used(live, node))
      <3>1. /\ live' = Used(Used(live, node), host)
            /\ hostents' = [hostents EXCEPT ![i] =
                  [node |-> node, host |-> host, content |-> NULL]]
        BY <2>1 DEF Resolve
      <3>2. node \in Blocks \cup {Wild} /\ host \in Blocks \cup {Wild}
        BY AllocatedIsPointer DEF sv_memalloc
      <3>3. Used(live, node) \subseteq Blocks
        BY <3>2, AllocatedIsNotNull DEF SocketInv, TypeOK
      <3>4. live' \subseteq Blocks
        BY <3>1, <3>2, <3>3, AllocatedIsNotNull
      <3>5. NULL \in Pointer /\ node \in Pointer /\ host \in Pointer
        BY <3>2 DEF Pointer
      <3> HIDE DEF node, host
      <3> QED
        BY <3>1, <3>4, <3>5 DEF SocketInv, TypeOK
    <2>2. CASE hostents[i].node # NULL
      BY <2>2 DEF Resolve, SocketInv, TypeOK
    <2> QED
      BY <2>1, <2>2
  <1> QED
    BY <1>1, <1>2, FrameKeeps DEF SocketInv, TypeOK

\* The look-up takes the resolver's socket, whoever has it.
LEMMA QueryKeeps ==
    ASSUME SocketInv, Query
    PROVE  SocketInv'
  <1> USE DEF SocketInv, tables, history
  <1>1. /\ pc = "query" /\ pc' = "answer"
        /\ orig_buf' = sv_memalloc /\ live' = Used(live, sv_memalloc)
        /\ mode' = [mode EXCEPT ![DnsSocket] = "UDP"]
        /\ ssr' = [ssr EXCEPT ![DnsSocket] = "CLOSED"]
        /\ owner' = [owner EXCEPT ![DnsSocket] = Resolver]
        /\ UNCHANGED <<tables, i, channel_block, peer, alloc_address, name, ip,
                       result, opens>>
    BY DEF Query
  <1>2. PICK late \in {Nobody, Resolver} : rx' = [rx EXCEPT ![DnsSocket] = late]
    BY DEF Query
  <1>3. live' \subseteq Blocks
    BY <1>1, AllocatedIsPointer, AllocatedIsNotNull DEF TypeOK, sv_memalloc
  <1>4. TypeOK'
    <2>1. {Nobody, Resolver} \subseteq -1 .. MaxOpens
      BY ChannelsAssumption DEF ChannelsAssumption, Nobody, Resolver
    <2>2. rx' \in [Sockets -> -1 .. MaxOpens] /\ owner' \in [Sockets -> -1 .. MaxOpens]
      BY <1>1, <1>2, <2>1 DEF TypeOK
    <2>3. /\ mode' \in [Sockets -> Types \cup {"none"}]
          /\ ssr' \in [Sockets -> {"CLOSED", "INIT", "SYNSENT", "ESTABLISHED",
                                   "CLOSE_WAIT", "FIN_WAIT", "UDP"}]
      BY <1>1 DEF TypeOK, Types
    <2> QED
      BY <1>1, <1>3, <2>2, <2>3, AllocatedIsNotNull DEF TypeOK
  <1>5. FrameOK'
    BY <1>1 DEF FrameOK
  <1>6. OneChannelPerSocket'
    BY <1>1 DEF OneChannelPerSocket
  <1>7. ChannelOwnsSocket'
    BY <1>1, <1>2 DEF ChannelOwnsSocket, TypeOK
  <1>8. ConnectOK'
    BY <1>1 DEF ConnectOK
  <1> QED
    BY <1>4, <1>5, <1>6, <1>7, <1>8

LEMMA AnswerKeeps ==
    ASSUME SocketInv, NEW outcome \in Outcomes, Answer(outcome)
    PROVE  SocketInv'
  <1>1. /\ pc = "answer" /\ pc' = "parsed" /\ orig_buf' = NULL
        /\ UNCHANGED <<peers, recv_buf, channels, chip, i, channel_block, peer,
                       alloc_address, name, result, opens>>
    BY DEF Answer
  <1>2. /\ live' \subseteq Blocks /\ ip' \in BOOLEAN
        /\ hostents' \in [Sockets -> [node : Pointer, host : Pointer, content : Pointer]]
    <2>1. CASE outcome = "rcode"
      BY <2>1 DEF Answer, SocketInv, TypeOK
    <2>2. CASE outcome # "rcode"
      <3>1. /\ hostents' = [hostents EXCEPT ![i].content = sv_memalloc]
            /\ live' = Used(live, sv_memalloc) \ {orig_buf}
            /\ ip' = (outcome = "address")
        BY <2>2 DEF Answer
      <3>2. Used(live, sv_memalloc) \subseteq Blocks
        BY AllocatedIsPointer, AllocatedIsNotNull DEF SocketInv, TypeOK, sv_memalloc
      <3>3. hostents' \in [Sockets -> [node : Pointer, host : Pointer, content : Pointer]]
        BY <3>1, AllocatedIsNotNull DEF SocketInv, TypeOK
      <3> QED
        BY <3>1, <3>2, <3>3
    <2> QED
      BY <2>1, <2>2
  <1>3. NULL \in Pointer
    BY DEF Pointer
  <1> QED
    BY <1>1, <1>2, <1>3, FrameKeeps DEF SocketInv, TypeOK

LEMMA ParsedKeeps ==
    ASSUME SocketInv, Parsed
    PROVE  SocketInv'
  <1>1. /\ pc = "parsed" /\ pc' = "register" /\ alloc_address' = NULL
        /\ live' \subseteq live
        /\ UNCHANGED <<tables, chip, i, channel_block, peer, orig_buf, name, ip,
                       result, opens>>
    BY DEF Parsed, history
  <1>2. NULL \in Pointer
    BY DEF Pointer
  <1> QED
    BY <1>1, <1>2, FrameKeeps DEF SocketInv, TypeOK, tables

\* The channel to be has the socket to itself.
LEMMA RegisterKeeps ==
    ASSUME SocketInv, Register
    PROVE  SocketInv'
  <1> USE DEF SocketInv, chip, history
  <1>1. /\ pc = "register" /\ pc' = "socket" /\ peers' = [peers EXCEPT ![i] = peer]
        /\ UNCHANGED <<hostents, channels, chip, i, channel_block, peer,
                       alloc_address, orig_buf, name, ip, result, opens>>
    BY DEF Register
  <1>2. live' \subseteq Blocks /\ recv_buf' \in [Sockets -> Pointer]
    BY AllocatedIsPointer, AllocatedIsNotNull DEF Register, TypeOK, sv_memalloc
  <1>3. TypeOK'
    BY <1>1, <1>2 DEF TypeOK
  <1>4. \A c \in channels : c.sock # i
    <2>1. peers[i] = NULL /\ i \in Sockets
      BY <1>1 DEF FrameOK, TypeOK
    <2> QED
      BY <1>1, <2>1 DEF OneChannelPerSocket
  <1>5. FrameOK'
    BY <1>1, <1>4 DEF FrameOK
  <1>6. OneChannelPerSocket'
    <2>1. ASSUME NEW s \in Sockets
          PROVE  peers'[s] # NULL <=> (\E c \in channels : c.sock = s) \/ i = s
      <3>1. CASE s = i
        BY <1>1, <3>1 DEF FrameOK, TypeOK
      <3>2. CASE s # i
        BY <1>1, <3>2 DEF OneChannelPerSocket, TypeOK
      <3> QED
        BY <3>1, <3>2
    <2> QED
      BY <1>1, <2>1 DEF OneChannelPerSocket
  <1>7. ChannelOwnsSocket' /\ ConnectOK'
    BY <1>1 DEF ChannelOwnsSocket, ConnectOK
  <1> QED
    BY <1>3, <1>5, <1>6, <1>7

\* The channel is there, and has its socket to itself: on the chip too, if it
\* is not an SCK_ channel and not the resolver's socket.
LEMMA OpenedKeeps ==
    ASSUME SocketInv, Opened, pc \in {"socket", "connect"},
           UNCHANGED <<live, peers, recv_buf, hostents, opens>>,
           mode' \in [Sockets -> Types \cup {"none"}],
           ssr' \in [Sockets -> {"CLOSED", "INIT", "SYNSENT", "ESTABLISHED",
                                "CLOSE_WAIT", "FIN_WAIT", "UDP"}],
           rx' \in [Sockets -> -1 .. MaxOpens], owner' \in [Sockets -> -1 .. MaxOpens],
           \A s \in Sockets \ {i} : owner'[s] = owner[s] /\ rx'[s] = rx[s],
           name.type # "SCK" /\ i # DnsSocket =>
                owner'[i] = opens /\ rx'[i] \in {Nobody, opens}
    PROVE  SocketInv'
  <1> DEFINE c == [blk |-> channel_block, sock |-> i, type |-> name.type, gen |-> opens]
  <1> USE DEF SocketInv
  <1>1. channels' = channels \cup {c} /\ result' = "OK" /\ ClosedFrame
    BY DEF Opened
  <1>2. i \in Sockets /\ channel_block \in Pointer /\ name.type \in Types
    BY DEF TypeOK, FrameOK
  <1>3. \A d \in channels : d.sock # i /\ d.sock \in Sockets
    BY DEF FrameOK, TypeOK
  <1>c. c.blk = channel_block /\ c.sock = i /\ c.type = name.type /\ c.gen = opens
    OBVIOUS
  <1> HIDE DEF c
  <1>4. TypeOK'
    <2>1. \A d \in channels' : d.blk \in Pointer /\ d.sock \in Sockets /\ d.type \in Types
      BY <1>1, <1>2, <1>c DEF TypeOK
    <2>2. /\ pc' = "idle" /\ i' \in Sockets /\ ip' \in BOOLEAN
          /\ {channel_block, peer, alloc_address, orig_buf}' \subseteq Pointer
      BY <1>1, DnsSocketIsSocket DEF ClosedFrame, Pointer
    <2> QED
      BY <1>1, <2>1, <2>2 DEF TypeOK
  <1>5. FrameOK'
    BY <1>1 DEF FrameOK, ClosedFrame, Types
  <1>6. OneChannelPerSocket'
    <2>1. \A d, e \in channels' : d.sock = e.sock => d = e
      BY <1>1, <1>3, <1>c DEF OneChannelPerSocket
    <2>2. ASSUME NEW s \in Sockets
          PROVE  peers[s] # NULL <=> \E d \in channels' : d.sock = s
      BY <1>1, <1>c DEF OneChannelPerSocket
    <2> QED
      BY <1>1, <2>1, <2>2 DEF OneChannelPerSocket, ClosedFrame
  <1>7. ChannelOwnsSocket'
    <2> SUFFICES ASSUME NEW d \in channels', d.type # "SCK", d.sock # DnsSocket
                 PROVE  owner'[d.sock] = d.gen /\ rx'[d.sock] \in {Nobody, d.gen}
      BY DEF ChannelOwnsSocket
    <2>1. CASE d = c
      BY <1>c, <2>1
    <2>2. CASE d \in channels
      BY <1>3, <2>2 DEF ChannelOwnsSocket
    <2> QED
      BY <1>1, <2>1, <2>2
  <1>8. ConnectOK'
    BY <1>1 DEF ConnectOK, ClosedFrame
  <1> QED
    BY <1>4, <1>5, <1>6, <1>7, <1>8

LEMMA OpenSocketKeeps ==
    ASSUME SocketInv, OpenSocket
    PROVE  SocketInv'
  <1>1. pc = "socket" /\ UNCHANGED <<live, peers, recv_buf, hostents, opens>>
    BY DEF OpenSocket, history
  <1>2. CASE name.type = "SCK"
    <2>1. Opened /\ UNCHANGED chip
      BY <1>2 DEF OpenSocket
    <2> QED
      BY <1>1, <1>2, <2>1, OpenedKeeps DEF chip, SocketInv, TypeOK
  <1>3. CASE name.type # "SCK"
    <2>1. /\ mode' = [mode EXCEPT ![i] = name.type]
          /\ rx' = [rx EXCEPT ![i] = Nobody]
          /\ owner' = [owner EXCEPT ![i] = opens]
      BY <1>3 DEF OpenSocket, ClearedRx
    <2>2. name.type \in Types /\ i \in Sockets /\ opens \in 0 .. MaxOpens
      BY DEF SocketInv, TypeOK, FrameOK
    <2>3. Nobody \in -1 .. MaxOpens /\ opens \in -1 .. MaxOpens
      BY <2>2, ChannelsAssumption DEF ChannelsAssumption, Nobody
    <2>4. /\ mode' \in [Sockets -> Types \cup {"none"}]
          /\ rx' \in [Sockets -> -1 .. MaxOpens] /\ owner' \in [Sockets -> -1 .. MaxOpens]
          /\ \A s \in Sockets \ {i} : owner'[s] = owner[s] /\ rx'[s] = rx[s]
          /\ owner'[i] = opens /\ rx'[i] = Nobody
      BY <2>1, <2>2, <2>3 DEF SocketInv, TypeOK
    <2>5. CASE name.type = "TCP" /\ ip
      <3>1. /\ ssr' = [ssr EXCEPT ![i] = "SYNSENT"] /\ pc' = "connect"
            /\ UNCHANGED <<channels, result, i, channel_block, peer, alloc_address,
                           orig_buf, name, ip>>
        BY <1>3, <2>5 DEF OpenSocket
      <3>2. ssr' \in [Sockets -> {"CLOSED", "INIT", "SYNSENT", "ESTABLISHED",
                                 "CLOSE_WAIT", "FIN_WAIT", "UDP"}]
        BY <3>1 DEF SocketInv, TypeOK
      <3>3. TypeOK'
        BY <1>1, <2>4, <3>1, <3>2 DEF SocketInv, TypeOK
      <3>4. FrameOK'
        BY <1>1, <3>1 DEF SocketInv, FrameOK
      <3>5. OneChannelPerSocket'
        BY <1>1, <3>1 DEF SocketInv, OneChannelPerSocket
      <3>6. ChannelOwnsSocket'
        <4>1. \A c \in channels : c.sock # i /\ c.sock \in Sockets
          BY <1>1 DEF SocketInv, FrameOK, TypeOK
        <4> QED
          BY <2>4, <3>1, <4>1 DEF SocketInv, ChannelOwnsSocket
      <3>7. ConnectOK'
        BY <1>1, <2>4, <3>1 DEF ConnectOK
      <3> QED
        BY <3>3, <3>4, <3>5, <3>6, <3>7 DEF SocketInv
    <2>6. CASE ~ (name.type = "TCP" /\ ip)
      <3>1. Opened /\ ssr' = [ssr EXCEPT ![i] = IF name.type = "TCP" THEN "INIT" ELSE "UDP"]
        BY <1>3, <2>6 DEF OpenSocket
      <3>2. ssr' \in [Sockets -> {"CLOSED", "INIT", "SYNSENT", "ESTABLISHED",
                                 "CLOSE_WAIT", "FIN_WAIT", "UDP"}]
        BY <3>1 DEF SocketInv, TypeOK
      <3> QED
        BY <1>1, <2>4, <3>1, <3>2, OpenedKeeps
    <2> QED
      BY <2>5, <2>6
  <1> QED
    BY <1>2, <1>3

LEMMA ConnectKeeps ==
    ASSUME SocketInv, Connect
    PROVE  SocketInv'
  <1>1. /\ pc = "connect" /\ Opened
        /\ UNCHANGED <<live, peers, recv_buf, hostents, mode, ssr, rx, owner, opens>>
    BY DEF Connect, chip, history
  <1> QED
    BY <1>1, OpenedKeeps DEF SocketInv, TypeOK, ConnectOK

-----------------------------------------------------------------------------
(* ch_close and the network *)

LEMMA CloseKeeps ==
    ASSUME SocketInv, NEW c \in channels, Close(c)
    PROVE  SocketInv'
  <1> USE DEF SocketInv, frame, history
  <1>1. /\ pc = "idle" /\ ssr' = [ssr EXCEPT ![c.sock] = "CLOSED"]
        /\ live' \subseteq live
        /\ peers' = [peers EXCEPT ![c.sock] = NULL]
        /\ recv_buf' = [recv_buf EXCEPT ![c.sock] = NULL]
        /\ channels' = channels \ {c} /\ result' = "OK"
        /\ UNCHANGED <<hostents, mode, rx, owner, pc, i, channel_block, peer,
                       alloc_address, orig_buf, name, ip, opens>>
    BY DEF Close, ForgetBuffer
  <1>2. NULL \in Pointer
    BY DEF Pointer
  <1>3. TypeOK'
    BY <1>1, <1>2 DEF TypeOK
  <1>4. FrameOK'
    BY <1>1 DEF FrameOK
  <1>5. OneChannelPerSocket'
    <2>1. ASSUME NEW s \in Sockets
          PROVE  peers'[s] # NULL <=> \E d \in channels \ {c} : d.sock = s
      <3>1. CASE s = c.sock
        BY <1>1, <3>1 DEF OneChannelPerSocket, TypeOK
      <3>2. CASE s # c.sock
        BY <1>1, <3>2 DEF OneChannelPerSocket, TypeOK
      <3> QED
        BY <3>1, <3>2
    <2> QED
      BY <1>1, <2>1 DEF OneChannelPerSocket
  <1>6. ChannelOwnsSocket' /\ ConnectOK'
    BY <1>1 DEF ChannelOwnsSocket, ConnectOK
  <1> QED
    BY <1>3, <1>4, <1>5, <1>6

LEMMA StatusKeeps ==
    ASSUME SocketInv, NEW s \in Sockets, NEW from,
           NEW to \in {"CLOSED", "ESTABLISHED", "CLOSE_WAIT"}, SetStatus(s, from, to)
    PROVE  SocketInv'
  <1> USE DEF SocketInv, tables, frame, history
  <1>1. /\ ssr' = [ssr EXCEPT ![s] = to]
        /\ UNCHANGED <<live, tables, mode, rx, owner, frame, result, history>>
    BY DEF SetStatus
  <1>2. TypeOK'
    BY <1>1 DEF TypeOK
  <1>3. FrameOK'
    BY <1>1 DEF FrameOK
  <1>4. OneChannelPerSocket' /\ ChannelOwnsSocket' /\ ConnectOK'
    BY <1>1 DEF OneChannelPerSocket, ChannelOwnsSocket, ConnectOK
  <1> QED
    BY <1>2, <1>3, <1>4

\* What arrives is for the socket's owner.
LEMMA DataArrivesKeeps ==
    ASSUME SocketInv, NEW s \in Sockets, DataArrives(s)
    PROVE  SocketInv'
  <1> USE DEF SocketInv, tables, frame, history
  <1>1. /\ rx' = [rx EXCEPT ![s] = owner[s]]
        /\ UNCHANGED <<live, tables, mode, ssr, owner, frame, result, history>>
    BY DEF DataArrives
  <1>2. TypeOK'
    BY <1>1 DEF TypeOK
  <1>3. FrameOK'
    BY <1>1 DEF FrameOK
  <1>4. OneChannelPerSocket'
    BY <1>1 DEF OneChannelPerSocket
  <1>5. ChannelOwnsSocket'
    BY <1>1 DEF ChannelOwnsSocket, TypeOK
  <1>6. ConnectOK'
    BY <1>1 DEF ConnectOK, TypeOK
  <1> QED
    BY <1>2, <1>3, <1>4, <1>5, <1>6

LEMMA NetworkKeeps ==
    ASSUME SocketInv, Network
    PROVE  SocketInv'
  <1>1. PICK s \in Sockets :
          \/ \E from, to : /\ to \in {"CLOSED", "ESTABLISHED", "CLOSE_WAIT"}
                          /\ SetStatus(s, from, to)
          \/ DataArrives(s)
    BY Zenon DEF Network, Accepted, Refused, PeerFin, PeerReset
  <1> QED
    BY <1>1, StatusKeeps, DataArrivesKeeps

-----------------------------------------------------------------------------
(* Every step *)

LEMMA NextSocketInv ==
    SocketInv /\ [Next]_vars => SocketInv'
  <1> SUFFICES ASSUME SocketInv, [Next]_vars PROVE SocketInv'
    OBVIOUS
  <1>1. CASE \E type \in Types, form \in Names : OpenBlock(type, form)
    BY <1>1, OpenBlockKeeps
  <1>2. CASE Opening
    BY <1>2, SearchSocketKeeps, AllocPeerKeeps, ParseKeeps, ResolveKeeps, QueryKeeps,
       AnswerKeeps, ParsedKeeps, RegisterKeeps, OpenSocketKeeps, ConnectKeeps DEF Opening
  <1>3. CASE \E c \in channels : Close(c)
    BY <1>3, CloseKeeps
  <1>4. CASE Network
    BY <1>4, NetworkKeeps
  <1>5. CASE UNCHANGED vars
    <2> USE <1>5 DEF SocketInv, vars, tables, chip, frame, history
    <2>1. TypeOK'
      BY DEF TypeOK
    <2>2. FrameOK'
      BY DEF FrameOK
    <2>3. OneChannelPerSocket' /\ ChannelOwnsSocket' /\ ConnectOK'
      BY DEF OneChannelPerSocket, ChannelOwnsSocket, ConnectOK
    <2> QED
      BY <2>1, <2>2, <2>3
  <1> QED
    BY <1>1, <1>2, <1>3, <1>4, <1>5 DEF Next

-----------------------------------------------------------------------------
(* The heap: R is the set of pointers held, tagged with the places that hold  *)
(* them, L the blocks in use and X the blocks left behind.                   *)

Kept(R, L, X) ==
    /\ \A r \in R : r[3] # Wild =>
          r[3] \in L /\ r[3] \notin X /\ \A q \in R : q[3] = r[3] => q = r
    /\ \A b \in L : b \in X \/ \E r \in R : r[3] = b
    /\ X \ {Wild} \subseteq L

\* What the properties of the heap say of the pointers the driver holds.
LEMMA KeptIsSound ==
    ASSUME live \subseteq Blocks
    PROVE  (HeapSound /\ NoLeak /\ LostIsLost) <=> (~tainted => Kept(References, live, lost))
  <1>1. Wild \notin live
    BY DEF Blocks, Wild
  <1>2. ASSUME ~tainted, HeapSound, NoLeak, LostIsLost
        PROVE  Kept(References, live, lost)
    <2>1. live = (Held \cup lost) \ {Wild} /\ Held \cap lost \subseteq {Wild}
      BY <1>2 DEF NoLeak, LostIsLost
    <2>2. \A r \in References : r[3] \in Held
      BY DEF Held
    <2>3. \A b \in Held : \E r \in References : r[3] = b
      BY DEF Held
    <2> QED
      BY <1>2, <2>1, <2>2, <2>3 DEF HeapSound, Kept
  <1>3. ASSUME ~tainted, Kept(References, live, lost)
        PROVE  HeapSound /\ NoLeak /\ LostIsLost
    <2>2. \A r \in References : r[3] \in Held
      BY DEF Held
    <2>3. \A b \in Held : \E r \in References : r[3] = b
      BY DEF Held
    <2> QED
      BY <1>1, <1>3, <2>2, <2>3 DEF HeapSound, NoLeak, LostIsLost, Kept
  <1> QED
    BY <1>2, <1>3 DEF HeapSound, NoLeak, LostIsLost

\* An allocation: one place more, and its block.
LEMMA KeptAlloc ==
    ASSUME NEW R, NEW L \in SUBSET Blocks, NEW X, Kept(R, L, X), NEW a, a[3] = FirstFree(L)
    PROVE  Kept(R \cup {a}, Used(L, a[3]), X)
  <1>1. FirstFree(L) \in Blocks \ L \/ FirstFree(L) = Wild
    BY AllocatedIsFree
  <1> QED
    BY <1>1 DEF Kept, Used

\* sv_memfree of what some places hold; of a NULL pointer it does nothing.
LEMMA KeptFree ==
    ASSUME NEW R, NEW L \in SUBSET Blocks, NEW X, Kept(R, L, X),
           NEW T, NEW P, \A r \in T : r[3] \in P, \A p \in P : \E r \in T : r[3] = p,
           NEW D, D = {r \in T : r[3] # NULL}, D \in SUBSET R
    PROVE  Kept(R \ D, L \ P, X)
  <1>1. NULL \notin L /\ Wild \notin L
    BY DEF Blocks, NULL, Wild
  <1>2. \A p \in P \ {NULL} : \E r \in D : r[3] = p
    OBVIOUS
  <1>3. \A r \in D : r[3] \in P /\ r \in R
    OBVIOUS
  <1> QED
    BY <1>1, <1>2, <1>3 DEF Kept

\* A pointer changes hands.
LEMMA KeptMove ==
    ASSUME NEW R, NEW L, NEW X, Kept(R, L, X), NEW a \in R, NEW b, b[3] = a[3]
    PROVE  Kept((R \ {a}) \cup {b}, L, X)
  BY DEF Kept

\* A pointer is forgotten.
LEMMA KeptLose ==
    ASSUME NEW R, NEW L, NEW X, Kept(R, L, X), NEW a \in R
    PROVE  Kept(R \ {a}, L, X \cup {a[3]})
  BY DEF Kept

\* What is to be shown of the state after a step.
LEMMA HeapNext ==
    ASSUME SocketInv', PlacesOK', ~tainted' => Kept(References', live', lost')
    PROVE  HeapInv'
  <1>1. Wild \notin live'
    BY DEF SocketInv, TypeOK, Blocks, Wild
  <1>2. \A r \in References' : r[3] \in Held'
    BY DEF Held
  <1>3. \A b \in Held' : \E r \in References' : r[3] = b
    BY DEF Held
  <1> QED
    BY <1>1, <1>2, <1>3 DEF HeapInv, HeapSound, NoLeak, LostIsLost, Kept

\* The invariant at the start of a step.
LEMMA HeapNow ==
    ASSUME SocketInv, HeapInv
    PROVE  /\ live \in SUBSET Blocks /\ PlacesOK
           /\ ~tainted => Kept(References, live, lost)
  BY KeptIsSound DEF SocketInv, TypeOK, HeapInv


-----------------------------------------------------------------------------
(* The heap, step by step *)

\* ch_open allocates the channel block.
LEMMA OpenBlockHeap ==
    ASSUME SocketInv, HeapInv, NEW type \in Types, NEW form \in Names, OpenBlock(type, form)
    PROVE  HeapInv'
  <1> USE DEF tables
  <1>1. /\ channel_block' = sv_memalloc /\ live' = Used(live, sv_memalloc)
        /\ pc = "idle" /\ pc' = "search" /\ sv_memalloc # NULL
        /\ UNCHANGED <<i, peer, alloc_address, orig_buf, tables, lost, tainted>>
    BY AllocatedIsNotNull DEF OpenBlock
  <1>2. PlacesOK'
    BY <1>1 DEF HeapInv, PlacesOK
  <1>3. channel_block = NULL
    BY <1>1, HeapNow DEF PlacesOK
  <1>4. References' = References \cup {<<"opening", 0, channel_block'>>}
    BY <1>1, <1>3, SMTT(30) DEF References, ContentIsFreed
  <1>5. ~tainted' => Kept(References', live', lost')
    BY <1>1, <1>4, HeapNow, KeptAlloc DEF sv_memalloc
  <1> QED
    BY <1>2, <1>5, HeapNext, OpenBlockKeeps

\* No socket is free: the channel block is given back.
LEMMA SearchSocketHeap ==
    ASSUME SocketInv, HeapInv, SearchSocket
    PROVE  HeapInv'
  <1> USE DEF tables, history
  <1>1. UNCHANGED <<tables, history>> /\ pc = "search"
    BY DEF SearchSocket
  <1>2. CASE FreeSockets = {}
    <2> DEFINE T == {<<"opening", 0, channel_block>>}
               D == {r \in T : r[3] # NULL}
    <2>1. live' = live \ {channel_block} /\ ClosedFrame
      BY <1>2 DEF SearchSocket
    <2>2. PlacesOK'
      BY <1>1, <2>1 DEF HeapInv, PlacesOK, ClosedFrame
    <2>3. channel_block # NULL /\ peer = NULL /\ alloc_address = NULL /\ orig_buf = NULL
      BY <1>1, HeapNow DEF PlacesOK
    <2>4. References' = References \ D /\ D \in SUBSET References
      BY <1>1, <2>1, <2>3, SMTT(30) DEF References, ContentIsFreed, ClosedFrame
    <2>5. (\A r \in T : r[3] \in {channel_block}) /\ \E r \in T : r[3] = channel_block
      OBVIOUS
    <2>6. ~tainted' => Kept(References', live', lost')
      <3>1. D = {r \in T : r[3] # NULL}
        OBVIOUS
      <3> HIDE DEF D, T
      <3> QED
        BY <1>1, <2>1, <2>4, <2>5, <3>1, HeapNow, KeptFree
    <2> QED
      BY <2>2, <2>6, HeapNext, SearchSocketKeeps
  <1>3. CASE FreeSockets # {}
    <2>1. pc' = "peer" /\ UNCHANGED <<live, channel_block, peer, alloc_address, orig_buf>>
      BY <1>3 DEF SearchSocket
    <2>2. PlacesOK'
      BY <1>1, <2>1 DEF HeapInv, PlacesOK
    <2>3. References' = References
      BY <1>1, <2>1, SMTT(30) DEF References, ContentIsFreed
    <2> QED
      BY <1>1, <2>1, <2>2, <2>3, HeapNow, HeapNext, SearchSocketKeeps
  <1> QED
    BY <1>2, <1>3

\* ch_open allocates the peer.
LEMMA AllocPeerHeap ==
    ASSUME SocketInv, HeapInv, AllocPeer
    PROVE  HeapInv'
  <1> USE DEF tables, history
  <1>1. /\ peer' = sv_memalloc /\ live' = Used(live, sv_memalloc)
        /\ pc = "peer" /\ pc' = "parse" /\ sv_memalloc # NULL
        /\ UNCHANGED <<channel_block, alloc_address, orig_buf, i, tables, history>>
    BY AllocatedIsNotNull DEF AllocPeer
  <1>2. PlacesOK'
    BY <1>1 DEF HeapInv, PlacesOK
  <1>3. peer = NULL
    BY <1>1, HeapNow DEF PlacesOK
  <1>4. References' = References \cup {<<"peer", 0, peer'>>}
    BY <1>1, <1>3, SMTT(30) DEF References, ContentIsFreed
  <1>5. ~tainted' => Kept(References', live', lost')
    BY <1>1, <1>4, HeapNow, KeptAlloc DEF sv_memalloc
  <1> QED
    BY <1>2, <1>5, HeapNext, AllocPeerKeeps

\* A name that is malformed gives both back, a host's name takes a block more.
LEMMA ParseHeap ==
    ASSUME SocketInv, HeapInv, Parse
    PROVE  HeapInv'
  <1> USE DEF tables, history
  <1>1. UNCHANGED <<tables, history>> /\ pc = "parse"
    BY DEF Parse
  <1>2. /\ channel_block # NULL /\ peer # NULL /\ alloc_address = NULL /\ orig_buf = NULL
    BY <1>1, HeapNow DEF PlacesOK, SocketInv, FrameOK
  <1>3. CASE name.form = "bare"
    <2>1. pc' = "register" /\ UNCHANGED <<live, channel_block, peer, alloc_address,
                                          orig_buf, i>>
      BY <1>3 DEF Parse
    <2>2. PlacesOK'
      BY <1>1, <2>1 DEF HeapInv, PlacesOK
    <2>3. References' = References
      BY <1>1, <2>1, SMTT(30) DEF References, ContentIsFreed
    <2> QED
      BY <1>1, <2>1, <2>2, <2>3, HeapNow, HeapNext, ParseKeeps
  <1>4. CASE name.form = "malformed"
    <2> DEFINE T == {<<"opening", 0, channel_block>>, <<"peer", 0, peer>>}
               D == {r \in T : r[3] # NULL}
    <2>1. live' = live \ {peer, channel_block} /\ ClosedFrame
      BY <1>4 DEF Parse, FreedOnError
    <2>2. PlacesOK'
      BY <1>1, <2>1 DEF HeapInv, PlacesOK, ClosedFrame
    <2>3. References' = References \ D /\ D \in SUBSET References
      BY <1>1, <1>2, <2>1, SMTT(30) DEF References, ContentIsFreed, ClosedFrame
    <2>4. /\ \A r \in T : r[3] \in {peer, channel_block}
          /\ \A p \in {peer, channel_block} : \E r \in T : r[3] = p
      OBVIOUS
    <2>5. ~tainted' => Kept(References', live', lost')
      <3>1. D = {r \in T : r[3] # NULL}
        OBVIOUS
      <3> HIDE DEF D, T
      <3> QED
        BY <1>1, <2>1, <2>3, <2>4, <3>1, HeapNow, KeptFree
    <2> QED
      BY <2>2, <2>5, HeapNext, ParseKeeps
  <1>5. CASE name.form \notin {"bare", "malformed"}
    <2>1. /\ alloc_address' = sv_memalloc /\ live' = Used(live, sv_memalloc)
          /\ pc' \in {"parsed", "resolve"} /\ sv_memalloc # NULL
          /\ UNCHANGED <<channel_block, peer, orig_buf, i>>
      BY <1>5, AllocatedIsNotNull DEF Parse
    <2>2. PlacesOK'
      BY <1>1, <2>1 DEF HeapInv, PlacesOK
    <2>3. References' = References \cup {<<"text", 0, alloc_address'>>}
      BY <1>1, <1>2, <2>1, SMTT(30) DEF References, ContentIsFreed
    <2>4. ~tainted' => Kept(References', live', lost')
      BY <1>1, <2>1, <2>3, HeapNow, KeptAlloc DEF sv_memalloc
    <2> QED
      BY <2>2, <2>4, HeapNext, ParseKeeps
  <1> QED
    BY <1>3, <1>4, <1>5

\* A look-up allocates the node and the host of a new hostent, or frees the content.
LEMMA ResolveHeap ==
    ASSUME SocketInv, HeapInv, Resolve
    PROVE  HeapInv'
  <1> USE DEF history
  <1>1. /\ pc = "resolve" /\ pc' = "query" /\ i \in Sockets
        /\ UNCHANGED <<peers, recv_buf, channels, channel_block, peer, alloc_address,
                       orig_buf, i, history>>
    BY DEF Resolve, SocketInv, TypeOK
  <1>2. hostents \in [Sockets -> [node : Pointer, host : Pointer, content : Pointer]]
    BY DEF SocketInv, TypeOK
  <1>3. CASE hostents[i].node = NULL
    <2> DEFINE node == sv_memalloc
               host == FirstFree(Used(live, node))
    <2>1. /\ live' = Used(Used(live, node), host)
          /\ hostents' = [hostents EXCEPT ![i] =
                            [node |-> node, host |-> host, content |-> NULL]]
      BY <1>3 DEF Resolve
    <2>2. node # NULL /\ host # NULL
      BY AllocatedIsPointer DEF sv_memalloc, Blocks, Wild, NULL
    <2> HIDE DEF node, host
    <2>3. /\ hostents'[i].node = node /\ hostents'[i].host = host
          /\ hostents'[i].content = NULL
          /\ \A s \in Sockets \ {i} : hostents'[s] = hostents[s]
      BY <1>1, <1>2, <2>1
    <2>4. hostents[i].host = NULL /\ hostents[i].content = NULL
      BY <1>1, <1>3, HeapNow DEF PlacesOK
    <2>5. PlacesOK'
      BY <1>1, <2>2, <2>3 DEF HeapInv, PlacesOK
    <2>6. References' = (References \cup {<<"node", i, node>>}) \cup {<<"host", i, host>>}
      BY <1>1, <1>3, <2>2, <2>3, <2>4, SMTT(60) DEF References, ContentIsFreed
    <2>7. ASSUME ~tainted
          PROVE  Kept(References', live', lost')
      <3>1. Kept(References \cup {<<"node", i, node>>}, Used(live, node), lost)
        BY <2>7, HeapNow, KeptAlloc DEF sv_memalloc, node
      <3>2. Used(live, node) \in SUBSET Blocks
        BY HeapNow, AllocatedIsPointer DEF Used, sv_memalloc, node
      <3> QED
        <4> DEFINE R == References \cup {<<"node", i, node>>}
                   L == Used(live, node)
                   h == <<"host", i, host>>
        <4>1. h[3] = FirstFree(L)
          BY DEF host
        <4>2. References' = R \cup {h} /\ live' = Used(L, h[3]) /\ lost' = lost
          BY <1>1, <2>1, <2>6
        <4> HIDE DEF R, L, h
        <4> QED
          BY <3>1, <3>2, <4>1, <4>2, KeptAlloc DEF R, L
    <2> QED
      BY <1>1, <2>5, <2>7, HeapNext, ResolveKeeps
  <1>4. CASE hostents[i].node # NULL
    <2> DEFINE T == {<<"content", i, hostents[i].content>>}
               D == {r \in T : r[3] # NULL}
    <2>1. live' = live \ {hostents[i].content} /\ UNCHANGED hostents
      BY <1>4 DEF Resolve
    <2>2. PlacesOK'
      BY <1>1, <1>4, <2>1 DEF HeapInv, PlacesOK
    <2>3. References' = References \ D /\ D \in SUBSET References
      BY <1>1, <2>1, SMTT(60) DEF References, ContentIsFreed
    <2>4. /\ \A r \in T : r[3] \in {hostents[i].content}
          /\ \E r \in T : r[3] = hostents[i].content
      OBVIOUS
    <2>5. ~tainted' => Kept(References', live', lost')
      <3>1. D = {r \in T : r[3] # NULL}
        OBVIOUS
      <3> HIDE DEF D, T
      <3> QED
        BY <1>1, <2>1, <2>3, <2>4, <3>1, HeapNow, KeptFree
    <2> QED
      BY <2>2, <2>5, HeapNext, ResolveKeeps
  <1> QED
    BY <1>3, <1>4

\* The reply buffer is allocated.
LEMMA QueryHeap ==
    ASSUME SocketInv, HeapInv, Query
    PROVE  HeapInv'
  <1> USE DEF tables, history
  <1>1. /\ orig_buf' = sv_memalloc /\ live' = Used(live, sv_memalloc)
        /\ pc = "query" /\ pc' = "answer" /\ sv_memalloc # NULL
        /\ UNCHANGED <<channel_block, peer, alloc_address, i, tables, history>>
    BY AllocatedIsNotNull DEF Query
  <1>2. PlacesOK'
    BY <1>1 DEF HeapInv, PlacesOK
  <1>3. orig_buf = NULL
    BY <1>1, HeapNow DEF PlacesOK
  <1>4. References' = References \cup {<<"reply", 0, orig_buf'>>}
    BY <1>1, <1>3, SMTT(30) DEF References, ContentIsFreed
  <1>5. ~tainted' => Kept(References', live', lost')
    BY <1>1, <1>4, HeapNow, KeptAlloc DEF sv_memalloc
  <1> QED
    BY <1>2, <1>5, HeapNext, QueryKeeps

\* The look-up ends: the content and the reply buffer, by outcome.
LEMMA AnswerHeap ==
    ASSUME SocketInv, HeapInv, NEW o \in Outcomes, Answer(o)
    PROVE  HeapInv'
  <1> DEFINE reply == <<"reply", 0, orig_buf>>
  <1>1. /\ pc = "answer" /\ pc' = "parsed" /\ orig_buf' = NULL /\ i \in Sockets
        /\ UNCHANGED <<peers, recv_buf, channels, channel_block, peer, alloc_address, i>>
    BY DEF Answer, SocketInv, TypeOK
  <1>2. hostents \in [Sockets -> [node : Pointer, host : Pointer, content : Pointer]]
    BY DEF SocketInv, TypeOK
  <1>3. orig_buf # NULL /\ hostents[i].node # NULL
    BY <1>1, HeapNow DEF PlacesOK
  <1>4. reply \in References
    BY <1>3, SMTT(30) DEF References
  <1>5. CASE o = "rcode"
    <2>1. /\ lost' = lost \cup {orig_buf}
          /\ tainted' = (tainted \/ hostents[i].content # NULL)
          /\ UNCHANGED <<live, hostents>>
      BY <1>5 DEF Answer
    <2>2. PlacesOK'
      BY <1>1, <1>3, <2>1 DEF HeapInv, PlacesOK
    <2>3. ASSUME ~tainted'
          PROVE  Kept(References', live', lost')
      <3>1. ~tainted /\ hostents[i].content = NULL
        BY <2>1, <2>3
      <3>2. References' = References \ {reply}
        BY <1>1, <1>3, <2>1, <3>1, SMTT(60) DEF References, ContentIsFreed
      <3> QED
        BY <1>4, <2>1, <3>1, <3>2, HeapNow, KeptLose
    <2> QED
      BY <2>2, <2>3, HeapNext, AnswerKeeps
  <1>6. CASE o # "rcode"
    <2> DEFINE block == sv_memalloc
               content == <<"content", i, block>>
    <2>1. /\ hostents' = [hostents EXCEPT ![i].content = block]
          /\ live' = Used(live, block) \ {orig_buf}
          /\ UNCHANGED <<lost, tainted>>
      BY <1>6 DEF Answer
    <2>2. block # NULL
      BY AllocatedIsNotNull
    <2> HIDE DEF block
    <2>3. /\ hostents'[i].node = hostents[i].node /\ hostents'[i].host = hostents[i].host
          /\ hostents'[i].content = block
          /\ \A s \in Sockets \ {i} : hostents'[s] = hostents[s]
      BY <1>1, <1>2, <2>1
    <2>4. PlacesOK'
      BY <1>1, <1>3, <2>1, <2>3 DEF HeapInv, PlacesOK
    <2>5. References' = (References \cup {content}) \ {reply}
      BY <1>1, <1>3, <2>2, <2>3, SMTT(60) DEF References, ContentIsFreed
    <2>6. ASSUME ~tainted
          PROVE  Kept(References', live', lost')
      <3> DEFINE R == References \cup {content}
                 L == Used(live, block)
      <3>1. Kept(R, L, lost)
        BY <2>6, HeapNow, KeptAlloc DEF sv_memalloc, block
      <3>2. L \in SUBSET Blocks
        BY HeapNow, AllocatedIsPointer DEF Used, sv_memalloc, block
      <3>3. {r \in {reply} : r[3] # NULL} = {reply} /\ {reply} \in SUBSET R
        BY <1>3, <1>4
      <3>4. (\A r \in {reply} : r[3] \in {orig_buf}) /\ \E r \in {reply} : r[3] = orig_buf
        OBVIOUS
      <3>5. References' = R \ {reply} /\ live' = L \ {orig_buf} /\ lost' = lost
        BY <2>1, <2>5
      <3> HIDE DEF R, L, reply
      <3> QED
        BY <3>1, <3>2, <3>3, <3>4, <3>5, KeptFree
    <2> QED
      BY <2>1, <2>4, <2>6, HeapNext, AnswerKeeps
  <1> QED
    BY <1>5, <1>6

\* parse_channel_def gives back the block of the name.
LEMMA ParsedHeap ==
    ASSUME SocketInv, HeapInv, Parsed
    PROVE  HeapInv'
  <1> USE DEF tables, history
  <1> DEFINE T == {<<"text", 0, alloc_address>>}
             D == {r \in T : r[3] # NULL}
  <1>1. /\ live' = live \ {alloc_address} /\ alloc_address' = NULL
        /\ pc = "parsed" /\ pc' = "register"
        /\ UNCHANGED <<channel_block, peer, orig_buf, i, tables, history>>
    BY DEF Parsed
  <1>2. PlacesOK'
    BY <1>1 DEF HeapInv, PlacesOK
  <1>3. References' = References \ D /\ D \in SUBSET References
    BY <1>1, SMTT(60) DEF References, ContentIsFreed
  <1>4. /\ \A r \in T : r[3] \in {alloc_address}
        /\ \E r \in T : r[3] = alloc_address
    OBVIOUS
  <1>5. ~tainted' => Kept(References', live', lost')
    <2>1. D = {r \in T : r[3] # NULL}
      OBVIOUS
    <2> HIDE DEF D, T
    <2> QED
      BY <1>1, <1>3, <1>4, <2>1, HeapNow, KeptFree
  <1> QED
    BY <1>2, <1>5, HeapNext, ParsedKeeps

\* The peer changes hands, from ch_open to the table of peers.
LEMMA RegisterHeap ==
    ASSUME SocketInv, HeapInv, Register
    PROVE  HeapInv'
  <1> USE DEF history
  <1> DEFINE mine == <<"peer", 0, peer>>
             its == <<"peers", i, peer>>
             R == (References \ {mine}) \cup {its}
  <1>1. /\ pc = "register" /\ pc' = "socket" /\ i \in Sockets
        /\ peers' = [peers EXCEPT ![i] = peer]
        /\ UNCHANGED <<hostents, channels, channel_block, peer, alloc_address, orig_buf,
                       i, history>>
    BY DEF Register, SocketInv, TypeOK
  <1>2. peers \in [Sockets -> Pointer] /\ recv_buf \in [Sockets -> Pointer]
    BY DEF SocketInv, TypeOK
  <1>3. peer # NULL /\ peers[i] = NULL
    BY <1>1 DEF SocketInv, FrameOK
  <1>4. peers'[i] = peer /\ \A s \in Sockets \ {i} : peers'[s] = peers[s]
    BY <1>1, <1>2
  <1>5. PlacesOK'
    BY <1>1 DEF HeapInv, PlacesOK
  <1>6. ~tainted => Kept(R, live, lost)
    <2>1. mine \in References
      BY <1>1, <1>3, SMTT(30) DEF References
    <2> QED
      BY <2>1, HeapNow, KeptMove
  <1>7. CASE recv_buf[i] = NULL
    <2>1. /\ recv_buf' = [recv_buf EXCEPT ![i] = sv_memalloc]
          /\ live' = Used(live, sv_memalloc)
      BY <1>7 DEF Register
    <2>2. recv_buf'[i] = sv_memalloc /\ \A s \in Sockets \ {i} : recv_buf'[s] = recv_buf[s]
      BY <1>1, <1>2, <2>1
    <2>3. sv_memalloc # NULL
      BY AllocatedIsNotNull
    <2>4. References' = R \cup {<<"recv_buf", i, sv_memalloc>>}
      BY <1>1, <1>3, <1>4, <1>7, <2>2, <2>3, SMTT(60) DEF References, ContentIsFreed
    <2>5. ~tainted' => Kept(References', live', lost')
      <3> HIDE DEF R
      <3> QED
        BY <1>1, <1>6, <2>1, <2>4, HeapNow, KeptAlloc DEF sv_memalloc
    <2> QED
      BY <1>5, <2>5, HeapNext, RegisterKeeps
  <1>8. CASE recv_buf[i] # NULL
    <2>1. UNCHANGED <<recv_buf, live>>
      BY <1>8 DEF Register
    <2>2. References' = R
      BY <1>1, <1>3, <1>4, <2>1, SMTT(60) DEF References, ContentIsFreed
    <2> QED
      BY <1>1, <1>5, <1>6, <2>1, <2>2, HeapNext, RegisterKeeps
  <1> QED
    BY <1>7, <1>8

\* The channel block changes hands, from ch_open to QDOS.
LEMMA OpenedHeap ==
    ASSUME SocketInv, HeapInv, SocketInv', pc \in {"socket", "connect"}, Opened,
           UNCHANGED <<live, peers, recv_buf, hostents, history>>
    PROVE  HeapInv'
  <1> USE DEF history
  <1> DEFINE mine == <<"opening", 0, channel_block>>
             its == <<"channel", i, channel_block>>
             c0 == [blk |-> channel_block, sock |-> i, type |-> name.type, gen |-> opens]
  <1>1. channels' = channels \cup {c0} /\ ClosedFrame
    BY DEF Opened
  <1>2. channel_block # NULL /\ alloc_address = NULL /\ orig_buf = NULL
    BY HeapNow DEF PlacesOK
  <1>3. c0.blk = channel_block /\ c0.sock = i
    OBVIOUS
  <1>4. PlacesOK'
    BY <1>1 DEF HeapInv, PlacesOK, ClosedFrame
  <1> HIDE DEF c0
  <1>5. References' = (References \ {mine}) \cup {its}
    BY <1>1, <1>2, <1>3, SMTT(60) DEF References, ContentIsFreed, ClosedFrame
  <1>6. mine \in References
    BY <1>2, SMTT(30) DEF References
  <1>7. ~tainted' => Kept(References', live', lost')
    BY <1>5, <1>6, HeapNow, KeptMove
  <1> QED
    BY <1>4, <1>7, HeapNext

LEMMA OpenSocketHeap ==
    ASSUME SocketInv, HeapInv, OpenSocket
    PROVE  HeapInv'
  <1>1. pc = "socket" /\ UNCHANGED <<live, peers, recv_buf, hostents, history>>
    BY DEF OpenSocket
  <1>2. CASE Opened
    BY <1>1, <1>2, OpenedHeap, OpenSocketKeeps
  <1>3. CASE ~Opened
    <2> USE DEF history
    <2>1. pc' = "connect" /\ UNCHANGED <<channels, channel_block, peer, alloc_address,
                                         orig_buf, i>>
      BY <1>3 DEF OpenSocket
    <2>2. PlacesOK'
      BY <1>1, <2>1 DEF HeapInv, PlacesOK
    <2>3. References' = References
      BY <1>1, <2>1, SMTT(30) DEF References, ContentIsFreed
    <2> QED
      BY <1>1, <2>2, <2>3, HeapNow, HeapNext, OpenSocketKeeps
  <1> QED
    BY <1>2, <1>3

LEMMA ConnectHeap ==
    ASSUME SocketInv, HeapInv, Connect
    PROVE  HeapInv'
  BY OpenedHeap, ConnectKeeps DEF Connect

\* ch_close gives back the three blocks of its channel: its socket has no other.
LEMMA CloseHeap ==
    ASSUME SocketInv, HeapInv, NEW c \in channels, Close(c)
    PROVE  HeapInv'
  <1> USE DEF frame, history
  <1> DEFINE P == {peers[c.sock], c.blk, recv_buf[c.sock]}
             T == {<<"peers", c.sock, peers[c.sock]>>, <<"channel", c.sock, c.blk>>,
                   <<"recv_buf", c.sock, recv_buf[c.sock]>>}
             D == {r \in T : r[3] # NULL}
  <1>1. /\ live' = live \ P /\ pc = "idle" /\ c.sock \in Sockets
        /\ peers' = [peers EXCEPT ![c.sock] = NULL]
        /\ recv_buf' = [recv_buf EXCEPT ![c.sock] = NULL]
        /\ channels' = channels \ {c} /\ UNCHANGED <<hostents, frame, history>>
    BY DEF Close, ForgetBuffer, SocketInv, TypeOK
  <1>2. /\ peers'[c.sock] = NULL /\ recv_buf'[c.sock] = NULL
        /\ \A s \in Sockets \ {c.sock} : peers'[s] = peers[s] /\ recv_buf'[s] = recv_buf[s]
    BY <1>1 DEF SocketInv, TypeOK
  <1>3. \A d \in channels \ {c} : d.sock # c.sock
    BY DEF SocketInv, OneChannelPerSocket
  <1>4. PlacesOK'
    BY <1>1 DEF HeapInv, PlacesOK
  <1>5. References' = References \ D /\ D \in SUBSET References
    BY <1>1, <1>2, <1>3, SMTT(60) DEF References, ContentIsFreed
  <1>6. (\A r \in T : r[3] \in P) /\ \A p \in P : \E r \in T : r[3] = p
    OBVIOUS
  <1>7. ~tainted' => Kept(References', live', lost')
    <2>1. D = {r \in T : r[3] # NULL}
      OBVIOUS
    <2> HIDE DEF D, P, T
    <2> QED
      BY <1>1, <1>5, <1>6, <2>1, HeapNow, KeptFree
  <1> QED
    BY <1>4, <1>7, HeapNext, CloseKeeps

\* The chip, the peers and a stutter leave the heap and its users alone.
LEMMA AsideHeap ==
    ASSUME SocketInv', HeapInv, UNCHANGED <<live, tables, frame, history>>
    PROVE  HeapInv'
  <1> USE DEF tables, frame, history
  <1>1. References' = References
    BY SMTT(30) DEF References, ContentIsFreed
  <1>2. Held' = Held
    BY <1>1 DEF Held
  <1> QED
    BY <1>1, <1>2 DEF HeapInv, HeapSound, NoLeak, LostIsLost, PlacesOK

LEMMA NextHeap ==
    SocketInv /\ HeapInv /\ [Next]_vars => HeapInv'
  <1> SUFFICES ASSUME SocketInv, HeapInv, [Next]_vars PROVE HeapInv'
    OBVIOUS
  <1>1. CASE \E type \in Types, form \in Names : OpenBlock(type, form)
    BY <1>1, OpenBlockHeap
  <1>2. CASE Opening
    BY <1>2, SearchSocketHeap, AllocPeerHeap, ParseHeap, ResolveHeap, QueryHeap,
       AnswerHeap, ParsedHeap, RegisterHeap, OpenSocketHeap, ConnectHeap DEF Opening
  <1>3. CASE \E c \in channels : Close(c)
    BY <1>3, CloseHeap
  <1>4. CASE Network
    <2>1. UNCHANGED <<live, tables, frame, history>>
      BY <1>4 DEF Network, Accepted, Refused, PeerFin, PeerReset, SetStatus, DataArrives
    <2> QED
      BY <2>1, AsideHeap, NextSocketInv
  <1>5. CASE UNCHANGED vars
    BY <1>5, AsideHeap, NextSocketInv DEF vars
  <1> QED
    BY <1>1, <1>2, <1>3, <1>4, <1>5 DEF Next

LEMMA InitHeap ==
    Init => HeapInv
  <1> SUFFICES ASSUME Init PROVE HeapInv
    OBVIOUS
  <1>1. References = {}
    BY SMTT(30) DEF Init, References, ContentIsFreed
  <1>2. Held = {}
    BY <1>1 DEF Held
  <1> QED
    BY <1>1, <1>2, SMTT(30) DEF Init, HeapInv, HeapSound, NoLeak, LostIsLost, PlacesOK

-----------------------------------------------------------------------------
(* The theorems *)

\* In every reachable state of opens, lookups, closes and the network, whatever
\* they come to, for any number of sockets and a heap that may run out, the
\* inductive invariant holds.
THEOREM ChannelsInvariant ==
    Spec => []IInv
  <1>1. Init => IInv
    BY InitSocketInv, InitHeap DEF IInv
  <1>2. IInv /\ [Next]_vars => IInv'
    BY NextSocketInv, NextHeap DEF IInv
  <1> QED
    BY <1>1, <1>2, PTL DEF Spec

\* A socket has a peer exactly when one channel, open or being opened, uses it.
THEOREM SocketsAreNotShared ==
    Spec => []OneChannelPerSocket
  <1>1. IInv => OneChannelPerSocket
    BY DEF IInv, SocketInv
  <1> QED
    BY <1>1, ChannelsInvariant, PTL

\* A TCP_ or UDP_ channel has the chip's socket to itself and finds no data of an
\* earlier one, on every socket but the resolver's.
THEOREM SocketIsItsChannels ==
    Spec => []ChannelOwnsSocket
  <1>1. IInv => ChannelOwnsSocket
    BY DEF IInv, SocketInv
  <1> QED
    BY <1>1, ChannelsInvariant, PTL

\* No block is held in two places, and none that is held has been given back.
THEOREM EveryBlockHeldOnce ==
    Spec => []HeapSound
  <1>1. IInv => HeapSound
    BY DEF IInv, HeapInv
  <1> QED
    BY <1>1, ChannelsInvariant, PTL

\* A block in use is held somewhere, or was left behind by a failed lookup.
THEOREM NothingElseLeaks ==
    Spec => []NoLeak
  <1>1. IInv => NoLeak
    BY DEF IInv, HeapInv
  <1> QED
    BY <1>1, ChannelsInvariant, PTL

=============================================================================

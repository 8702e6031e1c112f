----------------------------- MODULE DhcpProofs -----------------------------
(***************************************************************************)
(* Theorems about Timer and Dhcp: for any clock, any servers, any queue and  *)
(* whatever the network does.                                               *)
(***************************************************************************)
EXTENDS Dhcp, SequenceTheorems, TLAPS

-----------------------------------------------------------------------------
(* Timers *)

\* One step over the end of a range, in either direction.
LEMMA ComesRound ==
    ASSUME NEW M \in Nat \ {0}, NEW n \in 0 .. M - 1
    PROVE  n % M = n /\ (n + M) % M = n /\ (n - M) % M = n
  <1>1. n % M = n
    OBVIOUS
  <1>2. (n + M) % M = n
    OBVIOUS
  <1>3. (n - M) % M = n
    OBVIOUS
  <1> QED
    BY <1>1, <1>2, <1>3

\* timer_expired on a clock that may have come round since the timer was set.
LEMMA ExpiredExactly ==
    ASSUME NEW t, t.start \in Clock, t.interval \in Nat, NEW w \in Nat, w < Half
    PROVE  timer_expired(t, (t.start + w) % ClockMod) <=> w >= t.interval
  <1> DEFINE start == t.start
  <1>1. ClockMod \in Nat \ {0} /\ w < ClockMod /\ start \in 0 .. ClockMod - 1
    BY TimerAssumption DEF TimerAssumption, Half, Clock
  <1>2. CASE start + w < ClockMod
    <2>1. start + w \in 0 .. ClockMod - 1
      BY <1>1, <1>2
    <2>2. (start + w) % ClockMod = start + w
      BY <1>1, <2>1, ComesRound
    <2>3. ((start + w) % ClockMod) - start = w /\ w % ClockMod = w
      BY <1>1, <2>2, ComesRound
    <2> QED
      BY <2>3 DEF timer_expired, AsLong
  <1>3. CASE start + w >= ClockMod
    <2> DEFINE n == start + w - ClockMod
    <2>1. n \in 0 .. ClockMod - 1 /\ start + w = n + ClockMod
      BY <1>1, <1>3
    <2>2. (start + w) % ClockMod = n
      BY <1>1, <2>1, ComesRound
    <2>3. n - start = w - ClockMod /\ (w - ClockMod) % ClockMod = w
      BY <1>1, <2>1, ComesRound
    <2> QED
      BY <1>1, <2>2, <2>3 DEF timer_expired, AsLong
  <1> QED
    BY <1>1, <1>2, <1>3

-----------------------------------------------------------------------------
(* The client *)

\* A function of packets for the servers that is one packet everywhere.
LEMMA BroadcastType ==
    ASSUME NEW msg \in ClientPacket, Broadcast(msg)
    PROVE  wire' \in [Servers -> ClientPacket] /\ \A s \in Servers : wire'[s] = msg
  BY DEF Broadcast

\* What an interval of the timer may be, and how it grows.
LEMMA Intervals ==
    ASSUME ticks \in 1 .. 2 * MaxTicks + MaxRequestTicks
    PROVE  /\ Doubled \in 1 .. 2 * MaxTicks + MaxRequestTicks
           /\ ticks <= MaxRequestTicks => ticks + 1 \in 1 .. 2 * MaxTicks + MaxRequestTicks
           /\ 1 \in 1 .. 2 * MaxTicks + MaxRequestTicks
  BY DhcpAssumption DEF DhcpAssumption, Doubled

\* Setting the timer: no second has passed.
LEMMA SetTimerKeepsClock ==
    ASSUME now \in Clock, NEW n \in 1 .. 2 * MaxTicks + MaxRequestTicks,
           SetTimer(n), UNCHANGED now
    PROVE  ClockOK' /\ timer'.start \in Clock /\ timer'.interval \in Nat /\ waited' \in Nat
  <1>1. ClockMod \in Nat \ {0} /\ now \in 0 .. ClockMod - 1
    BY TimerAssumption DEF TimerAssumption, Clock
  <1>2. now % ClockMod = now
    BY <1>1, ComesRound
  <1>3. timer'.start = now /\ timer'.interval = n /\ waited' = 0 /\ now' = now
    BY DEF SetTimer, timer_set
  <1>4. now' = (timer'.start + waited') % ClockMod
    BY <1>1, <1>2, <1>3
  <1>5. n \in Nat
    BY DhcpAssumption DEF DhcpAssumption
  <1> QED
    BY <1>3, <1>4, <1>5 DEF ClockOK

\* What a packet of the network can be.
LEMMA PacketForm ==
    ASSUME NEW m \in ServerPacket
    PROVE  /\ m.type \in {"foreign", "OFFER", "ACK", "NAK"}
           /\ m = Foreign <=> m.type = "foreign"
           /\ m # Foreign => /\ m.srv \in Servers /\ m.ip \in {m.srv, NoServer}
                             /\ m.opts \in BOOLEAN
           /\ m.type \in {"OFFER", "ACK"} => m.ip = m.srv
  BY DEF ServerPacket, Reply, Foreign

\* The packet that is read, and those that stay.
LEMMA QueueRead ==
    ASSUME TypeOK, PacketsOK, rx # <<>>
    PROVE  /\ Head(rx) \in ServerPacket /\ Head(rx) \in sent
           /\ Tail(rx) \in Seq(ServerPacket)
           /\ \A n \in 1 .. Len(Tail(rx)) : Tail(rx)[n] \in sent
  <1>1. rx \in Seq(ServerPacket) /\ Len(rx) \in Nat /\ Len(rx) # 0
    BY DEF TypeOK
  <1>2. Head(rx) = rx[1] /\ 1 \in 1 .. Len(rx)
    BY <1>1
  <1>3. Len(Tail(rx)) = Len(rx) - 1 /\ \A n \in 1 .. Len(Tail(rx)) : Tail(rx)[n] = rx[n + 1]
    BY <1>1
  <1> QED
    BY <1>1, <1>2, <1>3 DEF PacketsOK

\* parse_msg: what is known stays of one piece.
LEMMA ParseKeeps ==
    ASSUME TypeOK, PacketsOK, rx # <<>>, Parse(Head(rx)), UNCHANGED <<sent, lease>>
    PROVE  /\ rx' \in Seq(ServerPacket) /\ PacketsOK'
           /\ {ipaddr', serverid', options'} \subseteq Servers \cup {NoServer}
           /\ Head(rx).type = "OFFER" => serverid' \in Servers /\ ipaddr' = serverid'
           /\ serverid \in Servers /\ ipaddr \in {serverid, NoServer}
                => serverid' \in Servers /\ ipaddr' \in {serverid', NoServer}
  <1> DEFINE m == Head(rx)
  <1>1. m \in ServerPacket /\ rx' = Tail(rx) /\ rx' \in Seq(ServerPacket) /\ PacketsOK'
    BY QueueRead DEF Parse, PacketsOK
  <1>2. CASE m = Foreign
    <2>1. UNCHANGED <<ipaddr, serverid, options>>
      BY <1>2 DEF Parse
    <2>2. m.type # "OFFER"
      BY <1>2 DEF Foreign
    <2> QED
      BY <1>1, <2>1, <2>2 DEF TypeOK
  <1>3. CASE m # Foreign
    <2>1. /\ ipaddr' = m.ip /\ serverid' = m.srv
          /\ options' \in {m.srv, options}
      BY <1>3 DEF Parse, AddressOf, ServerOf, OptionsOf
    <2> QED
      BY <1>1, <1>3, <2>1, PacketForm DEF TypeOK
  <1> QED
    BY <1>2, <1>3

\* send_discover.
LEMMA DiscoverKeeps ==
    ASSUME LeaseInv, NEW n \in 1 .. 2 * MaxTicks + MaxRequestTicks, SendDiscover(n), UNCHANGED now
    PROVE  /\ wire' \in [Servers -> ClientPacket] /\ RequestIsConsistent' /\ ClockOK'
           /\ KnownOK' /\ pc' = "discover" /\ ticks' = n
           /\ timer'.start \in Clock /\ timer'.interval \in Nat /\ waited' \in Nat
  <1>1. wire' \in [Servers -> ClientPacket] /\ \A s \in Servers : wire'[s] = Discover
    BY BroadcastType DEF SendDiscover, ClientPacket
  <1>2. RequestIsConsistent'
    BY <1>1 DEF RequestIsConsistent, Discover
  <1>3. ClockOK' /\ timer'.start \in Clock /\ timer'.interval \in Nat /\ waited' \in Nat
    BY SetTimerKeepsClock DEF SendDiscover, LeaseInv, TypeOK
  <1> QED
    BY <1>1, <1>2, <1>3 DEF SendDiscover, KnownOK

\* send_request for what is known by now.
LEMMA RequestKeeps ==
    ASSUME LeaseInv, NEW n \in 1 .. 2 * MaxTicks + MaxRequestTicks, UNCHANGED now,
           SendRequest(n, serverid', ipaddr'),
           serverid' \in Servers, ipaddr' \in {serverid', NoServer}
    PROVE  /\ wire' \in [Servers -> ClientPacket] /\ RequestIsConsistent' /\ ClockOK'
           /\ KnownOK' /\ pc' = "request" /\ ticks' = n
           /\ timer'.start \in Clock /\ timer'.interval \in Nat /\ waited' \in Nat
  <1> DEFINE msg == Request(serverid', ipaddr')
  <1>1. msg \in ClientPacket /\ msg.srv = serverid' /\ msg.ip = ipaddr'
    BY DEF ClientPacket, Request
  <1>2. wire' = [s \in Servers |-> msg]
    BY DEF SendRequest, Broadcast
  <1> HIDE DEF msg
  <1>3. wire' \in [Servers -> ClientPacket] /\ \A s \in Servers : wire'[s] = msg
    BY <1>1, <1>2
  <1>4. RequestIsConsistent'
    BY <1>1, <1>3 DEF RequestIsConsistent
  <1>5. ClockOK' /\ timer'.start \in Clock /\ timer'.interval \in Nat /\ waited' \in Nat
    BY SetTimerKeepsClock DEF SendRequest, LeaseInv, TypeOK
  <1> QED
    BY <1>3, <1>4, <1>5 DEF SendRequest, KnownOK

\* Once more, or PT_RESTART.
LEMMA AgainKeeps ==
    ASSUME LeaseInv, UNCHANGED now, Again(serverid', ipaddr'),
           serverid' \in Servers, ipaddr' \in {serverid', NoServer}
    PROVE  /\ wire' \in [Servers -> ClientPacket] /\ RequestIsConsistent' /\ ClockOK'
           /\ KnownOK' /\ pc' \in {"request", "restart"}
           /\ ticks' \in 1 .. 2 * MaxTicks + MaxRequestTicks
           /\ timer'.start \in Clock /\ timer'.interval \in Nat /\ waited' \in Nat
  <1>1. CASE ticks <= MaxRequestTicks
    <2>1. ticks + 1 \in 1 .. 2 * MaxTicks + MaxRequestTicks
      BY <1>1, Intervals DEF LeaseInv, TypeOK
    <2>2. SendRequest(ticks + 1, serverid', ipaddr')
      BY <1>1 DEF Again
    <2> QED
      BY <2>1, <2>2, RequestKeeps
  <1>2. CASE ~(ticks <= MaxRequestTicks)
    BY <1>2 DEF Again, LeaseInv, TypeOK, RequestIsConsistent, ClockOK, KnownOK
  <1> QED
    BY <1>1, <1>2

-----------------------------------------------------------------------------
(* Every step keeps the invariant *)

LEMMA InitLeaseInv ==
    Init => LeaseInv
  <1> SUFFICES ASSUME Init PROVE LeaseInv
    OBVIOUS
  <1> USE DhcpAssumption DEF DhcpAssumption, Init
  <1>1. now \in Clock /\ ClockMod \in Nat \ {0} /\ now \in 0 .. ClockMod - 1
    BY TimerAssumption DEF TimerAssumption, Clock
  <1>2. 1 \in 1 .. 2 * MaxTicks + MaxRequestTicks /\ 0 \in 0 .. MaxRuns
    BY Intervals
  <1>3. TypeOK
    <2>1. {init_timer.start, timer.start} \subseteq Clock
          /\ {init_timer.interval, timer.interval} \subseteq Nat
      BY <1>1 DEF timer_set
    <2>2. rx \in Seq(ServerPacket) /\ sent \subseteq ServerPacket
      BY DEF ServerPacket
    <2>3. wire \in [Servers -> ClientPacket]
      BY DEF ClientPacket
    <2>4. pc = "idle" /\ ticks = 1 /\ {ipaddr, serverid, options, sipr, gar} \subseteq {NoServer}
          /\ open = FALSE /\ runs = 0 /\ waited = 0
          /\ lease \in [Servers -> {"free", "offered", "granted"}]
      OBVIOUS
    <2> HIDE DEF Init
    <2> QED
      BY <1>1, <1>2, <2>1, <2>2, <2>3, <2>4 DEF TypeOK
  <1>4. RequestIsConsistent /\ KnownOK
    BY DEF RequestIsConsistent, KnownOK, Nothing
  <1>5. ClockOK
    BY <1>1, ComesRound DEF ClockOK, timer_set
  <1>6. PacketsOK
    BY DEF PacketsOK, Foreign
  <1> QED
    BY <1>3, <1>4, <1>5, <1>6 DEF LeaseInv

\* dhcpc_init: the socket is empty again.
LEMMA dhcpc_initKeeps ==
    ASSUME LeaseInv, dhcpc_init
    PROVE  LeaseInv'
  <1> USE DEF dhcpc_init, LeaseInv, net
  <1>1. runs' \in 0 .. MaxRuns
    BY DhcpAssumption DEF DhcpAssumption, TypeOK
  <1>2. init_timer'.start \in Clock /\ init_timer'.interval \in Nat
    BY DhcpAssumption DEF DhcpAssumption, TypeOK, timer_set
  <1>3. TypeOK'
    BY <1>1, <1>2 DEF TypeOK
  <1>4. RequestIsConsistent' /\ ClockOK' /\ KnownOK'
    BY DEF RequestIsConsistent, ClockOK, KnownOK
  <1>5. PacketsOK'
    BY DEF PacketsOK
  <1> QED
    BY <1>3, <1>4, <1>5

\* The protothread begins.
LEMMA BeginKeeps ==
    ASSUME LeaseInv, Begin
    PROVE  LeaseInv'
  <1>1. SendDiscover(1) /\ UNCHANGED now /\ 1 \in 1 .. 2 * MaxTicks + MaxRequestTicks
    BY Intervals DEF Begin, LeaseInv, TypeOK
  <1>2. TypeOK'
    BY <1>1, DiscoverKeeps DEF Begin, chip, LeaseInv, TypeOK
  <1>3. PacketsOK'
    BY DEF Begin, chip, LeaseInv, PacketsOK
  <1> QED
    BY <1>1, <1>2, <1>3, DiscoverKeeps DEF LeaseInv

\* A packet comes while an offer is waited for.
LEMMA OfferKeeps ==
    ASSUME LeaseInv, Offer
    PROVE  LeaseInv'
  <1>1. /\ rx' \in Seq(ServerPacket) /\ PacketsOK'
        /\ {ipaddr', serverid', options'} \subseteq Servers \cup {NoServer}
        /\ Head(rx).type = "OFFER" => serverid' \in Servers /\ ipaddr' = serverid'
    BY ParseKeeps DEF Offer, LeaseInv
  <1>2. UNCHANGED now /\ 1 \in 1 .. 2 * MaxTicks + MaxRequestTicks
        /\ Doubled \in 1 .. 2 * MaxTicks + MaxRequestTicks
    BY Intervals DEF Offer, LeaseInv, TypeOK
  <1>3. /\ wire' \in [Servers -> ClientPacket] /\ RequestIsConsistent' /\ ClockOK'
        /\ KnownOK' /\ pc' \in {"discover", "request"}
        /\ ticks' \in 1 .. 2 * MaxTicks + MaxRequestTicks
        /\ timer'.start \in Clock /\ timer'.interval \in Nat /\ waited' \in Nat
    <2>1. CASE Head(rx).type = "OFFER"
      BY <1>1, <1>2, <2>1, RequestKeeps DEF Offer
    <2>2. CASE Head(rx).type # "OFFER"
      BY <1>2, <2>2, DiscoverKeeps DEF Offer
    <2> QED
      BY <2>1, <2>2
  <1>4. TypeOK'
    BY <1>1, <1>3 DEF Offer, LeaseInv, TypeOK
  <1> QED
    BY <1>1, <1>3, <1>4 DEF LeaseInv

\* No packet comes in time.
LEMMA NoOfferKeeps ==
    ASSUME LeaseInv, NoOffer
    PROVE  LeaseInv'
  <1>1. SendDiscover(Doubled) /\ UNCHANGED now
        /\ Doubled \in 1 .. 2 * MaxTicks + MaxRequestTicks
    BY Intervals DEF NoOffer, LeaseInv, TypeOK
  <1>2. TypeOK'
    BY <1>1, DiscoverKeeps DEF NoOffer, chip, LeaseInv, TypeOK
  <1>3. PacketsOK'
    BY DEF NoOffer, chip, LeaseInv, PacketsOK
  <1> QED
    BY <1>1, <1>2, <1>3, DiscoverKeeps DEF LeaseInv

\* The acknowledgement that is configured.
LEMMA AckIsGranted ==
    ASSUME LeaseInv, Configure
    PROVE  /\ Head(rx).srv \in Servers /\ lease[Head(rx).srv] = "granted"
           /\ ipaddr' = Head(rx).srv /\ serverid' = Head(rx).srv
           /\ options' \in {Head(rx).srv, options}
  <1>1. Head(rx) \in sent /\ Head(rx).type = "ACK"
    BY QueueRead DEF Configure, LeaseInv
  <1>2. Head(rx).srv \in Servers /\ Head(rx).ip = Head(rx).srv
        /\ lease[Head(rx).srv] = "granted"
    BY <1>1 DEF LeaseInv, PacketsOK
  <1> QED
    BY <1>2 DEF Configure, AddressOf, ServerOf, OptionsOf

LEMMA ConfigureKeeps ==
    ASSUME LeaseInv, Configure
    PROVE  LeaseInv'
  <1>1. TypeOK'
    <2>1. rx' \in Seq(ServerPacket)
      BY DEF Configure
    <2> QED
      BY <2>1, AckIsGranted DEF Configure, net, LeaseInv, TypeOK
  <1>2. RequestIsConsistent' /\ ClockOK' /\ KnownOK'
    BY DEF Configure, net, LeaseInv, RequestIsConsistent, ClockOK, KnownOK
  <1>3. PacketsOK'
    BY DEF Configure, net, LeaseInv, PacketsOK
  <1> QED
    BY <1>1, <1>2, <1>3 DEF LeaseInv

\* Another packet comes while the acknowledgement is waited for.
LEMMA NotAckedKeeps ==
    ASSUME LeaseInv, NotAcked
    PROVE  LeaseInv'
  <1>1. serverid \in Servers /\ ipaddr \in {serverid, NoServer}
    BY DEF NotAcked, LeaseInv, KnownOK
  <1>2. /\ rx' \in Seq(ServerPacket) /\ PacketsOK'
        /\ {ipaddr', serverid', options'} \subseteq Servers \cup {NoServer}
        /\ serverid' \in Servers /\ ipaddr' \in {serverid', NoServer}
    BY <1>1, ParseKeeps DEF NotAcked, LeaseInv
  <1>3. /\ wire' \in [Servers -> ClientPacket] /\ RequestIsConsistent' /\ ClockOK'
        /\ KnownOK' /\ pc' \in {"request", "restart"}
        /\ ticks' \in 1 .. 2 * MaxTicks + MaxRequestTicks
        /\ timer'.start \in Clock /\ timer'.interval \in Nat /\ waited' \in Nat
    BY <1>2, AgainKeeps DEF NotAcked
  <1>4. TypeOK'
    BY <1>2, <1>3 DEF NotAcked, LeaseInv, TypeOK
  <1> QED
    BY <1>2, <1>3, <1>4 DEF LeaseInv

\* No packet comes in time.
LEMMA NoAckKeeps ==
    ASSUME LeaseInv, NoAck
    PROVE  LeaseInv'
  <1>1. serverid' \in Servers /\ ipaddr' \in {serverid', NoServer}
        /\ Again(serverid', ipaddr') /\ UNCHANGED now
    BY DEF NoAck, LeaseInv, KnownOK
  <1>2. /\ wire' \in [Servers -> ClientPacket] /\ RequestIsConsistent' /\ ClockOK'
        /\ KnownOK' /\ pc' \in {"request", "restart"}
        /\ ticks' \in 1 .. 2 * MaxTicks + MaxRequestTicks
        /\ timer'.start \in Clock /\ timer'.interval \in Nat /\ waited' \in Nat
    BY <1>1, AgainKeeps
  <1>3. TypeOK'
    BY <1>2 DEF NoAck, chip, LeaseInv, TypeOK
  <1>4. PacketsOK'
    BY DEF NoAck, chip, LeaseInv, PacketsOK
  <1> QED
    BY <1>2, <1>3, <1>4 DEF LeaseInv

\* dhcpc_init gives up.
LEMMA GiveUpKeeps ==
    ASSUME LeaseInv, GiveUp
    PROVE  LeaseInv'
  BY DEF GiveUp, chip, net, LeaseInv, TypeOK, RequestIsConsistent, ClockOK, PacketsOK, KnownOK

\* Where the clock stands when a second has passed.
LEMMA LaterOn ==
    ASSUME NEW start \in Clock, NEW w \in Nat, w + 1 < ClockMod
    PROVE  Later((start + w) % ClockMod) = (start + w + 1) % ClockMod
  <1>1. ClockMod \in Nat \ {0} /\ start \in 0 .. ClockMod - 1
    BY TimerAssumption DEF TimerAssumption, Clock
  <1>2. CASE start + w < ClockMod
    <2>1. start + w \in 0 .. ClockMod - 1
      BY <1>1, <1>2
    <2>2. (start + w) % ClockMod = start + w
      BY <1>1, <2>1, ComesRound
    <2> QED
      BY <2>2 DEF Later
  <1>3. CASE start + w >= ClockMod
    <2> DEFINE n == start + w - ClockMod
    <2>1. n \in 0 .. ClockMod - 1 /\ n + 1 \in 0 .. ClockMod - 1
          /\ start + w = n + ClockMod /\ start + w + 1 = (n + 1) + ClockMod
      BY <1>1, <1>3
    <2>2. (start + w) % ClockMod = n /\ (n + 1) % ClockMod = n + 1
      BY <1>1, <2>1, ComesRound
    <2>3. (start + w + 1) % ClockMod = n + 1
      BY <1>1, <2>1, ComesRound
    <2> QED
      BY <2>2, <2>3 DEF Later
  <1> QED
    BY <1>1, <1>2, <1>3

\* What timer_expired tells the client.
LEMMA ExpiredNow ==
    ASSUME LeaseInv, pc \in {"discover", "request"}
    PROVE  timer_expired(timer, now) <=> waited >= timer.interval
  <1>1. waited \in Nat /\ timer.start \in Clock /\ timer.interval \in Nat
    BY DEF LeaseInv, TypeOK
  <1>2. waited <= timer.interval /\ timer.interval \in 1 .. 2 * MaxTicks + MaxRequestTicks
        /\ now = (timer.start + waited) % ClockMod
    BY DEF LeaseInv, ClockOK
  <1>3. waited < Half
    BY <1>1, <1>2, TimerAssumption, DhcpAssumption DEF TimerAssumption, DhcpAssumption, Half
  <1> QED
    BY <1>1, <1>2, <1>3, ExpiredExactly

\* A second passes: a timer that runs has not expired yet.
LEMMA TickKeeps ==
    ASSUME LeaseInv, Tick
    PROVE  LeaseInv'
  <1>1. /\ ClockMod \in Nat \ {0} /\ now \in Nat
        /\ timer.start \in Clock /\ waited \in Nat /\ timer.interval \in Nat
    BY TimerAssumption DEF TimerAssumption, LeaseInv, TypeOK, Clock
  <1>2. now' = Later(now) /\ now' \in Clock /\ waited' = waited + 1 /\ UNCHANGED <<pc, timer>>
    BY <1>1 DEF Tick, Later, Clock
  <1>3. TypeOK'
    BY <1>1, <1>2 DEF Tick, chip, net, LeaseInv, TypeOK
  <1>4. ClockOK'
    <2>1. SUFFICES ASSUME pc \in {"discover", "request"} PROVE ClockOK'
      BY <1>2 DEF ClockOK
    <2>2. now = (timer.start + waited) % ClockMod
          /\ timer.interval \in 1 .. 2 * MaxTicks + MaxRequestTicks
      BY <2>1 DEF LeaseInv, ClockOK
    <2>3. waited < timer.interval
      BY <1>1, <2>1, ExpiredNow DEF Tick
    <2>4. waited + 1 < ClockMod
      BY <1>1, <2>2, <2>3, DhcpAssumption DEF DhcpAssumption, Half
    <2>5. now' = (timer.start + waited + 1) % ClockMod
      BY <1>1, <1>2, <2>2, <2>4, LaterOn
    <2>6. timer'.start + waited' = timer.start + waited + 1 /\ timer.start \in Nat
      BY <1>1, <1>2 DEF Clock
    <2>7. waited' <= timer'.interval
      BY <1>1, <1>2, <2>3
    <2> QED
      BY <1>2, <2>2, <2>5, <2>6, <2>7 DEF ClockOK
  <1>5. RequestIsConsistent' /\ KnownOK' /\ PacketsOK'
    BY DEF Tick, chip, net, LeaseInv, RequestIsConsistent, KnownOK, PacketsOK
  <1> QED
    BY <1>3, <1>4, <1>5 DEF LeaseInv

\* A server answers.  Only an acknowledgement grants, and no lease is taken back.
LEMMA AnswerKeeps ==
    ASSUME LeaseInv, NEW s \in Servers, NEW type \in {"OFFER", "ACK", "NAK"}, NEW opts \in BOOLEAN,
           NEW state \in {"free", "offered", "granted"}, Answer(s, type, opts, state),
           type = "ACK" \/ lease[s] = "granted" => state = "granted"
    PROVE  LeaseInv'
  <1> DEFINE r == Reply(type, s, opts)
  <1>1. r \in ServerPacket /\ r.type = type /\ r.srv = s /\ (type = "ACK" => r.ip = s)
    BY DEF ServerPacket, Reply
  <1>2. sent' = sent \cup {r} /\ lease' = [lease EXCEPT ![s] = state]
        /\ wire' = [wire EXCEPT ![s] = Nothing]
        /\ UNCHANGED <<client, now, chip>>
    BY DEF Answer
  <1> HIDE DEF r
  <1>3. TypeOK'
    <2>1. wire' \in [Servers -> ClientPacket]
      BY <1>2 DEF LeaseInv, TypeOK, ClientPacket
    <2>2. lease' \in [Servers -> {"free", "offered", "granted"}] /\ sent' \subseteq ServerPacket
      BY <1>1, <1>2 DEF LeaseInv, TypeOK
    <2> QED
      BY <1>2, <2>1, <2>2 DEF client, chip, LeaseInv, TypeOK
  <1>4. RequestIsConsistent'
    BY <1>2 DEF LeaseInv, RequestIsConsistent, TypeOK, Nothing
  <1>5. ClockOK' /\ KnownOK'
    BY <1>2 DEF client, LeaseInv, ClockOK, KnownOK
  <1>6. PacketsOK'
    BY <1>1, <1>2 DEF client, chip, LeaseInv, TypeOK, PacketsOK
  <1> QED
    BY <1>3, <1>4, <1>5, <1>6 DEF LeaseInv

LEMMA ServerKeeps ==
    ASSUME LeaseInv, NEW s \in Servers,
           MakeOffer(s) \/ Acknowledge(s) \/ Refuse(s)
    PROVE  LeaseInv'
  <1>0. lease[s] \in {"free", "offered", "granted"}
    BY DEF LeaseInv, TypeOK
  <1>1. CASE MakeOffer(s)
    BY <1>0, <1>1, AnswerKeeps DEF MakeOffer
  <1>2. CASE Acknowledge(s)
    <2>1. PICK opts \in AckOptions : Answer(s, "ACK", opts, "granted")
      BY <1>2 DEF Acknowledge
    <2>2. opts \in BOOLEAN
      BY DhcpAssumption DEF DhcpAssumption
    <2> QED
      BY <2>1, <2>2, AnswerKeeps
  <1>3. CASE Refuse(s)
    BY <1>0, <1>3, AnswerKeeps DEF Refuse
  <1> QED
    BY <1>1, <1>2, <1>3

\* A server takes its offer back.
LEMMA WithdrawKeeps ==
    ASSUME LeaseInv, NEW s \in Servers, Withdraw(s)
    PROVE  LeaseInv'
  <1>1. wire' = [wire EXCEPT ![s] = Nothing]
        /\ lease' = [lease EXCEPT ![s] = IF lease[s] = "offered" THEN "free" ELSE lease[s]]
        /\ UNCHANGED <<client, now, chip, sent>>
    BY DEF Withdraw
  <1>2. TypeOK'
    <2>1. wire' \in [Servers -> ClientPacket]
      <3>1. Nothing \in ClientPacket
        BY DEF ClientPacket
      <3> QED
        BY <1>1, <3>1 DEF LeaseInv, TypeOK
    <2> QED
      BY <1>1, <2>1 DEF client, chip, LeaseInv, TypeOK
  <1>3. RequestIsConsistent'
    BY <1>1 DEF LeaseInv, RequestIsConsistent, TypeOK, Nothing
  <1>4. ClockOK' /\ KnownOK'
    BY <1>1 DEF client, LeaseInv, ClockOK, KnownOK
  <1>5. PacketsOK'
    BY <1>1 DEF client, chip, LeaseInv, TypeOK, PacketsOK
  <1> QED
    BY <1>2, <1>3, <1>4, <1>5 DEF LeaseInv

\* A packet arrives.
LEMMA DeliverKeeps ==
    ASSUME LeaseInv, NEW m \in sent, Deliver(m)
    PROVE  LeaseInv'
  <1>1. rx \in Seq(ServerPacket) /\ m \in ServerPacket /\ rx' = Append(rx, m)
        /\ UNCHANGED <<client, now, open, sipr, gar, net>>
    BY DEF Deliver, LeaseInv, TypeOK
  <1>2. rx' \in Seq(ServerPacket) /\ Len(rx') = Len(rx) + 1 /\ Len(rx) \in Nat
        /\ \A n \in 1 .. Len(rx') : rx'[n] = IF n <= Len(rx) THEN rx[n] ELSE m
    BY <1>1
  <1>3. TypeOK'
    BY <1>1, <1>2 DEF client, net, LeaseInv, TypeOK
  <1>4. RequestIsConsistent' /\ ClockOK' /\ KnownOK'
    BY <1>1 DEF client, net, LeaseInv, RequestIsConsistent, ClockOK, KnownOK
  <1>5. PacketsOK'
    BY <1>1, <1>2 DEF net, LeaseInv, PacketsOK
  <1> QED
    BY <1>3, <1>4, <1>5 DEF LeaseInv

LEMMA LeaseInvIsInductive ==
    ASSUME LeaseInv, [Next]_vars
    PROVE  LeaseInv'
  <1>1. CASE dhcpc_init
    BY <1>1, dhcpc_initKeeps
  <1>2. CASE Client
    BY <1>2, BeginKeeps, OfferKeeps, NoOfferKeeps, ConfigureKeeps, NotAckedKeeps, NoAckKeeps,
       GiveUpKeeps DEF Client
  <1>3. CASE Tick
    BY <1>3, TickKeeps
  <1>4. CASE Network
    BY <1>4, ServerKeeps, WithdrawKeeps, DeliverKeeps DEF Network
  <1>5. CASE UNCHANGED vars
    BY <1>5 DEF vars, client, chip, net, LeaseInv, TypeOK, RequestIsConsistent, ClockOK,
       PacketsOK, KnownOK
  <1> QED
    BY <1>1, <1>2, <1>3, <1>4, <1>5 DEF Next

-----------------------------------------------------------------------------
(* The patience of dhcpc_init *)

\* The timer of dhcpc_init has expired when Patience seconds have gone.
LEMMA PatienceEnds ==
    ASSUME Gone <= Patience, init_timer.interval = Patience, now \in Clock,
           init_timer.start \in Clock
    PROVE  Gone \in Nat /\ (timer_expired(init_timer, now) <=> Gone = Patience)
  <1>1. /\ ClockMod \in Nat \ {0} /\ Patience \in Nat /\ Patience < Half
        /\ now \in Int /\ init_timer.start \in Int
    BY TimerAssumption, DhcpAssumption DEF TimerAssumption, DhcpAssumption, Clock
  <1> DEFINE d == now - init_timer.start
  <1>2. d % ClockMod \in Nat
    BY <1>1
  <1>3. timer_expired(init_timer, now) <=> AsLong(d) >= Patience
    BY DEF timer_expired
  <1>4. Gone = d % ClockMod
    BY DEF Gone
  <1> HIDE DEF d
  <1>5. AsLong(d) = Gone
    BY <1>1, <1>2, <1>4 DEF AsLong, Half
  <1> QED
    BY <1>1, <1>2, <1>3, <1>4, <1>5

\* One more second has gone.
LEMMA OneMoreSecond ==
    ASSUME NEW n \in Clock, NEW start \in Clock
    PROVE  (n - start) % ClockMod < Half - 1 =>
               (Later(n) - start) % ClockMod = ((n - start) % ClockMod) + 1
  <1> DEFINE M == ClockMod
  <1>1. M \in Nat \ {0} /\ M > 1 /\ n \in 0 .. M - 1 /\ start \in 0 .. M - 1
    BY TimerAssumption DEF TimerAssumption, Clock
  <1>2. Half \in Nat /\ Half <= M
    BY <1>1 DEF Half
  <1>3. CASE n >= start
    <2>1. n - start \in 0 .. M - 1
      BY <1>1, <1>3
    <2>2. (n - start) % M = n - start
      BY <1>1, <2>1, ComesRound
    <2>3. CASE n + 1 < M
      <3>1. n + 1 \in 0 .. M - 1 /\ n + 1 - start \in 0 .. M - 1
        BY <1>1, <1>3, <2>3
      <3>2. Later(n) = n + 1 /\ (n + 1 - start) % M = n + 1 - start
        BY <1>1, <3>1, ComesRound DEF Later
      <3> QED
        BY <1>1, <2>2, <3>2
    <2>4. CASE n + 1 = M
      <3>1. Later(n) = 0
        BY <1>1, <2>4 DEF Later
      <3>2. CASE start = 0
        BY <1>1, <1>2, <2>2, <2>4, <3>2
      <3>3. CASE start # 0
        <4>1. M - start \in 0 .. M - 1 /\ 0 - start = (M - start) - M
          BY <1>1, <3>3
        <4>2. (0 - start) % M = M - start
          BY <1>1, <4>1, ComesRound
        <4> QED
          BY <1>1, <2>2, <2>4, <3>1, <4>2
      <3> QED
        BY <3>2, <3>3
    <2> QED
      BY <1>1, <2>3, <2>4
  <1>4. CASE n < start
    <2>1. n - start + M \in 0 .. M - 1 /\ n - start = (n - start + M) - M
      BY <1>1, <1>4
    <2>2. (n - start) % M = n - start + M
      BY <1>1, <2>1, ComesRound
    <2>3. Later(n) = n + 1
      <3>1. n + 1 \in 0 .. M - 1
        BY <1>1, <1>4
      <3> QED
        BY <1>1, <3>1, ComesRound DEF Later
    <2>4. CASE n + 1 = start
      BY <1>1, <1>2, <2>2, <2>4
    <2>5. CASE n + 1 < start
      <3>1. n + 1 - start + M \in 0 .. M - 1 /\ n + 1 - start = (n + 1 - start + M) - M
        BY <1>1, <2>5
      <3>2. (n + 1 - start) % M = n + 1 - start + M
        BY <1>1, <3>1, ComesRound
      <3> QED
        BY <1>1, <2>2, <2>3, <3>2
    <2> QED
      BY <1>1, <1>4, <2>4, <2>5
  <1> QED
    BY <1>1, <1>3, <1>4

\* A step of the client, or of the network: no second passes.
LEMMA NoSecondPasses ==
    ASSUME LeaseInv, PatienceOK, UNCHANGED <<now, init_timer>>,
           pc' \in {"restart", "discover", "request"} =>
               pc \in {"restart", "discover", "request"},
           pc' \in {"discover", "request"} =>
               waited' = 0 \/ (waited' = waited /\ pc # "restart")
    PROVE  PatienceOK'
  <1>1. now \in Int /\ init_timer.start \in Int /\ ClockMod \in Nat \ {0}
    BY TimerAssumption DEF TimerAssumption, LeaseInv, TypeOK, Clock
  <1>2. Gone \in Nat /\ Gone' = Gone
    BY <1>1 DEF Gone
  <1> QED
    BY <1>2 DEF PatienceOK

\* The time-out of dhcpc_init, step by step.
LEMMA PatienceKeeps ==
    ASSUME LeaseInv, PatienceOK, [Next]_vars
    PROVE  PatienceOK'
  <1>0. now \in Clock /\ init_timer.start \in Clock
    BY DEF LeaseInv, TypeOK
  <1>1. CASE dhcpc_init
    <2>1. init_timer' = timer_set(Patience, now) /\ now' = now /\ pc' = "restart"
      BY <1>1 DEF dhcpc_init
    <2>2. ClockMod \in Nat \ {0} /\ now \in Int /\ Patience \in Nat
      BY <1>0, TimerAssumption, DhcpAssumption DEF TimerAssumption, DhcpAssumption, Clock
    <2>3. (now - now) % ClockMod = 0
      BY <2>2
    <2>4. Gone' = 0 /\ init_timer'.interval = Patience
      BY <2>1, <2>3 DEF Gone, timer_set
    <2> QED
      BY <2>1, <2>2, <2>4 DEF PatienceOK
  <1>2. CASE Client
    BY <1>2, NoSecondPasses DEF Client, Begin, Offer, NoOffer, Configure, NotAcked, NoAck, GiveUp,
       SendDiscover, SendRequest, SetTimer, Again, Polling
  <1>3. CASE Tick
    <2>1. /\ pc \in {"restart", "discover", "request"} /\ ~timer_expired(init_timer, now)
          /\ now' = Later(now) /\ waited' = waited + 1 /\ UNCHANGED <<pc, init_timer>>
      BY <1>3 DEF Tick, Polling
    <2>2. Gone <= Patience /\ init_timer.interval = Patience
          /\ (pc # "restart" => waited <= Gone)
      BY <2>1 DEF PatienceOK
    <2>3. Gone \in Nat /\ Gone < Patience /\ Patience \in Nat /\ Patience < Half
          /\ Half \in Nat /\ waited \in Nat
      BY <1>0, <2>1, <2>2, PatienceEnds, DhcpAssumption, TimerAssumption
         DEF DhcpAssumption, TimerAssumption, Half, LeaseInv, TypeOK
    <2>4. Gone' = Gone + 1
      BY <1>0, <2>1, <2>3, OneMoreSecond DEF Gone
    <2> QED
      BY <2>1, <2>2, <2>3, <2>4 DEF PatienceOK
  <1>4. CASE Network
    BY <1>4, NoSecondPasses DEF Network, MakeOffer, Acknowledge, Refuse, Withdraw, Deliver,
       Answer, client
  <1>5. CASE UNCHANGED vars
    BY <1>5, NoSecondPasses DEF vars, client
  <1> QED
    BY <1>1, <1>2, <1>3, <1>4, <1>5 DEF Next

-----------------------------------------------------------------------------
(* Theorems *)

\* The inductive invariant of the client, its timer, the servers and the network.
THEOREM DhcpInvariant == Spec => []IInv
  <1>1. Init => PatienceOK
    BY DEF Init, PatienceOK
  <1>2. LeaseInv /\ PatienceOK /\ [Next]_vars => LeaseInv' /\ PatienceOK'
    BY LeaseInvIsInductive, PatienceKeeps
  <1> QED
    BY <1>1, <1>2, InitLeaseInv, PTL DEF Spec, IInv

\* send_request: whatever parse_msg has overwritten, a request names a server and
\* an address of that server, or none.
THEOREM RequestsAgree == Spec => []RequestIsConsistent
  <1>1. IInv => RequestIsConsistent
    BY DEF IInv, LeaseInv
  <1> QED
    BY <1>1, DhcpInvariant, PTL

\* timer_expired is right through the whole range of the clock.
THEOREM TimersAreExact == Spec => []TimerIsExact
  <1>1. IInv => TimerIsExact
    BY ExpiredNow DEF TimerIsExact, IInv
  <1> QED
    BY <1>1, DhcpInvariant, PTL

\* dhcpc_init comes back within Patience seconds, whatever the servers and the
\* network do and wherever the clock comes round: as long as it runs, no more have
\* gone since it began.
THEOREM PatienceIsKept == Spec => []PatienceOK
  <1>1. IInv => PatienceOK
    BY DEF IInv
  <1> QED
    BY <1>1, DhcpInvariant, PTL

\* A grant by a server leaves the others as they are.
LEMMA GrantedBy ==
    ASSUME LeaseInv, NEW s \in Servers, NEW state \in {"free", "offered", "granted"},
           lease' = [lease EXCEPT ![s] = state]
    PROVE  Granted' = IF state = "granted" THEN Granted \cup {s} ELSE Granted \ {s}
  BY DEF Granted, LeaseInv, TypeOK

LEMMA StepImplementsLease ==
    ASSUME LeaseInv, [Next]_vars
    PROVE  [Lease!Next]_<<Granted, sipr>>
  <1> USE DEF Lease!Next, Lease!Drop, Lease!Grant, Lease!Take
  <1>1. CASE dhcpc_init
    BY <1>1 DEF dhcpc_init, net, Granted
  <1>2. CASE Configure
    <2>1. Head(rx).srv \in Granted /\ Head(rx).srv \in Servers /\ sipr' = Head(rx).srv
      BY <1>2, AckIsGranted DEF Granted, Configure
    <2>2. UNCHANGED Granted
      BY <1>2 DEF Configure, net, Granted
    <2> QED
      BY <2>1, <2>2
  <1>3. CASE Begin \/ Offer \/ NoOffer \/ NotAcked \/ NoAck \/ GiveUp \/ Tick
    BY <1>3 DEF Begin, Offer, NoOffer, NotAcked, NoAck, GiveUp, Tick, chip, net, Granted
  <1>4. ASSUME NEW s \in Servers, MakeOffer(s) \/ Acknowledge(s) \/ Refuse(s) \/ Withdraw(s)
        PROVE  [Lease!Next]_<<Granted, sipr>>
    <2>1. UNCHANGED sipr /\ lease[s] \in {"free", "offered", "granted"}
      BY <1>4 DEF MakeOffer, Acknowledge, Refuse, Withdraw, Answer, chip, LeaseInv, TypeOK
    <2>2. CASE Acknowledge(s)
      <3>1. Granted' = Granted \cup {s}
        BY <2>2, GrantedBy DEF Acknowledge, Answer
      <3> QED
        BY <2>1, <3>1
    <2>3. CASE MakeOffer(s) \/ Refuse(s) \/ Withdraw(s)
      <3>1. PICK state \in {"free", "offered", "granted"} :
              lease' = [lease EXCEPT ![s] = state]
              /\ (state = "granted" <=> lease[s] = "granted")
        BY <2>1, <2>3 DEF MakeOffer, Refuse, Withdraw, Answer
      <3>2. UNCHANGED Granted
        BY <3>1, GrantedBy DEF Granted
      <3> QED
        BY <2>1, <3>2
    <2> QED
      BY <1>4, <2>2, <2>3
  <1>5. ASSUME NEW m \in sent, Deliver(m)
        PROVE  UNCHANGED <<Granted, sipr>>
    BY <1>5 DEF Deliver, net, Granted
  <1>6. CASE UNCHANGED vars
    BY <1>6 DEF vars, chip, net, Granted
  <1> QED
    BY <1>1, <1>2, <1>3, <1>4, <1>5, <1>6 DEF Next, Client, Network

\* handle_dhcp and dhcpc_init implement AddressLease: the address in SIPR was
\* acknowledged by the server it belongs to.
THEOREM LeaseImplemented == Spec => ImplementsLease
  <1>1. Init => Lease!Init
    BY DEF Init, Lease!Init, Granted
  <1> QED
    BY <1>1, DhcpInvariant, StepImplementsLease, PTL DEF Spec, IInv, ImplementsLease, Lease!Spec
=============================================================================

-------------------------------- MODULE Dhcp --------------------------------
(***************************************************************************)
(* The DHCP client (dhcpc.c: dhcpc_init, handle_dhcp, parse_msg) against     *)
(* servers and a network that loses, repeats, delays and reorders.          *)
(*                                                                          *)
(* handle_dhcp is a protothread that blocks in two places, "discover" and    *)
(* "request"; an action is what it does from one to the next.  dhcpc_init    *)
(* calls it again and again until it ends or a timer of its own expires.     *)
(***************************************************************************)
EXTENDS Timer, Sequences

CONSTANTS
    Servers,
    NoServer,       \* a value that is no server: 0.0.0.0
    Patience,       \* seconds dhcpc_init waits in all (20)
    MaxTicks,       \* up to here the discover interval doubles (60)
    MaxRequestTicks,\* up to here the request interval grows (10)
    AckOptions,     \* TRUE in it: an ACK may carry the netmask, router and DNS
                    \* options; FALSE in it: it may carry none
    MaxQueue,       \* bound on the packets waiting in the socket
    MaxRuns,        \* bound on the calls of dhcpc_init
    BootTimes       \* clock values at the start

ASSUME DhcpAssumption ==
    /\ NoServer \notin Servers
    /\ Patience \in Nat \ {0} /\ MaxTicks \in Nat \ {0} /\ MaxRequestTicks \in Nat \ {0}
    /\ 2 * MaxTicks + MaxRequestTicks < Half       \* an interval is a long
    /\ Patience < Half
    /\ AckOptions \subseteq BOOLEAN
    /\ MaxQueue \in Nat /\ MaxRuns \in Nat /\ BootTimes \subseteq Clock

VARIABLES
    pc,             \* "idle", "restart" (before PT_BEGIN), "discover",
                    \* "request", "done" or "timeout"
    ticks,
    ipaddr, serverid,   \* an address is named by the server that owns it
    options,            \* whose netmask, router and DNS server are stored
    now, init_timer, timer,
    open, rx,           \* socket 0, and the packets waiting in it
    sipr, gar,          \* the chip's address, and its gateway and netmask
    wire,               \* for each server the client's last packet it has not seen
    lease,              \* for each server "free", "offered" or "granted"
    sent,               \* all packets of the servers and of strangers
    runs, waited        \* calls made; history: seconds since timer was set

client == <<pc, ticks, ipaddr, serverid, options, init_timer, timer, waited, runs>>
chip == <<open, rx, sipr, gar>>
net == <<wire, lease, sent>>
vars == <<client, now, chip, net>>

Discover == [type |-> "DISCOVER", srv |-> NoServer, ip |-> NoServer]
Request(srv, ip) == [type |-> "REQUEST", srv |-> srv, ip |-> ip]
Nothing == [type |-> "none", srv |-> NoServer, ip |-> NoServer]
ClientPacket ==
    {Discover, Nothing} \cup {Request(s, a) : s \in Servers \cup {NoServer},
                                              a \in Servers \cup {NoServer}}

\* A server's packet.  The offered address is its own, a NAK's is 0.0.0.0.
Reply(type, srv, opts) ==
    [type |-> type, srv |-> srv, ip |-> IF type = "NAK" THEN NoServer ELSE srv, opts |-> opts]

\* A packet that is no answer to this client: another client's, or not DHCP.
Foreign == [type |-> "foreign", srv |-> NoServer, ip |-> NoServer, opts |-> FALSE]

ServerPacket ==
    {Foreign} \cup {Reply(t, s, o) : t \in {"OFFER", "ACK", "NAK"}, s \in Servers, o \in BOOLEAN}

Init ==
    /\ pc = "idle" /\ ticks = 1
    /\ ipaddr = NoServer /\ serverid = NoServer /\ options = NoServer
    /\ now \in BootTimes
    /\ init_timer = timer_set(Patience, now) /\ timer = timer_set(1, now)
    /\ open = FALSE /\ rx = <<>> /\ sipr = NoServer /\ gar = NoServer
    /\ wire = [s \in Servers |-> Nothing] /\ lease = [s \in Servers |-> "free"]
    /\ sent = {Foreign}
    /\ runs = 0 /\ waited = 0

-----------------------------------------------------------------------------
(* The client *)

\* A broadcast takes the place of the one before; a server that never acts on
\* it has not heard it.  sendto's wait for the chip is taken to end at once: to
\* have a card and socket 0 to oneself is assumed here, and what becomes of the
\* wait without them is DriverStart's subject.
Broadcast(msg) == wire' = [s \in Servers |-> msg]

SetTimer(interval) == timer' = timer_set(interval, now) /\ waited' = 0

SendDiscover(interval) ==
    /\ Broadcast(Discover)
    /\ ticks' = interval /\ SetTimer(interval) /\ pc' = "discover"

SendRequest(interval, srv, ip) ==
    /\ Broadcast(Request(srv, ip))
    /\ ticks' = interval /\ SetTimer(interval) /\ pc' = "request"

\* dhcpc_init up to its loop.  What was learnt in an earlier run stays.
dhcpc_init ==
    /\ pc \in {"idle", "done", "timeout"} /\ runs < MaxRuns
    /\ runs' = runs + 1
    /\ sipr' = NoServer /\ open' = TRUE /\ rx' = <<>>
    /\ init_timer' = timer_set(Patience, now)
    /\ pc' = "restart"
    /\ UNCHANGED <<ticks, ipaddr, serverid, options, timer, waited, now, gar, net>>

\* The loop of dhcpc_init calls handle_dhcp.
Polling == pc \in {"restart", "discover", "request"} /\ ~timer_expired(init_timer, now)

\* PT_BEGIN.
Begin ==
    /\ Polling /\ pc = "restart"
    /\ SendDiscover(1)
    /\ UNCHANGED <<ipaddr, serverid, options, init_timer, runs, now, chip, lease, sent>>

ServerOf(m) == m.srv

\* Mutant: the address is only noted from an offer.
MutAddressOf(m) == IF m.type = "OFFER" THEN m.ip ELSE ipaddr

AddressOf(m) == m.ip

OptionsOf(m) == IF m.opts THEN m.srv ELSE options

\* parse_msg and parse_options on the first packet waiting: a reply to this
\* client, of whatever type, overwrites what was known.
Parse(m) ==
    /\ rx' = Tail(rx)
    /\ IF m = Foreign
       THEN UNCHANGED <<ipaddr, serverid, options>>
       ELSE /\ ipaddr' = AddressOf(m)
            /\ serverid' = ServerOf(m)
            /\ options' = OptionsOf(m)

\* Nothing came in time.
Expired == rx = <<>> /\ timer_expired(timer, now)

\* Mutant: the interval is doubled without end.
MutDoubled == 2 * ticks

Doubled == IF ticks < MaxTicks THEN 2 * ticks ELSE ticks

\* A packet that is no offer, and no packet in time, come to the same.
Offer ==
    /\ Polling /\ pc = "discover" /\ rx # <<>>
    /\ Parse(Head(rx))
    /\ IF Head(rx).type = "OFFER"
       THEN SendRequest(1, serverid', ipaddr')
       ELSE SendDiscover(Doubled)
    /\ UNCHANGED <<init_timer, runs, now, open, sipr, gar, lease, sent>>

NoOffer ==
    /\ Polling /\ pc = "discover" /\ Expired
    /\ SendDiscover(Doubled)
    /\ UNCHANGED <<ipaddr, serverid, options, init_timer, runs, now, chip, lease, sent>>

\* The request is made once more, for what is known by now, or the protothread
\* begins anew.
Again(srv, ip) ==
    IF ticks <= MaxRequestTicks
    THEN SendRequest(ticks + 1, srv, ip)
    ELSE pc' = "restart" /\ UNCHANGED <<ticks, timer, waited, wire>>

\* An acknowledgement: the chip is configured, the socket closed and drained.
Configure ==
    /\ Polling /\ pc = "request" /\ rx # <<>> /\ Head(rx).type = "ACK"
    /\ LET m == Head(rx) IN
        /\ ipaddr' = AddressOf(m) /\ serverid' = ServerOf(m)
        /\ options' = OptionsOf(m)
    /\ sipr' = ipaddr' /\ gar' = options'
    /\ open' = FALSE /\ rx' = <<>>
    /\ pc' = "done"
    /\ UNCHANGED <<ticks, init_timer, timer, waited, runs, now, net>>

NotAcked ==
    /\ Polling /\ pc = "request" /\ rx # <<>> /\ Head(rx).type # "ACK"
    /\ Parse(Head(rx))
    /\ Again(serverid', ipaddr')
    /\ UNCHANGED <<init_timer, runs, now, open, sipr, gar, lease, sent>>

NoAck ==
    /\ Polling /\ pc = "request" /\ Expired
    /\ Again(serverid, ipaddr)
    /\ UNCHANGED <<ipaddr, serverid, options, init_timer, runs, now, chip, lease, sent>>

\* dhcpc_init gives up; the socket stays open.
GiveUp ==
    /\ pc \in {"restart", "discover", "request"} /\ timer_expired(init_timer, now)
    /\ pc' = "timeout"
    /\ UNCHANGED <<ticks, ipaddr, serverid, options, init_timer, timer, waited, runs,
                   now, chip, net>>

Client == Begin \/ Offer \/ NoOffer \/ Configure \/ NotAcked \/ NoAck \/ GiveUp

-----------------------------------------------------------------------------
(* The clock, the servers and the network *)

\* The loop of dhcpc_init comes round many times in a second: a timer that
\* expires is seen before the next second.
Tick ==
    /\ Polling
    /\ pc # "restart" => ~timer_expired(timer, now)
    /\ now' = Later(now) /\ waited' = waited + 1
    /\ UNCHANGED <<pc, ticks, ipaddr, serverid, options, init_timer, timer, runs, chip, net>>

Answer(s, type, opts, state) ==
    /\ sent' = sent \cup {Reply(type, s, opts)}
    /\ lease' = [lease EXCEPT ![s] = state]
    /\ wire' = [wire EXCEPT ![s] = Nothing]
    /\ UNCHANGED <<client, now, chip>>

MakeOffer(s) ==
    /\ wire[s] = Discover
    /\ Answer(s, "OFFER", TRUE, IF lease[s] = "granted" THEN "granted" ELSE "offered")

Acknowledge(s) == \E opts \in AckOptions :
    /\ wire[s] = Request(s, s) /\ lease[s] # "free"
    /\ Answer(s, "ACK", opts, "granted")

Refuse(s) ==
    /\ wire[s].type = "REQUEST" /\ wire[s].srv = s
    /\ Answer(s, "NAK", FALSE, lease[s])

\* Another server was chosen.
Withdraw(s) ==
    /\ wire[s].type = "REQUEST" /\ wire[s].srv # s
    /\ wire' = [wire EXCEPT ![s] = Nothing]
    /\ lease' = [lease EXCEPT ![s] = IF @ = "offered" THEN "free" ELSE @]
    /\ UNCHANGED <<client, now, chip, sent>>

Deliver(m) ==
    /\ open /\ Len(rx) < MaxQueue
    /\ rx' = Append(rx, m)
    /\ UNCHANGED <<client, now, open, sipr, gar, net>>

Network ==
    \/ \E s \in Servers : MakeOffer(s) \/ Acknowledge(s) \/ Refuse(s) \/ Withdraw(s)
    \/ \E m \in sent : Deliver(m)

Next == dhcpc_init \/ Client \/ Tick \/ Network

Spec == Init /\ [][Next]_vars

(* The loop of dhcpc_init runs and time passes; servers and network owe     *)
(* nothing.                                                                 *)
FairSpec == Spec /\ WF_vars(Client) /\ WF_vars(Tick)

-----------------------------------------------------------------------------
(* Properties *)

\* The type invariant.
TypeOK ==
    /\ pc \in {"idle", "restart", "discover", "request", "done", "timeout"}
    /\ ticks \in 1 .. 2 * MaxTicks + MaxRequestTicks
    /\ {ipaddr, serverid, options, sipr, gar} \subseteq Servers \cup {NoServer}
    /\ now \in Clock /\ {init_timer.start, timer.start} \subseteq Clock
    /\ {init_timer.interval, timer.interval} \subseteq Nat
    /\ open \in BOOLEAN /\ rx \in Seq(ServerPacket)
    /\ wire \in [Servers -> ClientPacket]
    /\ lease \in [Servers -> {"free", "offered", "granted"}]
    /\ sent \subseteq ServerPacket /\ runs \in 0 .. MaxRuns /\ waited \in Nat

\* A request names a server together with an address of that server or with
\* 0.0.0.0, though both may change while the last request is out.
RequestIsConsistent ==
    \A s \in Servers : wire[s].type = "REQUEST" =>
        wire[s].srv \in Servers /\ wire[s].ip \in {wire[s].srv, NoServer}

\* A timer has expired exactly when its seconds have passed, also if the clock
\* came round meanwhile.
TimerIsExact ==
    pc \in {"discover", "request"} => (timer_expired(timer, now) <=> waited >= timer.interval)

Granted == {s \in Servers : lease[s] = "granted"}

Lease == INSTANCE AddressLease WITH
    Addresses <- Servers, NoAddress <- NoServer, granted <- Granted, address <- sipr

\* The client implements AddressLease: whatever late offers, refusals and old
\* acknowledgements it meets, the address it configures was granted.
ImplementsLease == Lease!Spec

\* dhcpc_init comes back, whatever arrives.
InitReturns == pc = "restart" ~> pc \in {"done", "timeout"}

-----------------------------------------------------------------------------
(* The inductive invariant (proved in DhcpProofs) *)

\* While a timer of the client runs, the clock is as far from its start as
\* seconds have passed, and the timer is seen in the second in which it expires.
ClockOK ==
    pc \in {"discover", "request"} =>
        /\ now = (timer.start + waited) % ClockMod
        /\ waited <= timer.interval
        /\ timer.interval \in 1 .. 2 * MaxTicks + MaxRequestTicks

\* What waits in the socket was sent, and an acknowledgement is one of a lease.
PacketsOK ==
    /\ \A n \in 1 .. Len(rx) : rx[n] \in sent
    /\ \A m \in sent : m.type = "ACK" =>
          m.srv \in Servers /\ m.ip = m.srv /\ lease[m.srv] = "granted"

\* A request is made for what one packet told.
KnownOK == pc = "request" => serverid \in Servers /\ ipaddr \in {serverid, NoServer}

LeaseInv == TypeOK /\ RequestIsConsistent /\ ClockOK /\ PacketsOK /\ KnownOK

\* Seconds since dhcpc_init began, if it began within the range of the clock.
Gone == (now - init_timer.start) % ClockMod

\* dhcpc_init runs for no more than Patience seconds, however often handle_dhcp
\* begins anew and sets its own timer, and whether or not the clock comes round.
PatienceOK ==
    pc \in {"restart", "discover", "request"} =>
        /\ init_timer.interval = Patience
        /\ Gone <= Patience
        /\ pc # "restart" => waited <= Gone

IInv == LeaseInv /\ PatienceOK
=============================================================================

------------------------------ MODULE Resolver ------------------------------
(***************************************************************************)
(* The two look-ups of resolv.c: ngethostbyname with its cache, and          *)
(* gethostbyname_impl, which makes a hostent.  Both send a query from port   *)
(* 4224 with the id 42 and read the socket at once, so that a reply may come *)
(* too late, and then be taken for the reply to the next query.             *)
(***************************************************************************)
EXTENDS ResolverCache, DnsReply

CONSTANTS
    Replies,        \* what the DNS may answer (see Encode), numbered
    CharSigned,     \* TRUE in it: char may be signed; FALSE: unsigned
    MaxCalls        \* bound on the look-ups

ASSUME ResolverAssumption ==
    /\ \A k \in DOMAIN Replies :
          /\ Replies[k].chain \in Seq(Seq(Seq(Nat))) \ {<<>>} /\ Replies[k].chain[1] \in Hosts
          /\ Replies[k].addresses \in Seq(Seq(Nat))
    /\ CharSigned \subseteq BOOLEAN /\ MaxCalls \in Nat
    /\ NoAddress \notin Addresses       \* store_in_cache: nothing for 0

VARIABLES
    signed,         \* the compiler's choice
    pc, caller,     \* "idle" or "asked"; who asked
    host,           \* the name asked for
    wire, rx,       \* numbers of the replies on their way, and in the socket
    answer,         \* what ngethostbyname returned, until the next call
    hostent,        \* the message gethostbyname_impl made one of, until the next
                    \* call
    astray,         \* history: some query got another's reply, or garbage
    calls

call == <<pc, caller, host>>
results == <<answer, hostent, astray>>
vars == <<cache, signed, call, wire, rx, results, calls>>

(* No result yet; gethostbyname_impl returned NULL. *)
NoAnswer == [host |-> NULL, ip |-> NoAddress]
NoHostent == -1

Init ==
    /\ CacheInit
    /\ signed \in CharSigned
    /\ pc = "idle" /\ caller = "none" /\ host = NULL
    /\ wire = {} /\ rx = <<>>
    /\ answer = NoAnswer
    /\ hostent = NoHostent
    /\ astray = FALSE /\ calls = 0

RepliesTo(name) == {k \in DOMAIN Replies : Replies[k].chain[1] = name}

StartCall == pc = "idle" /\ calls < MaxCalls /\ calls' = calls + 1

\* sendQueryAndReceiveResponse up to recvfrom: OPEN empties the socket.
sendQuery(name, by) ==
    /\ pc' = "asked" /\ caller' = by /\ host' = name
    /\ rx' = <<>>
    /\ \E k \in RepliesTo(name) : wire' = wire \cup {k}

ngethostbyname(name) ==
    /\ StartCall
    /\ IF Found(name) # {}
       THEN /\ Hit(name)
            /\ answer' = [host |-> name, ip |-> entry_cache[First(Found(name))].address]
            /\ UNCHANGED <<call, wire, rx>>
       ELSE sendQuery(name, "ngethostbyname") /\ answer' = NoAnswer /\ UNCHANGED cache
    /\ hostent' = NoHostent
    /\ UNCHANGED <<signed, astray>>

gethostbyname_impl(name) ==
    /\ StartCall
    /\ sendQuery(name, "gethostbyname_impl")
    /\ answer' = NoAnswer /\ hostent' = NoHostent
    /\ UNCHANGED <<cache, signed, astray>>

\* What the two look-ups make of a message.  Number 0 is the query, which lies
\* where the reply is to come: it has no answers.
Message(k) ==
    IF k = 0 THEN [chain |-> <<<<>>>>, addresses |-> <<>>, compressed |-> TRUE, rcode |-> 0]
    ELSE Replies[k]

Messages == {0} \cup DOMAIN Replies
Bytes == [k \in Messages |-> Encode(Message(k))]
Texts == {Bytes[k] : k \in Messages}
FoundIp == [m \in Texts |-> [s \in BOOLEAN |-> findIp(m, s)]]
Refused == [m \in Texts |-> rcode(m) # 0]
Filled == [m \in Texts |-> [s \in BOOLEAN |-> fill_hostent(m, s)]]

IpIn(k, s) == FoundIp[Bytes[k]][s]

\* recvfrom: what it reads from an empty FIFO may be nothing or anything.
Received == IF rx # <<>> THEN {Head(rx)} ELSE Messages

Receive == \E k \in Received :
    /\ pc = "asked"
    /\ IF caller = "ngethostbyname"
       THEN /\ answer' = [host |-> host, ip |-> IpIn(k, signed)]
            /\ store_in_cache(host, IpIn(k, signed))
            /\ UNCHANGED hostent
       ELSE /\ hostent' = IF Refused[Bytes[k]] THEN NoHostent ELSE k
            /\ UNCHANGED <<cache, answer>>
    /\ astray' = (astray \/ k \notin {0} \cup RepliesTo(host))
    /\ pc' = "idle" /\ caller' = "none" /\ host' = NULL /\ rx' = <<>>
    /\ UNCHANGED <<signed, wire, calls>>

(* The network: a reply may be lost, which is to stay on the wire. *)

Arrive == \E k \in wire :
    /\ pc = "asked"
    /\ wire' = wire \ {k} /\ rx' = Append(rx, k)
    /\ UNCHANGED <<cache, signed, call, results, calls>>

Next ==
    \/ \E name \in Hosts : ngethostbyname(name) \/ gethostbyname_impl(name)
    \/ Receive \/ Arrive

Spec == Init /\ [][Next]_vars

-----------------------------------------------------------------------------
(* Properties *)

\* The type invariant.
TypeOK ==
    /\ CacheType
    /\ signed \in CharSigned
    /\ pc \in {"idle", "asked"}
    /\ host \in IF pc = "idle" THEN {NULL} ELSE Hosts
    /\ wire \subseteq DOMAIN Replies /\ rx \in Seq(DOMAIN Replies)
    /\ hostent \in Messages \cup {NoHostent} /\ astray \in BOOLEAN /\ calls \in 0 .. MaxCalls

\* What the proof that the cache implements LruMap rests on.
IInv == TypeOK /\ CacheOK

\* Addresses of a host as the DNS gives them; none with a response code.
AddressesOf(name) == UNION {Range(Replies[k].addresses) : k \in RepliesTo(name)}

\* As long as every reply was taken by its own query, the cache and the answers
\* hold an address of the host, through hits, evictions and replies that both
\* kinds of look-up read in their different ways; or none.
AnswerIsTrue ==
    ~astray =>
        /\ answer.ip # NoAddress => answer.ip \in AddressesOf(answer.host)
        /\ \A i \in UsedSlots : entry_cache[i].address \in AddressesOf(entry_cache[i].hostname)

\* Taken by itself, every reply is read well: findIp gives one of its addresses,
\* or none, and none for the query.
RepliesAreRead ==
    /\ \A k \in DOMAIN Replies, s \in CharSigned :
          IpIn(k, s) \in Range(Replies[k].addresses) \cup {NoAddress}
    /\ \A s \in CharSigned : IpIn(0, s) = NoAddress

\* What the two walks of gethostbyname_impl agree on: owners that are pointers,
\* below 128 if char is signed.
Understood ==
    {m \in Messages \X BOOLEAN :
        LET r == Message(m[1]) IN
        /\ r.compressed
        /\ m[2] => Len(Encode([r EXCEPT !.addresses = <<>>])) - Len(Plain(Last(r.chain))) < 128}

\* found are the aliases of a reply, then its addresses, each with its owner.
AreRecordsOf(found, r) ==
    LET c == Len(r.chain) - 1
        a == Len(r.addresses)
    IN  /\ AliasesFirst(found, c, a)
        /\ \A j \in 1 .. c + a : found[j].labels = r.chain[IF j <= c THEN j ELSE c + 1]
        /\ \A j \in 1 .. a : found[c + j].data = r.addresses[j]

\* Both walks find the records of such a reply.
RecordsAreFound ==
    \A k \in Messages, s \in CharSigned : <<k, s>> \in Understood =>
        LET found == SizeAnswers(Bytes[k], s) IN
        /\ AreRecordsOf(found, Message(k))
        /\ FillAnswers(Bytes[k], Len(found), s) = found
        /\ BlockSize(found) \in Nat /\ BlockSize(found) < 65536

IsUnderstood == hostent # NoHostent /\ <<hostent, signed>> \in Understood

Content == Filled[Bytes[hostent]][signed]

\* The hostent of such a reply has the addresses and the aliases in order, and
\* the last name of the chain.
HostentIsTrue ==
    IsUnderstood =>
        LET r == Message(hostent) IN
        /\ Content.h_addr_list = r.addresses
        /\ Content.h_aliases = Front(r.chain)
        /\ Content.h_name = IF r.addresses = <<>> THEN NoName ELSE Last(r.chain)

\* It fits its block if it has at most two addresses.
HostentFits ==
    IsUnderstood /\ Len(Content.h_addr_list) <= 2 => Content.written <= Content.malloc_size

(* What the comments of the code say *)

\* resolv.c:492, the name needs space "only once per reply since multiple A
\* records mean multiple host addresses for a single hostname".
NameCountedOnce == IsUnderstood => Content.written <= Content.malloc_size
=============================================================================

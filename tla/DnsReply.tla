------------------------------ MODULE DnsReply ------------------------------
(***************************************************************************)
(* How the resolver reads a DNS reply (resolv.c): findMallocSize counts the  *)
(* bytes a hostent takes, fill_hostent writes them in a second walk of its   *)
(* own, and findIp looks for one address in a third.                         *)
(*                                                                          *)
(* A reply is a sequence of bytes.  The three walks differ in how far they   *)
(* step over a name, and in what a name adds to the block; that is what is   *)
(* kept here.  signed tells whether the compiler's char is signed.           *)
(***************************************************************************)
EXTENDS Integers, Sequences, SequencesExt, FiniteSetsExt

T_A == 1
T_CNAME == 5
HeaderSize == 12        \* sizeof(struct DNS_HEADER)
QuestionSize == 4       \* sizeof(struct QUESTION)
DataSize == 10          \* sizeof(struct R_DATA)
PointerSize == 4        \* sizeof(char *)

\* Behind the reply the buffer is taken to be 0.
Byte(m, p) == IF p < Len(m) THEN m[p + 1] ELSE 0

readWord(m, p) == 256 * Byte(m, p) + Byte(m, p + 1)

rcode(m) == Byte(m, 3) % 16
ans_count(m) == readWord(m, 6)

-----------------------------------------------------------------------------
(* Names *)

Char(b, signed) == IF signed /\ b >= 128 THEN b - 256 ELSE b

\* Where a pointer in a name leads, as findMallocSize and name_to_buf take it.
Target(m, p, signed) ==
    (256 * Char(Byte(m, p), signed) + Char(Byte(m, p + 1), signed) - 49152) % 65536

IsPointer(b) == b >= 192

\* The labels of the name at p that stand before its end or its first pointer.
Spelt(m, p) ==
    LET from[q \in Nat] ==
          LET len == Byte(m, q) IN
          IF len = 0 \/ IsPointer(len) THEN <<>>
          ELSE <<[j \in 1 .. len |-> Byte(m, q + j)]>> \o from[q + 1 + len]
    IN  from[p]

\* Numbers added up.
Total(f) ==
    LET to[n \in 0 .. Len(f)] == IF n = 0 THEN 0 ELSE to[n - 1] + f[n] IN to[Len(f)]

\* A name in a hostent: every label with its dot, the last one's a 0.
NameLen(labels) == Total([j \in DOMAIN labels |-> Len(labels[j]) + 1])

\* Where Spelt ends.
Stop(m, p) == p + NameLen(Spelt(m, p))

Jumps(m, p) == IsPointer(Byte(m, Stop(m, p)))

\* All labels of the name at p, pointers followed.
Labels(m, p, signed) ==
    LET from[q \in Nat] ==
          Spelt(m, q) \o
          IF Jumps(m, q) THEN from[Target(m, Stop(m, q), signed)] ELSE <<>>
    IN  from[p]

\* The bytes a name takes in the reply.
NameSize(m, p) == Stop(m, p) - p + (IF Jumps(m, p) THEN 2 ELSE 1)

\* Bytes until a 0, it included.
ZeroSize(m, p) ==
    LET from[q \in Nat] == IF Byte(m, q) = 0 THEN 1 ELSE 1 + from[q + 1] IN from[p]

\* The steps over a name.  findMallocSize moves on at a pointer only;
\* name_to_buf forgets the length bytes, and the 0; ReadName looks for a
\* pointer in a char, which a signed one never holds.
SizeStep(m, p) == IF Jumps(m, p) THEN 2 ELSE 0

FillStep(m, p) ==
    NameLen(Spelt(m, p)) - Len(Spelt(m, p)) + (IF Jumps(m, p) THEN 2 ELSE 0)

ReadNameCount(m, p, signed) == IF signed THEN ZeroSize(m, p) ELSE NameSize(m, p)

-----------------------------------------------------------------------------
(* The walks *)

\* findMallocSize jumps over all questions.
AnswerStart(m) ==
    LET after[k \in Nat] ==
          IF k = 0 THEN HeaderSize
          ELSE Stop(m, after[k - 1]) + 1 + QuestionSize
    IN  after[readWord(m, 4)]

\* Mutant: no place for the pointer to an address.
MutSizeOf(type, len, first) ==
    CASE type = T_CNAME -> len + PointerSize
      [] type = T_A -> 4 + (IF first THEN len ELSE 0)
      [] OTHER -> 0

\* What an answer adds to the size of the block.
SizeOf(type, len, first) ==
    CASE type = T_CNAME -> len + PointerSize
      [] type = T_A -> 4 + PointerSize + (IF first THEN len ELSE 0)
      [] OTHER -> 0

FourBytes(m, p) == [j \in 1 .. 4 |-> Byte(m, p + j - 1)]

Answer == [type : Nat, labels : Seq(Seq(Nat)), data : Seq(Nat)]

\* The first n answers, as they are found with one of the steps over a name.
Answers(m, n, signed, step) ==
    LET from[k \in Nat, p \in Nat] ==
          LET res == p + step[p] IN
          IF k = 0 THEN <<>>
          ELSE <<[type |-> readWord(m, res), labels |-> Labels(m, p, signed),
                  data |-> FourBytes(m, res + DataSize)]>>
               \o from[k - 1, res + DataSize + readWord(m, res + 8)]
    IN  from[n, AnswerStart(m)]

Numbers(answers, types) == {j \in DOMAIN answers : answers[j].type \in types}

Lengths(answers) == [j \in DOMAIN answers |-> NameLen(answers[j].labels)]

\* The names of the answers, without and with what the block has else.
Sizes(answers) ==
    [j \in DOMAIN answers |-> SizeOf(answers[j].type, Lengths(answers)[j],
                                     \A k \in Numbers(answers, {T_A}) : j <= k)]

BlockSize(answers) ==
    Total(Sizes(answers)) + 2 * PointerSize
    + Max({0} \cup {Lengths(answers)[j] : j \in Numbers(answers, {T_A})}) + 1

SizeAnswers(m, signed) == Answers(m, ans_count(m), signed, [p \in Nat |-> SizeStep(m, p)])

findMallocSize(m, signed) ==
    LET info[answers \in Seq(Answer)] ==
          [num_as |-> Cardinality(Numbers(answers, {T_A})),
           num_cnames |-> Cardinality(Numbers(answers, {T_CNAME})),
           malloc_size |-> BlockSize(answers) % 65536]
    IN  info[SizeAnswers(m, signed)]

FillAnswers(m, n, signed) == Answers(m, n, signed, [p \in Nat |-> FillStep(m, p)])

\* c aliases, then a addresses.
AliasesFirst(answers, c, a) ==
    /\ answers \in Seq(Answer) /\ Len(answers) = c + a
    /\ \A j \in 1 .. c + a : answers[j].type = IF j <= c THEN T_CNAME ELSE T_A

\* The numbers of S from the least one on.
InOrder(S) ==
    [n \in 1 .. Cardinality(S) |-> CHOOSE j \in S : Cardinality({k \in S : k < j}) = n - 1]

\* Mutant: an alias does not take the name that waits.
MutPrev_start(answers, j) ==
    answers[Max({0} \cup {k \in Numbers(answers, {T_A}) : k < j}) + 1].labels

\* A name waits at prev_start for the next address or alias, whichever comes.
prev_start(answers, j) ==
    answers[Max({0} \cup {k \in Numbers(answers, {T_A, T_CNAME}) : k < j}) + 1].labels

NoName == <<>>

\* The hostent, and how many bytes of the block are written: two tables of
\* pointers, the addresses, and every name.  As a_record_found is never set, the
\* last address names the host.
HostentOf(info, answers) ==
    LET addresses == InOrder(Numbers(answers, {T_A}))
        aliases == InOrder(Numbers(answers, {T_CNAME}))
    IN  [h_name |-> IF addresses = <<>> THEN NoName
                    ELSE prev_start(answers, Last(addresses)),
         h_aliases |-> [j \in DOMAIN aliases |-> prev_start(answers, aliases[j])],
         h_addr_list |-> [j \in DOMAIN addresses |-> answers[addresses[j]].data],
         malloc_size |-> info.malloc_size,
         written |-> (Len(answers) + 2) * PointerSize + info.num_as * 4
                     + Total(Lengths(answers))]

fill_hostent(m, signed) ==
    LET info == findMallocSize(m, signed)
        hostent[answers \in Seq(Answer)] == HostentOf(info, answers)
    IN  hostent[FillAnswers(m, info.num_as + info.num_cnames, signed)]

NoAddress == <<0, 0, 0, 0>>

\* findIp: the address of the first A record.  It does not look at the response
\* code, and reads an answer of any other type as an alias.
findIp(m, signed) ==
    LET from[k \in Nat, at \in Nat] ==
          LET res == at + ReadNameCount(m, at, signed)
              rdata == res + DataSize
          IN  CASE k = ans_count(m) -> NoAddress
                [] k # ans_count(m) /\ readWord(m, res) = T_A -> FourBytes(m, rdata)
                [] OTHER -> from[k + 1, rdata + ReadNameCount(m, rdata, signed)]
    IN  from[0, HeaderSize + ZeroSize(m, HeaderSize) + QuestionSize]

-----------------------------------------------------------------------------
(* What a server sends: a chain of aliases, then the addresses of its last   *)
(* name.  A server compresses names, or it does not.                        *)

Plain(name) == FoldLeft(LAMBDA s, l : s \o <<Len(l)>> \o l, <<>>, name) \o <<0>>

Pointer(p) == <<192 + p \div 256, p % 256>>

Resource(owner, type, rdata) ==
    owner \o <<0, type, 0, 1, 0, 0, 0, 60, 0, Len(rdata)>> \o rdata

\* r: the names of the chain, the first one asked for, the addresses, whether
\* owners are compressed, and the response code.  An owner that is compressed
\* points to where its name stands, in the question or in the alias before.
Encode(r) ==
    LET n == Len(r.chain)
        OwnerSize(k) == IF r.compressed THEN 2 ELSE Len(Plain(r.chain[k]))
        at[k \in Nat] ==
          CASE k = 1 -> HeaderSize
            [] k = 2 -> HeaderSize + Len(Plain(r.chain[1])) + QuestionSize
                        + OwnerSize(1) + DataSize
            [] OTHER -> at[k - 1] + Len(Plain(r.chain[k - 1])) + OwnerSize(k - 1) + DataSize
        Owner(k) == IF r.compressed THEN Pointer(at[k]) ELSE Plain(r.chain[k])
    IN  <<0, 42, 129, 128 + r.rcode, 0, 1, 0, n - 1 + Len(r.addresses), 0, 0, 0, 0>>
        \o Plain(r.chain[1]) \o <<0, T_A, 0, 1>>
        \o FlattenSeq([k \in 1 .. n - 1 |-> Resource(Owner(k), T_CNAME, Plain(r.chain[k + 1]))])
        \o FlattenSeq([k \in DOMAIN r.addresses |-> Resource(Owner(n), T_A, r.addresses[k])])
=============================================================================

--------------------------- MODULE DnsReplyProofs ---------------------------
(***************************************************************************)
(* Lemmas about DnsReply.                                                    *)
(***************************************************************************)
EXTENDS DnsReply, FiniteSetTheorems, WellFoundedInduction, TLAPS

-----------------------------------------------------------------------------
(* Sums *)

\* A set of numbers that is not empty has a least one.
LEMMA LeastNumber ==
    ASSUME NEW S \in SUBSET Nat, S # {}
    PROVE  \E x \in S : \A y \in S : x <= y
  <1> DEFINE R == OpToRel(<, Nat)
  <1>1. IsWellFoundedOn(R, Nat)
    BY NatLessThanWellFounded
  <1>2. PICK x \in S : \A y \in S : ~ (<<y, x>> \in R)
    BY <1>1, WFMin, Zenon
  <1>3. \A y \in S : ~ (y < x)
    BY <1>2 DEF OpToRel
  <1> QED
    BY <1>3

\* The sums of the first numbers of f.
LEMMA Totals ==
    ASSUME NEW f \in Seq(Nat)
    PROVE  \E to \in [0 .. Len(f) -> Nat] :
              /\ to[0] = 0
              /\ \A n \in 1 .. Len(f) : to[n] = to[n - 1] + f[n]
              /\ Total(f) = to[Len(f)]
  <1> DEFINE N == Len(f)
             Sums(n, t) == /\ t \in [0 .. n -> Nat] /\ t[0] = 0
                           /\ \A j \in 1 .. n : t[j] = t[j - 1] + f[j]
             Is(t) == t = [n \in 0 .. N |-> IF n = 0 THEN 0 ELSE t[n - 1] + f[n]]
  <1>0. N \in Nat /\ \A j \in 1 .. N : f[j] \in Nat
    OBVIOUS
  <1>1. \A n \in 0 .. N : \E t : Sums(n, t)
    <2> DEFINE S == {n \in 0 .. N : ~ \E t : Sums(n, t)}
    <2>1. Sums(0, [j \in 0 .. 0 |-> 0])
      OBVIOUS
    <2>2. ASSUME NEW n \in 1 .. N, NEW t, Sums(n - 1, t)
          PROVE  \E u : Sums(n, u)
      <3> DEFINE u == [j \in 0 .. n |-> IF j = n THEN t[n - 1] + f[n] ELSE t[j]]
      <3>1. f[n] \in Nat /\ n \in Nat /\ n - 1 \in 0 .. n - 1 /\ 0 # n
        BY <1>0
      <3>2. u \in [0 .. n -> Nat]
        BY <2>2, <3>1
      <3>3. u[0] = 0 /\ u[n] = u[n - 1] + f[n]
        BY <2>2, <3>1
      <3>4. \A j \in 1 .. n - 1 : u[j] = u[j - 1] + f[j]
        BY <2>2, <3>1
      <3>5. \A j \in 1 .. n : j = n \/ j \in 1 .. n - 1
        BY <3>1
      <3>6. Sums(n, u)
        <4> HIDE DEF u
        <4> QED
          BY <3>2, <3>3, <3>4, <3>5
      <3> QED
        BY <3>6
    <2> HIDE DEF Sums
    <2> SUFFICES ASSUME S # {} PROVE FALSE
      OBVIOUS
    <2>3. S \in SUBSET Nat
      OBVIOUS
    <2>4. PICK n \in S : \A m \in S : n <= m
      <3> HIDE DEF S
      <3> QED
        BY <2>3, LeastNumber
    <2>5. n # 0
      BY <2>1
    <2>6. n \in 1 .. N /\ n - 1 \in 0 .. N /\ ~ (n <= n - 1)
      BY <1>0, <2>5
    <2>7. n - 1 \notin S
      BY <2>4, <2>6
    <2> QED
      BY <2>2, <2>6, <2>7
  <1>2. PICK t : Sums(N, t)
    <2> HIDE DEF Sums
    <2> QED
      BY <1>0, <1>1
  <1>3. Is(t)
    BY <1>0, <1>2
  <1> DEFINE to == CHOOSE u : Is(u)
  <1>4. Is(to)
    <2> HIDE DEF Is
    <2> QED
      BY <1>3
  <1>5. Total(f) = to[N]
    BY DEF Total
  <1> HIDE DEF to
  <1>6. /\ DOMAIN to = 0 .. N /\ to[0] = 0
        /\ \A n \in 1 .. N : to[n] = to[n - 1] + f[n]
    BY <1>0, <1>4
  <1>7. \A n \in 0 .. N : to[n] = t[n]
    <2> DEFINE S == {n \in 0 .. N : to[n] # t[n]}
    <2> SUFFICES ASSUME S # {} PROVE FALSE
      OBVIOUS
    <2>1. S \in SUBSET Nat
      OBVIOUS
    <2>2. PICK n \in S : \A m \in S : n <= m
      <3> HIDE DEF S
      <3> QED
        BY <2>1, LeastNumber
    <2>3. n # 0
      BY <1>2, <1>6
    <2>4. n \in 1 .. N /\ n - 1 \in 0 .. N /\ ~ (n <= n - 1)
      BY <1>0, <2>3
    <2>5. to[n - 1] = t[n - 1]
      BY <2>2, <2>4
    <2> QED
      BY <1>2, <1>6, <2>4, <2>5
  <1>8. to \in [0 .. N -> Nat]
    BY <1>2, <1>4, <1>6, <1>7
  <1> QED
    BY <1>5, <1>6, <1>8

\* Numbers add up to a number.
LEMMA TotalIsNat ==
    ASSUME NEW f \in Seq(Nat)
    PROVE  Total(f) \in Nat
  <1>1. PICK to \in [0 .. Len(f) -> Nat] : Total(f) = to[Len(f)]
    BY Totals
  <1>2. Len(f) \in 0 .. Len(f)
    OBVIOUS
  <1> QED
    BY <1>1, <1>2

\* A function on 1 .. n is a sequence.
LEMMA MakesSeq ==
    ASSUME NEW S, NEW n \in Nat, NEW f \in [1 .. n -> S]
    PROVE  f \in Seq(S) /\ Len(f) = n /\ DOMAIN f = 1 .. n
  OBVIOUS

\* A name takes some number of bytes.
LEMMA NameLenIsNat ==
    ASSUME NEW labels \in Seq(Seq(Nat))
    PROVE  NameLen(labels) \in Nat
  <1> DEFINE f == [j \in DOMAIN labels |-> Len(labels[j]) + 1]
  <1>1. f \in Seq(Nat)
    <2>1. DOMAIN labels = 1 .. Len(labels) /\ Len(labels) \in Nat
      OBVIOUS
    <2>2. \A j \in 1 .. Len(labels) : Len(labels[j]) + 1 \in Nat
      OBVIOUS
    <2>3. f \in [1 .. Len(labels) -> Nat]
      BY <2>1, <2>2
    <2> HIDE DEF f
    <2> QED
      BY <2>1, <2>3, MakesSeq
  <1>2. NameLen(labels) = Total(f)
    BY DEF NameLen
  <1> HIDE DEF f
  <1> QED
    BY <1>1, <1>2, TotalIsNat

-----------------------------------------------------------------------------
(* The answers of a reply: c aliases, then a addresses *)

\* How many numbers follow lo, if they are n.
LEMMA CountedFrom ==
    ASSUME NEW lo \in Nat, NEW n \in Nat
    PROVE  IsFiniteSet(lo + 1 .. lo + n) /\ Cardinality(lo + 1 .. lo + n) = n
  <1>1. lo + 1 \in Int /\ lo + n \in Int
    OBVIOUS
  <1> QED
    BY <1>1, FS_Interval

\* A range of numbers, from the least one on.
LEMMA InOrderFrom ==
    ASSUME NEW lo \in Nat, NEW n \in Nat
    PROVE  InOrder(lo + 1 .. lo + n) = [i \in 1 .. n |-> lo + i]
  <1> DEFINE S == lo + 1 .. lo + n
  <1>1. Cardinality(S) = n
    BY CountedFrom
  <1>2. ASSUME NEW i \in 1 .. n
        PROVE  (CHOOSE j \in S : Cardinality({k \in S : k < j}) = i - 1) = lo + i
    <2>1. ASSUME NEW j \in S
          PROVE  Cardinality({k \in S : k < j}) = j - lo - 1
      <3>1. {k \in S : k < j} = lo + 1 .. lo + (j - lo - 1) /\ j - lo - 1 \in Nat
        OBVIOUS
      <3> QED
        BY <3>1, CountedFrom
    <2>2. \A j \in S : Cardinality({k \in S : k < j}) = i - 1 <=> j = lo + i
      BY <2>1
    <2>3. lo + i \in S
      OBVIOUS
    <2> HIDE DEF S
    <2> QED
      BY <2>2, <2>3
  <1> HIDE DEF S
  <1>3. InOrder(S) = [i \in 1 .. n |-> lo + i]
    BY <1>1, <1>2 DEF InOrder
  <1> QED
    BY <1>3 DEF S

\* The greatest of some numbers of which x is one, and the others are not above.
LEMMA MaxIs ==
    ASSUME NEW S \in SUBSET Nat, NEW x \in S, \A y \in S : x >= y
    PROVE  Max(S) = x
  <1>1. \A z \in S : (\A y \in S : z >= y) <=> z = x
    OBVIOUS
  <1> QED
    BY <1>1, Zenon DEF Max

\* What fill_hostent and findMallocSize find in such a reply.
LEMMA AnswersNumbered ==
    ASSUME NEW c \in Nat, NEW a \in Nat, NEW answers,
           AliasesFirst(answers, c, a)
    PROVE  /\ Numbers(answers, {T_A}) = c + 1 .. c + a
           /\ Numbers(answers, {T_CNAME}) = 1 .. c
           /\ \A j \in 1 .. c + a : prev_start(answers, j) = answers[j].labels
  <1> USE DEF AliasesFirst
  <1>0. DOMAIN answers = 1 .. c + a /\ T_A # T_CNAME
    BY DEF T_A, T_CNAME
  <1>1. Numbers(answers, {T_A}) = c + 1 .. c + a
    BY <1>0 DEF Numbers
  <1>2. Numbers(answers, {T_CNAME}) = 1 .. c
    BY <1>0 DEF Numbers
  <1>3. ASSUME NEW j \in 1 .. c + a
        PROVE  prev_start(answers, j) = answers[j].labels
    <2>1. Numbers(answers, {T_A, T_CNAME}) = 1 .. c + a
      BY <1>0 DEF Numbers
    <2> DEFINE S == {0} \cup {k \in Numbers(answers, {T_A, T_CNAME}) : k < j}
    <2>2. S = 0 .. j - 1
      BY <2>1
    <2>3. S \in SUBSET Nat /\ j - 1 \in S /\ \A y \in S : j - 1 >= y
      <3> HIDE DEF S
      <3> QED
        BY <2>2
    <2>4. Max(S) = j - 1
      <3> HIDE DEF S
      <3> QED
        BY <2>3, MaxIs
    <2> QED
      BY <2>4 DEF prev_start
  <1> QED
    BY <1>1, <1>2, <1>3

\* Each alias has its name, the addresses are in order, and the name that owns
\* them, c + 1 of the chain, names the host.
LEMMA HostentIsRight ==
    ASSUME NEW c \in Nat, NEW a \in Nat, NEW answers,
           AliasesFirst(answers, c, a),
           NEW info
    PROVE  LET hostent == HostentOf(info, answers) IN
           /\ hostent.h_name = IF a = 0 THEN NoName ELSE answers[c + a].labels
           /\ hostent.h_aliases = [j \in 1 .. c |-> answers[j].labels]
           /\ hostent.h_addr_list = [j \in 1 .. a |-> answers[c + j].data]
  <1> DEFINE addresses == InOrder(Numbers(answers, {T_A}))
             aliases == InOrder(Numbers(answers, {T_CNAME}))
  <1>0. /\ Numbers(answers, {T_A}) = c + 1 .. c + a
        /\ Numbers(answers, {T_CNAME}) = 1 .. c
        /\ \A j \in 1 .. c + a : prev_start(answers, j) = answers[j].labels
    BY AnswersNumbered
  <1>1. addresses = [j \in 1 .. a |-> c + j]
    BY <1>0, InOrderFrom
  <1>2. aliases = [j \in 1 .. c |-> j]
    <2>1. InOrder(0 + 1 .. 0 + c) = [i \in 1 .. c |-> 0 + i]
      BY InOrderFrom
    <2> QED
      BY <1>0, <2>1
  <1> HIDE DEF addresses, aliases
  <1>3. addresses = <<>> <=> a = 0
    BY <1>1
  <1>4. a # 0 => Last(addresses) = c + a
    BY <1>1 DEF Last
  <1>5. /\ HostentOf(info, answers).h_name =
             IF addresses = <<>> THEN NoName ELSE prev_start(answers, Last(addresses))
        /\ HostentOf(info, answers).h_aliases =
             [j \in DOMAIN aliases |-> prev_start(answers, aliases[j])]
        /\ HostentOf(info, answers).h_addr_list =
             [j \in DOMAIN addresses |-> answers[addresses[j]].data]
    BY DEF HostentOf, addresses, aliases
  <1>6. \A j \in 1 .. c : prev_start(answers, aliases[j]) = answers[j].labels
    BY <1>0, <1>2
  <1>7. a # 0 => prev_start(answers, Last(addresses)) = answers[c + a].labels
    BY <1>0, <1>4
  <1> QED
    BY <1>1, <1>2, <1>3, <1>5, <1>6, <1>7

\* The greatest of 0 and two numbers is at least as large as both.
LEMMA MaxOfThree ==
    ASSUME NEW x \in Nat, NEW y \in Nat
    PROVE  Max({0, x, y}) \in Nat /\ Max({0, x, y}) >= x /\ Max({0, x, y}) >= y
  <1> DEFINE S == {0, x, y}
  <1>1. PICK z \in S : \A w \in S : z >= w
    OBVIOUS
  <1>2. S \in SUBSET Nat
    OBVIOUS
  <1>3. Max(S) = z
    <2> HIDE DEF S
    <2> QED
      BY <1>1, <1>2, MaxIs
  <1> QED
    BY <1>1, <1>3

\* One more answer: what is counted for it, and the bytes of its name.
LEMMA StepOfSums ==
    ASSUME NEW c \in Nat, NEW n \in Nat, NEW x \in Nat, NEW y \in Nat, NEW z \in Nat
    PROVE  /\ n <= c /\ x = y + 4 * (n - 1) => x + (z + 4) = y + z + 4 * n
           /\ n = c + 1 /\ x = y + 4 * (n - 1) => x + (z + 8) = y + z + 4 * n + 4
           /\ n = c + 2 /\ x = y + 4 * (n - 1) + 4 => x + 8 + z = y + z + 4 * n + 8
  OBVIOUS

\* What the names of such a reply take, and what findMallocSize counts for them,
\* if it has at most two addresses: all but the name of the second.
LEMMA Sizing ==
    ASSUME NEW c \in Nat, NEW a \in 0 .. 2, NEW answers,
           AliasesFirst(answers, c, a)
    PROVE  /\ Lengths(answers) \in [1 .. c + a -> Nat]
           /\ Total(Sizes(answers)) \in Nat /\ Total(Lengths(answers)) \in Nat
           /\ a < 2 => Total(Sizes(answers)) = Total(Lengths(answers)) + 4 * (c + a) + 4 * a
           /\ a = 2 => Total(Sizes(answers)) + Lengths(answers)[c + 2]
                         = Total(Lengths(answers)) + 4 * (c + a) + 4 * a
  <1> USE DEF AliasesFirst
  <1> DEFINE l == Lengths(answers)
             s == Sizes(answers)
  <1>0. DOMAIN answers = 1 .. c + a /\ c + a \in Nat /\ a \in Nat /\ a <= 2
    OBVIOUS
  <1>1. l \in [1 .. c + a -> Nat]
    <2>1. ASSUME NEW j \in 1 .. c + a
          PROVE  NameLen(answers[j].labels) \in Nat
      <3>1. answers[j] \in Answer
        BY <1>0
      <3>2. answers[j].labels \in Seq(Seq(Nat))
        BY <3>1 DEF Answer
      <3> QED
        BY <3>2, NameLenIsNat
    <2> QED
      BY <1>0, <2>1 DEF Lengths
  <1>2. \A j \in 1 .. c + a :
           s[j] = IF j <= c THEN l[j] + 4 ELSE IF j = c + 1 THEN l[j] + 8 ELSE 8
    <2>1. Numbers(answers, {T_A}) = c + 1 .. c + a
      BY <1>0, AnswersNumbered
    <2>2. ASSUME NEW j \in 1 .. c + a, j > c
          PROVE  (\A k \in c + 1 .. c + a : j <= k) <=> j = c + 1
      BY <2>2
    <2>3. ASSUME NEW j \in 1 .. c + a
          PROVE  /\ answers[j].type = T_CNAME => s[j] = l[j] + PointerSize
                 /\ answers[j].type = T_A /\ j = c + 1 => s[j] = 4 + PointerSize + l[j]
                 /\ answers[j].type = T_A /\ j > c + 1 => s[j] = 4 + PointerSize + 0
      <3>1. /\ s[j] = SizeOf(answers[j].type, l[j], \A k \in c + 1 .. c + a : j <= k)
            /\ l[j] \in Nat
        BY <1>0, <1>1, <2>1 DEF Sizes
      <3> HIDE DEF l, s
      <3>2. answers[j].type = T_CNAME => s[j] = l[j] + PointerSize
        BY <3>1 DEF SizeOf, T_A, T_CNAME
      <3>3. ASSUME answers[j].type = T_A, j > c
            PROVE  s[j] = 4 + PointerSize + (IF \A k \in c + 1 .. c + a : j <= k
                                             THEN l[j] ELSE 0)
        BY <3>1, <3>3 DEF SizeOf, T_A, T_CNAME
      <3> QED
        BY <2>2, <3>2, <3>3
    <2> HIDE DEF l, s
    <2> QED
      BY <1>1, <2>3 DEF PointerSize
  <1>3. s \in [1 .. c + a -> Nat]
    <2>1. DOMAIN s = 1 .. c + a /\ s = [j \in DOMAIN s |-> s[j]]
      BY <1>0 DEF Sizes
    <2> HIDE DEF l, s
    <2>2. \A j \in 1 .. c + a : s[j] \in Nat
      BY <1>1, <1>2
    <2> QED
      BY <2>1, <2>2
  <1> HIDE DEF l, s
  <1>4. /\ l \in Seq(Nat) /\ Len(l) = c + a
        /\ s \in Seq(Nat) /\ Len(s) = c + a
    BY <1>0, <1>1, <1>3, MakesSeq
  <1>5. PICK tl \in [0 .. c + a -> Nat] :
           /\ tl[0] = 0 /\ Total(l) = tl[c + a]
           /\ \A n \in 1 .. c + a : tl[n] = tl[n - 1] + l[n]
    BY <1>4, Totals
  <1>6. PICK ts \in [0 .. c + a -> Nat] :
           /\ ts[0] = 0 /\ Total(s) = ts[c + a]
           /\ \A n \in 1 .. c + a : ts[n] = ts[n - 1] + s[n]
    BY <1>4, Totals
  <1> DEFINE Same(n) == /\ n <= c => ts[n] = tl[n] + 4 * n
                        /\ n = c + 1 => ts[n] = tl[n] + 4 * n + 4
                        /\ n = c + 2 => ts[n] + l[n] = tl[n] + 4 * n + 8
  <1>7. \A n \in 0 .. c + a : Same(n)
    <2>1. Same(0)
      BY <1>5, <1>6
    <2>2. ASSUME NEW n \in 1 .. c + a, Same(n - 1)
          PROVE  Same(n)
      <3>1. /\ ts[n] = ts[n - 1] + s[n] /\ tl[n] = tl[n - 1] + l[n]
            /\ ts[n - 1] \in Nat /\ tl[n - 1] \in Nat /\ l[n] \in Nat
        BY <1>1, <1>5, <1>6
      <3>2. s[n] = IF n <= c THEN l[n] + 4 ELSE IF n = c + 1 THEN l[n] + 8 ELSE 8
        BY <1>2
      <3>3. n \in Nat /\ n <= c + 2
        BY <1>0
      <3> DEFINE x == ts[n - 1]
                 y == tl[n - 1]
                 z == l[n]
      <3>7. /\ n - 1 <= c => x = y + 4 * (n - 1)
            /\ n - 1 = c + 1 => x = y + 4 * (n - 1) + 4
        BY <2>2
      <3>8. /\ ts[n] = x + s[n] /\ tl[n] = y + z
            /\ x \in Nat /\ y \in Nat /\ z \in Nat
            /\ s[n] = IF n <= c THEN z + 4 ELSE IF n = c + 1 THEN z + 8 ELSE 8
        BY <3>1, <3>2
      <3> HIDE DEF x, y, z
      <3>4. ASSUME n <= c PROVE ts[n] = tl[n] + 4 * n
        <4>1. ts[n] = x + (z + 4) /\ x = y + 4 * (n - 1)
          BY <3>3, <3>4, <3>7, <3>8
        <4>2. x + (z + 4) = y + z + 4 * n
          BY <3>3, <3>4, <3>8, <4>1, StepOfSums
        <4> QED
          BY <3>8, <4>1, <4>2
      <3>5. ASSUME n = c + 1 PROVE ts[n] = tl[n] + 4 * n + 4
        <4>1. ts[n] = x + (z + 8) /\ x = y + 4 * (n - 1)
          BY <3>3, <3>5, <3>7, <3>8
        <4>2. x + (z + 8) = y + z + 4 * n + 4
          BY <3>3, <3>5, <3>8, <4>1, StepOfSums
        <4> QED
          BY <3>8, <4>1, <4>2
      <3>6. ASSUME n = c + 2 PROVE ts[n] + z = tl[n] + 4 * n + 8
        <4>1. ts[n] = x + 8 /\ x = y + 4 * (n - 1) + 4
          BY <3>3, <3>6, <3>7, <3>8
        <4>2. x + 8 + z = y + z + 4 * n + 8
          BY <3>3, <3>6, <3>8, <4>1, StepOfSums
        <4> QED
          BY <3>8, <4>1, <4>2
      <3> QED
        BY <3>4, <3>5, <3>6 DEF z
    <2> HIDE DEF Same
    <2> DEFINE S == {n \in 0 .. c + a : ~Same(n)}
    <2> SUFFICES ASSUME S # {} PROVE FALSE
      OBVIOUS
    <2>3. S \in SUBSET Nat
      OBVIOUS
    <2>4. PICK n \in S : \A m \in S : n <= m
      <3> HIDE DEF S
      <3> QED
        BY <2>3, LeastNumber
    <2>5. n \in 1 .. c + a /\ n - 1 \in 0 .. c + a /\ ~ (n <= n - 1)
      BY <2>1
    <2>6. Same(n - 1)
      BY <2>4, <2>5
    <2> QED
      BY <2>2, <2>5, <2>6
  <1>8. Same(c + a)
    <2> HIDE DEF Same
    <2> QED
      BY <1>0, <1>7
  <1>9. ts[c + a] \in Nat /\ tl[c + a] \in Nat
    BY <1>0
  <1>10. /\ a < 2 => ts[c + a] = tl[c + a] + 4 * (c + a) + 4 * a
         /\ a = 2 => ts[c + a] + l[c + 2] = tl[c + a] + 4 * (c + a) + 4 * a
    BY <1>0, <1>8, <1>9
  <1> QED
    BY <1>1, <1>5, <1>6, <1>9, <1>10 DEF l, s

\* For at most two addresses the block is large enough, whatever the names.
LEMMA BlockIsEnough ==
    ASSUME NEW c \in Nat, NEW a \in 0 .. 2, NEW answers,
           AliasesFirst(answers, c, a)
    PROVE  (c + a + 2) * PointerSize + a * 4 + Total(Lengths(answers)) <= BlockSize(answers)
  <1> USE DEF AliasesFirst
  <1> DEFINE l == Lengths(answers)
             N == Numbers(answers, {T_A})
             M == Max({0} \cup {l[j] : j \in N})
  <1>0. a \in Nat /\ a <= 2 /\ c + a \in Nat
    OBVIOUS
  <1>1. /\ l \in [1 .. c + a -> Nat] /\ Total(Sizes(answers)) \in Nat /\ Total(l) \in Nat
        /\ a < 2 => Total(Sizes(answers)) = Total(l) + 4 * (c + a) + 4 * a
        /\ a = 2 => Total(Sizes(answers)) + l[c + 2] = Total(l) + 4 * (c + a) + 4 * a
    BY <1>0, Sizing
  <1>2. N = c + 1 .. c + a
    BY <1>0, AnswersNumbered
  <1>3. BlockSize(answers) = Total(Sizes(answers)) + 8 + M + 1
    BY <1>1 DEF BlockSize, PointerSize
  <1> HIDE DEF l, N
  <1>4. M \in Nat /\ (a = 2 => M >= l[c + 2])
    <2>1. CASE a = 0
      <3>0. N = {}
        BY <1>2, <2>1
      <3>1. PICK x \in Nat : x = 0
        OBVIOUS
      <3>2. {0} \cup {l[j] : j \in N} = {0, x, x}
        BY <3>0, <3>1
      <3> QED
        BY <2>1, <3>1, <3>2, MaxOfThree
    <2>2. CASE a = 1
      <3>1. {0} \cup {l[j] : j \in N} = {0, l[c + 1], l[c + 1]} /\ l[c + 1] \in Nat
        BY <1>1, <1>2, <2>2
      <3> QED
        BY <2>2, <3>1, MaxOfThree
    <2>3. CASE a = 2
      <3>1. N = {c + 1, c + 2}
        BY <1>2, <2>3
      <3>2. {0} \cup {l[j] : j \in N} = {0, l[c + 1], l[c + 2]}
        BY <3>1
      <3>3. l[c + 1] \in Nat /\ l[c + 2] \in Nat
        BY <1>1, <2>3
      <3> QED
        BY <2>3, <3>2, <3>3, MaxOfThree
    <2> QED
      BY <2>1, <2>2, <2>3
  <1> HIDE DEF M
  <1>5. l = Lengths(answers)
    BY DEF l
  <1>6. (c + a + 2) * PointerSize = 4 * (c + a) + 8
    BY DEF PointerSize
  <1> DEFINE b == BlockSize(answers)
             s == Total(Sizes(answers))
             w == Total(l)
  <1>7. /\ b = s + 8 + M + 1 /\ s \in Nat /\ w \in Nat /\ M \in Nat
        /\ a < 2 => s = w + 4 * (c + a) + 4 * a
    BY <1>1, <1>3, <1>4
  <1>8. a = 2 => l[c + 2] \in Nat /\ M >= l[c + 2] /\ s + l[c + 2] = w + 4 * (c + a) + 4 * a
    BY <1>1, <1>4
  <1> HIDE DEF b, s, w
  <1>9. 4 * (c + a) + 8 + a * 4 + w <= b
    <2>1. CASE a < 2
      BY <1>7, <2>1
    <2>2. CASE a = 2
      <3> DEFINE z == l[c + 2]
      <3>1. z \in Nat /\ M >= z /\ s + z = w + 4 * (c + a) + 4 * a
        BY <1>8, <2>2
      <3> HIDE DEF z
      <3> QED
        BY <1>7, <2>2, <3>1
    <2> QED
      BY <1>0, <2>1, <2>2
  <1> QED
    BY <1>5, <1>6, <1>9 DEF b, w

\* findMallocSize's num_as and num_cnames of such a reply.
LEMMA AnswersCounted ==
    ASSUME NEW c \in Nat, NEW a \in Nat, NEW answers,
           AliasesFirst(answers, c, a)
    PROVE  /\ Cardinality(Numbers(answers, {T_A})) = a
           /\ Cardinality(Numbers(answers, {T_CNAME})) = c
  <1>1. /\ Numbers(answers, {T_A}) = c + 1 .. c + a
        /\ Numbers(answers, {T_CNAME}) = 1 .. c
    BY AnswersNumbered
  <1>2. \A lo \in Nat, n \in Nat : Cardinality(lo + 1 .. lo + n) = n
    BY CountedFrom
  <1>3. Cardinality(c + 1 .. c + a) = a
    BY <1>2
  <1>4. Cardinality(1 .. c) = c
    <2>1. 0 + 1 .. 0 + c = 1 .. c
      OBVIOUS
    <2> QED
      BY <1>2, <2>1
  <1> QED
    BY <1>1, <1>3, <1>4

\* If both walks find the same answers, aliases before addresses, the hostent is
\* made of them, in a block of the size counted for them.
LEMMA FilledFrom ==
    ASSUME NEW m, NEW s, NEW c \in Nat, NEW a \in Nat, NEW answers,
           AliasesFirst(answers, c, a)
    PROVE  /\ SizeAnswers(m, s) = answers /\ FillAnswers(m, c + a, s) = answers
           /\ BlockSize(answers) \in Nat /\ BlockSize(answers) < 65536
           =>
           /\ fill_hostent(m, s) = HostentOf(findMallocSize(m, s), answers)
           /\ fill_hostent(m, s).malloc_size = BlockSize(answers)
           /\ fill_hostent(m, s).written
                = (c + a + 2) * PointerSize + a * 4 + Total(Lengths(answers))
  <1> DEFINE info == findMallocSize(m, s)
             b == BlockSize(answers)
             num_as == Cardinality(Numbers(answers, {T_A}))
             num_cnames == Cardinality(Numbers(answers, {T_CNAME}))
  <1>0. answers \in Seq(Answer) /\ Len(answers) = c + a
    BY DEF AliasesFirst
  <1>1. num_as = a /\ num_cnames = c
    BY AnswersCounted
  <1> HIDE DEF b, num_as, num_cnames
  <1>2. HAVE /\ SizeAnswers(m, s) = answers /\ FillAnswers(m, c + a, s) = answers
             /\ BlockSize(answers) \in Nat /\ BlockSize(answers) < 65536
  <1>3. b % 65536 = b
    BY <1>2 DEF b
  <1>4. info = [num_as |-> num_as, num_cnames |-> num_cnames, malloc_size |-> b % 65536]
    <2> DEFINE counted == [x \in Seq(Answer) |->
                             [num_as |-> Cardinality(Numbers(x, {T_A})),
                              num_cnames |-> Cardinality(Numbers(x, {T_CNAME})),
                              malloc_size |-> BlockSize(x) % 65536]]
    <2>1. info = counted[answers]
      BY <1>2 DEF findMallocSize, info
    <2>2. counted[answers] = [num_as |-> num_as, num_cnames |-> num_cnames,
                              malloc_size |-> b % 65536]
      BY <1>0 DEF num_as, num_cnames, b
    <2> QED
      BY <2>1, <2>2
  <1> HIDE DEF info
  <1>5. info.num_as = a /\ info.num_as + info.num_cnames = c + a /\ info.malloc_size = b
    BY <1>1, <1>3, <1>4
  <1>6. fill_hostent(m, s) = HostentOf(info, answers)
    <2> DEFINE filled == [x \in Seq(Answer) |-> HostentOf(info, x)]
    <2>1. fill_hostent(m, s) = filled[FillAnswers(m, info.num_as + info.num_cnames, s)]
      BY DEF fill_hostent, info
    <2>2. filled[answers] = HostentOf(info, answers)
      BY <1>0
    <2> QED
      BY <1>2, <1>5, <2>1, <2>2
  <1>7. /\ HostentOf(info, answers).malloc_size = info.malloc_size
        /\ HostentOf(info, answers).written
             = (Len(answers) + 2) * PointerSize + info.num_as * 4 + Total(Lengths(answers))
    BY DEF HostentOf
  <1> QED
    BY <1>0, <1>5, <1>6, <1>7 DEF info, b

=============================================================================

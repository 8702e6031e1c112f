--------------------------- MODULE ResolverProofs ---------------------------
(***************************************************************************)
(* Theorems about Resolver, for any hosts, addresses and replies and any     *)
(* size of the cache: the variables keep their types, and the cache          *)
(* implements the least-recently-used map of LruMap.                         *)
(***************************************************************************)
EXTENDS Resolver, DnsReplyProofs, FunctionTheorems

-----------------------------------------------------------------------------
(* The operators *)

\* A loop over the entries that stops at the first of S finds one.
LEMMA FirstOne ==
    ASSUME NEW S \in SUBSET Nat, S # {}
    PROVE  First(S) \in S /\ \A y \in S : First(S) <= y
  <1> DEFINE R == OpToRel(<, Nat)
  <1>1. IsWellFoundedOn(R, Nat)
    BY NatLessThanWellFounded
  <1>2. PICK x \in S : \A y \in S : ~ (<<y, x>> \in R)
    BY <1>1, WFMin, Zenon
  <1>3. \A y \in S : ~ (y < x)
    BY <1>2 DEF OpToRel
  <1>4. \A y \in S : x <= y
    BY <1>3
  <1> QED
    BY <1>4 DEF First

\* Where no entry is unused, find_LRU_cache_entry has one to give up.
LEMMA LeastOne ==
    ASSUME CacheType
    PROVE  Least(Slots) # {}
  <1> USE CacheAssumption DEF CacheAssumption
  <1> DEFINE S == {entry_cache[i].refcount : i \in Slots}
  <1>1. 0 \in Slots
    BY DEF Slots
  <1>2. S \subseteq Nat /\ S # {}
    BY <1>1 DEF CacheType
  <1>3. First(S) \in S /\ \A y \in S : First(S) <= y
    BY <1>2, FirstOne
  <1>4. PICK i \in Slots : First(S) = entry_cache[i].refcount
    BY <1>3
  <1>5. \A j \in Slots : entry_cache[i].refcount <= entry_cache[j].refcount
    BY <1>3, <1>4
  <1> QED
    BY <1>5 DEF Least

LEMMA SlotOK ==
    ASSUME CacheType
    PROVE  /\ Slot \in Slots
           /\ IF Found(NULL) # {} THEN Slot \in Found(NULL)
              ELSE \A j \in Slots : entry_cache[Slot].refcount <= entry_cache[j].refcount
  <1>1. Slots \subseteq Nat
    BY CacheAssumption DEF CacheAssumption, Slots
  <1>2. CASE Found(NULL) # {}
    <2>1. Found(NULL) \subseteq Slots
      BY DEF Found
    <2>2. First(Found(NULL)) \in Found(NULL)
      BY <1>1, <1>2, <2>1, FirstOne
    <2> QED
      BY <1>2, <2>1, <2>2 DEF Slot
  <1>3. CASE Found(NULL) = {}
    <2>1. Least(Slots) \subseteq Slots
      BY DEF Least
    <2>2. First(Least(Slots)) \in Least(Slots)
      BY <1>1, <2>1, LeastOne, FirstOne
    <2> QED
      BY <1>3, <2>1, <2>2 DEF Slot, find_LRU_cache_entry, Least
  <1> QED
    BY <1>2, <1>3

\* A name that is found is found in the one entry that has it.
LEMMA FoundOne ==
    ASSUME NEW h \in Hosts, Found(h) # {}
    PROVE  /\ First(Found(h)) \in UsedSlots
           /\ entry_cache[First(Found(h))].hostname = h
  <1> USE CacheAssumption DEF CacheAssumption
  <1>1. Found(h) \subseteq Nat
    BY DEF Found, Slots
  <1>2. First(Found(h)) \in Found(h)
    BY <1>1, FirstOne
  <1> QED
    BY <1>2 DEF Found, UsedSlots

\* The used entries are those that have a host's name.
LEMMA UsedHasName ==
    ASSUME CacheType
    PROVE  /\ UsedSlots = {i \in Slots : entry_cache[i].hostname \in Hosts}
           /\ Names \subseteq Hosts
  <1>1. \A i \in Slots : entry_cache[i].hostname \in Hosts \cup {NULL}
    BY DEF CacheType
  <1>2. NULL \notin Hosts
    BY CacheAssumption DEF CacheAssumption
  <1> QED
    BY <1>1, <1>2 DEF UsedSlots, Found, Names

LEMMA SlotOfOne ==
    ASSUME CacheType, CacheOK, NEW i \in UsedSlots
    PROVE  SlotOf(entry_cache[i].hostname) = i
  <1>1. entry_cache[i].hostname \in Hosts /\ i \in Slots
    BY UsedHasName
  <1> DEFINE j == SlotOf(entry_cache[i].hostname)
  <1>2. j \in Slots /\ entry_cache[j].hostname = entry_cache[i].hostname
    BY <1>1 DEF SlotOf
  <1>3. j \in UsedSlots
    BY <1>1, <1>2, UsedHasName
  <1> QED
    BY <1>2, <1>3 DEF CacheOK

\* There are as many names as used entries.
LEMMA NamesCounted ==
    ASSUME CacheType, CacheOK
    PROVE  /\ IsFiniteSet(Names) /\ Cardinality(Names) \in Nat
           /\ Found(NULL) = {} => Cardinality(Names) = CachedEntries
           /\ Found(NULL) # {} => Cardinality(Names) < CachedEntries
  <1> USE CacheAssumption DEF CacheAssumption
  <1>1. IsFiniteSet(Slots) /\ Cardinality(Slots) = CachedEntries
    <2>1. 0 \in Int /\ CachedEntries - 1 \in Int /\ ~ (0 > CachedEntries - 1)
      OBVIOUS
    <2>2. /\ IsFiniteSet(0 .. CachedEntries - 1)
          /\ Cardinality(0 .. CachedEntries - 1) = CachedEntries - 1 - 0 + 1
      BY <2>1, FS_Interval
    <2> QED
      BY <2>2 DEF Slots
  <1>2. UsedSlots \in SUBSET Slots
    BY DEF UsedSlots
  <1>3. /\ IsFiniteSet(UsedSlots) /\ Cardinality(UsedSlots) <= CachedEntries
        /\ CachedEntries = Cardinality(UsedSlots) => Slots = UsedSlots
    BY <1>1, <1>2, FS_Subset
  <1> DEFINE f == [i \in UsedSlots |-> entry_cache[i].hostname]
  <1>4. f \in Bijection(UsedSlots, Names)
    <2>1. f \in [UsedSlots -> Names] /\ \A n \in Names : \E i \in UsedSlots : f[i] = n
      BY DEF Names
    <2>2. \A i, j \in UsedSlots : f[i] = f[j] => i = j
      BY DEF CacheOK
    <2> QED
      BY <2>1, <2>2, Fun_IsBij
  <1>5. ExistsBijection(UsedSlots, Names)
    BY <1>4 DEF ExistsBijection
  <1>6. IsFiniteSet(Names) /\ Cardinality(Names) = Cardinality(UsedSlots)
    BY <1>3, <1>5, FS_Bijection
  <1>7. Cardinality(Names) \in Nat
    BY <1>6, FS_CardinalityType
  <1>8. Found(NULL) = {} => UsedSlots = Slots
    BY DEF UsedSlots
  <1>9. Found(NULL) # {} => UsedSlots # Slots
    BY DEF UsedSlots, Found
  <1> QED
    BY <1>1, <1>3, <1>6, <1>7, <1>8, <1>9

-----------------------------------------------------------------------------
(* A step of the cache keeps its invariant and is a step of LruMap. *)

\* What entry i becomes when host is used: all other entries stay.
LEMMA UseKeeps ==
    ASSUME CacheType, CacheOK, NEW h \in Hosts, NEW i \in Slots,
           entry_cache' \in [Slots -> [hostname : Hosts \cup {NULL},
                                      address : Addresses \cup {NULL}, refcount : Nat]],
           \A j \in Slots \ {i} : entry_cache'[j] = entry_cache[j],
           entry_cache'[i].hostname = h,
           entry_cache'[i].refcount = cache_refcount + 1,
           cache_refcount' = cache_refcount + 1,
           \A j \in Slots \ {i} : entry_cache[j].hostname # h,
           Touched(h)
    PROVE  CacheType' /\ CacheOK' /\ UsedSlots' = UsedSlots \cup {i}
  <1>1. CacheType'
    <2>1. cache_refcount' \in Nat
      BY DEF CacheType
    <2>2. used_before' \subseteq Hosts \X Hosts
      BY DEF CacheType, Touched
    <2> QED
      BY <2>1, <2>2 DEF CacheType, Slots
  <1>2. UsedSlots' = {j \in Slots : entry_cache'[j].hostname # NULL}
    BY DEF UsedSlots, Found, Slots
  <1>3. h # NULL
    BY CacheAssumption DEF CacheAssumption
  <1>4. UsedSlots' = UsedSlots \cup {i}
    BY <1>2, <1>3 DEF UsedSlots, Found
  <1>5. \A j \in Slots : entry_cache'[j].refcount <= cache_refcount'
    BY DEF CacheType, CacheOK
  <1>6. ASSUME NEW j \in UsedSlots', NEW k \in UsedSlots'
        PROVE  /\ entry_cache'[j].hostname = entry_cache'[k].hostname => j = k
               /\ <<entry_cache'[j].hostname, entry_cache'[k].hostname>> \in used_before'
                    <=> entry_cache'[j].refcount < entry_cache'[k].refcount
    <2>1. j \in Slots /\ k \in Slots
      BY <1>2
    <2>2. CASE j # i /\ k # i
      <3>1. j \in UsedSlots /\ k \in UsedSlots
        BY <1>4, <2>2
      <3>2. entry_cache'[j] = entry_cache[j] /\ entry_cache'[k] = entry_cache[k]
        BY <2>1, <2>2
      <3>3. entry_cache[j].hostname # h /\ entry_cache[k].hostname # h
        BY <2>1, <2>2
      <3>4. <<entry_cache[j].hostname, entry_cache[k].hostname>> \in used_before'
              <=> <<entry_cache[j].hostname, entry_cache[k].hostname>> \in used_before
        BY <3>3 DEF Touched
      <3> QED
        BY <3>1, <3>2, <3>4 DEF CacheOK
    <2>3. CASE j = i /\ k # i
      <3>1. entry_cache'[k] = entry_cache[k] /\ entry_cache[k].hostname # h
        BY <2>1, <2>3
      <3>2. <<h, entry_cache[k].hostname>> \notin used_before'
        BY <3>1 DEF Touched
      <3>3. ~ (entry_cache'[j].refcount < entry_cache'[k].refcount)
        BY <2>1, <2>3, <3>1 DEF CacheType, CacheOK
      <3> QED
        BY <2>3, <3>1, <3>2, <3>3
    <2>4. CASE j # i /\ k = i
      <3>1. entry_cache'[j] = entry_cache[j] /\ entry_cache[j].hostname # h
        BY <2>1, <2>4
      <3>2. entry_cache[j].hostname \in Hosts
        BY <1>4, <2>4, UsedHasName
      <3>3. <<entry_cache[j].hostname, h>> \in used_before'
        BY <3>1, <3>2 DEF Touched
      <3>4. entry_cache'[j].refcount < entry_cache'[k].refcount
        BY <2>1, <2>4, <3>1 DEF CacheType, CacheOK
      <3> QED
        BY <2>4, <3>1, <3>3, <3>4
    <2>5. CASE j = i /\ k = i
      <3>1. <<h, h>> \notin used_before'
        BY DEF Touched
      <3> QED
        BY <2>1, <2>5, <3>1
    <2> QED
      BY <2>2, <2>3, <2>4, <2>5
  <1>7. CacheOK'
    BY <1>5, <1>6 DEF CacheOK, Slots
  <1> QED
    BY <1>1, <1>4, <1>7

\* A hit keeps the entries, and is a use of the name.
LEMMA HitStep ==
    ASSUME CacheType, CacheOK, NEW h \in Hosts, Hit(h)
    PROVE  CacheType' /\ CacheOK' /\ Lru!Use(h)
  <1> DEFINE i == First(Found(h))
  <1>1. i \in UsedSlots /\ i \in Slots /\ entry_cache[i].hostname = h
    BY FoundOne DEF Hit, UsedSlots
  <1>2. entry_cache' = [entry_cache EXCEPT ![i].refcount = cache_refcount + 1]
    BY DEF Hit, Used
  <1>3. entry_cache' \in [Slots -> [hostname : Hosts \cup {NULL},
                                   address : Addresses \cup {NULL}, refcount : Nat]]
    BY <1>1, <1>2 DEF CacheType
  <1>4. /\ \A j \in Slots \ {i} : entry_cache'[j] = entry_cache[j]
        /\ entry_cache'[i].refcount = cache_refcount + 1
        /\ \A j \in Slots : /\ entry_cache'[j].hostname = entry_cache[j].hostname
                            /\ entry_cache'[j].address = entry_cache[j].address
    BY <1>1, <1>2 DEF CacheType
  <1>5. \A j \in Slots \ {i} : entry_cache[j].hostname # h
    <2> SUFFICES ASSUME NEW j \in Slots, entry_cache[j].hostname = h
                 PROVE  j = i
      OBVIOUS
    <2>1. j \in UsedSlots
      BY UsedHasName
    <2> QED
      BY <1>1, <2>1 DEF CacheOK
  <1>6. cache_refcount' = cache_refcount + 1 /\ Touched(h)
    BY DEF Hit
  <1>7. CacheType' /\ CacheOK' /\ UsedSlots' = UsedSlots \cup {i}
    BY <1>1, <1>3, <1>4, <1>5, <1>6, UseKeeps
  <1>8. UsedSlots' = UsedSlots
    BY <1>1, <1>7
  <1>9. Names' = Names
    BY <1>4, <1>8 DEF Names, UsedSlots
  <1>10. Stored' = Stored
    <2>1. ASSUME NEW n \in Names PROVE entry_cache'[SlotOf(n)'].address = entry_cache[SlotOf(n)].address
      <3>1. SlotOf(n)' = SlotOf(n)
        BY <1>4 DEF SlotOf, Slots
      <3>2. SlotOf(n) \in Slots
        BY SlotOfOne DEF Names, UsedSlots
      <3> QED
        BY <1>4, <3>1, <3>2
    <2> QED
      BY <1>9, <2>1 DEF Stored
  <1>11. h \in Names
    BY <1>1 DEF Names
  <1>12. Older' = {p \in Older : p[1] \in Names \ {h} /\ p[2] \in Names \ {h}}
                    \cup ((Names \ {h}) \X {h})
    BY <1>6, <1>9, <1>11, UsedHasName DEF Older, Touched
  <1> QED
    BY <1>7, <1>10, <1>11, <1>12 DEF Lru!Use, Lru!Among, Stored

\* A new name takes an unused entry, or that of the name that was not used for
\* longest.
LEMMA NewStep ==
    ASSUME CacheType, CacheOK, NEW h \in Hosts, NEW v \in Addresses,
           Found(h) = {}, set_cache_entry(Slot, h, v)
    PROVE  CacheType' /\ CacheOK' /\ Lru!Put(h, v)
  <1> DEFINE i == Slot
  <1>1. i \in Slots
    BY SlotOK
  <1>2. entry_cache' = [entry_cache EXCEPT ![i] =
                          [hostname |-> h, address |-> v, refcount |-> cache_refcount + 1]]
    BY DEF set_cache_entry, NewEntry
  <1>3. /\ \A j \in Slots \ {i} : entry_cache'[j] = entry_cache[j]
        /\ entry_cache'[i] = [hostname |-> h, address |-> v, refcount |-> cache_refcount + 1]
    BY <1>1, <1>2 DEF CacheType
  <1>4. entry_cache' \in [Slots -> [hostname : Hosts \cup {NULL},
                                   address : Addresses \cup {NULL}, refcount : Nat]]
    <2>1. cache_refcount + 1 \in Nat
      BY DEF CacheType
    <2> QED
      BY <1>1, <1>2, <2>1 DEF CacheType
  <1>5. \A j \in Slots : entry_cache[j].hostname # h
    BY DEF Found
  <1>6. cache_refcount' = cache_refcount + 1 /\ Touched(h)
    BY DEF set_cache_entry
  <1>7. CacheType' /\ CacheOK' /\ UsedSlots' = UsedSlots \cup {i}
    BY <1>1, <1>3, <1>4, <1>5, <1>6, UseKeeps
  <1> DEFINE given_up == IF i \in UsedSlots THEN {entry_cache[i].hostname} ELSE {}
             kept == Names \ given_up
  <1>8. h \notin Names
    BY <1>5 DEF Names, UsedSlots
  <1>9. kept = {entry_cache[j].hostname : j \in UsedSlots \ {i}}
    <2>1. \A j, k \in UsedSlots : entry_cache[j].hostname = entry_cache[k].hostname => j = k
      BY DEF CacheOK
    <2> QED
      BY <2>1 DEF Names
  <1>10. Names' = kept \cup {h}
    <2>1. Names' = {entry_cache'[j].hostname : j \in UsedSlots \cup {i}}
      BY <1>7 DEF Names
    <2>2. \A j \in UsedSlots \ {i} : entry_cache'[j].hostname = entry_cache[j].hostname
      BY <1>3 DEF UsedSlots
    <2> QED
      BY <1>3, <1>9, <2>1, <2>2
  <1>11. ASSUME NEW n \in Names'
         PROVE  entry_cache'[SlotOf(n)'].address = IF n = h THEN v ELSE Stored[n]
    <2>1. PICK j \in UsedSlots' : n = entry_cache'[j].hostname
      BY DEF Names
    <2>2. SlotOf(n)' = j
      <3>1. \A k \in Slots : entry_cache'[k].hostname = n => k \in UsedSlots'
        <4>1. n # NULL
          BY <1>3, <1>7, <1>10, UsedHasName, CacheAssumption DEF CacheAssumption
        <4> QED
          BY <4>1 DEF UsedSlots, Found, Slots
      <3>2. j \in Slots
        BY <1>1, <1>7, <2>1 DEF UsedSlots
      <3>3. SlotOf(n)' \in Slots /\ entry_cache'[SlotOf(n)'].hostname = n
        BY <2>1, <3>2 DEF SlotOf, Slots
      <3> QED
        BY <1>7, <2>1, <3>1, <3>3 DEF CacheOK
    <2>3. CASE j = i
      BY <1>3, <2>1, <2>2, <2>3
    <2>4. CASE j # i
      <3>1. j \in UsedSlots /\ j \in Slots
        BY <1>7, <2>1, <2>4 DEF UsedSlots
      <3>2. entry_cache'[j] = entry_cache[j] /\ n = entry_cache[j].hostname
        BY <1>3, <2>1, <2>4, <3>1
      <3>3. n \in Names /\ SlotOf(n) = j /\ n # h
        BY <1>5, <3>1, <3>2, SlotOfOne DEF Names
      <3> QED
        BY <2>2, <3>2, <3>3 DEF Stored
    <2> QED
      BY <2>3, <2>4
  <1>12. Stored' = [n \in kept \cup {h} |-> IF n = h THEN v ELSE Stored[n]]
    BY <1>10, <1>11 DEF Stored
  <1>13. Older' = {p \in Older : p[1] \in kept \ {h} /\ p[2] \in kept \ {h}}
                     \cup ((kept \ {h}) \X {h})
    <2>1. kept \subseteq Names /\ kept \subseteq Hosts /\ h \notin kept
      BY <1>8, UsedHasName
    <2>2. used_before' = {p \in used_before : p[1] # h /\ p[2] # h}
                         \cup ((Hosts \ {h}) \X {h})
      BY <1>6 DEF Touched
    <2>3. used_before \subseteq Hosts \X Hosts
      BY DEF CacheType
    <2>4. Older' = used_before' \cap ((kept \cup {h}) \X (kept \cup {h}))
      BY <1>10 DEF Older
    <2>5. Older = used_before \cap (Names \X Names)
      BY DEF Older
    <2> HIDE DEF kept
    <2> QED
      BY <2>1, <2>2, <2>3, <2>4, <2>5
  <1>14. given_up \subseteq {g \in Names : \A f \in Names : <<f, g>> \notin Older}
    <2> SUFFICES ASSUME i \in UsedSlots
                 PROVE  /\ entry_cache[i].hostname \in Names
                        /\ \A f \in Names : <<f, entry_cache[i].hostname>> \notin Older
      <3> HIDE DEF i
      <3> QED
        OBVIOUS
    <2> SUFFICES ASSUME NEW f \in Names
                 PROVE  entry_cache[i].hostname \in Names /\ <<f, entry_cache[i].hostname>> \notin Older
      BY DEF Names
    <2>1. PICK j \in UsedSlots : f = entry_cache[j].hostname
      BY DEF Names
    <2>2. Found(NULL) = {}
      BY SlotOK DEF UsedSlots
    <2>3. entry_cache[i].refcount <= entry_cache[j].refcount
      BY <2>1, <2>2, SlotOK DEF UsedSlots
    <2>4. ~ (entry_cache[j].refcount < entry_cache[i].refcount)
      BY <1>1, <2>1, <2>3 DEF CacheType, UsedSlots
    <2>5. <<f, entry_cache[i].hostname>> \notin used_before
      BY <2>1, <2>4 DEF CacheOK
    <2> QED
      BY <2>5 DEF Names, Older
  <1>15. Cardinality(given_up) = IF Cardinality(Names) < CachedEntries THEN 0 ELSE 1
    <2>1. CachedEntries \in Nat
      BY CacheAssumption DEF CacheAssumption
    <2>2. CASE Found(NULL) = {}
      <3>1. i \in UsedSlots
        BY <1>1, <2>2 DEF UsedSlots
      <3>2. Cardinality(given_up) = 1
        BY <3>1, FS_Singleton
      <3>3. ~ (Cardinality(Names) < CachedEntries)
        BY <2>1, <2>2, NamesCounted
      <3> QED
        BY <3>2, <3>3
    <2>3. CASE Found(NULL) # {}
      <3>1. i \notin UsedSlots
        BY <2>3, SlotOK DEF UsedSlots
      <3>2. Cardinality(given_up) = 0
        BY <3>1, FS_EmptySet
      <3>3. Cardinality(Names) < CachedEntries
        BY <2>3, NamesCounted
      <3> QED
        BY <3>2, <3>3
    <2> QED
      BY <2>2, <2>3
  <1>16. DOMAIN Stored = Names
    BY DEF Stored
  <1>17. /\ given_up \in SUBSET Lru!Oldest
         /\ Cardinality(given_up) = IF Cardinality(DOMAIN Stored) < CachedEntries THEN 0 ELSE 1
    BY <1>14, <1>15, <1>16 DEF Lru!Oldest
  <1>18. /\ Lru!Cardinality(given_up) = Cardinality(given_up)
         /\ Lru!Cardinality(DOMAIN Stored) = Cardinality(DOMAIN Stored)
    BY DEF Lru!Cardinality, Cardinality
  <1> HIDE DEF given_up
  <1> QED
    BY <1>7, <1>8, <1>12, <1>13, <1>16, <1>17, <1>18 DEF Lru!Put, Lru!Among

LEMMA StoreStep ==
    ASSUME CacheType, CacheOK, NEW h \in Hosts, NEW ip, store_in_cache(h, ip)
    PROVE  CacheType' /\ CacheOK' /\ [Lru!Next]_<<Stored, Older>>
  <1>1. CASE UNCHANGED cache
    <2>1. entry_cache' = entry_cache /\ cache_refcount' = cache_refcount /\ used_before' = used_before
      BY <1>1 DEF cache
    <2>2. CacheType' /\ UsedSlots' = UsedSlots
      BY <2>1 DEF CacheType, UsedSlots, Found, Slots
    <2>3. CacheOK'
      BY <2>1, <2>2 DEF CacheOK, Slots
    <2>4. Stored' = Stored /\ Older' = Older
      BY <2>1, <2>2 DEF Stored, Older, Names, SlotOf, Slots
    <2> QED
      BY <2>2, <2>3, <2>4
  <1>2. CASE ip \in Addresses /\ Hit(h)
    BY <1>2, HitStep DEF Lru!Next
  <1>3. CASE ip \in Addresses /\ Found(h) = {} /\ set_cache_entry(Slot, h, ip)
    BY <1>3, NewStep DEF Lru!Next
  <1> QED
    BY <1>1, <1>2, <1>3 DEF store_in_cache

-----------------------------------------------------------------------------
(* The look-ups *)

LEMMA InitIInv ==
    Init => IInv /\ Lru!Init
  <1> SUFFICES ASSUME Init PROVE IInv /\ Lru!Init
    OBVIOUS
  <1> USE CacheAssumption, ResolverAssumption DEF CacheAssumption, ResolverAssumption
  <1>1. CacheType
    BY DEF Init, CacheInit, CacheType
  <1>2. TypeOK
    <2>1. signed \in CharSigned /\ astray \in BOOLEAN
      BY DEF Init
    <2>2. rx \in Seq(DOMAIN Replies) /\ wire \subseteq DOMAIN Replies
      BY DEF Init
    <2>3. calls \in 0 .. MaxCalls
      BY DEF Init
    <2>4. pc \in {"idle", "asked"} /\ host \in IF pc = "idle" THEN {NULL} ELSE Hosts
      BY DEF Init
    <2> QED
      BY <1>1, <2>1, <2>2, <2>3, <2>4 DEF Init, TypeOK
  <1>3. UsedSlots = {}
    BY DEF Init, CacheInit, UsedSlots, Found
  <1>4. CacheOK
    BY <1>3 DEF Init, CacheInit, CacheOK
  <1>5. Names = {}
    BY <1>3 DEF Names
  <1>6. Stored = <<>>
    BY <1>5 DEF Stored
  <1>7. Older = {}
    BY <1>5 DEF Older
  <1> QED
    BY <1>2, <1>4, <1>6, <1>7 DEF IInv, Lru!Init

LEMMA CacheUnchanged ==
    ASSUME IInv, UNCHANGED cache
    PROVE  CacheType' /\ CacheOK' /\ UNCHANGED <<Stored, Older>>
  <1>1. entry_cache' = entry_cache /\ cache_refcount' = cache_refcount /\ used_before' = used_before
    BY DEF cache
  <1>2. CacheType' /\ UsedSlots' = UsedSlots
    BY <1>1 DEF IInv, TypeOK, CacheType, UsedSlots, Found, Slots
  <1>3. CacheOK'
    BY <1>1, <1>2 DEF IInv, CacheOK, Slots
  <1>4. Stored' = Stored /\ Older' = Older
    BY <1>1, <1>2 DEF Stored, Older, Names, SlotOf, Slots
  <1> QED
    BY <1>2, <1>3, <1>4

LEMMA CountedCall ==
    ASSUME IInv, StartCall
    PROVE  calls' \in 0 .. MaxCalls
  BY ResolverAssumption DEF ResolverAssumption, IInv, TypeOK, StartCall

\* A query is on its way, for a host.
LEMMA QueryKeeps ==
    ASSUME IInv, NEW name \in Hosts, NEW by, sendQuery(name, by)
    PROVE  /\ pc' = "asked" /\ host' = name
           /\ wire' \subseteq DOMAIN Replies /\ rx' \in Seq(DOMAIN Replies)
  <1>1. rx' \in Seq(DOMAIN Replies)
    BY DEF sendQuery
  <1>2. wire' \subseteq DOMAIN Replies
    BY DEF sendQuery, RepliesTo, IInv, TypeOK
  <1> QED
    BY <1>1, <1>2 DEF sendQuery

LEMMA NgethostbynameStep ==
    ASSUME IInv, NEW name \in Hosts, ngethostbyname(name)
    PROVE  IInv' /\ [Lru!Next]_<<Stored, Older>>
  <1>1. /\ calls' \in 0 .. MaxCalls /\ signed' = signed /\ astray' = astray
        /\ hostent' \in Messages \cup {NoHostent}
    BY CountedCall DEF ngethostbyname
  <1>2. CASE Found(name) # {}
    <2>1. Hit(name) /\ pc' = pc /\ host' = host /\ wire' = wire /\ rx' = rx
      BY <1>2 DEF ngethostbyname, call
    <2>2. CacheType' /\ CacheOK' /\ Lru!Use(name)
      BY <2>1, HitStep DEF IInv, TypeOK
    <2>3. TypeOK'
      BY <1>1, <2>1, <2>2 DEF IInv, TypeOK, Messages
    <2> QED
      BY <2>2, <2>3 DEF IInv, Lru!Next
  <1>3. CASE Found(name) = {}
    <2>1. sendQuery(name, "ngethostbyname") /\ UNCHANGED cache
      BY <1>3 DEF ngethostbyname
    <2>2. CacheType' /\ CacheOK' /\ UNCHANGED <<Stored, Older>>
      BY <2>1, CacheUnchanged
    <2>3. TypeOK'
      BY <1>1, <2>1, <2>2, QueryKeeps DEF IInv, TypeOK, Messages
    <2> QED
      BY <2>2, <2>3 DEF IInv
  <1> QED
    BY <1>2, <1>3

LEMMA GethostbynameStep ==
    ASSUME IInv, NEW name \in Hosts, gethostbyname_impl(name)
    PROVE  IInv' /\ UNCHANGED <<Stored, Older>>
  <1>1. /\ calls' \in 0 .. MaxCalls /\ signed' = signed /\ astray' = astray
        /\ hostent' \in Messages \cup {NoHostent}
    BY CountedCall DEF gethostbyname_impl
  <1>2. sendQuery(name, "gethostbyname_impl") /\ UNCHANGED cache
    BY DEF gethostbyname_impl
  <1>3. CacheType' /\ CacheOK' /\ UNCHANGED <<Stored, Older>>
    BY <1>2, CacheUnchanged
  <1>4. TypeOK'
    BY <1>1, <1>2, <1>3, QueryKeeps DEF IInv, TypeOK, Messages
  <1> QED
    BY <1>3, <1>4 DEF IInv

LEMMA ReceiveStep ==
    ASSUME IInv, Receive
    PROVE  IInv' /\ [Lru!Next]_<<Stored, Older>>
  <1>1. PICK k \in Received :
          /\ pc = "asked"
          /\ \/ (\E ip : store_in_cache(host, ip)) /\ hostent' = hostent
             \/ hostent' \in {NoHostent, k} /\ UNCHANGED cache
          /\ astray' = (astray \/ k \notin {0} \cup RepliesTo(host))
          /\ pc' = "idle" /\ host' = NULL /\ rx' = <<>>
          /\ signed' = signed /\ wire' = wire /\ calls' = calls
    BY Zenon DEF Receive
  <1>2. k \in Messages
    BY DEF Received, Messages, IInv, TypeOK
  <1>3. CacheType' /\ CacheOK' /\ [Lru!Next]_<<Stored, Older>>
    <2>1. CASE \E ip : store_in_cache(host, ip)
      BY <1>1, <2>1, StoreStep DEF IInv, TypeOK
    <2>2. CASE UNCHANGED cache
      BY <2>2, CacheUnchanged
    <2> QED
      BY <1>1, <2>1, <2>2
  <1>4. hostent' \in Messages \cup {NoHostent}
    BY <1>1, <1>2 DEF IInv, TypeOK
  <1>5. astray' \in BOOLEAN
    BY <1>1 DEF IInv, TypeOK
  <1>6. TypeOK'
    BY <1>1, <1>3, <1>4, <1>5 DEF IInv, TypeOK, Messages
  <1> QED
    BY <1>3, <1>6 DEF IInv

LEMMA ArriveStep ==
    ASSUME IInv, Arrive
    PROVE  IInv' /\ UNCHANGED <<Stored, Older>>
  <1>1. PICK k \in wire : wire' = wire \ {k} /\ rx' = Append(rx, k)
    BY DEF Arrive
  <1>2. UNCHANGED <<cache, signed, call, results, calls>>
    BY DEF Arrive
  <1>3. CacheType' /\ CacheOK' /\ UNCHANGED <<Stored, Older>>
    BY <1>2, CacheUnchanged
  <1>4. rx' \in Seq(DOMAIN Replies) /\ wire' \subseteq DOMAIN Replies
    BY <1>1 DEF IInv, TypeOK
  <1>5. TypeOK'
    BY <1>2, <1>3, <1>4 DEF IInv, TypeOK, call, results, Messages
  <1> QED
    BY <1>3, <1>5 DEF IInv

LEMMA NextIInv ==
    IInv /\ [Next]_vars => IInv' /\ [Lru!Next]_<<Stored, Older>>
  <1> SUFFICES ASSUME IInv, [Next]_vars
               PROVE  IInv' /\ [Lru!Next]_<<Stored, Older>>
    OBVIOUS
  <1>1. CASE \E name \in Hosts : ngethostbyname(name)
    BY <1>1, NgethostbynameStep
  <1>2. CASE \E name \in Hosts : gethostbyname_impl(name)
    BY <1>2, GethostbynameStep
  <1>3. CASE Receive
    BY <1>3, ReceiveStep
  <1>4. CASE Arrive
    BY <1>4, ArriveStep
  <1>5. CASE UNCHANGED vars
    <2>1. UNCHANGED <<cache, signed, call, wire, rx, results, calls>>
      BY <1>5 DEF vars
    <2>2. CacheType' /\ CacheOK' /\ UNCHANGED <<Stored, Older>>
      BY <2>1, CacheUnchanged
    <2>3. TypeOK'
      BY <2>1, <2>2 DEF IInv, TypeOK, call, results, Messages
    <2> QED
      BY <2>2, <2>3 DEF IInv
  <1> QED
    BY <1>1, <1>2, <1>3, <1>4, <1>5 DEF Next

\* Whatever is looked up, answered, lost or late, every variable keeps its
\* type, no name has two entries in the cache, and the counts of the entries
\* are in the order of their last uses.
THEOREM CacheInvariant ==
    Spec => []IInv
  <1>1. Init => IInv
    BY InitIInv
  <1>2. IInv /\ [Next]_vars => IInv'
    BY NextIInv
  <1> QED
    BY <1>1, <1>2, PTL DEF Spec

\* The cache is a least-recently-used map, for any number of entries: hits,
\* misses and stores of ngethostbyname are its Use and Put, and everything else
\* leaves it alone.
THEOREM CacheIsLru ==
    Spec => ImplementsLru
  <1>1. Init => Lru!Init
    BY InitIInv
  <1>2. IInv /\ [Next]_vars => [Lru!Next]_<<Stored, Older>>
    BY NextIInv
  <1> QED
    BY <1>1, <1>2, CacheInvariant, PTL DEF Spec, ImplementsLru, Lru!Spec

-----------------------------------------------------------------------------
(* The answers *)

\* A step of the cache that gives host no address but one of its own.
LEMMA CacheStaysTrue ==
    ASSUME CacheType, CacheOK, NEW h \in Hosts, NEW ip, store_in_cache(h, ip) \/ Hit(h),
           ip \in Addresses => ip \in AddressesOf(h),
           \A i \in UsedSlots : entry_cache[i].address \in AddressesOf(entry_cache[i].hostname)
    PROVE  \A i \in UsedSlots' : entry_cache'[i].address \in AddressesOf(entry_cache'[i].hostname)
  <1>1. UsedSlots' = {i \in Slots : entry_cache'[i].hostname # NULL}
    BY DEF UsedSlots, Found, Slots
  <1>2. CASE UNCHANGED cache
    BY <1>1, <1>2 DEF cache, UsedSlots, Found
  <1>3. CASE Hit(h)
    <2> DEFINE i == First(Found(h))
    <2>1. i \in Slots
      BY <1>3, FoundOne DEF Hit, UsedSlots
    <2>2. entry_cache' = [entry_cache EXCEPT ![i].refcount = cache_refcount + 1]
      BY <1>3 DEF Hit, Used
    <2>3. \A j \in Slots : /\ entry_cache'[j].hostname = entry_cache[j].hostname
                           /\ entry_cache'[j].address = entry_cache[j].address
      BY <2>1, <2>2 DEF CacheType
    <2> QED
      BY <1>1, <2>3 DEF UsedSlots, Found
  <1>4. CASE ip \in Addresses /\ set_cache_entry(Slot, h, ip)
    <2>1. entry_cache' = [entry_cache EXCEPT ![Slot] =
                            [hostname |-> h, address |-> ip, refcount |-> cache_refcount + 1]]
      BY <1>4 DEF set_cache_entry, NewEntry
    <2>2. /\ entry_cache'[Slot] = [hostname |-> h, address |-> ip,
                                   refcount |-> cache_refcount + 1]
          /\ \A j \in Slots \ {Slot} : entry_cache'[j] = entry_cache[j]
      BY <2>1, SlotOK DEF CacheType
    <2> QED
      BY <1>1, <1>4, <2>2 DEF UsedSlots, Found
  <1> QED
    BY <1>2, <1>3, <1>4 DEF store_in_cache

\* A step that gives no answer and leaves the cache alone.
LEMMA NoAnswerKeeps ==
    ASSUME AnswerIsTrue, UNCHANGED <<cache, astray>>, answer' \in {answer, NoAnswer}
    PROVE  AnswerIsTrue'
  <1>1. UsedSlots' = UsedSlots /\ entry_cache' = entry_cache /\ astray' = astray
    BY DEF cache, UsedSlots, Found, Slots
  <1>2. answer' = answer \/ answer'.ip = NoAddress
    BY DEF NoAnswer
  <1> QED
    BY <1>1, <1>2 DEF AnswerIsTrue

\* An answer from the cache is one that a reply gave, and a query gives none yet.
LEMMA HitIsTrue ==
    ASSUME IInv, AnswerIsTrue, NEW name \in Hosts, ngethostbyname(name)
    PROVE  AnswerIsTrue'
  <1>1. CASE Found(name) # {}
    <2>1. /\ Hit(name) /\ astray' = astray
          /\ answer' = [host |-> name, ip |-> entry_cache[First(Found(name))].address]
      BY <1>1 DEF ngethostbyname
    <2>2. CASE ~astray
      <3>1. \A i \in UsedSlots :
               entry_cache[i].address \in AddressesOf(entry_cache[i].hostname)
        BY <2>2 DEF AnswerIsTrue
      <3>2. answer'.ip \in AddressesOf(answer'.host)
        BY <1>1, <2>1, <3>1, FoundOne
      <3>3. NoAddress \notin Addresses
        BY ResolverAssumption DEF ResolverAssumption
      <3>4. \A i \in UsedSlots' :
               entry_cache'[i].address \in AddressesOf(entry_cache'[i].hostname)
        BY <2>1, <3>1, <3>3, CacheStaysTrue DEF IInv, TypeOK
      <3> QED
        BY <3>2, <3>4 DEF AnswerIsTrue
    <2> QED
      BY <2>1, <2>2 DEF AnswerIsTrue
  <1>2. CASE Found(name) = {}
    BY <1>2, NoAnswerKeeps DEF ngethostbyname
  <1> QED
    BY <1>1, <1>2

\* What is answered and stored comes from a reply to this host, or astray is set.
LEMMA ReceiveIsTrue ==
    ASSUME RepliesAreRead, IInv, AnswerIsTrue, Receive
    PROVE  AnswerIsTrue'
  <1>1. PICK k \in Received :
          /\ pc = "asked"
          /\ \/ /\ answer' = [host |-> host, ip |-> IpIn(k, signed)]
                /\ store_in_cache(host, IpIn(k, signed))
             \/ UNCHANGED <<cache, answer>>
          /\ astray' = (astray \/ k \notin {0} \cup RepliesTo(host))
    BY Zenon DEF Receive
  <1>2. CASE astray'
    BY <1>2 DEF AnswerIsTrue
  <1>3. CASE ~astray' /\ UNCHANGED <<cache, answer>>
    <2>1. ~astray /\ ~astray'
      BY <1>1, <1>3
    <2>2. UNCHANGED astray
      BY <1>1, <2>1, <1>3 DEF IInv, TypeOK
    <2> QED
      BY <1>3, <2>2, NoAnswerKeeps
  <1>4. CASE /\ ~astray'
             /\ answer' = [host |-> host, ip |-> IpIn(k, signed)]
             /\ store_in_cache(host, IpIn(k, signed))
    <2> DEFINE ip == IpIn(k, signed)
    <2>1. ~astray /\ k \in {0} \cup RepliesTo(host)
      BY <1>1, <1>4
    <2>2. host \in Hosts /\ signed \in CharSigned
      BY <1>1 DEF IInv, TypeOK
    <2>3. ip \in AddressesOf(host) \cup {NoAddress}
      <3>1. CASE k = 0
        BY <2>2, <3>1 DEF RepliesAreRead
      <3>2. CASE k \in RepliesTo(host)
        <4>1. k \in DOMAIN Replies
          BY <3>2 DEF RepliesTo
        <4>2. ip \in Range(Replies[k].addresses) \cup {NoAddress}
          BY <2>2, <4>1 DEF RepliesAreRead
        <4> QED
          BY <3>2, <4>2 DEF AddressesOf
      <3> QED
        BY <2>1, <3>1, <3>2
    <2>4. \A i \in UsedSlots' :
             entry_cache'[i].address \in AddressesOf(entry_cache'[i].hostname)
      <3>1. NoAddress \notin Addresses
        BY ResolverAssumption DEF ResolverAssumption
      <3>2. \A i \in UsedSlots :
               entry_cache[i].address \in AddressesOf(entry_cache[i].hostname)
        BY <2>1 DEF AnswerIsTrue
      <3> HIDE DEF ip
      <3>3. store_in_cache(host, ip)
        BY <1>4 DEF ip
      <3> QED
        BY <2>2, <2>3, <3>1, <3>2, <3>3, CacheStaysTrue DEF IInv, TypeOK
    <2> QED
      BY <1>4, <2>3, <2>4 DEF AnswerIsTrue
  <1> QED
    BY <1>1, <1>2, <1>3, <1>4

\* Whatever is lost or late, as long as every reply is taken by its own query,
\* the cache and the answers hold an address of the host or none: for any hosts,
\* any number of entries, and any replies that findIp reads well one by one.
THEOREM AnswersAreTrue ==
    ASSUME RepliesAreRead
    PROVE  Spec => []AnswerIsTrue
  <1>1. Init => AnswerIsTrue
    <2> SUFFICES ASSUME Init PROVE AnswerIsTrue
      OBVIOUS
    <2>1. UsedSlots = {}
      BY DEF Init, CacheInit, UsedSlots, Found
    <2> QED
      BY <2>1 DEF Init, NoAnswer, AnswerIsTrue
  <1>2. IInv /\ AnswerIsTrue /\ [Next]_vars => AnswerIsTrue'
    <2> SUFFICES ASSUME IInv, AnswerIsTrue, [Next]_vars PROVE AnswerIsTrue'
      OBVIOUS
    <2>1. CASE \E name \in Hosts : ngethostbyname(name)
      BY <2>1, HitIsTrue
    <2>2. CASE \E name \in Hosts : gethostbyname_impl(name)
      BY <2>2, NoAnswerKeeps DEF gethostbyname_impl
    <2>3. CASE Receive
      BY <2>3, ReceiveIsTrue
    <2>4. CASE Arrive
      BY <2>4, NoAnswerKeeps DEF Arrive, results
    <2>5. CASE UNCHANGED vars
      BY <2>5, NoAnswerKeeps DEF vars, results
    <2> QED
      BY <2>1, <2>2, <2>3, <2>4, <2>5 DEF Next
  <1> QED
    BY <1>1, <1>2, CacheInvariant, PTL DEF Spec

-----------------------------------------------------------------------------
(* The hostent *)

\* A reply that both walks understand, with what they find in it.
LEMMA UnderstoodIs ==
    ASSUME RecordsAreFound, NEW k \in Messages, NEW s \in CharSigned,
           <<k, s>> \in Understood
    PROVE  \E found :
              /\ SizeAnswers(Bytes[k], s) = found
              /\ FillAnswers(Bytes[k], Len(found), s) = found
              /\ BlockSize(found) \in Nat /\ BlockSize(found) < 65536
              /\ AreRecordsOf(found, Message(k))
              /\ Filled[Bytes[k]][s] = fill_hostent(Bytes[k], s)
  <1> DEFINE m == Bytes[k]
  <1>1. s \in BOOLEAN /\ m \in Texts
    BY ResolverAssumption DEF ResolverAssumption, Texts
  <1>2. LET found == SizeAnswers(m, s) IN
        /\ AreRecordsOf(found, Message(k))
        /\ FillAnswers(m, Len(found), s) = found
        /\ BlockSize(found) \in Nat /\ BlockSize(found) < 65536
    BY DEF RecordsAreFound
  <1> HIDE DEF m
  <1>3. Filled[m][s] = fill_hostent(m, s)
    BY <1>1, Zenon DEF Filled
  <1> QED
    BY <1>2, <1>3 DEF m

\* What gethostbyname_impl makes of such a reply.
LEMMA ContentIs ==
    ASSUME RecordsAreFound, TypeOK, IsUnderstood
    PROVE  LET r == Message(hostent) IN
           /\ Content.h_addr_list = r.addresses
           /\ Content.h_aliases = Front(r.chain)
           /\ Content.h_name = IF r.addresses = <<>> THEN NoName ELSE Last(r.chain)
           /\ Len(r.addresses) <= 2 => Content.written <= Content.malloc_size
  <1> DEFINE r == Message(hostent)
             c == Len(r.chain) - 1
             a == Len(r.addresses)
             m == Bytes[hostent]
  <1>1. hostent \in Messages /\ signed \in CharSigned /\ <<hostent, signed>> \in Understood
    BY DEF IsUnderstood, TypeOK
  <1>2. r.chain \in Seq(Seq(Seq(Nat))) \ {<<>>} /\ r.addresses \in Seq(Seq(Nat))
    BY <1>1, ResolverAssumption DEF ResolverAssumption, Messages, Message
  <1>3. PICK found :
           /\ SizeAnswers(m, signed) = found
           /\ FillAnswers(m, Len(found), signed) = found
           /\ BlockSize(found) \in Nat /\ BlockSize(found) < 65536
           /\ AreRecordsOf(found, r)
           /\ Content = fill_hostent(m, signed)
    BY <1>1, UnderstoodIs DEF Content
  <1> HIDE DEF r, m
  <1>4. c \in Nat /\ a \in Nat
    BY <1>2
  <1>5. /\ AliasesFirst(found, c, a)
        /\ \A j \in 1 .. c + a : found[j].labels = r.chain[IF j <= c THEN j ELSE c + 1]
        /\ \A j \in 1 .. a : found[c + j].data = r.addresses[j]
    <2>1. AreRecordsOf(found, r)
      BY <1>3
    <2> QED
      BY <2>1 DEF AreRecordsOf
  <1>6. /\ Len(r.chain) = c + 1
        /\ Front(r.chain) = [j \in 1 .. c |-> r.chain[j]]
        /\ Last(r.chain) = r.chain[c + 1]
        /\ r.addresses = [j \in 1 .. a |-> r.addresses[j]]
        /\ r.addresses = <<>> <=> a = 0
    BY <1>2 DEF Front, Last
  <1>7. Len(found) = c + a
    BY <1>5 DEF AliasesFirst
  <1> HIDE DEF c, a
  <1> DEFINE info == findMallocSize(m, signed)
             content == Content
  <1>8. /\ content = HostentOf(info, found)
        /\ content.malloc_size = BlockSize(found)
        /\ content.written = (c + a + 2) * PointerSize + a * 4 + Total(Lengths(found))
    BY <1>3, <1>4, <1>5, <1>7, FilledFrom
  <1> HIDE DEF info, content
  <1>9. /\ content.h_name = IF a = 0 THEN NoName ELSE found[c + a].labels
        /\ content.h_aliases = [j \in 1 .. c |-> found[j].labels]
        /\ content.h_addr_list = [j \in 1 .. a |-> found[c + j].data]
    <2> DEFINE h == HostentOf(info, found)
    <2>1. /\ h.h_name = IF a = 0 THEN NoName ELSE found[c + a].labels
          /\ h.h_aliases = [j \in 1 .. c |-> found[j].labels]
          /\ h.h_addr_list = [j \in 1 .. a |-> found[c + j].data]
      BY <1>4, <1>5, HostentIsRight
    <2> HIDE DEF h
    <2> QED
      BY <1>8, <2>1 DEF h
  <1>10. content.h_aliases = Front(r.chain) /\ content.h_addr_list = r.addresses
    <2>1. \A j \in 1 .. c : found[j].labels = r.chain[j]
      <3>1. \A j \in 1 .. c : j \in 1 .. c + a /\ j <= c
        BY <1>4
      <3> QED
        BY <1>5, <3>1
    <2>2. \A j \in 1 .. a : found[c + j].data = r.addresses[j]
      BY <1>5
    <2>3. content.h_aliases = [j \in 1 .. c |-> r.chain[j]]
      BY <1>9, <2>1, Zenon
    <2>4. content.h_addr_list = [j \in 1 .. a |-> r.addresses[j]]
      BY <1>9, <2>2, Zenon
    <2>5. Front(r.chain) = [j \in 1 .. c |-> r.chain[j]]
      BY <1>6
    <2>6. r.addresses = [j \in 1 .. a |-> r.addresses[j]]
      BY <1>6
    <2> QED
      BY <2>3, <2>4, <2>5, <2>6, Zenon
  <1>11. a # 0 => content.h_name = Last(r.chain)
    <2>1. a # 0 => c + a \in 1 .. c + a /\ ~ (c + a <= c)
      BY <1>4
    <2>2. a # 0 => found[c + a].labels = r.chain[c + 1]
      BY <1>5, <2>1
    <2> QED
      BY <1>6, <1>9, <2>2
  <1>12. ASSUME a <= 2 PROVE content.written <= content.malloc_size
    BY <1>4, <1>5, <1>8, <1>12, BlockIsEnough
  <1> QED
    BY <1>6, <1>9, <1>10, <1>11, <1>12 DEF r, a, content

\* gethostbyname_impl gives the addresses of the host in order, its aliases and
\* its canonical name, whatever the replies are like, as long as the two walks
\* over a reply find its records.
THEOREM HostentsAreTrue ==
    ASSUME RecordsAreFound
    PROVE  Spec => []HostentIsTrue
  <1>1. IInv => HostentIsTrue
    BY ContentIs DEF IInv, HostentIsTrue
  <1> QED
    BY <1>1, CacheInvariant, PTL

\* The block findMallocSize counts for such a reply is large enough for what
\* fill_hostent writes, for any number and any length of aliases, if there are
\* no more than two addresses.
THEOREM HostentsFit ==
    ASSUME RecordsAreFound
    PROVE  Spec => []HostentFits
  <1>1. IInv => HostentFits
    BY ContentIs DEF IInv, HostentFits
  <1> QED
    BY <1>1, CacheInvariant, PTL

=============================================================================

---------------------------- MODULE ResolverCache ----------------------------
(***************************************************************************)
(* The cache of ngethostbyname (resolv.c).  refcount is the value a counter  *)
(* of all uses had when the entry was used last, so the least one is the     *)
(* entry to give up.  The counter is a long and is not taken to its end.     *)
(***************************************************************************)
EXTENDS Integers, FiniteSets

CONSTANTS
    CachedEntries,  \* entries (10)
    Hosts,          \* host names
    Addresses,      \* addresses worth storing: not 0, not 255.255.255.255
    NULL            \* no name

ASSUME CacheAssumption ==
    CachedEntries \in Nat \ {0} /\ NULL \notin Hosts

VARIABLES
    entry_cache, cache_refcount,
    used_before     \* history: <<g, h>> when h was used after g was used last

cache == <<entry_cache, cache_refcount, used_before>>

Slots == 0 .. CachedEntries - 1

\* initialize_cache; an entry that is not used keeps address 0.
CacheInit ==
    /\ entry_cache = [i \in Slots |-> [hostname |-> NULL, address |-> NULL, refcount |-> 0]]
    /\ cache_refcount = 0
    /\ used_before = {}

Touched(host) ==
    used_before' = {p \in used_before : p[1] # host /\ p[2] # host}
                   \cup ((Hosts \ {host}) \X {host})

First(S) == CHOOSE i \in S : \A j \in S : i <= j

Found(name) == {i \in Slots : entry_cache[i].hostname = name}

\* Mutant: a hit does not count as a use.
MutUsed(i) == entry_cache

Used(i) == [entry_cache EXCEPT ![i].refcount = cache_refcount + 1]

\* get_from_cache on a name that is there.
Hit(host) ==
    /\ Found(host) # {}
    /\ cache_refcount' = cache_refcount + 1
    /\ entry_cache' = Used(First(Found(host)))
    /\ Touched(host)

Least(S) == {i \in S : \A j \in S : entry_cache[i].refcount <= entry_cache[j].refcount}

find_LRU_cache_entry == First(Least(Slots))

\* The first unused entry, or the one to give up.
Slot == IF Found(NULL) # {} THEN First(Found(NULL)) ELSE find_LRU_cache_entry

\* Mutant: an entry that is given up keeps its name.
MutNewEntry(i, host, address) ==
    [hostname |-> IF entry_cache[i].hostname = NULL THEN host ELSE entry_cache[i].hostname,
     address |-> address, refcount |-> cache_refcount + 1]

NewEntry(i, host, address) ==
    [hostname |-> host, address |-> address, refcount |-> cache_refcount + 1]

set_cache_entry(i, host, address) ==
    /\ cache_refcount' = cache_refcount + 1
    /\ entry_cache' = [entry_cache EXCEPT ![i] = NewEntry(i, host, address)]
    /\ Touched(host)

store_in_cache(host, address) ==
    IF address \notin Addresses THEN UNCHANGED cache
    ELSE \/ Hit(host)
         \/ Found(host) = {} /\ set_cache_entry(Slot, host, address)

-----------------------------------------------------------------------------
UsedSlots == Slots \ Found(NULL)

Names == {entry_cache[i].hostname : i \in UsedSlots}

SlotOf(name) == CHOOSE i \in Slots : entry_cache[i].hostname = name

\* The types of the entries.
CacheType ==
    /\ entry_cache \in [Slots -> [hostname : Hosts \cup {NULL},
                                  address : Addresses \cup {NULL}, refcount : Nat]]
    /\ cache_refcount \in Nat
    /\ used_before \subseteq Hosts \X Hosts

\* No name has two entries, and the counts are in the order of the last uses.
CacheOK ==
    /\ \A i \in Slots : entry_cache[i].refcount <= cache_refcount
    /\ \A i, j \in UsedSlots :
        /\ entry_cache[i].hostname = entry_cache[j].hostname => i = j
        /\ <<entry_cache[i].hostname, entry_cache[j].hostname>> \in used_before
                <=> entry_cache[i].refcount < entry_cache[j].refcount

Stored == [name \in Names |-> entry_cache[SlotOf(name)].address]

Older == used_before \cap (Names \X Names)

Lru == INSTANCE LruMap WITH
    Keys <- Hosts, Values <- Addresses, Capacity <- CachedEntries,
    stored <- Stored, older <- Older

\* The cache implements LruMap: hits, misses and stores in any order keep one
\* entry for each name, and the name given up is the one not used for longest.
ImplementsLru == Lru!Spec
=============================================================================

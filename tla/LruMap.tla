------------------------------- MODULE LruMap -------------------------------
(***************************************************************************)
(* What the resolver's cache promises: a map of limited size that gives up   *)
(* the key that was not used for longest.                                    *)
(***************************************************************************)
EXTENDS FiniteSets, Naturals

CONSTANTS Keys, Values, Capacity

VARIABLES
    stored,     \* a function from some of the keys to values
    older       \* <<g, h>>: g was used last before h was

Init == stored = <<>> /\ older = {}

\* h is used: every other key is older now.
Among(kept, h) ==
    older' = {p \in older : p[1] \in kept \ {h} /\ p[2] \in kept \ {h}}
             \cup ((kept \ {h}) \X {h})

Use(h) ==
    /\ h \in DOMAIN stored
    /\ stored' = stored
    /\ Among(DOMAIN stored, h)

Oldest == {g \in DOMAIN stored : \A f \in DOMAIN stored : <<f, g>> \notin older}

\* A new key takes the place of the oldest one when there is no room.
Put(h, v) == \E given_up \in SUBSET Oldest :
    /\ h \notin DOMAIN stored
    /\ Cardinality(given_up) = IF Cardinality(DOMAIN stored) < Capacity THEN 0 ELSE 1
    /\ LET kept == DOMAIN stored \ given_up IN
        /\ stored' = [g \in kept \cup {h} |-> IF g = h THEN v ELSE stored[g]]
        /\ Among(kept, h)

Next == \E h \in Keys : Use(h) \/ \E v \in Values : Put(h, v)

Spec == Init /\ [][Next]_<<stored, older>>
=============================================================================

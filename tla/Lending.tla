------------------------------ MODULE Lending -------------------------------
(***************************************************************************)
(* What a pool promises of its resources (src/async-resource/src/pool,     *)
(* shared, resource).  A resource has a slot; a slot has one holder at a   *)
(* time, or none; only the holder fills it, empties it, puts it back or    *)
(* hands it on; and while a user has the resource nothing happens to it.   *)
(***************************************************************************)
CONSTANTS
    Slot,       \* where resources are: the locks
    Holder,     \* who may hold a slot: threads, and letters between them
    User        \* the holders that use resources: the clients

VARIABLES
    stocked,    \* the slots with a resource in them
    holders,    \* holders[p]: who holds slot p
    lent        \* the pairs of a user and the slot whose resource it uses

lvars == <<stocked, holders, lent>>

Init ==
    /\ stocked = {}
    /\ holders = [p \in Slot |-> {}]
    /\ lent = {}

Held(p, by) == holders' = [holders EXCEPT ![p] = by]

\* A holder that does not use the resource.
Keeps(h, p) == holders[p] = {h} /\ <<h, p>> \notin lent

\* A user that gets a resource may have the use of it at once.
MayLend(h, p) ==
    \/ UNCHANGED lent
    \/ h \in User /\ p \in stocked' /\ lent' = lent \cup {<<h, p>>}

Take(h, p) == holders[p] = {} /\ Held(p, {h}) /\ UNCHANGED <<stocked, lent>>

\* What nobody holds may be taken to another slot that nobody holds.
Carry(h, p, q) ==
    /\ holders[p] = {} /\ p \in stocked
    /\ holders[q] = {} /\ q \notin stocked
    /\ Held(q, {h})
    /\ stocked' = (stocked \ {p}) \cup {q}
    /\ UNCHANGED lent

Give(g, h, p) == Keeps(g, p) /\ Held(p, {h}) /\ MayLend(h, p) /\ UNCHANGED stocked

PutBack(h, p) == Keeps(h, p) /\ Held(p, {}) /\ UNCHANGED <<stocked, lent>>

Fill(h, p) ==
    /\ Keeps(h, p) /\ p \notin stocked
    /\ stocked' = stocked \cup {p}
    /\ MayLend(h, p)
    /\ UNCHANGED holders

Clear(h, p) ==
    /\ Keeps(h, p) /\ p \in stocked
    /\ stocked' = stocked \ {p}
    /\ UNCHANGED <<holders, lent>>

Lend(u, p) ==
    /\ u \in User /\ Keeps(u, p) /\ p \in stocked
    /\ lent' = lent \cup {<<u, p>>}
    /\ UNCHANGED <<stocked, holders>>

Reclaim(u, p) ==
    /\ <<u, p>> \in lent
    /\ lent' = lent \ {<<u, p>>}
    /\ UNCHANGED <<stocked, holders>>

\* Who comes to hold slot p in this step.
Comer(p) == (holders'[p] \ holders[p]) \cap Holder

Next ==
    \E p \in Slot :
      \/ \E h \in Comer(p) :
            \/ Take(h, p)
            \/ \E q \in Slot : Carry(h, q, p)
            \/ \E g \in holders[p] : Give(g, h, p)
      \/ \E h \in holders[p] :
            \/ PutBack(h, p)
            \/ Fill(h, p)
            \/ Clear(h, p)
            \/ Lend(h, p)
            \/ Reclaim(h, p)

Spec == Init /\ [][Next]_lvars
=============================================================================

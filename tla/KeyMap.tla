------------------------------- MODULE KeyMap -------------------------------
(***************************************************************************)
(* What a skip list promises its users, without its levels: a map that     *)
(* takes a key only while it has none of that name, and a dump of the      *)
(* whole map that fills in the keys a map lacks when it is loaded.         *)
(***************************************************************************)
CONSTANTS Key, Value, NoValue

VARIABLES
    store,      \* the value of every key, NoValue for a key that is absent
    saved       \* what the last dump holds

Init ==
    /\ store = [k \in Key |-> NoValue]
    /\ saved = store

Insert(k, v) ==
    /\ store[k] = NoValue
    /\ store' = [store EXCEPT ![k] = v]
    /\ UNCHANGED saved

Remove(k) ==
    /\ store' = [store EXCEPT ![k] = NoValue]
    /\ UNCHANGED saved

Save ==
    /\ saved' = store
    /\ UNCHANGED store

Load ==
    /\ store' = [k \in Key |-> IF store[k] = NoValue THEN saved[k] ELSE store[k]]
    /\ UNCHANGED saved

\* A new map, with the dump of the old one still at hand.
Renew ==
    /\ store' = [k \in Key |-> NoValue]
    /\ UNCHANGED saved

Next ==
    \/ \E k \in Key, v \in Value : Insert(k, v)
    \/ \E k \in Key : Remove(k)
    \/ Save \/ Load \/ Renew

Spec == Init /\ [][Next]_<<store, saved>>

=============================================================================

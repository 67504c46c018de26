------------------------------ MODULE Archive ------------------------------
(***************************************************************************)
(* What the fetch pipeline promises the reader of an item, with no queue,  *)
(* no worker and no job in it: an item is saved under a key, its copy only *)
(* ever moves forward to a version that the page has had, and the copy     *)
(* goes when the item is removed.                                          *)
(***************************************************************************)
EXTENDS Naturals

CONSTANTS Keys, Items, MaxVersion, NoKey

VARIABLES
    saved,  \* the key each item is saved under
    copy,   \* the version of the page the item shows: 0 before the first
    site    \* the current version of each page

Init ==
    /\ saved = [i \in Items |-> NoKey]
    /\ copy = [i \in Items |-> 0]
    /\ site = [k \in Keys |-> 1]

\* One item per key: UNIQUE(user_id, canonical_hash).
Save(i, k) ==
    /\ saved[i] = NoKey
    /\ \A j \in Items : saved[j] # k
    /\ saved' = [saved EXCEPT ![i] = k]
    /\ UNCHANGED <<copy, site>>

Remove(i) ==
    /\ saved[i] # NoKey
    /\ saved' = [saved EXCEPT ![i] = NoKey]
    /\ copy' = [copy EXCEPT ![i] = 0]
    /\ UNCHANGED site

Refresh(i, v) ==
    /\ saved[i] # NoKey
    /\ v \in copy[i] .. site[saved[i]]
    /\ v > 0
    /\ copy' = [copy EXCEPT ![i] = v]
    /\ UNCHANGED <<saved, site>>

Move(k) ==
    /\ site[k] < MaxVersion
    /\ site' = [site EXCEPT ![k] = @ + 1]
    /\ UNCHANGED <<saved, copy>>

Next ==
    \/ \E i \in Items, k \in Keys : Save(i, k)
    \/ \E i \in Items : Remove(i) \/ \E v \in 1 .. MaxVersion : Refresh(i, v)
    \/ \E k \in Keys : Move(k)

Spec == Init /\ [][Next]_<<saved, copy, site>>
=============================================================================

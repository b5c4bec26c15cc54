---------------------------- MODULE PreimageStore ----------------------------
(***************************************************************************)
(* What a PreimageRepository (server/src/data/preimage_repository.rs)      *)
(* promises its callers: a set of stored preimages and the list that is    *)
(* served.  The list may lag behind the store in both directions, but a    *)
(* preimage enters it only while it is stored, leaves it only once it is   *)
(* gone, and is dropped from the store only when it is as old as the TTL.  *)
(***************************************************************************)
EXTENDS Integers

CONSTANTS Keys, Ttl

VARIABLES
  now,     \* the time
  since,   \* since[k]: when the stored preimage k was written, else 0
  stored,  \* the keys of the preimages a reader can fetch
  listed   \* the keys list_metadata returns

storeVars == <<now, since, stored, listed>>

Init ==
  /\ now \in Nat
  /\ since = [k \in Keys |-> 0]
  /\ stored = {}
  /\ listed = {}

Pass ==
  /\ now' > now
  /\ UNCHANGED <<since, stored, listed>>

Put(k) ==
  /\ k \notin stored
  /\ stored' = stored \cup {k}
  /\ \E t \in 0..now : since' = [since EXCEPT ![k] = t]
  /\ UNCHANGED <<now, listed>>

Enlist(k) ==
  /\ k \in stored
  /\ listed' = listed \cup {k}
  /\ UNCHANGED <<now, since, stored>>

(* Bug: the TTL is not added. *)
BugOld(k) == now >= since[k]

Old(k) == now >= since[k] + Ttl

Drop(k) ==
  /\ k \in stored
  /\ Old(k)
  /\ stored' = stored \ {k}
  /\ since' = [since EXCEPT ![k] = 0]
  /\ UNCHANGED <<now, listed>>

Delist(gone) ==
  /\ gone \cap stored = {}
  /\ listed' = listed \ gone
  /\ UNCHANGED <<now, since, stored>>

Reopen ==
  /\ listed' = stored
  /\ UNCHANGED <<now, since, stored>>

Next ==
  \/ Pass
  \/ \E k \in Keys : Put(k) \/ Enlist(k) \/ Drop(k)
  \/ \E gone \in SUBSET Keys : Delist(gone)
  \/ Reopen

Spec == Init /\ [][Next]_storeVars
=============================================================================

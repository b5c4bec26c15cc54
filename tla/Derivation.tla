----------------------------- MODULE Derivation -----------------------------
(***************************************************************************)
(* One spawned task of the collector: it asks the rollup node for the two  *)
(* output roots of its range and runs the kona server and client over a    *)
(* key-value store that records what the server puts into it               *)
(* (server/src/derivation/host/single).  What was recorded is the preimage *)
(* that a light client replays with nothing else than the metadata and two *)
(* output roots of its own node, as in server/tests/e2e.rs.                *)
(*                                                                         *)
(* Ranges follow each other in time: the next task, or the next attempt at *)
(* the same range, begins with whatever the last one left.                 *)
(***************************************************************************)
EXTENDS Integers

CONSTANTS
  Ranges,  \* the ranges <<start, end>> that batches can hold
  Heads,   \* the L1 heads
  Data,    \* external: keys of what the nodes know, each the hash of its value
  Devnet   \* the chain is not in the registry: both configurations are fetched

VARIABLES
  pc,        \* "idle" | "agreed" | "claimed" | "start" | "derive" | "take" | "done" | "failed"
  metadata,  \* the range and the head of the task
  request,   \* the DerivationRequest, as far as the client reads it
  mem, used,  \* the memory store, and the keys `set` has recorded
  read,      \* history: the keys the client has read, with what it found
  preimages  \* the keys of the encoded result

vars == <<pc, metadata, request, mem, used, read, preimages>>

Blocks == {r[1] : r \in Ranges} \cup {r[2] : r \in Ranges}
None == <<"none", 0>>
Root(b) == <<"root", b>>
Roots == {Root(b) : b \in Blocks} \cup {None}

LocalKeys == {"l1_head", "output_root", "claim", "claim_block", "chain_id"}
ConfigKeys == {"rollup_config", "l1_config"}
ProvidedConfigs == IF Devnet THEN ConfigKeys ELSE {}

(* The type of a key, its first byte, tells a local one from all others. *)
ASSUME KeysAssumption == Devnet \in BOOLEAN /\ Data \cap (LocalKeys \cup ConfigKeys) = {}

(* LocalKeyValueStore::get *)
Local == [l1_head |-> <<"head", request.l1_head>>,
          output_root |-> request.agreed_l2_output_root,
          claim |-> request.l2_output_root,
          claim_block |-> <<"block", request.l2_block_number>>,
          chain_id |-> <<"chain", 0>>,
          rollup_config |-> IF Devnet THEN <<"rollup_config", 0>> ELSE None,
          l1_config |-> IF Devnet THEN <<"l1_config", 0>> ELSE None]

(* SplitKeyValueStore: local keys from the one, all others from the other. *)
Get(k) == IF k \in Data THEN (IF k \in mem THEN <<"data", k>> ELSE None) ELSE Local[k]

TypeOK ==
  /\ pc \in {"idle", "agreed", "claimed", "start", "derive", "take", "done", "failed"}
  /\ metadata \in [range : Ranges, l1_head : Heads]
  /\ request \in [l1_head : Heads, l2_block_number : Blocks,
                  agreed_l2_output_root : Roots, l2_output_root : Roots]
  /\ mem \subseteq Data /\ used \subseteq mem
  /\ pc \notin {"derive", "take"} => used = {}
  /\ preimages \subseteq Data \cup ProvidedConfigs

NoRequest(m) == [l1_head |-> m.l1_head, agreed_l2_output_root |-> None,
                 l2_output_root |-> None, l2_block_number |-> m.range[2]]

Begin ==
  /\ pc \in {"idle", "done", "failed"}
  /\ pc' = "agreed"
  /\ metadata' \in [range : Ranges, l1_head : Heads]
  /\ request' = NoRequest(metadata')
  /\ read' = {} /\ preimages' = {}
  /\ UNCHANGED <<mem, used>>

Init ==
  /\ pc = "idle"
  /\ metadata \in [range : Ranges, l1_head : Heads]
  /\ request = NoRequest(metadata)
  /\ mem = {} /\ used = {} /\ read = {} /\ preimages = {}
-----------------------------------------------------------------------------
(* output_root_at, twice. *)
AgreedRoot ==
  /\ pc = "agreed"
  /\ pc' = "claimed"
  /\ request' = [request EXCEPT !.agreed_l2_output_root = Root(metadata.range[1])]
  /\ UNCHANGED <<metadata, mem, used, read, preimages>>

ClaimedRoot ==
  /\ pc = "claimed"
  /\ pc' = "start"
  /\ request' = [request EXCEPT !.l2_output_root = Root(metadata.range[2])]
  /\ UNCHANGED <<metadata, mem, used, read, preimages>>

(* The node cannot be reached or answers with another status or an RPC error. *)
RequestFails ==
  /\ pc \in {"agreed", "claimed"}
  /\ pc' = "failed"
  /\ UNCHANGED <<metadata, request, mem, used, read, preimages>>

BugTimesOut == FALSE /\ UNCHANGED vars  \* Bug: the HTTP client has no timeout

(* The node took the request and says nothing. *)
TimesOut == RequestFails
-----------------------------------------------------------------------------
(* Bug: the store is a directory that outlives the derivation. *)
BugFreshStore == UNCHANGED mem /\ used' = {}

FreshStore == mem' = {} /\ used' = {}

Start ==
  /\ pc = "start"
  /\ pc' = "derive"
  /\ FreshStore
  /\ UNCHANGED <<metadata, request, read, preimages>>

(* The client boots from the local keys; the registry has no devnet. *)
BootKeys == LocalKeys \cup ProvidedConfigs

ClientBoots ==
  /\ pc = "derive"
  /\ read = {}
  /\ read' = {<<k, Get(k)>> : k \in BootKeys}
  /\ UNCHANGED <<pc, metadata, request, mem, used, preimages>>

(* The server does not find what the client asks for, follows its last hint and
   sets that key, and others that come with it. *)
ServerFetches ==
  /\ pc = "derive"
  /\ read # {}
  /\ \E set \in SUBSET Data :
       /\ \E k \in set : Get(k) = None
       /\ mem' = mem \cup set
       /\ used' = used \cup set
  /\ UNCHANGED <<pc, metadata, request, read, preimages>>

ClientReads(k) ==
  /\ pc = "derive"
  /\ read # {}
  /\ Get(k) # None
  /\ <<k, Get(k)>> \notin read
  /\ read' = read \cup {<<k, Get(k)>>}
  /\ UNCHANGED <<pc, metadata, request, mem, used, preimages>>

(* try_join!: the client is done, and with it the server. *)
ClientEnds ==
  /\ pc = "derive"
  /\ read # {}
  /\ pc' = "take"
  /\ UNCHANGED <<metadata, request, mem, used, read, preimages>>

(* ... or one of them fails, or a provider cannot be created. *)
DerivationFails ==
  /\ pc \in {"start", "derive"}
  /\ pc' = "failed"
  /\ used' = {}
  /\ UNCHANGED <<metadata, request, mem, read, preimages>>

BugTaken == used  \* Bug: what was recorded is cloned
Taken == {}

Encoded == used \cup ProvidedConfigs

Take ==
  /\ pc = "take"
  /\ pc' = "done"
  /\ preimages' = Encoded
  /\ used' = Taken
  /\ UNCHANGED <<metadata, request, mem, read>>

Derive == Start \/ ClientBoots \/ (\E k \in Data : ClientReads(k)) \/ ClientEnds \/ Take

Next ==
  \/ Begin \/ AgreedRoot \/ ClaimedRoot \/ RequestFails \/ TimesOut
  \/ Derive \/ ServerFetches \/ DerivationFails

(* The timer of the HTTP client runs out; the kona server and client are polled,
   and assumed to end: no timeout of this code bounds them. *)
Fairness == WF_vars(TimesOut) /\ WF_vars(Derive)

Spec == Init /\ [][Next]_vars
FairSpec == Spec /\ Fairness
-----------------------------------------------------------------------------
(* The light client: local keys from the metadata, its node and its options, all
   others, configurations included, from the preimages. *)
LightClientLocal ==
  [l1_head |-> <<"head", metadata.l1_head>>,
   output_root |-> Root(metadata.range[1]),
   claim |-> Root(metadata.range[2]),
   claim_block |-> <<"block", metadata.range[2]>>,
   chain_id |-> <<"chain", 0>>]

LightClient(k) ==
  IF k \in LocalKeys THEN LightClientLocal[k]
  ELSE IF k \notin preimages THEN None
  ELSE IF k \in ConfigKeys THEN <<k, 0>> ELSE <<"data", k>>

(* A light client that has nothing but the stored preimage replays the
   derivation: whatever the client of the host read, it finds as well, and the
   same, also after failed attempts and other derivations in the process. *)
Replayable == pc = "done" => \A entry \in read : LightClient(entry[1]) = entry[2]

(* Every task ends, though the rollup node may never answer. *)
TaskEnds == pc = "agreed" ~> pc \in {"done", "failed"}
=============================================================================

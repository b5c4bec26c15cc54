----------------------------- MODULE ClaimChain -----------------------------
(***************************************************************************)
(* What the collector promises the readers of the repository: preimages    *)
(* are stored one after the other, each for the Distance blocks that       *)
(* follow the last one and with an L1 head that covers them.  A restart    *)
(* resumes from what is stored.                                            *)
(***************************************************************************)
EXTENDS Integers

CONSTANTS
  Distance, InitialClaimed,
  L1Blocks, SafeL2  \* SafeL2[h]: the last L2 block derivable from L1 head h

VARIABLES
  reached,  \* the last claimed block
  stored    \* the preimages that can be fetched

chainVars == <<reached, stored>>

Init == reached = InitialClaimed /\ stored = {}

Extend(h) ==
  /\ reached + Distance <= SafeL2[h]
  /\ reached' = reached + Distance
  /\ stored' = stored \cup
       {[agreed |-> reached, claimed |-> reached + Distance, l1_head |-> h]}

Drop(m) ==
  /\ m \in stored
  /\ stored' = stored \ {m}
  /\ UNCHANGED reached

IsLatest(m) == m \in stored /\ \A n \in stored : n.claimed <= m.claimed

Resume ==
  /\ \/ stored = {} /\ reached' = InitialClaimed
     \/ \E m \in stored : IsLatest(m) /\ reached' = m.claimed
  /\ UNCHANGED stored

Next ==
  \/ \E h \in L1Blocks : Extend(h)
  \/ \E m \in stored : Drop(m)
  \/ Resume

Spec == Init /\ [][Next]_chainVars
=============================================================================

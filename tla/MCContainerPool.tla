--------------------------- MODULE MCContainerPool ---------------------------
(***************************************************************************)
(* Instances of ContainerPool for TLC: every session of agent a1, or s2 of  *)
(* agent a2.                                                                *)
(***************************************************************************)
EXTENDS ContainerPool

CONSTANTS a1, a2, s2

OneAgent == [s \in Sessions |-> a1]
AgentEach == [s \in Sessions |-> IF s = s2 THEN a2 ELSE a1]

(* Containers, calls and boots are numbers, and used in their order: which  *)
(* of those not used yet comes next is of no interest.                      *)
InOrder ==
    /\ \A c, d \in Containers : c < d /\ ctr[c] = "unused" => ctr[d] = "unused"
    /\ \A k, l \in Calls : k < l /\ pc[k] = "free" => pc[l] = "free"
    /\ \A b, d \in Boots : b < d /\ boot[b].pc = "free" => boot[d].pc = "free"

(* The versions of an agent are interchangeable: it starts with the first.  *)
FirstVersions == patches = 0 => \A a \in Agents : template[a] = 1

(* Only s2 makes calls but the last: a counterexample found among these     *)
(* behaviours is one all the same.                                          *)
S2First == \A k, l \in Calls : k < l => sess[k] \in {s2, None}

(* Only a1 is updated; its boots are the first three, and the fourth is of  *)
(* a2.  Of the behaviours that PoolWarmCap.cfg is about, a few.             *)
OneUpdated ==
    /\ \A a \in Agents \ {a1} : template[a] = 1
    /\ \A b \in Boots : boot[b].cfg # None =>
          /\ (boot[b].cfg[1] = a1) = (b <= 3)
          /\ b = 4 => boot[b].cfg[1] = a2
=============================================================================

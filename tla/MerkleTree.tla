------------------------------ MODULE MerkleTree ------------------------------
(***************************************************************************)
(* compute_merkle_root of telemetry.py: the leaves are hashes of the       *)
(* canonical text of each reading, and each pass of the loop replaces the  *)
(* layer by the hashes of its pairs, an odd node being paired with itself. *)
(*                                                                         *)
(* SHA-256 is taken to have no collisions: a hash is the tuple of what was *)
(* hashed, <<text>> for a leaf and <<left, right>> for an inner node.  Of  *)
(* the four values of a reading one is modelled, in thousandths.           *)
(***************************************************************************)
EXTENDS Integers, Sequences

CONSTANTS
  TelemetryRows,  \* readings that a batch may hold, altered ones included
  MaxRows,        \* how many readings a batch has at most (bound)
  Null            \* no value was reported

ASSUME TreeAssumption == MaxRows \in Nat \ {0}

VARIABLES
  readings,  \* the readings of a batch in order of time
  layer      \* current_layer

treeVars == <<readings, layer>>

(* Batches are not empty and have a reading at most once. *)
Batches ==
  {s \in UNION {[1..n -> TelemetryRows] : n \in 1..MaxRows} :
     \A i, j \in DOMAIN s : s[i].id = s[j].id => i = j}

-----------------------------------------------------------------------------
(* "{value or 0.0:.2f}": two decimals, and no value reads like zero. *)
Rounded(value) == IF value = Null THEN 0 ELSE (value + 5) \div 10
Canonical(r) == <<r.id, Rounded(r.value)>>
LeafHash(r) == <<Canonical(r)>>

LeafHashes(s) == [i \in DOMAIN s |-> LeafHash(s[i])]

WrongNextLayer(current) ==  \* an odd node is forgotten
  [i \in 1..(Len(current) \div 2) |-> <<current[2 * i - 1], current[2 * i]>>]

NextLayer(current) ==
  [i \in 1..((Len(current) + 1) \div 2) |->
     <<current[2 * i - 1],
       IF 2 * i <= Len(current) THEN current[2 * i] ELSE current[2 * i - 1]>>]

TreeInit ==
  /\ readings \in Batches
  /\ layer = LeafHashes(readings)

TreeNext ==
  /\ Len(layer) > 1
  /\ layer' = NextLayer(layer)
  /\ UNCHANGED readings

TreeSpec == TreeInit /\ [][TreeNext]_treeVars /\ WF_treeVars(TreeNext)

-----------------------------------------------------------------------------
(* The tree by its definition: node i of a level covers the 2^level readings *)
(* from (i - 1) * 2^level + 1 on, and a node that would cover none of the    *)
(* readings is the one on its left.                                          *)
PowersOfTwo(n) ==
  LET power[k \in 0..n] == IF k = 0 THEN 1 ELSE 2 * power[k - 1] IN power
Width(s, level) ==
  (Len(s) + PowersOfTwo(Len(s))[level] - 1) \div PowersOfTwo(Len(s))[level]
Height(s) == CHOOSE h \in 0..Len(s) : Width(s, h) = 1 /\ \A g \in 0..(h - 1) : Width(s, g) > 1
Tree(s) ==
  LET level[k \in 0..Height(s)] ==
        LET last == Width(s, k - 1)
        IN  IF k = 0 THEN LeafHashes(s)
            ELSE [i \in 1..Width(s, k) |->
                    <<level[k - 1][2 * i - 1],
                      level[k - 1][IF 2 * i > last THEN last ELSE 2 * i]>>]
  IN  level
Root(s) == Tree(s)[Height(s)][1]

-----------------------------------------------------------------------------
(* Properties.                                                             *)

(* No layer is empty, none has more nodes than the batch has readings.      *)
TreeTypeOK ==
  /\ readings \in Batches
  /\ Len(layer) \in 1..Len(readings)

(* The loop ends with the root of the tree by its definition, for batches of *)
(* every length, the odd ones included (telemetry.py:52-64).                 *)
EndsWithTheRoot == <>[](layer = <<Root(readings)>>)

(* The root the loop computes tells batches apart: another one has it only   *)
(* if it has the same readings in the same order with the same canonical     *)
(* text, so nothing is added, dropped, repeated, moved or, as far as the     *)
(* text shows, altered unnoticed.                                            *)
RootIdentifiesReadings ==
  Len(layer) = 1 =>
    \A other \in Batches :
       Root(other) = layer[1] => LeafHashes(other) = LeafHashes(readings)
=============================================================================

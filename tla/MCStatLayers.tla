---------------------------- MODULE MCStatLayers ----------------------------
(* Small instances of StatLayers for TLC: three layers, of which two       *)
(* compact.                                                                *)
EXTENDS StatLayers

MCLayerLen   == [i \in Nums |-> IF i = 0 THEN 3 ELSE 3 - i]
MCLayerRatio == [i \in Nums |-> IF i = N - 1 THEN 0 ELSE IF i = 0 THEN 2 ELSE 1]

(* A table left by a version with four layers and one longer ring.         *)
OldVersion ==
  {Row(0, 7, {7}), Row(0, 8, {8}), Row(0, 9, {9}), Row(0, 10, {10}), Row(0, 11, {11}),
   Row(1, 3, {}), Row(1, 5, {4, 5}), Row(1, 7, {6, 7}),
   Row(2, 2, {}), Row(2, 3, {3}),
   Row(3, 1, {}), Row(3, 2, {2})}

(* A new installation, or an upgrade. *)
MCTables == {{}, OldVersion}

ASSUME MCAssumption == Compacting /\ Gapless
=============================================================================

----------------------------- MODULE MCPartitionMerge -----------------------------
(* A few short partitions of rows of small values and NaNs *)
EXTENDS PartitionMerge

CONSTANTS MaxPartitions, MaxRows, MaxValue

SmallRows == [1..NArrays -> 0..MaxValue \cup {NaN}]

SmallPartitions == {rows \in UNION {[1..n -> SmallRows] : n \in 0..MaxRows} : IsSorted(rows)}

SmallInputs == UNION {[1..n -> SmallPartitions] : n \in 0..MaxPartitions}
=============================================================================

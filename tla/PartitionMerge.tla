----------------------------- MODULE PartitionMerge -----------------------------
(***************************************************************************)
(* PartitionMerge(): the k-way merge of sorted partitions of equally long  *)
(* arrays, into arrays with room for exactly all of their rows.            *)
(*                                                                         *)
(* A row is the sequence of its values in each array.  Rows count from 0:  *)
(* row i of partition p is inputs[p][i + 1].                               *)
(***************************************************************************)
EXTENDS Integers, Sequences

CONSTANTS
  NArrays,     \* number of arrays
  NaN,         \* not a number
  Inputs       \* what may be merged: sequences of partitions

Values == Int \cup {NaN}

\* The caller validates the arrays: as many in each partition, equally long
ASSUME MergeAssumption ==
  NArrays \in Nat /\ NaN \notin Int /\ Inputs \subseteq Seq(Seq([1..NArrays -> Values]))

Sign(x, y) == IF x > y THEN 1 ELSE IF x < y THEN -1 ELSE 0

\* NaNs are neither less nor greater than anything, as in C++
NaNsEqual(x, y) == IF x = NaN \/ y = NaN THEN 0 ELSE Sign(x, y)

\* Three-way comparison.  NaNs sort after all other values
Compare(x, y) ==
  IF x = NaN \/ y = NaN
  THEN (IF x = NaN THEN 1 ELSE 0) - (IF y = NaN THEN 1 ELSE 0)
  ELSE Sign(x, y)

\* Does row r sort after row s?  The first array where they differ decides
Greater(r, s) ==
  \E a \in 1..NArrays :
    /\ Compare(r[a], s[a]) > 0
    /\ \A b \in 1..(a - 1) : Compare(r[b], s[b]) = 0

IsSorted(rows) ==
  \A i, j \in DOMAIN rows : i < j => ~ Greater(rows[i], rows[j])

VARIABLES
  inputs,   \* the partitions, each sorted: the caller sees to it
  filled,   \* partitions that have been considered for the queue
  queue,    \* the rows in the priority queue: MergeData
  output    \* the rows merged so far: MergeData

vars == <<inputs, filled, queue, output>>

Row(m) == inputs[m.partition][m.row + 1]

Init ==
  /\ inputs \in Inputs
  /\ \A p \in DOMAIN inputs : IsSorted(inputs[p])
  /\ filled = 0
  /\ queue = {}
  /\ output = <<>>

\* The first row of each partition that has any
Fill ==
  /\ filled < Len(inputs)
  /\ filled' = filled + 1
  /\ queue' = IF Len(inputs[filled + 1]) > 0
              THEN queue \cup {[row |-> 0, partition |-> filled + 1]} ELSE queue
  /\ UNCHANGED <<inputs, output>>

\* May m be at the top of the queue?  Any of several equal rows may
AnyOf(m) == TRUE
IsTop(m) == \A n \in queue : ~ Greater(Row(m), Row(n))

\* Is there a row after m in its partition?
OneMore(m) == m.row + 2 < Len(inputs[m.partition])
HasNext(m) == m.row + 1 < Len(inputs[m.partition])

Merge(m) ==
  /\ filled = Len(inputs) /\ m \in queue /\ IsTop(m)
  /\ output' = Append(output, m)
  /\ queue' = (queue \ {m}) \cup
              (IF HasNext(m) THEN {[row |-> m.row + 1, partition |-> m.partition]} ELSE {})
  /\ UNCHANGED <<inputs, filled>>

Next == Fill \/ \E m \in queue : Merge(m)

Spec == Init /\ [][Next]_vars

-----------------------------------------------------------------------------
\* The rows merged so far are sorted, with NaNs last and whatever ties there are
OutputSorted ==
  \A i, j \in DOMAIN output : i < j => ~ Greater(Row(output[i]), Row(output[j]))

\* Has row r of partition p been merged?
Merged(p, r) == \E i \in DOMAIN output : output[i] = [row |-> r, partition |-> p]

\* Of each partition, a prefix has been merged, in its order and each row once, and
\* all of it when the merge is over: outputs that have room for the sum of nrows are
\* filled, and not written beyond
MergesEachRowOnce ==
  /\ \A i, j \in DOMAIN output :
       i < j /\ output[i].partition = output[j].partition => output[i].row < output[j].row
  /\ \A i \in DOMAIN output :
       /\ output[i].row < Len(inputs[output[i].partition])
       /\ \A r \in 0..(output[i].row - 1) : Merged(output[i].partition, r)
  /\ filled = Len(inputs) /\ queue = {} =>
       \A p \in DOMAIN inputs : \A r \in 0..(Len(inputs[p]) - 1) : Merged(p, r)
=============================================================================

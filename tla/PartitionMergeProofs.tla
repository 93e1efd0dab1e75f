-------------------------- MODULE PartitionMergeProofs --------------------------
(***************************************************************************)
(* PartitionMerge() sorts, and loses and repeats nothing: for any number   *)
(* of partitions, rows and arrays.                                         *)
(***************************************************************************)
EXTENDS PartitionMerge, FiniteSetTheorems, WellFoundedInduction, TLAPS

Rows == [1..NArrays -> Values]

\* Comparing values is a total preorder
LEMMA CompareOrder ==
  ASSUME NEW x \in Values, NEW y \in Values, NEW z \in Values
  PROVE  /\ Compare(x, y) \in {-1, 0, 1}
         /\ Compare(x, y) = 0 => Compare(x, z) = Compare(y, z)
         /\ Compare(y, z) = 0 => Compare(x, z) = Compare(x, y)
         /\ Compare(x, y) < 0 /\ Compare(y, z) <= 0 => Compare(x, z) < 0
         /\ Compare(x, y) <= 0 /\ Compare(y, z) < 0 => Compare(x, z) < 0
         /\ Compare(x, y) < 0 <=> Compare(y, x) > 0
  BY MergeAssumption DEF MergeAssumption, Values, Compare, Sign

\* A non-empty set of numbers up to n has a least element: otherwise the intervals
\* up to its elements would shrink without end
LEMMA LeastNumber ==
  ASSUME NEW n \in Nat, NEW S \in SUBSET (1..n), S # {}
  PROVE  \E e \in S : \A k \in S : e <= k
<1> DEFINE Upto == {1..k : k \in S}
<1>1. Upto \subseteq SUBSET (1..n) /\ Upto # {}
  <2>1. \A k \in S : 1..k \subseteq 1..n
    OBVIOUS
  <2> QED
    BY <2>1
<1>2. IsFiniteSet(1..n)
  BY FS_Interval
<1>3. IsWellFoundedOn(StrictSubsetOrdering(1..n), FiniteSubsetsOf(1..n))
  BY FS_StrictSubsetOrderingWellFounded
<1>4. Upto \subseteq FiniteSubsetsOf(1..n)
  BY <1>1, <1>2, FS_Subset DEF FiniteSubsetsOf
<1>5. PICK x \in Upto : \A y \in Upto : ~ (<<y, x>> \in StrictSubsetOrdering(1..n))
  BY <1>1, <1>3, <1>4, WFMin
<1>6. PICK e \in S : x = 1..e
  BY <1>5
<1>7. ASSUME NEW k \in S, k < e PROVE FALSE
  <2>1. 1..k \in Upto /\ 1..k \subseteq 1..e /\ 1..k # 1..e
    BY <1>7
  <2>2. <<1..k, 1..e>> \in StrictSubsetOrdering(1..n)
    BY <2>1 DEF StrictSubsetOrdering
  <2> QED
    BY <1>5, <1>6, <2>1, <2>2
<1> QED
  BY <1>7

\* Rows compare as if by a total preorder too
LEMMA GreaterNegativelyTransitive ==
  ASSUME NEW r \in Rows, NEW s \in Rows, NEW t \in Rows,
         ~ Greater(r, s), ~ Greater(s, t)
  PROVE  ~ Greater(r, t)
<1> SUFFICES ASSUME Greater(r, t) PROVE FALSE
  OBVIOUS
<1>1. PICK a \in 1..NArrays : /\ Compare(r[a], t[a]) > 0
                              /\ \A b \in 1..(a - 1) : Compare(r[b], t[b]) = 0
  BY DEF Greater
<1> DEFINE Differ == {b \in 1..NArrays : Compare(r[b], s[b]) # 0 \/ Compare(s[b], t[b]) # 0}
<1>2. \A b \in 1..NArrays : r[b] \in Values /\ s[b] \in Values /\ t[b] \in Values
  BY DEF Rows
<1>3. a \in Differ
  <2>1. Compare(r[a], s[a]) = 0 => Compare(r[a], t[a]) = Compare(s[a], t[a])
    BY <1>2, CompareOrder
  <2> QED
    BY <1>1, <2>1
<1>4. Differ \subseteq Nat /\ Differ \subseteq 1..NArrays
  BY MergeAssumption DEF MergeAssumption
<1>5. PICK e \in Differ : \A b \in Differ : e <= b
  BY <1>3, <1>4, LeastNumber, MergeAssumption DEF MergeAssumption
<1>6. /\ e \in 1..NArrays /\ e <= a
      /\ \A b \in 1..(e - 1) : /\ b \in 1..NArrays
                               /\ Compare(r[b], s[b]) = 0 /\ Compare(s[b], t[b]) = 0
  <2>1. \A b \in 1..(e - 1) : b \in 1..NArrays /\ ~ (e <= b)
    BY <1>4, MergeAssumption DEF MergeAssumption
  <2> QED
    BY <1>3, <1>4, <1>5, <2>1
<1>7. /\ ~ (Compare(r[e], s[e]) > 0) /\ ~ (Compare(s[e], t[e]) > 0)
      /\ Compare(r[e], s[e]) # 0 \/ Compare(s[e], t[e]) # 0
  BY <1>5, <1>6 DEF Greater
<1>8. /\ Compare(r[e], s[e]) \in {-1, 0, 1} /\ Compare(s[e], t[e]) \in {-1, 0, 1}
      /\ Compare(r[e], t[e]) \in {-1, 0, 1}
      /\ Compare(r[e], s[e]) < 0 /\ Compare(s[e], t[e]) <= 0 => Compare(r[e], t[e]) < 0
      /\ Compare(r[e], s[e]) <= 0 /\ Compare(s[e], t[e]) < 0 => Compare(r[e], t[e]) < 0
  BY <1>2, <1>6, CompareOrder
<1>9. Compare(r[e], t[e]) < 0
  BY <1>7, <1>8
<1>10. e = a \/ e \in 1..(a - 1)
  BY <1>4, <1>6, MergeAssumption DEF MergeAssumption
<1> QED
  BY <1>1, <1>8, <1>9, <1>10

-----------------------------------------------------------------------------
MergeData == [row : Nat, partition : Nat \ {0}]

\* Does m point at a row?
Points(m) == m.partition <= Len(inputs) /\ m.row < Len(inputs[m.partition])

TypeInv ==
  /\ inputs \in Seq(Seq(Rows))
  /\ filled \in 0..Len(inputs)
  /\ queue \in SUBSET MergeData
  /\ output \in Seq(MergeData)
  /\ \A m \in queue : Points(m)
  /\ \A i \in DOMAIN output : Points(output[i])

\* The rows queued follow all the rows merged, which there are none of until the
\* queue is filled
MergeInv ==
  /\ TypeInv
  /\ \A p \in DOMAIN inputs : IsSorted(inputs[p])
  /\ filled < Len(inputs) => output = <<>>
  /\ \A i \in DOMAIN output, m \in queue : ~ Greater(Row(output[i]), Row(m))
  /\ OutputSorted

\* What a pointer points at is a row
LEMMA RowType ==
  ASSUME inputs \in Seq(Seq(Rows)), NEW m \in MergeData, Points(m)
  PROVE  Row(m) \in Rows
<1>1. m.partition \in 1..Len(inputs)
  BY DEF MergeData, Points
<1>2. inputs[m.partition] \in Seq(Rows)
  BY <1>1
<1>3. m.row + 1 \in 1..Len(inputs[m.partition])
  BY <1>2 DEF MergeData, Points
<1> QED
  BY <1>2, <1>3 DEF Row

\* The first row of a partition is queued
LEMMA FillStep == ASSUME MergeInv, Fill PROVE MergeInv'
<1> USE DEF MergeInv
<1> DEFINE first == [row |-> 0, partition |-> filled + 1]
<1>1. /\ output = <<>> /\ output' = output /\ inputs' = inputs
      /\ filled' = filled + 1 /\ filled < Len(inputs)
  BY DEF Fill
<1>2. filled \in Nat /\ Len(inputs) \in Nat /\ filled' \in 0..Len(inputs)
  BY <1>1 DEF TypeInv
<1>3. first \in MergeData
  BY <1>2 DEF MergeData
<1>4. Len(inputs[filled + 1]) > 0 => Points(first)
  BY <1>1, <1>2 DEF Points
<1>5. queue' \in SUBSET MergeData /\ \A m \in queue' : Points(m)
  BY <1>3, <1>4 DEF Fill, TypeInv
<1>6. \A m : Points(m)' = Points(m)
  BY <1>1 DEF Points
<1>7. TypeInv'
  BY <1>1, <1>2, <1>5, <1>6 DEF TypeInv, Points
<1> QED
  BY <1>1, <1>7 DEF OutputSorted

\* The least row is merged, and the next of its partition queued
LEMMA MergeStep == ASSUME MergeInv, NEW m \in queue, Merge(m) PROVE MergeInv'
<1> USE DEF MergeInv
<1> DEFINE next == [row |-> m.row + 1, partition |-> m.partition]
<1>1. /\ inputs' = inputs /\ filled' = filled /\ filled = Len(inputs)
      /\ output' = Append(output, m) /\ IsTop(m)
      /\ queue' = (queue \ {m}) \cup (IF HasNext(m) THEN {next} ELSE {})
  BY DEF Merge
<1>2. m \in MergeData /\ Points(m) /\ m.partition \in 1..Len(inputs) /\ m.row \in Nat
  BY DEF TypeInv, MergeData, Points
<1>3. next \in MergeData /\ (HasNext(m) => Points(next))
  BY <1>2 DEF MergeData, HasNext, Points
<1>4. queue' \in SUBSET MergeData /\ \A n \in queue' : Points(n)
  BY <1>1, <1>3 DEF TypeInv
<1>5. /\ output' \in Seq(MergeData) /\ DOMAIN output' = 1..(Len(output) + 1)
      /\ Len(output) \in Nat
      /\ \A i \in DOMAIN output : output'[i] = output[i]
      /\ output'[Len(output) + 1] = m
      /\ DOMAIN output' = DOMAIN output \cup {Len(output) + 1}
  BY <1>1, <1>2 DEF TypeInv
<1>6. \A n : Points(n)' = Points(n) /\ Row(n)' = Row(n)
  BY <1>1 DEF Points, Row
<1>7. TypeInv'
  <2>1. \A i \in DOMAIN output' : Points(output'[i])
    BY <1>2, <1>5 DEF TypeInv
  <2> QED
    BY <1>1, <1>4, <1>5, <1>6, <2>1 DEF TypeInv, Points
<1>8. HasNext(m) => ~ Greater(Row(m), Row(next))
  <2> SUFFICES ASSUME HasNext(m) PROVE ~ Greater(Row(m), Row(next))
    OBVIOUS
  <2> DEFINE rows == inputs[m.partition]
  <2>1. rows \in Seq(Rows) /\ IsSorted(rows)
    BY <1>2 DEF TypeInv
  <2>2. m.row + 1 \in DOMAIN rows /\ m.row + 2 \in DOMAIN rows /\ m.row + 1 < m.row + 2
    BY <1>2, <2>1 DEF HasNext, Points
  <2>3. ~ Greater(rows[m.row + 1], rows[m.row + 2])
    BY <2>1, <2>2 DEF IsSorted
  <2>4. next.row + 1 = m.row + 2 /\ next.partition = m.partition
    BY <1>2
  <2> QED
    BY <2>3, <2>4 DEF Row
<1>9. ASSUME NEW i \in DOMAIN output PROVE ~ Greater(Row(output[i]), Row(m))
  OBVIOUS
<1>10. ASSUME NEW i \in DOMAIN output', NEW n \in queue'
       PROVE  ~ Greater(Row(output'[i]), Row(n))
  <2>1. CASE n \in queue
    BY <1>1, <1>5, <2>1 DEF IsTop
  <2>2. CASE n = next /\ HasNext(m)
    <3>1. CASE i = Len(output) + 1
      BY <1>5, <1>8, <2>2, <3>1
    <3>2. CASE i \in DOMAIN output
      <4>1. output[i] \in MergeData /\ Points(output[i])
        BY <3>2 DEF TypeInv
      <4>2. Row(output[i]) \in Rows /\ Row(m) \in Rows /\ Row(next) \in Rows
        BY <1>2, <1>3, <2>2, <4>1, RowType DEF TypeInv
      <4>3. ~ Greater(Row(output[i]), Row(next))
        BY <1>8, <1>9, <2>2, <3>2, <4>2, GreaterNegativelyTransitive
      <4> QED
        BY <1>5, <2>2, <3>2, <4>3
    <3> QED
      BY <1>5, <3>1, <3>2
  <2> QED
    BY <1>1, <2>1, <2>2
<1>11. ASSUME NEW i \in DOMAIN output', NEW j \in DOMAIN output', i < j
       PROVE  ~ Greater(Row(output'[i]), Row(output'[j]))
  <2>1. i \in DOMAIN output
    BY <1>5, <1>11
  <2>2. CASE j \in DOMAIN output
    BY <1>5, <1>11, <2>1, <2>2 DEF OutputSorted
  <2>3. CASE j = Len(output) + 1
    BY <1>5, <1>9, <2>1, <2>3
  <2> QED
    BY <1>5, <2>2, <2>3
<1> QED
  BY <1>1, <1>6, <1>7, <1>10, <1>11 DEF OutputSorted, Row

\* The invariant holds throughout
LEMMA MergeInvariance == Spec => []MergeInv
<1>1. Init => MergeInv
  BY MergeAssumption DEF MergeAssumption, Init, MergeInv, TypeInv, OutputSorted, Rows
<1>2. MergeInv /\ [Next]_vars => MergeInv'
  <2> SUFFICES ASSUME MergeInv, [Next]_vars PROVE MergeInv'
    OBVIOUS
  <2>1. CASE Fill
    BY <2>1, FillStep
  <2>2. ASSUME NEW m \in queue, Merge(m) PROVE MergeInv'
    BY <2>2, MergeStep
  <2>3. CASE UNCHANGED vars
    BY <2>3 DEF vars, MergeInv, TypeInv, OutputSorted, Points, Row
  <2> QED
    BY <2>1, <2>2, <2>3 DEF Next
<1> QED
  BY <1>1, <1>2, PTL DEF Spec

(***************************************************************************)
(* The output of PartitionMerge() is sorted at every step, with NaNs last, *)
(* if each partition is.                                                   *)
(***************************************************************************)
THEOREM MergeSorts == Spec => []OutputSorted
<1>1. MergeInv => OutputSorted
  BY DEF MergeInv
<1> QED
  BY <1>1, MergeInvariance, PTL

-----------------------------------------------------------------------------
(***************************************************************************)
(* The queue has one row of each partition that isn't done: the first that *)
(* hasn't been merged.                                                     *)
(***************************************************************************)
OnceInv ==
  /\ \A m, n \in queue : m.partition = n.partition => m = n
  /\ \A m \in queue : m.partition <= filled
  /\ \A m \in queue : \A r \in 0..(m.row - 1) : Merged(m.partition, r)
  /\ \A m \in queue, i \in DOMAIN output :
       output[i].partition = m.partition => output[i].row < m.row
  /\ \A p \in 1..filled :
       \/ \E m \in queue : m.partition = p
       \/ \A r \in 0..(Len(inputs[p]) - 1) : Merged(p, r)
  /\ MergesEachRowOnce

\* The first row of a partition is queued
LEMMA FillOnce == ASSUME MergeInv, OnceInv, Fill PROVE OnceInv'
<1>1. PICK first : first = [row |-> 0, partition |-> filled + 1]
  OBVIOUS
<1>2. /\ output' = output /\ inputs' = inputs /\ filled' = filled + 1 /\ filled < Len(inputs)
      /\ queue' = IF Len(inputs[filled + 1]) > 0 THEN queue \cup {first} ELSE queue
  BY <1>1 DEF Fill
<1>3. output = <<>> /\ DOMAIN output = {} /\ filled \in Nat /\ Len(inputs) \in Nat
  BY <1>2 DEF MergeInv, TypeInv
<1>4. first.row = 0 /\ first.partition = filled + 1
  BY <1>1
<1>5. \A m \in queue : m.partition <= filled /\ m.partition \in Nat /\ m.row \in Nat
  BY DEF OnceInv, MergeInv, TypeInv, MergeData
<1>6. \A p, r : ~ Merged(p, r) /\ (Merged(p, r)' <=> Merged(p, r))
  BY <1>2, <1>3 DEF Merged
<1>7. \A m, n \in queue' : m.partition = n.partition => m = n
  <2>1. \A m, n \in queue : m.partition = n.partition => m = n
    BY DEF OnceInv
  <2>2. \A m \in queue : m.partition # first.partition
    BY <1>3, <1>4, <1>5
  <2>3. \A m \in queue' : m \in queue \/ m = first
    BY <1>2
  <2> QED
    BY <2>1, <2>2, <2>3
<1>8. \A m \in queue' : m.partition <= filled' /\ \A r \in 0..(m.row - 1) : Merged(m.partition, r)'
  <2>1. \A m \in queue : m.partition <= filled' /\ \A r \in 0..(m.row - 1) : Merged(m.partition, r)'
    BY <1>2, <1>3, <1>5, <1>6 DEF OnceInv
  <2>2. first.partition <= filled' /\ 0..(first.row - 1) = {}
    BY <1>2, <1>3, <1>4
  <2>3. \A m \in queue' : m \in queue \/ m = first
    BY <1>2
  <2> QED
    BY <2>1, <2>2, <2>3
<1>9. ASSUME NEW p \in 1..filled'
      PROVE  \/ \E m \in queue' : m.partition = p
             \/ \A r \in 0..(Len(inputs'[p]) - 1) : Merged(p, r)'
  <2>1. CASE p \in 1..filled
    BY <1>2, <1>6, <2>1 DEF OnceInv
  <2>2. CASE p = filled + 1
    <3>1. CASE Len(inputs[p]) > 0
      BY <1>2, <1>4, <2>2, <3>1
    <3>2. CASE ~ (Len(inputs[p]) > 0)
      <4>1. Len(inputs[p]) \in Nat
        BY <1>2, <1>3, <2>2 DEF MergeInv, TypeInv
      <4> QED
        BY <1>2, <3>2, <4>1
    <3> QED
      BY <3>1, <3>2
  <2> QED
    BY <1>2, <1>3, <2>1, <2>2
<1>10. MergesEachRowOnce'
  <2>1. ASSUME filled' = Len(inputs'), queue' = {}
        PROVE  \A p \in DOMAIN inputs' : \A r \in 0..(Len(inputs'[p]) - 1) : Merged(p, r)'
    <3>1. DOMAIN inputs' = 1..filled'
      BY <1>2, <2>1 DEF MergeInv, TypeInv
    <3> QED
      BY <1>9, <2>1, <3>1
  <2> QED
    BY <1>2, <1>3, <2>1 DEF MergesEachRowOnce
<1> QED
  BY <1>2, <1>3, <1>7, <1>8, <1>9, <1>10 DEF OnceInv

\* A row is merged, and the next of its partition queued
LEMMA MergeOnce ==
  ASSUME MergeInv, MergeInv', OnceInv, NEW m \in queue, Merge(m) PROVE OnceInv'
<1>1. PICK next : next = [row |-> m.row + 1, partition |-> m.partition]
  OBVIOUS
<1>2. /\ inputs' = inputs /\ filled' = filled /\ filled = Len(inputs)
      /\ output' = Append(output, m)
      /\ queue' = (queue \ {m}) \cup (IF HasNext(m) THEN {next} ELSE {})
  BY <1>1 DEF Merge
<1>3. /\ m \in MergeData /\ m.row \in Nat /\ m.partition \in 1..Len(inputs)
      /\ Len(inputs[m.partition]) \in Nat /\ m.row < Len(inputs[m.partition])
  BY DEF MergeInv, TypeInv, MergeData, Points
<1>4. next.row = m.row + 1 /\ next.partition = m.partition
  BY <1>1
<1>5. /\ Len(output) \in Nat /\ DOMAIN output' = DOMAIN output \cup {Len(output) + 1}
      /\ DOMAIN output = 1..Len(output)
      /\ \A i \in DOMAIN output : output'[i] = output[i] /\ output[i] \in MergeData
      /\ output'[Len(output) + 1] = m
  BY <1>2, <1>3 DEF MergeInv, TypeInv
<1>6. m = [row |-> m.row, partition |-> m.partition]
  BY <1>3 DEF MergeData
<1>7. \A p, r : Merged(p, r) => Merged(p, r)'
  BY <1>5 DEF Merged
<1>8. Merged(m.partition, m.row)'
  BY <1>5, <1>6 DEF Merged
<1>9. \A r \in 0..m.row : Merged(m.partition, r)'
  <2>1. \A r \in 0..(m.row - 1) : Merged(m.partition, r)'
    BY <1>7 DEF OnceInv
  <2> QED
    BY <1>3, <1>8, <2>1
<1>10. \A n \in queue' : (n \in queue /\ n # m /\ n.partition # m.partition) \/ (n = next /\ HasNext(m))
  BY <1>2 DEF OnceInv
<1>11. \A n, o \in queue' : n.partition = o.partition => n = o
  BY <1>4, <1>10 DEF OnceInv
<1>12. \A n \in queue' : n.partition <= filled'
  BY <1>2, <1>3, <1>4, <1>10 DEF OnceInv
<1>13. ASSUME NEW n \in queue', NEW r \in 0..(n.row - 1) PROVE Merged(n.partition, r)'
  <2>1. CASE n \in queue
    BY <1>7, <1>13, <2>1 DEF OnceInv
  <2>2. CASE n = next
    BY <1>3, <1>4, <1>9, <2>2
  <2> QED
    BY <1>10, <2>1, <2>2
<1>14. ASSUME NEW n \in queue', NEW i \in DOMAIN output', output'[i].partition = n.partition
       PROVE  output'[i].row < n.row
  <2>1. CASE i \in DOMAIN output /\ n # next
    BY <1>5, <1>10, <1>14, <2>1 DEF OnceInv
  <2>2. CASE i \in DOMAIN output /\ n = next
    <3>1. output[i].row < m.row /\ output[i].row \in Nat
      BY <1>4, <1>5, <1>14, <2>2 DEF OnceInv, MergeData
    <3> QED
      BY <1>3, <1>4, <1>5, <2>2, <3>1
  <2>3. CASE i = Len(output) + 1
    BY <1>3, <1>4, <1>5, <1>10, <1>14, <2>3
  <2> QED
    BY <1>5, <2>1, <2>2, <2>3
<1>15. ASSUME NEW p \in 1..filled'
       PROVE  \/ \E n \in queue' : n.partition = p
              \/ \A r \in 0..(Len(inputs'[p]) - 1) : Merged(p, r)'
  <2>1. CASE p # m.partition
    <3>1. \A n \in queue : n.partition = p => n \in queue'
      BY <1>2, <2>1
    <3> QED
      BY <1>2, <1>7, <3>1 DEF OnceInv
  <2>2. CASE p = m.partition /\ HasNext(m)
    BY <1>2, <1>4, <2>2
  <2>3. CASE p = m.partition /\ ~ HasNext(m)
    <3>1. 0..(Len(inputs[p]) - 1) \subseteq 0..m.row
      BY <1>3, <2>3 DEF HasNext
    <3> QED
      BY <1>2, <1>9, <2>3, <3>1
  <2> QED
    BY <2>1, <2>2, <2>3
<1>16. ASSUME NEW i \in DOMAIN output', NEW j \in DOMAIN output', i < j,
              output'[i].partition = output'[j].partition
       PROVE  output'[i].row < output'[j].row
  <2>1. i \in DOMAIN output
    BY <1>5, <1>16
  <2>2. CASE j \in DOMAIN output
    BY <1>5, <1>16, <2>1, <2>2 DEF OnceInv, MergesEachRowOnce
  <2>3. CASE j = Len(output) + 1
    BY <1>5, <1>16, <2>1, <2>3 DEF OnceInv
  <2> QED
    BY <1>5, <2>2, <2>3
<1>17. ASSUME NEW i \in DOMAIN output'
       PROVE  /\ output'[i].row < Len(inputs'[output'[i].partition])
              /\ \A r \in 0..(output'[i].row - 1) : \E k \in DOMAIN output' :
                   output'[k] = [row |-> r, partition |-> output'[i].partition]
  <2>1. PICK o : o = output'[i]
    OBVIOUS
  <2>2. o.row < Len(inputs[o.partition]) /\ \A r \in 0..(o.row - 1) : Merged(o.partition, r)'
    <3>1. CASE i \in DOMAIN output
      <4>1. o = output[i]
        BY <1>5, <2>1, <3>1
      <4> QED
        BY <1>7, <3>1, <4>1 DEF OnceInv, MergesEachRowOnce
    <3>2. CASE i = Len(output) + 1
      <4>1. o = m
        BY <1>5, <2>1, <3>2
      <4> QED
        BY <1>3, <1>9, <4>1
    <3> QED
      BY <1>5, <3>1, <3>2
  <2> QED
    BY <1>2, <2>1, <2>2 DEF Merged
<1>18. ASSUME filled' = Len(inputs'), queue' = {}
       PROVE  \A p \in DOMAIN inputs' : \A r \in 0..(Len(inputs'[p]) - 1) : Merged(p, r)'
  <2>1. DOMAIN inputs' = 1..filled'
    BY <1>2 DEF MergeInv, TypeInv
  <2> QED
    BY <1>15, <1>18, <2>1
<1>19. MergesEachRowOnce'
  BY <1>16, <1>17, <1>18 DEF MergesEachRowOnce, Merged
<1> QED
  BY <1>11, <1>12, <1>13, <1>14, <1>15, <1>19 DEF OnceInv

(***************************************************************************)
(* PartitionMerge() merges the rows of each partition in order, each once, *)
(* and all of them: the arrays allocated for the sum of the partitions'    *)
(* lengths are filled exactly.                                             *)
(***************************************************************************)
THEOREM MergesAll == Spec => []MergesEachRowOnce
<1>1. Init => OnceInv
  <2> SUFFICES ASSUME Init PROVE OnceInv
    OBVIOUS
  <2>1. DOMAIN output = {} /\ queue = {} /\ filled = 0
    BY DEF Init
  <2>2. filled = Len(inputs) => DOMAIN inputs = {}
    BY <2>1, MergeAssumption DEF MergeAssumption, Init
  <2> QED
    BY <2>1, <2>2 DEF OnceInv, MergesEachRowOnce
<1>2. MergeInv /\ MergeInv' /\ OnceInv /\ [Next]_vars => OnceInv'
  <2> SUFFICES ASSUME MergeInv, MergeInv', OnceInv, [Next]_vars PROVE OnceInv'
    OBVIOUS
  <2>1. CASE Fill
    BY <2>1, FillOnce
  <2>2. ASSUME NEW m \in queue, Merge(m) PROVE OnceInv'
    BY <2>2, MergeOnce
  <2>3. CASE UNCHANGED vars
    BY <2>3 DEF vars, OnceInv, MergesEachRowOnce, Merged
  <2> QED
    BY <2>1, <2>2, <2>3 DEF Next
<1>3. OnceInv => MergesEachRowOnce
  BY DEF OnceInv
<1> QED
  BY <1>1, <1>2, <1>3, MergeInvariance, PTL DEF Spec
=============================================================================

------------------------------- MODULE ReadColumn -------------------------------
(***************************************************************************)
(* Reading a column (ReadImpl): a task partitions the read into chunks and *)
(* reads them itself, or has one group of chunks for each instance read by *)
(* further tasks, all at once, into the one result buffer.  The buffer may *)
(* be memory of the caller's that nothing keeps alive after the call.      *)
(*                                                                         *)
(* An element of the column stands for itself: it is its coordinates.      *)
(***************************************************************************)
EXTENDS DataPartition

CONSTANTS
  NInstances,     \* instances of the table
  MinSplitBytes,  \* kMinSplitBytes, in elements
  Reads           \* the columns and requests to read

\* Cells that are there have a shape, of as many dimensions as the column if that is
\* fixed
IsColumn(column) ==
  /\ column.fixed \in BOOLEAN /\ column.shape \in Seq(Nat) /\ column.ndim \in Int
  /\ column.cells \in Seq([shape : Seq(Nat), defined : BOOLEAN])
  /\ ~ column.fixed =>
       \A r \in DOMAIN column.cells :
         LET cell == column.cells[r]
         IN  cell.defined => /\ cell.shape # <<>>
                             /\ column.ndim >= 0 => Len(cell.shape) = column.ndim

ASSUME ReadAssumption == NInstances \in Nat \ {0} /\ MinSplitBytes \in Nat

\* Indices may be out of range, and the array of any shape
ASSUME ReadsAssumption ==
  \A r \in Reads :
    /\ IsColumn(r.column) /\ r.sel \in Seq(Seq(Int)) /\ r.result \in Seq(Nat)
    /\ IsStorage(r.storage, NRow(r.column))

\* An element that the read leaves alone
Untouched == <<>>

VARIABLES
  read,     \* column; sel, the selection; result, the shape of the caller's array,
            \* if any; storage, of the column: see RowUnits
  stage,    \* partition, spread, read or returned
  chunks,   \* chunks of the partition
  buffer,   \* the elements of the result: a sequence
  groups,   \* of each group: the chunks left to read
  status,   \* of each group: busy, ok or failed
  outcome   \* of the call: none, ok or failed

vars == <<read, stage, chunks, buffer, groups, status, outcome>>

Init ==
  /\ read \in Reads
  /\ stage = "partition"
  /\ chunks = <<>> /\ buffer = <<>> /\ groups = <<>> /\ status = <<>>
  /\ outcome = "none"

-----------------------------------------------------------------------------
\* The shape of the result, and the selection: derived from the column, or from
\* the caller's array
ShapeData ==
  IF read.result = <<>> THEN MakeRead(read.column, read.sel, FALSE)
  ELSE LET negated == NegateMissingSelectedRows(read.column, read.sel, read.result)
       IN  IF negated.ok
           THEN [FixedShape(Front(read.result), Last(read.result))
                   EXCEPT !.extents = negated.extents]
           ELSE Error

EffectiveSelection ==
  IF read.result = <<>> THEN read.sel
  ELSE NegateMissingSelectedRows(read.column, read.sel, read.result).sel

Partition == Make(EffectiveSelection, ShapeData, NInstances, MinSplitBytes,
                  IF NInstances > 1 THEN read.storage ELSE Other)

\* Number of elements of the chunks
NElementsOf(cs) == Sum([c \in DOMAIN cs |-> NElements(cs[c])])

\* GetResultBufferOrAllocate(): the caller's array must have as many elements
CanHold(cs) == read.result # <<>> => NElementsOf(cs) = Product(read.result)

NewBuffer(cs) == [k \in 1..NElementsOf(cs) |-> Untouched]

\* The partitioning task.  With one instance, or one chunk, it goes on to read
PartitionTask ==
  /\ stage = "partition"
  /\ ShapeData.ok /\ Partition.ok
  /\ chunks' = Partition.chunks
  /\ IF NInstances > 1 /\ Len(Partition.chunks) > 1
     THEN stage' = "spread" /\ UNCHANGED <<buffer, groups, status>>
     ELSE /\ CanHold(Partition.chunks)
          /\ stage' = "read"
          /\ buffer' = NewBuffer(Partition.chunks)
          /\ groups' = <<Partition.chunks>>
          /\ status' = <<"busy">>
  /\ UNCHANGED <<read, outcome>>

\* The callback: a task for each group
Spread ==
  LET ends == GroupChunks(chunks, NInstances)
      start(g) == IF g = 1 THEN 1 ELSE ends[g - 1] + 1
  IN  /\ stage = "spread"
      /\ CanHold(chunks)
      /\ stage' = "read"
      /\ buffer' = NewBuffer(chunks)
      /\ groups' = [g \in DOMAIN ends |-> SubSeq(chunks, start(g), ends[g])]
      /\ status' = [g \in DOMAIN ends |-> "busy"]
      /\ UNCHANGED <<read, chunks, outcome>>

\* Before anything is read: the request doesn't suit the column or the array, the
\* table was closed, or casacore threw
FailEarly ==
  /\ stage \in {"partition", "spread"}
  /\ stage' = "returned" /\ outcome' = "failed"
  /\ UNCHANGED <<read, chunks, buffer, groups, status>>

\* casacore throws if the element isn't there
Exists(source) ==
  /\ Last(source) < NRow(read.column)
  /\ IsDefined(read.column, Last(source))
  /\ \A d \in 1..(Len(source) - 1) : source[d] < Cell(read.column, Last(source))[d]

\* The buffer once a chunk has been read into it
AfterRead(chunk) ==
  [k \in DOMAIN buffer |->
     LET at == {pos \in Positions(chunk) :
                  Target(chunk, pos) = k - 1 /\ Exists(Source(chunk, pos))}
     IN  IF IsEmpty(chunk) \/ at = {} THEN buffer[k]
         ELSE Source(chunk, CHOOSE pos \in at : TRUE)]

\* One iteration of ReadChunks(), in the task reading group g
ReadChunk(g) ==
  LET chunk == Head(groups[g])
  IN  /\ status[g] = "busy" /\ groups[g] # <<>>
      /\ ~ IsEmpty(chunk) => \A pos \in Positions(chunk) : Exists(Source(chunk, pos))
      /\ buffer' = AfterRead(chunk)
      /\ groups' = [groups EXCEPT ![g] = Tail(@)]
      /\ UNCHANGED <<read, stage, chunks, status, outcome>>

\* The task fails: casacore threw, or the table was closed before it ran.  What
\* it was reading may be partly in the buffer
FailGroup(g) ==
  /\ status[g] = "busy" /\ groups[g] # <<>>
  /\ status' = [status EXCEPT ![g] = "failed"]
  /\ \/ UNCHANGED buffer
     \/ buffer' = AfterRead(Head(groups[g]))
  /\ UNCHANGED <<read, stage, chunks, groups, outcome>>

EndGroup(g) ==
  /\ status[g] = "busy" /\ groups[g] = <<>>
  /\ status' = [status EXCEPT ![g] = "ok"]
  /\ UNCHANGED <<read, stage, chunks, buffer, groups, outcome>>

\* A fan-in that ends with the first failure, unlike All()
FirstFailure ==
  \/ \A g \in DOMAIN status : status[g] # "busy"
  \/ \E g \in DOMAIN status : status[g] = "failed"

\* All(): has every group's future finished?
AllFinished == \A g \in DOMAIN status : status[g] # "busy"

\* MakeArray() nests the buffer in lists, if the casa.convert.strategy is valid and
\* arrow accepts the lists
MakeArray == {"ok", "failed"}

Return ==
  /\ stage = "read" /\ AllFinished
  /\ stage' = "returned"
  /\ outcome' \in IF \A g \in DOMAIN status : status[g] = "ok" THEN MakeArray ELSE {"failed"}
  /\ UNCHANGED <<read, chunks, buffer, groups, status>>

Next ==
  \/ FailEarly \/ PartitionTask \/ Spread \/ Return
  \/ \E g \in DOMAIN groups : ReadChunk(g) \/ FailGroup(g) \/ EndGroup(g)

Spec == Init /\ [][Next]_vars

-----------------------------------------------------------------------------
(* What the result should be *)

\* The rows of the result, and the indices wanted in dimension d of row r.  They
\* follow from the request alone
WantedRows ==
  IF HasRowSpan(read.sel) \/ read.result = <<>> THEN SelectedRows(read.column, read.sel)
  ELSE [i \in 1..Last(read.result) |-> i - 1]

ShapeOfRow(r) ==
  IF read.column.fixed THEN read.column.shape
  ELSE IF r \in 0..(NRow(read.column) - 1) THEN Cell(read.column, r) ELSE <<>>

RankOfRow(r) == IF read.result = <<>> THEN Len(ShapeOfRow(r)) ELSE Len(read.result) - 1

Wanted(r, d) ==
  IF IsSelected(read.sel, d, RankOfRow(r) + 1) THEN FSpan(read.sel, d, RankOfRow(r) + 1)
  ELSE Monotonic(IF read.result = <<>> THEN ShapeOfRow(r)[d] ELSE read.result[d]).disk

\* Is there an element of the column at index, of row r?
HasElement(r, index) ==
  /\ r \in 0..(NRow(read.column) - 1)
  /\ IsDefined(read.column, r)
  /\ Len(index) = Len(ShapeOfRow(r))
  /\ \A d \in DOMAIN index : index[d] \in 0..(ShapeOfRow(r)[d] - 1)

\* The elements of a row of the result, in FORTRAN order
WantedElements(r) ==
  LET shape == [d \in 1..RankOfRow(r) |-> Len(Wanted(r, d))]
      index(k) == [d \in DOMAIN shape |->
                     Wanted(r, d)[((k \div Strides(shape)[d]) % shape[d]) + 1]]
  IN  [k \in 1..Product(shape) |->
         IF HasElement(r, index(k - 1)) THEN Append(index(k - 1), r) ELSE Untouched]

Expected == FlattenSeq([i \in DOMAIN WantedRows |-> WantedElements(WantedRows[i])])

-----------------------------------------------------------------------------
(* Properties *)

TypeOK ==
  /\ stage \in {"partition", "spread", "read", "returned"}
  /\ outcome \in {"none", "ok", "failed"}
  /\ DOMAIN groups = DOMAIN status /\ Len(groups) <= NInstances
  /\ \A g \in DOMAIN groups : status[g] \in {"busy", "ok", "failed"}
  /\ \A k \in DOMAIN buffer : buffer[k] # Untouched => Exists(buffer[k])

\* A read implements AtomicRead: if GetColumn() succeeds, the array holds exactly
\* the elements selected, each in its place, and elements that are not there were
\* left alone; from then on no task writes to it
Promise ==
  INSTANCE AtomicRead WITH
    NoResult <- [is |-> "none", array |-> <<>>],
    Failed <- [is |-> "failed", array |-> <<>>],
    expected <- [is |-> "ok", array |-> Expected],
    result <- [is |-> outcome, array |-> IF outcome = "ok" THEN buffer ELSE <<>>]

ReadsAtomically == Promise!Spec

\* Nothing writes to the result once the call has returned, with an error either:
\* the caller's array is unowned memory, that may be gone (unowned_buffer())
NoWriteAfterReturn == [][outcome # "none" => buffer' = buffer]_vars

\* No two chunks write to the same element of the result, and none beyond it:
\* groups of chunks write to it at the same time, without synchronisation
NoWriteRaces ==
  stage = "spread" =>
    \A c \in DOMAIN chunks :
      /\ Targets(chunks[c]) \subseteq 0..(NElementsOf(chunks) - 1)
      /\ \A d \in DOMAIN chunks : c # d => Targets(chunks[c]) \cap Targets(chunks[d]) = {}

\* GroupChunks() gives every group work, and no group goes on once it has its
\* share of the elements
Balanced ==
  stage = "spread" =>
    LET ends == GroupChunks(chunks, NInstances)
        start(g) == IF g = 1 THEN 0 ELSE ends[g - 1]
        share == NElementsOf(chunks) \div Len(ends) + 1
    IN  /\ Len(ends) = Min({NInstances, Len(chunks)})
        /\ \A g \in DOMAIN ends :
             /\ start(g) < ends[g]
             /\ NElementsOf(SubSeq(chunks, start(g) + 1, ends[g] - 1)) <= share

\* The storage units that a chunk reads
UnitsRead(chunk) ==
  IF IsEmpty(chunk) THEN {}
  ELSE {UnitOf(read.storage, row) : row \in Range(Last(chunk.spans).disk)}

\* Every dimension but the rows is read as one range
OneSection(c) == \A k \in DOMAIN chunks : Front(chunks[k].spans) = Front(chunks[c].spans)

\* AlignBoundary() leaves each tile or block to one chunk, if the rows alone are
\* split and those of a unit are consecutive, in the order of the hypercube: otherwise
\* instances would all read, or decode, the unit
UnitsReadOnce ==
  /\ stage = "spread" /\ ShapeData.fixed /\ ShapeData.extents = <<>>
  /\ HasUnits(read.storage)
  /\ UnitsConsecutive(read.storage, NRow(read.column))
  /\ UnitsInOrder(read.storage, NRow(read.column))
  => \A c, d \in DOMAIN chunks :
       c # d /\ OneSection(c) => UnitsRead(chunks[c]) \cap UnitsRead(chunks[d]) = {}

\* The lists that GetOffsets() nests the result in lead from each row and index to
\* the element's place in the buffer, and an index within the cell never leaves its
\* list: cells of any shapes, and lists of several dimensions, one in the other
ListsLeadToElements ==
  outcome = "ok" =>
    LET shapeData == ShapeData
        ndim == shapeData.ndim - 1
        offsets == [d \in 1..ndim |-> GetOffsets(shapeData, d)]
        ahead(r) == Sum([q \in 1..(r - 1) |-> Product(RowShape(shapeData, q))])
        inside(r) == {i \in [1..ndim -> 0..Max({0} \cup Range(RowShape(shapeData, r)))] :
                        \A d \in 1..ndim : i[d] < RowShape(shapeData, r)[d]}
    IN  \A r \in 1..RowsOf(shapeData) : \A i \in inside(r) :
          LET list[d \in 0..ndim] ==   \* the list of dimension d that i leads to
                IF d = ndim THEN r - 1 ELSE offsets[d + 1][list[d + 1] + 1] + i[d + 1]
          IN  /\ list[0] = ahead(r) + Dot(i, Strides(RowShape(shapeData, r)))
              /\ \A d \in 1..ndim : list[d - 1] < offsets[d][list[d] + 2]
=============================================================================

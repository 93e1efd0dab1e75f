------------------------------- MODULE WriteColumn -------------------------------
(***************************************************************************)
(* Writing a column (WriteImpl): one task checks the data and the          *)
(* selection against the column, shapes the cells that have none, and      *)
(* writes the data chunk by chunk.  It may fail at any point, and undoes   *)
(* nothing.                                                                *)
(*                                                                         *)
(* The data is an arrow array, possibly a slice of a larger one.  Its k-th *)
(* element is Datum(k); those of the array it was sliced from that come    *)
(* before have k <= 0.                                                     *)
(***************************************************************************)
EXTENDS DataPartition

Py == INSTANCE PythonIndex

CONSTANT Writes   \* what is written to what: see the variable "write"

Datum(k) == <<"data", k>>
Old == <<"old">>          \* an element as it was
Unset == <<"unset">>      \* an element of a cell that was only just shaped
Moved == <<"moved">>      \* what a moved String leaves behind

VARIABLES
  write,    \* column, as it was; index, as given in Python; data: the shapes of its rows
            \* (rows), the number of rows that slicing cut off ahead of them (cut)
            \* and how its values become those of the column (as)
  column,   \* the column: each cell also has its value, from indices to elements
  sel,      \* the selection, once built
  stage,    \* index, check, rows, write or returned
  row,      \* the next row of the data to check
  chunks,   \* the chunks left to write
  buffer,   \* the elements of the data, as extracted
  outcome   \* of the call: none, ok or failed

vars == <<write, column, sel, stage, row, chunks, buffer, outcome>>

Init ==
  /\ write \in Writes
  /\ column = write.column
  /\ sel = <<>>
  /\ stage = "index"
  /\ row = 1
  /\ chunks = <<>> /\ buffer = <<>>
  /\ outcome = "none"

data == write.data
NData == Len(data.rows)
Rank == Len(data.rows[1])

\* The indices of a cell of this shape
Indices(shape) ==
  {i \in [DOMAIN shape -> 0..Max({0} \cup Range(shape))] : \A d \in DOMAIN shape : i[d] < shape[d]}

-----------------------------------------------------------------------------
(* MakeWrite() *)

\* GetResultShapeData(): fixed, if the lists of each dimension have one length
DataShape ==
  IF Cardinality(Range(data.rows)) = 1 THEN FixedShape(data.rows[1], NData)
  ELSE [ok |-> TRUE, fixed |-> FALSE, shape |-> <<>>, rows |-> data.rows,
        ndim |-> Rank + 1, extents |-> <<>>]

RowsFit ==
  HasRowSpan(sel) =>
    /\ Len(Last(sel)) = NData /\ NData <= NRow(column)
    /\ \A k \in 1..NData : Last(sel)[k] < NRow(column)

Selected(d) == IsSelected(sel, d, Rank + 1)
Span(d) == FSpan(sel, d, Rank + 1)

\* Each element of the data is written to the index at the same position
SpansMatch == \A k \in 1..NData, d \in 1..Rank : Selected(d) => Len(Span(d)) = data.rows[k][d]

\* Compares sizes only
SizeFits(cell, shape) ==
  \A d \in DOMAIN shape \cap DOMAIN cell :
    IF Selected(d) THEN Len(Span(d)) <= cell[d] ELSE shape[d] <= cell[d]

\* Indices selected must lie in the cell, and elsewhere the data may not be larger.
\* A cell of lower rank is indexed beyond its shape, which may pass or Fail
CheckAgainstCell(cell, shape) ==
  \A d \in DOMAIN shape \cap DOMAIN cell :
    IF Selected(d)
    THEN /\ Cardinality({k \in DOMAIN Span(d) : Span(d)[k] >= 0}) <= cell[d]
         /\ Max(Range(Span(d))) < cell[d]
    ELSE shape[d] <= cell[d]

\* putcol() builds the selection, before it calls PutColumn()
BuildSelection ==
  LET built == Py!build_selection(write.index)
  IN  /\ stage = "index"
      /\ built.ok
      /\ sel' = built.sel
      /\ stage' = "check"
      /\ UNCHANGED <<write, column, row, chunks, buffer, outcome>>

\* Every check made before the loop over the rows
CheckRequest ==
  /\ stage = "check"
  /\ column.ndim # -1 => Rank = column.ndim
  /\ RowsFit
  /\ SpansMatch
  /\ Rank > 0 /\ column.fixed => \A k \in 1..NData : CheckAgainstCell(column.shape, data.rows[k])
  /\ stage' = "rows"
  /\ UNCHANGED <<write, column, sel, row, chunks, buffer, outcome>>

\* Where row k of the data goes
TargetRow(k) == IF HasRowSpan(sel) THEN Last(sel)[k] ELSE k - 1

\* The rows of the data that are checked one by one
NChecked ==
  IF column.fixed \/ Rank = 0 THEN 0
  ELSE IF HasRowSpan(sel) THEN NData ELSE Min({NData, NRow(column)})

\* The shape of an undefined cell: that of the data, or more if the selection
\* goes further
NewCellShape(shape) ==
  [d \in DOMAIN shape |-> IF Selected(d) THEN Max({shape[d]} \cup {i + 1 : i \in Range(Span(d))})
                          ELSE shape[d]]

SetShape(r, shape) ==
  [column EXCEPT !.cells[r + 1] =
     [shape |-> shape, defined |-> TRUE, value |-> [i \in Indices(shape) |-> Unset]]]

\* One iteration of the loop over the rows
CheckRow ==
  LET r == TargetRow(row)
  IN  /\ stage = "rows" /\ row <= NChecked
      /\ \/ r < 0 /\ UNCHANGED column
         \/ /\ r >= 0 /\ IsDefined(column, r)
            /\ CheckAgainstCell(Cell(column, r), data.rows[row])
            /\ UNCHANGED column
         \/ /\ r >= 0 /\ ~ IsDefined(column, r)
            /\ column' = SetShape(r, NewCellShape(data.rows[row]))
      /\ row' = row + 1
      /\ UNCHANGED <<write, sel, stage, chunks, buffer, outcome>>

-----------------------------------------------------------------------------
(* Writing *)

Partition == Make(sel, DataShape, 1, 0, Other)

NValues == Sum([k \in 1..NData |-> Product(data.rows[k])])

\* The length of GetFlatArray(): slicing a list array leaves its values whole
FlatLength == IF Rank = 0 THEN NData ELSE NValues + data.cut * Product(data.rows[1])

\* ExtractBufferOrCopyValues(): values that need no conversion are used in place,
\* from the start of the buffer that the slice shares
ExtractBuffer ==
  IF data.as = "same" THEN [k \in 1..(data.cut + FlatLength) |-> Datum(k - data.cut)]
  ELSE [k \in 1..FlatLength |-> Datum(k)]

PartitionData ==
  /\ stage = "rows" /\ row > NChecked
  /\ Partition.ok
  /\ NValues = FlatLength
  /\ chunks' = Partition.chunks
  /\ buffer' = ExtractBuffer
  /\ stage' = "write"
  /\ UNCHANGED <<write, column, sel, row, outcome>>

\* Is there such an element?  Otherwise casacore throws
Exists(source) ==
  /\ Last(source) < NRow(column)
  /\ IsDefined(column, Last(source))
  /\ Front(source) \in Indices(Cell(column, Last(source)))

\* Takes every chunk to be contiguous in memory
ContiguousPuts(chunk, n) ==
  {[to |-> Source(chunk, pos), from |-> chunk.offset + Dot(pos, Strides(ChunkShape(chunk))) + 1] :
     pos \in {p \in Positions(chunk) : Last(p) < n /\ Exists(Source(chunk, p))}}

\* The elements a chunk writes in its first n rows, and where from
Puts(chunk, n) ==
  {[to |-> Source(chunk, pos), from |-> Target(chunk, pos) + 1] :
     pos \in {p \in Positions(chunk) : Last(p) < n /\ Exists(Source(chunk, p))}}

AfterWrite(chunk, n) ==
  [column EXCEPT !.cells =
     [r \in DOMAIN column.cells |->
        [column.cells[r] EXCEPT !.value =
           [i \in DOMAIN column.cells[r].value |->
              LET puts == {put \in Puts(chunk, n) : put.to = Append(i, r - 1)}
              IN  IF puts = {} THEN column.cells[r].value[i]
                  ELSE buffer[(CHOOSE put \in puts : TRUE).from]]]]]

\* GatherChunkArray() moves Strings out of the buffer
AfterGather(chunk) ==
  IF chunk.contiguous \/ data.as # "string" THEN buffer
  ELSE [k \in DOMAIN buffer |-> IF k - 1 \in Targets(chunk) THEN Moved ELSE buffer[k]]

NRows(chunk) == Len(Last(chunk.spans).disk)

\* One iteration of WriteChunks()
WriteChunk ==
  LET chunk == Head(chunks)
  IN  /\ stage = "write" /\ chunks # <<>>
      /\ IF IsEmpty(chunk) THEN UNCHANGED <<column, buffer>>
         ELSE /\ \A pos \in Positions(chunk) : Exists(Source(chunk, pos))
              /\ column' = AfterWrite(chunk, NRows(chunk))
              /\ buffer' = AfterGather(chunk)
      /\ chunks' = Tail(chunks)
      /\ UNCHANGED <<write, sel, stage, row, outcome>>

Return ==
  /\ stage = "write" /\ chunks = <<>>
  /\ stage' = "returned" /\ outcome' = "ok"
  /\ UNCHANGED <<write, column, sel, row, chunks, buffer>>

\* The index is refused, a check fails, the table can't be written to, or casacore
\* throws, perhaps having put some rows of a chunk
Fail ==
  /\ stage # "returned"
  /\ stage' = "returned" /\ outcome' = "failed"
  /\ \/ UNCHANGED column
     \/ /\ stage = "write" /\ chunks # <<>> /\ ~ IsEmpty(Head(chunks))
        /\ \E n \in 1..NRows(Head(chunks)) : column' = AfterWrite(Head(chunks), n)
  /\ UNCHANGED <<write, sel, row, chunks, buffer>>

Next == BuildSelection \/ CheckRequest \/ CheckRow \/ PartitionData \/ WriteChunk \/ Return \/ Fail

Spec == Init /\ [][Next]_vars

-----------------------------------------------------------------------------
(* What should be written, from the request alone *)

\* Where the element at index i of row k of the data goes
Destination(k, i) ==
  LET entry(d) == Py!Entry(write.index, d, Rank + 1)
      at(d, n) == IF Py!Selects(entry(d)) THEN Py!Meaning(entry(d))[n + 1] ELSE n
  IN  [d \in 1..(Rank + 1) |-> at(d, IF d > Rank THEN k - 1 ELSE i[d])]

\* Every index selected has data
DataFills ==
  \A d \in 1..(Rank + 1) :
    LET entry == Py!Entry(write.index, d, Rank + 1)
    IN  Py!Selects(entry) =>
          \A k \in 1..NData :
            Len(Py!Meaning(entry)) = IF d > Rank THEN NData ELSE data.rows[k][d]

\* The elements of the data that are to be written, and where
Wanted ==
  LET ahead(k) == Sum([j \in 1..(k - 1) |-> Product(data.rows[j])])
      all == UNION {{[to |-> Destination(k, i),
                      datum |-> Datum(ahead(k) + Dot(i, Strides(data.rows[k])) + 1)] :
                       i \in Indices(data.rows[k])} : k \in 1..NData}
  IN  {w \in all : \A d \in DOMAIN w.to : w.to[d] >= 0}

\* What the element at index i of row r was before
Before(r, i) == IF IsDefined(write.column, r) THEN Old ELSE Unset

\* What it may be once written
After(r, i, wanted) ==
  LET new == {w.datum : w \in {v \in wanted : v.to = Append(i, r)}}
  IN  IF new = {} THEN {Before(r, i)} ELSE new

-----------------------------------------------------------------------------
(* Properties *)

\* When putcol() succeeds every index has data, every element of the data is where
\* the index, as Python reads it, puts it, nothing else has changed, and only the
\* cells that had to be shaped were: however the selection is built, and chunks are
\* cut, sorted and gathered
WritesSelected ==
  outcome = "ok" =>
    LET wanted == Wanted
    IN  /\ DataFills
        /\ \A w \in wanted : Exists(w.to)
        /\ \A r \in 0..(NRow(column) - 1) :
             IsDefined(column, r) =>
               \A i \in Indices(Cell(column, r)) :
                 column.cells[r + 1].value[i] \in After(r, i, wanted)


\* MakeWrite() checks enough: what passes isn't refused by casacore half way
\* through, for want of an element to write to.  It leaves to casacore data with
\* more rows than the column, and of another rank than a cell
ChecksSuffice ==
  /\ stage = "write"
  /\ HasRowSpan(sel) \/ NData <= NRow(column)
  /\ \A r \in 0..(NRow(column) - 1) : IsDefined(column, r) => Len(Cell(column, r)) = Rank
  => \A c \in DOMAIN chunks :
       ~ IsEmpty(chunks[c]) => \A pos \in Positions(chunks[c]) : Exists(Source(chunks[c], pos))

\* Data written by PutColumn() is what GetColumn() with the same selection reads
\* back into an array of its shape, whatever the shapes of the cells
ReadsBack ==
  outcome = "ok" /\ DataShape.fixed =>
    LET negated == NegateMissingSelectedRows(column, sel, DataShape.shape)
        read == Make(negated.sel, [DataShape EXCEPT !.extents = negated.extents], 1, 0, Other)
    IN  negated.ok /\ read.ok =>
          \A chunk \in Range(read.chunks) : ~ IsEmpty(chunk) =>
            \A pos \in Positions(chunk) :
              LET from == Source(chunk, pos)
              IN  column.cells[Last(from) + 1].value[Front(from)] = Datum(Target(chunk, pos) + 1)
=============================================================================

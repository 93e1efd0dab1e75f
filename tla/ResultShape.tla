------------------------------- MODULE ResultShape -------------------------------
(***************************************************************************)
(* The shape of the result of a read (ResultShapeData), and the checks of  *)
(* a selection against the cells of a column.                              *)
(*                                                                         *)
(* Dimensions are in FORTRAN order and the row dimension is the last.      *)
(* Indices count from 0, as in the code: dimension d, index i of a span is *)
(* span[i + 1].  A selection is a sequence of spans, aligned with the last *)
(* dimensions of the column; an empty span selects the whole dimension,    *)
(* and a negative index an element that is not read.                       *)
(***************************************************************************)
EXTENDS Integers, Sequences, FiniteSetsExt, SequencesExt

Sum(s) == FoldLeft(LAMBDA x, y : x + y, 0, s)
Product(s) == FoldLeft(LAMBDA x, y : x * y, 1, s)

(***************************************************************************)
(* A column: whether its cells have a fixed shape, that shape, the number  *)
(* of dimensions it is described with (-1: any), and the shape of the cell *)
(* of each row, which may be undefined if the shape isn't fixed.           *)
(***************************************************************************)
NRow(column) == Len(column.cells)
Cell(column, r) == column.cells[r + 1].shape
IsDefined(column, r) == column.cells[r + 1].defined

\* A failed arrow::Status
Error == [ok |-> FALSE]

-----------------------------------------------------------------------------
(* Selections *)

\* Is dimension d of ndim selected?
IsSelected(sel, d, ndim) ==
  LET s == d - ndim + Len(sel) IN s \in DOMAIN sel /\ sel[s] # <<>>

\* MaybeFSpan() of a selected dimension
FSpan(sel, d, ndim) == sel[d - ndim + Len(sel)]

HasRowSpan(sel) == sel # <<>> /\ Last(sel) # <<>>

\* The rows selected: all of them, unless there is a row span
SelectedRows(column, sel) ==
  IF HasRowSpan(sel) THEN Last(sel) ELSE [i \in 1..NRow(column) |-> i - 1]

-----------------------------------------------------------------------------
(* MakeRead(): the shape of a new array *)

\* Do the indices selected lie within a cell?
SelectionFits(sel, cell) ==
  \A d \in DOMAIN cell :
    IsSelected(sel, d, Len(cell) + 1) =>
      Max(Range(FSpan(sel, d, Len(cell) + 1))) < cell[d]

\* CellShapeClipper: selected dimensions have the size of their selection
Clip(sel, cell) ==
  [d \in DOMAIN cell |-> IF IsSelected(sel, d, Len(cell) + 1)
                         THEN Len(FSpan(sel, d, Len(cell) + 1)) ELSE cell[d]]

\* The rank of the rows, if they agree; otherwise that of the column
CommonRank(column, shapes) ==
  LET ranks == {Len(shapes[i]) + 1 : i \in {j \in DOMAIN shapes : shapes[j] # <<>>}}
  IN  IF Cardinality(ranks) = 1 THEN CHOOSE n \in ranks : TRUE
      ELSE IF column.ndim < 0 THEN column.ndim ELSE column.ndim + 1

\* A result whose rows all have the shape "cell"
FixedShape(cell, nrows) ==
  [ok |-> TRUE, fixed |-> TRUE, shape |-> Append(cell, nrows), rows |-> <<>>,
   ndim |-> Len(cell) + 1, extents |-> <<>>]

\* MakeRowData() and the variable case of MakeRead().  Missing rows have the
\* degenerate shape <<>>
MakeVariable(column, sel, allowMissing) ==
  LET rows == SelectedRows(column, sel)
      missing == {i \in DOMAIN rows : rows[i] < 0 \/ ~ IsDefined(column, rows[i])}
      shapes == [i \in DOMAIN rows |->
                   IF i \in missing THEN <<>> ELSE Clip(sel, Cell(column, rows[i]))]
  IN  IF \/ \E i \in DOMAIN rows : rows[i] >= NRow(column)
         \/ missing # {} /\ ~ allowMissing
         \/ \E i \in DOMAIN rows \ missing : ~ SelectionFits(sel, Cell(column, rows[i]))
      THEN Error
      ELSE IF missing = {} /\ Cardinality(Range(shapes)) = 1
      THEN FixedShape(shapes[1], Len(rows))
      ELSE [ok |-> TRUE, fixed |-> FALSE, shape |-> <<>>, rows |-> shapes,
            ndim |-> CommonRank(column, shapes), extents |-> <<>>]

MakeRead(column, sel, allowMissing) ==
  IF ~ column.fixed THEN MakeVariable(column, sel, allowMissing)
  ELSE IF ~ SelectionFits(sel, column.shape) THEN Error
  ELSE FixedShape(Clip(sel, column.shape), Len(SelectedRows(column, sel)))

-----------------------------------------------------------------------------
(* NegateMissingSelectedRows(): reading into an array the caller supplies *)

\* Does the cell, as selected, suit the result's cell shape?
ValidateCellShape(sel, cell, result) ==
  /\ Len(cell) = Len(result)
  /\ \A d \in DOMAIN cell :
       IsSelected(sel, d, Len(cell) + 1) =>
         LET span == FSpan(sel, d, Len(cell) + 1)
         IN  Len(span) = result[d] /\ \A k \in DOMAIN span : span[k] < cell[d]

\* The part of the result that the cell fills
CellExtent(sel, cell, result) ==
  [d \in DOMAIN result |-> IF IsSelected(sel, d, Len(result) + 1) THEN result[d]
                           ELSE Min({cell[d], result[d]})]

\* 0, 1, ... extent - 1 followed by as many -1 as it takes
PaddedIds(size, extent) == [i \in 1..size |-> IF i <= extent THEN i - 1 ELSE -1]

\* Selected dimensions stay, rows are replaced, and the dimensions that the cells
\* don't fill are padded
RebuildSelection(sel, result, extent, rows) ==
  LET n == Len(result) + 1
  IN  [d \in 1..n |->
         IF d = n THEN rows
         ELSE IF IsSelected(sel, d, n) THEN FSpan(sel, d, n)
         ELSE IF extent[d] < result[d] THEN PaddedIds(result[d], extent[d]) ELSE <<>>]

RowSpanOf(sel) == IF HasRowSpan(sel) THEN Last(sel) ELSE <<>>

\* Cells of a fixed shape share their extent
NegateFixed(column, sel, result) ==
  LET extent == CellExtent(sel, column.shape, result)
  IN  IF ~ ValidateCellShape(sel, column.shape, result) THEN Error
      ELSE [ok |-> TRUE, extents |-> <<>>,
            sel |-> IF extent = result THEN sel
                    ELSE RebuildSelection(sel, result, extent, RowSpanOf(sel))]

\* Undefined rows are negated.  Where extents differ from row to row, the data
\* partition pads each row by its own extent instead of the selection
NegateVariable(column, sel, result, nrows) ==
  LET rows == SelectedRows(column, sel)
      read == {i \in DOMAIN rows : rows[i] >= 0 /\ IsDefined(column, rows[i])}
      extent(i) == IF i \in read THEN CellExtent(sel, Cell(column, rows[i]), result)
                   ELSE result
      common == IF read = {} THEN result ELSE extent(Min(read))
      differ == {i \in read : extent(i) # common}
      shared == IF differ = {} THEN common ELSE result
      undefined == {i \in DOMAIN rows \ read : rows[i] >= 0}
      negated == [i \in DOMAIN rows |-> IF i \in undefined THEN -1 ELSE rows[i]]
  IN  IF \/ Len(rows) # nrows
         \/ \E i \in DOMAIN rows : rows[i] >= NRow(column)
         \/ \E i \in read : ~ ValidateCellShape(sel, Cell(column, rows[i]), result)
      THEN Error
      ELSE [ok |-> TRUE,
            extents |-> IF differ = {} THEN <<>>
                        ELSE [i \in DOMAIN rows |->
                                IF i < Min(differ) THEN common ELSE extent(i)],
            sel |-> IF undefined = {} /\ shared = result THEN sel
                    ELSE RebuildSelection(sel, result, shared,
                                          IF undefined # {} THEN negated ELSE RowSpanOf(sel))]

NegateMissingSelectedRows(column, sel, shape) ==
  IF column.fixed THEN NegateFixed(column, sel, Front(shape))
  ELSE NegateVariable(column, sel, Front(shape), Last(shape))

-----------------------------------------------------------------------------
(* The lists a result is nested in *)

RowShape(shapeData, r) == IF shapeData.fixed THEN Front(shapeData.shape) ELSE shapeData.rows[r]

RowsOf(shapeData) == IF shapeData.fixed THEN Last(shapeData.shape) ELSE Len(shapeData.rows)

\* The size of dimension d: of a missing row, 0
DimSize(shape, d) == IF shape = <<>> THEN 0 ELSE shape[d]

\* The number of lists of dimension d in a row: one for each index of the outer
\* dimensions
OneList(shape, d, ndim) == 1
NLists(shape, d, ndim) == Product([e \in 1..(ndim - d) |-> DimSize(shape, d + e)])

\* GetOffsets(): where the lists of dimension d start, and the last ends
GetOffsets(shapeData, d) ==
  LET shape(r) == RowShape(shapeData, r)
      lengths == FlattenSeq([r \in 1..RowsOf(shapeData) |->
                   [l \in 1..NLists(shape(r), d, shapeData.ndim - 1) |-> DimSize(shape(r), d)]])
  IN  [l \in 1..(Len(lengths) + 1) |-> Sum(SubSeq(lengths, 1, l - 1))]
=============================================================================

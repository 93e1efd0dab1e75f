------------------------------- MODULE MCReadColumn -------------------------------
(* Small columns, and requests to read them *)
EXTENDS ReadColumn

Fixed(shape, nrows) ==
  [fixed |-> TRUE, shape |-> shape, ndim |-> Len(shape),
   cells |-> [r \in 1..nrows |-> [shape |-> shape, defined |-> TRUE]]]

Variable(ndim, shapes) ==
  [fixed |-> FALSE, shape |-> <<>>, ndim |-> ndim,
   cells |-> [r \in DOMAIN shapes |-> [shape |-> shapes[r], defined |-> shapes[r] # <<>>]]]

Request(column, sel, result, storage) ==
  [column |-> column, sel |-> sel, result |-> result, storage |-> storage]

SpansOver(ids, n) == UNION {[1..k -> ids] : k \in 1..n}

\* Selections of the rows of a column of 4 rows, with gaps, negatives and repeats
RowSpans == {<<>>, <<2>>, <<1, 0>>, <<0, 2, 3>>, <<3, -1, 0>>, <<1, 1>>, <<3, 0, 1, -1>>, <<2, 4>>}

Cube(shape, tile) == [shape |-> shape, tile |-> tile]

\* A TiledDataStMan with rows along axes of 2 and n, in bands of 2 * tile rows
Axes(n, tile) ==
  Tiled(<<Cube(<<2, n>>, tile)>>, [r \in 1..(2 * n) |->
    [cube |-> 1, position |-> <<(r - 1) % 2, (r - 1) \div 2>>]])

\* A TiledShapeStMan: a hypercube for each shape; a row follows those already there
Shapes(column, tile) ==
  LET cube(r) == Product(Cell(column, r))
  IN  Tiled([c \in {cube(r) : r \in 0..(NRow(column) - 1)} |-> Cube(<<NRow(column)>>, tile)],
            [r \in 1..NRow(column) |->
               [cube |-> cube(r - 1),
                position |-> <<Cardinality({q \in 0..(r - 2) : cube(q) = cube(r - 1)})>>]])

\* One whose cells got their shapes from the last row to the first
Backwards(n, tile) ==
  Tiled(<<Cube(<<n>>, tile)>>, [r \in 1..n |-> [cube |-> 1, position |-> <<n - r>>]])

ScalarReads ==
  {Request(Fixed(<<>>, 4), <<rows>>, resultStorage[1], resultStorage[2]) :
     rows \in {<<>>} \cup SpansOver(-1..3, 3),
     resultStorage \in {<< <<>>, Dysco(2)>>, << <<2>>, Other>>, << <<3>>, Other>>}}

VectorReads ==
  {Request(Fixed(<<3>>, 4), <<span, rows>>, result, Other) :
     span \in {<<>>, <<1>>, <<1, 2>>, <<0, 2>>, <<2, 0>>, <<1, 0>>, <<-1, 1>>, <<2, 2>>, <<3>>},
     rows \in RowSpans,
     result \in {<<>>, <<2, 4>>, <<4, 4>>}}

MatrixReads ==
  {Request(Fixed(<<2, 2>>, 3), <<span, other, rows>>, result, Other) :
     span \in {<<>>, <<1, 0>>}, other \in {<<>>, <<1>>, <<1, -1>>},
     rows \in {<<>>, <<2, -1, 0>>}, result \in {<<>>, <<2, 3, 3>>}}

\* Cells of different shapes and ranks, and undefined ones
VariableColumns ==
  {Variable(1, << <<2>>, <<1>>, <<3>> >>), Variable(1, << <<2>>, <<>>, <<1>> >>),
   Variable(-1, << <<2>>, <<2>>, <<2>> >>), Variable(-1, << <<2>>, <<1, 2>>, <<2>> >>),
   Variable(2, << <<2, 1>>, <<1, 2>>, <<1, 3>> >>)}

VariableReads ==
  {Request(column, sel, result, Other) :
     column \in VariableColumns,
     sel \in {<<>>, << <<0>>, <<>> >>, << <<1, 0>>, <<>> >>, << <<2, 0>> >>, << <<>>, <<0, -1, 2>> >>,
              << <<0, -1>>, <<2, 0>> >>, << <<0>>, <<2, 2>> >>, << <<1>>, <<3>> >>},
     result \in {<<>>, <<2, 3>>, <<2, 2>>, <<1, 3>>, <<3, 3>>, <<3, 2>>}}

\* Blocks, bands over two axes, one tile
SplitReads ==
  {Request(Fixed(<<3>>, 4), <<span, rows>>, <<>>, storage) :
     span \in {<<>>, <<1>>, <<0, 2>>, <<1, 0>>},
     rows \in {<<>>, <<3, 1, 0>>, <<3, 0, 1, -1>>},
     storage \in {Other, Dysco(1), Dysco(2), Dysco(3), Axes(2, 1), Axes(2, 2),
                  Shapes(Fixed(<<3>>, 4), 4)}}
  \cup {Request(Fixed(<<2>>, 6), << <<>>, rows>>, <<>>, storage) :
          rows \in {<<>>, <<5, 3, 4, 0>>}, storage \in {Dysco(4), Axes(3, 1), Axes(3, 2),
                                                             Backwards(6, 2), Backwards(6, 4)}}

\* The same elements of cells of two shapes: the rows of the hypercubes interleave
InterleavedReads ==
  {Request(column, << <<0, 1>>, rows>>, <<>>, Shapes(column, tile)) :
     column \in {Variable(1, [r \in 1..6 |-> IF r \in longer THEN <<3>> ELSE <<2>>]) :
                   longer \in {{}, {3}, {3, 6}, {2, 4, 6}, {5, 6}}},
     rows \in {<<>>, <<5, 0, 4, 2>>}, tile \in {2, 4}}

SmallReads == ScalarReads \cup VectorReads \cup MatrixReads \cup VariableReads \cup SplitReads
              \cup InterleavedReads
=============================================================================

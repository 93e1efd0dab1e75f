------------------------------ MODULE MCWriteColumn ------------------------------
(* Small columns, and what is written to them *)
EXTENDS WriteColumn

OldCell(shape, isDefined) ==
  [shape |-> shape, defined |-> isDefined,
   value |-> IF isDefined THEN [i \in Indices(shape) |-> Old] ELSE <<>>]

Fixed(shape, nrows) ==
  [fixed |-> TRUE, shape |-> shape, ndim |-> Len(shape),
   cells |-> [r \in 1..nrows |-> OldCell(shape, TRUE)]]

Variable(ndim, shapes) ==
  [fixed |-> FALSE, shape |-> <<>>, ndim |-> ndim,
   cells |-> [r \in DOMAIN shapes |-> OldCell(shapes[r], shapes[r] # <<>>)]]

PutAt(to, index, rows, cut, as) ==
  [column |-> to, index |-> index, data |-> [rows |-> rows, cut |-> cut, as |-> as]]

\* The selection, as lists
Put(to, selection, rows, cut, as) ==
  PutAt(to, Reverse([d \in DOMAIN selection |-> Py!Ids(selection[d])]), rows, cut, as)

Rows(shape, n) == [k \in 1..n |-> shape]

ScalarWrites ==
  {Put(Fixed(<<>>, 3), <<rows>>, Rows(<<>>, n), 0, as) :
     rows \in {<<>>} \cup UNION {[1..k -> -1..3] : k \in 1..3}, n \in 2..4,
     as \in {"same", "string"}}

VectorWrites ==
  {Put(Fixed(<<3>>, 3), <<span, rows>>, Rows(<<size>>, n), 0, as) :
     span \in {<<>>, <<1>>, <<2, 0>>, <<0, 2>>, <<1, -1>>, <<1, 1>>, <<2, 3>>, <<1, -1, -1, 0>>},
     rows \in {<<>>, <<1>>, <<2, 0>>, <<2, -1, 0>>, <<1, 1>>}, size \in {1, 2, 4},
     n \in 1..4, as \in {"string", "cast"}}

MatrixWrites ==
  {Put(Fixed(<<2, 2>>, 2), <<span, other, rows>>, Rows(<<2, size>>, 2), 0, "string") :
     span \in {<<>>, <<1, 0>>}, other \in {<<>>, <<1>>, <<1, 0>>, <<1, -1>>}, rows \in {<<>>, <<1, 0>>},
     size \in 1..2}

\* Cells of several shapes and ranks, some undefined, and data of one shape or more
VariableColumns ==
  {Variable(1, << <<2>>, <<1>>, <<3>> >>), Variable(1, << <<2>>, <<>>, <<>> >>),
   Variable(-1, << <<>>, <<1, 2>>, <<2>> >>), Variable(1, << <<>>, <<>>, <<>> >>)}

DataRows ==
  {Rows(<<1>>, 2), Rows(<<2>>, 3), Rows(<<2>>, 2), Rows(<<1>>, 4), << <<2>>, <<1>>, <<3>> >>,
   << <<1>>, <<2>> >>, Rows(<<1, 2>>, 2), << <<2, 1>>, <<1, 2>>, <<1, 1>> >>}

VariableWrites ==
  {Put(to, selection, rows, 0, "string") :
     to \in VariableColumns, rows \in DataRows,
     selection \in {<<>>, << <<0>>, <<>> >>, << <<2>>, <<1, 2>> >>, << <<1, 0>>, <<>> >>, << <<2, 0, 1>> >>,
                    << <<2, 2>> >>, << <<2, 1, 2>> >>, << <<1, -1>>, <<2, 0>> >>, << <<3, 0>>, <<1, 2>> >>,
                    << <<0, 1>>, <<-1, 2, 1>> >>}}

\* Slices of all kinds, with and without bounds
Slices ==
  {Py!None} \cup {Py!Slice(start, stop, step) :
     start \in {<<>>, <<-1>>, <<0>>, <<1>>}, stop \in {<<>>, <<-1>>, <<1>>, <<3>>, <<4>>},
     step \in {<<>>, <<0>>, <<2>>, <<3>>}}

SliceWrites ==
  {PutAt(Fixed(<<2, 4>>, 3), <<rows, slice>> \o rest, Rows(<<2, size>>, 2), 0, "cast") :
     rows \in {Py!Slice(<<1>>, <<3>>, <<>>), Py!Ids(<<2, 0>>)}, slice \in Slices, size \in 1..4,
     rest \in {<<>>, <<Py!Slice(<<>>, <<2>>, <<>>)>>, <<Py!Ids(<<1, 0>>)>>}}

SmallWrites == ScalarWrites \cup VectorWrites \cup MatrixWrites \cup VariableWrites \cup SliceWrites

\* Slices of arrow arrays
SlicedWrites ==
  {Put(Fixed(<<>>, 3), <<rows>>, Rows(<<>>, 2), cut, as) :
     rows \in {<<0, 1>>, <<2, 0>>}, cut \in 0..1, as \in {"same", "cast", "string"}}
  \cup {Put(Fixed(<<2>>, 3), <<rows>>, Rows(<<2>>, 2), 1, "same") : rows \in {<<0, 1>>, <<2, 0>>}}
=============================================================================

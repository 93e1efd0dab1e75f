------------------------------ MODULE PythonIndex ------------------------------
(***************************************************************************)
(* The index of a Python call, and the selection that build_selection()    *)
(* makes of it with a SelectionBuilder.                                    *)
(*                                                                         *)
(* An index has an entry for each dimension, in C order: the row is the    *)
(* first, and dimensions left out are selected entirely.  An entry is None,*)
(* a slice whose start, stop and step may each be absent (<<>>), or a list *)
(* or array of ids.  A selection is in FORTRAN order: see ResultShape.     *)
(***************************************************************************)
EXTENDS Integers, SequencesExt

None == [is |-> "none"]
Slice(start, stop, step) == [is |-> "slice", start |-> start, stop |-> stop, step |-> step]
Ids(ids) == [is |-> "ids", ids |-> ids]

OrElse(bound, default) == IF bound = <<>> THEN default ELSE bound[1]

Step(slice) == OrElse(slice.step, 1)
Start(slice) == OrElse(slice.start, 0)

\* slice(None)
IsWhole(slice) == slice.start = <<>> /\ slice.stop = <<>> /\ slice.step = <<>>

\* ValueError unless a slice is bounded, ascends, and selects something: a selection
\* is made without knowing the extent of the dimension, negative indices denote
\* missing elements, and an empty span is taken for the whole dimension
Refused(entry) ==
  /\ entry.is = "slice" /\ ~ IsWhole(entry)
  /\ \/ Step(entry) <= 0
     \/ entry.stop = <<>>
     \/ Start(entry) < 0 \/ entry.stop[1] < 0
     \/ entry.stop[1] <= Start(entry)

\* How many indices a slice selects
Count(slice) == (slice.stop[1] - Start(slice) + Step(slice) - 1) \div Step(slice)

\* What is added to the builder.  An empty list, like None, selects everything
Span(entry) ==
  CASE entry.is = "none" -> <<>>
    [] entry.is = "ids" -> entry.ids
    [] entry.is = "slice" /\ IsWhole(entry) -> <<>>
    [] OTHER -> [i \in 1..Count(entry) |-> Start(entry) + (i - 1) * Step(entry)]


\* SelectionBuilder::Build(), of dimensions in C order
Build(spans) == Reverse(spans)

build_selection(index) ==
  IF \E d \in DOMAIN index : Refused(index[d]) THEN [ok |-> FALSE]
  ELSE [ok |-> TRUE, sel |-> Build([d \in DOMAIN index |-> Span(index[d])])]

-----------------------------------------------------------------------------
\* What an index means in Python: is dimension d, in FORTRAN order, of ndim selected,
\* and which indices, in which order?
Entry(index, d, ndim) == IF ndim - d + 1 \in DOMAIN index THEN index[ndim - d + 1] ELSE None

Selects(entry) ==
  CASE entry.is = "none" -> FALSE
    [] entry.is = "ids" -> entry.ids # <<>>
    [] OTHER -> ~ IsWhole(entry)

Meaning(entry) ==
  IF entry.is = "ids" THEN entry.ids
  ELSE SelectSeq([i \in 1..entry.stop[1] |-> i - 1],
                 LAMBDA i : i >= Start(entry) /\ (i - Start(entry)) % Step(entry) = 0)
=============================================================================

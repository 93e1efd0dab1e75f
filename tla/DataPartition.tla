------------------------------ MODULE DataPartition ------------------------------
(***************************************************************************)
(* How a read is partitioned into chunks (DataPartition::Make()): each is  *)
(* contiguous on disk in every dimension but the rows, and is read into    *)
(* contiguous memory or scattered from a casacore array.                   *)
(*                                                                         *)
(* A span pair holds disk indices, ascending, and the memory index each    *)
(* one is read into.  Indices, positions and offsets count from 0.         *)
(***************************************************************************)
EXTENDS ResultShape, RowUnits

\* FORTRAN ordered strides of an array of this shape
Strides(shape) == [d \in DOMAIN shape |-> Product(SubSeq(shape, 1, d - 1))]

Dot(index, strides) == Sum([d \in DOMAIN index |-> index[d] * strides[d]])

-----------------------------------------------------------------------------
(* Span pairs *)

Monotonic(n) == [disk |-> [i \in 1..n |-> i - 1], mem |-> [i \in 1..n |-> i - 1]]

\* Indices sorted, and where each came from.  Equal indices are negative and not
\* read, refused as duplicates, or rows read one by one: their order is immaterial
MakeSortedIndices(ids) ==
  LET indices == 0..(Len(ids) - 1)
      before(i) == {j \in indices : \/ ids[j + 1] < ids[i + 1]
                                    \/ ids[j + 1] = ids[i + 1] /\ j < i}
      mem == [k \in 1..Len(ids) |-> CHOOSE i \in indices : Cardinality(before(i)) = k - 1]
  IN  [disk |-> [i \in DOMAIN ids |-> ids[mem[i] + 1]], mem |-> mem]

\* GetSpanPair() of dimension d, of which there are ndim
GetSpanPair(sel, d, ndim, size) ==
  IF IsSelected(sel, d, ndim) THEN MakeSortedIndices(FSpan(sel, d, ndim))
  ELSE Monotonic(size)

\* The pair cut after each of the positions in cuts
CutPair(pair, cuts) ==
  LET n == Len(pair.disk)
      startsUpTo[p \in 0..n] == IF p = 0 THEN <<0>>
                                ELSE IF p \in cuts THEN Append(startsUpTo[p - 1], p)
                                ELSE startsUpTo[p - 1]
      starts == startsUpTo[n]
      end(k) == IF k = Len(starts) THEN n ELSE starts[k + 1]
  IN  [k \in DOMAIN starts |-> [disk |-> SubSeq(pair.disk, starts[k] + 1, end(k)),
                                mem |-> SubSeq(pair.mem, starts[k] + 1, end(k))]]

HasDuplicates(pair) ==
  \E i \in 1..(Len(pair.disk) - 1) :
    pair.disk[i + 1] >= 0 /\ pair.disk[i + 1] = pair.disk[i]

\* Negative indices are cut from the others, and those where they aren't
\* consecutive, unless entire (the rows)
MakeSubSpans(pair, entire) ==
  CutPair(pair, {i \in 1..(Len(pair.disk) - 1) :
                   /\ pair.disk[i + 1] >= 0
                   /\ \/ pair.disk[i] < 0
                      \/ ~ entire /\ pair.disk[i + 1] - pair.disk[i] # 1})

-----------------------------------------------------------------------------
(* Splitting the rows of a fixed shape result *)

IsRead(pair) == pair.disk # <<>> /\ pair.disk[1] >= 0

\* Leaves the boundary where it is
Unaligned(p, rows, storage) == p

\* The boundary before position p, among the rows read, moved to the nearer start of
\* a storage unit.  The search for the next unit bisects: where the starts of units
\* don't ascend, it ends somewhere after p
AlignBoundary(p, rows, storage) ==
  LET n == Len(rows)
      start == UnitStart(storage, rows[p + 1])
      down == Min({q \in 0..(p - 1) : rows[q + 1] >= start} \cup {p})
      ranges == {w \in (0..n) \X (0..n) : w[1] + w[2] <= n}   \* the first, and how many
      upper_bound[w \in ranges] ==
        LET half == w[2] \div 2
            mid == w[1] + half
        IN  IF w[2] = 0 THEN w[1]
            ELSE IF UnitStart(storage, rows[mid + 1]) > start THEN upper_bound[<<w[1], half>>]
            ELSE upper_bound[<<mid + 1, w[2] - half - 1>>]
      up == upper_bound[<<p + 1, n - p - 1>>]
  IN  IF start = rows[p + 1] THEN p ELSE IF p - down <= up - p THEN down ELSE up

\* The position after the last row of each piece
PieceEnds(rows, nsplits, storage) ==
  LET n == Len(rows)
      even(k) == (k * n) \div nsplits
      end(k) == IF HasUnits(storage) THEN AlignBoundary(even(k), rows, storage) ELSE even(k)
      keep(ends, e) ==
        IF e > (IF ends = <<>> THEN 0 ELSE Last(ends)) /\ e < n THEN Append(ends, e) ELSE ends
  IN  Append(FoldLeft(keep, <<>>, [k \in 1..(nsplits - 1) |-> end(k)]), n)

SplitRowSpans(spans, nsplits, storage) ==
  LET disk(s) == IF IsRead(spans[s]) THEN spans[s].disk ELSE <<>>
      rows == FlattenSeq([s \in DOMAIN spans |-> disk(s)])
      ends == Range(PieceEnds(rows, nsplits, storage))
      before(s) == Sum([r \in 1..(s - 1) |-> Len(disk(r))])
      inner(s) == {e - before(s) : e \in ends} \cap 1..(Len(disk(s)) - 1)
  IN  FlattenSeq([s \in DOMAIN spans |-> CutPair(spans[s], inner(s))])

\* As many pieces as there are instances, rows, and pieces of the minimum size
NSplits(dims, maxSplits, minBytes) ==
  LET size(d) == Sum([s \in DOMAIN dims[d] |-> Len(dims[d][s].disk)])
      rowBytes == Product([d \in 1..(Len(dims) - 1) |-> size(d)])
      nrows == Sum([s \in DOMAIN Last(dims) |->
                      IF IsRead(Last(dims)[s]) THEN Len(Last(dims)[s].disk) ELSE 0])
  IN  Min({maxSplits, nrows}
            \cup (IF minBytes > 0 THEN {(nrows * rowBytes) \div minBytes} ELSE {}))

-----------------------------------------------------------------------------
(* Chunks *)

\* The rows vary fastest
CartesianProduct(dims) ==
  LET extend(product, spans) ==
        FlattenSeq([k \in DOMAIN product |->
                      [s \in DOMAIN spans |-> Append(product[k], spans[s])]])
  IN  FoldLeft(extend, << <<>> >>, dims)

SecondaryDimensionsContiguous(dims) ==
  \A d \in 1..(Len(dims) - 1) :
    Len(dims[d]) = 1 /\ \A i \in DOMAIN dims[d][1].mem : dims[d][1].mem[i] = i - 1

\* Are the rows consecutive on disk, rather than in memory?
IsDiskContiguous(pair) ==
  \A i \in 1..(Len(pair.disk) - 1) : pair.disk[i + 1] - pair.disk[i] = 1

IsMemoryContiguous(pair) ==
  \A i \in 1..(Len(pair.mem) - 1) : pair.mem[i + 1] - pair.mem[i] = 1

MinMem(pair) == IF pair.mem = <<>> THEN 0 ELSE Min(Range(pair.mem))

\* The offset in a row, without that of the row
OffsetInRow(shapeData, index) ==
  IF shapeData.fixed THEN Dot(Front(index), Strides(Front(shapeData.shape)))
  ELSE Dot(Front(index), Strides(shapeData.rows[Last(index) + 1]))

\* FlatOffset(): a row of a variable result follows all the rows before it
FlatOffset(shapeData, index) ==
  IF shapeData.fixed THEN Dot(index, Strides(shapeData.shape))
  ELSE Dot(Front(index), Strides(shapeData.rows[Last(index) + 1]))
         + Sum([r \in 1..Last(index) |-> Product(shapeData.rows[r])])

\* One chunk of MakeDataChunks()
MakeChunk(spans, contiguous, shapeData) ==
  LET min == [d \in DOMAIN spans |-> MinMem(spans[d])]
      shape == IF shapeData.fixed THEN shapeData.shape
               ELSE Append(shapeData.rows[Last(min) + 1], 1)
  IN  [spans |-> spans, contiguous |-> contiguous, min |-> min,
       offset |-> FlatOffset(shapeData, min), strides |-> Strides(shape)]

\* The chunks of the product of the spans of each dimension
ProductChunks(dims, shapeData) ==
  LET product == CartesianProduct(dims)
      secondary == SecondaryDimensionsContiguous(dims)
  IN  [k \in DOMAIN product |->
         MakeChunk(product[k], secondary /\ IsMemoryContiguous(Last(product[k])), shapeData)]

ChunkShape(chunk) == [d \in DOMAIN chunk.spans |-> Len(chunk.spans[d].disk)]

NElements(chunk) == Product(ChunkShape(chunk))

IsEmpty(chunk) ==
  \/ \E d \in DOMAIN chunk.spans : \E i \in DOMAIN chunk.spans[d].disk :
        chunk.spans[d].disk[i] < 0
  \/ NElements(chunk) = 0

-----------------------------------------------------------------------------
(* Make() *)

MakeFixed(sel, shapeData, maxSplits, minBytes, storage) ==
  LET n == shapeData.ndim
      pairs == [d \in 1..n |-> GetSpanPair(sel, d, n, shapeData.shape[d])]
      dims == [d \in 1..n |-> MakeSubSpans(pairs[d], d = n)]
      nsplits == NSplits(dims, maxSplits, minBytes)
      split == IF maxSplits > 1 /\ nsplits > 1
               THEN [dims EXCEPT ![n] = SplitRowSpans(dims[n], nsplits, storage)] ELSE dims
  IN  IF \E d \in 1..n : HasDuplicates(pairs[d]) THEN Error
      ELSE [ok |-> TRUE, chunks |-> ProductChunks(split, shapeData)]

\* One row at a time: its shape, or the extent of its cell, is its own
MakeVarying(sel, shapeData) ==
  LET n == shapeData.ndim
      nrows == IF shapeData.fixed THEN Last(shapeData.shape) ELSE Len(shapeData.rows)
      rowPair == GetSpanPair(sel, n, n, nrows)
      rowShape(m) == IF shapeData.fixed THEN Front(shapeData.shape) ELSE shapeData.rows[m + 1]
      extent(m, d) == IF shapeData.extents = <<>> THEN rowShape(m)[d]
                      ELSE shapeData.extents[m + 1][d]
      pair(m, d) == IF extent(m, d) < rowShape(m)[d]
                    THEN MakeSortedIndices(PaddedIds(rowShape(m)[d], extent(m, d)))
                    ELSE GetSpanPair(sel, d, n, rowShape(m)[d])
      row(r) == [disk |-> <<rowPair.disk[r]>>, mem |-> <<rowPair.mem[r]>>]
      dims(r) == [d \in 1..n |-> IF d = n THEN <<row(r)>>
                                 ELSE MakeSubSpans(pair(rowPair.mem[r], d), FALSE)]
  IN  IF \/ nrows = 0
         \/ \E r \in 1..nrows, d \in 1..(n - 1) : HasDuplicates(pair(rowPair.mem[r], d))
      THEN Error
      ELSE [ok |-> TRUE,
            chunks |-> FlattenSeq([r \in 1..nrows |-> ProductChunks(dims(r), shapeData)])]

\* storage: of the column, or Other if rows aren't split; minBytes: in elements
Make(sel, shapeData, maxSplits, minBytes, storage) ==
  IF shapeData.ndim < 0 THEN Error
  ELSE IF shapeData.fixed /\ shapeData.extents = <<>>
  THEN MakeFixed(sel, shapeData, maxSplits, minBytes, storage)
  ELSE MakeVarying(sel, shapeData)

-----------------------------------------------------------------------------
(* Reading a chunk *)

\* Positions in the chunk
Positions(chunk) ==
  {p \in [DOMAIN chunk.spans -> 0..Max({0} \cup Range(ChunkShape(chunk)))] :
     \A d \in DOMAIN chunk.spans : p[d] < ChunkShape(chunk)[d]}

\* The element casacore reads: SectionSlicer() is a range, ReferenceRows() a list
Source(chunk, pos) ==
  [d \in DOMAIN pos |-> IF d < Len(pos) THEN chunk.spans[d].disk[1] + pos[d]
                        ELSE chunk.spans[d].disk[pos[d] + 1]]

\* Where ReadContiguousChunk() or CopyChunkArray() puts it
Target(chunk, pos) ==
  IF chunk.contiguous THEN chunk.offset + Dot(pos, Strides(ChunkShape(chunk)))
  ELSE chunk.offset
         + Dot([d \in DOMAIN pos |-> chunk.spans[d].mem[pos[d] + 1] - chunk.min[d]],
               chunk.strides)

Targets(chunk) ==
  IF IsEmpty(chunk) THEN {} ELSE {Target(chunk, pos) : pos \in Positions(chunk)}

\* Closes each group at the first group's share
FirstShare(chunks, n) ==
  LET total == Sum([c \in DOMAIN chunks |-> NElements(chunks[c])])
      ngroups == Max({1, Min({n, Len(chunks)})})
      cumulative(c) == Sum([k \in 1..c |-> NElements(chunks[k])])
      close(ends, c) ==
        IF Len(ends) + 1 < ngroups /\ cumulative(c) >= total \div ngroups
        THEN Append(ends, c) ELSE ends
  IN  Append(FoldLeft(close, <<>>, [c \in DOMAIN chunks |-> c]), Len(chunks))

\* One chunk to a group
Ungrouped(chunks, n) == [c \in DOMAIN chunks |-> c]

\* Split chunks into at most n consecutive groups with similar numbers of
\* elements: the end of each
GroupChunks(chunks, n) ==
  LET total == Sum([c \in DOMAIN chunks |-> NElements(chunks[c])])
      ngroups == Max({1, Min({n, Len(chunks)})})
      cumulative(c) == Sum([k \in 1..c |-> NElements(chunks[k])])
      close(ends, c) ==
        IF /\ Len(ends) + 1 < ngroups
           /\ \/ cumulative(c) >= (total * (Len(ends) + 1)) \div ngroups
              \/ Len(chunks) - c = ngroups - Len(ends) - 1
        THEN Append(ends, c) ELSE ends
  IN  Append(FoldLeft(close, <<>>, [c \in DOMAIN chunks |-> c]), Len(chunks))
=============================================================================

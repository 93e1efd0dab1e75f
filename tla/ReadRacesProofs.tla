---------------------------- MODULE ReadRacesProofs ----------------------------
(***************************************************************************)
(* The chunks of a read are read by tasks at the same time into the same   *)
(* result: of any column, selection and array, no two chunks have an       *)
(* element of the result in common, and none has one beyond its end. The   *)
(* lists that the result is nested in then lead to those elements; and no  *)
(* two chunks of a section read rows of one tile or block.                 *)
(***************************************************************************)
EXTENDS ReadColumnProofs

-----------------------------------------------------------------------------
(* The places of a result: R rows, of q dimensions each *)

\* P: the strides in each row, B: where each row starts, and the last ends
IsLayout(sd, q, R, P, B) ==
  /\ \A m \in 0..(R - 1) : /\ RowShape(sd, m + 1) \in Seq(Nat) /\ Len(RowShape(sd, m + 1)) = q
                           /\ IsProducts(P[m], RowShape(sd, m + 1), q)
  /\ B \in [0..R -> Nat] /\ B[0] = 0 /\ \A m \in 1..R : B[m] = B[m - 1] + P[m - 1][q]

\* The rows of a result are laid out one after the other
LEMMA LayoutExists ==
  ASSUME NEW sd, NEW q \in Nat, NEW R \in Nat,
         \A m \in 0..(R - 1) : RowShape(sd, m + 1) \in Seq(Nat) /\ Len(RowShape(sd, m + 1)) = q
  PROVE  \E P, B : IsLayout(sd, q, R, P, B)
<1>1. PICK P : P = [m \in 0..(R - 1) |-> CHOOSE p : IsProducts(p, RowShape(sd, m + 1), q)]
  OBVIOUS
<1>2. ASSUME NEW m \in 0..(R - 1) PROVE IsProducts(P[m], RowShape(sd, m + 1), q)
  <2>1. PICK s : s = RowShape(sd, m + 1)
    OBVIOUS
  <2>2. s \in [1..q -> Nat]
    BY <2>1
  <2>3. \E p : IsProducts(p, s, q)
    BY <2>2, ProductsExist
  <2>4. P[m] = CHOOSE p : IsProducts(p, s, q)
    BY <1>1, <2>1
  <2>5. PICK r : r = CHOOSE p : IsProducts(p, s, q)
    OBVIOUS
  <2>6. IsProducts(r, s, q)
    BY <2>3, <2>5, Zenon
  <2> QED
    BY <2>1, <2>4, <2>5, <2>6
<1>3. PICK a : a = [m \in 1..R |-> P[m - 1][q]]
  OBVIOUS
<1>4. a \in [1..R -> Nat] /\ \A m \in 1..R : a[m] = P[m - 1][q]
  <2>1. \A m \in 1..R : P[m - 1][q] \in Nat
    <3>1. \A m \in 1..R : m - 1 \in 0..(R - 1) /\ q \in 0..q
      OBVIOUS
    <3> QED
      BY <1>2, <3>1 DEF IsProducts
  <2> QED
    BY <1>3, <2>1
<1>5. PICK B : IsSums(B, a, R)
  BY <1>4, SumsExist
<1>6. IsLayout(sd, q, R, P, B)
  BY <1>2, <1>4, <1>5 DEF IsLayout, IsSums
<1> QED
  BY <1>6

\* No row starts before one ahead of it ends
LEMMA LayoutGrows ==
  ASSUME NEW sd, NEW q \in Nat, NEW R \in Nat, NEW P, NEW B, IsLayout(sd, q, R, P, B),
         NEW m \in 0..(R - 1), NEW k \in (m + 1)..R
  PROVE  B[m] + P[m][q] <= B[k] /\ P[m][q] \in Nat /\ B[m] \in Nat /\ B[k] \in Nat
<1> DEFINE T == {e \in Nat : m + 1 + e <= R => B[m] + P[m][q] <= B[m + 1 + e]}
<1>1. P[m][q] \in Nat /\ B[m] \in Nat
  <2>1. q \in 0..q /\ m \in 0..R
    OBVIOUS
  <2> QED
    BY <2>1 DEF IsLayout, IsProducts
<1>2. 0 \in T
  <2>1. m + 1 \in 1..R /\ (m + 1) - 1 = m /\ m + 1 + 0 = m + 1
    OBVIOUS
  <2>2. B[m + 1] = B[m] + P[m][q]
    BY <2>1 DEF IsLayout
  <2> QED
    BY <1>1, <2>1, <2>2
<1>3. ASSUME NEW e \in Nat, e \in T PROVE e + 1 \in T
  <2>1. SUFFICES ASSUME m + 1 + (e + 1) <= R PROVE B[m] + P[m][q] <= B[m + 1 + (e + 1)]
    OBVIOUS
  <2>2. PICK f \in 1..(R - 1) : f = m + 1 + e /\ m + 1 + (e + 1) = f + 1
    BY <2>1
  <2>3. f + 1 \in 1..R /\ (f + 1) - 1 = f /\ q \in 0..q /\ f \in 0..R
    BY <2>2
  <2>4. B[f + 1] = B[f] + P[f][q] /\ P[f][q] \in Nat /\ B[f] \in Nat
    BY <2>2, <2>3 DEF IsLayout, IsProducts
  <2>5. B[m] + P[m][q] <= B[f]
    BY <1>3, <2>1, <2>2
  <2> QED
    BY <1>1, <2>2, <2>4, <2>5
<1>4. k - (m + 1) \in T
  <2> HIDE DEF T
  <2>1. k - (m + 1) \in Nat
    OBVIOUS
  <2> QED
    BY <1>2, <1>3, <2>1, NumbersOfSet
<1>5. m + 1 + (k - (m + 1)) = k
  OBVIOUS
<1>6. B[k] \in Nat
  BY DEF IsLayout
<1> QED
  BY <1>1, <1>4, <1>5, <1>6

\* An element's place is its index in the row, and the row; and t the offset there
IsPlace(x, sd, q, R) ==
  /\ x[q + 1] \in 0..(R - 1)
  /\ \A d \in 1..q : x[d] \in Nat /\ x[d] < RowShape(sd, x[q + 1] + 1)[d]

IsAt(t, x, q, P, B) == \E v : IsOffset(v, x, P[x[q + 1]], q) /\ t = B[x[q + 1]] + v[q]

\* Places are in the result
LEMMA AtWithin ==
  ASSUME NEW sd, NEW q \in Nat, NEW R \in Nat, NEW P, NEW B, IsLayout(sd, q, R, P, B),
         NEW x, IsPlace(x, sd, q, R), NEW v, IsOffset(v, x, P[x[q + 1]], q)
  PROVE  v[q] \in Nat /\ v[q] < P[x[q + 1]][q] /\ IsIndex(x, RowShape(sd, x[q + 1] + 1), q)
<1>1. PICK m \in 0..(R - 1) : m = x[q + 1]
  BY DEF IsPlace
<1>2. PICK s : s = RowShape(sd, m + 1)
  OBVIOUS
<1>3. s \in Seq(Nat) /\ Len(s) = q /\ IsProducts(P[m], s, q)
  BY <1>2 DEF IsLayout
<1>4. IsIndex(x, s, q)
  BY <1>1, <1>2, <1>3 DEF IsPlace, IsIndex
<1>5. v[q] < P[m][q]
  BY <1>1, <1>3, <1>4, OffsetsDistinct
<1>6. v[q] \in Nat
  <2>1. q \in 0..q
    OBVIOUS
  <2> QED
    BY <2>1 DEF IsOffset
<1> QED
  BY <1>1, <1>2, <1>4, <1>5, <1>6

\* The offset of a place is less than the number of elements of the result
LEMMA AtInside ==
  ASSUME NEW sd, NEW q \in Nat, NEW R \in Nat, NEW P, NEW B, IsLayout(sd, q, R, P, B),
         NEW x, IsPlace(x, sd, q, R), NEW t, IsAt(t, x, q, P, B)
  PROVE  t \in Nat /\ t < B[R]
<1>1. PICK v : IsOffset(v, x, P[x[q + 1]], q) /\ t = B[x[q + 1]] + v[q]
  BY DEF IsAt
<1>2. v[q] \in Nat /\ v[q] < P[x[q + 1]][q]
  BY <1>1, AtWithin
<1>3. PICK m \in 0..(R - 1) : m = x[q + 1]
  BY DEF IsPlace
<1>4. R \in (m + 1)..R
  OBVIOUS
<1>5. B[m] + P[m][q] <= B[R] /\ P[m][q] \in Nat /\ B[m] \in Nat /\ B[R] \in Nat
  BY <1>4, LayoutGrows
<1> QED
  BY <1>1, <1>2, <1>3, <1>5

\* No other place has the offset
LEMMA AtDistinct ==
  ASSUME NEW sd, NEW q \in Nat, NEW R \in Nat, NEW P, NEW B, IsLayout(sd, q, R, P, B),
         NEW x, IsPlace(x, sd, q, R), NEW y, IsPlace(y, sd, q, R),
         NEW t, IsAt(t, x, q, P, B), IsAt(t, y, q, P, B)
  PROVE  \A d \in 1..(q + 1) : x[d] = y[d]
<1>1. PICK v : IsOffset(v, x, P[x[q + 1]], q) /\ t = B[x[q + 1]] + v[q]
  BY DEF IsAt
<1>2. PICK w : IsOffset(w, y, P[y[q + 1]], q) /\ t = B[y[q + 1]] + w[q]
  BY DEF IsAt
<1>3. PICK m \in 0..(R - 1), k \in 0..(R - 1) : m = x[q + 1] /\ k = y[q + 1]
  BY DEF IsPlace
<1>4. v[q] \in Nat /\ v[q] < P[m][q] /\ IsIndex(x, RowShape(sd, m + 1), q)
  BY <1>1, <1>3, AtWithin
<1>5. w[q] \in Nat /\ w[q] < P[k][q] /\ IsIndex(y, RowShape(sd, k + 1), q)
  BY <1>2, <1>3, AtWithin
<1>6. ~ (m < k)
  <2> SUFFICES ASSUME m < k PROVE FALSE
    OBVIOUS
  <2>1. k \in (m + 1)..R
    OBVIOUS
  <2>2. B[m] + P[m][q] <= B[k] /\ P[m][q] \in Nat /\ B[m] \in Nat /\ B[k] \in Nat
    BY <2>1, LayoutGrows
  <2> QED
    BY <1>1, <1>2, <1>3, <1>4, <1>5, <2>2
<1>7. ~ (k < m)
  <2> SUFFICES ASSUME k < m PROVE FALSE
    OBVIOUS
  <2>1. m \in (k + 1)..R
    OBVIOUS
  <2>2. B[k] + P[k][q] <= B[m] /\ P[k][q] \in Nat /\ B[k] \in Nat /\ B[m] \in Nat
    BY <2>1, LayoutGrows
  <2> QED
    BY <1>1, <1>2, <1>3, <1>4, <1>5, <2>2
<1>8. m = k
  BY <1>6, <1>7
<1>9. PICK s, p : s = RowShape(sd, m + 1) /\ p = P[m]
  OBVIOUS
<1>10. IsProducts(p, s, q)
  BY <1>9 DEF IsLayout
<1>11. v[q] = w[q]
  <2>1. B[m] \in Nat
    <3>1. m \in 0..R
      OBVIOUS
    <3> QED
      BY <3>1 DEF IsLayout
  <2> QED
    BY <1>1, <1>2, <1>3, <1>4, <1>5, <1>8, <2>1
<1>12. \A d \in 1..q : x[d] = y[d]
  <2>1. IsOffset(v, x, p, q) /\ IsOffset(w, y, p, q) /\ IsIndex(x, s, q) /\ IsIndex(y, s, q)
    BY <1>1, <1>2, <1>3, <1>4, <1>5, <1>8, <1>9
  <2> QED
    BY <1>10, <1>11, <2>1, OffsetsDistinct
<1>13. \A d \in 1..(q + 1) : d \in 1..q \/ d = q + 1
  OBVIOUS
<1> QED
  BY <1>3, <1>8, <1>12, <1>13

\* The first dimensions of an offset are those of a shorter index
LEMMA OffsetsUpTo ==
  ASSUME NEW n \in Nat, NEW x, NEW P, NEW v, IsOffset(v, x, P, n), NEW k \in 0..n
  PROVE  IsOffset(v, x, P, k)
<1>1. \A m \in 0..k : m \in 0..n
  OBVIOUS
<1>2. \A m \in 1..k : m \in 1..n
  OBVIOUS
<1> QED
  BY <1>1, <1>2 DEF IsOffset

\* Front() and Last() take a sequence apart
LEMMA FrontOf ==
  ASSUME NEW S, NEW q \in Nat, NEW s \in Seq(S), Len(s) = q + 1
  PROVE  /\ Front(s) \in Seq(S) /\ Len(Front(s)) = q /\ DOMAIN Front(s) = 1..q
         /\ \A d \in 1..q : Front(s)[d] = s[d]
         /\ Last(s) = s[q + 1] /\ Last(s) \in S
<1>1. PICK f : f = SubSeq(s, 1, q)
  OBVIOUS
<1>2. Front(s) = f
  <2>1. Len(s) - 1 = q
    OBVIOUS
  <2> QED
    BY <1>1, <2>1, Zenon DEF Front
<1>3. f \in Seq(S) /\ Len(f) = q
  BY <1>1, SubSeqType
<1>4. \A d \in 1..q : f[d] = s[d]
  <2>1. \A i \in 1..(q - 0) : SubSeq(s, 0 + 1, q)[i] = s[0 + i]
    BY Slice
  <2> QED
    BY <1>1, <2>1
<1>5. Last(s) = s[q + 1] /\ q + 1 \in 1..Len(s)
  BY DEF Last
<1> QED
  BY <1>2, <1>3, <1>4, <1>5

\* The shape of the rows, and of the result, of q dimensions and one for the rows
ShapedAs(sd, q, R) ==
  \/ sd.fixed /\ sd.shape \in Seq(Nat) /\ Len(sd.shape) = q + 1
  \/ /\ ~ sd.fixed /\ sd.rows \in Seq(Seq(Nat)) /\ Len(sd.rows) = R
     /\ \A r \in 1..R : Len(sd.rows[r]) = q

\* The shape of each row is that of the result but for the row dimension, or its own
LEMMA RowShapes ==
  ASSUME NEW sd, NEW q \in Nat, NEW R \in Nat, ShapedAs(sd, q, R)
  PROVE  /\ \A m \in 0..(R - 1) : RowShape(sd, m + 1) \in Seq(Nat) /\ Len(RowShape(sd, m + 1)) = q
         /\ sd.fixed => \A r : RowShape(sd, r) = Front(sd.shape)
         /\ ~ sd.fixed => \A r : RowShape(sd, r) = sd.rows[r]
<1>1. CASE sd.fixed
  <2>1. Front(sd.shape) \in Seq(Nat) /\ Len(Front(sd.shape)) = q
    BY <1>1, FrontOf DEF ShapedAs
  <2>2. \A r : RowShape(sd, r) = Front(sd.shape)
    BY <1>1 DEF RowShape
  <2> QED
    BY <1>1, <2>1, <2>2
<1>2. CASE ~ sd.fixed
  <2>1. \A r : RowShape(sd, r) = sd.rows[r]
    BY <1>2 DEF RowShape
  <2>2. \A m \in 0..(R - 1) : m + 1 \in 1..R
    OBVIOUS
  <2>3. \A r \in 1..R : sd.rows[r] \in Seq(Nat) /\ Len(sd.rows[r]) = q
    BY <1>2 DEF ShapedAs
  <2> QED
    BY <1>2, <2>1, <2>2, <2>3
<1> QED
  BY <1>1, <1>2

\* Are all rows of p elements?
SameSize(P, q, R, p) == \A m \in 0..(R - 1) : P[m][q] = p

\* Rows of the same shape start at multiples of its size
LEMMA FixedBase ==
  ASSUME NEW sd, NEW q \in Nat, NEW R \in Nat, NEW P, NEW B, IsLayout(sd, q, R, P, B),
         NEW p \in Nat, SameSize(P, q, R, p), NEW k \in 0..R
  PROVE  B[k] = k * p
<1> DEFINE T == {m \in Nat : m <= R => B[m] = m * p}
<1>1. 0 \in T
  BY DEF IsLayout
<1>2. ASSUME NEW m \in Nat, m \in T PROVE m + 1 \in T
  <2>1. SUFFICES ASSUME m + 1 <= R PROVE B[m + 1] = (m + 1) * p
    OBVIOUS
  <2>2. m + 1 \in 1..R /\ (m + 1) - 1 = m /\ m \in 0..(R - 1)
    BY <2>1
  <2>3. B[m + 1] = B[m] + p
    BY <2>2 DEF IsLayout, SameSize
  <2>4. B[m] = m * p
    BY <1>2, <2>1
  <2>5. (m + 1) * p = m * p + p
    OBVIOUS
  <2> QED
    BY <2>3, <2>4, <2>5
<1>3. k \in T
  <2> HIDE DEF T
  <2> QED
    BY <1>1, <1>2, NumbersOfSet
<1> QED
  BY <1>3

\* The sizes of all the rows before
RowsBefore(sd, m) == Sum([r \in 1..m |-> Product(sd.rows[r])])

\* Rows of varying shapes start after the elements of the rows before
LEMMA VariableBase ==
  ASSUME NEW sd, NEW q \in Nat, NEW R \in Nat, NEW P, NEW B, IsLayout(sd, q, R, P, B),
         ShapedAs(sd, q, R), ~ sd.fixed, NEW m \in 0..R
  PROVE  B[m] = RowsBefore(sd, m)
<1>1. PICK a : a = [r \in 1..m |-> Product(sd.rows[r])]
  OBVIOUS
<1>2. ASSUME NEW r \in 1..m PROVE Product(sd.rows[r]) = P[r - 1][q] /\ Product(sd.rows[r]) \in Nat
  <2>1. r - 1 \in 0..(R - 1) /\ (r - 1) + 1 = r
    OBVIOUS
  <2>2. PICK s : s = sd.rows[r]
    OBVIOUS
  <2>3. RowShape(sd, r) = s
    BY <2>2 DEF RowShape
  <2>4. s \in Seq(Nat) /\ Len(s) = q /\ IsProducts(P[r - 1], s, q)
    BY <2>1, <2>3 DEF IsLayout
  <2>5. s \in [1..q -> Nat]
    BY <2>4
  <2> QED
    BY <2>2, <2>4, <2>5, ProductIs
<1>3. a \in [1..m -> Nat] /\ \A r \in 1..m : a[r] = P[r - 1][q]
  BY <1>1, <1>2
<1>4. PICK b : b = [e \in 0..m |-> B[e]]
  OBVIOUS
<1>5. IsSums(b, a, m)
  <2>1. \A e \in 0..m : e \in 0..R /\ B[e] \in Nat
    BY DEF IsLayout
  <2>2. b \in [0..m -> Nat]
    BY <1>4, <2>1
  <2>3. 0 \in 0..m /\ m \in 0..m
    OBVIOUS
  <2>4. b[0] = 0
    BY <1>4, <2>3 DEF IsLayout
  <2>5. ASSUME NEW e \in 1..m PROVE b[e] = b[e - 1] + a[e]
    <3>1. e \in 1..R /\ e \in 0..m /\ e - 1 \in 0..m
      OBVIOUS
    <3>2. B[e] = B[e - 1] + P[e - 1][q]
      BY <3>1 DEF IsLayout
    <3> QED
      BY <1>3, <1>4, <3>1, <3>2
  <2> QED
    BY <2>2, <2>4, <2>5 DEF IsSums
<1>6. Sum(a) = b[m]
  BY <1>3, <1>5, SumIs
<1>7. b[m] = B[m]
  <2>1. m \in 0..m
    OBVIOUS
  <2> QED
    BY <1>4, <2>1
<1>8. RowsBefore(sd, m) = Sum(a)
  BY <1>1, Zenon DEF RowsBefore
<1> QED
  BY <1>6, <1>7, <1>8

-----------------------------------------------------------------------------
(* Where a chunk is put *)

\* The first place of the spans in each dimension
Mins(spans) == [d \in DOMAIN spans |-> MinMem(spans[d])]

\* A chunk has a first place in every dimension
LEMMA MinsAre ==
  ASSUME NEW q \in Nat, NEW spans \in Seq(SpanPair), Len(spans) = q + 1
  PROVE  /\ DOMAIN Mins(spans) = 1..(q + 1) /\ Len(Mins(spans)) = q + 1
         /\ \A d \in 1..(q + 1) : Mins(spans)[d] = MinMem(spans[d])
         /\ Last(Mins(spans)) = MinMem(spans[q + 1])
<1>1. DOMAIN spans = 1..(q + 1)
  OBVIOUS
<1>2. PICK f : f = Mins(spans)
  OBVIOUS
<1>3. f = [d \in 1..(q + 1) |-> MinMem(spans[d])]
  BY <1>1, <1>2, Zenon DEF Mins
<1>4. DOMAIN f = 1..(q + 1) /\ \A d \in 1..(q + 1) : f[d] = MinMem(spans[d])
  BY <1>3
<1>5. q + 1 \in Nat /\ IsOfLength(f, q + 1)
  BY <1>3, <1>4 DEF IsOfLength
<1>6. Len(f) = q + 1
  BY <1>5, LengthOf
<1>7. Last(f) = MinMem(spans[q + 1])
  <2>1. q + 1 \in 1..(q + 1)
    OBVIOUS
  <2> QED
    BY <1>4, <1>6, <2>1 DEF Last
<1> QED
  BY <1>2, <1>4, <1>6, <1>7

\* The shape a chunk's strides are of: that of the result, or of the chunk's row
ChunkOf(spans, sd) ==
  IF sd.fixed THEN sd.shape ELSE Append(sd.rows[MinMem(spans[Len(spans)]) + 1], 1)

\* What MakeChunk() puts in a chunk: its spans, first places, offset and strides
LEMMA ChunkFields ==
  ASSUME NEW q \in Nat, NEW spans \in Seq(SpanPair), Len(spans) = q + 1, NEW c, NEW sd
  PROVE  /\ MakeChunk(spans, c, sd).spans = spans /\ MakeChunk(spans, c, sd).contiguous = c
         /\ MakeChunk(spans, c, sd).min = Mins(spans)
         /\ MakeChunk(spans, c, sd).offset = FlatOffset(sd, Mins(spans))
         /\ MakeChunk(spans, c, sd).strides = Strides(ChunkOf(spans, sd))
<1>1. PICK min : min = Mins(spans)
  OBVIOUS
<1>2. Last(min) = MinMem(spans[q + 1])
  BY <1>1, MinsAre
<1>3. PICK shape : shape = IF sd.fixed THEN sd.shape ELSE Append(sd.rows[Last(min) + 1], 1)
  OBVIOUS
<1>4. shape = ChunkOf(spans, sd)
  BY <1>2, <1>3 DEF ChunkOf
<1>5. MakeChunk(spans, c, sd) =
        [spans |-> spans, contiguous |-> c, min |-> min,
         offset |-> FlatOffset(sd, min), strides |-> Strides(shape)]
  BY <1>1, <1>3, Zenon DEF MakeChunk, Mins
<1>6. PICK o, st : o = FlatOffset(sd, min) /\ st = Strides(shape)
  OBVIOUS
<1>7. MakeChunk(spans, c, sd) =
        [spans |-> spans, contiguous |-> c, min |-> min, offset |-> o, strides |-> st]
  BY <1>5, <1>6
<1>8. st = Strides(ChunkOf(spans, sd)) /\ o = FlatOffset(sd, Mins(spans))
  BY <1>1, <1>4, <1>6
<1> QED
  BY <1>1, <1>7, <1>8

\* The first dimensions of the result are those of each row
LEMMA FrontFixed ==
  ASSUME NEW sd, NEW q \in Nat, NEW R \in Nat, ShapedAs(sd, q, R), sd.fixed
  PROVE  \A d \in 1..q : Front(sd.shape)[d] = sd.shape[d]
<1>1. PICK z : z = sd.shape
  OBVIOUS
<1>2. z \in Seq(Nat) /\ Len(z) = q + 1
  BY <1>1 DEF ShapedAs
<1>3. \A d \in 1..q : Front(z)[d] = z[d]
  BY <1>2, FrontOf
<1> QED
  BY <1>1, <1>3

\* Strides that agree in the first q dimensions
SameUpTo(Q, p, q) == \A d \in 0..q : Q[d] = p[d]

\* Its dimensions but the last are those of the rows, with the strides of row m
LEMMA ChunkShaped ==
  ASSUME NEW sd, NEW q \in Nat, NEW R \in Nat, NEW P, NEW B, IsLayout(sd, q, R, P, B),
         ShapedAs(sd, q, R), NEW spans \in Seq(SpanPair), Len(spans) = q + 1,
         NEW m \in 0..(R - 1), ~ sd.fixed => MinMem(spans[q + 1]) = m,
         NEW S, S = ChunkOf(spans, sd), NEW Q, IsProducts(Q, S, q + 1)
  PROVE  SameUpTo(Q, P[m], q)
<1>1. PICK s : s = RowShape(sd, m + 1)
  OBVIOUS
<1>2. IsProducts(P[m], s, q)
  BY <1>1 DEF IsLayout
<1>3. \A d \in 1..q : S[d] = s[d]
  <2>1. CASE sd.fixed
    <3>1. S = sd.shape /\ s = Front(sd.shape)
      BY <1>1, <2>1, RowShapes DEF ChunkOf
    <3> QED
      BY <2>1, <3>1, FrontFixed
  <2>2. CASE ~ sd.fixed
    <3>1. S = Append(s, 1)
      BY <1>1, <2>2, RowShapes DEF ChunkOf
    <3>2. s \in Seq(Nat) /\ Len(s) = q
      BY <1>1 DEF IsLayout
    <3> QED
      BY <3>1, <3>2
  <2> QED
    BY <2>1, <2>2
<1>4. IsProducts(Q, S, q)
  <2>1. \A d \in 0..q : d \in 0..(q + 1)
    OBVIOUS
  <2>2. \A d \in 1..q : d \in 1..(q + 1)
    OBVIOUS
  <2> QED
    BY <2>1, <2>2 DEF IsProducts
<1>5. ASSUME NEW d \in 0..q PROVE Q[d] = P[m][d]
  <2>1. \A i \in 1..d : S[i] = s[i]
    BY <1>3
  <2> QED
    BY <1>2, <1>4, <2>1, ProductsAgree
<1> QED
  BY <1>5 DEF SameUpTo

\* The shape a chunk has its strides from has as many dimensions as the chunk
LEMMA ChunkOfType ==
  ASSUME NEW sd, NEW q \in Nat, NEW R \in Nat, ShapedAs(sd, q, R),
         NEW spans \in Seq(SpanPair), Len(spans) = q + 1,
         NEW m \in 0..(R - 1), ~ sd.fixed => MinMem(spans[q + 1]) = m
  PROVE  ChunkOf(spans, sd) \in Seq(Nat) /\ Len(ChunkOf(spans, sd)) = q + 1
<1>1. CASE sd.fixed
  BY <1>1 DEF ShapedAs, ChunkOf
<1>2. CASE ~ sd.fixed
  <2>1. PICK s : s = sd.rows[m + 1]
    OBVIOUS
  <2>2. s \in Seq(Nat) /\ Len(s) = q
    <3>1. m + 1 \in 1..R
      OBVIOUS
    <3> QED
      BY <1>2, <2>1, <3>1 DEF ShapedAs
  <2>3. ChunkOf(spans, sd) = Append(s, 1)
    BY <1>2, <2>1 DEF ChunkOf
  <2> QED
    BY <2>2, <2>3
<1> QED
  BY <1>1, <1>2

\* Strides(): the products of the sizes of the dimensions before
LEMMA StridesExist ==
  ASSUME NEW n \in Nat, NEW S \in Seq(Nat), Len(S) = n
  PROVE  \E Q : IsProducts(Q, S, n) /\ \A d \in 1..n : Strides(S)[d] = Q[d - 1] /\ Q[d - 1] \in Nat
<1>1. S \in [1..n -> Nat]
  OBVIOUS
<1>2. PICK Q : IsProducts(Q, S, n)
  BY <1>1, ProductsExist
<1>3. \A d \in 1..n : Strides(S)[d] = Q[d - 1]
  BY <1>2, StridesAre
<1>4. \A d \in 1..n : Q[d - 1] \in Nat
  <2>1. \A d \in 1..n : d - 1 \in 0..n
    OBVIOUS
  <2> QED
    BY <1>2, <2>1 DEF IsProducts
<1> QED
  BY <1>2, <1>3, <1>4

\* Does the row dimension of the spans hold row m?
HoldsRow(spans, q, m) == \E i \in 1..Len(spans[q + 1].disk) : spans[q + 1].mem[i] = m

\* The spans lie within the result, and in one row if the rows vary
SpansFit(spans, sd, q, R) ==
  /\ spans \in Seq(SpanPair) /\ Len(spans) = q + 1
  /\ \A i \in 1..Len(spans[q + 1].disk) : spans[q + 1].mem[i] \in 0..(R - 1)
  /\ \A m \in 0..(R - 1) : HoldsRow(spans, q, m) =>
       \A d \in 1..q : \A j \in 1..Len(spans[d].disk) :
         spans[d].mem[j] \in 0..(RowShape(sd, m + 1)[d] - 1)
  /\ ~ sd.fixed => Len(spans[q + 1].disk) = 1

\* They are consecutive in memory: whole dimensions, of some rows
Contiguous(spans, sd, q) ==
  /\ \A d \in 1..q : /\ \A i \in 1..Len(spans[d].disk) : spans[d].mem[i] = i - 1
                     /\ \A m : HoldsRow(spans, q, m) => Len(spans[d].disk) = RowShape(sd, m + 1)[d]
  /\ IsMemoryContiguous(spans[q + 1])

\* A position in the spans, and the place it is read into
PosIn(spans, pos, n) ==
  DOMAIN pos = 1..n /\ \A d \in 1..n : pos[d] \in Nat /\ pos[d] < Len(spans[d].disk)

PlaceOf(spans, pos) == [d \in DOMAIN spans |-> spans[d].mem[pos[d] + 1]]

IsPlaceOf(x, spans, pos, q) ==
  DOMAIN x = 1..(q + 1) /\ \A d \in 1..(q + 1) : x[d] = spans[d].mem[pos[d] + 1]

\* A position of a chunk is one in each of its spans
LEMMA PositionsAre ==
  ASSUME NEW n \in Nat, NEW spans \in Seq(SpanPair), Len(spans) = n,
         NEW chunk, chunk.spans = spans, NEW pos \in Positions(chunk)
  PROVE  PosIn(spans, pos, n)
<1>1. DOMAIN spans = 1..n
  OBVIOUS
<1>2. PICK M : M = Max({0} \cup Range(ChunkShape(chunk)))
  OBVIOUS
<1>3. PICK shape : shape = ChunkShape(chunk)
  OBVIOUS
<1>4. /\ pos \in [1..n -> 0..M] /\ \A d \in 1..n : pos[d] < shape[d]
  BY <1>1, <1>2, <1>3 DEF Positions
<1>5. \A d \in 1..n : shape[d] = Len(spans[d].disk)
  BY <1>1, <1>3 DEF ChunkShape
<1>6. \A d \in 1..n : pos[d] \in Nat
  BY <1>4
<1> QED
  BY <1>4, <1>5, <1>6 DEF PosIn

\* A position of a chunk is read into a place within the result
LEMMA PlacesFit ==
  ASSUME NEW sd, NEW q \in Nat, NEW R \in Nat, ShapedAs(sd, q, R),
         NEW spans, SpansFit(spans, sd, q, R), NEW pos, PosIn(spans, pos, q + 1)
  PROVE  /\ IsPlace(PlaceOf(spans, pos), sd, q, R)
         /\ IsPlaceOf(PlaceOf(spans, pos), spans, pos, q)
         /\ HoldsRow(spans, q, PlaceOf(spans, pos)[q + 1])
<1>1. spans \in Seq(SpanPair) /\ Len(spans) = q + 1 /\ DOMAIN spans = 1..(q + 1)
  BY DEF SpansFit
<1>2. PICK x : x = PlaceOf(spans, pos)
  OBVIOUS
<1>3. DOMAIN x = 1..(q + 1) /\ \A d \in 1..(q + 1) : x[d] = spans[d].mem[pos[d] + 1]
  BY <1>1, <1>2 DEF PlaceOf
<1>4. \A d \in 1..(q + 1) : pos[d] + 1 \in 1..Len(spans[d].disk)
  <2>1. ASSUME NEW d \in 1..(q + 1) PROVE pos[d] + 1 \in 1..Len(spans[d].disk)
    <3>1. spans[d] \in SpanPair
      BY <1>1
    <3>2. PICK len \in Nat : len = Len(spans[d].disk)
      BY <3>1 DEF SpanPair
    <3>3. pos[d] \in Nat /\ pos[d] < len
      BY <3>2 DEF PosIn
    <3> QED
      BY <3>2, <3>3
  <2> QED
    BY <2>1
<1>5. q + 1 \in 1..(q + 1)
  OBVIOUS
<1>6. HoldsRow(spans, q, x[q + 1])
  BY <1>3, <1>4, <1>5 DEF HoldsRow
<1>7. PICK m \in 0..(R - 1) : m = x[q + 1]
  BY <1>3, <1>4, <1>5 DEF SpansFit
<1>8. PICK s : s = RowShape(sd, m + 1)
  OBVIOUS
<1>9. \A d \in 1..q : \A j \in 1..Len(spans[d].disk) : spans[d].mem[j] \in 0..(s[d] - 1)
  BY <1>6, <1>7, <1>8 DEF SpansFit
<1>10. ASSUME NEW d \in 1..q PROVE x[d] \in 0..(s[d] - 1)
  <2>1. d \in 1..(q + 1)
    OBVIOUS
  <2> QED
    BY <1>3, <1>4, <1>9, <2>1
<1>11. IsPlace(x, sd, q, R)
  <2>1. ASSUME NEW d \in 1..q PROVE x[d] \in Nat /\ x[d] < s[d]
    <3>1. x[d] \in 0..(s[d] - 1)
      BY <1>10
    <3>2. s \in Seq(Nat) /\ Len(s) = q
      BY <1>8, RowShapes
    <3>3. PICK n \in Nat : n = s[d]
      BY <3>2
    <3> QED
      BY <3>1, <3>3
  <2> QED
    BY <1>7, <1>8, <2>1 DEF IsPlace
<1> QED
  BY <1>2, <1>3, <1>6, <1>11 DEF IsPlaceOf

\* The first place of dimension d is none after the place of the position
MinAt(spans, pos, d) ==
  /\ Mins(spans)[d] \in Nat /\ Mins(spans)[d] <= PlaceOf(spans, pos)[d]
  /\ PlaceOf(spans, pos)[d] \in Nat
  /\ \E i \in 1..Len(spans[d].disk) : Mins(spans)[d] = spans[d].mem[i]

\* The first places are those of no element before the place
LEMMA MinsFit ==
  ASSUME NEW sd, NEW q \in Nat, NEW R \in Nat, ShapedAs(sd, q, R),
         NEW spans, SpansFit(spans, sd, q, R), NEW pos, PosIn(spans, pos, q + 1),
         NEW d \in 1..(q + 1)
  PROVE  MinAt(spans, pos, d)
<1>1. PICK x : x = PlaceOf(spans, pos)
  OBVIOUS
<1>2. IsPlace(x, sd, q, R) /\ x[d] = spans[d].mem[pos[d] + 1] /\ HoldsRow(spans, q, x[q + 1])
  <2>1. IsPlace(x, sd, q, R) /\ IsPlaceOf(x, spans, pos, q) /\ HoldsRow(spans, q, x[q + 1])
    BY <1>1, PlacesFit, Zenon
  <2> QED
    BY <2>1 DEF IsPlaceOf
<1>3. PICK m \in 0..(R - 1) : m = x[q + 1]
  BY <1>2 DEF IsPlace
<1>4. PICK s : s = RowShape(sd, m + 1)
  OBVIOUS
<1>5. s \in Seq(Nat) /\ Len(s) = q
  BY <1>4, RowShapes
<1>6. PICK span \in SpanPair : span = spans[d]
  BY DEF SpansFit
<1>7. Mins(spans)[d] = MinMem(span)
  BY <1>6, MinsAre DEF SpansFit
<1>8. PICK len \in Nat : len = Len(span.disk)
  BY DEF SpanPair
<1>9. pos[d] \in Nat /\ pos[d] < len
  BY <1>6, <1>8 DEF PosIn
<1>10. PICK size \in Nat : \A i \in 1..Len(span.disk) : span.mem[i] \in 0..(size - 1)
  <2>1. CASE d = q + 1
    <3>1. \A i \in 1..Len(span.disk) : span.mem[i] \in 0..(R - 1)
      BY <1>6, <2>1 DEF SpansFit
    <3> QED
      BY <3>1
  <2>2. CASE d # q + 1
    <3>1. d \in 1..q
      BY <2>2
    <3>2. PICK size \in Nat : size = s[d]
      BY <1>5, <3>1
    <3>3. \A i \in 1..Len(span.disk) : span.mem[i] \in 0..(s[d] - 1)
      BY <1>2, <1>3, <1>4, <1>6, <3>1 DEF SpansFit
    <3> QED
      BY <3>2, <3>3
  <2> QED
    BY <2>1, <2>2
<1>11. span.disk # <<>>
  <2> SUFFICES ASSUME span.disk = <<>> PROVE FALSE
    OBVIOUS
  <2>1. Len(span.disk) = Len(<<>>)
    BY Zenon
  <2>3. Len(<<>>) = 0
    OBVIOUS
  <2> QED
    BY <1>8, <1>9, <2>1, <2>3
<1>12. /\ MinMem(span) \in Nat
       /\ \A i \in 1..Len(span.disk) : MinMem(span) <= span.mem[i]
       /\ \E i \in 1..Len(span.disk) : MinMem(span) = span.mem[i]
  BY <1>10, <1>11, MinMemIs
<1>13. pos[d] + 1 \in 1..Len(span.disk)
  BY <1>8, <1>9
<1>14. x[d] \in Nat /\ MinMem(span) <= x[d]
  BY <1>2, <1>6, <1>10, <1>12, <1>13
<1> QED
  BY <1>1, <1>6, <1>7, <1>12, <1>14 DEF MinAt

\* Where the rows vary, a chunk is of one
LEMMA OneRow ==
  ASSUME NEW sd, NEW q \in Nat, NEW R \in Nat, ShapedAs(sd, q, R), ~ sd.fixed,
         NEW spans, SpansFit(spans, sd, q, R), NEW pos, PosIn(spans, pos, q + 1)
  PROVE  Mins(spans)[q + 1] = PlaceOf(spans, pos)[q + 1]
<1>1. q + 1 \in 1..(q + 1)
  OBVIOUS
<1>2. PICK i \in 1..Len(spans[q + 1].disk) : Mins(spans)[q + 1] = spans[q + 1].mem[i]
  <2>1. MinAt(spans, pos, q + 1)
    BY <1>1, MinsFit
  <2> QED
    BY <2>1 DEF MinAt
<1>3. Len(spans[q + 1].disk) = 1
  BY DEF SpansFit
<1>4. i = 1
  BY <1>2, <1>3
<1>5. pos[q + 1] \in Nat /\ pos[q + 1] < 1
  BY <1>1, <1>3 DEF PosIn
<1>6. pos[q + 1] + 1 = 1
  BY <1>5
<1>7. PlaceOf(spans, pos)[q + 1] = spans[q + 1].mem[pos[q + 1] + 1]
  <2>1. IsPlaceOf(PlaceOf(spans, pos), spans, pos, q)
    BY PlacesFit
  <2> QED
    BY <1>1, <2>1 DEF IsPlaceOf
<1> QED
  BY <1>2, <1>4, <1>6, <1>7

\* Memory indices one after the other
LEMMA MemorySteps ==
  ASSUME NEW span \in SpanPair, IsMemoryContiguous(span), NEW i \in 1..Len(span.disk)
  PROVE  span.mem[i] = span.mem[1] + (i - 1)
<1>1. PICK mem \in Seq(Int) : mem = span.mem /\ Len(mem) = Len(span.disk)
  BY DEF SpanPair
<1>2. PICK n \in Nat : n = Len(mem)
  OBVIOUS
<1>3. \A k \in 1..(n - 1) : mem[k + 1] - mem[k] = 1
  BY <1>1, <1>2 DEF IsMemoryContiguous
<1> DEFINE T == {k \in Nat : k + 1 <= n => mem[k + 1] = mem[1] + k}
<1>4. 0 \in T
  <2>1. SUFFICES ASSUME 0 + 1 <= n PROVE mem[0 + 1] = mem[1] + 0
    OBVIOUS
  <2>2. 1 \in 1..n /\ 0 + 1 = 1
    BY <2>1
  <2>3. mem[1] \in Int
    BY <1>2, <2>2
  <2> QED
    BY <2>2, <2>3
<1>5. ASSUME NEW k \in Nat, k \in T PROVE k + 1 \in T
  <2>1. SUFFICES ASSUME (k + 1) + 1 <= n PROVE mem[(k + 1) + 1] = mem[1] + (k + 1)
    OBVIOUS
  <2>2. k + 1 \in 1..(n - 1) /\ 1 \in 1..n /\ (k + 1) + 1 \in 1..n /\ k + 1 \in 1..n
    BY <2>1
  <2>3. mem[k + 1] = mem[1] + k
    BY <1>5, <2>1
  <2>4. mem[(k + 1) + 1] - mem[k + 1] = 1
    BY <1>3, <2>2
  <2>5. PICK a \in Int : a = mem[1]
    BY <1>2, <2>2
  <2>6. PICK b \in Int : b = mem[k + 1]
    BY <1>2, <2>2
  <2>7. PICK c \in Int : c = mem[(k + 1) + 1]
    BY <1>2, <2>2
  <2>8. c - b = 1 /\ b = a + k
    BY <2>3, <2>4, <2>5, <2>6, <2>7
  <2>9. c = a + (k + 1)
    BY <2>8
  <2> QED
    BY <2>5, <2>7, <2>9
<1>6. i - 1 \in T
  <2> HIDE DEF T
  <2>1. i - 1 \in Nat
    BY <1>1, <1>2
  <2> QED
    BY <1>4, <1>5, <2>1, NumbersOfSet
<1>7. (i - 1) + 1 = i /\ i <= n
  BY <1>1, <1>2
<1> QED
  BY <1>1, <1>6, <1>7

\* The place, from the first
IsStep(y, spans, pos, q) ==
  DOMAIN y = 1..(q + 1) /\
  \A d \in 1..(q + 1) : y[d] \in Nat /\ y[d] = PlaceOf(spans, pos)[d] - Mins(spans)[d]

\* A place is the first one of its chunk and a step in each dimension
LEMMA StepExists ==
  ASSUME NEW sd, NEW q \in Nat, NEW R \in Nat, ShapedAs(sd, q, R),
         NEW spans, SpansFit(spans, sd, q, R), NEW pos, PosIn(spans, pos, q + 1)
  PROVE  \E y : IsStep(y, spans, pos, q)
<1>1. PICK y : y = [d \in 1..(q + 1) |-> PlaceOf(spans, pos)[d] - Mins(spans)[d]]
  OBVIOUS
<1>2. ASSUME NEW d \in 1..(q + 1) PROVE y[d] \in Nat
  <2>1. MinAt(spans, pos, d)
    BY MinsFit
  <2>2. PICK a \in Nat, b \in Nat : a = PlaceOf(spans, pos)[d] /\ b = Mins(spans)[d] /\ b <= a
    BY <2>1 DEF MinAt
  <2>3. y[d] = a - b
    BY <1>1, <2>2
  <2> QED
    BY <2>2, <2>3
<1>3. IsStep(y, spans, pos, q)
  BY <1>1, <1>2 DEF IsStep
<1> QED
  BY <1>3

\* Where the spans are consecutive, it is the position itself
LEMMA ContiguousStep ==
  ASSUME NEW sd, NEW q \in Nat, NEW R \in Nat, ShapedAs(sd, q, R),
         NEW spans, SpansFit(spans, sd, q, R), Contiguous(spans, sd, q),
         NEW pos, PosIn(spans, pos, q + 1), NEW y, IsStep(y, spans, pos, q),
         NEW d \in 1..(q + 1)
  PROVE  pos[d] = y[d]
<1>1. IsPlaceOf(PlaceOf(spans, pos), spans, pos, q)
  BY PlacesFit
<1>2. MinAt(spans, pos, d)
  BY MinsFit
<1>3. PICK i \in 1..Len(spans[d].disk) : Mins(spans)[d] = spans[d].mem[i]
  BY <1>2 DEF MinAt
<1>4. PICK span \in SpanPair : span = spans[d]
  BY DEF SpansFit
<1>5. PICK len \in Nat : len = Len(span.disk)
  BY DEF SpanPair
<1>6. PICK p \in Nat : p = pos[d] /\ p < len
  BY <1>4, <1>5 DEF PosIn
<1>7. PICK a \in Nat : a = PlaceOf(spans, pos)[d]
  BY <1>2 DEF MinAt
<1>8. PICK b \in Nat : b = Mins(spans)[d]
  BY <1>2 DEF MinAt
<1>9. a = span.mem[p + 1] /\ p + 1 \in 1..len
  BY <1>1, <1>4, <1>6, <1>7 DEF IsPlaceOf
<1>10. y[d] = a - b
  BY <1>7, <1>8 DEF IsStep
<1>11. b = span.mem[i] /\ i \in 1..len
  BY <1>3, <1>4, <1>5, <1>8
<1>12. \A posn \in 1..len : span.mem[posn] = span.mem[1] + (posn - 1)
  <2>1. CASE d = q + 1
    <3>1. IsMemoryContiguous(span)
      BY <1>4, <2>1 DEF Contiguous
    <3> QED
      BY <1>5, <3>1, MemorySteps
  <2>2. CASE d # q + 1
    <3>1. d \in 1..q
      BY <2>2
    <3>2. \A j \in 1..len : span.mem[j] = j - 1
      BY <1>4, <1>5, <3>1 DEF Contiguous
    <3>3. 1 \in 1..len
      BY <1>9
    <3>4. span.mem[1] = 1 - 1
      BY <3>2, <3>3
    <3>5. \A j \in 1..len : 0 + (j - 1) = j - 1
      OBVIOUS
    <3> QED
      BY <3>2, <3>4, <3>5
  <2> QED
    BY <2>1, <2>2
<1>13. 1 \in 1..len
  BY <1>9
<1>14. PICK c \in Int : c = span.mem[1]
  <2>1. span.mem \in Seq(Int) /\ Len(span.mem) = len
    BY <1>5 DEF SpanPair
  <2> QED
    BY <1>13, <2>1
<1>15. a = c + p
  <2>1. a = c + ((p + 1) - 1)
    BY <1>9, <1>12, <1>14
  <2> QED
    BY <2>1
<1>16. b = c + (i - 1)
  BY <1>11, <1>12, <1>14
<1>17. b <= c
  <2>1. PICK pos1 : pos1 = [e \in 1..(q + 1) |-> IF e = d THEN 0 ELSE pos[e]]
    OBVIOUS
  <2>2. PosIn(spans, pos1, q + 1)
    <3>1. Len(spans[d].disk) > 0
      BY <1>4, <1>5, <1>6
    <3> QED
      BY <2>1, <3>1 DEF PosIn
  <2>3. MinAt(spans, pos1, d) /\ IsPlaceOf(PlaceOf(spans, pos1), spans, pos1, q)
    BY <2>2, MinsFit, PlacesFit
  <2>4. pos1[d] + 1 = 1
    BY <2>1
  <2>5. PlaceOf(spans, pos1)[d] = c
    BY <1>4, <1>14, <2>3, <2>4 DEF IsPlaceOf
  <2> QED
    BY <1>8, <2>3, <2>5 DEF MinAt
<1>18. b = c
  BY <1>11, <1>16, <1>17
<1> QED
  BY <1>6, <1>10, <1>15, <1>18

\* The shape of a contiguous chunk is that of the rows, but for their number
Sizes(spans) == [d \in DOMAIN spans |-> Len(spans[d].disk)]

\* The shape of a chunk is the lengths of its spans, its elements their product
LEMMA SizesOfChunk ==
  ASSUME NEW q \in Nat, NEW spans \in Seq(SpanPair), Len(spans) = q + 1, NEW chunk, chunk.spans = spans
  PROVE  /\ ChunkShape(chunk) = Sizes(spans) /\ NElements(chunk) = Size(spans)
         /\ Sizes(spans) \in Seq(Nat) /\ Len(Sizes(spans)) = q + 1
         /\ \A d \in 1..(q + 1) : Sizes(spans)[d] = Len(spans[d].disk)
<1>1. PICK f : f = Sizes(spans)
  OBVIOUS
<1>2. DOMAIN spans = 1..(q + 1)
  OBVIOUS
<1>3. f = [d \in 1..(q + 1) |-> Len(spans[d].disk)]
  BY <1>1, <1>2, Zenon DEF Sizes
<1>4. \A d \in 1..(q + 1) : Len(spans[d].disk) \in Nat
  <2>1. \A d \in 1..(q + 1) : spans[d] \in SpanPair
    BY <1>2
  <2> QED
    BY <2>1 DEF SpanPair
<1>5. f \in [1..(q + 1) -> Nat] /\ \A d \in 1..(q + 1) : f[d] = Len(spans[d].disk)
  BY <1>3, <1>4
<1>6. IsOfLength(f, q + 1)
  BY <1>5 DEF IsOfLength
<1>7. q + 1 \in Nat /\ Len(f) = q + 1
  BY <1>6, LengthOf
<1>8. f \in Seq(Nat)
  BY <1>5, <1>7
<1>9. ChunkShape(chunk) = f
  BY <1>1, Zenon DEF ChunkShape, Sizes
<1>10. NElements(chunk) = Product(f)
  BY <1>9, Zenon DEF NElements
<1>11. Product(f) = Size(spans)
  BY <1>1, Zenon DEF Size, Sizes
<1> QED
  BY <1>1, <1>5, <1>7, <1>8, <1>9, <1>10, <1>11

\* A chunk of whole dimensions has the strides of the rows it is in
LEMMA ContiguousStrides ==
  ASSUME NEW sd, NEW q \in Nat, NEW R \in Nat, NEW P, NEW B, IsLayout(sd, q, R, P, B),
         NEW spans, SpansFit(spans, sd, q, R), Contiguous(spans, sd, q),
         NEW m \in 0..(R - 1), HoldsRow(spans, q, m),
         NEW C, C = Sizes(spans), NEW Q, IsProducts(Q, C, q + 1)
  PROVE  SameUpTo(Q, P[m], q)
<1>1. PICK s : s = RowShape(sd, m + 1)
  OBVIOUS
<1>2. IsProducts(P[m], s, q)
  BY <1>1 DEF IsLayout
<1>3. ASSUME NEW d \in 1..q PROVE C[d] = s[d]
  <2>1. Len(spans[d].disk) = s[d]
    BY <1>1 DEF Contiguous
  <2>2. d \in DOMAIN spans
    BY DEF SpansFit
  <2> QED
    BY <2>1, <2>2 DEF Sizes
<1>4. IsProducts(Q, C, q)
  <2>1. \A d \in 0..q : d \in 0..(q + 1)
    OBVIOUS
  <2>2. \A d \in 1..q : d \in 1..(q + 1)
    OBVIOUS
  <2> QED
    BY <2>1, <2>2 DEF IsProducts
<1>5. ASSUME NEW d \in 0..q PROVE Q[d] = P[m][d]
  <2>1. \A i \in 1..d : C[i] = s[i]
    BY <1>3
  <2> QED
    BY <1>2, <1>4, <2>1, ProductsAgree
<1> QED
  BY <1>5 DEF SameUpTo

\* An element is put as far from the chunk's first as the strides of the result say
LEMMA TargetStep ==
  ASSUME NEW sd, NEW q \in Nat, NEW R \in Nat, NEW P, NEW B, IsLayout(sd, q, R, P, B),
         ShapedAs(sd, q, R), NEW spans, SpansFit(spans, sd, q, R),
         NEW c, c => Contiguous(spans, sd, q),
         NEW pos, PosIn(spans, pos, q + 1), NEW m \in 0..(R - 1), m = PlaceOf(spans, pos)[q + 1],
         NEW Q, IsProducts(Q, ChunkOf(spans, sd), q + 1),
         \A d \in 1..(q + 1) : Strides(ChunkOf(spans, sd))[d] = Q[d - 1] /\ Q[d - 1] \in Nat,
         NEW y, IsStep(y, spans, pos, q), NEW u, IsOffset(u, y, Q, q + 1)
  PROVE  Target(MakeChunk(spans, c, sd), pos) = FlatOffset(sd, Mins(spans)) + u[q + 1]
<1>1. PICK chunk : chunk = MakeChunk(spans, c, sd)
  OBVIOUS
<1>2. spans \in Seq(SpanPair) /\ Len(spans) = q + 1 /\ DOMAIN spans = 1..(q + 1)
  BY DEF SpansFit
<1>3. PICK o : o = FlatOffset(sd, Mins(spans))
  OBVIOUS
<1>4. PICK st : st = Strides(ChunkOf(spans, sd))
  OBVIOUS
<1>5. /\ chunk.spans = spans /\ chunk.contiguous = c /\ chunk.min = Mins(spans)
      /\ chunk.offset = o /\ chunk.strides = st
  BY <1>1, <1>2, <1>3, <1>4, ChunkFields
<1>6. q + 1 \in Nat /\ DOMAIN pos = 1..(q + 1)
  BY DEF PosIn
<1>7. CASE ~ c
  <2>1. PICK z : z = [d \in DOMAIN pos |-> chunk.spans[d].mem[pos[d] + 1] - chunk.min[d]]
    OBVIOUS
  <2>2. Target(chunk, pos) = o + Dot(z, st)
    BY <1>5, <1>7, <2>1, Zenon DEF Target
  <2>3. DOMAIN z = 1..(q + 1) /\ \A d \in 1..(q + 1) : z[d] = y[d]
    <3>1. IsPlaceOf(PlaceOf(spans, pos), spans, pos, q)
      BY PlacesFit
    <3>2. ASSUME NEW d \in 1..(q + 1) PROVE z[d] = y[d]
      <4>1. z[d] = spans[d].mem[pos[d] + 1] - Mins(spans)[d]
        BY <1>5, <1>6, <2>1
      <4>2. PlaceOf(spans, pos)[d] = spans[d].mem[pos[d] + 1]
        BY <3>1 DEF IsPlaceOf
      <4> QED
        BY <4>1, <4>2 DEF IsStep
    <3> QED
      BY <1>6, <2>1, <3>2
  <2>4. \A d \in 1..(q + 1) : z[d] \in Nat
    BY <2>3 DEF IsStep
  <2>5. IsOffset(u, z, Q, q + 1)
    BY <2>3 DEF IsOffset
  <2>7. AreStrides(st, Q, z, q + 1)
    BY <1>4, <2>3, <2>4 DEF AreStrides
  <2>6. Dot(z, st) = u[q + 1]
    BY <1>6, <2>3, <2>5, <2>7, DotIs
  <2> QED
    BY <1>1, <1>3, <2>2, <2>6
<1>8. CASE c
  <2>1. PICK C : C = Sizes(spans)
    OBVIOUS
  <2>2. ChunkShape(chunk) = C /\ C \in Seq(Nat) /\ Len(C) = q + 1
    BY <1>2, <1>5, <2>1, SizesOfChunk
  <2>3. PICK sc : sc = Strides(C)
    OBVIOUS
  <2>4. Target(chunk, pos) = o + Dot(pos, sc)
    BY <1>5, <1>8, <2>2, <2>3, Zenon DEF Target
  <2>5. PICK K : IsProducts(K, C, q + 1) /\ \A d \in 1..(q + 1) : sc[d] = K[d - 1] /\ K[d - 1] \in Nat
    BY <1>6, <2>2, <2>3, StridesExist
  <2>6. \A d \in 1..(q + 1) : pos[d] \in Nat
    BY DEF PosIn
  <2>7. PICK w : IsOffset(w, pos, K, q + 1)
    BY <1>6, <2>5, <2>6, OffsetsExist
  <2>8. Dot(pos, sc) = w[q + 1]
    <3>1. AreStrides(sc, K, pos, q + 1)
      BY <1>6, <2>5, <2>6 DEF AreStrides
    <3> QED
      BY <1>6, <2>7, <3>1, DotIs
  <2>9. HoldsRow(spans, q, m)
    BY PlacesFit
  <2>10. \A d \in 0..q : K[d] = P[m][d]
    <3>1. Contiguous(spans, sd, q) /\ IsProducts(K, C, q + 1)
      BY <1>8, <2>5
    <3>2. SameUpTo(K, P[m], q)
      BY <2>1, <2>9, <3>1, ContiguousStrides
    <3> QED
      BY <3>2 DEF SameUpTo
  <2>11. \A d \in 0..q : Q[d] = P[m][d]
    <3>1. ~ sd.fixed => MinMem(spans[q + 1]) = m
      <4>1. ~ sd.fixed => Mins(spans)[q + 1] = m
        BY OneRow
      <4>2. q + 1 \in 1..(q + 1)
        OBVIOUS
      <4> QED
        BY <1>2, <4>1, <4>2, MinsAre
    <3>2. SameUpTo(Q, P[m], q)
      BY <1>2, <3>1, ChunkShaped
    <3> QED
      BY <3>2 DEF SameUpTo
  <2>12. \A d \in 1..(q + 1) : d - 1 \in 0..q
    OBVIOUS
  <2>13. \A d \in 1..(q + 1) : pos[d] = y[d] /\ K[d - 1] = Q[d - 1]
    <3>1. \A d \in 1..(q + 1) : pos[d] = y[d]
      BY <1>8, ContiguousStep
    <3> QED
      BY <2>10, <2>11, <2>12, <3>1
  <2>14. w[q + 1] = u[q + 1]
    BY <1>6, <2>7, <2>13, OffsetsAgree
  <2> QED
    BY <1>1, <1>3, <2>4, <2>8, <2>14
<1> QED
  BY <1>7, <1>8

\* The first places of a chunk are natural numbers
LEMMA MinsType ==
  ASSUME NEW sd, NEW q \in Nat, NEW R \in Nat, ShapedAs(sd, q, R),
         NEW spans, SpansFit(spans, sd, q, R), NEW pos, PosIn(spans, pos, q + 1)
  PROVE  /\ Mins(spans) \in Seq(Nat) /\ Len(Mins(spans)) = q + 1 /\ DOMAIN Mins(spans) = 1..(q + 1)
         /\ \A d \in 1..(q + 1) : Mins(spans)[d] \in Nat
<1>1. PICK f : f = Mins(spans)
  OBVIOUS
<1>2. spans \in Seq(SpanPair) /\ Len(spans) = q + 1 /\ DOMAIN spans = 1..(q + 1)
  BY DEF SpansFit
<1>3. f = [d \in 1..(q + 1) |-> MinMem(spans[d])]
  BY <1>1, <1>2, Zenon DEF Mins
<1>4. ASSUME NEW d \in 1..(q + 1) PROVE f[d] \in Nat
  <2>1. MinAt(spans, pos, d)
    BY MinsFit
  <2> QED
    BY <1>1, <2>1 DEF MinAt
<1>5. f \in [1..(q + 1) -> Nat]
  BY <1>3, <1>4
<1>6. IsOfLength(f, q + 1)
  BY <1>5 DEF IsOfLength
<1>7. q + 1 \in Nat /\ Len(f) = q + 1
  BY <1>6, LengthOf
<1> QED
  BY <1>1, <1>4, <1>5, <1>7

\* The offset of a chunk: of the first places
LEMMA FixedOffset ==
  ASSUME NEW sd, NEW q \in Nat, NEW R \in Nat, ShapedAs(sd, q, R), sd.fixed,
         NEW spans, SpansFit(spans, sd, q, R), NEW pos, PosIn(spans, pos, q + 1),
         NEW Q, \A d \in 1..(q + 1) : Strides(ChunkOf(spans, sd))[d] = Q[d - 1] /\ Q[d - 1] \in Nat,
         NEW w, IsOffset(w, Mins(spans), Q, q + 1)
  PROVE  FlatOffset(sd, Mins(spans)) = w[q + 1]
<1>1. PICK f : f = Mins(spans)
  OBVIOUS
<1>2. PICK st : st = Strides(ChunkOf(spans, sd))
  OBVIOUS
<1>3. DOMAIN f = 1..(q + 1) /\ \A d \in 1..(q + 1) : f[d] \in Nat
  BY <1>1, MinsType
<1>4. AreStrides(st, Q, f, q + 1)
  BY <1>2, <1>3 DEF AreStrides
<1>5. q + 1 \in Nat /\ IsOffset(w, f, Q, q + 1)
  BY <1>1
<1>6. Dot(f, st) = w[q + 1]
  BY <1>4, <1>5, DotIs
<1>7. st = Strides(sd.shape)
  BY <1>2 DEF ChunkOf
<1>8. FlatOffset(sd, f) = Dot(f, st)
  BY <1>7, Zenon DEF FlatOffset
<1> QED
  BY <1>1, <1>6, <1>8

\* All but the last of a sequence of numbers
LEMMA FrontIs ==
  ASSUME NEW q \in Nat, NEW z, z \in Seq(Nat), Len(z) = q + 1
  PROVE  \A d \in 1..q : Front(z)[d] = z[d]
<1>1. ASSUME NEW d \in 1..q PROVE Front(z)[d] = z[d]
  BY DEF Front
<1> QED
  BY <1>1

\* Where rows vary, FlatOffset() is where the row starts and the offset in the row
LEMMA VariableOffset ==
  ASSUME NEW sd, NEW q \in Nat, NEW R \in Nat, NEW P, NEW B, IsLayout(sd, q, R, P, B),
         ShapedAs(sd, q, R), ~ sd.fixed,
         NEW spans, SpansFit(spans, sd, q, R), NEW pos, PosIn(spans, pos, q + 1),
         NEW m \in 0..(R - 1), m = PlaceOf(spans, pos)[q + 1],
         NEW w, IsOffset(w, Mins(spans), P[m], q)
  PROVE  FlatOffset(sd, Mins(spans)) = B[m] + w[q]
<1>1. PICK f : f = Mins(spans)
  OBVIOUS
<1>2. f \in Seq(Nat) /\ Len(f) = q + 1 /\ \A d \in 1..(q + 1) : f[d] \in Nat
  BY <1>1, MinsType
<1>3. PICK g : g = Front(f)
  OBVIOUS
<1>4. DOMAIN g = 1..q /\ (\A d \in 1..q : g[d] = f[d]) /\ Last(f) = f[q + 1]
  <2>1. PICK z \in Seq(Nat) : z = f /\ Len(z) = q + 1
    BY <1>2
  <2>2. DOMAIN Front(z) = 1..q
    BY <2>1, FrontOf
  <2>3. \A d \in 1..q : Front(z)[d] = z[d]
    BY <2>1, FrontIs
  <2>4. Last(z) = z[q + 1]
    BY <2>1 DEF Last
  <2> QED
    BY <1>3, <2>1, <2>2, <2>3, <2>4
<1>5. f[q + 1] = m
  BY <1>1, OneRow
<1>6. PICK s : s = sd.rows[m + 1]
  OBVIOUS
<1>7. RowShape(sd, m + 1) = s
  BY <1>6 DEF RowShape
<1>8. s \in Seq(Nat) /\ Len(s) = q /\ IsProducts(P[m], s, q)
  BY <1>7 DEF IsLayout
<1>9. PICK st : st = Strides(s)
  OBVIOUS
<1>10. \A d \in 1..q : st[d] = P[m][d - 1] /\ P[m][d - 1] \in Nat
  <2>1. \A d \in 1..q : st[d] = P[m][d - 1]
    BY <1>8, <1>9, StridesAre
  <2>2. \A d \in 1..q : d - 1 \in 0..q
    OBVIOUS
  <2> QED
    BY <1>8, <2>1, <2>2 DEF IsProducts
<1>11. AreStrides(st, P[m], g, q)
  BY <1>2, <1>4, <1>10 DEF AreStrides
<1>12. IsOffset(w, g, P[m], q)
  BY <1>1, <1>4 DEF IsOffset
<1>13. Dot(g, st) = w[q]
  BY <1>11, <1>12, DotIs
<1>14. PICK t : t = RowsBefore(sd, m)
  OBVIOUS
<1>15. B[m] = t
  <2>1. m \in 0..R
    OBVIOUS
  <2> QED
    BY <1>14, <2>1, VariableBase
<1>16. FlatOffset(sd, f) = Dot(g, st) + t
  BY <1>3, <1>4, <1>5, <1>6, <1>9, <1>14, Zenon DEF FlatOffset, RowsBefore
<1>17. w[q] \in Nat /\ B[m] \in Nat
  <2>1. q \in 0..q /\ m \in 0..R
    OBVIOUS
  <2> QED
    BY <2>1 DEF IsOffset, IsLayout
<1> QED
  BY <1>1, <1>13, <1>15, <1>16, <1>17

(***************************************************************************)
(* Where an element is put is where its place is in the result.            *)
(***************************************************************************)
LEMMA TargetIs ==
  ASSUME NEW sd, NEW q \in Nat, NEW R \in Nat, NEW P, NEW B, IsLayout(sd, q, R, P, B),
         ShapedAs(sd, q, R), NEW spans, SpansFit(spans, sd, q, R),
         NEW c, c => Contiguous(spans, sd, q), NEW pos, PosIn(spans, pos, q + 1)
  PROVE  IsAt(Target(MakeChunk(spans, c, sd), pos), PlaceOf(spans, pos), q, P, B)
<1>1. PICK x : x = PlaceOf(spans, pos)
  OBVIOUS
<1>2. IsPlace(x, sd, q, R) /\ IsPlaceOf(x, spans, pos, q) /\ HoldsRow(spans, q, x[q + 1])
  BY <1>1, PlacesFit, Zenon
<1>3. PICK m \in 0..(R - 1) : m = x[q + 1]
  BY <1>2 DEF IsPlace
<1>4. spans \in Seq(SpanPair) /\ Len(spans) = q + 1 /\ q + 1 \in 1..(q + 1) /\ q + 1 \in Nat
  BY DEF SpansFit
<1>5. ~ sd.fixed => Mins(spans)[q + 1] = m
  BY <1>1, <1>3, OneRow
<1>6. ~ sd.fixed => MinMem(spans[q + 1]) = m
  BY <1>4, <1>5, MinsAre
<1>7. PICK S : S = ChunkOf(spans, sd)
  OBVIOUS
<1>8. S \in Seq(Nat) /\ Len(S) = q + 1
  BY <1>4, <1>6, <1>7, ChunkOfType
<1>9. PICK Q : /\ IsProducts(Q, S, q + 1)
               /\ \A d \in 1..(q + 1) : Strides(S)[d] = Q[d - 1] /\ Q[d - 1] \in Nat
  BY <1>4, <1>8, StridesExist
<1>10. \A d \in 0..q : Q[d] = P[m][d]
  <2>1. SameUpTo(Q, P[m], q)
    BY <1>4, <1>6, <1>7, <1>9, ChunkShaped
  <2> QED
    BY <2>1 DEF SameUpTo
<1>11. PICK y : IsStep(y, spans, pos, q)
  BY StepExists
<1>12. PICK f : f = Mins(spans)
  OBVIOUS
<1>13. \A d \in 1..(q + 1) : /\ x[d] \in Nat /\ f[d] \in Nat /\ y[d] \in Nat /\ x[d] = f[d] + y[d]
                              /\ Q[d - 1] \in Nat
  <2>1. ASSUME NEW d \in 1..(q + 1)
        PROVE  x[d] \in Nat /\ f[d] \in Nat /\ y[d] \in Nat /\ x[d] = f[d] + y[d]
    <3>1. MinAt(spans, pos, d)
      BY MinsFit
    <3>2. x[d] \in Nat /\ f[d] \in Nat
      BY <1>1, <1>12, <3>1 DEF MinAt
    <3>3. y[d] \in Nat /\ y[d] = x[d] - f[d]
      BY <1>1, <1>11, <1>12 DEF IsStep
    <3> QED
      BY <3>2, <3>3
  <2> QED
    BY <1>9, <2>1
<1>14. PICK u : IsOffset(u, y, Q, q + 1)
  BY <1>4, <1>13, OffsetsExist
<1>15. PICK w : IsOffset(w, f, Q, q + 1)
  BY <1>4, <1>13, OffsetsExist
<1>16. PICK z : IsOffset(z, x, Q, q + 1)
  BY <1>4, <1>13, OffsetsExist
<1>17. q \in 0..(q + 1) /\ q \in 0..q /\ (q + 1) - 1 = q
  OBVIOUS
<1>18. PICK v : v = z
  OBVIOUS
<1>19. \A d \in 1..q : Q[d - 1] = P[m][d - 1] /\ d \in 1..(q + 1) /\ Q[d - 1] \in Nat
  <2>1. \A d \in 1..q : d - 1 \in 0..q /\ d \in 1..(q + 1)
    OBVIOUS
  <2> QED
    BY <1>10, <1>13, <2>1
<1>20. IsOffset(z, x, Q, q) /\ IsOffset(u, y, Q, q) /\ IsOffset(w, f, Q, q)
  BY <1>4, <1>14, <1>15, <1>16, <1>17, OffsetsUpTo
<1>21. IsOffset(z, x, P[m], q) /\ IsOffset(w, f, P[m], q)
  BY <1>19, <1>20 DEF IsOffset
<1>22. PICK o : o = FlatOffset(sd, f)
  OBVIOUS
<1>23. PICK t : t = Target(MakeChunk(spans, c, sd), pos)
  OBVIOUS
<1>24. t = o + u[q + 1]
  BY <1>1, <1>3, <1>7, <1>9, <1>11, <1>12, <1>14, <1>22, <1>23, TargetStep
<1>25. CASE sd.fixed
  <2>1. o = w[q + 1]
    BY <1>7, <1>9, <1>12, <1>15, <1>22, <1>25, FixedOffset
  <2>2. z[q + 1] = w[q + 1] + u[q + 1]
    <3>1. AddUp(f, y, x, Q, q + 1)
      BY <1>13 DEF AddUp
    <3> QED
      BY <1>4, <1>14, <1>15, <1>16, <3>1, OffsetsAdd
  <2>3. z[q + 1] = z[q] + m * P[m][q]
    BY <1>3, <1>4, <1>10, <1>16, <1>17 DEF IsOffset
  <2>4. B[m] = m * P[m][q]
    <3>1. PICK p : p = P[m][q]
      OBVIOUS
    <3>2. p \in Nat
      BY <1>17, <3>1 DEF IsLayout, IsProducts
    <3>3. ASSUME NEW k \in 0..(R - 1) PROVE P[k][q] = p
      <4>1. PICK s : s = RowShape(sd, m + 1)
        OBVIOUS
      <4>2. RowShape(sd, k + 1) = s
        BY <1>25, <4>1 DEF RowShape
      <4>3. IsProducts(P[m], s, q) /\ IsProducts(P[k], s, q)
        BY <4>1, <4>2 DEF IsLayout
      <4> QED
        BY <1>17, <3>1, <4>3, ProductsAgree
    <3>4. m \in 0..R
      OBVIOUS
    <3>5. SameSize(P, q, R, p)
      BY <3>3 DEF SameSize
    <3>6. B[m] = m * p
      BY <3>2, <3>4, <3>5, FixedBase
    <3> QED
      BY <3>1, <3>6
  <2>5. z[q] \in Nat /\ B[m] \in Nat
    <3>1. m \in 0..R
      OBVIOUS
    <3> QED
      BY <1>17, <1>20, <3>1 DEF IsOffset, IsLayout
  <2>6. t = B[m] + z[q]
    BY <1>24, <2>1, <2>2, <2>3, <2>4, <2>5
  <2> QED
    BY <1>1, <1>3, <1>21, <1>23, <2>6 DEF IsAt
<1>26. CASE ~ sd.fixed
  <2>1. o = B[m] + w[q]
    BY <1>1, <1>3, <1>12, <1>21, <1>22, <1>26, VariableOffset
  <2>2. z[q] = w[q] + u[q]
    <3>1. AddUp(f, y, x, Q, q)
      BY <1>13, <1>19 DEF AddUp
    <3> QED
      BY <1>20, <3>1, OffsetsAdd
  <2>3. u[q + 1] = u[q] + y[q + 1] * Q[q]
    BY <1>4, <1>14, <1>17 DEF IsOffset
  <2>4. y[q + 1] = 0
    BY <1>3, <1>4, <1>5, <1>12, <1>13, <1>26
  <2>5. u[q + 1] = u[q]
    <3>1. Q[q] \in Nat /\ u[q] \in Nat
      BY <1>4, <1>13, <1>17, <1>20 DEF IsOffset
    <3> QED
      BY <2>3, <2>4, <3>1
  <2>6. w[q] \in Nat /\ u[q] \in Nat /\ B[m] \in Nat
    <3>1. m \in 0..R
      OBVIOUS
    <3> QED
      BY <1>17, <1>20, <3>1 DEF IsOffset, IsLayout
  <2>7. t = B[m] + z[q]
    BY <1>24, <2>1, <2>2, <2>5, <2>6
  <2> QED
    BY <1>1, <1>3, <1>21, <1>23, <2>7 DEF IsAt
<1> QED
  BY <1>25, <1>26

-----------------------------------------------------------------------------
(* The chunks of the spans of each dimension *)

\* Spans that hold each place of their dimension at most once
DimsFit(dims, sd, q, R) ==
  /\ dims \in [1..(q + 1) -> Seq(SpanPair)]
  /\ \A d \in 1..(q + 1) : OnceEach(dims[d])
  /\ \A s \in DOMAIN dims[q + 1] : \A i \in 1..Len(dims[q + 1][s].disk) :
       dims[q + 1][s].mem[i] \in 0..(R - 1)
  /\ \A m \in 0..(R - 1) :
       (\E s \in DOMAIN dims[q + 1] : \E i \in 1..Len(dims[q + 1][s].disk) :
          dims[q + 1][s].mem[i] = m) =>
       \A d \in 1..q :
         /\ Total(dims[d]) = RowShape(sd, m + 1)[d]
         /\ \A s \in DOMAIN dims[d] : \A j \in 1..Len(dims[d][s].disk) :
              dims[d][s].mem[j] \in 0..(RowShape(sd, m + 1)[d] - 1)
  /\ ~ sd.fixed => \A s \in DOMAIN dims[q + 1] : Len(dims[q + 1][s].disk) = 1

\* The chunks of a product lie within the result as the spans of its dimensions do
LEMMA ChunkFits ==
  ASSUME NEW sd, NEW q \in Nat, NEW R \in Nat, NEW dims, DimsFit(dims, sd, q, R),
         NEW C, NEW product, ChoicesOf(product, dims, q + 1, C), NEW k \in DOMAIN product
  PROVE  SpansFit(product[k], sd, q, R)
<1>1. PICK spans : spans = product[k]
  OBVIOUS
<1>2. spans \in Seq(SpanPair) /\ Len(spans) = q + 1
  BY <1>1 DEF ChoicesOf
<1>3. \A d \in 1..(q + 1) : \E s \in DOMAIN dims[d] : spans[d] = dims[d][s]
  <2>1. ASSUME NEW d \in 1..(q + 1) PROVE \E s \in DOMAIN dims[d] : spans[d] = dims[d][s]
    <3>1. C[k][d] \in DOMAIN dims[d] /\ spans[d] = dims[d][C[k][d]]
      BY <1>1 DEF ChoicesOf
    <3> QED
      BY <3>1
  <2> QED
    BY <2>1
<1>4. q + 1 \in 1..(q + 1)
  OBVIOUS
<1>5. PICK s \in DOMAIN dims[q + 1] : spans[q + 1] = dims[q + 1][s]
  BY <1>3, <1>4
<1>6. \A i \in 1..Len(spans[q + 1].disk) : spans[q + 1].mem[i] \in 0..(R - 1)
  BY <1>5 DEF DimsFit
<1>7. ~ sd.fixed => Len(spans[q + 1].disk) = 1
  BY <1>5 DEF DimsFit
<1>8. ASSUME NEW m \in 0..(R - 1), HoldsRow(spans, q, m), NEW d \in 1..q,
             NEW j \in 1..Len(spans[d].disk)
      PROVE  spans[d].mem[j] \in 0..(RowShape(sd, m + 1)[d] - 1)
  <2>1. \E i \in 1..Len(dims[q + 1][s].disk) : dims[q + 1][s].mem[i] = m
    BY <1>5, <1>8 DEF HoldsRow
  <2>2. d \in 1..(q + 1)
    OBVIOUS
  <2>3. PICK r \in DOMAIN dims[d] : spans[d] = dims[d][r]
    BY <1>3, <2>2
  <2> QED
    BY <2>1, <2>3 DEF DimsFit
<1>9. SpansFit(spans, sd, q, R)
  BY <1>2, <1>6, <1>7, <1>8 DEF SpansFit
<1> QED
  BY <1>1, <1>9

\* A dimension that is in one piece has the length of the piece
LEMMA TotalOfOne ==
  ASSUME NEW spans \in Seq(SpanPair), Len(spans) = 1 PROVE Total(spans) = Len(spans[1].disk)
<1>1. PICK a : a = [s \in DOMAIN spans |-> Len(spans[s].disk)]
  OBVIOUS
<1>2. a \in [1..1 -> Nat] /\ Total(spans) \in Nat
  BY <1>1, Lengths
<1>3. PICK p : IsSums(p, a, 1) /\ p[1] = Sum(a)
  BY <1>2, SumsExist
<1>4. 1 \in 1..1 /\ 1 \in DOMAIN spans /\ 1 - 1 = 0 /\ 1 \in 0..1
  OBVIOUS
<1>5. p[1] = 0 + a[1]
  BY <1>3, <1>4 DEF IsSums
<1>6. a[1] = Len(spans[1].disk) /\ a[1] \in Nat
  BY <1>1, <1>2, <1>4
<1>7. Total(spans) = Sum(a)
  BY <1>1, Zenon DEF Total
<1>8. PICK e \in Nat : e = a[1]
  BY <1>6
<1>9. p[1] = e
  BY <1>5, <1>8
<1> QED
  BY <1>3, <1>6, <1>7, <1>8, <1>9, Zenon

\* A chunk of undivided dimensions and consecutive rows is contiguous in memory
LEMMA ChunkContiguous ==
  ASSUME NEW sd, NEW q \in Nat, NEW R \in Nat, NEW dims, DimsFit(dims, sd, q, R),
         NEW C, NEW product, ChoicesOf(product, dims, q + 1, C), NEW k \in DOMAIN product,
         SecondaryDimensionsContiguous(dims), IsMemoryContiguous(Last(product[k]))
  PROVE  Contiguous(product[k], sd, q)
<1>1. PICK spans : spans = product[k]
  OBVIOUS
<1>2. spans \in Seq(SpanPair) /\ Len(spans) = q + 1
  BY <1>1 DEF ChoicesOf
<1>3. SpansFit(spans, sd, q, R)
  BY <1>1, ChunkFits
<1>4. IsMemoryContiguous(spans[q + 1])
  BY <1>1, <1>2 DEF Last
<1>5. Len(dims) = q + 1
  <2>1. IsOfLength(dims, q + 1) /\ q + 1 \in Nat
    BY DEF DimsFit, IsOfLength
  <2> QED
    BY <2>1, LengthOf
<1>6. ASSUME NEW d \in 1..q
      PROVE  /\ Len(dims[d]) = 1 /\ spans[d] = dims[d][1] /\ dims[d] \in Seq(SpanPair)
             /\ \A i \in DOMAIN dims[d][1].mem : dims[d][1].mem[i] = i - 1
  <2>1. d \in 1..(q + 1) /\ d \in 1..(Len(dims) - 1)
    BY <1>5
  <2>2. Len(dims[d]) = 1 /\ \A i \in DOMAIN dims[d][1].mem : dims[d][1].mem[i] = i - 1
    BY <2>1 DEF SecondaryDimensionsContiguous
  <2>3. dims[d] \in Seq(SpanPair)
    BY <2>1 DEF DimsFit
  <2>4. C[k][d] \in DOMAIN dims[d] /\ spans[d] = dims[d][C[k][d]]
    BY <1>1, <2>1 DEF ChoicesOf
  <2>5. C[k][d] = 1
    BY <2>2, <2>3, <2>4
  <2> QED
    BY <2>2, <2>3, <2>4, <2>5
<1>7. ASSUME NEW d \in 1..q, NEW i \in 1..Len(spans[d].disk) PROVE spans[d].mem[i] = i - 1
  <2>1. spans[d] \in SpanPair
    BY <1>2
  <2>2. i \in DOMAIN spans[d].mem
    BY <2>1 DEF SpanPair
  <2> QED
    BY <1>6, <2>2
<1>8. ASSUME NEW d \in 1..q, NEW m, HoldsRow(spans, q, m)
      PROVE  Len(spans[d].disk) = RowShape(sd, m + 1)[d]
  <2>1. Total(dims[d]) = Len(spans[d].disk)
    BY <1>6, TotalOfOne
  <2>2. PICK i \in 1..Len(spans[q + 1].disk) : spans[q + 1].mem[i] = m
    BY <1>8 DEF HoldsRow
  <2>3. m \in 0..(R - 1)
    BY <1>3, <2>2 DEF SpansFit
  <2>4. q + 1 \in 1..(q + 1)
    OBVIOUS
  <2>5. C[k][q + 1] \in DOMAIN dims[q + 1] /\ spans[q + 1] = dims[q + 1][C[k][q + 1]]
    BY <1>1, <2>4 DEF ChoicesOf
  <2>6. Total(dims[d]) = RowShape(sd, m + 1)[d]
    BY <2>2, <2>3, <2>5 DEF DimsFit
  <2> QED
    BY <2>1, <2>6
<1>9. Contiguous(spans, sd, q)
  BY <1>4, <1>7, <1>8 DEF Contiguous
<1> QED
  BY <1>1, <1>9

\* A chunk of these spans, which lie within the result
ChunkAt(chunk, spans, sd, q, R) ==
  /\ SpansFit(spans, sd, q, R)
  /\ \E c : chunk = MakeChunk(spans, c, sd) /\ (c => Contiguous(spans, sd, q))

\* The chunks made of a product are those of its choices of spans
LEMMA ChunksOfProduct ==
  ASSUME NEW sd, NEW q \in Nat, NEW R \in Nat, NEW dims, DimsFit(dims, sd, q, R)
  PROVE  \E product, C : /\ product \in Seq(Seq(SpanPair)) /\ product = CartesianProduct(dims)
                         /\ ChoicesOf(product, dims, q + 1, C)
                         /\ DOMAIN ProductChunks(dims, sd) = DOMAIN product
                         /\ \A k \in DOMAIN product :
                              ChunkAt(ProductChunks(dims, sd)[k], product[k], sd, q, R)
<1>1. dims \in [1..(q + 1) -> Seq(SpanPair)] /\ q + 1 \in Nat
  BY DEF DimsFit
<1>2. PICK product \in Seq(Seq(SpanPair)) : product = CartesianProduct(dims)
  BY <1>1, CartesianType
<1>3. PICK C : ChoicesOf(product, dims, q + 1, C)
  <2>1. PICK C : ChoicesOf(CartesianProduct(dims), dims, q + 1, C)
    BY <1>1, CartesianChoices
  <2> QED
    BY <1>2, <2>1
<1>4. PICK second : second = SecondaryDimensionsContiguous(dims)
  OBVIOUS
<1>5. PICK chunks1 : chunks1 = ProductChunks(dims, sd)
  OBVIOUS
<1>6. chunks1 = [k \in DOMAIN product |->
                   MakeChunk(product[k], second /\ IsMemoryContiguous(Last(product[k])), sd)]
  BY <1>2, <1>4, <1>5, Zenon DEF ProductChunks
<1>7. DOMAIN chunks1 = DOMAIN product
  BY <1>6
<1>8. ASSUME NEW k \in DOMAIN product PROVE ChunkAt(chunks1[k], product[k], sd, q, R)
  <2>1. SpansFit(product[k], sd, q, R)
    BY <1>3, ChunkFits
  <2>2. PICK c : c = (second /\ IsMemoryContiguous(Last(product[k])))
    OBVIOUS
  <2>3. chunks1[k] = MakeChunk(product[k], c, sd)
    BY <1>6, <2>2
  <2>4. c => Contiguous(product[k], sd, q)
    BY <1>3, <1>4, <2>2, ChunkContiguous
  <2> QED
    BY <2>1, <2>3, <2>4 DEF ChunkAt
<1> QED
  BY <1>2, <1>3, <1>5, <1>7, <1>8

\* Every element is put at a place that the spans hold
PlaceIn(x, spans, n) == \A d \in 1..n : \E i \in 1..Len(spans[d].disk) : x[d] = spans[d].mem[i]

Placed(t, x, spans, sd, q, R, P, B) ==
  IsPlace(x, sd, q, R) /\ IsAt(t, x, q, P, B) /\ PlaceIn(x, spans, q + 1)

\* Where Targets() has a chunk write an element is the offset of a place that its spans hold
LEMMA TargetPlaced ==
  ASSUME NEW sd, NEW q \in Nat, NEW R \in Nat, NEW P, NEW B, IsLayout(sd, q, R, P, B),
         ShapedAs(sd, q, R), NEW spans, NEW chunk, ChunkAt(chunk, spans, sd, q, R),
         NEW t \in Targets(chunk)
  PROVE  \E x : Placed(t, x, spans, sd, q, R, P, B)
<1>1. PICK c : chunk = MakeChunk(spans, c, sd) /\ (c => Contiguous(spans, sd, q))
  BY DEF ChunkAt
<1>2. SpansFit(spans, sd, q, R)
  BY DEF ChunkAt
<1>3. spans \in Seq(SpanPair) /\ Len(spans) = q + 1 /\ q + 1 \in Nat
  BY <1>2 DEF SpansFit
<1>4. chunk.spans = spans
  BY <1>1, <1>3, ChunkFields
<1>5. PICK pos \in Positions(chunk) : t = Target(chunk, pos)
  BY DEF Targets
<1>6. PosIn(spans, pos, q + 1)
  BY <1>3, <1>4, <1>5, PositionsAre
<1>7. PICK x : x = PlaceOf(spans, pos)
  OBVIOUS
<1>8. IsAt(t, x, q, P, B)
  BY <1>1, <1>2, <1>5, <1>6, <1>7, TargetIs
<1>9. IsPlace(x, sd, q, R) /\ IsPlaceOf(x, spans, pos, q)
  BY <1>2, <1>6, <1>7, PlacesFit, Zenon
<1>10. PlaceIn(x, spans, q + 1)
  <2>1. ASSUME NEW d \in 1..(q + 1) PROVE pos[d] + 1 \in 1..Len(spans[d].disk)
    <3>1. spans[d] \in SpanPair
      BY <1>3
    <3>2. PICK len \in Nat : len = Len(spans[d].disk)
      BY <3>1 DEF SpanPair
    <3>3. pos[d] \in Nat /\ pos[d] < len
      BY <1>6, <3>2 DEF PosIn
    <3> QED
      BY <3>2, <3>3
  <2> QED
    BY <1>9, <2>1 DEF PlaceIn, IsPlaceOf
<1> QED
  BY <1>8, <1>9, <1>10 DEF Placed

\* The chunks of a product have no place in common
LEMMA ProductApart ==
  ASSUME NEW n \in Nat, NEW dims, \A d \in 1..n : OnceEach(dims[d]),
         NEW C, NEW product, ChoicesOf(product, dims, n, C),
         NEW k \in DOMAIN product, NEW l \in DOMAIN product,
         NEW x, NEW y, PlaceIn(x, product[k], n), PlaceIn(y, product[l], n),
         \A d \in 1..n : x[d] = y[d]
  PROVE  k = l
<1>1. ASSUME NEW d \in 1..n PROVE C[k][d] = C[l][d]
  <2>1. PICK a, b : a = C[k][d] /\ b = C[l][d]
    OBVIOUS
  <2>2. a \in DOMAIN dims[d] /\ product[k][d] = dims[d][a]
    BY <2>1 DEF ChoicesOf
  <2>3. b \in DOMAIN dims[d] /\ product[l][d] = dims[d][b]
    BY <2>1 DEF ChoicesOf
  <2>4. PICK i \in 1..Len(dims[d][a].disk) : x[d] = dims[d][a].mem[i]
    BY <2>2 DEF PlaceIn
  <2>5. PICK j \in 1..Len(dims[d][b].disk) : y[d] = dims[d][b].mem[j]
    BY <2>3 DEF PlaceIn
  <2>6. dims[d][a].mem[i] = dims[d][b].mem[j]
    BY <2>4, <2>5
  <2>7. a = b
    BY <2>2, <2>3, <2>4, <2>5, <2>6 DEF OnceEach
  <2> QED
    BY <2>1, <2>7
<1> QED
  BY <1>1 DEF ChoicesOf

\* The number of elements that the spans of all dimensions hold
ProductOfTotals(dims, n) == Product([d \in 1..n |-> Total(dims[d])])

\* The chunks of a product have as many elements as their dimensions have indices, multiplied
LEMMA ElementsOfProduct ==
  ASSUME NEW sd, NEW q \in Nat, NEW R \in Nat, NEW dims, DimsFit(dims, sd, q, R)
  PROVE  NElementsOf(ProductChunks(dims, sd)) = ProductOfTotals(dims, q + 1)
<1>1. PICK product, C : /\ product \in Seq(Seq(SpanPair)) /\ product = CartesianProduct(dims)
                        /\ DOMAIN ProductChunks(dims, sd) = DOMAIN product
                        /\ \A k \in DOMAIN product :
                             ChunkAt(ProductChunks(dims, sd)[k], product[k], sd, q, R)
  BY ChunksOfProduct
<1>2. PICK chunks1 : chunks1 = ProductChunks(dims, sd)
  OBVIOUS
<1>3. PICK W : IsSizes(W)
  BY DEF IsSizes
<1>4. ASSUME NEW k \in DOMAIN product PROVE NElements(chunks1[k]) = W[product[k]]
  <2>1. ChunkAt(chunks1[k], product[k], sd, q, R)
    BY <1>1, <1>2
  <2>2. PICK spans : spans = product[k]
    OBVIOUS
  <2>3. spans \in Seq(SpanPair) /\ Len(spans) = q + 1
    BY <2>1, <2>2 DEF ChunkAt, SpansFit
  <2>4. PICK c : chunks1[k] = MakeChunk(spans, c, sd)
    BY <2>1, <2>2 DEF ChunkAt
  <2>5. chunks1[k].spans = spans
    BY <2>3, <2>4, ChunkFields
  <2>6. NElements(chunks1[k]) = Size(spans)
    BY <2>3, <2>5, SizesOfChunk
  <2>7. W[spans] = Size(spans)
    BY <1>3, <2>3, SizesType
  <2> QED
    BY <2>2, <2>6, <2>7
<1>5. PICK a : a = [k \in DOMAIN product |-> W[product[k]]]
  OBVIOUS
<1>6. [k \in DOMAIN chunks1 |-> NElements(chunks1[k])] = a
  BY <1>1, <1>2, <1>4, <1>5
<1>7. NElementsOf(chunks1) = Sum(a)
  BY <1>6, Zenon DEF NElementsOf
<1>8. Weight(W, product) = Sum(a)
  BY <1>5, Zenon DEF Weight
<1>9. Weight(W, CartesianProduct(dims)) = ProductOfTotals(dims, q + 1)
  <2>1. dims \in [1..(q + 1) -> Seq(SpanPair)] /\ q + 1 \in Nat
    BY DEF DimsFit
  <2>2. PICK n \in Nat : n = q + 1
    BY <2>1
  <2>3. Weight(W, CartesianProduct(dims)) = Product([d \in 1..n |-> Total(dims[d])])
    BY <1>3, <2>1, <2>2, SizeOfProduct
  <2> QED
    BY <2>2, <2>3, Zenon DEF ProductOfTotals
<1> QED
  BY <1>1, <1>2, <1>7, <1>8, <1>9, Zenon

\* The spans of one dimension, of which there are n
LEMMA SubSpansCover ==
  ASSUME NEW pair \in SpanPair, NEW size, Permutes(pair, size), NEW entire
  PROVE  Covers(MakeSubSpans(pair, entire), pair)
BY CutCovers DEF MakeSubSpans, Permutes

\* The spans that MakeFixed() makes chunks of
SpansOf(dims, made, sel, sd, n) ==
  /\ dims \in [1..n -> Seq(SpanPair)] /\ made.chunks = ProductChunks(dims, sd)
  /\ \A d \in 1..n : Covers(dims[d], GetSpanPair(sel, d, n, sd.shape[d]))

\* The span pair of each dimension, the spans it is cut into, and those of the rows split
PairsOf(sel, sd) == [d \in 1..sd.ndim |-> GetSpanPair(sel, d, sd.ndim, sd.shape[d])]
SubSpansOf(sel, sd) == [d \in 1..sd.ndim |-> MakeSubSpans(PairsOf(sel, sd)[d], d = sd.ndim)]
SplitsOf(sel, sd, maxSplits, minBytes) == NSplits(SubSpansOf(sel, sd), maxSplits, minBytes)
SplitRows(sel, sd, maxSplits, minBytes, storage) ==
  IF maxSplits > 1 /\ SplitsOf(sel, sd, maxSplits, minBytes) > 1
  THEN [SubSpansOf(sel, sd) EXCEPT
          ![sd.ndim] = SplitRowSpans(SubSpansOf(sel, sd)[sd.ndim],
                                     SplitsOf(sel, sd, maxSplits, minBytes), storage)]
  ELSE SubSpansOf(sel, sd)

\* MakeFixed() makes chunks of spans that cover each dimension, as split and cut
LEMMA FixedSpans ==
  ASSUME NEW sel \in Seq(Seq(Int)), NEW sd, FixedData(sd),
         NEW maxSplits, NEW minBytes, NEW storage,
         NEW made, made = MakeFixed(sel, sd, maxSplits, minBytes, storage), made.ok
  PROVE  /\ SpansOf(SplitRows(sel, sd, maxSplits, minBytes, storage), made, sel, sd, sd.ndim)
         /\ \A d \in 1..sd.ndim : ~ HasDuplicates(GetSpanPair(sel, d, sd.ndim, sd.shape[d]))
<1> DEFINE n == sd.ndim
           pairs == [d \in 1..n |-> GetSpanPair(sel, d, n, sd.shape[d])]
           dims == [d \in 1..n |-> MakeSubSpans(pairs[d], d = n)]
           nsplits == NSplits(dims, maxSplits, minBytes)
           split == IF maxSplits > 1 /\ nsplits > 1
                    THEN [dims EXCEPT ![n] = SplitRowSpans(dims[n], nsplits, storage)] ELSE dims
           bad == \E d \in 1..n : HasDuplicates(pairs[d])
           result == IF bad THEN Error ELSE [ok |-> TRUE, chunks |-> ProductChunks(split, sd)]
<1>1. made = result
  BY DEF MakeFixed
<1>2. n \in Nat /\ n \in 1..n /\ \A d \in 1..n : sd.shape[d] \in Nat
  BY DEF FixedData
<1>12. split = SplitRows(sel, sd, maxSplits, minBytes, storage)
  BY Zenon DEF SplitRows, SplitsOf, SubSpansOf, PairsOf
<1> HIDE DEF n
<1>4. \A d \in 1..n : pairs[d] = GetSpanPair(sel, d, n, sd.shape[d])
  OBVIOUS
<1>5. ASSUME NEW d \in 1..n PROVE pairs[d] \in SpanPair /\ \E size : Permutes(pairs[d], size)
  <2>1. PICK size \in Nat : size = sd.shape[d]
    BY <1>2
  <2>2. Permutes(GetSpanPair(sel, d, n, size), SpanLength(sel, d, n, size))
    BY <2>1, SpanPairPermutes
  <2>3. Permutes(pairs[d], SpanLength(sel, d, n, size))
    BY <1>4, <2>1, <2>2
  <2>4. pairs[d] \in SpanPair
    BY <2>3 DEF Permutes
  <2> QED
    BY <2>3, <2>4
<1> HIDE DEF pairs
<1>6. dims \in [1..n -> Seq(SpanPair)] /\ \A d \in 1..n : Covers(dims[d], pairs[d])
  <2>1. ASSUME NEW d \in 1..n
        PROVE  MakeSubSpans(pairs[d], d = n) \in Seq(SpanPair) /\ Covers(MakeSubSpans(pairs[d], d = n), pairs[d])
    <3>1. PICK size : Permutes(pairs[d], size)
      BY <1>5
    <3>2. pairs[d] \in SpanPair
      BY <1>5
    <3>3. PICK entire : entire = (d = n)
      OBVIOUS
    <3>4. MakeSubSpans(pairs[d], entire) \in Seq(SpanPair) /\ Covers(MakeSubSpans(pairs[d], entire), pairs[d])
      BY <3>1, <3>2, SubSpansType, SubSpansCover
    <3> QED
      BY <3>3, <3>4
  <2> QED
    BY <2>1
<1> HIDE DEF dims
<1>7. /\ SplitRowSpans(dims[n], nsplits, storage) \in Seq(SpanPair)
      /\ Covers(SplitRowSpans(dims[n], nsplits, storage), pairs[n])
  <2>1. dims[n] \in Seq(SpanPair) /\ Covers(dims[n], pairs[n])
    BY <1>2, <1>6
  <2> QED
    BY <2>1, SplitType, SplitCovers
<1> HIDE DEF nsplits
<1>8. split \in [1..n -> Seq(SpanPair)] /\ \A d \in 1..n : Covers(split[d], pairs[d])
  <2>1. PICK T : T = Seq(SpanPair)
    OBVIOUS
  <2>2. PICK rows \in T : rows = SplitRowSpans(dims[n], nsplits, storage)
    BY <1>7, <2>1
  <2>3. dims \in [1..n -> T] /\ Covers(rows, pairs[n])
    BY <1>6, <1>7, <2>1, <2>2
  <2> HIDE DEF SpanPair
  <2>4. [dims EXCEPT ![n] = rows] \in [1..n -> T]
    BY <2>3
  <2>5. \A d \in 1..n : [dims EXCEPT ![n] = rows][d] = IF d = n THEN rows ELSE dims[d]
    BY <2>3
  <2>6. \A d \in 1..n : Covers([dims EXCEPT ![n] = rows][d], pairs[d])
    BY <1>6, <2>3, <2>5
  <2>7. split = IF maxSplits > 1 /\ nsplits > 1 THEN [dims EXCEPT ![n] = rows] ELSE dims
    BY <2>2
  <2> HIDE DEF split
  <2> QED
    BY <1>6, <2>1, <2>3, <2>4, <2>6, <2>7
<1> HIDE DEF split
<1>9. ~ bad
  <2> HIDE DEF bad
  <2> QED
    BY <1>1 DEF Error
<1>13. \A d \in 1..n : ~ HasDuplicates(GetSpanPair(sel, d, n, sd.shape[d]))
  BY <1>4, <1>9
<1> HIDE DEF bad
<1>10. made.chunks = ProductChunks(split, sd)
  BY <1>1, <1>9
<1>11. SpansOf(split, made, sel, sd, n)
  BY <1>4, <1>8, <1>10 DEF SpansOf
<1> QED
  BY <1>11, <1>12, <1>13 DEF n

\* Spans that hold each of so many places once
Fills(spans, size) ==
  /\ OnceEach(spans) /\ Total(spans) = size
  /\ \A s \in DOMAIN spans : \A i \in 1..Len(spans[s].disk) : spans[s].mem[i] \in 0..(size - 1)

\* Spans that cover a dimension fill it
LEMMA CoversFills ==
  ASSUME NEW spans, NEW pair, NEW size, Permutes(pair, size), Covers(spans, pair)
  PROVE  Fills(spans, size)
<1>1. OnceEach(spans) /\ Total(spans) = size
  BY DEF Covers, Permutes
<1>2. \A s \in DOMAIN spans : \A i \in 1..Len(spans[s].disk) : spans[s].mem[i] \in 0..(size - 1)
  BY CoversPlaces
<1> QED
  BY <1>1, <1>2 DEF Fills

\* Spans that fill each of n dimensions
FillsAll(dims, T, n) ==
  dims \in [1..n -> Seq(SpanPair)] /\ \A d \in 1..n : Fills(dims[d], T[d]) /\ T[d] \in Nat

SameDims(sd, T, q) == \A d \in 1..q : sd.shape[d] = T[d]

\* No two chunks write to an element of the result, and none beyond it
Apart(cs) ==
  \A c \in DOMAIN cs :
    /\ Targets(cs[c]) \subseteq 0..(NElementsOf(cs) - 1)
    /\ \A d \in DOMAIN cs : c # d => Targets(cs[c]) \cap Targets(cs[d]) = {}

\* Where all rows have one shape
LEMMA FixedFit ==
  ASSUME NEW sd, sd.fixed, NEW q \in Nat, NEW T, NEW dims, FillsAll(dims, T, q + 1),
         ShapedAs(sd, q, T[q + 1]), SameDims(sd, T, q)
  PROVE  DimsFit(dims, sd, q, T[q + 1])
<1> USE DEF FillsAll, SameDims
<1>1. q + 1 \in 1..(q + 1) /\ \A d \in 1..q : d \in 1..(q + 1)
  OBVIOUS
<1>2. PICK R \in Nat : R = T[q + 1]
  BY <1>1
<1>3. ASSUME NEW m \in 0..(R - 1), NEW d \in 1..q PROVE RowShape(sd, m + 1)[d] = T[d]
  <2>1. RowShape(sd, m + 1) = Front(sd.shape)
    BY <1>2, RowShapes
  <2>2. Front(sd.shape)[d] = sd.shape[d]
    BY <1>2, FrontFixed
  <2> QED
    BY <2>1, <2>2
<1>4. \A d \in 1..(q + 1) : OnceEach(dims[d])
  BY DEF Fills
<1>5. \A s \in DOMAIN dims[q + 1] : \A i \in 1..Len(dims[q + 1][s].disk) :
        dims[q + 1][s].mem[i] \in 0..(R - 1)
  BY <1>1, <1>2 DEF Fills
<1>6. ASSUME NEW m \in 0..(R - 1), NEW d \in 1..q
      PROVE  /\ Total(dims[d]) = RowShape(sd, m + 1)[d]
             /\ \A s \in DOMAIN dims[d] : \A j \in 1..Len(dims[d][s].disk) :
                  dims[d][s].mem[j] \in 0..(RowShape(sd, m + 1)[d] - 1)
  <2>1. PICK t : t = T[d] /\ RowShape(sd, m + 1)[d] = t
    BY <1>3
  <2>2. Fills(dims[d], t)
    BY <1>1, <2>1
  <2> QED
    BY <2>1, <2>2 DEF Fills
<1>7. DimsFit(dims, sd, q, R)
  BY <1>4, <1>5, <1>6 DEF DimsFit
<1> QED
  BY <1>2, <1>7

\* Every chunk's elements have places of their own
LEMMA ProductDistinct ==
  ASSUME NEW sd, NEW q \in Nat, NEW R \in Nat, NEW P, NEW B, IsLayout(sd, q, R, P, B),
         ShapedAs(sd, q, R), NEW dims, DimsFit(dims, sd, q, R),
         NEW cs, cs = ProductChunks(dims, sd), NEW c \in DOMAIN cs, NEW d \in DOMAIN cs,
         NEW t \in Targets(cs[c]), t \in Targets(cs[d])
  PROVE  c = d
<1>1. PICK product, C : /\ product = CartesianProduct(dims)
                        /\ ChoicesOf(product, dims, q + 1, C)
                        /\ DOMAIN cs = DOMAIN product
                        /\ \A k \in DOMAIN product : ChunkAt(cs[k], product[k], sd, q, R)
  BY ChunksOfProduct
<1>2. ChunkAt(cs[c], product[c], sd, q, R) /\ ChunkAt(cs[d], product[d], sd, q, R)
  BY <1>1
<1>3. PICK x : Placed(t, x, product[c], sd, q, R, P, B)
  BY <1>2, TargetPlaced
<1>4. PICK y : Placed(t, y, product[d], sd, q, R, P, B)
  BY <1>2, TargetPlaced
<1>5. \A e \in 1..(q + 1) : x[e] = y[e]
  BY <1>3, <1>4, AtDistinct DEF Placed
<1>6. q + 1 \in Nat /\ \A e \in 1..(q + 1) : OnceEach(dims[e])
  BY DEF DimsFit
<1>7. PlaceIn(x, product[c], q + 1) /\ PlaceIn(y, product[d], q + 1)
  BY <1>3, <1>4 DEF Placed
<1>8. c \in DOMAIN product /\ d \in DOMAIN product
  BY <1>1
<1> QED
  BY <1>1, <1>5, <1>6, <1>7, <1>8, ProductApart

\* No chunk of a product writes beyond the result
LEMMA ProductWithin ==
  ASSUME NEW sd, NEW q \in Nat, NEW R \in Nat, NEW P, NEW B, IsLayout(sd, q, R, P, B),
         ShapedAs(sd, q, R), NEW dims, DimsFit(dims, sd, q, R),
         NEW cs, cs = ProductChunks(dims, sd), NEW c \in DOMAIN cs, NEW t \in Targets(cs[c])
  PROVE  t \in Nat /\ t < B[R] /\ R > 0
<1>1. PICK product, C : /\ product = CartesianProduct(dims)
                        /\ ChoicesOf(product, dims, q + 1, C)
                        /\ DOMAIN cs = DOMAIN product
                        /\ \A k \in DOMAIN product : ChunkAt(cs[k], product[k], sd, q, R)
  BY ChunksOfProduct
<1>2. ChunkAt(cs[c], product[c], sd, q, R)
  BY <1>1
<1>3. PICK x : Placed(t, x, product[c], sd, q, R, P, B)
  BY <1>2, TargetPlaced
<1>4. IsPlace(x, sd, q, R) /\ IsAt(t, x, q, P, B)
  BY <1>3 DEF Placed
<1>5. x[q + 1] \in 0..(R - 1)
  BY <1>4 DEF IsPlace
<1> QED
  BY <1>4, <1>5, AtInside

\* The chunks of spans that fill the dimensions have as many elements as the result
LEMMA FixedElements ==
  ASSUME NEW sd, sd.fixed, NEW q \in Nat, NEW T, NEW dims, FillsAll(dims, T, q + 1),
         ShapedAs(sd, q, T[q + 1]), SameDims(sd, T, q), T[q + 1] > 0,
         NEW P, NEW B, IsLayout(sd, q, T[q + 1], P, B)
  PROVE  NElementsOf(ProductChunks(dims, sd)) = B[T[q + 1]]
<1>20. /\ dims \in [1..(q + 1) -> Seq(SpanPair)]
       /\ \A d \in 1..(q + 1) : Fills(dims[d], T[d]) /\ T[d] \in Nat
       /\ \A d \in 1..q : sd.shape[d] = T[d]
  BY DEF FillsAll, SameDims
<1>1. q + 1 \in 1..(q + 1) /\ \A d \in 1..q : d \in 1..(q + 1)
  OBVIOUS
<1>2. PICK R \in Nat : R = T[q + 1] /\ R > 0
  BY <1>1, <1>20
<1>3. DimsFit(dims, sd, q, R)
  BY <1>2, FixedFit
<1>4. PICK a : a = [d \in 1..(q + 1) |-> Total(dims[d])]
  OBVIOUS
<1>5. a \in [1..(q + 1) -> Nat] /\ \A d \in 1..(q + 1) : a[d] = T[d]
  BY <1>4, <1>20 DEF Fills
<1>6. NElementsOf(ProductChunks(dims, sd)) = Product(a)
  <2>1. NElementsOf(ProductChunks(dims, sd)) = ProductOfTotals(dims, q + 1)
    BY <1>3, ElementsOfProduct
  <2> QED
    BY <1>4, <2>1, Zenon DEF ProductOfTotals
<1>7. q + 1 \in Nat
  OBVIOUS
<1>8. PICK Q : IsProducts(Q, a, q + 1) /\ Q[q + 1] = Product(a)
  BY <1>5, <1>7, ProductsExist
<1>9. (q + 1) - 1 = q /\ q \in 0..q /\ q \in 0..(q + 1) /\ 0 \in 0..(R - 1)
  BY <1>2
<1>10. Q[q + 1] = Q[q] * R
  BY <1>1, <1>2, <1>5, <1>8, <1>9 DEF IsProducts
<1>11. PICK s : s = RowShape(sd, 0 + 1)
  OBVIOUS
<1>12. IsProducts(P[0], s, q)
  BY <1>2, <1>9, <1>11 DEF IsLayout
<1>13. \A d \in 1..q : s[d] = a[d]
  <2>1. s = Front(sd.shape)
    BY <1>2, <1>11, RowShapes
  <2>2. \A d \in 1..q : Front(sd.shape)[d] = sd.shape[d]
    BY <1>2, FrontFixed
  <2> QED
    BY <1>1, <1>5, <1>20, <2>1, <2>2
<1>14. IsProducts(Q, a, q)
  <2>1. \A d \in 0..q : d \in 0..(q + 1)
    OBVIOUS
  <2>2. \A d \in 1..q : d \in 1..(q + 1)
    OBVIOUS
  <2> QED
    BY <1>8, <2>1, <2>2 DEF IsProducts
<1>15. P[0][q] = Q[q]
  BY <1>9, <1>12, <1>13, <1>14, ProductsAgree
<1>16. PICK p \in Nat : p = Q[q]
  BY <1>8, <1>9 DEF IsProducts
<1>17. SameSize(P, q, R, p)
  <2>1. ASSUME NEW k \in 0..(R - 1) PROVE P[k][q] = p
    <3>1. RowShape(sd, k + 1) = s
      BY <1>11 DEF RowShape
    <3>2. IsProducts(P[k], s, q)
      BY <1>2, <3>1 DEF IsLayout
    <3> QED
      BY <1>9, <1>12, <1>15, <1>16, <3>2, ProductsAgree
  <2> QED
    BY <2>1 DEF SameSize
<1>18. B[R] = R * p
  <2>1. R \in 0..R /\ IsLayout(sd, q, R, P, B)
    BY <1>2
  <2>2. p \in Nat
    BY <1>16
  <2> QED
    BY <1>17, <2>1, <2>2, FixedBase
<1>19. R * p = p * R
  OBVIOUS
<1> QED
  BY <1>2, <1>6, <1>8, <1>10, <1>16, <1>18, <1>19

\* The spans of dimension d are as long as the cells of the result
Suits(sel, d, ndim, size) == SpanLength(sel, d, ndim, size) = size

\* The chunks of a result whose rows have one shape, that of their spans, are apart
LEMMA FixedApart ==
  ASSUME NEW sel \in Seq(Seq(Int)), NEW sd, FixedData(sd),
         \A d \in 1..(sd.ndim - 1) : Suits(sel, d, sd.ndim, sd.shape[d]),
         NEW maxSplits, NEW minBytes, NEW storage,
         NEW made, made = MakeFixed(sel, sd, maxSplits, minBytes, storage), made.ok
  PROVE  Apart(made.chunks)
<1>1. PICK q \in Nat : sd.ndim = q + 1 /\ Len(sd.shape) = q + 1 /\ sd.ndim - 1 = q
  <2>1. sd.ndim \in Nat /\ sd.ndim >= 1
    BY DEF FixedData
  <2>2. sd.ndim - 1 \in Nat /\ (sd.ndim - 1) + 1 = sd.ndim
    BY <2>1
  <2> QED
    BY <2>2 DEF FixedData
<1>2. sd.shape \in Seq(Nat) /\ \A d \in 1..(q + 1) : sd.shape[d] \in Nat
  BY <1>1 DEF FixedData
<1>15. PICK dims : SpansOf(dims, made, sel, sd, q + 1)
  BY <1>1, FixedSpans
<1>3. /\ dims \in [1..(q + 1) -> Seq(SpanPair)] /\ made.chunks = ProductChunks(dims, sd)
      /\ \A d \in 1..(q + 1) : Covers(dims[d], GetSpanPair(sel, d, q + 1, sd.shape[d]))
  BY <1>15 DEF SpansOf
<1>4. PICK T : T = [d \in 1..(q + 1) |-> SpanLength(sel, d, q + 1, sd.shape[d])]
  OBVIOUS
<1>5. ASSUME NEW d \in 1..(q + 1) PROVE Fills(dims[d], T[d]) /\ T[d] \in Nat
  <2>1. PICK size \in Nat : size = sd.shape[d]
    BY <1>2
  <2>2. /\ SpanLength(sel, d, q + 1, size) \in Nat
        /\ Permutes(GetSpanPair(sel, d, q + 1, size), SpanLength(sel, d, q + 1, size))
    BY SpanPairPermutes
  <2>3. T[d] = SpanLength(sel, d, q + 1, size)
    BY <1>4, <2>1
  <2>4. Covers(dims[d], GetSpanPair(sel, d, q + 1, size))
    BY <1>3, <2>1
  <2>5. Fills(dims[d], SpanLength(sel, d, q + 1, size))
    BY <2>2, <2>4, CoversFills
  <2> QED
    BY <2>2, <2>3, <2>5
<1>6. ASSUME NEW d \in 1..q PROVE sd.shape[d] = T[d]
  <2>1. d \in 1..(q + 1) /\ d \in 1..(sd.ndim - 1)
    BY <1>1
  <2> QED
    BY <1>1, <1>4, <2>1 DEF Suits
<1>7. sd.fixed
  BY DEF FixedData
<1>8. PICK R \in Nat : R = T[q + 1]
  <2>1. q + 1 \in 1..(q + 1)
    OBVIOUS
  <2> QED
    BY <1>5, <2>1
<1>9. ShapedAs(sd, q, R)
  BY <1>1, <1>2, <1>7 DEF ShapedAs
<1>16. FillsAll(dims, T, q + 1) /\ SameDims(sd, T, q)
  BY <1>3, <1>5, <1>6 DEF FillsAll, SameDims
<1>10. DimsFit(dims, sd, q, R)
  BY <1>7, <1>8, <1>9, <1>16, FixedFit
<1>11. PICK P, B : IsLayout(sd, q, R, P, B)
  BY <1>9, RowShapes, LayoutExists
<1>12. PICK cs : cs = ProductChunks(dims, sd)
  OBVIOUS
<1>13. ASSUME NEW c \in DOMAIN cs PROVE Targets(cs[c]) \subseteq 0..(NElementsOf(cs) - 1)
  <2> SUFFICES ASSUME NEW t \in Targets(cs[c]) PROVE t \in 0..(NElementsOf(cs) - 1)
    OBVIOUS
  <2>1. t \in Nat /\ t < B[R] /\ R > 0
    BY <1>9, <1>10, <1>11, <1>12, ProductWithin
  <2>2. NElementsOf(cs) = B[R]
    <3>1. T[q + 1] > 0 /\ ShapedAs(sd, q, T[q + 1]) /\ IsLayout(sd, q, T[q + 1], P, B)
      BY <1>8, <1>9, <1>11, <2>1
    <3>2. NElementsOf(ProductChunks(dims, sd)) = B[T[q + 1]]
      BY <1>7, <1>16, <3>1, FixedElements
    <3> QED
      BY <1>8, <1>12, <3>2
  <2>3. B[R] \in Nat
    <3>1. R \in 0..R
      OBVIOUS
    <3> QED
      BY <1>11, <3>1 DEF IsLayout
  <2> QED
    BY <2>1, <2>2, <2>3
<1>14. ASSUME NEW c \in DOMAIN cs, NEW d \in DOMAIN cs, c # d
       PROVE  Targets(cs[c]) \cap Targets(cs[d]) = {}
  BY <1>9, <1>10, <1>11, <1>12, <1>14, ProductDistinct
<1> QED
  BY <1>3, <1>12, <1>13, <1>14 DEF Apart

\* Nothing is read where all rows are negative
LEMMA ZeroFactor ==
  ASSUME NEW n \in Nat, NEW s \in [1..n -> Nat], NEW d \in 1..n, s[d] = 0 PROVE Product(s) = 0
<1>1. PICK p : IsProducts(p, s, n) /\ p[n] = Product(s)
  BY ProductsExist
<1> DEFINE T == {m \in Nat : d + m <= n => p[d + m] = 0}
<1>2. \A m \in 0..n : p[m] \in Nat
  BY <1>1 DEF IsProducts
<1>3. 0 \in T
  <2>1. d - 1 \in 0..n /\ d + 0 = d
    OBVIOUS
  <2>2. PICK e \in Nat : e = p[d - 1]
    BY <1>2, <2>1
  <2>3. p[d] = e * 0
    BY <1>1, <2>2 DEF IsProducts
  <2> QED
    BY <2>1, <2>3
<1>4. ASSUME NEW m \in Nat, m \in T PROVE m + 1 \in T
  <2>1. SUFFICES ASSUME d + (m + 1) <= n PROVE p[d + (m + 1)] = 0
    OBVIOUS
  <2>2. d + (m + 1) \in 1..n /\ (d + (m + 1)) - 1 = d + m
    BY <2>1
  <2>3. p[d + m] = 0
    BY <1>4, <2>1
  <2>4. PICK e \in Nat : e = s[d + (m + 1)]
    BY <2>2
  <2>5. p[d + (m + 1)] = 0 * e
    BY <1>1, <2>2, <2>3, <2>4 DEF IsProducts
  <2> QED
    BY <2>5
<1>5. n - d \in T
  <2> HIDE DEF T
  <2>1. n - d \in Nat
    OBVIOUS
  <2> QED
    BY <1>3, <1>4, <2>1, NumbersOfSet
<1>6. d + (n - d) = n
  OBVIOUS
<1> QED
  BY <1>1, <1>5, <1>6

\* Chunks of negative rows only are apart: they write nothing
LEMMA NegativeApart ==
  ASSUME NEW sel \in Seq(Seq(Int)), NEW sd, FixedData(sd),
         NEW pair, pair = GetSpanPair(sel, sd.ndim, sd.ndim, sd.shape[sd.ndim]),
         \A p \in 1..Len(pair.disk) : pair.disk[p] < 0,
         NEW maxSplits, NEW minBytes, NEW storage,
         NEW made, made = MakeFixed(sel, sd, maxSplits, minBytes, storage), made.ok
  PROVE  Apart(made.chunks)
<1>1. PICK n \in Nat : sd.ndim = n /\ n >= 1
  BY DEF FixedData
<1>10. PICK dims : SpansOf(dims, made, sel, sd, n)
  BY <1>1, FixedSpans
<1>2. /\ dims \in [1..n -> Seq(SpanPair)] /\ made.chunks = ProductChunks(dims, sd)
      /\ \A d \in 1..n : Covers(dims[d], GetSpanPair(sel, d, n, sd.shape[d]))
  BY <1>10 DEF SpansOf
<1>3. n \in 1..n
  BY <1>1
<1>4. Covers(dims[n], pair)
  BY <1>1, <1>2, <1>3
<1>5. PICK product \in Seq(Seq(SpanPair)) : product = CartesianProduct(dims)
  BY <1>2, CartesianType
<1>6. PICK C : ChoicesOf(product, dims, n, C)
  <2>1. PICK C : ChoicesOf(CartesianProduct(dims), dims, n, C)
    BY <1>2, CartesianChoices
  <2> QED
    BY <1>5, <2>1
<1>7. PICK cs : cs = ProductChunks(dims, sd)
  OBVIOUS
<1>8. DOMAIN cs = DOMAIN product /\ \A k \in DOMAIN product : \E c : cs[k] = MakeChunk(product[k], c, sd)
  <2>1. PICK second : second = SecondaryDimensionsContiguous(dims)
    OBVIOUS
  <2>2. cs = [k \in DOMAIN product |->
                MakeChunk(product[k], second /\ IsMemoryContiguous(Last(product[k])), sd)]
    BY <1>5, <1>7, <2>1, Zenon DEF ProductChunks
  <2>3. DOMAIN cs = DOMAIN product
    BY <2>2
  <2>4. ASSUME NEW k \in DOMAIN product PROVE \E c : cs[k] = MakeChunk(product[k], c, sd)
    <3>1. PICK c : c = (second /\ IsMemoryContiguous(Last(product[k])))
      OBVIOUS
    <3>2. cs[k] = MakeChunk(product[k], c, sd)
      BY <2>2, <3>1
    <3> QED
      BY <3>2
  <2> QED
    BY <2>3, <2>4
<1>9. ASSUME NEW k \in DOMAIN cs PROVE Targets(cs[k]) = {}
  <2>1. PICK spans : spans = product[k]
    OBVIOUS
  <2>2. PICK c : cs[k] = MakeChunk(spans, c, sd)
    BY <1>8, <2>1
  <2>3. k \in DOMAIN product
    BY <1>8
  <2>4. spans \in Seq(SpanPair) /\ Len(spans) = n /\ \E s \in DOMAIN dims[n] : spans[n] = dims[n][s]
    <3>1. spans \in Seq(SpanPair) /\ Len(spans) = n
      BY <1>6, <2>1, <2>3 DEF ChoicesOf
    <3>2. C[k][n] \in DOMAIN dims[n] /\ spans[n] = dims[n][C[k][n]]
      BY <1>3, <1>6, <2>1, <2>3 DEF ChoicesOf
    <3> QED
      BY <3>1, <3>2
  <2>5. PICK q \in Nat : n = q + 1
    <3>1. n - 1 \in Nat /\ n = (n - 1) + 1
      BY <1>1
    <3> QED
      BY <3>1
  <2>6. cs[k].spans = spans
    BY <2>2, <2>4, <2>5, ChunkFields
  <2>7. PICK span \in SpanPair : span = spans[n]
    BY <1>3, <2>4
  <2>8. \A i \in 1..Len(span.disk) : span.disk[i] < 0
    <3>1. PICK s \in DOMAIN dims[n] : spans[n] = dims[n][s]
      BY <2>4
    <3>2. ASSUME NEW i \in 1..Len(span.disk) PROVE span.disk[i] < 0
      <4>1. dims[n][s] = span
        BY <2>7, <3>1
      <4>2. \E p \in 1..Len(pair.disk) : dims[n][s].disk[i] = pair.disk[p]
        BY <1>4, <4>1 DEF Covers, AreFrom
      <4> QED
        BY <4>1, <4>2
    <3> QED
      BY <3>2
  <2>9. IsEmpty(cs[k])
    <3>1. PICK disk \in Seq(Int) : disk = span.disk
      BY <2>7 DEF SpanPair
    <3>2. CASE Len(disk) = 0
      <4>1. NElements(cs[k]) = Size(spans)
        BY <2>4, <2>5, <2>6, SizesOfChunk
      <4>2. PICK a : a = [d \in DOMAIN spans |-> Len(spans[d].disk)]
        OBVIOUS
      <4>3. a \in [1..n -> Nat]
        BY <2>4, <4>2, Lengths
      <4>4. a[n] = 0
        BY <1>3, <2>4, <2>7, <3>1, <3>2, <4>2
      <4>5. Product(a) = 0
        BY <1>3, <4>3, <4>4, ZeroFactor
      <4>6. Size(spans) = Product(a)
        BY <4>2, Zenon DEF Size
      <4> QED
        BY <4>1, <4>5, <4>6 DEF IsEmpty
    <3>3. CASE Len(disk) # 0
      <4>1. 1 \in DOMAIN disk /\ 1 \in 1..Len(disk)
        BY <3>3
      <4>2. span.disk[1] < 0 /\ 1 \in DOMAIN span.disk
        BY <2>8, <3>1, <4>1
      <4>3. n \in DOMAIN spans
        BY <1>3, <2>4
      <4> QED
        BY <2>6, <2>7, <4>2, <4>3 DEF IsEmpty
    <3> QED
      BY <3>2, <3>3
  <2> QED
    BY <2>9 DEF Targets
<1> QED
  BY <1>2, <1>7, <1>9 DEF Apart

-----------------------------------------------------------------------------
(* The rows of a result whose cells vary, in the order that they are read *)

\* A sum grows by what one of its terms grows by
LEMMA SumGrows ==
  ASSUME NEW n \in Nat, NEW s \in [1..n -> Nat], NEW t \in [1..n -> Nat], NEW k \in 1..n,
         NEW x \in Nat, t[k] = s[k] + x, \A i \in 1..n : i # k => t[i] = s[i]
  PROVE  Sum(t) = Sum(s) + x
<1>1. PICK p : IsSums(p, s, n) /\ p[n] = Sum(s)
  BY SumsExist
<1>2. PICK r : IsSums(r, t, n) /\ r[n] = Sum(t)
  BY SumsExist
<1> DEFINE T == {m \in Nat : m <= n => r[m] = IF m < k THEN p[m] ELSE p[m] + x}
<1>3. 0 \in T
  <2>1. r[0] = 0 /\ p[0] = 0 /\ 0 < k
    BY <1>1, <1>2 DEF IsSums
  <2> QED
    BY <2>1
<1>4. ASSUME NEW m \in Nat, m \in T PROVE m + 1 \in T
  <2>1. SUFFICES ASSUME m + 1 <= n PROVE r[m + 1] = IF m + 1 < k THEN p[m + 1] ELSE p[m + 1] + x
    OBVIOUS
  <2>2. m + 1 \in 1..n /\ (m + 1) - 1 = m /\ m \in 0..n
    BY <2>1
  <2>3. p[m + 1] = p[m] + s[m + 1] /\ r[m + 1] = r[m] + t[m + 1] /\ p[m] \in Nat
    BY <1>1, <1>2, <2>2 DEF IsSums
  <2>4. PICK a \in Nat : a = s[m + 1]
    BY <2>2
  <2>5. CASE m + 1 = k
    <3>1. r[m] = p[m] /\ t[m + 1] = a + x
      BY <1>4, <2>1, <2>4, <2>5
    <3> QED
      BY <2>3, <2>4, <2>5, <3>1
  <2>6. CASE m + 1 # k
    <3>1. t[m + 1] = a
      BY <2>2, <2>4, <2>6
    <3>2. r[m] = IF m < k THEN p[m] ELSE p[m] + x
      BY <1>4, <2>1
    <3>3. m + 1 < k <=> m < k
      BY <2>6
    <3> QED
      BY <2>3, <2>4, <3>1, <3>2, <3>3
  <2> QED
    BY <2>5, <2>6
<1>5. n \in T
  <2> HIDE DEF T
  <2> QED
    BY <1>3, <1>4, NumbersOfSet
<1>6. ~ (n < k)
  OBVIOUS
<1> QED
  BY <1>1, <1>2, <1>5, <1>6

\* Nothing adds up to nothing
LEMMA SumOfZeros ==
  ASSUME NEW n \in Nat, NEW s \in [1..n -> Nat], \A i \in 1..n : s[i] = 0
  PROVE  Sum(s) = 0
<1>1. PICK p : p = [m \in 0..n |-> 0]
  OBVIOUS
<1>2. p \in [0..n -> Nat] /\ \A m \in 0..n : p[m] = 0
  BY <1>1
<1>3. 0 \in 0..n /\ n \in 0..n /\ \A m \in 1..n : m \in 0..n /\ m - 1 \in 0..n
  OBVIOUS
<1>4. IsSums(p, s, n)
  BY <1>2, <1>3 DEF IsSums
<1> QED
  BY <1>2, <1>3, <1>4, SumIs

\* f visits each row once
IsOrder(f, n) ==
  f \in [1..n -> 0..(n - 1)] /\ \A i, j \in 1..n : f[i] = f[j] => i = j

\* Is row m visited?
Visits(f, n, m) == \E r \in 1..n : f[r] = m

\* Rows visited once each are all visited
LEMMA OrderIsOnto ==
  ASSUME NEW n \in Nat, NEW f, IsOrder(f, n), NEW m \in 0..(n - 1)
  PROVE  Visits(f, n, m)
<1>1. f \in Injection(1..n, 0..(n - 1))
  BY DEF IsOrder, Injection, IsInjective
<1>2. IsFiniteSet(1..n) /\ IsFiniteSet(0..(n - 1))
  BY FS_Interval
<1>3. Cardinality(1..n) = Cardinality(0..(n - 1))
  <2>1. Cardinality(1..n) = IF 1 > n THEN 0 ELSE n - 1 + 1
    BY FS_Interval
  <2>2. Cardinality(0..(n - 1)) = IF 0 > n - 1 THEN 0 ELSE (n - 1) - 0 + 1
    BY FS_Interval
  <2>3. 1 > n <=> 0 > n - 1
    OBVIOUS
  <2>4. n - 1 + 1 = (n - 1) - 0 + 1
    OBVIOUS
  <2> QED
    BY <2>1, <2>2, <2>3, <2>4
<1>4. f \in Surjection(1..n, 0..(n - 1))
  BY <1>1, <1>2, <1>3, FS_Injection
<1> QED
  BY <1>4 DEF Surjection, Visits

\* The sizes of the rows, in any order
InOrder(b, a, f, n) == \A r \in 1..n : b[r] = a[f[r] + 1]

\* The order in which the rows are read is immaterial to their sum
LEMMA SumInOrder ==
  ASSUME NEW n \in Nat, NEW f, IsOrder(f, n), NEW a \in [1..n -> Nat],
         NEW b \in [1..n -> Nat], InOrder(b, a, f, n)
  PROVE  Sum(b) = Sum(a)
<1>1. PICK p : IsSums(p, b, n) /\ p[n] = Sum(b)
  BY SumsExist
<1> DEFINE seen(e) == [m \in 1..n |-> IF \E r \in 1..e : f[r] = m - 1 THEN a[m] ELSE 0]
           T == {e \in Nat : e <= n => Sum(seen(e)) = p[e]}
<1>2. \A e \in Nat : seen(e) \in [1..n -> Nat]
  OBVIOUS
<1>3. 0 \in T
  <2>1. PICK s : s = seen(0)
    OBVIOUS
  <2>2. s \in [1..n -> Nat] /\ \A m \in 1..n : s[m] = 0
    BY <2>1
  <2>3. Sum(s) = 0
    BY <2>2, SumOfZeros
  <2>4. p[0] = 0
    BY <1>1 DEF IsSums
  <2>5. Sum(seen(0)) = 0
    BY <2>1, <2>3
  <2> HIDE DEF seen
  <2> QED
    BY <2>4, <2>5
<1>4. ASSUME NEW e \in Nat, e \in T PROVE e + 1 \in T
  <2>1. SUFFICES ASSUME e + 1 <= n PROVE Sum(seen(e + 1)) = p[e + 1]
    <3> HIDE DEF seen
    <3> QED
      OBVIOUS
  <2>2. PICK s, t : s = seen(e) /\ t = seen(e + 1)
    OBVIOUS
  <2>3. e + 1 \in 1..n /\ (e + 1) - 1 = e /\ e \in 0..n
    BY <2>1
  <2>4. PICK k \in 1..n : k = f[e + 1] + 1 /\ k - 1 = f[e + 1]
    <3>1. f[e + 1] \in 0..(n - 1)
      BY <2>3 DEF IsOrder
    <3>2. f[e + 1] + 1 \in 1..n /\ (f[e + 1] + 1) - 1 = f[e + 1]
      BY <3>1
    <3> QED
      BY <3>2
  <2>5. \A r \in 1..(e + 1) : r \in 1..e \/ r = e + 1
    OBVIOUS
  <2>6. \A r \in 1..e : r \in 1..(e + 1) /\ r \in 1..n /\ r # e + 1
    BY <2>1
  <2>7. ~ \E r \in 1..e : f[r] = k - 1
    BY <2>3, <2>4, <2>6 DEF IsOrder
  <2>8. s[k] = 0 /\ t[k] = a[k]
    <3>1. e + 1 \in 1..(e + 1)
      OBVIOUS
    <3> QED
      BY <2>2, <2>4, <2>7, <3>1
  <2>9. \A m \in 1..n : m # k => t[m] = s[m]
    <3>1. ASSUME NEW m \in 1..n, m # k PROVE t[m] = s[m]
      <4>1. f[e + 1] # m - 1
        BY <2>4, <3>1
      <4>2. (\E r \in 1..(e + 1) : f[r] = m - 1) <=> (\E r \in 1..e : f[r] = m - 1)
        BY <2>5, <2>6, <4>1
      <4> QED
        BY <2>2, <4>2
    <3> QED
      BY <3>1
  <2>10. s \in [1..n -> Nat] /\ t \in [1..n -> Nat]
    BY <2>2
  <2>11. PICK x \in Nat : x = a[k]
    OBVIOUS
  <2>12. t[k] = s[k] + x
    BY <2>8, <2>11
  <2>13. Sum(t) = Sum(s) + x
    BY <2>9, <2>10, <2>12, SumGrows
  <2>14. Sum(s) = p[e]
    <3> HIDE DEF seen
    <3> QED
      BY <1>4, <2>1, <2>2
  <2>15. p[e + 1] = p[e] + x
    <3>1. p[e + 1] = p[e] + b[e + 1]
      BY <1>1, <2>3 DEF IsSums
    <3> QED
      BY <2>3, <2>4, <2>11, <3>1 DEF InOrder
  <2>16. Sum(t) = p[e + 1]
    BY <2>13, <2>14, <2>15
  <2> HIDE DEF seen
  <2> QED
    BY <2>2, <2>16
<1>5. n \in T
  <2> HIDE DEF T
  <2> QED
    BY <1>3, <1>4, NumbersOfSet
<1>6. seen(n) = a
  <2>1. ASSUME NEW m \in 1..n PROVE \E r \in 1..n : f[r] = m - 1
    <3>1. m - 1 \in 0..(n - 1)
      OBVIOUS
    <3>2. Visits(f, n, m - 1)
      BY <3>1, OrderIsOnto
    <3> QED
      BY <3>2 DEF Visits
  <2> QED
    BY <2>1
<1> HIDE DEF seen
<1> QED
  BY <1>1, <1>5, <1>6

\* The spans of the chunks of each row: of the row itself, and of its whole cell
IsRow(dims, m, sd, q) ==
  /\ dims \in [1..(q + 1) -> Seq(SpanPair)]
  /\ Len(dims[q + 1]) = 1 /\ Len(dims[q + 1][1].disk) = 1
  /\ dims[q + 1][1].mem[1] = m
  /\ \A d \in 1..q : Fills(dims[d], RowShape(sd, m + 1)[d])

\* The spans of all rows of the result, in the order that pair reads them
IsRows(D, pair, sd, q, R) ==
  Permutes(pair, R) /\ \A r \in 1..R : IsRow(D[r], pair.mem[r], sd, q)

\* The selection is as long as the cell of each row
SuitsRows(sel, sd, q, R) ==
  \A m \in 0..(R - 1) : \A d \in 1..q : Suits(sel, d, q + 1, RowShape(sd, m + 1)[d])

\* Padded or selected, the spans of a dimension are those of the cell
LEMMA PairFills ==
  ASSUME NEW sel \in Seq(Seq(Int)), NEW d, NEW n, NEW size \in Nat, Suits(sel, d, n, size),
         NEW extent, NEW pair,
         pair = IF extent < size THEN MakeSortedIndices(PaddedIds(size, extent))
                ELSE GetSpanPair(sel, d, n, size)
  PROVE  MakeSubSpans(pair, FALSE) \in Seq(SpanPair) /\ Fills(MakeSubSpans(pair, FALSE), size)
<1>1. Permutes(pair, size)
  <2>1. PICK ids : ids = PaddedIds(size, extent)
    OBVIOUS
  <2>2. ids \in Seq(Int)
    BY <2>1, PaddedType
  <2>3. Len(ids) = size
    <3>1. IsOfLength(ids, size)
      BY <2>1 DEF PaddedIds, IsOfLength
    <3> QED
      BY <3>1, LengthOf
  <2>4. Permutes(MakeSortedIndices(ids), size)
    BY <2>2, <2>3, SortedPermutes
  <2>5. Permutes(GetSpanPair(sel, d, n, size), size)
    BY SpanPairPermutes DEF Suits
  <2>6. CASE extent < size
    BY <2>1, <2>4, <2>6
  <2>7. CASE ~ (extent < size)
    BY <2>5, <2>7
  <2> QED
    BY <2>6, <2>7
<1>2. pair \in SpanPair
  BY <1>1 DEF Permutes
<1>3. Covers(MakeSubSpans(pair, FALSE), pair)
  BY <1>1, <1>2, SubSpansCover
<1>4. Fills(MakeSubSpans(pair, FALSE), size)
  BY <1>1, <1>3, CoversFills
<1> QED
  BY <1>2, <1>4, SubSpansType

\* The chunks of the rows, one row after the other
ChunksOfRows(cs, D, sd, R) == cs = FlattenSeq([r \in 1..R |-> ProductChunks(D[r], sd)])

HasDims(sd, q) == sd.ndim = q + 1

\* MakeVarying() makes the chunks of one row after the other, each row of the result once
LEMMA VaryingRows ==
  ASSUME NEW sel \in Seq(Seq(Int)), NEW sd, NEW q \in Nat, HasDims(sd, q),
         NEW R, R = (IF sd.fixed THEN Last(sd.shape) ELSE Len(sd.rows)), R \in Nat,
         ShapedAs(sd, q, R), RowsMatch(sel, q + 1, R), SuitsRows(sel, sd, q, R),
         MakeVarying(sel, sd).ok
  PROVE  \E D, pair : IsRows(D, pair, sd, q, R) /\ ChunksOfRows(MakeVarying(sel, sd).chunks, D, sd, R)
<1> DEFINE n == sd.ndim
           rowPair == GetSpanPair(sel, n, n, R)
           rowShape(m) == IF sd.fixed THEN Front(sd.shape) ELSE sd.rows[m + 1]
           extent(m, d) == IF sd.extents = <<>> THEN rowShape(m)[d] ELSE sd.extents[m + 1][d]
           pair(m, d) == IF extent(m, d) < rowShape(m)[d]
                         THEN MakeSortedIndices(PaddedIds(rowShape(m)[d], extent(m, d)))
                         ELSE GetSpanPair(sel, d, n, rowShape(m)[d])
           row(r) == [disk |-> <<rowPair.disk[r]>>, mem |-> <<rowPair.mem[r]>>]
           dims(r) == [d \in 1..n |-> IF d = n THEN <<row(r)>>
                                      ELSE MakeSubSpans(pair(rowPair.mem[r], d), FALSE)]
           bad == \/ R = 0
                  \/ \E r \in 1..R, d \in 1..(n - 1) : HasDuplicates(pair(rowPair.mem[r], d))
           D == [r \in 1..R |-> dims(r)]
           chunks_(r) == ProductChunks(dims(r), sd)
           result == IF bad THEN Error
                     ELSE [ok |-> TRUE, chunks |-> FlattenSeq([r \in 1..R |-> chunks_(r)])]
<1>a. MakeVarying(sel, sd) = result
  BY DEF MakeVarying
<1>b. PICK made : made = MakeVarying(sel, sd)
  OBVIOUS
<1>1. made = result /\ made.ok
  BY <1>a, <1>b
<1>2. n = q + 1 /\ n \in Nat /\ n - 1 = q /\ n \in 1..n
  BY DEF HasDims
<1>3. \A m : rowShape(m) = RowShape(sd, m + 1)
  BY DEF RowShape
<1> HIDE DEF n, rowShape
<1>4. Permutes(rowPair, R)
  <2>1. SpanLength(sel, n, n, R) = R
    BY <1>2 DEF SpanLength, RowsMatch
  <2>2. Permutes(GetSpanPair(sel, n, n, R), SpanLength(sel, n, n, R))
    BY SpanPairPermutes
  <2> QED
    BY <2>1, <2>2
<1>5. PICK rp : rp = rowPair
  OBVIOUS
<1>6. rp \in SpanPair /\ Len(rp.disk) = R /\ \A r \in 1..R : rp.mem[r] \in 0..(R - 1)
  BY <1>4, <1>5 DEF Permutes
<1> HIDE DEF rowPair
<1>7. ASSUME NEW m \in 0..(R - 1), NEW d \in 1..q
      PROVE  /\ MakeSubSpans(pair(m, d), FALSE) \in Seq(SpanPair)
             /\ Fills(MakeSubSpans(pair(m, d), FALSE), RowShape(sd, m + 1)[d])
  <2>1. PICK size : size = rowShape(m)[d]
    OBVIOUS
  <2>2. size = RowShape(sd, m + 1)[d]
    BY <1>3, <2>1
  <2>3. size \in Nat
    <3>1. PICK s : s = RowShape(sd, m + 1)
      OBVIOUS
    <3>2. s \in Seq(Nat) /\ Len(s) = q
      BY <3>1, RowShapes
    <3> QED
      BY <2>2, <3>1, <3>2
  <2>4. Suits(sel, d, n, size)
    BY <1>2, <2>2 DEF SuitsRows
  <2>5. PICK e : e = extent(m, d)
    OBVIOUS
  <2>6. PICK p : p = pair(m, d)
    OBVIOUS
  <2> HIDE DEF extent
  <2>7. p = IF e < size THEN MakeSortedIndices(PaddedIds(size, e)) ELSE GetSpanPair(sel, d, n, size)
    BY <2>1, <2>5, <2>6
  <2> HIDE DEF pair
  <2>8. MakeSubSpans(p, FALSE) \in Seq(SpanPair) /\ Fills(MakeSubSpans(p, FALSE), size)
    BY <2>3, <2>4, <2>7, PairFills
  <2> QED
    BY <2>2, <2>6, <2>8
<1> HIDE DEF pair
<1>8. ASSUME NEW r \in 1..R
      PROVE  IsRow(dims(r), rp.mem[r], sd, q)
  <2>1. rp.disk[r] \in Int /\ rp.mem[r] \in Int
    BY <1>6 DEF SpanPair
  <2>2. PICK a \in Int, b \in Int : a = rp.disk[r] /\ b = rp.mem[r]
    BY <2>1
  <2>3. PICK one : one = [disk |-> <<a>>, mem |-> <<b>>]
    OBVIOUS
  <2>4. row(r) = one
    BY <1>5, <2>2, <2>3
  <2>5. one \in SpanPair /\ Len(one.disk) = 1 /\ one.mem[1] = b
    BY <2>3 DEF SpanPair
  <2>6. PICK ones : ones = <<one>>
    OBVIOUS
  <2>7. ones \in Seq(SpanPair) /\ Len(ones) = 1 /\ ones[1] = one
    <3> HIDE DEF SpanPair
    <3> QED
      BY <2>5, <2>6
  <2>8. dims(r) = [d \in 1..n |-> IF d = n THEN ones ELSE MakeSubSpans(pair(rp.mem[r], d), FALSE)]
    BY <1>5, <2>4, <2>6
  <2>9. \A d \in 1..n : d # n => d \in 1..q
    BY <1>2
  <2>10. dims(r)[n] = ones
    BY <1>2, <2>8
  <2>11. ASSUME NEW d \in 1..q
         PROVE  /\ dims(r)[d] = MakeSubSpans(pair(rp.mem[r], d), FALSE) /\ dims(r)[d] \in Seq(SpanPair)
                /\ Fills(dims(r)[d], RowShape(sd, rp.mem[r] + 1)[d])
    <3>1. d \in 1..n /\ d # n
      BY <1>2
    <3>2. dims(r)[d] = MakeSubSpans(pair(rp.mem[r], d), FALSE)
      BY <2>8, <3>1
    <3>3. PICK m \in 0..(R - 1) : m = rp.mem[r]
      BY <1>6
    <3> HIDE DEF dims
    <3> QED
      BY <1>7, <3>2, <3>3
  <2>12. DOMAIN dims(r) = 1..n /\ dims(r) = [d \in 1..n |-> dims(r)[d]]
    OBVIOUS
  <2> HIDE DEF dims
  <2>13. PICK S : S = Seq(SpanPair)
    OBVIOUS
  <2>14. \A d \in 1..n : dims(r)[d] \in S
    BY <2>7, <2>9, <2>10, <2>11, <2>13
  <2>15. dims(r) \in [1..n -> S]
    BY <2>12, <2>14
  <2>16. PICK m : m = rp.mem[r]
    OBVIOUS
  <2>17. dims(r) \in [1..(q + 1) -> Seq(SpanPair)]
    BY <1>2, <2>13, <2>15
  <2>18. Len(dims(r)[q + 1]) = 1 /\ Len(dims(r)[q + 1][1].disk) = 1 /\ dims(r)[q + 1][1].mem[1] = m
    BY <1>2, <2>2, <2>5, <2>7, <2>10, <2>16
  <2>19. \A d \in 1..q : Fills(dims(r)[d], RowShape(sd, m + 1)[d])
    BY <2>11, <2>16
  <2>20. IsRow(dims(r), m, sd, q)
    BY <2>17, <2>18, <2>19 DEF IsRow
  <2> QED
    BY <2>16, <2>20
<1>9. ~ bad
  <2> HIDE DEF bad, chunks_
  <2> QED
    BY <1>1 DEF Error
<1> HIDE DEF bad
<1>10. \A r \in 1..R : D[r] = dims(r)
  OBVIOUS
<1>11. ChunksOfRows(made.chunks, D, sd, R)
  <2>1. made.chunks = FlattenSeq([r \in 1..R |-> ProductChunks(dims(r), sd)])
    BY <1>1, <1>9
  <2> HIDE DEF dims
  <2>2. [r \in 1..R |-> ProductChunks(dims(r), sd)] = [r \in 1..R |-> ProductChunks(D[r], sd)]
    BY <1>10
  <2> HIDE DEF D
  <2> QED
    BY <2>1, <2>2, Zenon DEF ChunksOfRows
<1> HIDE DEF dims
<1>12. IsRows(D, rp, sd, q, R)
  <2> HIDE DEF D
  <2>1. Permutes(rp, R)
    BY <1>4, <1>5
  <2>2. ASSUME NEW r \in 1..R
        PROVE  IsRow(D[r], rp.mem[r], sd, q)
    BY <1>8, <1>10
  <2> QED
    BY <2>1, <2>2 DEF IsRows
<1> HIDE DEF D
<1> QED
  BY <1>11, <1>12, <1>b

\* The chunks of a row hold each of its places once
LEMMA RowFits ==
  ASSUME NEW sd, NEW q \in Nat, NEW R \in Nat, NEW m \in 0..(R - 1), NEW dims, IsRow(dims, m, sd, q)
  PROVE  DimsFit(dims, sd, q, R)
<1>1. PICK row : row = dims[q + 1]
  OBVIOUS
<1>2. row \in Seq(SpanPair) /\ dims \in [1..(q + 1) -> Seq(SpanPair)]
  <2>1. q + 1 \in 1..(q + 1)
    OBVIOUS
  <2>2. PICK S : S = Seq(SpanPair)
    OBVIOUS
  <2>3. dims \in [1..(q + 1) -> S]
    BY <2>2 DEF IsRow
  <2>4. row \in S
    BY <1>1, <2>1, <2>3
  <2> QED
    BY <2>2, <2>3, <2>4
<1>3. Len(row) = 1 /\ Len(row[1].disk) = 1 /\ row[1].mem[1] = m
  BY <1>1 DEF IsRow
<1>4. \A d \in 1..q : Fills(dims[d], RowShape(sd, m + 1)[d])
  BY DEF IsRow
<1>5. DOMAIN row = {1}
  <2> HIDE DEF SpanPair
  <2>1. DOMAIN row = 1..Len(row)
    BY <1>2
  <2> QED
    BY <1>3, <2>1
<1>6. \A s \in DOMAIN row : \A i \in 1..Len(row[s].disk) : s = 1 /\ i = 1 /\ row[s].mem[i] = m
  <2>1. TAKE s \in DOMAIN row
  <2>2. s = 1
    BY <1>5
  <2>3. PICK n : n = Len(row[s].disk)
    OBVIOUS
  <2>4. n = 1
    BY <1>3, <2>2, <2>3
  <2>5. \A i \in 1..n : i = 1
    BY <2>4
  <2> QED
    BY <1>3, <2>2, <2>3, <2>5
<1>7. OnceEach(row)
  BY <1>6 DEF OnceEach
<1>8. \A d \in 1..(q + 1) : OnceEach(dims[d])
  <2>1. TAKE d \in 1..(q + 1)
  <2>2. CASE d = q + 1
    BY <1>1, <1>7, <2>2
  <2>3. CASE d # q + 1
    <3>1. d \in 1..q
      BY <2>3
    <3> QED
      BY <1>4, <3>1 DEF Fills
  <2> QED
    BY <2>2, <2>3
<1>9. \A s \in DOMAIN row : \A i \in 1..Len(row[s].disk) : row[s].mem[i] \in 0..(R - 1)
  BY <1>6
<1>10. ASSUME NEW k \in 0..(R - 1),
              \E s \in DOMAIN row : \E i \in 1..Len(row[s].disk) : row[s].mem[i] = k,
              NEW d \in 1..q
       PROVE  /\ Total(dims[d]) = RowShape(sd, k + 1)[d]
              /\ \A s \in DOMAIN dims[d] : \A j \in 1..Len(dims[d][s].disk) :
                   dims[d][s].mem[j] \in 0..(RowShape(sd, k + 1)[d] - 1)
  <2>1. k = m
    BY <1>6, <1>10
  <2>2. PICK size : size = RowShape(sd, m + 1)[d]
    OBVIOUS
  <2>3. Fills(dims[d], size)
    BY <1>4, <2>2
  <2> QED
    BY <2>1, <2>2, <2>3 DEF Fills
<1>11. \A s \in DOMAIN row : Len(row[s].disk) = 1
  BY <1>3, <1>5
<1> QED
  BY <1>1, <1>2, <1>8, <1>9, <1>10, <1>11 DEF DimsFit

\* They have as many elements as the row
LEMMA RowElements ==
  ASSUME NEW sd, NEW q \in Nat, NEW R \in Nat, ShapedAs(sd, q, R),
         NEW P, NEW B, IsLayout(sd, q, R, P, B),
         NEW m \in 0..(R - 1), NEW dims, IsRow(dims, m, sd, q)
  PROVE  NElementsOf(ProductChunks(dims, sd)) = P[m][q] /\ P[m][q] \in Nat
<1>1. DimsFit(dims, sd, q, R)
  BY RowFits
<1>2. NElementsOf(ProductChunks(dims, sd)) = ProductOfTotals(dims, q + 1)
  BY <1>1, ElementsOfProduct
<1>3. PICK s : s = RowShape(sd, m + 1)
  OBVIOUS
<1>4. s \in Seq(Nat) /\ Len(s) = q /\ IsProducts(P[m], s, q)
  BY <1>3 DEF IsLayout
<1>5. PICK a : a = [d \in 1..(q + 1) |-> Total(dims[d])]
  OBVIOUS
<1>6. q + 1 \in 1..(q + 1) /\ \A d \in 1..q : d \in 1..(q + 1)
  OBVIOUS
<1>7. \A d \in 1..q : a[d] = s[d] /\ a[d] \in Nat
  <2>1. TAKE d \in 1..q
  <2>2. Fills(dims[d], s[d])
    BY <1>3 DEF IsRow
  <2>3. a[d] = Total(dims[d])
    BY <1>5, <1>6
  <2>4. Total(dims[d]) = s[d]
    BY <2>2 DEF Fills
  <2>5. s[d] \in Nat
    BY <1>4
  <2> QED
    BY <2>3, <2>4, <2>5
<1>8. a[q + 1] = 1
  <2>1. PICK row : row = dims[q + 1]
    OBVIOUS
  <2>2. row \in Seq(SpanPair)
    <3>1. PICK S : S = Seq(SpanPair)
      OBVIOUS
    <3>2. dims \in [1..(q + 1) -> S]
      BY <3>1 DEF IsRow
    <3> QED
      BY <1>6, <2>1, <3>1, <3>2
  <2>3. Len(row) = 1 /\ Len(row[1].disk) = 1
    BY <2>1 DEF IsRow
  <2>4. Total(row) = Len(row[1].disk)
    BY <2>2, <2>3, TotalOfOne
  <2> QED
    BY <1>5, <1>6, <2>1, <2>3, <2>4
<1>9. a \in [1..(q + 1) -> Nat]
  <2>1. \A d \in 1..(q + 1) : a[d] \in Nat
    <3>1. \A d \in 1..(q + 1) : d \in 1..q \/ d = q + 1
      OBVIOUS
    <3> QED
      BY <1>7, <1>8, <3>1
  <2> QED
    BY <1>5, <2>1
<1>10. PICK Q : IsProducts(Q, a, q + 1) /\ Q[q + 1] = Product(a)
  <2>1. q + 1 \in Nat
    OBVIOUS
  <2> QED
    BY <1>9, <2>1, ProductsExist
<1>11. (q + 1) - 1 = q /\ q \in 0..q /\ q \in 0..(q + 1)
  OBVIOUS
<1>12. IsProducts(Q, a, q)
  <2>1. \A d \in 0..q : d \in 0..(q + 1)
    OBVIOUS
  <2> QED
    BY <1>6, <1>10, <2>1 DEF IsProducts
<1>13. Q[q] = P[m][q]
  BY <1>4, <1>7, <1>11, <1>12, ProductsAgree
<1>14. Q[q] \in Nat /\ Q[q + 1] = Q[q] * 1
  BY <1>6, <1>8, <1>10, <1>11 DEF IsProducts
<1>15. Product(a) = P[m][q] /\ P[m][q] \in Nat
  BY <1>10, <1>13, <1>14
<1>16. NElementsOf(ProductChunks(dims, sd)) = Product(a)
  BY <1>2, <1>5, Zenon DEF ProductOfTotals
<1> QED
  BY <1>15, <1>16

IsRowOf(D, pair, sd, q, r, m) == m = pair.mem[r] /\ IsRow(D[r], m, sd, q)

\* The rows are those of the result, in some order
LEMMA RowOf ==
  ASSUME NEW sd, NEW q \in Nat, NEW R \in Nat, NEW D, NEW pair, IsRows(D, pair, sd, q, R),
         NEW r \in 1..R
  PROVE  \E m \in 0..(R - 1) : IsRowOf(D, pair, sd, q, r, m)
<1>1. pair.mem[r] \in 0..(R - 1) /\ IsRow(D[r], pair.mem[r], sd, q)
  BY DEF IsRows, Permutes
<1> QED
  BY <1>1 DEF IsRowOf

\* Which row, and which chunk of it, each chunk is
LEMMA RowPlaces ==
  ASSUME NEW sd, NEW q \in Nat, NEW R \in Nat, NEW D, NEW pair, IsRows(D, pair, sd, q, R),
         NEW cs, ChunksOfRows(cs, D, sd, R)
  PROVE  \E ss \in Seq(Seq(ChunksOf(sd))) : \E A, B :
           /\ cs = FlattenSeq(ss) /\ PlacesOf(cs, ss, A, B)
           /\ DOMAIN ss = 1..R /\ \A r \in 1..R : ss[r] = ProductChunks(D[r], sd)
<1>1. PICK ss : ss = [r \in 1..R |-> ProductChunks(D[r], sd)]
  OBVIOUS
<1>2. PICK S : S = ChunksOf(sd)
  OBVIOUS
<1>3. PICK T : T = Seq(S)
  OBVIOUS
<1>4. \A r \in 1..R : ss[r] \in T
  <2>1. TAKE r \in 1..R
  <2>2. D[r] \in [1..(q + 1) -> Seq(SpanPair)] /\ q + 1 \in Nat
    BY DEF IsRows, IsRow
  <2>3. ProductChunks(D[r], sd) \in Seq(ChunksOf(sd))
    BY <2>2, ProductChunksType
  <2> QED
    BY <1>1, <1>2, <1>3, <2>3
<1>5. ss \in [1..R -> T]
  BY <1>1, <1>4
<1>6. ss \in Seq(T)
  BY <1>5
<1>7. ss \in Seq(Seq(S))
  BY <1>3, <1>6
<1>8. PICK A, B : PlacesOf(FlattenSeq(ss), ss, A, B)
  BY <1>7, FlattenPlaces
<1>9. cs = FlattenSeq(ss)
  BY <1>1, Zenon DEF ChunksOfRows
<1>10. PlacesOf(cs, ss, A, B)
  BY <1>8, <1>9
<1>11. DOMAIN ss = 1..R /\ \A r \in 1..R : ss[r] = ProductChunks(D[r], sd)
  BY <1>1
<1>12. ss \in Seq(Seq(ChunksOf(sd)))
  BY <1>2, <1>7
<1> QED
  BY <1>9, <1>10, <1>11, <1>12

\* Each chunk is of a row
ChunkOfRow(cs, D, pair, sd, q, R, k, r, j, m) ==
  /\ r \in 1..R /\ m \in 0..(R - 1) /\ IsRowOf(D, pair, sd, q, r, m)
  /\ j \in DOMAIN ProductChunks(D[r], sd) /\ cs[k] = ProductChunks(D[r], sd)[j]

\* An element of a row is put in the row, where no element of another of its chunks is put
LEMMA RowTargets ==
  ASSUME NEW sd, NEW q \in Nat, NEW R \in Nat, NEW P, NEW B, IsLayout(sd, q, R, P, B),
         ShapedAs(sd, q, R), NEW m \in 0..(R - 1), NEW dims, IsRow(dims, m, sd, q),
         NEW j \in DOMAIN ProductChunks(dims, sd), NEW t \in Targets(ProductChunks(dims, sd)[j])
  PROVE  \E x : IsPlace(x, sd, q, R) /\ IsAt(t, x, q, P, B) /\ x[q + 1] = m
<1>1. DimsFit(dims, sd, q, R)
  BY RowFits
<1>2. PICK product, C : /\ product \in Seq(Seq(SpanPair)) /\ product = CartesianProduct(dims)
                        /\ ChoicesOf(product, dims, q + 1, C)
                        /\ DOMAIN ProductChunks(dims, sd) = DOMAIN product
                        /\ \A k \in DOMAIN product :
                             ChunkAt(ProductChunks(dims, sd)[k], product[k], sd, q, R)
  BY <1>1, ChunksOfProduct
<1>3. PICK chunk : chunk = ProductChunks(dims, sd)[j]
  OBVIOUS
<1>4. PICK spans : spans = product[j]
  OBVIOUS
<1>5. ChunkAt(chunk, spans, sd, q, R) /\ t \in Targets(chunk)
  BY <1>2, <1>3, <1>4
<1>6. PICK x : Placed(t, x, spans, sd, q, R, P, B)
  BY <1>5, TargetPlaced
<1>7. IsPlace(x, sd, q, R) /\ IsAt(t, x, q, P, B) /\ PlaceIn(x, spans, q + 1)
  BY <1>6 DEF Placed
<1>8. q + 1 \in 1..(q + 1)
  OBVIOUS
<1>9. PICK i \in 1..Len(spans[q + 1].disk) : x[q + 1] = spans[q + 1].mem[i]
  BY <1>7, <1>8 DEF PlaceIn
<1>10. C[j][q + 1] \in DOMAIN dims[q + 1] /\ spans[q + 1] = dims[q + 1][C[j][q + 1]]
  BY <1>2, <1>4, <1>8 DEF ChoicesOf
<1>11. PICK row : row = dims[q + 1]
  OBVIOUS
<1>12. row \in Seq(SpanPair)
  <2>1. PICK S : S = Seq(SpanPair)
    OBVIOUS
  <2>2. dims \in [1..(q + 1) -> S]
    BY <2>1 DEF IsRow
  <2> QED
    BY <1>8, <1>11, <2>1, <2>2
<1>13. Len(row) = 1 /\ Len(row[1].disk) = 1 /\ row[1].mem[1] = m
  BY <1>11 DEF IsRow
<1>14. DOMAIN row = {1}
  <2> HIDE DEF SpanPair
  <2>1. DOMAIN row = 1..Len(row)
    BY <1>12
  <2> QED
    BY <1>13, <2>1
<1>15. spans[q + 1] = row[1]
  BY <1>10, <1>11, <1>14
<1>16. i = 1
  <2>1. Len(spans[q + 1].disk) = 1
    BY <1>13, <1>15
  <2>2. PICK n : n = Len(spans[q + 1].disk)
    OBVIOUS
  <2>3. i \in 1..n /\ n = 1
    BY <2>1, <2>2
  <2> QED
    BY <2>3
<1>17. x[q + 1] = m
  BY <1>9, <1>13, <1>15, <1>16
<1> QED
  BY <1>7, <1>17

\* The chunks of the rows have no place in common
LEMMA RowsDistinct ==
  ASSUME NEW sd, NEW q \in Nat, NEW R \in Nat, NEW P, NEW B, IsLayout(sd, q, R, P, B),
         ShapedAs(sd, q, R), NEW D, NEW pair, IsRows(D, pair, sd, q, R),
         NEW cs, ChunksOfRows(cs, D, sd, R), NEW c \in DOMAIN cs, NEW d \in DOMAIN cs,
         NEW t \in Targets(cs[c]), t \in Targets(cs[d])
  PROVE  c = d /\ t \in Nat /\ t < B[R]
<1>0. PICK ss \in Seq(Seq(ChunksOf(sd))) : \E X, Y :
         /\ PlacesOf(cs, ss, X, Y) /\ DOMAIN ss = 1..R
         /\ \A r \in 1..R : ss[r] = ProductChunks(D[r], sd)
  BY RowPlaces
<1>1. PICK X, Y :
         /\ PlacesOf(cs, ss, X, Y) /\ DOMAIN ss = 1..R
         /\ \A r \in 1..R : ss[r] = ProductChunks(D[r], sd)
  BY <1>0
<1>2. /\ X[c] \in 1..R /\ Y[c] \in DOMAIN ProductChunks(D[X[c]], sd)
      /\ cs[c] = ProductChunks(D[X[c]], sd)[Y[c]]
      /\ X[d] \in 1..R /\ Y[d] \in DOMAIN ProductChunks(D[X[d]], sd)
      /\ cs[d] = ProductChunks(D[X[d]], sd)[Y[d]]
      /\ X[c] = X[d] /\ Y[c] = Y[d] => c = d
  <2>1. X[c] \in DOMAIN ss /\ Y[c] \in DOMAIN ss[X[c]] /\ cs[c] = ss[X[c]][Y[c]]
    BY <1>1 DEF PlacesOf
  <2>2. X[d] \in DOMAIN ss /\ Y[d] \in DOMAIN ss[X[d]] /\ cs[d] = ss[X[d]][Y[d]]
    BY <1>1 DEF PlacesOf
  <2>3. X[c] = X[d] /\ Y[c] = Y[d] => c = d
    BY <1>1 DEF PlacesOf
  <2> QED
    BY <1>1, <2>1, <2>2, <2>3
<1>3. PICK a \in 1..R, b \in 1..R : a = X[c] /\ b = X[d]
  BY <1>2
<1>4. PICK i, j : i = Y[c] /\ j = Y[d]
  OBVIOUS
<1>5. PICK m \in 0..(R - 1) : IsRowOf(D, pair, sd, q, a, m)
  BY RowOf
<1>6. PICK n \in 0..(R - 1) : IsRowOf(D, pair, sd, q, b, n)
  BY RowOf
<1>7. IsRow(D[a], m, sd, q) /\ IsRow(D[b], n, sd, q) /\ pair.mem[a] = m /\ pair.mem[b] = n
  BY <1>5, <1>6 DEF IsRowOf
<1>8. PICK da, db : da = D[a] /\ db = D[b]
  OBVIOUS
<1>9. /\ i \in DOMAIN ProductChunks(da, sd) /\ t \in Targets(ProductChunks(da, sd)[i])
      /\ j \in DOMAIN ProductChunks(db, sd) /\ t \in Targets(ProductChunks(db, sd)[j])
  BY <1>2, <1>3, <1>4, <1>8
<1>10. PICK x : IsPlace(x, sd, q, R) /\ IsAt(t, x, q, P, B) /\ x[q + 1] = m
  BY <1>7, <1>8, <1>9, RowTargets
<1>11. PICK y : IsPlace(y, sd, q, R) /\ IsAt(t, y, q, P, B) /\ y[q + 1] = n
  BY <1>7, <1>8, <1>9, RowTargets
<1>12. m = n
  <2>1. \A e \in 1..(q + 1) : x[e] = y[e]
    BY <1>10, <1>11, AtDistinct
  <2>2. q + 1 \in 1..(q + 1)
    OBVIOUS
  <2> QED
    BY <1>10, <1>11, <2>1, <2>2
<1>13. a = b
  <2>1. Distinct(pair) /\ Len(pair.disk) = R
    BY DEF IsRows, Permutes
  <2>2. a \in 1..Len(pair.disk) /\ b \in 1..Len(pair.disk)
    BY <2>1
  <2> QED
    BY <1>7, <1>12, <2>1, <2>2 DEF Distinct
<1>14. i = j
  <2>1. DimsFit(da, sd, q, R)
    BY <1>7, <1>8, RowFits
  <2>2. PICK chunks1 : chunks1 = ProductChunks(da, sd)
    OBVIOUS
  <2>3. /\ i \in DOMAIN chunks1 /\ t \in Targets(chunks1[i])
        /\ j \in DOMAIN chunks1 /\ t \in Targets(chunks1[j])
    BY <1>8, <1>9, <1>13, <2>2
  <2> QED
    BY <2>1, <2>2, <2>3, ProductDistinct
<1>15. c = d
  BY <1>2, <1>3, <1>4, <1>13, <1>14
<1> QED
  BY <1>10, <1>15, AtInside

\* They are as many as the result has
LEMMA RowsElements ==
  ASSUME NEW sd, NEW q \in Nat, NEW R \in Nat, NEW P, NEW B, IsLayout(sd, q, R, P, B),
         ShapedAs(sd, q, R), NEW D, NEW pair, IsRows(D, pair, sd, q, R),
         NEW cs, ChunksOfRows(cs, D, sd, R)
  PROVE  NElementsOf(cs) = B[R]
<1>0. PICK ss \in Seq(Seq(ChunksOf(sd))) : \E X, Y :
         /\ cs = FlattenSeq(ss) /\ PlacesOf(cs, ss, X, Y)
         /\ DOMAIN ss = 1..R /\ \A r \in 1..R : ss[r] = ProductChunks(D[r], sd)
  BY RowPlaces
<1>1. PICK X, Y :
         /\ cs = FlattenSeq(ss) /\ PlacesOf(cs, ss, X, Y)
         /\ DOMAIN ss = 1..R /\ \A r \in 1..R : ss[r] = ProductChunks(D[r], sd)
  BY <1>0
<1>2. PICK S : S = ChunksOf(sd)
  OBVIOUS
<1>3. PICK W : W = [chunk \in S |-> NElements(chunk)]
  OBVIOUS
<1>4. W \in [S -> Nat] /\ \A chunk \in S : W[chunk] = NElements(chunk)
  <2>1. \A chunk \in S : NElements(chunk) \in Nat
    BY <1>2, ElementsOfChunk
  <2> QED
    BY <1>3, <2>1
<1>5. ss \in Seq(Seq(S))
  BY <1>1, <1>2
<1>6. ASSUME NEW s, s \in Seq(S) PROVE Weight(W, s) = NElementsOf(s)
  <2>1. PICK a : a = [k \in DOMAIN s |-> W[s[k]]]
    OBVIOUS
  <2>2. \A k \in DOMAIN s : s[k] \in S
    BY <1>6
  <2>3. [k \in DOMAIN s |-> NElements(s[k])] = a
    BY <1>4, <2>1, <2>2
  <2>4. NElementsOf(s) = Sum(a)
    BY <2>3, Zenon DEF NElementsOf
  <2>5. Weight(W, s) = Sum(a)
    BY <2>1, Zenon DEF Weight
  <2> QED
    BY <2>4, <2>5
<1>7. PICK b : b = [r \in DOMAIN ss |-> Weight(W, ss[r])]
  OBVIOUS
<1>8. Weight(W, cs) = Sum(b)
  <2>1. Weight(W, FlattenSeq(ss)) = Sum([r \in DOMAIN ss |-> Weight(W, ss[r])])
    BY <1>4, <1>5, WeightOfFlat
  <2> QED
    BY <1>1, <1>7, <2>1, Zenon
<1>9. cs \in Seq(S)
  <2>1. FlattenSeq(ss) \in Seq(S)
    BY <1>5, FlattenType
  <2> QED
    BY <1>1, <2>1
<1>10. NElementsOf(cs) = Sum(b)
  BY <1>6, <1>8, <1>9
<1>11. PICK a : a = [r \in 1..R |-> P[r - 1][q]]
  OBVIOUS
<1>12. PICK f : f = [r \in 1..R |-> pair.mem[r]]
  OBVIOUS
<1>13. ASSUME NEW r \in 1..R
       PROVE  b[r] \in Nat /\ f[r] \in 0..(R - 1) /\ b[r] = P[f[r]][q]
  <2>1. PICK m \in 0..(R - 1) : IsRowOf(D, pair, sd, q, r, m)
    BY RowOf
  <2>2. f[r] = m /\ IsRow(D[r], m, sd, q)
    BY <1>12, <2>1 DEF IsRowOf
  <2>3. PICK dims : dims = D[r]
    OBVIOUS
  <2>4. NElementsOf(ProductChunks(dims, sd)) = P[m][q] /\ P[m][q] \in Nat
    BY <2>2, <2>3, RowElements
  <2>5. PICK s : s = ss[r]
    OBVIOUS
  <2>6. s = ProductChunks(dims, sd)
    BY <1>1, <2>3, <2>5
  <2>7. s \in Seq(S)
    <3>1. PICK T : T = Seq(S)
      OBVIOUS
    <3>2. ss \in Seq(T)
      BY <1>5, <3>1
    <3> QED
      BY <1>1, <2>5, <3>1, <3>2
  <2>8. b[r] = Weight(W, s)
    BY <1>1, <1>7, <2>5
  <2>9. Weight(W, s) = NElementsOf(s)
    BY <1>6, <2>7
  <2>10. NElementsOf(s) = P[m][q]
    BY <2>4, <2>6
  <2> QED
    BY <2>2, <2>4, <2>8, <2>9, <2>10
<1>14. b \in [1..R -> Nat]
  BY <1>1, <1>7, <1>13
<1>15. IsOrder(f, R)
  <2>1. f \in [1..R -> 0..(R - 1)]
    BY <1>12, <1>13
  <2>2. Distinct(pair) /\ Len(pair.disk) = R
    BY DEF IsRows, Permutes
  <2>3. \A i, j \in 1..R : f[i] = f[j] => i = j
    BY <1>12, <2>2 DEF Distinct
  <2> QED
    BY <2>1, <2>3 DEF IsOrder
<1>16. ASSUME NEW m \in 0..(R - 1) PROVE P[m][q] \in Nat
  <2>1. IsProducts(P[m], RowShape(sd, m + 1), q)
    BY DEF IsLayout
  <2>2. q \in 0..q
    OBVIOUS
  <2> QED
    BY <2>1, <2>2 DEF IsProducts
<1>17. a \in [1..R -> Nat]
  <2>1. \A r \in 1..R : r - 1 \in 0..(R - 1)
    OBVIOUS
  <2> QED
    BY <1>11, <1>16, <2>1
<1>18. InOrder(b, a, f, R)
  <2>1. ASSUME NEW r \in 1..R PROVE b[r] = a[f[r] + 1]
    <3>1. PICK m \in 0..(R - 1) : m = f[r]
      BY <1>13
    <3>2. m + 1 \in 1..R /\ (m + 1) - 1 = m
      OBVIOUS
    <3>3. a[m + 1] = P[m][q]
      BY <1>11, <3>2
    <3> QED
      BY <1>13, <3>1, <3>3
  <2> QED
    BY <2>1 DEF InOrder
<1>19. Sum(b) = Sum(a)
  BY <1>14, <1>15, <1>17, <1>18, SumInOrder
<1>20. IsSums(B, a, R)
  <2>1. B \in [0..R -> Nat] /\ B[0] = 0 /\ \A m \in 1..R : B[m] = B[m - 1] + P[m - 1][q]
    BY DEF IsLayout
  <2>2. \A m \in 1..R : a[m] = P[m - 1][q]
    BY <1>11
  <2> QED
    BY <2>1, <2>2 DEF IsSums
<1>21. Sum(a) = B[R]
  BY <1>17, <1>20, SumIs
<1> QED
  BY <1>10, <1>19, <1>21

\* The number of rows of the result
HasRows(sd, R) == R = IF sd.fixed THEN Last(sd.shape) ELSE Len(sd.rows)

\* Where the shapes of the rows vary
LEMMA VaryingApart ==
  ASSUME NEW sel \in Seq(Seq(Int)), NEW sd, NEW q \in Nat, HasDims(sd, q),
         NEW R \in Nat, HasRows(sd, R),
         ShapedAs(sd, q, R), RowsMatch(sel, q + 1, R), SuitsRows(sel, sd, q, R),
         MakeVarying(sel, sd).ok
  PROVE  Apart(MakeVarying(sel, sd).chunks)
<1>1. PICK cs : cs = MakeVarying(sel, sd).chunks
  OBVIOUS
<1>2. PICK D, pair : IsRows(D, pair, sd, q, R) /\ ChunksOfRows(cs, D, sd, R)
  <2>1. R = IF sd.fixed THEN Last(sd.shape) ELSE Len(sd.rows)
    BY DEF HasRows
  <2> QED
    BY <1>1, <2>1, VaryingRows
<1>3. PICK P, B : IsLayout(sd, q, R, P, B)
  BY RowShapes, LayoutExists
<1>4. NElementsOf(cs) = B[R] /\ B[R] \in Nat
  <2>1. R \in 0..R
    OBVIOUS
  <2>2. B \in [0..R -> Nat]
    BY <1>3 DEF IsLayout
  <2>3. NElementsOf(cs) = B[R]
    BY <1>2, <1>3, RowsElements
  <2> QED
    BY <2>1, <2>2, <2>3
<1>5. ASSUME NEW c \in DOMAIN cs PROVE Targets(cs[c]) \subseteq 0..(NElementsOf(cs) - 1)
  <2> SUFFICES ASSUME NEW t \in Targets(cs[c]) PROVE t \in 0..(NElementsOf(cs) - 1)
    OBVIOUS
  <2>1. t \in Nat /\ t < B[R]
    BY <1>2, <1>3, RowsDistinct
  <2> QED
    BY <1>4, <2>1
<1>6. ASSUME NEW c \in DOMAIN cs, NEW d \in DOMAIN cs, c # d
      PROVE  Targets(cs[c]) \cap Targets(cs[d]) = {}
  BY <1>2, <1>3, <1>6, RowsDistinct
<1> QED
  BY <1>1, <1>5, <1>6 DEF Apart

-----------------------------------------------------------------------------
(* The partitions of the reads *)

\* A cell with the dimensions selected as long as their selection
IsClipped(sel, s) == \E cell \in Seq(Nat) : s = Clip(sel, cell)

\* A clipped cell is as long as the selection in each dimension
LEMMA ClipSuits ==
  ASSUME NEW sel \in Seq(Seq(Int)), NEW s, IsClipped(sel, s), NEW n, n = Len(s) + 1,
         NEW d \in 1..Len(s)
  PROVE  Suits(sel, d, n, s[d])
<1>1. PICK cell \in Seq(Nat) : s = Clip(sel, cell)
  BY DEF IsClipped
<1>2. Len(s) = Len(cell)
  BY <1>1, ClipType
<1>3. s[d] = IF IsSelected(sel, d, n) THEN Len(FSpan(sel, d, n)) ELSE cell[d]
  BY <1>1, <1>2 DEF Clip
<1> QED
  BY <1>3 DEF Suits, SpanLength

\* The rows of a new array have the shapes of their cells, as selected
RowsClipped(sel, rows) == \A r \in 1..Len(rows) : IsClipped(sel, rows[r])

\* All have one shape
OneShape(sel, sd) ==
  \E s \in Seq(Nat) : /\ IsClipped(sel, s) /\ sd.ndim = Len(s) + 1
                      /\ \A d \in 1..Len(s) : sd.shape[d] = s[d]

\* The shape of a new result is that of the cells, clipped to the selection
LEMMA ReadClips ==
  ASSUME NEW column, IsColumn(column), NEW sel \in Seq(Seq(Int)), MakeRead(column, sel, FALSE).ok
  PROVE  LET sd == MakeRead(column, sel, FALSE)
         IN  \/ sd.fixed /\ sd.extents = <<>> /\ OneShape(sel, sd)
             \/ ~ sd.fixed /\ RowsClipped(sel, sd.rows)
<1>0. ASSUME NEW s \in Seq(Nat), NEW nrows, IsClipped(sel, s), NEW sd, sd = FixedShape(s, nrows)
      PROVE  sd.fixed /\ sd.extents = <<>> /\ OneShape(sel, sd)
  <2>1. sd.fixed /\ sd.extents = <<>> /\ sd.ndim = Len(s) + 1 /\ sd.shape = Append(s, nrows)
    BY <1>0 DEF FixedShape
  <2>2. \A d \in 1..Len(s) : Append(s, nrows)[d] = s[d]
    OBVIOUS
  <2> QED
    BY <1>0, <2>1, <2>2 DEF OneShape
<1>1. PICK rows \in Seq(Int) : rows = SelectedRows(column, sel)
  BY RowsType, 0 \in Int
<1>2. CASE column.fixed
  <2>1. MakeRead(column, sel, FALSE) = FixedShape(Clip(sel, column.shape), Len(rows))
    <3>1. SelectionFits(sel, column.shape)
      <4> HIDE DEF SelectionFits
      <4> QED
        BY <1>2 DEF MakeRead, Error
    <3> QED
      BY <1>1, <1>2, <3>1 DEF MakeRead
  <2>2. Clip(sel, column.shape) \in Seq(Nat) /\ Len(rows) \in Nat
    BY ClipType DEF IsColumn
  <2>3. IsClipped(sel, Clip(sel, column.shape))
    BY DEF IsClipped, IsColumn
  <2> QED
    BY <1>0, <2>1, <2>2, <2>3
<1>3. CASE ~ column.fixed
  <2> DEFINE missing == {i \in DOMAIN rows : rows[i] < 0 \/ ~ IsDefined(column, rows[i])}
             shapes == [i \in DOMAIN rows |->
                          IF i \in missing THEN <<>> ELSE Clip(sel, Cell(column, rows[i]))]
             bad == \/ \E i \in DOMAIN rows : rows[i] >= NRow(column)
                    \/ missing # {} /\ ~ FALSE
                    \/ \E i \in DOMAIN rows \ missing : ~ SelectionFits(sel, Cell(column, rows[i]))
             same == missing = {} /\ Cardinality(Range(shapes)) = 1
             variable == [ok |-> TRUE, fixed |-> FALSE, shape |-> <<>>, rows |-> shapes,
                          ndim |-> CommonRank(column, shapes), extents |-> <<>>]
  <2>1. MakeRead(column, sel, FALSE)
          = IF bad THEN Error
            ELSE IF same THEN FixedShape(shapes[1], Len(rows)) ELSE variable
    BY <1>1, <1>3 DEF MakeRead, MakeVariable
  <2>2. ~ bad
    <3> DEFINE other == IF same THEN FixedShape(shapes[1], Len(rows)) ELSE variable
    <3>1. MakeRead(column, sel, FALSE) = IF bad THEN Error ELSE other
      BY <2>1
    <3>2. PICK read_ : read_ = MakeRead(column, sel, FALSE)
      OBVIOUS
    <3> HIDE DEF bad, other
    <3>3. read_.ok /\ read_ = IF bad THEN Error ELSE other
      BY <3>1, <3>2
    <3> QED
      BY <3>3 DEF Error
  <2>3. \A i \in DOMAIN rows :
          /\ shapes[i] = Clip(sel, Cell(column, rows[i])) /\ IsDefined(column, rows[i])
          /\ rows[i] \in 0..(NRow(column) - 1)
    BY <2>2 DEF NRow, IsColumn
  <2> DEFINE N == Len(rows)
  <2>4. DOMAIN rows = 1..N /\ N \in Nat
    OBVIOUS
  <2>5. \A i \in 1..N : IsClipped(sel, shapes[i])
    <3>1. TAKE i \in 1..N
    <3>a. rows[i] \in 0..(NRow(column) - 1)
      BY <2>3, <2>4
    <3>b. column.cells \in Seq([shape : Seq(Nat), defined : BOOLEAN]) /\ NRow(column) = Len(column.cells)
      BY DEF NRow, IsColumn
    <3>2. PICK r \in DOMAIN column.cells : r = rows[i] + 1
      BY <3>a, <3>b
    <3>3. Cell(column, rows[i]) = column.cells[r].shape
      BY <2>3, <2>4, <3>2 DEF Cell
    <3>4. column.cells[r].shape \in Seq(Nat)
      <4>1. PICK R : R = [shape : Seq(Nat), defined : BOOLEAN]
        OBVIOUS
      <4>a. column.cells \in Seq(R)
        BY <4>1 DEF IsColumn
      <4>2. column.cells[r] \in R
        BY <3>2, <4>a
      <4> QED
        BY <4>1, <4>2
    <3>5. shapes[i] = Clip(sel, column.cells[r].shape)
      BY <2>3, <2>4, <3>3
    <3> HIDE DEF shapes
    <3> QED
      BY <3>4, <3>5 DEF IsClipped
  <2>6. DOMAIN shapes = 1..N
    BY <2>4
  <2> HIDE DEF shapes, missing, bad
  <2>9. \A i \in 1..N : shapes[i] \in Seq(Nat)
    <3>1. TAKE i \in 1..N
    <3>2. PICK cell \in Seq(Nat) : shapes[i] = Clip(sel, cell)
      BY <2>5 DEF IsClipped
    <3> QED
      BY <3>2, ClipType
  <2>7. CASE same
    <3>1. N # 0
      <4>1. N = 0 => Range(shapes) = {}
        BY <2>6 DEF Range
      <4>2. Cardinality(Range(shapes)) = 1
        BY <2>7
      <4>3. Cardinality({}) = 0
        BY FS_EmptySet
      <4>4. ASSUME N = 0 PROVE Cardinality(Range(shapes)) = Cardinality({})
        BY <4>1, <4>4, Zenon
      <4> QED
        BY <4>2, <4>3, <4>4
    <3>2. shapes[1] \in Seq(Nat) /\ IsClipped(sel, shapes[1])
      BY <2>4, <2>5, <2>9, <3>1
    <3> QED
      BY <1>0, <2>1, <2>2, <2>4, <2>7, <3>2
  <2>8. CASE ~ same
    <3>1. MakeRead(column, sel, FALSE) = variable
      BY <2>1, <2>2, <2>8
    <3>2. Len(shapes) = N
      <4>1. IsOfLength(shapes, N)
        BY <2>4, <2>6 DEF IsOfLength, shapes
      <4> QED
        BY <2>4, <4>1, LengthOf
    <3>3. RowsClipped(sel, shapes)
      BY <2>5, <3>2 DEF RowsClipped
    <3>4. variable.rows = shapes /\ ~ variable.fixed
      OBVIOUS
    <3> HIDE DEF variable
    <3> QED
      BY <3>1, <3>3, <3>4
  <2> QED
    BY <2>7, <2>8
<1> QED
  BY <1>2, <1>3

\* A partition that is made of the selection of the result
IsPartition(made, sel, sd, maxSplits, minBytes, storage) ==
  made = Make(sel, sd, maxSplits, minBytes, storage) /\ made.ok

\* The chunks of rows of one shape are apart
LEMMA FixedPartition ==
  ASSUME NEW sel \in Seq(Seq(Int)), NEW sd, FixedData(sd), sd.extents = <<>>,
         NEW maxSplits, NEW minBytes, NEW storage, NEW made,
         IsPartition(made, sel, sd, maxSplits, minBytes, storage)
  PROVE  made = MakeFixed(sel, sd, maxSplits, minBytes, storage) /\ made.ok
BY DEF IsPartition, Make, FixedData

\* The chunks of a new result whose cells have one shape are apart
LEMMA OneShapeApart ==
  ASSUME NEW sel \in Seq(Seq(Int)), NEW sd, FixedData(sd), sd.extents = <<>>, OneShape(sel, sd),
         NEW maxSplits, NEW minBytes, NEW storage, NEW made,
         IsPartition(made, sel, sd, maxSplits, minBytes, storage)
  PROVE  Apart(made.chunks)
<1>1. PICK s \in Seq(Nat) : /\ IsClipped(sel, s) /\ sd.ndim = Len(s) + 1
                           /\ \A d \in 1..Len(s) : sd.shape[d] = s[d]
  BY DEF OneShape
<1>2. PICK n : n = Len(s) + 1
  OBVIOUS
<1>3. n = sd.ndim /\ sd.ndim - 1 = Len(s)
  BY <1>1, <1>2
<1>4. ASSUME NEW d \in 1..(sd.ndim - 1) PROVE Suits(sel, d, sd.ndim, sd.shape[d])
  <2>1. d \in 1..Len(s) /\ sd.shape[d] = s[d]
    BY <1>1, <1>3
  <2>2. Suits(sel, d, n, s[d])
    BY <1>1, <1>2, <2>1, ClipSuits
  <2> QED
    BY <1>3, <2>1, <2>2
<1> QED
  BY <1>4, FixedPartition, FixedApart

\* So are those of rows of several
LEMMA SeveralApart ==
  ASSUME NEW sel \in Seq(Seq(Int)), NEW sd, NEW R \in Nat, VariableData(sd, R),
         RowsMatch(sel, sd.ndim, R), RowsClipped(sel, sd.rows),
         NEW maxSplits, NEW minBytes, NEW storage, NEW made,
         IsPartition(made, sel, sd, maxSplits, minBytes, storage)
  PROVE  Apart(made.chunks)
<1>1. ~ sd.fixed /\ sd.rows \in Seq(Seq(Nat)) /\ Len(sd.rows) = R /\ sd.ndim \in Int
  BY DEF VariableData
<1>3. sd.ndim >= 0 /\ made = MakeVarying(sel, sd) /\ made.ok
  <2>1. PICK varying : varying = MakeVarying(sel, sd)
    OBVIOUS
  <2>2. made = IF sd.ndim < 0 THEN Error ELSE varying
    BY <1>1, <2>1 DEF Make, IsPartition
  <2>3. made.ok
    BY DEF IsPartition
  <2>4. ~ (sd.ndim < 0)
    BY <2>2, <2>3 DEF Error
  <2> QED
    BY <1>1, <2>1, <2>2, <2>3, <2>4
<1>4. R # 0
  <2>1. ASSUME R = 0 PROVE MakeVarying(sel, sd) = Error
    <3>1. Len(sd.rows) = 0 /\ ~ sd.fixed
      BY <1>1, <2>1
    <3> QED
      BY <3>1 DEF MakeVarying
  <2> QED
    BY <1>3, <2>1 DEF Error
<1>5. \A r \in 1..R : Len(sd.rows[r]) = sd.ndim - 1
  BY <1>3, <1>4 DEF VariableData
<1>6. PICK q \in Nat : sd.ndim = q + 1
  <2>1. PICK T : T = Seq(Nat)
    OBVIOUS
  <2>2. 1 \in 1..R /\ sd.rows \in Seq(T)
    BY <1>1, <1>4, <2>1
  <2>3. sd.rows[1] \in T
    BY <1>1, <2>2
  <2>4. Len(sd.rows[1]) \in Nat
    BY <2>1, <2>3
  <2>5. sd.ndim - 1 \in Nat
    BY <1>5, <2>2, <2>4
  <2>6. (sd.ndim - 1) + 1 = sd.ndim
    BY <1>1
  <2> QED
    BY <2>5, <2>6
<1>12. (q + 1) - 1 = q
  OBVIOUS
<1>13. \A r \in 1..R : Len(sd.rows[r]) = q
  <2>1. TAKE r \in 1..R
  <2>2. Len(sd.rows[r]) = (q + 1) - 1
    BY <1>5, <1>6
  <2> QED
    BY <1>12, <2>2
<1>7. ShapedAs(sd, q, R)
  BY <1>1, <1>13 DEF ShapedAs
<1>8. SuitsRows(sel, sd, q, R)
  <2>1. ASSUME NEW m \in 0..(R - 1), NEW d \in 1..q
        PROVE  Suits(sel, d, q + 1, RowShape(sd, m + 1)[d])
    <3>1. m + 1 \in 1..R
      OBVIOUS
    <3>2. PICK s : s = sd.rows[m + 1]
      OBVIOUS
    <3>3. RowShape(sd, m + 1) = s
      BY <1>1, <3>2 DEF RowShape
    <3>4. IsClipped(sel, s) /\ Len(s) = q
      BY <1>1, <1>13, <3>1, <3>2 DEF RowsClipped
    <3>5. PICK n : n = Len(s) + 1
      OBVIOUS
    <3>6. n = q + 1 /\ d \in 1..Len(s)
      BY <3>4, <3>5
    <3>7. Suits(sel, d, n, s[d])
      BY <3>4, <3>5, <3>6, ClipSuits
    <3> QED
      BY <3>3, <3>6, <3>7
  <2> QED
    BY <2>1 DEF SuitsRows
<1>9. HasDims(sd, q) /\ HasRows(sd, R) /\ RowsMatch(sel, q + 1, R)
  <2>1. HasDims(sd, q)
    BY <1>6 DEF HasDims
  <2>2. HasRows(sd, R)
    BY <1>1 DEF HasRows
  <2> QED
    BY <1>6, <2>1, <2>2
<1>10. MakeVarying(sel, sd).ok
  BY <1>3
<1>11. Apart(MakeVarying(sel, sd).chunks)
  BY <1>7, <1>8, <1>9, <1>10, VaryingApart
<1> QED
  BY <1>3, <1>11

\* So the chunks of a read into a new array are apart
LEMMA ReadApart ==
  ASSUME NEW column, IsColumn(column), NEW sel \in Seq(Seq(Int)), MakeRead(column, sel, FALSE).ok,
         NEW maxSplits, NEW minBytes, NEW storage, NEW made,
         IsPartition(made, sel, MakeRead(column, sel, FALSE), maxSplits, minBytes, storage)
  PROVE  Apart(made.chunks)
<1>1. PICK sd : sd = MakeRead(column, sel, FALSE)
  OBVIOUS
<1>2. Readable(sel, sd) /\ IsPartition(made, sel, sd, maxSplits, minBytes, storage)
  BY <1>1, MakeReadType
<1>3. CASE sd.fixed /\ sd.extents = <<>> /\ OneShape(sel, sd)
  <2>1. FixedData(sd)
    BY <1>2, <1>3 DEF Readable, VariableData
  <2> QED
    BY <1>2, <1>3, <2>1, OneShapeApart
<1>4. CASE ~ sd.fixed /\ RowsClipped(sel, sd.rows)
  <2>1. PICK R : R = Len(sd.rows)
    OBVIOUS
  <2>2. VariableData(sd, Len(sd.rows)) /\ RowsMatch(sel, sd.ndim, Len(sd.rows))
    BY <1>2, <1>4 DEF Readable, FixedData
  <2>3. sd.rows \in Seq(Seq(Nat))
    BY <2>2 DEF VariableData
  <2>4. VariableData(sd, R) /\ RowsMatch(sel, sd.ndim, R) /\ R \in Nat
    BY <2>1, <2>2, <2>3
  <2> QED
    BY <1>2, <1>4, <2>4, SeveralApart
<1> QED
  BY <1>1, <1>3, <1>4, ReadClips

\* Are the dimensions selected as long as those of the array's cells?
SizesSuit(sel, cell) == \A d \in 1..Len(cell) : Suits(sel, d, Len(cell) + 1, cell[d])

\* They are if ValidateCellShape() finds so of any cell
LEMMA ValidSuits ==
  ASSUME NEW sel \in Seq(Seq(Int)), NEW cell \in Seq(Nat), NEW result \in Seq(Nat),
         ValidateCellShape(sel, cell, result)
  PROVE  SizesSuit(sel, result)
<1>1. Len(cell) = Len(result)
  BY DEF ValidateCellShape
<1>2. PICK n : n = Len(cell) + 1
  OBVIOUS
<1>3. n = Len(result) + 1
  BY <1>1, <1>2
<1>4. ASSUME NEW d \in 1..Len(result), IsSelected(sel, d, n)
      PROVE  Len(FSpan(sel, d, n)) = result[d]
  <2>1. d \in DOMAIN cell
    BY <1>1
  <2> QED
    BY <1>2, <1>4, <2>1 DEF ValidateCellShape
<1>5. \A d \in 1..Len(result) : Suits(sel, d, n, result[d])
  BY <1>4 DEF Suits, SpanLength
<1> QED
  BY <1>3, <1>5 DEF SizesSuit

\* A selection that is rebuilt: of these rows, and dimensions as long as they were, or
\* as the array's cells
LEMMA RebuildSuits ==
  ASSUME NEW sel \in Seq(Seq(Int)), NEW cell \in Seq(Nat), SizesSuit(sel, cell),
         NEW extent, NEW rows \in Seq(Int)
  PROVE  SizesSuit(RebuildSelection(sel, cell, extent, rows), cell)
<1> DEFINE n == Len(cell) + 1
           span(d) == IF d = n THEN rows
                      ELSE IF IsSelected(sel, d, n) THEN FSpan(sel, d, n)
                      ELSE IF extent[d] < cell[d] THEN PaddedIds(cell[d], extent[d]) ELSE <<>>
           s == [d \in 1..n |-> span(d)]
<1>1. RebuildSelection(sel, cell, extent, rows) = s
  BY DEF RebuildSelection
<1>2. n \in Nat
  OBVIOUS
<1>3. ASSUME NEW d \in 1..Len(cell)
      PROVE  d \in 1..n /\ d # n /\ cell[d] \in Nat /\ Suits(sel, d, n, cell[d])
  <2>1. Suits(sel, d, Len(cell) + 1, cell[d])
    BY DEF SizesSuit
  <2> QED
    BY <2>1
<1> HIDE DEF n
<1>4. ASSUME NEW d \in 1..Len(cell) PROVE span(d) = <<>> \/ Len(span(d)) = cell[d]
  <2>1. CASE IsSelected(sel, d, n)
    BY <1>3, <2>1 DEF Suits, SpanLength
  <2>2. CASE ~ IsSelected(sel, d, n) /\ extent[d] < cell[d]
    <3>0. PICK size \in Nat : size = cell[d]
      BY <1>3
    <3>1. PICK e : size = cell[d] /\ e = extent[d]
      BY <3>0
    <3>2. IsOfLength(PaddedIds(size, e), size)
      BY DEF PaddedIds, IsOfLength
    <3>3. Len(PaddedIds(size, e)) = size
      BY <3>2, LengthOf
    <3> QED
      BY <1>3, <2>2, <3>1, <3>3
  <2>3. CASE ~ IsSelected(sel, d, n) /\ ~ (extent[d] < cell[d])
    BY <1>3, <2>3
  <2> QED
    BY <2>1, <2>2, <2>3
<1> HIDE DEF span
<1>5. Len(s) = n /\ DOMAIN s = 1..n
  <2>1. IsOfLength(s, n)
    BY DEF IsOfLength
  <2> HIDE DEF s
  <2> QED
    BY <1>2, <2>1, LengthOf
<1>6. \A d \in 1..n : s[d] = span(d)
  OBVIOUS
<1> HIDE DEF s
<1>7. ASSUME NEW d \in 1..Len(cell) PROVE Suits(s, d, n, cell[d])
  <2>1. d - n + Len(s) = d
    BY <1>2, <1>5
  <2>2. IsSelected(s, d, n) => s[d] # <<>>
    BY <2>1 DEF IsSelected
  <2>3. FSpan(s, d, n) = s[d]
    BY <2>1 DEF FSpan
  <2>4. s[d] = span(d)
    BY <1>3, <1>6
  <2> QED
    BY <1>4, <2>2, <2>3, <2>4 DEF Suits, SpanLength
<1> QED
  BY <1>1, <1>7 DEF SizesSuit, n

\* RebuildSelection() selects the rows it is given
LEMMA RebuildRows ==
  ASSUME NEW sel \in Seq(Seq(Int)), NEW cell \in Seq(Nat), NEW extent, NEW rows \in Seq(Int),
         NEW n, n = Len(cell) + 1, NEW s, s = RebuildSelection(sel, cell, extent, rows)
  PROVE  (IsSelected(s, n, n) <=> rows # <<>>) /\ FSpan(s, n, n) = rows
<1> DEFINE span(d) == IF d = n THEN rows
                      ELSE IF IsSelected(sel, d, n) THEN FSpan(sel, d, n)
                      ELSE IF extent[d] < cell[d] THEN PaddedIds(cell[d], extent[d]) ELSE <<>>
<1>1. s = [d \in 1..n |-> span(d)]
  BY DEF RebuildSelection
<1>2. n \in Nat /\ n \in 1..n /\ span(n) = rows
  OBVIOUS
<1> HIDE DEF span
<1>3. IsOfLength(s, n) /\ s[n] = rows
  BY <1>1, <1>2 DEF IsOfLength
<1>4. Len(s) = n /\ DOMAIN s = 1..n
  BY <1>2, <1>3, LengthOf
<1>5. n - n + Len(s) = n
  BY <1>2, <1>4
<1> QED
  BY <1>2, <1>3, <1>4, <1>5 DEF IsSelected, FSpan

\* Are all rows of the array those that aren't read?
NegativeRows(sel, n, size) ==
  IF IsSelected(sel, n, n) THEN \A i \in 1..Len(FSpan(sel, n, n)) : FSpan(sel, n, n)[i] < 0
  ELSE size = 0

\* Where only negative rows are selected, the span pair of the rows has no other
LEMMA NegativePair ==
  ASSUME NEW sel \in Seq(Seq(Int)), NEW n \in Nat, NEW size \in Nat, NegativeRows(sel, n, size),
         NEW pair, pair = GetSpanPair(sel, n, n, size)
  PROVE  \A p \in 1..Len(pair.disk) : pair.disk[p] < 0
<1>1. CASE IsSelected(sel, n, n)
  <2>1. PICK ids \in Seq(Int) : ids = FSpan(sel, n, n)
    BY <1>1, SpanType
  <2>2. pair = MakeSortedIndices(ids)
    BY <1>1, <2>1 DEF GetSpanPair
  <2>3. /\ Len(pair.disk) = Len(ids)
        /\ \A k \in 1..Len(ids) : /\ pair.mem[k] \in 0..(Len(ids) - 1)
                                  /\ pair.disk[k] = ids[pair.mem[k] + 1]
    BY <2>2, SortedType
  <2>4. \A i \in 1..Len(ids) : ids[i] < 0
    BY <1>1, <2>1 DEF NegativeRows
  <2>5. ASSUME NEW p \in 1..Len(ids) PROVE pair.disk[p] < 0
    <3>1. PICK m \in 0..(Len(ids) - 1) : m = pair.mem[p]
      BY <2>3
    <3>2. m + 1 \in 1..Len(ids)
      OBVIOUS
    <3> QED
      BY <2>3, <2>4, <3>1, <3>2
  <2> QED
    BY <2>3, <2>5
<1>2. CASE ~ IsSelected(sel, n, n)
  <2>1. size = 0
    BY <1>2 DEF NegativeRows
  <2>2. pair = Monotonic(0)
    BY <1>2, <2>1 DEF GetSpanPair
  <2>3. Len(pair.disk) = 0
    BY <2>2 DEF Monotonic
  <2> QED
    BY <2>3
<1> QED
  BY <1>1, <1>2

\* The rows selected, where none is read: all negative, or none
LEMMA RowsNegative ==
  ASSUME NEW column, IsColumn(column), NEW sel \in Seq(Seq(Int)), NEW n \in Nat,
         NEW rows, rows = SelectedRows(column, sel), \A i \in DOMAIN rows : rows[i] < 0
  PROVE  NegativeRows(sel, n, Len(rows))
<1>1. NRow(column) \in Nat
  BY DEF NRow, IsColumn
<1>2. n - n + Len(sel) = Len(sel)
  OBVIOUS
<1>3. CASE IsSelected(sel, n, n)
  <2>1. HasRowSpan(sel) /\ FSpan(sel, n, n) = Last(sel) /\ Last(sel) \in Seq(Int)
    BY <1>3, RowSpan
  <2>2. rows = FSpan(sel, n, n) /\ rows \in Seq(Int)
    BY <2>1 DEF SelectedRows
  <2> QED
    BY <1>3, <2>2 DEF NegativeRows
<1>4. CASE ~ IsSelected(sel, n, n)
  <2>1. ~ HasRowSpan(sel)
    BY <1>2, <1>4 DEF IsSelected, HasRowSpan, Last
  <2>2. rows = [i \in 1..NRow(column) |-> i - 1]
    BY <2>1 DEF SelectedRows
  <2>3. NRow(column) = 0
    <3>1. ASSUME NRow(column) # 0 PROVE FALSE
      <4>1. 1 \in 1..NRow(column)
        BY <1>1, <3>1
      <4>2. rows[1] = 0 /\ 1 \in DOMAIN rows
        BY <2>2, <4>1
      <4> QED
        BY <4>2
    <3> QED
      BY <3>1
  <2>4. Len(rows) = 0
    BY <2>2, <2>3
  <2> QED
    BY <1>4, <2>4 DEF NegativeRows
<1> QED
  BY <1>3, <1>4

\* The selection that an array is read by: of dimensions as long as those of its cells,
\* unless it has no row to read
LEMMA NegateSuits ==
  ASSUME NEW column, IsColumn(column), NEW sel \in Seq(Seq(Int)),
         NEW result \in Seq(Nat), result # <<>>,
         NegateMissingSelectedRows(column, sel, result).ok
  PROVE  LET negated == NegateMissingSelectedRows(column, sel, result)
         IN  \/ SizesSuit(negated.sel, Front(result))
             \/ negated.extents = <<>> /\ NegativeRows(negated.sel, Len(result), Last(result))
<1>1. PICK cell \in Seq(Nat) : cell = Front(result) /\ Len(cell) + 1 = Len(result)
  <2>1. PICK q \in Nat : Len(result) = q + 1
    <3>1. Len(result) \in Nat /\ Len(result) >= 1
      OBVIOUS
    <3>2. Len(result) - 1 \in Nat /\ (Len(result) - 1) + 1 = Len(result)
      BY <3>1
    <3> QED
      BY <3>2
  <2>2. Front(result) \in Seq(Nat) /\ Len(Front(result)) = q
    BY <2>1, FrontOf
  <2> QED
    BY <2>1, <2>2
<1>2. CASE column.fixed
  <2> DEFINE extent == CellExtent(sel, column.shape, cell)
             negated == [ok |-> TRUE, extents |-> <<>>,
                         sel |-> IF extent = cell THEN sel
                                 ELSE RebuildSelection(sel, cell, extent, RowSpanOf(sel))]
  <2>1. NegateMissingSelectedRows(column, sel, result)
          = IF ~ ValidateCellShape(sel, column.shape, cell) THEN Error ELSE negated
    BY <1>1, <1>2 DEF NegateMissingSelectedRows, NegateFixed
  <2>2. PICK made : made = NegateMissingSelectedRows(column, sel, result)
    OBVIOUS
  <2>3. made = negated /\ ValidateCellShape(sel, column.shape, cell)
    <3> HIDE DEF negated
    <3>1. made.ok /\ made = IF ~ ValidateCellShape(sel, column.shape, cell) THEN Error ELSE negated
      BY <2>1, <2>2
    <3> QED
      BY <3>1 DEF Error
  <2> HIDE DEF extent
  <2>4. SizesSuit(sel, cell)
    <3>1. column.shape \in Seq(Nat)
      BY DEF IsColumn
    <3> QED
      BY <2>3, <3>1, ValidSuits
  <2>5. SizesSuit(RebuildSelection(sel, cell, extent, RowSpanOf(sel)), cell)
    <3>1. RowSpanOf(sel) \in Seq(Int)
      BY RowSpanOfType
    <3> QED
      BY <2>4, <3>1, RebuildSuits
  <2>6. SizesSuit(made.sel, cell)
    BY <2>3, <2>4, <2>5
  <2> QED
    BY <1>1, <2>2, <2>6
<1>3. CASE ~ column.fixed
  <2> DEFINE nrows == Last(result)
             rows == SelectedRows(column, sel)
             read_ == {i \in DOMAIN rows : rows[i] >= 0 /\ IsDefined(column, rows[i])}
             extent(i) == IF i \in read_ THEN CellExtent(sel, Cell(column, rows[i]), cell)
                          ELSE cell
             common == IF read_ = {} THEN cell ELSE extent(Min(read_))
             differ == {i \in read_ : extent(i) # common}
             shared == IF differ = {} THEN common ELSE cell
             undefined == {i \in DOMAIN rows \ read_ : rows[i] >= 0}
             negs == [i \in DOMAIN rows |-> IF i \in undefined THEN -1 ELSE rows[i]]
             kept == IF undefined # {} THEN negs ELSE RowSpanOf(sel)
             bad == \/ Len(rows) # nrows
                    \/ \E i \in DOMAIN rows : rows[i] >= NRow(column)
                    \/ \E i \in read_ : ~ ValidateCellShape(sel, Cell(column, rows[i]), cell)
             negated == [ok |-> TRUE,
                         extents |-> IF differ = {} THEN <<>>
                                     ELSE [i \in DOMAIN rows |->
                                             IF i < Min(differ) THEN common ELSE extent(i)],
                         sel |-> IF undefined = {} /\ shared = cell THEN sel
                                 ELSE RebuildSelection(sel, cell, shared, kept)]
  <2>1. NegateMissingSelectedRows(column, sel, result) = IF bad THEN Error ELSE negated
    BY <1>1, <1>3 DEF NegateMissingSelectedRows, NegateVariable
  <2>2. PICK made : made = NegateMissingSelectedRows(column, sel, result)
    OBVIOUS
  <2>3. made = negated /\ ~ bad
    <3> HIDE DEF negated, bad
    <3>1. made.ok /\ made = IF bad THEN Error ELSE negated
      BY <2>1, <2>2
    <3> QED
      BY <3>1 DEF Error
  <2>4. rows \in Seq(Int) /\ Len(rows) = nrows
    BY <2>3, RowsType, 0 \in Int
  <2>5. kept \in Seq(Int)
    <3>1. CASE undefined # {}
      <4> HIDE DEF rows, undefined, nrows
      <4>1. DOMAIN rows = 1..Len(rows) /\ Len(rows) \in Nat
        BY <2>4
      <4>2. \A i \in 1..Len(rows) : (IF i \in undefined THEN -1 ELSE rows[i]) \in Int
        BY <2>4
      <4>3. negs \in Seq(Int)
        BY <4>1, <4>2
      <4> QED
        BY <3>1, <4>3
    <3>2. CASE undefined = {}
      <4> HIDE DEF undefined
      <4>1. kept = RowSpanOf(sel)
        BY <3>2
      <4> HIDE DEF kept
      <4> QED
        BY <4>1, RowSpanOfType
    <3> QED
      BY <3>1, <3>2
  <2>6. made.sel = IF undefined = {} /\ shared = cell THEN sel
                   ELSE RebuildSelection(sel, cell, shared, kept)
    BY <2>3
  <2>7. made.extents = IF differ = {} THEN <<>>
                       ELSE [i \in DOMAIN rows |-> IF i < Min(differ) THEN common ELSE extent(i)]
    BY <2>3
  <2>8. CASE read_ # {}
    <3>1. PICK i \in read_ : TRUE
      BY <2>8
    <3>2. rows[i] \in 0..(NRow(column) - 1) /\ ValidateCellShape(sel, Cell(column, rows[i]), cell)
          /\ IsDefined(column, rows[i])
      <4>1. NRow(column) \in Nat
        BY DEF NRow, IsColumn
      <4>2. rows[i] \in Int
        <5> HIDE DEF rows
        <5> QED
          BY <2>4
      <4>3. rows[i] >= 0 /\ IsDefined(column, rows[i]) /\ i \in DOMAIN rows
        BY <3>1
      <4>4. ~ (rows[i] >= NRow(column)) /\ ValidateCellShape(sel, Cell(column, rows[i]), cell)
        BY <2>3, <3>1, <4>3
      <4> HIDE DEF rows, read_
      <4> QED
        BY <4>1, <4>2, <4>3, <4>4
    <3>3. Cell(column, rows[i]) \in Seq(Nat)
      <4>1. PICK k \in 0..(NRow(column) - 1) : k = rows[i]
        BY <3>2
      <4>2. PICK R : R = [shape : Seq(Nat), defined : BOOLEAN]
        OBVIOUS
      <4>3. column.cells \in Seq(R) /\ NRow(column) = Len(column.cells)
        BY <4>2 DEF IsColumn, NRow
      <4>4. column.cells[k + 1] \in R
        BY <4>3
      <4>5. column.cells[k + 1].shape \in Seq(Nat)
        BY <4>2, <4>4
      <4> QED
        BY <4>1, <4>5 DEF Cell
    <3>4. SizesSuit(sel, cell)
      BY <3>2, <3>3, ValidSuits
    <3> HIDE DEF kept, shared, undefined
    <3>5. SizesSuit(RebuildSelection(sel, cell, shared, kept), cell)
      BY <2>5, <3>4, RebuildSuits
    <3>6. SizesSuit(made.sel, cell)
      BY <2>6, <3>4, <3>5
    <3> QED
      BY <1>1, <2>2, <3>6
  <2>9. CASE read_ = {}
    <3>1. differ = {} /\ common = cell /\ shared = cell
      BY <2>9
    <3>2. made.extents = <<>>
      BY <2>7, <3>1
    <3>3. \A i \in DOMAIN rows : i \in undefined \/ rows[i] < 0
      <4> HIDE DEF rows
      <4>1. \A i \in DOMAIN rows : rows[i] \in Int
        BY <2>4
      <4> HIDE DEF read_
      <4> QED
        BY <2>9, <4>1
    <3>4. PICK n \in Nat : n = Len(cell) + 1
      OBVIOUS
    <3>5. n = Len(result)
      BY <1>1, <3>4
    <3>6. CASE undefined = {}
      <4>1. made.sel = sel
        BY <2>6, <3>1, <3>6
      <4>2. \A i \in DOMAIN rows : rows[i] < 0
        BY <3>3, <3>6
      <4> HIDE DEF undefined
      <4>3. NegativeRows(sel, n, Len(rows))
        BY <4>2, RowsNegative
      <4> QED
        BY <2>2, <2>4, <3>2, <3>5, <4>1, <4>3
    <3>7. CASE undefined # {}
      <4>1. made.sel = RebuildSelection(sel, cell, shared, kept)
        BY <2>6, <3>7
      <4>2. \A i \in DOMAIN negs : negs[i] < 0
        BY <3>3
      <4>3. DOMAIN negs = DOMAIN rows
        OBVIOUS
      <4>4. PICK ids \in Seq(Int) : ids = kept
        BY <2>5
      <4>5. ids = negs
        BY <3>7, <4>4
      <4> HIDE DEF kept, shared, undefined, negs
      <4>6. (IsSelected(made.sel, n, n) <=> ids # <<>>) /\ FSpan(made.sel, n, n) = ids
        BY <3>4, <4>1, <4>4, RebuildRows
      <4>7. \A i \in 1..Len(ids) : ids[i] < 0
        BY <4>2, <4>5
      <4>8. ids = <<>> => nrows = 0
        <5>1. ASSUME ids = <<>> PROVE nrows = 0
          <6>1. DOMAIN ids = {}
            BY <5>1
          <6>2. DOMAIN rows = {}
            BY <4>3, <4>5, <6>1
          <6> HIDE DEF rows, nrows
          <6>3. DOMAIN rows = 1..Len(rows) /\ Len(rows) \in Nat
            BY <2>4
          <6>4. Len(rows) = 0
            BY <6>2, <6>3
          <6> QED
            BY <2>4, <6>4
        <5> QED
          BY <5>1
      <4> HIDE DEF nrows
      <4>9. NegativeRows(made.sel, n, nrows)
        BY <4>6, <4>7, <4>8 DEF NegativeRows
      <4> QED
        BY <2>2, <3>2, <3>5, <4>9 DEF nrows
    <3> QED
      BY <3>6, <3>7
  <2> QED
    BY <2>8, <2>9
<1> QED
  BY <1>2, <1>3

\* The shape of the array
IsArray(sd, result) == FixedData(sd) /\ sd.shape = result /\ sd.ndim = Len(result)

\* The selection is as long as the cells of the array, or selects no row of it
ArraySuits(sel, sd, result) ==
  \/ SizesSuit(sel, Front(result))
  \/ sd.extents = <<>> /\ NegativeRows(sel, Len(result), Last(result))

\* The chunks of a read into an array are apart
LEMMA ArrayApart ==
  ASSUME NEW sel \in Seq(Seq(Int)), NEW result \in Seq(Nat), result # <<>>,
         NEW sd, IsArray(sd, result), Readable(sel, sd), ArraySuits(sel, sd, result),
         NEW maxSplits, NEW minBytes, NEW storage, NEW made,
         IsPartition(made, sel, sd, maxSplits, minBytes, storage)
  PROVE  Apart(made.chunks)
<1>1. FixedData(sd) /\ sd.fixed
  BY DEF IsArray, FixedData
<1>2. PICK q \in Nat : Len(result) = q + 1
  <2>1. Len(result) \in Nat /\ Len(result) >= 1
    OBVIOUS
  <2>2. Len(result) - 1 \in Nat /\ (Len(result) - 1) + 1 = Len(result)
    BY <2>1
  <2> QED
    BY <2>2
<1>3. sd.shape \in Seq(Nat) /\ Len(sd.shape) = q + 1 /\ sd.ndim = q + 1 /\ sd.ndim - 1 = q
  <2>1. (q + 1) - 1 = q
    OBVIOUS
  <2> QED
    BY <1>2, <2>1 DEF IsArray
<1>4. PICK cell \in Seq(Nat) : /\ cell = Front(sd.shape) /\ Len(cell) = q
                               /\ \A d \in 1..q : cell[d] = sd.shape[d]
  <2>1. PICK shape : shape = sd.shape
    OBVIOUS
  <2>a. shape \in Seq(Nat) /\ Len(shape) = q + 1
    BY <1>3, <2>1
  <2>2. Front(shape) \in Seq(Nat) /\ Len(Front(shape)) = q
    BY <2>a, FrontOf
  <2>3. \A d \in 1..q : Front(shape)[d] = shape[d]
    BY <2>a, FrontIs
  <2> QED
    BY <2>1, <2>2, <2>3
<1>5. cell = Front(result)
  BY <1>4 DEF IsArray
<1>6. PICK R \in Nat : R = Last(sd.shape) /\ R = sd.shape[q + 1]
  <2>1. PICK shape : shape = sd.shape
    OBVIOUS
  <2>a. shape \in Seq(Nat) /\ Len(shape) = q + 1
    BY <1>3, <2>1
  <2>2. Last(shape) = shape[q + 1] /\ Last(shape) \in Nat
    BY <2>a, FrontOf
  <2> QED
    BY <2>1, <2>2
<1>7. ASSUME SizesSuit(sel, cell), NEW d \in 1..q PROVE Suits(sel, d, q + 1, cell[d])
  <2>1. PICK n : n = Len(cell) + 1
    OBVIOUS
  <2>2. n = q + 1 /\ d \in 1..Len(cell)
    BY <1>4, <2>1
  <2>3. Suits(sel, d, n, cell[d])
    BY <1>7, <2>1, <2>2 DEF SizesSuit
  <2> QED
    BY <2>2, <2>3
<1>8. CASE sd.extents = <<>> /\ SizesSuit(sel, cell)
  <2>1. made = MakeFixed(sel, sd, maxSplits, minBytes, storage) /\ made.ok
    BY <1>1, <1>8, FixedPartition
  <2>2. ASSUME NEW d \in 1..(sd.ndim - 1) PROVE Suits(sel, d, sd.ndim, sd.shape[d])
    <3>1. d \in 1..q
      BY <1>3
    <3>2. Suits(sel, d, q + 1, cell[d])
      BY <1>7, <1>8, <3>1
    <3> QED
      BY <1>3, <1>4, <3>1, <3>2
  <2> QED
    BY <1>1, <2>1, <2>2, FixedApart
<1>9. CASE sd.extents = <<>> /\ NegativeRows(sel, Len(result), Last(result))
  <2>1. made = MakeFixed(sel, sd, maxSplits, minBytes, storage) /\ made.ok
    BY <1>1, <1>9, FixedPartition
  <2>2. PICK n \in Nat : n = q + 1
    OBVIOUS
  <2>3. sd.ndim = n /\ sd.shape[sd.ndim] = R /\ R = Last(result) /\ Len(result) = n
    BY <1>2, <1>3, <1>6, <2>2 DEF IsArray
  <2>4. NegativeRows(sel, n, R)
    BY <1>9, <2>3
  <2>5. PICK pair : pair = GetSpanPair(sel, n, n, R)
    OBVIOUS
  <2>6. \A p \in 1..Len(pair.disk) : pair.disk[p] < 0
    BY <2>4, <2>5, NegativePair
  <2>7. pair = GetSpanPair(sel, sd.ndim, sd.ndim, sd.shape[sd.ndim])
    BY <2>3, <2>5
  <2> QED
    BY <1>1, <2>1, <2>6, <2>7, NegativeApart
<1>10. CASE sd.extents # <<>> /\ SizesSuit(sel, cell)
  <2>1. made.ok /\ made = MakeVarying(sel, sd)
    <3>1. sd.ndim \in Nat
      BY <1>3
    <3> QED
      BY <1>10, <3>1 DEF IsPartition, Make
  <2>2. ShapedAs(sd, q, R)
    BY <1>1, <1>3 DEF ShapedAs
  <2>3. HasDims(sd, q) /\ HasRows(sd, R)
    BY <1>1, <1>3, <1>6 DEF HasDims, HasRows
  <2>4. RowsMatch(sel, q + 1, R)
    <3>1. RowsMatch(sel, sd.ndim, Last(sd.shape))
      BY <1>1, <1>10 DEF Readable, VariableData
    <3> QED
      BY <1>3, <1>6, <3>1
  <2>5. SuitsRows(sel, sd, q, R)
    <3>1. ASSUME NEW m \in 0..(R - 1), NEW d \in 1..q
          PROVE  Suits(sel, d, q + 1, RowShape(sd, m + 1)[d])
      <4>1. RowShape(sd, m + 1) = cell
        BY <1>1, <1>4 DEF RowShape
      <4> QED
        BY <1>7, <1>10, <4>1
    <3> QED
      BY <3>1 DEF SuitsRows
  <2>6. MakeVarying(sel, sd).ok
    BY <2>1
  <2>7. Apart(MakeVarying(sel, sd).chunks)
    BY <2>2, <2>3, <2>4, <2>5, <2>6, VaryingApart
  <2> QED
    BY <2>1, <2>7
<1> QED
  BY <1>5, <1>8, <1>9, <1>10 DEF ArraySuits

\* The shape of an array is that of its rows, and their number
LEMMA FrontAndLast ==
  ASSUME NEW result \in Seq(Nat), result # <<>>
  PROVE  /\ Front(result) \in Seq(Nat) /\ Len(Front(result)) + 1 = Len(result)
         /\ Last(result) \in Nat /\ Append(Front(result), Last(result)) = result
<1>1. PICK q \in Nat : Len(result) = q + 1
  <2>1. Len(result) \in Nat /\ Len(result) >= 1
    OBVIOUS
  <2>2. Len(result) - 1 \in Nat /\ (Len(result) - 1) + 1 = Len(result)
    BY <2>1
  <2> QED
    BY <2>2
<1>2. /\ Front(result) \in Seq(Nat) /\ Len(Front(result)) = q
      /\ \A d \in 1..q : Front(result)[d] = result[d]
      /\ Last(result) = result[q + 1] /\ Last(result) \in Nat
  <2>1. Front(result) \in Seq(Nat) /\ Len(Front(result)) = q
    BY <1>1, FrontOf
  <2>4. PICK z : z = result
    OBVIOUS
  <2>5. z \in Seq(Nat) /\ Len(z) = q + 1
    BY <1>1, <2>4
  <2>6. \A d \in 1..q : Front(z)[d] = z[d]
    BY <2>5, FrontIs
  <2>2. \A d \in 1..q : Front(result)[d] = result[d]
    BY <2>4, <2>6
  <2>3. Last(result) = result[q + 1] /\ Last(result) \in Nat
    BY <1>1, FrontOf
  <2> QED
    BY <2>1, <2>2, <2>3
<1>3. PICK front \in Seq(Nat), last \in Nat : front = Front(result) /\ last = Last(result)
  BY <1>2
<1>4. Len(front) = q /\ (\A d \in 1..q : front[d] = result[d]) /\ last = result[q + 1]
  BY <1>2, <1>3
<1>5. Append(front, last) = result
  <2>1. PICK s : s = Append(front, last)
    OBVIOUS
  <2>5. s \in Seq(Nat)
    BY <2>1
  <2>2. Len(s) = q + 1 /\ s[q + 1] = last /\ \A d \in 1..q : s[d] = front[d]
    BY <1>4, <2>1
  <2>3. \A d \in 1..(q + 1) : s[d] = result[d]
    BY <1>4, <2>2
  <2>4. s = result
    BY <1>1, <2>2, <2>3, <2>5
  <2> QED
    BY <2>1, <2>4
<1> QED
  BY <1>1, <1>2, <1>3, <1>5

\* The chunks of a partition are apart
LEMMA PartitionApart ==
  ASSUME read \in Reads, ShapeData.ok, Partition.ok
  PROVE  Apart(Partition.chunks)
<1>1. IsColumn(read.column) /\ read.sel \in Seq(Seq(Int)) /\ read.result \in Seq(Nat)
  BY ReadsAssumption DEF ReadsAssumption
<1>2. PICK storage : storage = IF NInstances > 1 THEN read.storage ELSE Other
  OBVIOUS
<1>3. PICK column, given, result :
        /\ column = read.column /\ given = read.sel /\ result = read.result
        /\ IsColumn(column) /\ given \in Seq(Seq(Int)) /\ result \in Seq(Nat)
  BY <1>1
<1>4. PICK made : made = Partition
  OBVIOUS
<1>5. PICK sel, sd : sel = EffectiveSelection /\ sd = ShapeData
  OBVIOUS
<1>6. IsPartition(made, sel, sd, NInstances, MinSplitBytes, storage)
  BY <1>2, <1>4, <1>5 DEF Partition, IsPartition
<1>7. CASE result = <<>>
  <2>1. sd = MakeRead(column, given, FALSE) /\ sel = given /\ sd.ok
    BY <1>3, <1>5, <1>7 DEF ShapeData, EffectiveSelection
  <2>2. MakeRead(column, given, FALSE).ok
    BY <2>1
  <2>3. IsPartition(made, given, MakeRead(column, given, FALSE), NInstances, MinSplitBytes, storage)
    BY <1>6, <2>1
  <2> QED
    BY <1>3, <1>4, <2>2, <2>3, ReadApart
<1>8. CASE result # <<>>
  <2>1. PICK negated : negated = NegateMissingSelectedRows(column, given, result)
    OBVIOUS
  <2> DEFINE array == [FixedShape(Front(result), Last(result)) EXCEPT !.extents = negated.extents]
  <2>2. sd = (IF negated.ok THEN array ELSE Error) /\ sel = negated.sel /\ sd.ok
    BY <1>3, <1>5, <1>8, <2>1 DEF ShapeData, EffectiveSelection
  <2>3. negated.ok /\ sd = array
    <3> HIDE DEF array
    <3> QED
      BY <2>2 DEF Error
  <2>4. NegateMissingSelectedRows(column, given, result).ok
    BY <2>1, <2>3
  <2>5. /\ sel \in Seq(Seq(Int))
        /\ negated.extents # <<>> => RowsMatch(sel, Len(result), Last(result))
    BY <1>3, <1>8, <2>1, <2>2, <2>4, NegateType
  <2>6. /\ Front(result) \in Seq(Nat) /\ Len(Front(result)) + 1 = Len(result)
        /\ Last(result) \in Nat /\ Append(Front(result), Last(result)) = result
    BY <1>3, <1>8, FrontAndLast
  <2>7. /\ sd.fixed /\ sd.shape = result /\ sd.ndim = Len(result)
        /\ sd.extents = negated.extents
    BY <2>3, <2>6 DEF FixedShape
  <2> HIDE DEF array
  <2>8. FixedData(sd)
    <3>1. result \in Seq(Nat) /\ Len(result) >= 1
      BY <1>3, <1>8
    <3>2. sd.shape \in Seq(Nat) /\ sd.ndim = Len(sd.shape) /\ sd.ndim >= 1
      BY <2>7, <3>1
    <3> QED
      BY <2>7, <3>2 DEF FixedData
  <2>9. IsArray(sd, result)
    BY <2>7, <2>8 DEF IsArray
  <2>10. Readable(sel, sd)
    BY <2>5, <2>7, <2>8 DEF Readable
  <2>11. \/ SizesSuit(negated.sel, Front(result))
         \/ negated.extents = <<>> /\ NegativeRows(negated.sel, Len(result), Last(result))
    BY <1>3, <1>8, <2>1, <2>4, NegateSuits
  <2>12. ArraySuits(sel, sd, result)
    BY <2>2, <2>7, <2>11 DEF ArraySuits
  <2>13. result \in Seq(Nat)
    BY <1>3
  <2>14. Apart(made.chunks)
    BY <1>6, <1>8, <2>5, <2>9, <2>10, <2>12, <2>13, ArrayApart
  <2> QED
    BY <1>4, <2>14
<1> QED
  BY <1>7, <1>8

\* The chunks that are spread are those of the partition
RacesInv == read \in Reads /\ (stage = "spread" => Apart(chunks))

\* Every step of a read keeps its chunks apart
LEMMA RacesSteps ==
  RacesInv /\ [Next]_vars => RacesInv'
<1> SUFFICES ASSUME RacesInv, [Next]_vars PROVE RacesInv'
  OBVIOUS
<1>1. CASE PartitionTask
  <2>1. read' = read /\ ShapeData.ok /\ Partition.ok /\ chunks' = Partition.chunks
    BY <1>1 DEF PartitionTask
  <2>2. Apart(Partition.chunks)
    BY <2>1, PartitionApart DEF RacesInv
  <2>3. Apart(chunks')
    BY <2>1, <2>2
  <2> QED
    BY <2>1, <2>3 DEF RacesInv, Apart
<1>2. CASE ~ PartitionTask
  <2>1. read' = read /\ (stage' = "spread" => stage = "spread" /\ chunks' = chunks)
    BY <1>2 DEF Next, vars, FailEarly, Spread, Return, ReadChunk, FailGroup, EndGroup
  <2> QED
    BY <2>1 DEF RacesInv, Apart
<1> QED
  BY <1>1, <1>2

(***************************************************************************)
(* Of any request that is partitioned, whichever the column, the selection *)
(* and the array, no two chunks have an element of the result in common    *)
(* and none is beyond its end: the tasks that read groups of them at the   *)
(* same time do not race.                                                  *)
(***************************************************************************)
THEOREM ChunksDoNotRace == Spec => []NoWriteRaces
<1>1. Init => RacesInv
  BY DEF Init, RacesInv
<1>2. RacesInv => NoWriteRaces
  BY DEF RacesInv, Apart, NoWriteRaces
<1> QED
  BY <1>1, <1>2, RacesSteps, PTL DEF Spec

-----------------------------------------------------------------------------
(* The lists that a result is nested in *)

\* A row has a list of a dimension for each list of the next, and each of its indices there
LEMMA ListsNested ==
  ASSUME NEW q \in Nat, NEW shape \in Seq(Nat), Len(shape) = q, NEW d \in 1..q
  PROVE  /\ NLists(shape, d, q) \in Nat /\ DimSize(shape, d) = shape[d] /\ shape[d] \in Nat
         /\ NLists(shape, d - 1, q) = NLists(shape, d, q) * shape[d]
<1>1. \A e \in 1..q : DimSize(shape, e) = shape[e] /\ shape[e] \in Nat
  BY DEF DimSize
<1>2. PICK n \in Nat : n = q - d
  OBVIOUS
<1>3. PICK s : s = [e \in 1..n |-> DimSize(shape, d + e)]
  OBVIOUS
<1>4. PICK t : t = [e \in 1..(n + 1) |-> DimSize(shape, (d - 1) + e)]
  OBVIOUS
<1>5. \A e \in 1..n : s[e] = shape[d + e] /\ s[e] \in Nat
  <2>1. TAKE e \in 1..n
  <2>2. d + e \in 1..q
    BY <1>2
  <2> QED
    BY <1>1, <1>3, <2>2
<1>6. \A e \in 1..(n + 1) : t[e] = shape[(d - 1) + e] /\ t[e] \in Nat
  <2>1. TAKE e \in 1..(n + 1)
  <2>2. (d - 1) + e \in 1..q
    BY <1>2
  <2> QED
    BY <1>1, <1>4, <2>2
<1>7. s \in [1..n -> Nat] /\ t \in [1..(n + 1) -> Nat]
  BY <1>3, <1>4, <1>5, <1>6
<1>8. PICK p : IsProducts(p, s, n) /\ p[n] = Product(s)
  BY <1>7, ProductsExist
<1>9. PICK r : IsProducts(r, t, n + 1) /\ r[n + 1] = Product(t)
  <2>1. n + 1 \in Nat
    OBVIOUS
  <2> QED
    BY <1>7, <2>1, ProductsExist
<1>10. \A m \in 0..n : p[m] \in Nat /\ r[m + 1] = p[m] * shape[d]
  <2> DEFINE T == {m \in Nat : m <= n => r[m + 1] = p[m] * shape[d]}
  <2>1. 0 \in T
    <3>1. r[0] = 1 /\ p[0] = 1 /\ 1 \in 1..(n + 1) /\ 1 - 1 = 0
      BY <1>8, <1>9 DEF IsProducts
    <3>2. r[1] = r[0] * t[1]
      BY <1>9, <3>1 DEF IsProducts
    <3>3. t[1] = shape[d] /\ shape[d] \in Nat
      BY <1>1, <1>6, <3>1
    <3> QED
      BY <3>1, <3>2, <3>3
  <2>2. ASSUME NEW m \in Nat, m \in T PROVE m + 1 \in T
    <3>1. SUFFICES ASSUME m + 1 <= n PROVE r[m + 1 + 1] = p[m + 1] * shape[d]
      OBVIOUS
    <3>2. /\ m + 1 \in 1..n /\ m + 1 + 1 \in 1..(n + 1) /\ m \in 0..n
          /\ (m + 1) - 1 = m /\ (m + 1 + 1) - 1 = m + 1
      BY <3>1
    <3>3. r[m + 1 + 1] = r[m + 1] * t[m + 1 + 1]
      BY <1>9, <3>2 DEF IsProducts
    <3>4. p[m + 1] = p[m] * s[m + 1] /\ p[m] \in Nat
      BY <1>8, <3>2 DEF IsProducts
    <3>5. t[m + 1 + 1] = s[m + 1] /\ s[m + 1] \in Nat /\ shape[d] \in Nat
      <4>1. (d - 1) + (m + 1 + 1) = d + (m + 1)
        OBVIOUS
      <4> QED
        BY <1>1, <1>5, <1>6, <3>2, <4>1
    <3>6. r[m + 1] = p[m] * shape[d]
      BY <2>2, <3>2
    <3>7. \A a \in Nat : \A b \in Nat : \A c \in Nat : (a * b) * c = (a * c) * b
      OBVIOUS
    <3> QED
      BY <3>3, <3>4, <3>5, <3>6, <3>7
  <2>3. Nat \subseteq T
    <3> HIDE DEF T
    <3> QED
      BY <2>1, <2>2, NumbersOfSet
  <2> QED
    BY <1>8, <2>3 DEF IsProducts
<1>11. NLists(shape, d, q) = p[n] /\ NLists(shape, d - 1, q) = r[n + 1]
  <2>1. NLists(shape, d, q) = Product(s)
    BY <1>2, <1>3 DEF NLists
  <2>2. q - (d - 1) = n + 1
    BY <1>2
  <2>3. NLists(shape, d - 1, q) = Product(t)
    BY <1>4, <2>2 DEF NLists
  <2> QED
    BY <1>8, <1>9, <2>1, <2>3
<1>12. n \in 0..n
  OBVIOUS
<1> QED
  BY <1>1, <1>10, <1>11, <1>12

\* The rows are a list; and in the innermost lists, the elements of a row are as many as
\* its shape says
LEMMA ListsEnds ==
  ASSUME NEW q \in Nat, NEW shape \in Seq(Nat), Len(shape) = q
  PROVE  /\ NLists(shape, q, q) = 1
         /\ NLists(shape, 0, q) = Product(shape) /\ Product(shape) \in Nat
<1>1. PICK s : s = [e \in 1..0 |-> DimSize(shape, q + e)]
  OBVIOUS
<1>2. s \in [1..0 -> Nat] /\ 0 \in Nat
  BY <1>1
<1>3. PICK p : IsProducts(p, s, 0) /\ p[0] = Product(s)
  BY <1>2, ProductsExist
<1>4. NLists(shape, q, q) = Product(s)
  BY <1>1 DEF NLists
<1>5. \A e \in 1..q : DimSize(shape, 0 + e) = shape[e]
  BY DEF DimSize
<1>6. [e \in 1..(q - 0) |-> DimSize(shape, 0 + e)] = shape
  BY <1>5
<1>7. NLists(shape, 0, q) = Product(shape)
  BY <1>6 DEF NLists
<1>8. shape \in [1..q -> Nat]
  OBVIOUS
<1> QED
  BY <1>3, <1>4, <1>7, <1>8, ProductIs, ProductsExist DEF IsProducts

\* The sum of the first numbers is how far their sums have got
LEMMA SumUpTo ==
  ASSUME NEW n \in Nat, NEW s \in [1..n -> Nat], NEW p, IsSums(p, s, n), NEW k \in 0..n
  PROVE  Sum([m \in 1..k |-> s[m]]) = p[k] /\ p[k] \in Nat
<1>1. PICK t : t = [m \in 1..k |-> s[m]]
  OBVIOUS
<1>2. PICK r : r = [m \in 0..k |-> p[m]]
  OBVIOUS
<1>3. t \in [1..k -> Nat] /\ k \in Nat
  BY <1>1
<1>4. IsSums(r, t, k)
  <2>1. \A m \in 0..k : r[m] = p[m] /\ p[m] \in Nat
    BY <1>2 DEF IsSums
  <2>2. \A m \in 1..k : t[m] = s[m]
    BY <1>1
  <2>3. r \in [0..k -> Nat] /\ r[0] = 0
    BY <1>2, <2>1 DEF IsSums
  <2>4. \A m \in 1..k : r[m] = r[m - 1] + t[m]
    BY <2>1, <2>2 DEF IsSums
  <2> QED
    BY <2>3, <2>4 DEF IsSums
<1>5. Sum(t) = r[k] /\ r[k] \in Nat
  <2>1. Sum(t) = r[k] /\ Sum(t) \in Nat
    BY <1>3, <1>4, SumIs
  <2> QED
    BY <2>1
<1>6. r[k] = p[k]
  BY <1>2
<1> QED
  BY <1>1, <1>5, <1>6

\* Row after row, N[r] numbers v[r]
IsRepeated(ss, N, v, R) ==
  /\ ss \in Seq(Seq(Nat)) /\ Len(ss) = R
  /\ \A r \in 1..R : Len(ss[r]) = N[r] /\ \A j \in 1..N[r] : ss[r][j] = v[r]

\* After those of the rows before, of which there are A[r - 1]
AreInRows(flat, A, N, v, R) == \A r \in 1..R : \A j \in 1..N[r] : flat[A[r - 1] + j] = v[r]

\* The sums of the numbers of each row
IsSumOfRows(B, N, v, R) ==
  (\A m \in 0..R : B[m] \in Nat) /\ B[0] = 0 /\ \A r \in 1..R : B[r] = B[r - 1] + N[r] * v[r]

\* The numbers of row r follow those of the rows before
LEMMA FlattenedRows ==
  ASSUME NEW R \in Nat, NEW N \in [1..R -> Nat], NEW v \in [1..R -> Nat],
         NEW ss, IsRepeated(ss, N, v, R), NEW A, IsSums(A, N, R)
  PROVE  /\ FlattenSeq(ss) \in Seq(Nat) /\ Len(FlattenSeq(ss)) = A[R]
         /\ AreInRows(FlattenSeq(ss), A, N, v, R)
<1>0. ss \in Seq(Seq(Nat)) /\ Len(ss) = R
  BY DEF IsRepeated
<1>1. PICK f \in [0..R -> Seq(Nat)] :
        /\ f[0] = <<>> /\ f[R] = FlattenSeq(ss)
        /\ \A m \in 1..R : f[m] = f[m - 1] \o ss[m]
  BY <1>0, FlattenSteps
<1> DEFINE Good(m) == /\ Len(f[m]) = A[m]
                      /\ \A r \in 1..m : \A j \in 1..N[r] : f[m][A[r - 1] + j] = v[r]
           T == {m \in Nat : m <= R => Good(m)}
<1>2. 0 \in T
  BY <1>1 DEF IsSums
<1>3. ASSUME NEW m \in Nat, m \in T PROVE m + 1 \in T
  <2>1. SUFFICES ASSUME m + 1 <= R PROVE Good(m + 1)
    OBVIOUS
  <2>2. m + 1 \in 1..R /\ m \in 0..R /\ m + 1 \in 0..R /\ (m + 1) - 1 = m /\ Good(m)
    BY <1>3, <2>1
  <2>3. PICK x \in Seq(Nat) : x = f[m]
    BY <1>1, <2>2
  <2>4. PICK y \in Seq(Nat) : y = ss[m + 1] /\ Len(y) = N[m + 1] /\ \A j \in 1..N[m + 1] : y[j] = v[m + 1]
    <3>1. ss[m + 1] \in Seq(Nat)
      BY <2>2 DEF IsRepeated
    <3> QED
      BY <2>2, <3>1 DEF IsRepeated
  <2>5. f[m + 1] = x \o y
    BY <1>1, <2>2, <2>3, <2>4
  <2>6. Len(x) = A[m] /\ A[m] \in Nat /\ A[m + 1] = A[m] + N[m + 1] /\ N[m + 1] \in Nat
    BY <2>2, <2>3 DEF IsSums
  <2>7. Len(f[m + 1]) = A[m + 1]
    <3>1. Len(x \o y) = Len(x) + Len(y)
      OBVIOUS
    <3>2. Len(f[m + 1]) = Len(x \o y) /\ Len(y) = N[m + 1]
      BY <2>4, <2>5
    <3> QED
      BY <2>6, <3>1, <3>2
  <2>8. ASSUME NEW r \in 1..(m + 1), NEW j \in 1..N[r] PROVE f[m + 1][A[r - 1] + j] = v[r]
    <3>1. CASE r = m + 1
      <4>1. j \in 1..Len(y) /\ y[j] = v[r]
        BY <2>4, <3>1
      <4>2. (x \o y)[Len(x) + j] = y[j]
        BY <4>1
      <4> QED
        BY <2>2, <2>5, <2>6, <3>1, <4>1, <4>2
    <3>2. CASE r # m + 1
      <4>1. r \in 1..m /\ r \in 1..R /\ r \in 0..m /\ m \in r..R /\ r \in 0..R /\ r - 1 \in 0..R
        BY <2>1, <3>2
      <4>2. A[r] <= A[m] /\ A[r] = A[r - 1] + N[r] /\ A[r - 1] \in Nat /\ N[r] \in Nat
        <5>1. A[r] <= A[m]
          BY <4>1, SumOfRange DEF IsSums
        <5> QED
          BY <4>1, <5>1 DEF IsSums
      <4>3. A[r - 1] + j \in 1..Len(x)
        <5>1. PICK a \in Nat, n \in Nat : a = A[r - 1] /\ n = N[r]
          BY <4>2
        <5>2. j \in 1..n /\ a + n <= Len(x)
          BY <2>6, <4>2, <5>1
        <5>3. a + j \in 1..Len(x)
          BY <5>2
        <5> QED
          BY <5>1, <5>3
      <4>4. (x \o y)[A[r - 1] + j] = x[A[r - 1] + j]
        BY <4>3
      <4> QED
        BY <2>2, <2>3, <2>5, <4>1, <4>4
    <3> QED
      BY <3>1, <3>2
  <2> QED
    BY <2>7, <2>8
<1>4. Nat \subseteq T
  <2> HIDE DEF T
  <2> QED
    BY <1>2, <1>3, NumbersOfSet
<1>5. R \in 0..R /\ R <= R /\ Good(R)
  BY <1>4
<1>6. PICK flat : flat = f[R]
  OBVIOUS
<1>7. AreInRows(flat, A, N, v, R)
  BY <1>5, <1>6 DEF AreInRows
<1>8. flat \in Seq(Nat) /\ Len(flat) = A[R] /\ flat = FlattenSeq(ss)
  BY <1>1, <1>5, <1>6
<1> QED
  BY <1>7, <1>8

\* Their sums are those of the rows before, and of as many numbers of the row
SumsInRows(p, A, B, N, v, R) ==
  \A r \in 1..R : \A j \in 0..N[r] :
    A[r - 1] + j \in 0..A[R] /\ p[A[r - 1] + j] = B[r - 1] + j * v[r]

\* The sums go from row to row
LEMMA SumsOfRows ==
  ASSUME NEW R \in Nat, NEW N \in [1..R -> Nat], NEW v \in [1..R -> Nat],
         NEW A, IsSums(A, N, R), NEW flat,
         AreInRows(flat, A, N, v, R), NEW p, IsSums(p, flat, A[R]),
         NEW B, IsSumOfRows(B, N, v, R)
  PROVE  SumsInRows(p, A, B, N, v, R)
<1>1. \A m \in 1..R : /\ A[m] <= A[R] /\ A[m] = A[m - 1] + N[m] /\ A[m - 1] \in Nat /\ A[R] \in Nat
                      /\ N[m] \in Nat /\ v[m] \in Nat /\ B[m - 1] \in Nat
  <2>1. TAKE m \in 1..R
  <2>2. m \in 0..R /\ R \in m..R /\ m - 1 \in 0..R
    OBVIOUS
  <2>3. A[m] <= A[R]
    BY <2>2, SumOfRange DEF IsSums
  <2> QED
    BY <2>2, <2>3 DEF IsSums, IsSumOfRows
<1>2. ASSUME NEW m \in 1..R, p[A[m - 1]] = B[m - 1]
      PROVE  \A k \in 0..N[m] : p[A[m - 1] + k] = B[m - 1] + k * v[m]
  <2>0. PICK a \in Nat, n \in Nat, b \in Nat, c \in Nat, l \in Nat :
          a = A[m - 1] /\ n = N[m] /\ b = B[m - 1] /\ c = v[m] /\ l = A[R]
    BY <1>1
  <2>a. a + n <= l
    BY <1>1, <2>0
  <2>b. p[a] = b /\ \A k \in 1..n : flat[a + k] = c
    BY <1>2, <2>0 DEF AreInRows
  <2> DEFINE T == {k \in Nat : k <= n => p[a + k] = b + k * c}
  <2>1. 0 \in T
    <3>1. a + 0 = a /\ b + 0 * c = b
      OBVIOUS
    <3> QED
      BY <2>b, <3>1
  <2>2. ASSUME NEW k \in Nat, k \in T PROVE k + 1 \in T
    <3>1. SUFFICES ASSUME k + 1 <= n PROVE p[a + (k + 1)] = b + (k + 1) * c
      OBVIOUS
    <3>2. a + k + 1 \in 1..l /\ (a + k + 1) - 1 = a + k /\ a + k + 1 = a + (k + 1) /\ k + 1 \in 1..n
      BY <2>a, <3>1
    <3>3. p[a + k + 1] = p[a + k] + flat[a + k + 1]
      <4>1. \A i \in 1..l : p[i] = p[i - 1] + flat[i]
        BY <2>0 DEF IsSums
      <4> QED
        BY <3>2, <4>1
    <3>4. flat[a + k + 1] = c
      BY <2>b, <3>2
    <3>5. p[a + k] = b + k * c
      BY <2>2, <3>1
    <3>6. (k + 1) * c = k * c + c /\ k * c \in Nat
      OBVIOUS
    <3> QED
      BY <3>2, <3>3, <3>4, <3>5, <3>6
  <2>3. Nat \subseteq T
    <3> HIDE DEF T
    <3> QED
      BY <2>1, <2>2, NumbersOfSet
  <2>4. \A k \in 0..n : p[a + k] = b + k * c
    BY <2>3
  <2> QED
    BY <2>0, <2>4
<1> DEFINE T == {m \in Nat : m <= R => p[A[m]] = B[m]}
<1>3. 0 \in T
  BY DEF IsSums, IsSumOfRows
<1>4. ASSUME NEW m \in Nat, m \in T PROVE m + 1 \in T
  <2>1. SUFFICES ASSUME m + 1 <= R PROVE p[A[m + 1]] = B[m + 1]
    OBVIOUS
  <2>2. m + 1 \in 1..R /\ (m + 1) - 1 = m /\ p[A[m]] = B[m]
    BY <1>4, <2>1
  <2>3. N[m + 1] \in 0..N[m + 1] /\ A[m + 1] = A[m] + N[m + 1]
    BY <1>1, <2>2
  <2>4. p[A[m] + N[m + 1]] = B[m] + N[m + 1] * v[m + 1]
    BY <1>2, <2>2, <2>3
  <2> QED
    BY <2>2, <2>3, <2>4 DEF IsSumOfRows
<1>5. Nat \subseteq T
  <2> HIDE DEF T
  <2> QED
    BY <1>3, <1>4, NumbersOfSet
<1>6. ASSUME NEW r \in 1..R, NEW j \in 0..N[r]
      PROVE  A[r - 1] + j \in 0..A[R] /\ p[A[r - 1] + j] = B[r - 1] + j * v[r]
  <2>1. p[A[r - 1]] = B[r - 1]
    <3>1. r - 1 \in Nat /\ r - 1 <= R
      OBVIOUS
    <3> QED
      BY <1>5, <3>1
  <2>2. A[r - 1] + j \in 0..A[R]
    <3>1. PICK a \in Nat, n \in Nat, l \in Nat : a = A[r - 1] /\ n = N[r] /\ l = A[R]
      BY <1>1
    <3>2. a + n <= l /\ j \in 0..n
      BY <1>1, <3>1
    <3>3. a + j \in 0..l
      BY <3>2
    <3> QED
      BY <3>1, <3>3
  <2> QED
    BY <1>2, <2>1, <2>2
<1> QED
  BY <1>6 DEF SumsInRows

\* The number of lists of dimension d in the rows before row r
Ahead(sd, d, q, r) == Sum([m \in 1..(r - 1) |-> NLists(RowShape(sd, m), d, q)])

\* N, the number of lists in each row
AreLists(N, sd, d, q, R) == \A m \in 1..R : N[m] = NLists(RowShape(sd, m), d, q)

\* It is one of the sums of the numbers of lists in each row
LEMMA AheadIs ==
  ASSUME NEW sd, NEW d, NEW q, NEW R \in Nat, NEW N \in [1..R -> Nat],
         AreLists(N, sd, d, q, R), NEW A, IsSums(A, N, R), NEW r \in 1..R
  PROVE  Ahead(sd, d, q, r) = A[r - 1] /\ A[r - 1] \in Nat
<1>1. PICK k \in Nat : k = r - 1 /\ k \in 0..R
  OBVIOUS
<1>2. Sum([m \in 1..k |-> N[m]]) = A[k] /\ A[k] \in Nat
  BY <1>1, SumUpTo
<1>3. [m \in 1..k |-> N[m]] = [m \in 1..k |-> NLists(RowShape(sd, m), d, q)]
  BY <1>1 DEF AreLists
<1>4. Ahead(sd, d, q, r) = Sum([m \in 1..k |-> NLists(RowShape(sd, m), d, q)])
  BY <1>1 DEF Ahead
<1> QED
  BY <1>1, <1>2, <1>3, <1>4

\* GetOffsets(): the lists of a row start after those of the rows before, and each holds as
\* many of the next dimension as the row is long
LEMMA OffsetsOfRow ==
  ASSUME NEW sd, NEW q \in Nat, NEW R \in Nat, ShapedAs(sd, q, R), HasDims(sd, q), RowsOf(sd) = R,
         NEW d \in 1..q, NEW r \in 1..R, NEW j \in 0..NLists(RowShape(sd, r), d, q)
  PROVE  GetOffsets(sd, d)[Ahead(sd, d, q, r) + j + 1] = Ahead(sd, d - 1, q, r) + j * RowShape(sd, r)[d]
<1>1. \A m \in 1..R : RowShape(sd, m) \in Seq(Nat) /\ Len(RowShape(sd, m)) = q
  <2>1. TAKE m \in 1..R
  <2>2. m - 1 \in 0..(R - 1) /\ (m - 1) + 1 = m
    OBVIOUS
  <2> QED
    BY <2>2, RowShapes
<1>2. PICK N : N = [m \in 1..R |-> NLists(RowShape(sd, m), d, q)]
  OBVIOUS
<1>3. PICK v : v = [m \in 1..R |-> DimSize(RowShape(sd, m), d)]
  OBVIOUS
<1>4. PICK M : M = [m \in 1..R |-> NLists(RowShape(sd, m), d - 1, q)]
  OBVIOUS
<1>5. \A m \in 1..R : /\ N[m] \in Nat /\ v[m] \in Nat /\ M[m] \in Nat /\ M[m] = N[m] * v[m]
                      /\ v[m] = RowShape(sd, m)[d]
  <2>1. TAKE m \in 1..R
  <2>2. PICK shape \in Seq(Nat) : shape = RowShape(sd, m) /\ Len(shape) = q
    BY <1>1
  <2>3. /\ NLists(shape, d, q) \in Nat /\ DimSize(shape, d) = shape[d] /\ shape[d] \in Nat
        /\ NLists(shape, d - 1, q) = NLists(shape, d, q) * shape[d]
    BY <2>2, ListsNested
  <2>4. N[m] = NLists(shape, d, q) /\ v[m] = DimSize(shape, d) /\ M[m] = NLists(shape, d - 1, q)
    BY <1>2, <1>3, <1>4, <2>2
  <2>5. NLists(shape, d, q) * shape[d] \in Nat
    BY <2>3, ProductOfNats
  <2> QED
    BY <2>2, <2>3, <2>4, <2>5
<1>6. N \in [1..R -> Nat] /\ v \in [1..R -> Nat] /\ M \in [1..R -> Nat]
  BY <1>2, <1>3, <1>4, <1>5
<1>7. PICK A : IsSums(A, N, R)
  BY <1>6, SumsExist
<1>8. PICK B : IsSums(B, M, R)
  BY <1>6, SumsExist
<1>9. PICK ss : ss = [m \in 1..RowsOf(sd) |->
                        [l \in 1..NLists(RowShape(sd, m), d, sd.ndim - 1) |-> DimSize(RowShape(sd, m), d)]]
  OBVIOUS
<1>10. IsRepeated(ss, N, v, R)
  <2>1. sd.ndim - 1 = q
    BY DEF HasDims
  <2>2. ASSUME NEW m \in 1..R
        PROVE  ss[m] \in Seq(Nat) /\ Len(ss[m]) = N[m] /\ \A l \in 1..N[m] : ss[m][l] = v[m]
    <3>1. ss[m] = [l \in 1..NLists(RowShape(sd, m), d, q) |-> DimSize(RowShape(sd, m), d)]
      BY <1>9, <2>1
    <3>2. NLists(RowShape(sd, m), d, q) = N[m] /\ DimSize(RowShape(sd, m), d) = v[m]
      BY <1>2, <1>3
    <3>3. ss[m] = [l \in 1..N[m] |-> v[m]]
      BY <3>1, <3>2
    <3>4. PICK n \in Nat, x \in Nat : n = N[m] /\ x = v[m]
      BY <1>5
    <3>5. [l \in 1..n |-> x] \in Seq(Nat) /\ Len([l \in 1..n |-> x]) = n
      OBVIOUS
    <3> QED
      BY <3>3, <3>4, <3>5
  <2>3. DOMAIN ss = 1..R
    BY <1>9
  <2>4. ss = [m \in 1..R |-> ss[m]]
    BY <1>9, <2>3
  <2>5. ss \in [1..R -> Seq(Nat)]
    BY <2>2, <2>4
  <2>6. ss \in Seq(Seq(Nat)) /\ Len(ss) = R
    BY <2>5
  <2> QED
    BY <2>2, <2>6 DEF IsRepeated
<1>a. N \in [1..R -> Nat]
  BY <1>6
<1>b. v \in [1..R -> Nat]
  BY <1>6
<1>c. M \in [1..R -> Nat]
  BY <1>6
<1>11. /\ FlattenSeq(ss) \in Seq(Nat) /\ Len(FlattenSeq(ss)) = A[R]
       /\ AreInRows(FlattenSeq(ss), A, N, v, R)
  BY <1>7, <1>10, <1>a, <1>b, FlattenedRows
<1>12. PICK flat : /\ flat \in Seq(Nat) /\ Len(flat) = A[R] /\ flat = FlattenSeq(ss)
                   /\ AreInRows(flat, A, N, v, R)
  BY <1>11
<1>13. PICK n \in Nat : n = Len(flat) /\ n = A[R] /\ flat \in [1..n -> Nat]
  BY <1>12
<1>14. PICK p : IsSums(p, flat, n)
  BY <1>13, SumsExist
<1>15. IsSumOfRows(B, N, v, R)
  <2>1. (\A m \in 0..R : B[m] \in Nat) /\ B[0] = 0 /\ \A m \in 1..R : B[m] = B[m - 1] + M[m]
    BY <1>8 DEF IsSums
  <2> QED
    BY <1>5, <2>1 DEF IsSumOfRows
<1>16. j \in 0..N[r]
  BY <1>2
<1>17. A[r - 1] + j \in 0..n /\ p[A[r - 1] + j] = B[r - 1] + j * v[r]
  <2>1. IsSums(p, flat, A[R])
    BY <1>13, <1>14
  <2>4. AreInRows(flat, A, N, v, R)
    BY <1>12
  <2>5. SumsInRows(p, A, B, N, v, R)
    BY <1>7, <1>15, <1>a, <1>b, <2>1, <2>4, SumsOfRows
  <2> QED
    BY <1>13, <1>16, <2>5 DEF SumsInRows
<1>18. PICK x \in Nat : x = A[r - 1] + j /\ x \in 0..n
  BY <1>17
<1>19. GetOffsets(sd, d) = [l \in 1..(Len(flat) + 1) |-> Sum(SubSeq(flat, 1, l - 1))]
  BY <1>9, <1>12 DEF GetOffsets
<1>20. GetOffsets(sd, d)[x + 1] = Sum(SubSeq(flat, 1, x))
  <2>1. x + 1 \in 1..(Len(flat) + 1) /\ (x + 1) - 1 = x
    BY <1>13, <1>18
  <2> QED
    BY <1>19, <2>1
<1>21. SubSeq(flat, 1, x) = [m \in 1..x |-> flat[m]]
  <2>1. SubSeq(flat, 1, x) = [m \in 1..(x - 1 + 1) |-> flat[m + 1 - 1]]
    BY <1>12, <1>13, <1>18
  <2>2. x - 1 + 1 = x /\ \A m \in 1..x : m + 1 - 1 = m
    OBVIOUS
  <2> QED
    BY <2>1, <2>2
<1>22. Sum([m \in 1..x |-> flat[m]]) = p[x] /\ p[x] \in Nat
  <2>1. flat \in [1..n -> Nat]
    BY <1>13
  <2>2. x \in 0..n
    BY <1>18
  <2> QED
    BY <1>14, <2>1, <2>2, SumUpTo
<1>23. GetOffsets(sd, d)[x + 1] = p[x]
  BY <1>20, <1>21, <1>22
<1>24. Ahead(sd, d, q, r) = A[r - 1]
  <2>1. AreLists(N, sd, d, q, R)
    BY <1>2 DEF AreLists
  <2> QED
    BY <1>7, <1>a, <2>1, AheadIs
<1>25. Ahead(sd, d - 1, q, r) = B[r - 1]
  <2>1. AreLists(M, sd, d - 1, q, R)
    BY <1>4 DEF AreLists
  <2> QED
    BY <1>8, <1>c, <2>1, AheadIs
<1> QED
  BY <1>5, <1>17, <1>18, <1>23, <1>24, <1>25

\* There are as many rows ahead as lists of the rows, and as many elements ahead as lists
\* of none
LEMMA AheadEnds ==
  ASSUME NEW sd, NEW q \in Nat, NEW R \in Nat, ShapedAs(sd, q, R), NEW r \in 1..R
  PROVE  /\ Ahead(sd, q, q, r) = r - 1
         /\ Ahead(sd, 0, q, r) = Sum([m \in 1..(r - 1) |-> Product(RowShape(sd, m))])
<1>1. \A m \in 1..R : RowShape(sd, m) \in Seq(Nat) /\ Len(RowShape(sd, m)) = q
  <2>1. TAKE m \in 1..R
  <2>2. m - 1 \in 0..(R - 1) /\ (m - 1) + 1 = m
    OBVIOUS
  <2> QED
    BY <2>2, RowShapes
<1>2. \A m \in 1..R : /\ NLists(RowShape(sd, m), q, q) = 1
                      /\ NLists(RowShape(sd, m), 0, q) = Product(RowShape(sd, m))
  BY <1>1, ListsEnds
<1>3. PICK N : N = [m \in 1..R |-> 1]
  OBVIOUS
<1>4. PICK A : A = [m \in 0..R |-> m]
  OBVIOUS
<1>5. N \in [1..R -> Nat] /\ A \in [0..R -> Nat]
  BY <1>3, <1>4
<1>6. IsSums(A, N, R)
  <2>1. A[0] = 0
    BY <1>4
  <2>2. ASSUME NEW m \in 1..R PROVE A[m] = A[m - 1] + N[m]
    <3>1. m - 1 \in 0..R /\ m \in 0..R
      OBVIOUS
    <3>2. A[m] = m /\ A[m - 1] = m - 1 /\ N[m] = 1
      BY <1>3, <1>4, <3>1
    <3> QED
      BY <3>2
  <2> QED
    BY <1>5, <2>1, <2>2 DEF IsSums
<1>7. AreLists(N, sd, q, q, R)
  BY <1>2, <1>3 DEF AreLists
<1>8. N \in [1..R -> Nat]
  BY <1>5
<1>9. Ahead(sd, q, q, r) = A[r - 1]
  BY <1>6, <1>7, <1>8, AheadIs
<1>10. A[r - 1] = r - 1
  <2>1. r - 1 \in 0..R
    OBVIOUS
  <2> QED
    BY <1>4, <2>1
<1>11. [m \in 1..(r - 1) |-> NLists(RowShape(sd, m), 0, q)] = [m \in 1..(r - 1) |-> Product(RowShape(sd, m))]
  <2>1. \A m \in 1..(r - 1) : m \in 1..R
    OBVIOUS
  <2> QED
    BY <1>2, <2>1
<1> QED
  BY <1>9, <1>10, <1>11 DEF Ahead

\* Numbers of lists are natural numbers
LEMMA AheadType ==
  ASSUME NEW sd, NEW q \in Nat, NEW R \in Nat, ShapedAs(sd, q, R), NEW r \in 1..R, NEW d \in 0..q
  PROVE  Ahead(sd, d, q, r) \in Nat /\ NLists(RowShape(sd, r), d, q) \in Nat
<1>1. \A m \in 1..R : NLists(RowShape(sd, m), d, q) \in Nat
  <2>1. TAKE m \in 1..R
  <2>2. m - 1 \in 0..(R - 1) /\ (m - 1) + 1 = m
    OBVIOUS
  <2>3. PICK shape \in Seq(Nat) : shape = RowShape(sd, m) /\ Len(shape) = q
    BY <2>2, RowShapes
  <2>4. CASE d = 0
    <3>1. NLists(shape, 0, q) = Product(shape) /\ Product(shape) \in Nat
      BY <2>3, ListsEnds
    <3> QED
      BY <2>3, <2>4, <3>1
  <2>5. CASE d # 0
    <3>1. d \in 1..q
      BY <2>5
    <3>2. NLists(shape, d, q) \in Nat
      BY <2>3, <3>1, ListsNested
    <3> QED
      BY <2>3, <3>2
  <2> QED
    BY <2>4, <2>5
<1>2. PICK N : N = [m \in 1..R |-> NLists(RowShape(sd, m), d, q)]
  OBVIOUS
<1>3. N \in [1..R -> Nat]
  BY <1>1, <1>2
<1>4. AreLists(N, sd, d, q, R)
  BY <1>2 DEF AreLists
<1>5. PICK A : IsSums(A, N, R)
  BY <1>3, SumsExist
<1>6. Ahead(sd, d, q, r) = A[r - 1] /\ A[r - 1] \in Nat
  BY <1>3, <1>4, <1>5, AheadIs
<1> QED
  BY <1>1, <1>6

\* The lists that index i leads to, from row r
IsList(list, sd, i, r, q) ==
  /\ list[q] = r - 1
  /\ \A d \in 1..q : list[d - 1] = GetOffsets(sd, d)[list[d] + 1] + i[d]

\* The list of dimension d is the c-th of the row, and the offset of i is how far the list
\* is, and where i is in it
IsInRow(list, sd, r, d, q, P, v, c) ==
  /\ c \in Nat /\ c < NLists(RowShape(sd, r), d, q)
  /\ list[d] = Ahead(sd, d, q, r) + c
  /\ v[q] = v[d] + P[d] * c

\* From a list to the one in it that i leads to: the index of which is below the next list's
LEMMA NextList ==
  ASSUME NEW sd, NEW q \in Nat, NEW R \in Nat, ShapedAs(sd, q, R), HasDims(sd, q), RowsOf(sd) = R,
         NEW r \in 1..R, NEW i, IsIndex(i, RowShape(sd, r), q), NEW P, IsProducts(P, RowShape(sd, r), q),
         NEW v, IsOffset(v, i, P, q), NEW list, IsList(list, sd, i, r, q),
         NEW d \in 1..q, NEW c, IsInRow(list, sd, r, d, q, P, v, c)
  PROVE  /\ \E e : IsInRow(list, sd, r, d - 1, q, P, v, e)
         /\ list[d - 1] < GetOffsets(sd, d)[list[d] + 2]
<1>1. PICK shape \in Seq(Nat) : shape = RowShape(sd, r) /\ Len(shape) = q
  <2>1. r - 1 \in 0..(R - 1) /\ (r - 1) + 1 = r
    OBVIOUS
  <2> QED
    BY <2>1, RowShapes
<1>2. PICK n \in Nat, s \in Nat, x \in Nat : n = NLists(shape, d, q) /\ s = shape[d] /\ x = i[d] /\ x < s
  <2>1. NLists(shape, d, q) \in Nat
    BY <1>1, ListsNested
  <2>2. i[d] \in Nat /\ shape[d] \in Nat /\ i[d] < shape[d]
    BY <1>1 DEF IsIndex
  <2> QED
    BY <2>1, <2>2
<1>3. NLists(shape, d - 1, q) = n * s
  BY <1>1, <1>2, ListsNested
<1>4. PICK a \in Nat, b \in Nat : a = Ahead(sd, d, q, r) /\ b = Ahead(sd, d - 1, q, r)
  <2>1. d \in 0..q /\ d - 1 \in 0..q
    OBVIOUS
  <2> QED
    BY <2>1, AheadType
<1>5. c \in Nat /\ c < n /\ list[d] = a + c /\ v[q] = v[d] + P[d] * c
  BY <1>1, <1>2, <1>4 DEF IsInRow
<1>6. ASSUME NEW j \in 0..n PROVE GetOffsets(sd, d)[a + j + 1] = b + j * s
  <2>1. j \in 0..NLists(RowShape(sd, r), d, q)
    BY <1>1, <1>2
  <2>2. GetOffsets(sd, d)[Ahead(sd, d, q, r) + j + 1] = Ahead(sd, d - 1, q, r) + j * RowShape(sd, r)[d]
    BY <2>1, OffsetsOfRow
  <2> QED
    BY <1>1, <1>2, <1>4, <2>2
<1>7. list[d - 1] = b + c * s + x
  <2>1. list[d - 1] = GetOffsets(sd, d)[list[d] + 1] + i[d]
    BY DEF IsList
  <2>2. c \in 0..n
    BY <1>5
  <2> QED
    BY <1>2, <1>5, <1>6, <2>1, <2>2
<1>8. list[d - 1] < GetOffsets(sd, d)[list[d] + 2]
  <2>1. c + 1 \in 0..n /\ a + (c + 1) + 1 = a + c + 2
    BY <1>5
  <2>2. GetOffsets(sd, d)[a + (c + 1) + 1] = b + (c + 1) * s
    BY <1>6, <2>1
  <2>3. (c + 1) * s = c * s + s /\ c * s \in Nat
    BY <1>5
  <2>4. list[d] + 2 = a + (c + 1) + 1
    BY <1>5
  <2>5. b + c * s + x < b + (c + 1) * s
    <3>1. PICK y \in Nat : y = c * s /\ (c + 1) * s = y + s
      BY <2>3
    <3>2. b + y + x < b + (y + s)
      BY <1>2
    <3> QED
      BY <3>1, <3>2
  <2> QED
    BY <1>7, <2>2, <2>4, <2>5
<1>9. PICK e \in Nat : e = x + c * s
  BY <1>5, ProductOfNats
<1>10. e < n * s
  <2>1. x + c * s < s * n
    BY <1>2, <1>5, OffsetLess
  <2>2. s * n = n * s
    OBVIOUS
  <2> QED
    BY <1>9, <2>1, <2>2
<1>11. list[d - 1] = b + e
  <2>1. c * s \in Nat
    BY <1>5, ProductOfNats
  <2> QED
    BY <1>7, <1>9, <2>1
<1>12. v[q] = v[d - 1] + P[d - 1] * e
  <2>1. d \in 0..q /\ d - 1 \in 0..q
    OBVIOUS
  <2>2. PICK w \in Nat, y \in Nat : w = v[d - 1] /\ y = P[d - 1]
    BY <2>1 DEF IsOffset, IsProducts
  <2>3. v[d] = w + x * y
    BY <1>2, <2>2 DEF IsOffset
  <2>4. P[d] = y * s
    BY <1>1, <1>2, <2>2 DEF IsProducts
  <2>5. v[q] = (w + x * y) + (y * s) * c
    BY <1>5, <2>3, <2>4
  <2>6. (w + x * y) + (y * s) * c = w + y * (x + c * s)
    BY <1>5
  <2> QED
    BY <1>9, <2>2, <2>5, <2>6
<1>13. IsInRow(list, sd, r, d - 1, q, P, v, e)
  BY <1>1, <1>3, <1>4, <1>10, <1>11, <1>12 DEF IsInRow
<1> QED
  BY <1>8, <1>13

\* The lists lead to the element, and never out of one
LEMMA ListsLead ==
  ASSUME NEW sd, NEW q \in Nat, NEW R \in Nat, ShapedAs(sd, q, R), HasDims(sd, q), RowsOf(sd) = R,
         NEW r \in 1..R, NEW i, IsIndex(i, RowShape(sd, r), q), NEW P, IsProducts(P, RowShape(sd, r), q),
         NEW v, IsOffset(v, i, P, q), NEW list, IsList(list, sd, i, r, q)
  PROVE  /\ list[0] = Ahead(sd, 0, q, r) + v[q]
         /\ \A d \in 1..q : list[d - 1] < GetOffsets(sd, d)[list[d] + 2]
<1> DEFINE T == {m \in Nat : m <= q => \E c : IsInRow(list, sd, r, q - m, q, P, v, c)}
<1>1. 0 \in T
  <2>1. NLists(RowShape(sd, r), q, q) = 1
    <3>1. r - 1 \in 0..(R - 1) /\ (r - 1) + 1 = r
      OBVIOUS
    <3>2. PICK shape \in Seq(Nat) : shape = RowShape(sd, r) /\ Len(shape) = q
      BY <3>1, RowShapes
    <3> QED
      BY <3>2, ListsEnds
  <2>2. list[q] = Ahead(sd, q, q, r) + 0
    <3>1. Ahead(sd, q, q, r) = r - 1 /\ list[q] = r - 1
      BY AheadEnds DEF IsList
    <3> QED
      BY <3>1
  <2>3. v[q] = v[q] + P[q] * 0
    <3>1. v[q] \in Nat /\ P[q] \in Nat
      BY DEF IsOffset, IsProducts
    <3> QED
      BY <3>1
  <2>4. IsInRow(list, sd, r, q, q, P, v, 0)
    BY <2>1, <2>2, <2>3 DEF IsInRow
  <2>5. q - 0 = q
    OBVIOUS
  <2> QED
    BY <2>4, <2>5
<1>2. ASSUME NEW m \in Nat, m \in T PROVE m + 1 \in T
  <2>1. SUFFICES ASSUME m + 1 <= q PROVE \E c : IsInRow(list, sd, r, q - (m + 1), q, P, v, c)
    OBVIOUS
  <2>2. PICK d \in 1..q : d = q - m /\ d - 1 = q - (m + 1)
    BY <2>1
  <2>3. PICK c : IsInRow(list, sd, r, d, q, P, v, c)
    BY <1>2, <2>1, <2>2
  <2>4. \E e : IsInRow(list, sd, r, d - 1, q, P, v, e)
    BY <2>3, NextList
  <2> QED
    BY <2>2, <2>4
<1>3. Nat \subseteq T
  <2> HIDE DEF T
  <2> QED
    BY <1>1, <1>2, NumbersOfSet
<1>4. ASSUME NEW d \in 0..q PROVE \E c : IsInRow(list, sd, r, d, q, P, v, c)
  <2>1. q - d \in Nat /\ q - d <= q /\ q - (q - d) = d
    OBVIOUS
  <2>2. q - d \in T
    BY <1>3, <2>1
  <2> QED
    BY <2>1, <2>2
<1>5. list[0] = Ahead(sd, 0, q, r) + v[q]
  <2>1. PICK c : IsInRow(list, sd, r, 0, q, P, v, c)
    BY <1>4
  <2>2. v[q] = c
    <3>1. c \in Nat /\ v[q] = v[0] + P[0] * c /\ v[0] = 0 /\ P[0] = 1
      BY <2>1 DEF IsInRow, IsOffset, IsProducts
    <3> QED
      BY <3>1
  <2> QED
    BY <2>1, <2>2 DEF IsInRow
<1>6. ASSUME NEW d \in 1..q PROVE list[d - 1] < GetOffsets(sd, d)[list[d] + 2]
  <2>1. d \in 0..q
    OBVIOUS
  <2>2. PICK c : IsInRow(list, sd, r, d, q, P, v, c)
    BY <1>4, <2>1
  <2> QED
    BY <2>2, NextList
<1> QED
  BY <1>5, <1>6

\* The lists from the outermost inwards
ListBody(f, sd, i, r, q) ==
  [d \in 0..q |-> IF d = q THEN r - 1
                  ELSE [e \in 1..q |-> GetOffsets(sd, e)][d + 1][f[d + 1] + 1] + i[d + 1]]

\* There are such lists
LEMMA ListExists ==
  ASSUME NEW sd, NEW i, NEW r, NEW q \in Nat
  PROVE  \E f : f = ListBody(f, sd, i, r, q)
<1> DEFINE At(f, d) == IF d = q THEN r - 1
                       ELSE [e \in 1..q |-> GetOffsets(sd, e)][d + 1][f[d + 1] + 1] + i[d + 1]
           T == {m \in Nat : m <= q => \E f : \A d \in (q - m)..q : f[d] = At(f, d)}
<1>1. 0 \in T
  <2>1. PICK f : f = [d \in {q} |-> r - 1]
    OBVIOUS
  <2>2. \A d \in (q - 0)..q : d = q /\ f[d] = At(f, d)
    <3>1. \A d \in (q - 0)..q : d = q
      OBVIOUS
    <3>2. f[q] = r - 1
      BY <2>1
    <3> QED
      BY <3>1, <3>2
  <2> HIDE DEF At
  <2> QED
    BY <2>2
<1>2. ASSUME NEW m \in Nat, m \in T PROVE m + 1 \in T
  <2>1. SUFFICES ASSUME m + 1 <= q PROVE \E f : \A d \in (q - (m + 1))..q : f[d] = At(f, d)
    <3> HIDE DEF At
    <3> QED
      OBVIOUS
  <2>2. PICK f : \A d \in (q - m)..q : f[d] = At(f, d)
    <3> HIDE DEF At
    <3> QED
      BY <1>2, <2>1
  <2>3. PICK k \in Nat : k = q - (m + 1) /\ k + 1 = q - m /\ k < q
    BY <2>1
  <2>4. PICK x : x = At(f, k)
    OBVIOUS
  <2>5. PICK g : g = [d \in k..q |-> IF d = k THEN x ELSE f[d]]
    OBVIOUS
  <2>6. g[k] = x /\ \A d \in (k + 1)..q : g[d] = f[d]
    BY <2>3, <2>5
  <2>7. At(g, k) = At(f, k)
    <3>1. k # q /\ k + 1 \in (k + 1)..q
      BY <2>3
    <3>2. g[k + 1] = f[k + 1]
      BY <2>6, <3>1
    <3> QED
      BY <3>1, <3>2
  <2>8. ASSUME NEW d \in (k + 1)..q PROVE At(g, d) = At(f, d)
    <3>1. CASE d = q
      BY <3>1
    <3>2. CASE d # q
      <4>1. d + 1 \in (k + 1)..q
        BY <2>3, <3>2
      <4>2. g[d + 1] = f[d + 1]
        BY <2>6, <4>1
      <4> QED
        BY <3>2, <4>2
    <3> QED
      BY <3>1, <3>2
  <2> HIDE DEF At
  <2>9. ASSUME NEW d \in k..q PROVE g[d] = At(g, d)
    <3>1. CASE d = k
      BY <2>4, <2>6, <2>7, <3>1
    <3>2. CASE d # k
      <4>1. d \in (k + 1)..q
        BY <2>3, <3>2
      <4> QED
        BY <2>2, <2>3, <2>6, <2>8, <4>1
    <3> QED
      BY <3>1, <3>2
  <2> QED
    BY <2>3, <2>9
<1>3. Nat \subseteq T
  <2> HIDE DEF T
  <2> QED
    BY <1>1, <1>2, NumbersOfSet
<1>4. PICK f : \A d \in 0..q : f[d] = At(f, d)
  <2>1. q \in T /\ q <= q /\ q - q = 0
    <3> HIDE DEF T
    <3> QED
      BY <1>3
  <2> HIDE DEF At
  <2> QED
    BY <2>1
<1>5. PICK g : g = [d \in 0..q |-> f[d]]
  OBVIOUS
<1>6. ASSUME NEW d \in 0..q PROVE g[d] = At(g, d)
  <2>1. CASE d = q
    BY <1>4, <1>5, <2>1
  <2>2. CASE d # q
    <3>1. d + 1 \in 0..q
      BY <2>2
    <3>2. g[d + 1] = f[d + 1]
      BY <1>5, <3>1
    <3>3. At(g, d) = At(f, d)
      BY <2>2, <3>2
    <3> HIDE DEF At
    <3> QED
      BY <1>4, <1>5, <3>3
  <2> QED
    BY <2>1, <2>2
<1>7. ListBody(g, sd, i, r, q) = [d \in 0..q |-> At(g, d)]
  BY DEF ListBody
<1>8. g = [d \in 0..q |-> At(g, d)]
  <2> HIDE DEF At
  <2> QED
    BY <1>5, <1>6
<1> QED
  BY <1>7, <1>8

\* They are what an index leads to
LEMMA ListIs ==
  ASSUME NEW sd, NEW i, NEW r, NEW q \in Nat,
         NEW list, list = CHOOSE f : f = ListBody(f, sd, i, r, q)
  PROVE  IsList(list, sd, i, r, q)
<1>1. list = ListBody(list, sd, i, r, q)
  BY ListExists
<1>2. \A d \in 0..q : list[d] = IF d = q THEN r - 1
                                ELSE [e \in 1..q |-> GetOffsets(sd, e)][d + 1][list[d + 1] + 1] + i[d + 1]
  BY <1>1 DEF ListBody
<1>3. list[q] = r - 1
  <2>1. q \in 0..q
    OBVIOUS
  <2> QED
    BY <1>2, <2>1
<1>4. ASSUME NEW d \in 1..q PROVE list[d - 1] = GetOffsets(sd, d)[list[d] + 1] + i[d]
  <2>1. d - 1 \in 0..q /\ d - 1 # q /\ (d - 1) + 1 = d
    OBVIOUS
  <2>2. list[d - 1] = [e \in 1..q |-> GetOffsets(sd, e)][d][list[d] + 1] + i[d]
    BY <1>2, <2>1
  <2> QED
    BY <2>2
<1> QED
  BY <1>3, <1>4 DEF IsList

\* The lists that index i leads to, from row r
ListOf(sd, i, r, q) == CHOOSE f : f = ListBody(f, sd, i, r, q)

\* They end at the element
LEMMA ListOfLeads ==
  ASSUME NEW sd, NEW q \in Nat, NEW R \in Nat, ShapedAs(sd, q, R), HasDims(sd, q), RowsOf(sd) = R,
         NEW r \in 1..R, NEW i, DOMAIN i = 1..q, IsIndex(i, RowShape(sd, r), q)
  PROVE  /\ ListOf(sd, i, r, q)[0] =
              Sum([m \in 1..(r - 1) |-> Product(RowShape(sd, m))]) + Dot(i, Strides(RowShape(sd, r)))
         /\ \A d \in 1..q : ListOf(sd, i, r, q)[d - 1] < GetOffsets(sd, d)[ListOf(sd, i, r, q)[d] + 2]
<1>1. PICK list : list = ListOf(sd, i, r, q)
  OBVIOUS
<1>2. IsList(list, sd, i, r, q)
  <2>1. list = CHOOSE f : f = ListBody(f, sd, i, r, q)
    BY <1>1 DEF ListOf
  <2> QED
    BY <2>1, ListIs
<1>3. PICK shape \in Seq(Nat) : shape = RowShape(sd, r) /\ Len(shape) = q
  <2>1. r - 1 \in 0..(R - 1) /\ (r - 1) + 1 = r
    OBVIOUS
  <2> QED
    BY <2>1, RowShapes
<1>4. PICK P : IsProducts(P, shape, q)
  <2>1. shape \in [1..q -> Nat]
    BY <1>3
  <2> QED
    BY <2>1, ProductsExist
<1>5. \A d \in 1..q : i[d] \in Nat /\ P[d - 1] \in Nat
  BY <1>4 DEF IsIndex, IsProducts
<1>6. PICK v : IsOffset(v, i, P, q)
  BY <1>5, OffsetsExist
<1>7. Dot(i, Strides(shape)) = v[q]
  <2>1. \A d \in 1..q : Strides(shape)[d] = P[d - 1]
    BY <1>3, <1>4, StridesAre
  <2>2. AreStrides(Strides(shape), P, i, q)
    BY <1>5, <2>1 DEF AreStrides
  <2> QED
    BY <1>6, <2>2, DotIs
<1>8. /\ list[0] = Ahead(sd, 0, q, r) + v[q]
      /\ \A d \in 1..q : list[d - 1] < GetOffsets(sd, d)[list[d] + 2]
  <2>1. IsProducts(P, RowShape(sd, r), q)
    BY <1>3, <1>4
  <2> QED
    BY <1>2, <1>6, <2>1, ListsLead
<1>9. Ahead(sd, 0, q, r) = Sum([m \in 1..(r - 1) |-> Product(RowShape(sd, m))])
  BY AheadEnds
<1> QED
  BY <1>1, <1>3, <1>7, <1>8, <1>9

\* The rows of a result that is read have as many dimensions as it has, less one
LEMMA ShapeOfRows ==
  ASSUME read \in Reads, ShapeData.ok, Partition.ok, NEW r \in 1..RowsOf(ShapeData)
  PROVE  /\ ShapeData.ndim - 1 \in Nat /\ RowsOf(ShapeData) \in Nat
         /\ ShapedAs(ShapeData, ShapeData.ndim - 1, RowsOf(ShapeData))
         /\ HasDims(ShapeData, ShapeData.ndim - 1)
<1>1. PICK sd : sd = ShapeData
  OBVIOUS
<1>2. sd.ndim >= 0
  <2>1. PICK made : made = Partition
    OBVIOUS
  <2>2. made.ok /\ (sd.ndim < 0 => made = Error)
    BY <1>1, <2>1 DEF Partition, Make
  <2>3. ~ (sd.ndim < 0)
    BY <2>2 DEF Error
  <2>4. sd.ndim \in Int
    BY <1>1, ShapeReadable DEF Readable, FixedData, VariableData
  <2> QED
    BY <2>3, <2>4
<1>3. FixedData(sd) \/ VariableData(sd, Len(sd.rows))
  BY <1>1, ShapeReadable DEF Readable
<1>4. PICK R : R = RowsOf(sd) /\ r \in 1..R
  BY <1>1
<1>5. CASE FixedData(sd)
  <2>0. PICK shape \in Seq(Nat) : shape = sd.shape /\ sd.ndim = Len(shape) /\ Len(shape) >= 1
    BY <1>5 DEF FixedData
  <2>a. PICK l \in Nat : l = Len(shape)
    OBVIOUS
  <2>b. l >= 1
    BY <2>0, <2>a
  <2>c. PICK q \in Nat : q = l - 1
    BY <2>b
  <2>1. q = Len(shape) - 1 /\ sd.ndim = q + 1 /\ shape = sd.shape
    BY <2>0, <2>a, <2>c
  <2>2. R = Last(shape) /\ Last(shape) \in Nat
    <3>1. R = Last(shape)
      BY <1>4, <1>5, <2>1 DEF FixedData, RowsOf
    <3>2. Len(shape) = q + 1
      BY <2>1
    <3> QED
      BY <3>1, <3>2, FrontOf
  <2>3. ShapedAs(sd, q, R) /\ HasDims(sd, q) /\ q = sd.ndim - 1 /\ R \in Nat
    BY <1>5, <2>1, <2>2 DEF FixedData, ShapedAs, HasDims
  <2> QED
    BY <1>1, <1>4, <2>3
<1>6. CASE VariableData(sd, Len(sd.rows))
  <2>1. R = Len(sd.rows) /\ R \in Nat /\ R # 0
    BY <1>4, <1>6 DEF VariableData, RowsOf
  <2>2. \A m \in 1..R : Len(sd.rows[m]) = sd.ndim - 1
    BY <1>2, <1>6, <2>1 DEF VariableData
  <2>3. PICK q \in Nat : q = sd.ndim - 1 /\ sd.ndim = q + 1
    <3>1. sd.rows[1] \in Seq(Nat) /\ Len(sd.rows[1]) = sd.ndim - 1
      BY <1>6, <2>1, <2>2 DEF VariableData
    <3>2. sd.ndim \in Int
      BY <1>6 DEF VariableData
    <3> QED
      BY <3>1, <3>2
  <2>4. ShapedAs(sd, q, R) /\ HasDims(sd, q)
    BY <1>6, <2>1, <2>2, <2>3 DEF VariableData, ShapedAs, HasDims
  <2> QED
    BY <1>1, <1>4, <2>1, <2>3, <2>4
<1> QED
  BY <1>3, <1>5, <1>6

\* Only a request that was partitioned is read
OffsetsInv ==
  /\ read \in Reads
  /\ stage \in {"spread", "read"} \/ outcome = "ok" => ShapeData.ok /\ Partition.ok

\* Every step keeps to that
LEMMA OffsetsSteps ==
  OffsetsInv /\ [Next]_vars => OffsetsInv'
<1> SUFFICES ASSUME OffsetsInv, [Next]_vars PROVE OffsetsInv'
  OBVIOUS
<1>1. read' = read
  BY DEF Next, vars, FailEarly, PartitionTask, Spread, Return, ReadChunk, FailGroup, EndGroup
<1>2. ShapeData' = ShapeData /\ Partition' = Partition
  BY <1>1 DEF ShapeData, Partition, EffectiveSelection
<1>3. CASE PartitionTask
  <2>1. ShapeData.ok /\ Partition.ok
    BY <1>3 DEF PartitionTask
  <2> QED
    BY <1>1, <1>2, <2>1 DEF OffsetsInv
<1>4. CASE ~ PartitionTask
  <2>1. stage' \in {"spread", "read"} \/ outcome' = "ok" => stage \in {"spread", "read"} \/ outcome = "ok"
    BY <1>4 DEF Next, vars, FailEarly, Spread, Return, ReadChunk, FailGroup, EndGroup
  <2> QED
    BY <1>1, <1>2, <2>1 DEF OffsetsInv
<1> QED
  BY <1>3, <1>4

\* The lists of a read lead to its elements
LEMMA OffsetsLead ==
  ASSUME read \in Reads, ShapeData.ok, Partition.ok
  PROVE  ListsLeadToElements
<1> DEFINE q == ShapeData.ndim - 1
           inside(r) == {i \in [1..q -> 0..Max({0} \cup Range(RowShape(ShapeData, r)))] :
                           \A d \in 1..q : i[d] < RowShape(ShapeData, r)[d]}
           list(r, i) == ListOf(ShapeData, i, r, q)
<1>1. ASSUME NEW r \in 1..RowsOf(ShapeData), NEW i \in inside(r)
      PROVE  /\ list(r, i)[0] = Sum([m \in 1..(r - 1) |-> Product(RowShape(ShapeData, m))])
                                 + Dot(i, Strides(RowShape(ShapeData, r)))
             /\ \A d \in 1..q :
                  list(r, i)[d - 1] < [e \in 1..q |-> GetOffsets(ShapeData, e)][d][list(r, i)[d] + 2]
  <2>1. /\ q \in Nat /\ RowsOf(ShapeData) \in Nat
        /\ ShapedAs(ShapeData, q, RowsOf(ShapeData)) /\ HasDims(ShapeData, q)
    BY ShapeOfRows
  <2>2. DOMAIN i = 1..q /\ \A d \in 1..q : i[d] \in Nat /\ i[d] < RowShape(ShapeData, r)[d]
    OBVIOUS
  <2> HIDE DEF inside, q
  <2>3. PICK sd, R : sd = ShapeData /\ R = RowsOf(ShapeData)
    OBVIOUS
  <2>4. R \in Nat /\ ShapedAs(sd, q, R) /\ HasDims(sd, q) /\ R = RowsOf(sd) /\ r \in 1..R
    BY <2>1, <2>3
  <2>5. \A d \in 1..q : RowShape(sd, r)[d] \in Nat
    <3>1. r - 1 \in 0..(R - 1) /\ (r - 1) + 1 = r
      BY <2>4
    <3>2. RowShape(sd, r) \in Seq(Nat) /\ Len(RowShape(sd, r)) = q
      BY <2>1, <2>4, <3>1, RowShapes
    <3> QED
      BY <3>2
  <2>6. IsIndex(i, RowShape(sd, r), q)
    BY <2>2, <2>3, <2>5 DEF IsIndex
  <2>7. /\ ListOf(sd, i, r, q)[0] =
             Sum([m \in 1..(r - 1) |-> Product(RowShape(sd, m))]) + Dot(i, Strides(RowShape(sd, r)))
        /\ \A d \in 1..q : ListOf(sd, i, r, q)[d - 1] < GetOffsets(sd, d)[ListOf(sd, i, r, q)[d] + 2]
    BY <2>1, <2>2, <2>4, <2>6, ListOfLeads
  <2> QED
    BY <2>3, <2>7
<1> QED
  BY <1>1, Zenon DEF ListsLeadToElements, ListOf, ListBody

\* The lists that a result is nested in, with offsets for every row and index, lead
\* to the element that the reads wrote there, and never beyond the list: for cells of
\* any shapes, of as many dimensions as they have (result_shape.cc, GetOffsets())
THEOREM OffsetsLeadToElements == Spec => []ListsLeadToElements
<1>1. Init => OffsetsInv
  BY DEF Init, OffsetsInv
<1>2. OffsetsInv => ListsLeadToElements
  <2> SUFFICES ASSUME OffsetsInv PROVE ListsLeadToElements
    OBVIOUS
  <2>1. CASE outcome = "ok"
    <3>1. read \in Reads /\ ShapeData.ok /\ Partition.ok
      BY <2>1 DEF OffsetsInv
    <3> QED
      BY <3>1, OffsetsLead
  <2>2. CASE outcome # "ok"
    BY <2>2 DEF ListsLeadToElements
  <2> QED
    BY <2>1, <2>2
<1> QED
  BY <1>1, <1>2, OffsetsSteps, PTL DEF Spec

-----------------------------------------------------------------------------
(* The storage units of a column *)

\* What the offset of a row in its band adds up to, from the last axis to the first
AddsUp(p, cube, position, n) ==
  /\ p[0] = position[n + 1] % cube.tile
  /\ \A m \in 1..n : p[m] = p[m - 1] * cube.shape[n + 1 - m] + position[n + 1 - m]

\* A position in a hypercube
IsPosition(cube, position, n) ==
  /\ position \in Seq(Nat) /\ Len(position) = n + 1
  /\ cube.shape \in Seq(Nat) /\ Len(cube.shape) = n + 1 /\ cube.tile \in Nat \ {0}

\* OffsetInBand() adds it up
LEMMA BandSteps ==
  ASSUME NEW n \in Nat, NEW cube, NEW position, IsPosition(cube, position, n)
  PROVE  \E p \in [0..n -> Nat] : AddsUp(p, cube, position, n) /\ p[n] = OffsetInBand(cube, position)
<1>0. PICK x \in Seq(Nat), s \in Seq(Nat), t \in Nat \ {0} :
        x = position /\ s = cube.shape /\ t = cube.tile /\ Len(x) = n + 1 /\ Len(s) = n + 1
  BY DEF IsPosition
<1>1. PICK base \in Nat : base = x[n + 1] % t
  <2>1. x[n + 1] \in Nat
    BY <1>0
  <2>2. x[n + 1] % t \in Nat
    BY <1>0, <2>1
  <2> QED
    BY <2>2
<1>2. Last(x) % t = base
  BY <1>0, <1>1, FrontOf
<1> DEFINE D == SUBSET (1..n)
           axis(i) == n + 1 - i
           up == [d \in 1..(Len(position) - 1) |-> d]
           inner == Reverse(up)
           Code(f) == [S \in SUBSET (DOMAIN inner) |->
                         IF S = {} THEN Last(position) % cube.tile
                         ELSE f[S \ {Max(S)}] * cube.shape[inner[Max(S)]] + position[inner[Max(S)]]]
           Body(f) == [S \in D |-> IF S = {} THEN base
                                   ELSE f[S \ {Max(S)}] * s[axis(Max(S))] + x[axis(Max(S))]]
<1>3. PICK it : it = CHOOSE f : f = Code(f)
  OBVIOUS
<1>4. OffsetInBand(cube, position) = it[DOMAIN inner]
  BY <1>3 DEF OffsetInBand, FoldLeft, MapThenFoldSet
<1>5. DOMAIN inner = 1..n /\ \A i \in 1..n : inner[i] = axis(i)
  <2>1. PICK u : u = [d \in 1..n |-> d]
    OBVIOUS
  <2>2. up = u
    <3>1. 1..(Len(position) - 1) = 1..n
      BY <1>0
    <3> QED
      BY <2>1, <3>1
  <2>3. Len(u) = n /\ \A d \in 1..n : u[d] = d
    BY <2>1
  <2>4. Reverse(u) = [i \in 1..n |-> u[(n - i) + 1]]
    BY <2>3, Zenon DEF Reverse
  <2>5. \A i \in 1..n : (n - i) + 1 \in 1..n /\ (n - i) + 1 = axis(i)
    OBVIOUS
  <2>6. \A i \in 1..n : u[(n - i) + 1] = axis(i)
    BY <2>3, <2>5
  <2> HIDE DEF up, axis
  <2> QED
    BY <2>2, <2>4, <2>6
<1> HIDE DEF inner
<1>6. \A i \in 1..n : axis(i) \in 1..n /\ s[axis(i)] \in Nat /\ x[axis(i)] \in Nat
  BY <1>0
<1>7. \A S \in D : S # {} => Max(S) \in 1..n /\ S \ {Max(S)} \in D
  BY MaxIsOneOf
<1>8. ASSUME NEW f PROVE Code(f) = Body(f)
  BY <1>0, <1>2, <1>5, <1>7
<1> DEFINE Q == Nat \cup {it[S] : S \in D}
<1>f. PICK F : F = [w \in Q \X (1..n) |-> w[1] * s[axis(w[2])] + x[axis(w[2])]]
  OBVIOUS
<1>9. \A r \in Q : \A i \in 1..n : F[<<r, i>>] = r * s[axis(i)] + x[axis(i)]
  BY <1>f
<1>10. \A r \in Nat : r \in Q
  OBVIOUS
<1>11. \A S \in D : it[S] \in Q
  OBVIOUS
<1> HIDE DEF Q, axis
<1>12. IsClosed(Nat, base, F, n)
  <2>1. SUFFICES ASSUME NEW r \in Nat, NEW i \in 1..n PROVE F[<<r, i>>] \in Nat
    BY <1>1 DEF IsClosed
  <2>2. PICK a \in Nat, b \in Nat : a = s[axis(i)] /\ b = x[axis(i)]
    BY <1>6
  <2>3. F[<<r, i>>] = r * a + b
    BY <1>9, <1>10, <2>2
  <2>4. r * a \in Nat
    BY ProductOfNats
  <2>5. r * a + b \in Nat
    BY <2>4
  <2> QED
    BY <2>3, <2>5
<1>13. PICK f \in [D -> Nat] : IsFold(f, base, F, n)
  BY <1>12, FoldExists
<1>14. f = Body(f)
  BY <1>7, <1>9, <1>10, <1>13 DEF IsFold
<1>15. it = Body(it)
  <2>1. f = Code(f)
    BY <1>8, <1>14
  <2> HIDE DEF Code, Body
  <2>2. it = Code(it)
    BY <1>3, <2>1
  <2> QED
    BY <1>8, <2>2
<1>16. IsFold(it, base, F, n)
  BY <1>7, <1>9, <1>11, <1>15 DEF IsFold
<1>17. PICK p \in [0..n -> Nat] : IsFolded(p, base, F, n) /\ p[n] = it[1..n]
  BY <1>12, <1>16, FoldSteps
<1>18. \A m \in 1..n : p[m] = p[m - 1] * s[n + 1 - m] + x[n + 1 - m]
  <2>1. TAKE m \in 1..n
  <2>2. p[m] = F[<<p[m - 1], m>>] /\ p[m - 1] \in Nat
    BY <1>17 DEF IsFolded
  <2> QED
    BY <1>9, <1>10, <2>2 DEF axis
<1>19. AddsUp(p, cube, position, n)
  BY <1>0, <1>1, <1>17, <1>18 DEF AddsUp, IsFolded
<1> QED
  BY <1>4, <1>5, <1>17, <1>19

\* At its first position the offset is none
LEMMA BandFirst ==
  ASSUME NEW n \in Nat, NEW cube, NEW position, IsPosition(cube, position, n), IsFirst(cube, position)
  PROVE  OffsetInBand(cube, position) = 0
<1>1. PICK p \in [0..n -> Nat] : AddsUp(p, cube, position, n) /\ p[n] = OffsetInBand(cube, position)
  BY BandSteps
<1>2. /\ position[n + 1] % cube.tile = 0
      /\ \A d \in 1..n : position[d] = 0 /\ cube.shape[d] \in Nat
  <2>1. Last(position) = position[n + 1]
    BY FrontOf DEF IsPosition
  <2>2. Len(position) - 1 = n
    BY DEF IsPosition
  <2>3. \A d \in 1..n : cube.shape[d] \in Nat
    <3>1. PICK s \in Seq(Nat) : s = cube.shape /\ Len(s) = n + 1
      BY DEF IsPosition
    <3>2. \A d \in 1..n : s[d] \in Nat
      BY <3>1
    <3> QED
      BY <3>1, <3>2
  <2>4. \A d \in 1..n : position[d] = 0
    BY <2>2 DEF IsFirst
  <2>5. position[n + 1] % cube.tile = 0
    BY <2>1 DEF IsFirst
  <2> QED
    BY <2>3, <2>4, <2>5
<1> DEFINE T == {m \in Nat : m <= n => p[m] = 0}
<1>3. 0 \in T
  BY <1>1, <1>2 DEF AddsUp
<1>4. ASSUME NEW m \in Nat, m \in T PROVE m + 1 \in T
  <2>1. SUFFICES ASSUME m + 1 <= n PROVE p[m + 1] = 0
    OBVIOUS
  <2>2. m + 1 \in 1..n /\ (m + 1) - 1 = m /\ p[m] = 0
    BY <1>4, <2>1
  <2>3. PICK d \in 1..n : d = n + 1 - (m + 1)
    BY <2>2
  <2>4. p[m + 1] = p[m] * cube.shape[d] + position[d]
    BY <1>1, <2>2, <2>3 DEF AddsUp
  <2> QED
    BY <1>2, <2>2, <2>4
<1>5. Nat \subseteq T
  <2> HIDE DEF T
  <2> QED
    BY <1>3, <1>4, NumbersOfSet
<1> QED
  BY <1>1, <1>5

\* The remainder of the next number with the same quotient
LEMMA NextRemainder ==
  ASSUME NEW t \in Nat \ {0}, NEW a \in Nat, (a + 1) \div t = a \div t
  PROVE  (a + 1) % t = (a % t) + 1
OBVIOUS

\* A step of an axis, whether the ones before are at their ends or not
LEMMA NextTerm ==
  ASSUME NEW a \in Nat, NEW s \in Nat, NEW e \in Nat, e = s - 1
  PROVE  (a + 1) * s + 0 = (a * s + e) + 1
OBVIOUS

\* The coordinates of a position
LEMMA CoordinateType ==
  ASSUME NEW n \in Nat, NEW z, z \in Seq(Nat), Len(z) = n + 1
  PROVE  DOMAIN z = 1..(n + 1) /\ \A d \in 1..(n + 1) : z[d] \in Nat
<1>1. \A d \in 1..Len(z) : z[d] \in Nat
  OBVIOUS
<1>2. DOMAIN z = 1..Len(z)
  OBVIOUS
<1> QED
  BY <1>1, <1>2

\* Stepping to the next position in the band adds one
LEMMA BandNext ==
  ASSUME NEW n \in Nat, NEW cube, NEW x, NEW y, IsPosition(cube, x, n), IsPosition(cube, y, n),
         IsNext(cube, x, y), Last(x) \div cube.tile = Last(y) \div cube.tile
  PROVE  OffsetInBand(cube, y) = OffsetInBand(cube, x) + 1
<1>1. PICK p \in [0..n -> Nat] : AddsUp(p, cube, x, n) /\ p[n] = OffsetInBand(cube, x)
  BY BandSteps
<1>2. PICK q \in [0..n -> Nat] : AddsUp(q, cube, y, n) /\ q[n] = OffsetInBand(cube, y)
  BY BandSteps
<1>3. PICK s \in Seq(Nat), t \in Nat \ {0} : s = cube.shape /\ t = cube.tile /\ Len(s) = n + 1
  BY DEF IsPosition
<1>4. DOMAIN x = 1..(n + 1) /\ \A d \in 1..(n + 1) : x[d] \in Nat /\ y[d] \in Nat /\ s[d] \in Nat
  <2>1. x \in Seq(Nat) /\ Len(x) = n + 1 /\ y \in Seq(Nat) /\ Len(y) = n + 1
    BY DEF IsPosition
  <2>2. DOMAIN x = 1..(n + 1) /\ \A d \in 1..(n + 1) : x[d] \in Nat
    BY <2>1, CoordinateType
  <2>3. \A d \in 1..(n + 1) : y[d] \in Nat
    BY <2>1, CoordinateType
  <2>4. \A d \in 1..(n + 1) : s[d] \in Nat
    BY <1>3
  <2> QED
    BY <2>2, <2>3, <2>4
<1>5. PICK k \in 1..(n + 1) :
        /\ y[k] = x[k] + 1
        /\ \A d \in 1..(n + 1) : /\ d < k => x[d] = s[d] - 1 /\ y[d] = 0
                                 /\ d > k => y[d] = x[d]
  BY <1>3, <1>4 DEF IsNext
<1>6. x[n + 1] \div t = y[n + 1] \div t
  <2>1. Last(x) = x[n + 1]
    BY FrontOf DEF IsPosition
  <2>2. Last(y) = y[n + 1]
    BY FrontOf DEF IsPosition
  <2> QED
    BY <1>3, <2>1, <2>2
<1>7. /\ p[0] = x[n + 1] % t /\ q[0] = y[n + 1] % t
      /\ \A m \in 1..n : /\ p[m] = p[m - 1] * s[n + 1 - m] + x[n + 1 - m]
                          /\ q[m] = q[m - 1] * s[n + 1 - m] + y[n + 1 - m]
  BY <1>1, <1>2, <1>3 DEF AddsUp
<1> DEFINE T == {m \in Nat : m <= n => IF m < n + 1 - k THEN q[m] = p[m] ELSE q[m] = p[m] + 1}
<1>8. 0 \in T
  <2>1. CASE k = n + 1
    <3>1. PICK a \in Nat : a = x[n + 1]
      BY <1>4
    <3>2. y[n + 1] = a + 1
      BY <1>5, <2>1, <3>1
    <3>3. (a + 1) \div t = a \div t
      BY <1>6, <3>1, <3>2
    <3>4. (a + 1) % t = (a % t) + 1
      BY <1>3, <3>3, NextRemainder
    <3>5. q[0] = p[0] + 1
      BY <1>7, <3>1, <3>2, <3>4
    <3> QED
      BY <2>1, <3>5
  <2>2. CASE k # n + 1
    <3>1. k < n + 1 /\ n + 1 \in 1..(n + 1)
      BY <2>2
    <3>2. y[n + 1] = x[n + 1]
      BY <1>5, <3>1
    <3> QED
      BY <1>7, <3>1, <3>2
  <2> QED
    BY <2>1, <2>2
<1>9. ASSUME NEW m \in Nat, m \in T PROVE m + 1 \in T
  <2>1. SUFFICES ASSUME m + 1 <= n PROVE IF m + 1 < n + 1 - k THEN q[m + 1] = p[m + 1] ELSE q[m + 1] = p[m + 1] + 1
    OBVIOUS
  <2>2. m + 1 \in 1..n /\ (m + 1) - 1 = m /\ m \in 0..n
    BY <2>1
  <2>3. PICK d \in 1..n : d = n + 1 - (m + 1)
    BY <2>2
  <2>4. PICK a \in Nat, b \in Nat, u \in Nat, v \in Nat, e \in Nat :
          a = p[m] /\ b = q[m] /\ u = x[d] /\ v = y[d] /\ e = s[d]
    <3>1. p[m] \in Nat /\ q[m] \in Nat
      BY <2>2
    <3>2. x[d] \in Nat /\ y[d] \in Nat /\ s[d] \in Nat
      BY <1>4
    <3> QED
      BY <3>1, <3>2
  <2>5. p[m + 1] = a * e + u /\ q[m + 1] = b * e + v
    BY <1>7, <2>2, <2>3, <2>4
  <2>6. CASE d > k
    <3>1. b = a /\ v = u
      BY <1>5, <1>9, <2>1, <2>3, <2>4, <2>6
    <3> QED
      BY <2>3, <2>5, <2>6, <3>1
  <2>7. CASE d = k
    <3>1. v = u + 1
      BY <1>5, <2>4, <2>7
    <3>3. m < n + 1 - k
      BY <2>3, <2>7
    <3>4. b = a
      BY <1>9, <2>1, <2>4, <3>3
    <3>2. a * e \in Nat
      BY ProductOfNats
    <3> QED
      BY <2>3, <2>5, <2>7, <3>1, <3>2, <3>4
  <2>8. CASE d < k
    <3>1. b = a + 1 /\ v = 0 /\ u = e - 1
      BY <1>5, <1>9, <2>1, <2>3, <2>4, <2>8
    <3>2. (a + 1) * e + 0 = (a * e + u) + 1
      BY <3>1, NextTerm
    <3> QED
      BY <2>3, <2>5, <2>8, <3>1, <3>2
  <2> QED
    BY <2>6, <2>7, <2>8
<1>10. Nat \subseteq T
  <2> HIDE DEF T
  <2> QED
    BY <1>8, <1>9, NumbersOfSet
<1>11. ~ (n < n + 1 - k)
  OBVIOUS
<1> QED
  BY <1>1, <1>2, <1>10, <1>11

\* The starts of the units are those rows on: the start of a row is the row itself, or that
\* of the row before; and rows of one unit have one start
HaveStarts(storage) ==
  /\ UnitStart(storage, 0) = 0
  /\ \A r \in Nat : UnitStart(storage, r + 1) \in {r + 1, UnitStart(storage, r)}
  /\ \A r, s \in Nat : UnitOf(storage, r) = UnitOf(storage, s) =>
                        UnitStart(storage, r) = UnitStart(storage, s)

\* The next number has the next remainder, or none
LEMMA NextBlock ==
  ASSUME NEW k \in Nat, k > 1, NEW r \in Nat
  PROVE  (r + 1) % k = 0 \/ (r + 1) % k = (r % k) + 1
<1>1. PICK m \in 0..(k - 1), q \in Nat : m = r % k /\ q = r \div k /\ r = k * q + m
  <2>1. r % k \in 0..(k - 1) /\ r \div k \in Nat /\ r = k * (r \div k) + (r % k)
    OBVIOUS
  <2> QED
    BY <2>1
<1>2. PICK n \in 0..(k - 1), p \in Nat : n = (r + 1) % k /\ r + 1 = k * p + n
  <2>1. PICK w \in Nat : w = r + 1
    OBVIOUS
  <2>2. w % k \in 0..(k - 1) /\ w \div k \in Nat /\ w = k * (w \div k) + (w % k)
    OBVIOUS
  <2> QED
    BY <2>1, <2>2
<1>3. PICK z \in Int : z = p - q
  OBVIOUS
<1>4. k * z = m + 1 - n
  <2>1. k * z = k * p - k * q
    BY <1>3
  <2>2. k * p \in Nat /\ k * q \in Nat
    BY ProductOfNats
  <2> QED
    BY <1>1, <1>2, <2>1, <2>2
<1>5. z \in {0, 1}
  <2>1. z <= -1 => k * z <= -k
    OBVIOUS
  <2>2. z >= 2 => k * z >= 2 * k
    OBVIOUS
  <2> QED
    BY <1>4, <2>1, <2>2
<1>6. CASE z = 0
  BY <1>1, <1>2, <1>4, <1>6
<1>7. CASE z = 1
  BY <1>1, <1>2, <1>4, <1>7
<1> QED
  BY <1>5, <1>6, <1>7

\* A remainder is what the quotient leaves
LEMMA Remainder == ASSUME NEW k \in Nat, k > 1, NEW r \in Nat PROVE r - (r % k) = k * (r \div k)
OBVIOUS

\* Blocks start every so many rows
LEMMA BlockStarts ==
  ASSUME NEW storage, storage.manager = "dysco", storage.rowsPerBlock \in Nat, HasUnits(storage)
  PROVE  HaveStarts(storage)
<1>1. PICK k \in Nat : k = storage.rowsPerBlock /\ k > 1
  BY DEF HasUnits
<1>2. \A r \in Nat : UnitStart(storage, r) = r - (r % k) /\ UnitOf(storage, r) = <<1, r \div k>>
  BY <1>1 DEF UnitStart, UnitOf
<1>3. UnitStart(storage, 0) = 0
  BY <1>1, <1>2
<1>4. ASSUME NEW r \in Nat PROVE UnitStart(storage, r + 1) \in {r + 1, UnitStart(storage, r)}
  <2>1. PICK m \in Nat : m = r % k
    BY <1>1
  <2>2. PICK n \in Nat : n = (r + 1) % k
    BY <1>1
  <2>3. n = 0 \/ n = m + 1
    BY <1>1, <2>1, <2>2, NextBlock
  <2>4. UnitStart(storage, r) = r - m /\ UnitStart(storage, r + 1) = (r + 1) - n
    BY <1>2, <2>1, <2>2
  <2> QED
    BY <2>3, <2>4
<1>5. ASSUME NEW r \in Nat, NEW s \in Nat, UnitOf(storage, r) = UnitOf(storage, s)
      PROVE  UnitStart(storage, r) = UnitStart(storage, s)
  <2>1. r \div k = s \div k
    BY <1>2, <1>5
  <2>2. UnitStart(storage, r) = k * (r \div k) /\ UnitStart(storage, s) = k * (s \div k)
    BY <1>1, <1>2, Remainder
  <2> QED
    BY <2>1, <2>2
<1> QED
  BY <1>3, <1>4, <1>5 DEF HaveStarts

\* The offset of a row in its band
OffsetOf(storage, row) ==
  OffsetInBand(storage.cubes[storage.cells[row + 1].cube], storage.cells[row + 1].position)

\* The rows that hypercubes hold in order, band by band
IsTiled(storage, nrows) ==
  /\ nrows \in Nat /\ IsStorage(storage, nrows) /\ storage.manager = "tiled"
  /\ UnitsConsecutive(storage, nrows) /\ UnitsInOrder(storage, nrows)

\* A row in a hypercube has a cell there
LEMMA CellIs ==
  ASSUME NEW storage, NEW nrows, IsTiled(storage, nrows), NEW row \in Nat, InHypercube(storage, row)
  PROVE  /\ row < nrows /\ row \in 0..(nrows - 1)
         /\ storage.cells[row + 1].cube \in Nat \ {0}
         /\ \E n \in Nat : IsPosition(storage.cubes[storage.cells[row + 1].cube],
                                      storage.cells[row + 1].position, n)
         /\ UnitOf(storage, row)[1] = storage.cells[row + 1].cube
<1> DEFINE Cells == [cube : Nat \ {0}, position : Seq(Nat) \ {<<>>}]
           Fits(r) == LET cube == storage.cubes[storage.cells[r].cube]
                      IN  /\ cube.tile \in Nat \ {0}
                          /\ cube.shape \in Seq(Nat) /\ Len(cube.shape) = Len(storage.cells[r].position)
<1>a. storage # Other /\ storage.manager # "dysco"
  BY DEF IsTiled, Other
<1>b. storage.cells \in Seq(Cells) /\ Len(storage.cells) <= nrows /\ \A r \in DOMAIN storage.cells : Fits(r)
  BY <1>a, Zenon DEF IsTiled, IsStorage
<1>c. PICK C : C = Cells
  OBVIOUS
<1> HIDE DEF Cells
<1>1. PICK cells \in Seq(C) : cells = storage.cells /\ Len(cells) <= nrows /\ \A r \in DOMAIN cells : Fits(r)
  BY <1>b, <1>c
<1>2. row + 1 \in DOMAIN cells
  BY <1>1 DEF InHypercube
<1>3. PICK cell \in [cube : Nat \ {0}, position : Seq(Nat) \ {<<>>}] : cell = cells[row + 1]
  <2>1. cells[row + 1] \in C
    BY <1>2
  <2> QED
    BY <1>c, <2>1 DEF Cells
<1>4. row < nrows /\ row \in 0..(nrows - 1)
  <2>1. row + 1 <= Len(cells) /\ nrows \in Nat
    BY <1>2 DEF IsTiled
  <2> QED
    BY <1>1, <2>1
<1>5. PICK x \in Seq(Nat) : x = cell.position /\ x # <<>>
  BY <1>3
<1>6. PICK n \in Nat : Len(x) = n + 1
  <2>1. Len(x) - 1 \in Nat
    BY <1>5
  <2>2. Len(x) = (Len(x) - 1) + 1
    OBVIOUS
  <2> QED
    BY <2>1, <2>2
<1>7. IsPosition(storage.cubes[cell.cube], cell.position, n)
  <2>1. PICK cube : cube = storage.cubes[cell.cube]
    OBVIOUS
  <2>2. cube.tile \in Nat \ {0} /\ cube.shape \in Seq(Nat) /\ Len(cube.shape) = Len(x)
    BY <1>1, <1>2, <1>3, <1>5, <2>1, Zenon DEF Suits
  <2> QED
    BY <1>5, <1>6, <2>1, <2>2 DEF IsPosition
<1>8. UnitOf(storage, row)[1] = cell.cube
  <2>1. storage.manager = "tiled"
    BY DEF IsTiled
  <2>2. UnitOf(storage, row) = <<cell.cube, Last(cell.position) \div storage.cubes[cell.cube].tile>>
    BY <1>1, <1>3, <2>1 DEF UnitOf
  <2> QED
    BY <2>2
<1> QED
  BY <1>1, <1>3, <1>4, <1>7, <1>8

\* Rows of the unit of a row in a hypercube are in the hypercube too
LEMMA UnitInside ==
  ASSUME NEW storage, NEW nrows, IsTiled(storage, nrows),
         NEW r \in Nat, InHypercube(storage, r), NEW s \in Nat, UnitOf(storage, r) = UnitOf(storage, s)
  PROVE  InHypercube(storage, s)
<1>1. UnitOf(storage, r)[1] # 0
  BY CellIs
<1>2. storage.manager = "tiled"
  BY DEF IsTiled
<1>3. SUFFICES ASSUME ~ InHypercube(storage, s) PROVE FALSE
  OBVIOUS
<1>4. UnitOf(storage, s) = <<0, s>>
  BY <1>2, <1>3 DEF UnitOf
<1> QED
  BY <1>1, <1>4

\* In a hypercube, a row is one on from the row before, or the first of its band
LEMMA OffsetSteps ==
  ASSUME NEW storage, NEW nrows, IsTiled(storage, nrows), NEW r \in Nat, InHypercube(storage, r)
  PROVE  \/ OffsetOf(storage, r) = 0 /\ ~ (r > 0 /\ UnitOf(storage, r - 1) = UnitOf(storage, r))
         \/ /\ r > 0 /\ UnitOf(storage, r - 1) = UnitOf(storage, r) /\ InHypercube(storage, r - 1)
            /\ OffsetOf(storage, r) = OffsetOf(storage, r - 1) + 1
<1>1. r \in 0..(nrows - 1)
  BY CellIs
<1>2. PICK cell, cube : cell = storage.cells[r + 1] /\ cube = storage.cubes[cell.cube]
  OBVIOUS
<1>3. PICK n \in Nat : IsPosition(cube, cell.position, n)
  BY <1>2, CellIs
<1>4. OffsetOf(storage, r) = OffsetInBand(cube, cell.position)
  BY <1>2 DEF OffsetOf
<1>5. IF r > 0 /\ UnitOf(storage, r - 1) = UnitOf(storage, r)
      THEN IsNext(cube, storage.cells[r].position, cell.position)
      ELSE IsFirst(cube, cell.position)
  BY <1>1, <1>2 DEF IsTiled, UnitsInOrder
<1>6. CASE ~ (r > 0 /\ UnitOf(storage, r - 1) = UnitOf(storage, r))
  <2>1. IsFirst(cube, cell.position)
    BY <1>5, <1>6
  <2>2. OffsetInBand(cube, cell.position) = 0
    BY <1>3, <2>1, BandFirst
  <2> QED
    BY <1>4, <1>6, <2>2
<1>7. CASE r > 0 /\ UnitOf(storage, r - 1) = UnitOf(storage, r)
  <2>1. PICK q \in Nat : q = r - 1 /\ q + 1 = r
    BY <1>7
  <2>2. UnitOf(storage, r) = UnitOf(storage, q)
    BY <1>7, <2>1
  <2>3. InHypercube(storage, q)
    BY <2>2, UnitInside
  <2>4. PICK old : old = storage.cells[q + 1] /\ old = storage.cells[r]
    BY <2>1
  <2>5. storage.manager = "tiled"
    BY DEF IsTiled
  <2>6. UnitOf(storage, r) = <<cell.cube, Last(cell.position) \div cube.tile>>
    BY <1>2, <2>5 DEF UnitOf
  <2>7. UnitOf(storage, q) = <<old.cube, Last(old.position) \div storage.cubes[old.cube].tile>>
    BY <2>3, <2>4, <2>5 DEF UnitOf
  <2>8. old.cube = cell.cube
    <3>1. UnitOf(storage, r)[1] = cell.cube /\ UnitOf(storage, q)[1] = old.cube
      BY <1>2, <2>3, <2>4, CellIs
    <3> QED
      BY <2>2, <3>1
  <2>9. storage.cubes[old.cube] = cube
    BY <1>2, <2>8
  <2>10. Last(old.position) \div cube.tile = Last(cell.position) \div cube.tile
    <3>1. PICK a, b : a = Last(old.position) \div cube.tile /\ b = Last(cell.position) \div cube.tile
      OBVIOUS
    <3>2. <<old.cube, a>> = <<cell.cube, b>>
      BY <2>2, <2>6, <2>7, <2>9, <3>1
    <3>3. a = b
      BY <3>2
    <3> QED
      BY <3>1, <3>3
  <2>11. IsPosition(cube, old.position, n)
    <3>1. PICK m \in Nat : IsPosition(storage.cubes[old.cube], old.position, m)
      BY <2>3, <2>4, CellIs
    <3>2. IsPosition(cube, old.position, m)
      BY <2>9, <3>1
    <3>3. m = n
      BY <1>3, <3>2 DEF IsPosition
    <3> QED
      BY <3>2, <3>3
  <2>12. IsNext(cube, old.position, cell.position)
    BY <1>5, <1>7, <2>4
  <2>13. OffsetInBand(cube, cell.position) = OffsetInBand(cube, old.position) + 1
    BY <1>3, <2>10, <2>11, <2>12, BandNext
  <2>14. OffsetOf(storage, q) = OffsetInBand(cube, old.position)
    BY <2>4, <2>9 DEF OffsetOf
  <2> QED
    BY <1>4, <1>7, <2>1, <2>3, <2>13, <2>14
<1> QED
  BY <1>6, <1>7

\* The first row of the unit is as far ahead as the offset says
LEMMA TiledStart ==
  ASSUME NEW storage, NEW nrows, IsTiled(storage, nrows), NEW row \in Nat
  PROVE  /\ InHypercube(storage, row) =>
              /\ OffsetOf(storage, row) \in Nat /\ OffsetOf(storage, row) <= row
              /\ UnitStart(storage, row) = row - OffsetOf(storage, row)
         /\ ~ InHypercube(storage, row) => UnitStart(storage, row) = row
<1>1. storage.manager = "tiled"
  BY DEF IsTiled
<1> DEFINE T == {r \in Nat : InHypercube(storage, r) => OffsetOf(storage, r) \in Nat /\ OffsetOf(storage, r) <= r}
<1>2. 0 \in T
  <2>1. SUFFICES ASSUME InHypercube(storage, 0) PROVE OffsetOf(storage, 0) = 0
    OBVIOUS
  <2> QED
    BY <2>1, OffsetSteps
<1>3. ASSUME NEW r \in Nat, r \in T PROVE r + 1 \in T
  <2>1. SUFFICES ASSUME InHypercube(storage, r + 1)
                 PROVE  OffsetOf(storage, r + 1) \in Nat /\ OffsetOf(storage, r + 1) <= r + 1
    OBVIOUS
  <2>2. PICK q \in Nat : q = r + 1 /\ q - 1 = r
    OBVIOUS
  <2>3. \/ OffsetOf(storage, q) = 0
        \/ InHypercube(storage, q - 1) /\ OffsetOf(storage, q) = OffsetOf(storage, q - 1) + 1
    BY <2>1, <2>2, OffsetSteps
  <2> QED
    BY <1>3, <2>2, <2>3
<1>4. Nat \subseteq T
  <2> HIDE DEF T
  <2> QED
    BY <1>2, <1>3, NumbersOfSet
<1>5. CASE InHypercube(storage, row)
  <2>1. OffsetOf(storage, row) \in Nat /\ OffsetOf(storage, row) <= row
    BY <1>4, <1>5
  <2>2. UnitStart(storage, row) = row - OffsetOf(storage, row)
    BY <1>1, <1>5, <2>1 DEF UnitStart, OffsetOf
  <2> QED
    BY <1>5, <2>1, <2>2
<1>6. CASE ~ InHypercube(storage, row)
  BY <1>1, <1>6 DEF UnitStart
<1> QED
  BY <1>5, <1>6

\* Rows of a unit that follow each other have one start
LEMMA TiledNext ==
  ASSUME NEW storage, NEW nrows, IsTiled(storage, nrows), NEW r \in Nat
  PROVE  /\ UnitStart(storage, r + 1) \in {r + 1, UnitStart(storage, r)}
         /\ InHypercube(storage, r) /\ UnitOf(storage, r) = UnitOf(storage, r + 1) =>
              UnitStart(storage, r + 1) = UnitStart(storage, r)
<1>1. PICK q \in Nat : q = r + 1 /\ q - 1 = r /\ q > 0
  OBVIOUS
<1>2. CASE InHypercube(storage, q)
  <2>1. PICK x \in Nat : x = OffsetOf(storage, q) /\ UnitStart(storage, q) = q - x
    BY <1>2, TiledStart
  <2>2. CASE UnitOf(storage, r) = UnitOf(storage, q)
    <3>1. InHypercube(storage, r) /\ x = OffsetOf(storage, r) + 1
      BY <1>1, <1>2, <2>1, <2>2, OffsetSteps
    <3>2. PICK y \in Nat : y = OffsetOf(storage, r) /\ UnitStart(storage, r) = r - y
      BY <3>1, TiledStart
    <3> QED
      BY <1>1, <2>1, <3>1, <3>2
  <2>3. CASE UnitOf(storage, r) # UnitOf(storage, q)
    <3>1. x = 0
      BY <1>1, <1>2, <2>1, <2>3, OffsetSteps
    <3>2. UnitStart(storage, q) = r + 1
      BY <1>1, <2>1, <3>1
    <3> QED
      BY <1>1, <2>3, <3>2
  <2> QED
    BY <2>2, <2>3
<1>3. CASE ~ InHypercube(storage, q)
  <2>1. UnitStart(storage, q) = q
    BY <1>3, TiledStart
  <2>2. ~ (InHypercube(storage, r) /\ UnitOf(storage, r) = UnitOf(storage, q))
    BY <1>3, UnitInside
  <2> QED
    BY <1>1, <2>1, <2>2
<1> QED
  BY <1>2, <1>3

\* Rows of a unit have one start, as no other row comes between them
LEMMA TiledUnit ==
  ASSUME NEW storage, NEW nrows, IsTiled(storage, nrows), NEW r \in Nat, NEW s \in Nat, r < s,
         UnitOf(storage, r) = UnitOf(storage, s)
  PROVE  UnitStart(storage, r) = UnitStart(storage, s)
<1>1. InHypercube(storage, r) /\ InHypercube(storage, s)
  <2>1. storage.manager = "tiled"
    BY DEF IsTiled
  <2>2. InHypercube(storage, r) <=> InHypercube(storage, s)
    BY UnitInside
  <2>3. ~ (~ InHypercube(storage, r) /\ ~ InHypercube(storage, s))
    <3>1. SUFFICES ASSUME ~ InHypercube(storage, r), ~ InHypercube(storage, s) PROVE FALSE
      OBVIOUS
    <3>2. UnitOf(storage, r) = <<0, r>> /\ UnitOf(storage, s) = <<0, s>>
      BY <2>1, <3>1 DEF UnitOf
    <3>3. <<0, r>> = <<0, s>>
      BY <3>2
    <3>4. r = s
      BY <3>3
    <3> QED
      BY <3>4
  <2> QED
    BY <2>2, <2>3
<1>2. r \in 0..(nrows - 1) /\ s \in 0..(nrows - 1) /\ nrows \in Nat
  <2>1. r \in 0..(nrows - 1)
    BY <1>1, CellIs
  <2>2. s \in 0..(nrows - 1)
    BY <1>1, CellIs
  <2> QED
    BY <2>1, <2>2 DEF IsTiled
<1>3. ASSUME NEW t \in Nat, r < t, t < s PROVE UnitOf(storage, t) = UnitOf(storage, r)
  <2>1. t \in 0..(nrows - 1)
    BY <1>2, <1>3
  <2> QED
    BY <1>2, <1>3, <2>1 DEF IsTiled, UnitsConsecutive
<1> DEFINE T == {j \in Nat : r + j <= s => UnitStart(storage, r + j) = UnitStart(storage, r)}
<1>4. 0 \in T
  <2>1. r + 0 = r
    OBVIOUS
  <2> QED
    BY <2>1
<1>5. ASSUME NEW j \in Nat, j \in T PROVE j + 1 \in T
  <2>1. SUFFICES ASSUME r + (j + 1) <= s PROVE UnitStart(storage, r + (j + 1)) = UnitStart(storage, r)
    OBVIOUS
  <2>2. PICK t \in Nat : t = r + j /\ t + 1 = r + (j + 1) /\ t + 1 <= s
    BY <2>1
  <2>3. UnitStart(storage, t) = UnitStart(storage, r)
    BY <1>5, <2>2
  <2>4. UnitOf(storage, t) = UnitOf(storage, r)
    <3>1. t = r \/ (r < t /\ t < s)
      BY <2>2
    <3> QED
      BY <1>3, <3>1
  <2>5. UnitOf(storage, t + 1) = UnitOf(storage, r)
    <3>1. t + 1 = s \/ (r < t + 1 /\ t + 1 < s)
      BY <2>2
    <3> QED
      BY <1>3, <3>1
  <2>6. InHypercube(storage, t)
    BY <1>1, <2>4, UnitInside
  <2>7. UnitStart(storage, t + 1) = UnitStart(storage, t)
    BY <2>4, <2>5, <2>6, TiledNext
  <2> QED
    BY <2>2, <2>3, <2>7
<1>6. Nat \subseteq T
  <2> HIDE DEF T
  <2> QED
    BY <1>4, <1>5, NumbersOfSet
<1>7. s - r \in T /\ r + (s - r) = s
  <2> HIDE DEF T
  <2> QED
    BY <1>6
<1> QED
  BY <1>7

\* Bands start at their first rows
LEMMA TiledStarts ==
  ASSUME NEW storage, NEW nrows, IsTiled(storage, nrows)
  PROVE  HaveStarts(storage)
<1>1. UnitStart(storage, 0) = 0
  <2>1. CASE InHypercube(storage, 0)
    <3>1. PICK x \in Nat : x <= 0 /\ UnitStart(storage, 0) = 0 - x
      BY <2>1, TiledStart
    <3> QED
      BY <3>1
  <2>2. CASE ~ InHypercube(storage, 0)
    BY <2>2, TiledStart
  <2> QED
    BY <2>1, <2>2
<1>2. \A r \in Nat : UnitStart(storage, r + 1) \in {r + 1, UnitStart(storage, r)}
  BY TiledNext
<1>3. ASSUME NEW r \in Nat, NEW s \in Nat, UnitOf(storage, r) = UnitOf(storage, s)
      PROVE  UnitStart(storage, r) = UnitStart(storage, s)
  <2>1. CASE r < s
    BY <1>3, <2>1, TiledUnit
  <2>2. CASE s < r
    BY <1>3, <2>2, TiledUnit
  <2>3. CASE r = s
    BY <2>3
  <2> QED
    BY <2>1, <2>2, <2>3
<1> QED
  BY <1>1, <1>2, <1>3 DEF HaveStarts

\* Starts ascend with the rows, and the start of a unit is its own
LEMMA StartsAscend ==
  ASSUME NEW storage, HaveStarts(storage), NEW s \in Nat
  PROVE  /\ UnitStart(storage, s) \in 0..s
         /\ UnitStart(storage, UnitStart(storage, s)) = UnitStart(storage, s)
         /\ \A r \in 0..s : UnitStart(storage, r) <= UnitStart(storage, s)
<1>1. PICK S : S = [r \in Nat |-> UnitStart(storage, r)]
  OBVIOUS
<1>2. \A r \in Nat : S[r] = UnitStart(storage, r)
  BY <1>1
<1>3. S[0] = 0 /\ \A r \in Nat : S[r + 1] \in {r + 1, S[r]}
  BY <1>2 DEF HaveStarts
<1> DEFINE T == {t \in Nat : /\ S[t] \in 0..t /\ S[S[t]] = S[t]
                             /\ \A r \in 0..t : S[r] \in Nat /\ S[r] <= S[t]}
<1>4. 0 \in T
  <2>1. \A r \in 0..0 : r = 0
    OBVIOUS
  <2> QED
    BY <1>3, <2>1
<1>5. ASSUME NEW t \in Nat, t \in T PROVE t + 1 \in T
  <2>1. S[t] \in 0..t /\ S[S[t]] = S[t] /\ \A r \in 0..t : S[r] \in Nat /\ S[r] <= S[t]
    BY <1>5
  <2>2. S[t + 1] = t + 1 \/ S[t + 1] = S[t]
    BY <1>3
  <2>3. S[t] <= S[t + 1] /\ S[t + 1] \in 0..(t + 1)
    BY <2>1, <2>2
  <2>4. S[S[t + 1]] = S[t + 1]
    BY <2>1, <2>2
  <2>5. \A r \in 0..(t + 1) : S[r] \in Nat /\ S[r] <= S[t + 1]
    <3>1. TAKE r \in 0..(t + 1)
    <3>2. CASE r = t + 1
      BY <2>3, <3>2
    <3>3. CASE r # t + 1
      <4>1. S[r] \in Nat /\ S[r] <= S[t]
        BY <2>1, <3>3
      <4> QED
        BY <2>1, <2>3, <4>1
    <3> QED
      BY <3>2, <3>3
  <2> QED
    BY <2>3, <2>4, <2>5
<1>6. Nat \subseteq T
  <2> HIDE DEF T
  <2> QED
    BY <1>4, <1>5, NumbersOfSet
<1>7. s \in T
  <2> HIDE DEF T
  <2> QED
    BY <1>6
<1>8. S[s] \in 0..s /\ S[S[s]] = S[s] /\ \A r \in 0..s : S[r] \in Nat /\ S[r] <= S[s]
  BY <1>7
<1>9. S[s] \in Nat /\ \A r \in 0..s : r \in Nat
  BY <1>8
<1> QED
  BY <1>2, <1>8, <1>9

\* Numbers, from the first and as many, that are within n
RangesIn(n) == {w \in (0..n) \X (0..n) : w[1] + w[2] <= n}

\* A step of the search for the first of the numbers v that is greater than start
Bisect(f, w, v, start) ==
  IF w[2] = 0 THEN w[1]
  ELSE IF v[w[1] + w[2] \div 2 + 1] > start THEN f[<<w[1], w[2] \div 2>>]
  ELSE f[<<w[1] + w[2] \div 2 + 1, w[2] - w[2] \div 2 - 1>>]

\* All steps of it
IsSearch(f, n, v, start) == f = [w \in RangesIn(n) |-> Bisect(f, w, v, start)]

\* The middle of a range that has any
LEMMA Middle ==
  ASSUME NEW a \in Nat, NEW b \in Nat, NEW h \in Nat, NEW n \in Nat, h < b, a + b <= n
  PROVE  a + h + 1 \in 1..n
OBVIOUS

\* Each half of a range is shorter
LEMMA Halves ==
  ASSUME NEW n \in Nat, NEW w \in RangesIn(n), w[2] # 0
  PROVE  \E h \in Nat : /\ h = w[2] \div 2 /\ h < w[2]
                        /\ <<w[1], h>> \in RangesIn(n)
                        /\ <<w[1] + h + 1, w[2] - h - 1>> \in RangesIn(n)
<1>1. PICK a \in 0..n, l \in 0..n : w = <<a, l>> /\ a + l <= n /\ l # 0
  BY DEF RangesIn
<1>2. PICK h \in Nat : h = l \div 2 /\ h < l
  <2>1. l \div 2 \in Nat /\ l \div 2 < l
    BY <1>1
  <2> QED
    BY <2>1
<1>3. <<a, h>> \in RangesIn(n)
  BY <1>1, <1>2 DEF RangesIn
<1>4. <<a + h + 1, l - h - 1>> \in RangesIn(n)
  <2>1. PICK b \in 0..n, k \in 0..n : b = a + h + 1 /\ k = l - h - 1 /\ b + k <= n
    BY <1>1, <1>2
  <2>2. <<b, k>> \in RangesIn(n)
    BY <2>1 DEF RangesIn
  <2> QED
    BY <2>1, <2>2
<1> QED
  BY <1>1, <1>2, <1>3, <1>4

\* The search has a result for each range
LEMMA BisectExists ==
  ASSUME NEW n \in Nat, NEW v, NEW start
  PROVE  \E f : IsSearch(f, n, v, start)
<1> DEFINE Good(m, g) == \A w \in RangesIn(n) : w[2] <= m => g[w] = Bisect(g, w, v, start)
           T == {m \in Nat : \E g : Good(m, g)}
<1>0. \A w \in RangesIn(n) : w[2] \in 0..n
  BY DEF RangesIn
<1>1. 0 \in T
  <2>1. PICK g : g = [w \in RangesIn(n) |-> w[1]]
    OBVIOUS
  <2>2. ASSUME NEW w \in RangesIn(n), w[2] <= 0 PROVE g[w] = Bisect(g, w, v, start)
    <3>1. w[2] = 0
      BY <1>0, <2>2
    <3> QED
      BY <2>1, <3>1 DEF Bisect
  <2> QED
    BY <2>2
<1>2. ASSUME NEW m \in Nat, m \in T PROVE m + 1 \in T
  <2>1. PICK g : Good(m, g)
    BY <1>2
  <2>2. PICK h : h = [w \in RangesIn(n) |-> IF w[2] <= m THEN g[w] ELSE Bisect(g, w, v, start)]
    OBVIOUS
  <2>3. \A w \in RangesIn(n) : w[2] <= m => h[w] = g[w]
    BY <2>2
  <2>4. ASSUME NEW w \in RangesIn(n), w[2] <= m + 1 PROVE Bisect(h, w, v, start) = Bisect(g, w, v, start)
    <3>1. CASE w[2] = 0
      BY <3>1 DEF Bisect
    <3>2. CASE w[2] # 0
      <4>1. PICK k \in Nat : /\ k = w[2] \div 2 /\ k < w[2]
                             /\ <<w[1], k>> \in RangesIn(n)
                             /\ <<w[1] + k + 1, w[2] - k - 1>> \in RangesIn(n)
        BY <3>2, Halves
      <4>2. k <= m /\ w[2] - k - 1 <= m
        BY <1>0, <2>4, <4>1
      <4>3. h[<<w[1], k>>] = g[<<w[1], k>>]
        BY <2>3, <4>1, <4>2
      <4>4. h[<<w[1] + k + 1, w[2] - k - 1>>] = g[<<w[1] + k + 1, w[2] - k - 1>>]
        BY <2>3, <4>1, <4>2
      <4> QED
        BY <3>2, <4>1, <4>3, <4>4 DEF Bisect
    <3> QED
      BY <3>1, <3>2
  <2>5. ASSUME NEW w \in RangesIn(n), w[2] <= m + 1 PROVE h[w] = Bisect(h, w, v, start)
    <3>1. CASE w[2] <= m
      BY <2>1, <2>3, <2>4, <2>5, <3>1
    <3>2. CASE ~ (w[2] <= m)
      BY <2>2, <2>4, <2>5, <3>2
    <3> QED
      BY <3>1, <3>2
  <2> QED
    BY <2>5
<1>3. Nat \subseteq T
  <2> HIDE DEF T
  <2> QED
    BY <1>1, <1>2, NumbersOfSet
<1>4. PICK g : Good(n, g)
  BY <1>3
<1>5. PICK f : f = [w \in RangesIn(n) |-> g[w]]
  OBVIOUS
<1>6. ASSUME NEW w \in RangesIn(n) PROVE g[w] = Bisect(f, w, v, start)
  <2>1. g[w] = Bisect(g, w, v, start)
    BY <1>0, <1>4
  <2>2. CASE w[2] = 0
    BY <2>1, <2>2 DEF Bisect
  <2>3. CASE w[2] # 0
    <3>1. PICK k \in Nat : /\ k = w[2] \div 2
                           /\ <<w[1], k>> \in RangesIn(n)
                           /\ <<w[1] + k + 1, w[2] - k - 1>> \in RangesIn(n)
      BY <2>3, Halves
    <3> QED
      BY <1>5, <2>1, <2>3, <3>1 DEF Bisect
  <2> QED
    BY <2>2, <2>3
<1>7. f = [w \in RangesIn(n) |-> Bisect(f, w, v, start)]
  BY <1>5, <1>6
<1> QED
  BY <1>7 DEF IsSearch

\* Where it ends, the number before is not greater than start, and the one after is
EndsAt(u, w, v, start) ==
  /\ u \in w[1]..(w[1] + w[2])
  /\ u > w[1] => v[u] <= start
  /\ u < w[1] + w[2] => v[u + 1] > start

\* It ends there, whether the numbers ascend or not
LEMMA BisectEnds ==
  ASSUME NEW n \in Nat, NEW v \in [1..n -> Nat], NEW start \in Nat,
         NEW f, IsSearch(f, n, v, start), NEW w \in RangesIn(n)
  PROVE  EndsAt(f[w], w, v, start)
<1>0. \A x \in RangesIn(n) : x[1] \in 0..n /\ x[2] \in 0..n /\ x[1] + x[2] <= n
  BY DEF RangesIn
<1>a. f = [x \in RangesIn(n) |-> Bisect(f, x, v, start)]
  BY DEF IsSearch
<1> DEFINE T == {m \in Nat : \A x \in RangesIn(n) : x[2] <= m => EndsAt(f[x], x, v, start)}
<1>1. ASSUME NEW x \in RangesIn(n), x[2] = 0 PROVE EndsAt(f[x], x, v, start)
  <2>1. f[x] = x[1]
    BY <1>a, <1>1 DEF Bisect
  <2> QED
    BY <1>0, <1>1, <2>1 DEF EndsAt
<1>2. 0 \in T
  <2>1. \A x \in RangesIn(n) : x[2] <= 0 => x[2] = 0
    BY <1>0
  <2> QED
    BY <1>1, <2>1
<1>3. ASSUME NEW m \in Nat, m \in T PROVE m + 1 \in T
  <2>1. SUFFICES ASSUME NEW x \in RangesIn(n), x[2] <= m + 1 PROVE EndsAt(f[x], x, v, start)
    OBVIOUS
  <2>2. CASE x[2] # 0
    <3>1. PICK h \in Nat : /\ h = x[2] \div 2 /\ h < x[2]
                           /\ <<x[1], h>> \in RangesIn(n)
                           /\ <<x[1] + h + 1, x[2] - h - 1>> \in RangesIn(n)
      BY <2>2, Halves
    <3>2. PICK a \in Nat, l \in Nat : a = x[1] /\ l = x[2] /\ a + l <= n /\ l <= m + 1 /\ h < l
      <4>1. x[1] \in Nat /\ x[2] \in Nat /\ x[1] + x[2] <= n
        BY <1>0
      <4> QED
        BY <2>1, <3>1, <4>1
    <3>3. PICK e \in 1..n : e = a + h + 1
      BY <3>2
    <3>4. v[e] \in Nat
      OBVIOUS
    <3>5. CASE v[e] > start
      <4>1. f[x] = f[<<a, h>>]
        BY <1>a, <2>2, <3>1, <3>2, <3>3, <3>5 DEF Bisect
      <4>2. EndsAt(f[<<a, h>>], <<a, h>>, v, start)
        BY <1>3, <3>1, <3>2
      <4>3. PICK u : u = f[x] /\ EndsAt(u, <<a, h>>, v, start)
        BY <4>1, <4>2
      <4>4. /\ u \in a..(a + h) /\ (u > a => v[u] <= start)
            /\ u < a + h => v[u + 1] > start
        BY <4>3 DEF EndsAt
      <4>5. u < a + l => v[u + 1] > start
        <5>1. CASE u = a + h
          BY <3>3, <3>5, <5>1
        <5>2. CASE u # a + h
          BY <4>4, <5>2
        <5> QED
          BY <5>1, <5>2
      <4>6. u \in a..(a + l)
        BY <3>2, <4>4
      <4> QED
        BY <3>2, <4>3, <4>4, <4>5, <4>6 DEF EndsAt
    <3>6. CASE ~ (v[e] > start)
      <4>1. PICK k \in Nat : k = l - h - 1 /\ e + k = a + l
        <5>1. h < l
          BY <3>2
        <5>2. l - h - 1 \in Nat
          BY <5>1
        <5>3. (a + h + 1) + (l - h - 1) = a + l
          OBVIOUS
        <5>4. e + (l - h - 1) = a + l
          BY <3>3, <5>3
        <5> QED
          BY <5>2, <5>4
      <4>2. f[x] = f[<<e, k>>]
        BY <1>a, <2>2, <3>1, <3>2, <3>3, <3>6, <4>1 DEF Bisect
      <4>3. EndsAt(f[<<e, k>>], <<e, k>>, v, start)
        <5>1. <<e, k>> \in RangesIn(n) /\ k <= m
          BY <3>1, <3>2, <3>3, <4>1
        <5> QED
          BY <1>3, <5>1
      <4>4. PICK u : u = f[x] /\ EndsAt(u, <<e, k>>, v, start)
        BY <4>2, <4>3
      <4>5. /\ u \in e..(e + k) /\ (u > e => v[u] <= start)
            /\ u < e + k => v[u + 1] > start
        BY <4>4 DEF EndsAt
      <4>6. v[u] <= start
        <5>1. CASE u = e
          BY <3>4, <3>6, <5>1
        <5>2. CASE u # e
          BY <4>5, <5>2
        <5> QED
          BY <5>1, <5>2
      <4>7. u \in a..(a + l) /\ (u < a + l => v[u + 1] > start)
        BY <3>2, <3>3, <4>1, <4>5
      <4> QED
        BY <3>2, <4>4, <4>6, <4>7 DEF EndsAt
    <3> QED
      BY <3>5, <3>6
  <2> QED
    BY <1>1, <2>2
<1>4. Nat \subseteq T
  <2> HIDE DEF T
  <2> QED
    BY <1>2, <1>3, NumbersOfSet
<1>5. w[2] \in T
  <2>1. w[2] \in Nat
    BY <1>0
  <2> HIDE DEF T
  <2> QED
    BY <1>4, <2>1
<1>6. w[2] <= w[2]
  BY <1>0
<1> QED
  BY <1>5, <1>6

\* A set of natural numbers has a least one
LEMMA MinIsOneOf ==
  ASSUME NEW S \in SUBSET Nat, S # {}
  PROVE  Min(S) \in S /\ \A y \in S : Min(S) <= y
<1> DEFINE less == {ss \in Nat \X Nat : ss[1] < ss[2]}
<1>1. IsWellFoundedOn(less, Nat)
  BY NatLessThanWellFounded DEF OpToRel
<1>2. PICK x \in S : \A y \in S : ~ (<<y, x>> \in less)
  <2> HIDE DEF less
  <2> QED
    BY <1>1, WFMin
<1>3. ASSUME NEW y \in S PROVE x <= y
  <2>1. ~ (y < x)
    <3>1. ~ (<<y, x>> \in less)
      BY <1>2
    <3> QED
      BY <3>1
  <2> QED
    BY <2>1
<1> QED
  BY <1>3 DEF Min

\* Rows in order, each once
AreRows(rows) == rows \in Seq(Nat) /\ \A i, j \in 1..Len(rows) : i < j => rows[i] < rows[j]

\* No unit goes on beyond the first e rows
IsBoundary(e, rows, storage) ==
  e \in Nat /\ (e \in 1..(Len(rows) - 1) => rows[e] < UnitStart(storage, rows[e + 1]))

\* The boundary is the start of the unit of row p + 1 if that is the first row in it: the
\* rows before are not
LEMMA BoundaryDown ==
  ASSUME NEW storage, HaveStarts(storage), NEW rows, AreRows(rows), NEW p \in 0..(Len(rows) - 1),
         NEW start, start = UnitStart(storage, rows[p + 1]),
         NEW down \in 0..p, rows[down + 1] >= start,
         \A q \in 0..(p - 1) : rows[q + 1] >= start => down <= q
  PROVE  IsBoundary(down, rows, storage)
<1>1. PICK n \in Nat : n = Len(rows) /\ \A i \in 1..n : rows[i] \in Nat
  BY DEF AreRows
<1>2. p + 1 \in 1..n /\ rows[p + 1] \in Nat
  BY <1>1
<1>7. start \in 0..rows[p + 1] /\ UnitStart(storage, start) = start
  BY <1>2, StartsAscend
<1>9. start <= UnitStart(storage, rows[down + 1])
  <2>1. PICK r \in Nat : r = rows[down + 1]
    <3>1. down + 1 \in 1..n
      BY <1>1
    <3> QED
      BY <1>1, <3>1
  <2>2. start \in 0..r
    BY <1>2, <1>7, <2>1
  <2>3. UnitStart(storage, start) <= UnitStart(storage, r)
    BY <2>2, StartsAscend
  <2> QED
    BY <1>7, <2>1, <2>3
<1>10. ASSUME down \in 1..(Len(rows) - 1) PROVE rows[down] < UnitStart(storage, rows[down + 1])
  <2>1. PICK q \in 0..(p - 1) : q = down - 1 /\ q + 1 = down
    BY <1>10
  <2>3. ~ (rows[q + 1] >= start)
    BY <2>1
  <2>4. PICK x \in Nat, y \in Nat : x = rows[down] /\ y = rows[down + 1]
    <3>1. down \in 1..n /\ down + 1 \in 1..n
      BY <1>1, <1>10
    <3> QED
      BY <1>1, <3>1
  <2>5. UnitStart(storage, y) \in Nat
    BY StartsAscend
  <2> QED
    BY <1>2, <1>7, <1>9, <2>1, <2>3, <2>4, <2>5
<1> QED
  BY <1>10 DEF IsBoundary

\* It is the start of the next unit otherwise
LEMMA BoundaryUp ==
  ASSUME NEW storage, HaveStarts(storage), NEW rows, AreRows(rows), NEW p \in 0..(Len(rows) - 1),
         NEW start, start = UnitStart(storage, rows[p + 1]),
         NEW v, v = [i \in 1..Len(rows) |-> UnitStart(storage, rows[i])],
         NEW up, EndsAt(up, <<p + 1, Len(rows) - p - 1>>, v, start)
  PROVE  up \in (p + 1)..Len(rows) /\ IsBoundary(up, rows, storage)
<1>1. PICK n \in Nat : n = Len(rows) /\ \A i \in 1..n : rows[i] \in Nat
  BY DEF AreRows
<1>2. /\ up \in (p + 1)..n
      /\ up > p + 1 => v[up] <= start
      /\ up < n => v[up + 1] > start
  BY <1>1 DEF EndsAt
<1>3. ASSUME up \in 1..(n - 1) PROVE rows[up] < UnitStart(storage, rows[up + 1])
  <2>1. PICK x \in Nat, y \in Nat : x = rows[up] /\ y = rows[up + 1]
    BY <1>1, <1>3
  <2>2. PICK a \in Nat, b \in Nat : /\ a = UnitStart(storage, x) /\ b = UnitStart(storage, y)
                                    /\ UnitStart(storage, b) = b
    BY StartsAscend
  <2>3. a <= start
    <3>1. CASE up = p + 1
      <4>1. start = a
        BY <2>1, <2>2, <3>1
      <4> QED
        BY <4>1
    <3>2. CASE up # p + 1
      <4>1. v[up] <= start /\ v[up] = a
        BY <1>1, <1>2, <1>3, <2>1, <2>2, <3>2
      <4> QED
        BY <4>1
    <3> QED
      BY <3>1, <3>2
  <2>4. b > start
    <3>1. v[up + 1] > start /\ v[up + 1] = b
      BY <1>1, <1>2, <1>3, <2>1, <2>2
    <3> QED
      BY <3>1
  <2>5. start \in Nat
    <3>1. rows[p + 1] \in Nat
      BY <1>1
    <3> QED
      BY <3>1, StartsAscend
  <2>6. ~ (b <= x)
    <3>1. SUFFICES ASSUME b <= x PROVE FALSE
      OBVIOUS
    <3>2. b \in 0..x
      BY <3>1
    <3>3. UnitStart(storage, b) <= UnitStart(storage, x)
      BY <3>2, StartsAscend
    <3> QED
      BY <2>2, <2>3, <2>4, <2>5, <3>3
  <2> QED
    BY <2>1, <2>2, <2>6
<1> QED
  BY <1>1, <1>2, <1>3 DEF IsBoundary

\* What is left after a number
LEMMA RestInRanges ==
  ASSUME NEW n \in Nat, NEW p \in 0..(n - 1)
  PROVE  \E l \in Nat : l = n - p - 1 /\ <<p + 1, l>> \in RangesIn(n)
<1>1. PICK a \in 0..n : a = p + 1
  OBVIOUS
<1>2. PICK l \in 0..n : l = n - p - 1 /\ a + l <= n
  <2>1. n - p - 1 \in 0..n
    OBVIOUS
  <2>2. a + (n - p - 1) <= n
    BY <1>1
  <2> QED
    BY <2>1, <2>2
<1>3. <<a, l>> \in RangesIn(n)
  BY <1>2 DEF RangesIn
<1> QED
  BY <1>1, <1>2, <1>3

\* AlignBoundary() leaves the boundary where no unit goes on
LEMMA Aligned ==
  ASSUME NEW storage, HaveStarts(storage), NEW rows, AreRows(rows), NEW p \in 0..(Len(rows) - 1)
  PROVE  IsBoundary(AlignBoundary(p, rows, storage), rows, storage)
<1>1. PICK n \in Nat : n = Len(rows) /\ \A i \in 1..n : rows[i] \in Nat
  BY DEF AreRows
<1>2. PICK start \in Nat : start = UnitStart(storage, rows[p + 1])
  <2>1. rows[p + 1] \in Nat
    BY <1>1
  <2> QED
    BY <2>1, StartsAscend
<1>3. PICK down : down = Min({q \in 0..(p - 1) : rows[q + 1] >= start} \cup {p})
  OBVIOUS
<1>4. PICK v \in [1..n -> Nat] : v = [i \in 1..n |-> UnitStart(storage, rows[i])]
  <2>1. \A i \in 1..n : UnitStart(storage, rows[i]) \in Nat
    BY <1>1, StartsAscend
  <2> QED
    BY <2>1
<1> DEFINE Ranges == {w \in (0..Len(rows)) \X (0..Len(rows)) : w[1] + w[2] <= Len(rows)}
           Code(f) == [w \in Ranges |->
                         IF w[2] = 0 THEN w[1]
                         ELSE IF UnitStart(storage, rows[w[1] + w[2] \div 2 + 1])
                                   > UnitStart(storage, rows[p + 1])
                         THEN f[<<w[1], w[2] \div 2>>]
                         ELSE f[<<w[1] + w[2] \div 2 + 1, w[2] - w[2] \div 2 - 1>>]]
<1>5. PICK it : it = CHOOSE f : f = Code(f)
  OBVIOUS
<1>6. PICK up : up = it[<<p + 1, Len(rows) - p - 1>>]
  OBVIOUS
<1>7. AlignBoundary(p, rows, storage) =
        IF start = rows[p + 1] THEN p ELSE IF p - down <= up - p THEN down ELSE up
  <2>1. AlignBoundary(p, rows, storage) =
          IF UnitStart(storage, rows[p + 1]) = rows[p + 1] THEN p
          ELSE IF p - Min({q \in 0..(p - 1) : rows[q + 1] >= UnitStart(storage, rows[p + 1])} \cup {p})
                    <= up - p
          THEN Min({q \in 0..(p - 1) : rows[q + 1] >= UnitStart(storage, rows[p + 1])} \cup {p})
          ELSE up
    BY <1>5, <1>6 DEF AlignBoundary
  <2> QED
    BY <1>2, <1>3, <2>1, Zenon
<1>8. ASSUME NEW f PROVE Code(f) = [w \in RangesIn(n) |-> Bisect(f, w, v, start)]
  <2>1. Ranges = RangesIn(n)
    BY <1>1 DEF RangesIn
  <2>2. ASSUME NEW w \in RangesIn(n), w[2] # 0
        PROVE  v[w[1] + w[2] \div 2 + 1] = UnitStart(storage, rows[w[1] + w[2] \div 2 + 1])
    <3>1. PICK h \in Nat : h = w[2] \div 2 /\ h < w[2]
      BY <2>2, Halves
    <3>2. w[1] \in 0..n /\ w[2] \in 0..n /\ w[1] + w[2] <= n
      BY DEF RangesIn
    <3>3. PICK a \in Nat, b \in Nat : a = w[1] /\ b = w[2] /\ a + b <= n
      BY <3>2
    <3>6. h < b /\ a + b <= n
      BY <3>1, <3>3
    <3>4. a + h + 1 \in 1..n
      BY <3>6, Middle
    <3>5. w[1] + w[2] \div 2 + 1 = a + h + 1
      BY <3>1, <3>3
    <3> QED
      BY <1>4, <3>4, <3>5
  <2>3. \A w \in RangesIn(n) :
          Bisect(f, w, v, start) =
            IF w[2] = 0 THEN w[1]
            ELSE IF UnitStart(storage, rows[w[1] + w[2] \div 2 + 1]) > UnitStart(storage, rows[p + 1])
            THEN f[<<w[1], w[2] \div 2>>]
            ELSE f[<<w[1] + w[2] \div 2 + 1, w[2] - w[2] \div 2 - 1>>]
    BY <1>2, <2>2 DEF Bisect
  <2> QED
    BY <2>1, <2>3
<1>9. IsSearch(it, n, v, start)
  <2> HIDE DEF Code
  <2>1. PICK f : IsSearch(f, n, v, start)
    BY BisectExists
  <2>2. f = Code(f)
    <3>1. f = [w \in RangesIn(n) |-> Bisect(f, w, v, start)]
      BY <2>1, Zenon DEF IsSearch
    <3> QED
      BY <1>8, <3>1, Zenon
  <2>3. it = Code(it)
    BY <1>5, <2>2, Zenon
  <2>4. it = [w \in RangesIn(n) |-> Bisect(it, w, v, start)]
    BY <1>8, <2>3, Zenon
  <2> QED
    BY <2>4, Zenon DEF IsSearch
<1>10. PICK l \in Nat : l = n - p - 1 /\ <<p + 1, l>> \in RangesIn(n)
  <2>1. p \in 0..(n - 1)
    BY <1>1
  <2> QED
    BY <2>1, RestInRanges
<1>11. EndsAt(up, <<p + 1, Len(rows) - p - 1>>, v, start)
  <2>1. EndsAt(it[<<p + 1, l>>], <<p + 1, l>>, v, start)
    BY <1>9, <1>10, BisectEnds
  <2>2. Len(rows) - p - 1 = l
    BY <1>1, <1>10
  <2> QED
    BY <1>6, <2>1, <2>2, Zenon
<1>12. IsBoundary(down, rows, storage)
  <2>1. PICK S : S = {q \in 0..(p - 1) : rows[q + 1] >= start} \cup {p}
    OBVIOUS
  <2>2. S \in SUBSET Nat /\ S # {}
    BY <2>1
  <2>3. down \in S /\ \A y \in S : down <= y
    BY <1>3, <2>1, <2>2, MinIsOneOf
  <2>4. rows[p + 1] >= start /\ p \in Nat
    BY <1>1, <1>2, StartsAscend
  <2>5. down \in 0..p /\ rows[down + 1] >= start
    BY <2>1, <2>3, <2>4
  <2>6. \A q \in 0..(p - 1) : rows[q + 1] >= start => down <= q
    BY <2>1, <2>3
  <2> QED
    BY <1>2, <2>5, <2>6, BoundaryDown
<1>13. IsBoundary(up, rows, storage)
  BY <1>1, <1>2, <1>4, <1>11, BoundaryUp
<1>14. ASSUME start = rows[p + 1] PROVE IsBoundary(p, rows, storage)
  <2>1. ASSUME p \in 1..(n - 1) PROVE rows[p] < rows[p + 1]
    BY <1>1, <2>1 DEF AreRows
  <2> QED
    BY <1>1, <1>2, <1>14, <2>1 DEF IsBoundary
<1> QED
  BY <1>7, <1>12, <1>13, <1>14

\* Rows on either side of a boundary are of different units
LEMMA UnitsDiffer ==
  ASSUME NEW storage, HaveStarts(storage), NEW rows, AreRows(rows),
         NEW e, IsBoundary(e, rows, storage),
         NEW i \in 1..Len(rows), NEW j \in 1..Len(rows), i <= e, e < j
  PROVE  UnitOf(storage, rows[i]) # UnitOf(storage, rows[j])
<1>1. PICK n \in Nat : n = Len(rows) /\ \A k \in 1..n : rows[k] \in Nat
  BY DEF AreRows
<1>2. i \in 1..n /\ j \in 1..n /\ e \in 1..(n - 1)
  BY <1>1 DEF IsBoundary
<1>3. PICK x \in Nat, y \in Nat, a \in Nat, b \in Nat :
        x = rows[i] /\ y = rows[j] /\ a = rows[e] /\ b = rows[e + 1]
  BY <1>1, <1>2
<1>a. \A k, l \in 1..n : k < l => rows[k] < rows[l]
  BY <1>1 DEF AreRows
<1>4. x <= a
  <2>1. CASE i = e
    BY <1>3, <2>1
  <2>2. CASE i # e
    <3>1. e \in 1..n /\ i < e
      BY <1>2, <2>2
    <3>2. rows[i] < rows[e]
      BY <1>2, <1>a, <3>1
    <3> QED
      BY <1>3, <3>2
  <2> QED
    BY <2>1, <2>2
<1>5. b <= y
  <2>1. CASE j = e + 1
    BY <1>3, <2>1
  <2>2. CASE j # e + 1
    BY <1>1, <1>2, <1>3, <2>2 DEF AreRows
  <2> QED
    BY <2>1, <2>2
<1>6. a < UnitStart(storage, b)
  BY <1>1, <1>2, <1>3 DEF IsBoundary
<1>7. UnitStart(storage, b) <= UnitStart(storage, y)
  <2>1. b \in 0..y
    BY <1>5
  <2> QED
    BY <2>1, StartsAscend
<1>8. UnitStart(storage, x) \in 0..x /\ UnitStart(storage, b) \in Nat /\ UnitStart(storage, y) \in Nat
  <2>1. \A r \in Nat : UnitStart(storage, r) \in 0..r
    BY StartsAscend
  <2> QED
    BY <2>1
<1>9. UnitStart(storage, x) # UnitStart(storage, y)
  BY <1>4, <1>6, <1>7, <1>8
<1>10. UnitOf(storage, x) # UnitOf(storage, y)
  BY <1>9 DEF HaveStarts
<1> QED
  BY <1>3, <1>10

\* More times a number is more
LEMMA MoreTimes ==
  ASSUME NEW n \in Nat, n > 0, NEW k \in Nat, NEW d \in Nat, d > 0
  PROVE  (k + d) * n > k * n
<1>1. (k + d) * n = k * n + d * n
  OBVIOUS
<1>2. d * n > 0
  OBVIOUS
<1>3. k * n \in Nat /\ d * n \in Nat
  BY ProductOfNats
<1> QED
  BY <1>1, <1>2, <1>3

\* Split evenly, rows are cut before one of them
LEMMA EvenSplit ==
  ASSUME NEW n \in Nat, n > 0, NEW m \in Nat, NEW k \in 1..(m - 1)
  PROVE  (k * n) \div m \in 0..(n - 1)
<1>1. k * n \in Nat /\ n * m \in Nat
  BY ProductOfNats
<1>2. PICK x \in Nat : x = k * n
  BY <1>1
<1>3. x < m * n
  <2>1. PICK d \in Nat : m = k + d /\ d > 0
    <3>1. m - k \in Nat /\ m - k > 0 /\ m = k + (m - k)
      OBVIOUS
    <3> QED
      BY <3>1
  <2>2. (k + d) * n > k * n
    BY <2>1, MoreTimes
  <2> QED
    BY <1>2, <2>1, <2>2
<1>4. PICK q \in Nat : q = x \div m /\ m * q <= x
  <2>1. m > 0
    OBVIOUS
  <2>2. x \div m \in Nat /\ m * (x \div m) <= x
    BY <2>1
  <2> QED
    BY <2>2
<1>5. q < n
  <2>1. SUFFICES ASSUME q >= n PROVE FALSE
    BY <1>4
  <2>2. m * q >= m * n
    BY <2>1
  <2>3. m * q \in Nat /\ m * n \in Nat
    BY ProductOfNats
  <2> QED
    BY <1>3, <1>4, <2>2, <2>3
<1> QED
  BY <1>2, <1>4, <1>5

\* The end of piece k before the last
PieceEnd(k, rows, nsplits, storage) == AlignBoundary((k * Len(rows)) \div nsplits, rows, storage)

\* PieceEnds() are ends of pieces before the last, and the end of the last
LEMMA EndsAre ==
  ASSUME NEW rows, NEW nsplits \in Nat, nsplits > 1, NEW storage, HasUnits(storage),
         NEW E, \A k \in 1..(nsplits - 1) : PieceEnd(k, rows, nsplits, storage) \in E,
         Len(rows) \in E
  PROVE  \A e \in Range(PieceEnds(rows, nsplits, storage)) : e \in E
<1>1. PICK n \in Nat : n = nsplits - 1
  <2>1. nsplits - 1 \in Nat
    OBVIOUS
  <2> QED
    BY <2>1
<1> DEFINE D == SUBSET (1..n)
           even(k) == (k * Len(rows)) \div nsplits
           end(k) == IF HasUnits(storage) THEN AlignBoundary(even(k), rows, storage) ELSE even(k)
           keep(ends, e) ==
             IF e > (IF ends = <<>> THEN 0 ELSE Last(ends)) /\ e < Len(rows)
             THEN Append(ends, e) ELSE ends
           given == [k \in 1..(nsplits - 1) |-> end(k)]
           Code(f) == [S \in SUBSET (DOMAIN given) |->
                         IF S = {} THEN <<>> ELSE keep(f[S \ {Max(S)}], given[Max(S)])]
           Body(f) == [S \in D |-> IF S = {} THEN <<>> ELSE keep(f[S \ {Max(S)}], given[Max(S)])]
           R == Seq(E)
<1>2. PICK it : it = CHOOSE f : f = Code(f)
  OBVIOUS
<1>3. PieceEnds(rows, nsplits, storage) = Append(it[DOMAIN given], Len(rows))
  BY <1>2 DEF PieceEnds, FoldLeft, MapThenFoldSet
<1>4. DOMAIN given = 1..n
  BY <1>1
<1>5. \A k \in 1..n : given[k] \in E
  BY <1>1 DEF PieceEnd
<1> HIDE DEF given, keep
<1>6. \A S \in D : S # {} => Max(S) \in 1..n /\ S \ {Max(S)} \in D
  BY MaxIsOneOf
<1>7. ASSUME NEW f PROVE Code(f) = Body(f)
  BY <1>4
<1> DEFINE Q == R \cup {it[S] : S \in D}
<1>8. PICK F : F = [x \in Q \X (1..n) |-> keep(x[1], given[x[2]])]
  OBVIOUS
<1>9. \A r \in Q : \A i \in 1..n : F[<<r, i>>] = keep(r, given[i])
  BY <1>8
<1>10. (\A r \in R : r \in Q) /\ \A S \in D : it[S] \in Q
  OBVIOUS
<1>11. \A r \in R : \A i \in 1..n : keep(r, given[i]) \in R
  <2>1. SUFFICES ASSUME NEW r \in R, NEW i \in 1..n PROVE keep(r, given[i]) \in R
    OBVIOUS
  <2>2. Append(r, given[i]) \in R
    BY <1>5
  <2> HIDE DEF R
  <2> QED
    BY <2>2 DEF keep
<1>12. <<>> \in R
  OBVIOUS
<1> HIDE DEF R, Q
<1>13. IsClosed(R, <<>>, F, n)
  BY <1>9, <1>10, <1>11, <1>12 DEF IsClosed
<1>14. PICK f \in [D -> R] : IsFold(f, <<>>, F, n)
  BY <1>13, FoldExists
<1>15. f = Body(f)
  BY <1>6, <1>9, <1>10, <1>14 DEF IsFold
<1>16. it = Body(it)
  <2>1. f = Code(f)
    BY <1>7, <1>15
  <2> HIDE DEF Code, Body
  <2>2. it = Code(it)
    BY <1>2, <2>1
  <2> QED
    BY <1>7, <2>2
<1>17. IsFold(it, <<>>, F, n)
  BY <1>6, <1>9, <1>10, <1>16 DEF IsFold
<1>18. PICK p \in [0..n -> R] : IsFolded(p, <<>>, F, n) /\ p[n] = it[1..n]
  BY <1>13, <1>17, FoldSteps
<1>19. PICK ends \in Seq(E) : ends = it[DOMAIN given]
  <2>1. n \in 0..n
    OBVIOUS
  <2> QED
    BY <1>4, <1>18, <2>1 DEF R
<1>20. PICK all \in Seq(E) : all = Append(ends, Len(rows))
  <2>1. PICK l \in E : l = Len(rows)
    OBVIOUS
  <2>2. Append(ends, l) \in Seq(E)
    OBVIOUS
  <2> QED
    BY <2>1, <2>2
<1>21. PieceEnds(rows, nsplits, storage) = all
  BY <1>3, <1>19, <1>20
<1>22. \A e \in Range(all) : e \in E
  BY DEF Range
<1> QED
  BY <1>21, <1>22

\* No unit goes on beyond a piece
LEMMA PiecesAligned ==
  ASSUME NEW storage, HaveStarts(storage), HasUnits(storage), NEW rows, AreRows(rows), rows # <<>>,
         NEW nsplits \in Nat, nsplits > 1
  PROVE  \A e \in Range(PieceEnds(rows, nsplits, storage)) : IsBoundary(e, rows, storage)
<1>1. PICK n \in Nat : n = Len(rows) /\ n > 0
  <2>1. Len(rows) \in Nat /\ Len(rows) > 0
    BY DEF AreRows
  <2> QED
    BY <2>1
<1>2. PICK E : E = {e \in Nat : IsBoundary(e, rows, storage)}
  OBVIOUS
<1>3. Len(rows) \in E
  <2>1. IsBoundary(Len(rows), rows, storage)
    BY <1>1 DEF IsBoundary
  <2> QED
    BY <1>1, <1>2, <2>1
<1>4. ASSUME NEW k \in 1..(nsplits - 1) PROVE PieceEnd(k, rows, nsplits, storage) \in E
  <2>1. PICK p \in 0..(n - 1) : p = (k * n) \div nsplits
    BY <1>1, EvenSplit
  <2>2. p \in 0..(Len(rows) - 1)
    BY <1>1
  <2>3. IsBoundary(AlignBoundary(p, rows, storage), rows, storage)
    BY <2>2, Aligned
  <2>4. PICK e : e = AlignBoundary(p, rows, storage)
    OBVIOUS
  <2>5. e \in E
    BY <1>2, <2>3, <2>4 DEF IsBoundary
  <2>6. PieceEnd(k, rows, nsplits, storage) = e
    BY <1>1, <2>1, <2>4 DEF PieceEnd
  <2> QED
    BY <2>5, <2>6
<1>5. \A e \in Range(PieceEnds(rows, nsplits, storage)) : e \in E
  BY <1>3, <1>4, EndsAre
<1> QED
  BY <1>2, <1>5

\* Rows that are read ascend, each once
Rises(pair) ==
  \A i, j \in 1..Len(pair.disk) : i < j /\ pair.disk[i] >= 0 => pair.disk[i] < pair.disk[j]

\* Rows that are missing, and rows that are there
NoneRead(pair) == \A i \in 1..Len(pair.disk) : pair.disk[i] < 0
AllRead(pair) == \A i \in 1..Len(pair.disk) : pair.disk[i] >= 0

\* Only the last of the spans is read
LastRead(spans) ==
  \A s \in DOMAIN spans : Rises(spans[s]) /\ (s < Len(spans) => NoneRead(spans[s]))

\* Rows of different spans are of different units
UnitsApart(spans, storage) ==
  \A s, t \in DOMAIN spans : s # t /\ AllRead(spans[s]) /\ AllRead(spans[t]) =>
    \A i \in 1..Len(spans[s].disk), j \in 1..Len(spans[t].disk) :
      UnitOf(storage, spans[s].disk[i]) # UnitOf(storage, spans[t].disk[j])

\* Sorted without duplicates, rows that are read ascend
LEMMA PairRises ==
  ASSUME NEW pair \in SpanPair, Ascends(pair), ~ HasDuplicates(pair)
  PROVE  Rises(pair)
<1>1. PICK disk \in Seq(Int), n \in Nat : disk = pair.disk /\ n = Len(disk)
  BY DEF SpanPair
<1>2. ASSUME NEW i \in 1..n, NEW j \in 1..n, i < j, disk[i] >= 0 PROVE disk[i] < disk[j]
  <2>1. i + 1 \in 1..n /\ i \in 1..(n - 1)
    BY <1>2
  <2>2. disk[i] <= disk[i + 1]
    <3>1. i < i + 1
      OBVIOUS
    <3> QED
      BY <1>1, <2>1, <3>1 DEF Ascends
  <2>3. disk[i + 1] <= disk[j]
    <3>1. CASE i + 1 = j
      <4>1. disk[j] \in Int
        BY <1>1
      <4> QED
        BY <3>1, <4>1
    <3>2. CASE i + 1 # j
      <4>1. i + 1 < j
        BY <1>2, <3>2
      <4> QED
        BY <1>1, <2>1, <4>1 DEF Ascends
    <3> QED
      BY <3>1, <3>2
  <2>4. disk[i] \in Int /\ disk[i + 1] \in Int /\ disk[j] \in Int
    BY <1>1, <2>1
  <2>5. ~ (disk[i + 1] >= 0 /\ disk[i + 1] = disk[i])
    BY <1>1, <2>1 DEF HasDuplicates
  <2> QED
    BY <1>2, <2>2, <2>3, <2>4, <2>5
<1> QED
  BY <1>1, <1>2 DEF Rises

\* Each piece of a pair that is cut is part of it
LEMMA PieceBetween ==
  ASSUME NEW pair \in SpanPair, NEW cut, NEW b, NEW cuts, IsCut(cut, pair, b, cuts),
         NEW k \in 1..Len(cut)
  PROVE  /\ b[k] \in Nat /\ b[k + 1] \in Nat /\ b[k] <= b[k + 1] /\ b[k + 1] <= Len(pair.disk)
         /\ HasPart(cut[k], pair, b[k], b[k + 1])
<1>1. /\ b[k] \in Nat /\ b[k + 1] \in Nat /\ b[k] <= b[k + 1] /\ b[k + 1] <= Len(pair.disk)
      /\ IsPart(cut[k], pair, b[k], b[k + 1])
  BY DEF IsCut
<1>2. PICK x \in Nat, y \in Nat : x = b[k] /\ y = b[k + 1] /\ x <= y /\ y <= Len(pair.disk)
  BY <1>1
<1>3. PICK piece : piece = cut[k]
  OBVIOUS
<1>4. IsPart(piece, pair, x, y)
  BY <1>1, <1>2, <1>3
<1>5. HasPart(piece, pair, x, y)
  BY <1>2, <1>4, PieceOf
<1> QED
  BY <1>1, <1>2, <1>3, <1>5

\* A piece ends before the next ones start
LEMMA BoundsAscend ==
  ASSUME NEW pair \in SpanPair, NEW cut, NEW b, NEW cuts, IsCut(cut, pair, b, cuts),
         NEW k \in 1..Len(cut), NEW l \in 1..Len(cut), k < l
  PROVE  b[k + 1] <= b[l]
<1>1. PICK len \in Nat : len = Len(cut)
  BY DEF IsCut
<1>2. \A m \in 1..len : b[m] \in Nat /\ b[m + 1] \in Nat /\ b[m] <= b[m + 1]
  BY <1>1 DEF IsCut
<1> DEFINE T == {m \in Nat : (k + 1) + m <= len => b[k + 1] <= b[(k + 1) + m]}
<1>3. 0 \in T
  <2>1. k + 1 \in 1..len /\ (k + 1) + 0 = k + 1
    BY <1>1
  <2>2. b[k + 1] \in Nat
    BY <1>2, <2>1
  <2> QED
    BY <2>1, <2>2
<1>4. ASSUME NEW m \in Nat, m \in T PROVE m + 1 \in T
  <2>1. SUFFICES ASSUME (k + 1) + (m + 1) <= len PROVE b[k + 1] <= b[(k + 1) + (m + 1)]
    OBVIOUS
  <2>2. PICK e \in 1..len : e = (k + 1) + m /\ e + 1 = (k + 1) + (m + 1)
    BY <1>1, <2>1
  <2>3. b[k + 1] <= b[e]
    BY <1>4, <2>2
  <2>4. b[k + 1] \in Nat /\ b[e] \in Nat /\ b[e + 1] \in Nat /\ b[e] <= b[e + 1]
    BY <1>1, <1>2
  <2>5. b[k + 1] <= b[e + 1]
    BY <2>3, <2>4
  <2> QED
    BY <2>2, <2>5
<1>5. Nat \subseteq T
  <2> HIDE DEF T
  <2> QED
    BY <1>3, <1>4, NumbersOfSet
<1>6. PICK m \in Nat : m = l - (k + 1) /\ (k + 1) + m = l
  <2>1. l - (k + 1) \in Nat /\ (k + 1) + (l - (k + 1)) = l
    BY <1>1
  <2> QED
    BY <2>1
<1>7. m \in T
  <2> HIDE DEF T
  <2> QED
    BY <1>5
<1>8. l <= len
  BY <1>1
<1> QED
  BY <1>6, <1>7, <1>8

\* MakeSubSpans() cuts rows that are not read from those that are
LEMMA SubSpansRise ==
  ASSUME NEW pair \in SpanPair, Ascends(pair), Rises(pair)
  PROVE  LastRead(MakeSubSpans(pair, TRUE))
<1>1. PICK cuts : cuts = {i \in 1..(Len(pair.disk) - 1) : pair.disk[i + 1] >= 0 /\ pair.disk[i] < 0}
  OBVIOUS
<1>2. PICK cut : cut = CutPair(pair, cuts)
  OBVIOUS
<1>3. MakeSubSpans(pair, TRUE) = cut
  BY <1>1, <1>2 DEF MakeSubSpans
<1>4. PICK b : IsCut(cut, pair, b, cuts)
  BY <1>2, CutBounds
<1>5. PICK len \in Nat : len = Len(cut) /\ DOMAIN cut = 1..len
  BY <1>4 DEF IsCut
<1>6. PICK disk \in Seq(Int), n \in Nat : disk = pair.disk /\ n = Len(disk)
  BY DEF SpanPair
<1>7. ASSUME NEW s \in 1..len
      PROVE  /\ b[s] \in Nat /\ b[s + 1] \in Nat /\ b[s + 1] <= n
             /\ Len(cut[s].disk) = b[s + 1] - b[s]
             /\ \A i \in 1..Len(cut[s].disk) :
                  /\ i \in Nat /\ b[s] + i \in 1..n /\ b[s] + i <= b[s + 1]
                  /\ cut[s].disk[i] = disk[b[s] + i]
  BY <1>4, <1>5, <1>6, PieceBetween DEF HasPart
<1>8. ASSUME NEW s \in 1..len PROVE Rises(cut[s])
  <2>1. SUFFICES ASSUME NEW i \in 1..Len(cut[s].disk), NEW j \in 1..Len(cut[s].disk), i < j,
                        cut[s].disk[i] >= 0
                 PROVE  cut[s].disk[i] < cut[s].disk[j]
    BY DEF Rises
  <2>2. PICK x \in 1..n, y \in 1..n : x = b[s] + i /\ y = b[s] + j
    BY <1>7
  <2>3. x < y
    BY <1>7, <2>1, <2>2
  <2>4. cut[s].disk[i] = disk[x] /\ cut[s].disk[j] = disk[y]
    BY <1>7, <2>2
  <2>5. disk[x] >= 0
    BY <2>1, <2>4
  <2> QED
    BY <1>6, <2>3, <2>4, <2>5 DEF Rises
<1>9. ASSUME NEW s \in 1..len, s < len PROVE NoneRead(cut[s])
  <2>1. SUFFICES ASSUME NEW i \in 1..Len(cut[s].disk) PROVE cut[s].disk[i] < 0
    BY DEF NoneRead
  <2>2. s + 1 \in 2..len
    BY <1>9
  <2>3. b[s + 1] \in cuts
    BY <1>4, <1>5, <2>2 DEF IsCut
  <2>4. PICK e \in 1..n : e = b[s + 1] /\ disk[e] < 0
    BY <1>1, <1>6, <2>3
  <2>5. PICK x \in 1..n : x = b[s] + i /\ x <= e /\ cut[s].disk[i] = disk[x]
    BY <1>7, <2>4
  <2>6. disk[x] <= disk[e]
    <3>1. disk[e] \in Int
      BY <1>6
    <3>2. CASE x = e
      BY <3>1, <3>2
    <3>3. CASE x # e
      BY <1>6, <2>5, <3>3 DEF Ascends
    <3> QED
      BY <3>2, <3>3
  <2>7. disk[x] \in Int /\ disk[e] \in Int
    BY <1>6
  <2> QED
    BY <2>4, <2>5, <2>6, <2>7
<1> QED
  BY <1>3, <1>5, <1>8, <1>9 DEF LastRead

\* Cut where no unit goes on, the rows of different pieces are of different units
LEMMA CutApart ==
  ASSUME NEW storage, HaveStarts(storage), NEW pair \in SpanPair,
         NEW cuts, \A e \in cuts : AreRows(pair.disk) /\ IsBoundary(e, pair.disk, storage)
  PROVE  UnitsApart(CutPair(pair, cuts), storage)
<1>1. PICK cut : cut = CutPair(pair, cuts)
  OBVIOUS
<1>2. PICK b : IsCut(cut, pair, b, cuts)
  BY <1>1, CutBounds
<1>3. PICK len \in Nat : len = Len(cut) /\ DOMAIN cut = 1..len
  BY <1>2 DEF IsCut
<1>4. PICK disk \in Seq(Int), n \in Nat : disk = pair.disk /\ n = Len(disk)
  BY DEF SpanPair
<1>5. ASSUME NEW s \in 1..len
      PROVE  /\ b[s] \in Nat /\ b[s + 1] \in Nat
             /\ \A i \in 1..Len(cut[s].disk) :
                  /\ i \in Nat /\ b[s] + i \in 1..n /\ b[s] < b[s] + i /\ b[s] + i <= b[s + 1]
                  /\ cut[s].disk[i] = disk[b[s] + i]
  BY <1>2, <1>3, <1>4, PieceBetween DEF HasPart
<1>6. ASSUME NEW s \in 1..len, NEW t \in 1..len, s < t,
             NEW i \in 1..Len(cut[s].disk), NEW j \in 1..Len(cut[t].disk)
      PROVE  UnitOf(storage, cut[s].disk[i]) # UnitOf(storage, cut[t].disk[j])
  <2>1. b[s + 1] <= b[t]
    BY <1>2, <1>3, <1>6, BoundsAscend
  <2>2. t \in 2..len
    BY <1>6
  <2>3. PICK e : e = b[t] /\ e \in cuts
    BY <1>2, <1>3, <2>2 DEF IsCut
  <2>4. AreRows(disk) /\ IsBoundary(e, disk, storage) /\ e \in Nat
    BY <1>4, <2>3 DEF IsBoundary
  <2>5. PICK x \in 1..n : x = b[s] + i /\ cut[s].disk[i] = disk[x] /\ x <= e
    <3>1. PICK x \in 1..n : x = b[s] + i /\ cut[s].disk[i] = disk[x] /\ x <= b[s + 1]
      BY <1>5
    <3>2. b[s + 1] \in Nat /\ e \in Nat /\ b[s + 1] <= e
      BY <1>5, <2>1, <2>3, <2>4
    <3>3. x <= e
      BY <3>1, <3>2
    <3> QED
      BY <3>1, <3>3
  <2>6. PICK y \in 1..n : y = b[t] + j /\ cut[t].disk[j] = disk[y] /\ e < y
    BY <1>5, <2>3
  <2>7. UnitOf(storage, disk[x]) # UnitOf(storage, disk[y])
    BY <1>4, <2>4, <2>5, <2>6, UnitsDiffer
  <2> QED
    BY <2>5, <2>6, <2>7
<1>7. \A s, t \in 1..len : s # t => s < t \/ t < s
  OBVIOUS
<1>8. UnitsApart(cut, storage)
  BY <1>3, <1>6, <1>7 DEF UnitsApart
<1> QED
  BY <1>1, <1>8

\* Empty sequences before the last add nothing to it
LEMMA FlattenLast ==
  ASSUME NEW S, NEW ss \in Seq(Seq(S)), NEW m \in Nat, m = Len(ss), m >= 1,
         \A k \in 1..(m - 1) : ss[k] = <<>>
  PROVE  FlattenSeq(ss) = ss[m]
<1>1. PICK f \in [0..m -> Seq(S)] :
        /\ f[0] = <<>> /\ f[m] = FlattenSeq(ss)
        /\ \A k \in 1..m : f[k] = f[k - 1] \o ss[k]
  BY FlattenSteps
<1> DEFINE T == {k \in Nat : k < m => f[k] = <<>>}
<1>2. 0 \in T
  BY <1>1
<1>3. ASSUME NEW k \in Nat, k \in T PROVE k + 1 \in T
  <2>1. SUFFICES ASSUME k + 1 < m PROVE f[k + 1] = <<>>
    OBVIOUS
  <2>2. k + 1 \in 1..m /\ k + 1 \in 1..(m - 1) /\ (k + 1) - 1 = k /\ k < m
    BY <2>1
  <2>3. f[k] = <<>>
    BY <1>3, <2>2
  <2>4. f[k + 1] = f[k] \o ss[k + 1]
    BY <1>1, <2>2
  <2>5. ss[k + 1] = <<>>
    BY <2>2
  <2>6. <<>> \o <<>> = <<>>
    OBVIOUS
  <2> QED
    BY <2>3, <2>4, <2>5, <2>6
<1>4. Nat \subseteq T
  <2> HIDE DEF T
  <2> QED
    BY <1>2, <1>3, NumbersOfSet
<1>5. PICK k \in Nat : k = m - 1 /\ k < m /\ m \in 1..m
  <2>1. m - 1 \in Nat /\ m - 1 < m
    OBVIOUS
  <2> QED
    BY <2>1
<1>6. f[k] = <<>>
  <2>1. k \in T
    <3> HIDE DEF T
    <3> QED
      BY <1>4
  <2> QED
    BY <1>5, <2>1
<1>7. f[m] = f[k] \o ss[m]
  BY <1>1, <1>5
<1>8. PICK s \in Seq(S) : s = ss[m]
  BY <1>5
<1>9. <<>> \o s = s
  OBVIOUS
<1> QED
  BY <1>1, <1>6, <1>7, <1>8, <1>9

\* The pieces of a pair have indices of it
LEMMA CutFrom ==
  ASSUME NEW pair \in SpanPair, NEW cuts
  PROVE  AreFrom(CutPair(pair, cuts), pair)
<1>1. PICK cut : cut = CutPair(pair, cuts)
  OBVIOUS
<1>2. PICK b : IsCut(cut, pair, b, cuts)
  BY <1>1, CutBounds
<1>3. PICK len \in Nat : len = Len(cut) /\ DOMAIN cut = 1..len
  BY <1>2 DEF IsCut
<1>4. ASSUME NEW s \in 1..len, NEW i \in 1..Len(cut[s].disk)
      PROVE  \E p \in 1..Len(pair.disk) : cut[s].mem[i] = pair.mem[p] /\ cut[s].disk[i] = pair.disk[p]
  <2>1. HasPart(cut[s], pair, b[s], b[s + 1])
    BY <1>2, <1>3, PieceBetween
  <2> QED
    BY <2>1 DEF HasPart
<1> QED
  BY <1>1, <1>3, <1>4 DEF AreFrom

\* Rows that are read, and ascend, are in order
LEMMA ReadRows ==
  ASSUME NEW pair \in SpanPair, Rises(pair), IsRead(pair)
  PROVE  AreRows(pair.disk) /\ pair.disk # <<>>
<1>1. PICK disk \in Seq(Int), n \in Nat : disk = pair.disk /\ n = Len(disk)
  BY DEF SpanPair
<1>2. disk # <<>> /\ disk[1] >= 0 /\ 1 \in 1..n
  BY <1>1 DEF IsRead
<1>3. ASSUME NEW i \in 1..n PROVE disk[i] >= 0
  <2>1. disk[1] \in Int /\ disk[i] \in Int
    BY <1>1, <1>2
  <2>2. CASE i = 1
    BY <1>2, <2>2
  <2>3. CASE i # 1
    <3>1. 1 < i
      BY <2>3
    <3>2. disk[1] < disk[i]
      BY <1>1, <1>2, <3>1 DEF Rises
    <3> QED
      BY <1>2, <2>1, <3>2
  <2> QED
    BY <2>2, <2>3
<1>4. \A i, j \in 1..n : i < j => disk[i] < disk[j]
  BY <1>1, <1>3 DEF Rises
<1>5. disk \in Seq(Nat)
  <2>1. \A i \in 1..n : disk[i] \in Nat
    BY <1>1, <1>3
  <2> QED
    BY <1>1, <2>1
<1> QED
  BY <1>1, <1>2, <1>4, <1>5 DEF AreRows

\* The rows that the spans read
AreDisks(disk, spans) ==
  disk = [s \in DOMAIN spans |-> IF IsRead(spans[s]) THEN spans[s].disk ELSE <<>>]

\* The rows of spans of which the last is read are those of the last
LEMMA RowsOfLast ==
  ASSUME NEW spans \in Seq(SpanPair), LastRead(spans), NEW m \in Nat, m = Len(spans), m >= 1,
         NEW disk, AreDisks(disk, spans)
  PROVE  /\ FlattenSeq(disk) = disk[m]
         /\ Sum([r \in 1..(m - 1) |-> Len(disk[r])]) = 0
<1>1. DOMAIN spans = 1..m /\ m \in 1..m
  OBVIOUS
<1>a. DOMAIN disk = 1..m /\ \A s \in 1..m : disk[s] = IF IsRead(spans[s]) THEN spans[s].disk ELSE <<>>
  BY <1>1 DEF AreDisks
<1>b. disk = [s \in 1..m |-> disk[s]]
  BY <1>1 DEF AreDisks
<1>2. ASSUME NEW s \in 1..m PROVE spans[s].disk \in Seq(Int) /\ disk[s] \in Seq(Int)
  <2>1. spans[s] \in SpanPair
    BY <1>1
  <2>2. spans[s].disk \in Seq(Int)
    BY <2>1 DEF SpanPair
  <2>3. <<>> \in Seq(Int)
    OBVIOUS
  <2>4. disk[s] \in {spans[s].disk, <<>>}
    BY <1>a
  <2> QED
    BY <2>2, <2>3, <2>4
<1>3. ASSUME NEW s \in 1..(m - 1) PROVE disk[s] = <<>>
  <2>1. s \in 1..m /\ s < m
    OBVIOUS
  <2>2. NoneRead(spans[s])
    BY <1>1, <2>1 DEF LastRead
  <2>3. ~ IsRead(spans[s])
    <3>1. PICK d \in Seq(Int) : d = spans[s].disk
      BY <1>2, <2>1
    <3>2. d # <<>> => 1 \in 1..Len(d) /\ d[1] \in Int
      OBVIOUS
    <3>3. d # <<>> => d[1] < 0
      BY <2>2, <3>1, <3>2 DEF NoneRead
    <3>4. d # <<>> => ~ (d[1] >= 0)
      BY <3>2, <3>3
    <3> QED
      BY <3>1, <3>4 DEF IsRead
  <2> QED
    BY <1>a, <2>1, <2>3
<1>4. disk \in Seq(Seq(Int)) /\ Len(disk) = m
  <2>1. PICK T : T = Seq(Int)
    OBVIOUS
  <2>2. disk \in [1..m -> T]
    BY <1>b, <1>2, <2>1
  <2> QED
    BY <2>1, <2>2
<1>5. FlattenSeq(disk) = disk[m]
  BY <1>3, <1>4, FlattenLast
<1>6. PICK k \in Nat : k = m - 1
  <2>1. m - 1 \in Nat
    OBVIOUS
  <2> QED
    BY <2>1
<1>7. PICK z : z = [r \in 1..(m - 1) |-> Len(disk[r])]
  OBVIOUS
<1>8. z \in [1..k -> Nat] /\ \A i \in 1..k : z[i] = 0
  <2>1. \A i \in 1..k : Len(disk[i]) = 0
    <3>1. Len(<<>>) = 0
      OBVIOUS
    <3> QED
      BY <1>3, <1>6, <3>1
  <2>2. z = [r \in 1..k |-> Len(disk[r])]
    BY <1>6, <1>7
  <2>3. \A i \in 1..k : z[i] = 0
    BY <2>1, <2>2
  <2> QED
    BY <2>2, <2>3
<1>9. Sum(z) = 0
  BY <1>8, SumOfZeros
<1> QED
  BY <1>5, <1>7, <1>9

\* Rows split among the instances are of units of their own
LEMMA SplitApart ==
  ASSUME NEW storage, HaveStarts(storage), HasUnits(storage),
         NEW spans \in Seq(SpanPair), LastRead(spans), NEW nsplits \in Nat, nsplits > 1
  PROVE  UnitsApart(SplitRowSpans(spans, nsplits, storage), storage)
<1> DEFINE disk(s) == IF IsRead(spans[s]) THEN spans[s].disk ELSE <<>>
           rows == FlattenSeq([s \in DOMAIN spans |-> disk(s)])
           ends == Range(PieceEnds(rows, nsplits, storage))
           before(s) == Sum([r \in 1..(s - 1) |-> Len(disk(r))])
           inner(s) == {e - before(s) : e \in ends} \cap 1..(Len(disk(s)) - 1)
<1>1. PICK cut : cut = [s \in DOMAIN spans |-> CutPair(spans[s], inner(s))]
  OBVIOUS
<1>2. SplitRowSpans(spans, nsplits, storage) = FlattenSeq(cut)
  BY <1>1 DEF SplitRowSpans
<1>3. PICK m \in Nat : m = Len(spans) /\ DOMAIN spans = 1..m
  OBVIOUS
<1>4. PICK P : P = SpanPair
  OBVIOUS
<1>5. spans \in Seq(P) /\ \A s \in 1..m : spans[s] \in P
  BY <1>3, <1>4
<1>6. ASSUME m >= 1, NEW e \in inner(m)
      PROVE  AreRows(spans[m].disk) /\ IsBoundary(e, spans[m].disk, storage)
  <2>1. PICK all : all = [s \in DOMAIN spans |-> disk(s)]
    OBVIOUS
  <2>2. AreDisks(all, spans)
    BY <2>1 DEF AreDisks
  <2>3. FlattenSeq(all) = all[m] /\ Sum([r \in 1..(m - 1) |-> Len(all[r])]) = 0
    BY <1>3, <1>6, <2>2, RowsOfLast
  <2>4. m \in DOMAIN spans /\ \A r \in 1..(m - 1) : r \in DOMAIN spans
    BY <1>3, <1>6
  <2>5. before(m) = 0
    <3>1. \A r \in 1..(m - 1) : all[r] = disk(r)
      BY <2>1, <2>4
    <3> HIDE DEF disk
    <3>2. [r \in 1..(m - 1) |-> Len(all[r])] = [r \in 1..(m - 1) |-> Len(disk(r))]
      BY <3>1
    <3> QED
      BY <2>3, <3>2, Zenon
  <2>6. rows = disk(m)
    BY <2>1, <2>3, <2>4
  <2> HIDE DEF before, rows
  <2>7. IsRead(spans[m])
    <3>1. SUFFICES ASSUME ~ IsRead(spans[m]) PROVE FALSE
      OBVIOUS
    <3>2. disk(m) = <<>>
      BY <3>1
    <3>3. Len(disk(m)) - 1 = 0 - 1
      BY <3>2
    <3>4. 1..(0 - 1) = {}
      OBVIOUS
    <3> HIDE DEF disk
    <3>5. e \in 1..(Len(disk(m)) - 1)
      OBVIOUS
    <3>6. e \in 1..(0 - 1)
      BY <3>3, <3>5
    <3> QED
      BY <3>4, <3>6
  <2>8. disk(m) = spans[m].disk
    BY <2>7
  <2>9. Rises(spans[m]) /\ spans[m] \in SpanPair
    BY <1>4, <1>5, <2>4, <1>3 DEF LastRead
  <2>10. AreRows(spans[m].disk) /\ spans[m].disk # <<>>
    BY <2>7, <2>9, ReadRows
  <2>11. PICK r : r = rows /\ r = spans[m].disk
    BY <2>6, <2>8
  <2>12. \A x \in Range(PieceEnds(r, nsplits, storage)) : IsBoundary(x, r, storage)
    BY <2>10, <2>11, PiecesAligned
  <2>13. PICK x \in ends : e = x - 0
    <3> HIDE DEF ends, disk
    <3> QED
      BY <2>5
  <2>14. IsBoundary(x, r, storage)
    BY <2>11, <2>12, <2>13
  <2>15. e = x
    BY <2>13, <2>14 DEF IsBoundary
  <2> QED
    BY <2>10, <2>11, <2>14, <2>15
<1> HIDE DEF inner
<1>7. ASSUME NEW s \in 1..m PROVE cut[s] \in Seq(P) /\ AreFrom(cut[s], spans[s])
  <2>1. cut[s] = CutPair(spans[s], inner(s))
    BY <1>1, <1>3
  <2> QED
    BY <1>4, <1>5, <2>1, CutType, CutFrom
<1>8. DOMAIN cut = 1..m
  BY <1>1, <1>3
<1>9. cut \in Seq(Seq(P))
  <2>1. PICK T : T = Seq(P)
    OBVIOUS
  <2>2. cut \in [1..m -> T]
    BY <1>1, <1>3, <1>7, <2>1
  <2> QED
    BY <2>1, <2>2
<1>10. PICK u : u = FlattenSeq(cut)
  OBVIOUS
<1>11. PICK A, B : PlacesOf(u, cut, A, B)
  BY <1>9, <1>10, FlattenPlaces
<1>12. \A k \in DOMAIN u : A[k] \in 1..m /\ B[k] \in DOMAIN cut[A[k]] /\ u[k] = cut[A[k]][B[k]]
  BY <1>8, <1>11 DEF PlacesOf
<1>13. ASSUME NEW k \in DOMAIN u, AllRead(u[k]), NEW i \in 1..Len(u[k].disk) PROVE A[k] = m
  <2>0. PICK s \in 1..m : s = A[k]
    BY <1>12
  <2>1. PICK t : s = A[k] /\ t = B[k] /\ t \in DOMAIN cut[s] /\ u[k] = cut[s][t]
    BY <1>12, <2>0
  <2>2. PICK p \in 1..Len(spans[s].disk) : u[k].disk[i] = spans[s].disk[p]
    <3>1. AreFrom(cut[s], spans[s])
      BY <1>7
    <3>2. \A j \in 1..Len(cut[s][t].disk) :
            \E p \in 1..Len(spans[s].disk) : cut[s][t].disk[j] = spans[s].disk[p]
      BY <2>1, <3>1 DEF AreFrom
    <3>3. i \in 1..Len(cut[s][t].disk)
      BY <2>1
    <3> QED
      BY <2>1, <3>2, <3>3
  <2>3. spans[s].disk[p] >= 0
    BY <1>13, <2>2 DEF AllRead
  <2>4. PICK d \in Seq(Int) : d = spans[s].disk
    BY <1>4, <1>5 DEF SpanPair
  <2>5. ~ (d[p] < 0)
    <3>1. d[p] \in Int
      BY <2>4
    <3> QED
      BY <2>3, <2>4, <3>1
  <2>6. ~ NoneRead(spans[s])
    BY <2>4, <2>5 DEF NoneRead
  <2>7. ~ (s < m)
    BY <1>3, <2>6 DEF LastRead
  <2> QED
    BY <2>1, <2>7
<1>14. ASSUME NEW k \in DOMAIN u, NEW l \in DOMAIN u, k # l, AllRead(u[k]), AllRead(u[l]),
              NEW i \in 1..Len(u[k].disk), NEW j \in 1..Len(u[l].disk)
       PROVE  UnitOf(storage, u[k].disk[i]) # UnitOf(storage, u[l].disk[j])
  <2>1. A[k] = m /\ A[l] = m
    BY <1>13, <1>14
  <2>2. m \in 1..m /\ m >= 1
    <3>1. m \in 1..m
      BY <1>12, <2>1
    <3> QED
      BY <3>1
  <2>3. PICK x \in DOMAIN cut[m], y \in DOMAIN cut[m] :
          x = B[k] /\ y = B[l] /\ u[k] = cut[m][x] /\ u[l] = cut[m][y]
    BY <1>12, <2>1
  <2>4. x # y
    BY <1>11, <1>14, <2>1, <2>3 DEF PlacesOf
  <2>5. PICK v : v = cut[m]
    OBVIOUS
  <2>6. UnitsApart(v, storage)
    <3>1. PICK cuts : cuts = inner(m)
      OBVIOUS
    <3>2. \A e \in cuts : AreRows(spans[m].disk) /\ IsBoundary(e, spans[m].disk, storage)
      BY <1>6, <2>2, <3>1
    <3>3. v = CutPair(spans[m], cuts)
      BY <1>1, <1>3, <2>2, <2>5, <3>1
    <3>4. spans[m] \in SpanPair
      BY <1>4, <1>5, <2>2
    <3> QED
      BY <3>2, <3>3, <3>4, CutApart
  <2>7. x \in DOMAIN v /\ y \in DOMAIN v /\ u[k] = v[x] /\ u[l] = v[y]
    BY <2>3, <2>5
  <2> QED
    BY <1>14, <2>4, <2>6, <2>7 DEF UnitsApart
<1>15. UnitsApart(u, storage)
  BY <1>14 DEF UnitsApart
<1> QED
  BY <1>2, <1>10, <1>15

\* A sum of natural numbers is one
LEMMA SumType ==
  ASSUME NEW n \in Nat, NEW s \in [1..n -> Nat] PROVE Sum(s) \in Nat
<1>1. PICK p : IsSums(p, s, n)
  BY SumsExist
<1> QED
  BY <1>1, SumIs

\* The rows are split into a number of pieces
LEMMA SplitsType ==
  ASSUME NEW n \in Nat \ {0}, NEW dims \in [1..n -> Seq(SpanPair)],
         NEW maxSplits \in Nat, NEW minBytes \in Nat
  PROVE  NSplits(dims, maxSplits, minBytes) \in Nat
<1> DEFINE size(d) == Sum([s \in DOMAIN dims[d] |-> Len(dims[d][s].disk)])
           rowBytes == Product([d \in 1..(Len(dims) - 1) |-> size(d)])
           nrows == Sum([s \in DOMAIN Last(dims) |->
                           IF IsRead(Last(dims)[s]) THEN Len(Last(dims)[s].disk) ELSE 0])
           rest == IF minBytes > 0 THEN {(nrows * rowBytes) \div minBytes} ELSE {}
<1>1. NSplits(dims, maxSplits, minBytes) = Min({maxSplits, nrows} \cup rest)
  BY DEF NSplits
<1>2. Len(dims) = n /\ Last(dims) = dims[n] /\ n \in 1..n
  <2>1. PICK T : T = Seq(SpanPair)
    OBVIOUS
  <2>2. dims \in Seq(T) /\ Len(dims) = n
    BY <2>1
  <2> QED
    BY <2>2 DEF Last
<1>3. ASSUME NEW d \in 1..n PROVE size(d) \in Nat
  <2>1. PICK spans \in Seq(SpanPair) : spans = dims[d]
    OBVIOUS
  <2>2. PICK m \in Nat : m = Len(spans) /\ DOMAIN spans = 1..m
    OBVIOUS
  <2>3. PICK lens : lens = [s \in DOMAIN spans |-> Len(spans[s].disk)]
    OBVIOUS
  <2>4. lens \in [1..m -> Nat]
    BY <2>2, <2>3, Lengths
  <2>5. Sum(lens) \in Nat
    BY <2>4, SumType
  <2> QED
    BY <2>1, <2>3, <2>5
<1>4. rowBytes \in Nat
  <2> HIDE DEF size
  <2>1. PICK k \in Nat : k = n - 1
    <3>1. n - 1 \in Nat
      OBVIOUS
    <3> QED
      BY <3>1
  <2>2. PICK z : z = [d \in 1..(Len(dims) - 1) |-> size(d)]
    OBVIOUS
  <2>3. z \in [1..k -> Nat]
    BY <1>2, <1>3, <2>1, <2>2
  <2>4. z \in Seq(Nat)
    BY <2>3
  <2> QED
    BY <2>2, <2>4, ProductType
<1>5. nrows \in Nat
  <2>1. PICK spans \in Seq(SpanPair) : spans = dims[n] /\ Last(dims) = spans
    BY <1>2
  <2>2. PICK m \in Nat : m = Len(spans) /\ DOMAIN spans = 1..m
    OBVIOUS
  <2>3. PICK z : z = [s \in 1..m |-> IF IsRead(spans[s]) THEN Len(spans[s].disk) ELSE 0]
    OBVIOUS
  <2>4. \A s \in 1..m : Len(spans[s].disk) \in Nat
    <3>1. TAKE s \in 1..m
    <3>2. spans[s] \in SpanPair
      BY <2>2
    <3> QED
      BY <3>2 DEF SpanPair
  <2>5. z \in [1..m -> Nat]
    BY <2>3, <2>4
  <2>6. Sum(z) \in Nat
    BY <2>5, SumType
  <2> QED
    BY <2>1, <2>2, <2>3, <2>6
<1> HIDE DEF nrows, rowBytes
<1>6. rest \in SUBSET Nat
  <2>1. ASSUME minBytes > 0 PROVE (nrows * rowBytes) \div minBytes \in Nat
    <3>1. PICK x \in Nat : x = nrows * rowBytes
      BY <1>4, <1>5, ProductOfNats
    <3>2. x \div minBytes \in Nat
      BY <2>1
    <3> QED
      BY <3>1, <3>2
  <2> QED
    BY <2>1
<1>7. PICK S : S = {maxSplits, nrows} \cup rest
  OBVIOUS
<1>8. S \in SUBSET Nat /\ S # {}
  BY <1>5, <1>6, <1>7
<1>9. Min(S) \in Nat
  <2>1. Min(S) \in S
    BY <1>8, MinIsOneOf
  <2> QED
    BY <1>8, <2>1
<1> QED
  BY <1>1, <1>7, <1>9

\* A span pair of a dimension has its indices in order
LEMMA SpanPairAscends ==
  ASSUME NEW sel \in Seq(Seq(Int)), NEW d, NEW ndim, NEW size \in Nat
  PROVE  Ascends(GetSpanPair(sel, d, ndim, size))
<1>1. CASE IsSelected(sel, d, ndim)
  <2>1. FSpan(sel, d, ndim) \in Seq(Int)
    <3>1. PICK T : T = Seq(Int)
      OBVIOUS
    <3>2. sel \in Seq(T)
      BY <3>1
    <3>3. FSpan(sel, d, ndim) \in T
      BY <1>1, <3>2 DEF IsSelected, FSpan
    <3> QED
      BY <3>1, <3>3
  <2> QED
    BY <1>1, <2>1, SortedType DEF GetSpanPair
<1>2. CASE ~ IsSelected(sel, d, ndim)
  <2>1. PICK pair : pair = Monotonic(size)
    OBVIOUS
  <2>2. Len(pair.disk) = size /\ \A i \in 1..size : pair.disk[i] = i - 1
    <3>1. PICK disk : disk = [i \in 1..size |-> i - 1]
      OBVIOUS
    <3>2. Len(disk) = size /\ \A i \in 1..size : disk[i] = i - 1
      BY <3>1
    <3>3. pair.disk = disk
      BY <2>1, <3>1 DEF Monotonic
    <3> QED
      BY <3>2, <3>3
  <2>3. Ascends(pair)
    BY <2>2 DEF Ascends
  <2> QED
    BY <1>2, <2>1, <2>3 DEF GetSpanPair
<1> QED
  BY <1>1, <1>2

\* Spans of which the last is read are of units of their own
LEMMA LastApart ==
  ASSUME NEW storage, NEW spans \in Seq(SpanPair), LastRead(spans)
  PROVE  UnitsApart(spans, storage)
<1>1. PICK m \in Nat : m = Len(spans) /\ DOMAIN spans = 1..m
  OBVIOUS
<1>2. ASSUME NEW s \in 1..m, AllRead(spans[s]), NEW i \in 1..Len(spans[s].disk) PROVE s = m
  <2>1. PICK d \in Seq(Int) : d = spans[s].disk
    <3>1. spans[s] \in SpanPair
      BY <1>1
    <3> QED
      BY <3>1 DEF SpanPair
  <2>2. d[i] \in Int /\ d[i] >= 0
    BY <1>2, <2>1 DEF AllRead
  <2>3. ~ NoneRead(spans[s])
    BY <2>1, <2>2 DEF NoneRead
  <2>4. ~ (s < m)
    BY <1>1, <2>3 DEF LastRead
  <2> QED
    BY <2>4
<1> QED
  BY <1>1, <1>2 DEF UnitsApart

\* So are the rows that MakeFixed() makes chunks of
LEMMA RowsApart ==
  ASSUME NEW sel \in Seq(Seq(Int)), NEW sd, FixedData(sd),
         NEW maxSplits \in Nat, NEW minBytes \in Nat,
         NEW storage, HaveStarts(storage), HasUnits(storage),
         ~ HasDuplicates(GetSpanPair(sel, sd.ndim, sd.ndim, sd.shape[sd.ndim]))
  PROVE  UnitsApart(SplitRows(sel, sd, maxSplits, minBytes, storage)[sd.ndim], storage)
<1>1. PICK n \in Nat \ {0} : n = sd.ndim /\ n \in 1..n /\ \A d \in 1..n : sd.shape[d] \in Nat
  <2>1. PICK shape \in Seq(Nat), m \in Nat : shape = sd.shape /\ m = Len(shape) /\ m = sd.ndim /\ m >= 1
    BY DEF FixedData
  <2>2. m \in Nat \ {0} /\ m \in 1..m
    BY <2>1
  <2>4. \A d \in 1..Len(shape) : shape[d] \in Nat
    OBVIOUS
  <2>3. \A d \in 1..m : shape[d] \in Nat
    BY <2>1, <2>4, Zenon
  <2> QED
    BY <2>1, <2>2, <2>3
<1>2. PICK pairs : pairs = PairsOf(sel, sd)
  OBVIOUS
<1>3. \A d \in 1..n : pairs[d] = GetSpanPair(sel, d, n, sd.shape[d])
  BY <1>1, <1>2 DEF PairsOf
<1>4. \A d \in 1..n : pairs[d] \in SpanPair
  BY <1>1, <1>3, SpanPairType
<1>5. PICK dims : dims = SubSpansOf(sel, sd)
  OBVIOUS
<1>6. dims = [d \in 1..n |-> MakeSubSpans(pairs[d], d = n)]
  BY <1>1, <1>2, <1>5 DEF SubSpansOf
<1>7. dims \in [1..n -> Seq(SpanPair)]
  BY <1>4, <1>6, SubSpansType
<1>8. LastRead(dims[n])
  <2>1. PICK pair \in SpanPair : pair = pairs[n]
    BY <1>1, <1>4
  <2>2. pair = GetSpanPair(sel, n, n, sd.shape[n]) /\ sd.shape[n] \in Nat
    BY <1>1, <1>3, <2>1
  <2>3. Ascends(pair)
    BY <2>2, SpanPairAscends
  <2>4. ~ HasDuplicates(pair)
    BY <1>1, <2>2
  <2>5. Rises(pair)
    BY <2>3, <2>4, PairRises
  <2>6. LastRead(MakeSubSpans(pair, TRUE))
    BY <2>3, <2>5, SubSpansRise
  <2>7. (n = n) = TRUE
    OBVIOUS
  <2>8. dims[n] = MakeSubSpans(pair, TRUE)
    BY <1>1, <1>6, <2>1, <2>7
  <2> QED
    BY <2>6, <2>8
<1>9. PICK nsplits \in Nat : nsplits = SplitsOf(sel, sd, maxSplits, minBytes)
  BY <1>5, <1>7, SplitsType DEF SplitsOf
<1>10. PICK spans \in Seq(SpanPair) : spans = dims[n]
  BY <1>1, <1>7
<1>11. CASE maxSplits > 1 /\ nsplits > 1
  <2>1. UnitsApart(SplitRowSpans(spans, nsplits, storage), storage)
    BY <1>8, <1>10, <1>11, SplitApart
  <2>2. SplitRows(sel, sd, maxSplits, minBytes, storage) =
          [dims EXCEPT ![n] = SplitRowSpans(spans, nsplits, storage)]
    BY <1>1, <1>5, <1>9, <1>10, <1>11 DEF SplitRows
  <2>3. n \in DOMAIN dims
    BY <1>1, <1>7
  <2>4. SplitRows(sel, sd, maxSplits, minBytes, storage)[n] = SplitRowSpans(spans, nsplits, storage)
    BY <2>2, <2>3
  <2> QED
    BY <1>1, <2>1, <2>4
<1>12. CASE ~ (maxSplits > 1 /\ nsplits > 1)
  <2>1. UnitsApart(spans, storage)
    BY <1>8, <1>10, LastApart
  <2>2. SplitRows(sel, sd, maxSplits, minBytes, storage) = dims
    BY <1>5, <1>9, <1>12 DEF SplitRows
  <2> QED
    BY <1>1, <1>10, <2>1, <2>2
<1> QED
  BY <1>11, <1>12

\* A chunk is read whose every row is, and each of its spans
IsReadChunk(spans, n) == AllRead(spans[n]) /\ \A d \in 1..n : Len(spans[d].disk) # 0

\* A chunk that is not empty is read
LEMMA ChunkIsRead ==
  ASSUME NEW n \in Nat \ {0}, NEW chunk, chunk.spans \in Seq(SpanPair), Len(chunk.spans) = n,
         ~ IsEmpty(chunk)
  PROVE  IsReadChunk(chunk.spans, n)
<1>1. PICK spans \in Seq(SpanPair) : spans = chunk.spans /\ Len(spans) = n /\ DOMAIN spans = 1..n
  OBVIOUS
<1>2. PICK shape : shape = ChunkShape(chunk)
  OBVIOUS
<1>3. \A d \in 1..n : spans[d].disk \in Seq(Int) /\ Len(spans[d].disk) \in Nat
  <2>1. TAKE d \in 1..n
  <2>2. spans[d] \in SpanPair
    BY <1>1
  <2> QED
    BY <2>2 DEF SpanPair
<1>4. shape \in [1..n -> Nat] /\ \A d \in 1..n : shape[d] = Len(spans[d].disk)
  BY <1>1, <1>2, <1>3 DEF ChunkShape
<1>5. Product(shape) # 0
  BY <1>2 DEF IsEmpty, NElements
<1>6. \A d \in 1..n : shape[d] # 0
  BY <1>4, <1>5, ZeroFactor
<1>7. AllRead(spans[n])
  <2>1. n \in 1..n
    OBVIOUS
  <2>2. PICK disk \in Seq(Int) : disk = spans[n].disk
    BY <1>3, <2>1
  <2>3. \A i \in DOMAIN disk : ~ (disk[i] < 0)
    BY <1>1, <2>1, <2>2 DEF IsEmpty
  <2>4. \A i \in 1..Len(disk) : disk[i] >= 0
    BY <2>3
  <2> QED
    BY <2>2, <2>4 DEF AllRead
<1> QED
  BY <1>1, <1>4, <1>6, <1>7 DEF IsReadChunk

\* Choices of a product that are alike in all dimensions but the rows
AlikeBefore(product, k, l, n) == \A e \in 1..(n - 1) : product[k][e] = product[l][e]

\* The spans of every dimension hold each element once
AllOnce(dims, n) == \A e \in 1..n : OnceEach(dims[e])

\* No unit has rows in both spans
OfOtherUnits(a, b, storage) ==
  \A i \in 1..Len(a.disk), j \in 1..Len(b.disk) :
    UnitOf(storage, a.disk[i]) # UnitOf(storage, b.disk[j])

\* Chunks of a product, alike in all dimensions but the rows, are of units of their own
LEMMA ProductUnits ==
  ASSUME NEW storage, NEW n \in Nat \ {0}, NEW dims \in [1..n -> Seq(SpanPair)],
         AllOnce(dims, n), UnitsApart(dims[n], storage),
         NEW C, NEW product, ChoicesOf(product, dims, n, C),
         NEW k \in DOMAIN product, NEW l \in DOMAIN product, k # l,
         AlikeBefore(product, k, l, n),
         IsReadChunk(product[k], n), IsReadChunk(product[l], n)
  PROVE  OfOtherUnits(product[k][n], product[l][n], storage)
<1>1. \A m \in DOMAIN product : \A d \in 1..n :
        C[m][d] \in DOMAIN dims[d] /\ product[m][d] = dims[d][C[m][d]]
  BY DEF ChoicesOf
<1>2. ASSUME NEW e \in 1..(n - 1) PROVE C[k][e] = C[l][e]
  <2>1. e \in 1..n
    OBVIOUS
  <2>2. PICK a, b : a = C[k][e] /\ b = C[l][e]
    OBVIOUS
  <2>3. PICK spans \in Seq(SpanPair) : spans = dims[e]
    BY <2>1
  <2>4. /\ a \in DOMAIN spans /\ product[k][e] = spans[a]
        /\ b \in DOMAIN spans /\ product[l][e] = spans[b]
    BY <1>1, <2>1, <2>2, <2>3
  <2>5. spans[a] = spans[b]
    BY <2>4 DEF AlikeBefore
  <2>6. Len(spans[a].disk) # 0 /\ Len(spans[a].disk) \in Nat
    <3>1. spans[a] \in SpanPair
      BY <2>4
    <3>2. Len(product[k][e].disk) # 0
      BY <2>1 DEF IsReadChunk
    <3> QED
      BY <2>4, <3>1, <3>2 DEF SpanPair
  <2>7. 1 \in 1..Len(spans[a].disk) /\ 1 \in 1..Len(spans[b].disk)
    BY <2>5, <2>6
  <2>8. OnceEach(spans)
    BY <2>1, <2>3 DEF AllOnce
  <2>9. a = b
    BY <2>4, <2>5, <2>7, <2>8 DEF OnceEach
  <2> QED
    BY <2>2, <2>9
<1>3. n \in 1..n
  OBVIOUS
<1>4. C[k][n] # C[l][n]
  <2>1. SUFFICES ASSUME C[k][n] = C[l][n] PROVE FALSE
    OBVIOUS
  <2>2. \A d \in 1..n : d = n \/ d \in 1..(n - 1)
    OBVIOUS
  <2>3. \A d \in 1..n : C[k][d] = C[l][d]
    BY <1>2, <2>1, <2>2
  <2> QED
    BY <2>3 DEF ChoicesOf
<1>5. PICK rows : rows = dims[n]
  OBVIOUS
<1>6. PICK a \in DOMAIN rows, b \in DOMAIN rows :
        a = C[k][n] /\ b = C[l][n] /\ product[k][n] = rows[a] /\ product[l][n] = rows[b]
  BY <1>1, <1>3, <1>5
<1>7. a # b /\ UnitsApart(rows, storage)
  BY <1>4, <1>5, <1>6
<1>8. AllRead(rows[a]) /\ AllRead(rows[b])
  BY <1>6 DEF IsReadChunk
<1> QED
  BY <1>6, <1>7, <1>8 DEF UnitsApart, OfOtherUnits

\* The units that a chunk reads
UnitsIn(chunk, storage) ==
  IF IsEmpty(chunk) THEN {} ELSE {UnitOf(storage, row) : row \in Range(Last(chunk.spans).disk)}

\* No two chunks of one section read a unit
EachOnce(cs, storage) ==
  \A c, d \in DOMAIN cs :
    c # d /\ (\A k \in DOMAIN cs : Front(cs[k].spans) = Front(cs[c].spans)) =>
      UnitsIn(cs[c], storage) \cap UnitsIn(cs[d], storage) = {}

\* The spans of the dimensions before the last
LEMMA FrontOfSpans ==
  ASSUME NEW q \in Nat, NEW s \in Seq(SpanPair), Len(s) = q + 1
  PROVE  \A d \in 1..q : Front(s)[d] = s[d]
<1>1. ASSUME NEW d \in 1..q PROVE Front(s)[d] = s[d]
  <2>1. Front(s) = SubSeq(s, 1, Len(s) - 1)
    BY DEF Front
  <2>2. Len(s) - 1 = q
    OBVIOUS
  <2>3. SubSeq(s, 1, q)[d] = s[d]
    <3>1. PICK T : T = SpanPair
      OBVIOUS
    <3>2. s \in Seq(T)
      BY <3>1
    <3> QED
      BY <3>2
  <2> QED
    BY <2>1, <2>2, <2>3
<1> QED
  BY <1>1

\* The chunks of rows of one shape read each unit once
LEMMA FixedOnce ==
  ASSUME NEW sel \in Seq(Seq(Int)), NEW sd, FixedData(sd),
         NEW maxSplits \in Nat, NEW minBytes \in Nat,
         NEW storage, HaveStarts(storage), HasUnits(storage),
         NEW made, made = MakeFixed(sel, sd, maxSplits, minBytes, storage), made.ok
  PROVE  EachOnce(made.chunks, storage)
<1>1. PICK q \in Nat, n \in Nat \ {0} : n = sd.ndim /\ n = q + 1 /\ q = n - 1
  <2>1. PICK n \in Nat : n = sd.ndim /\ n >= 1
    BY DEF FixedData
  <2>2. n - 1 \in Nat /\ n = (n - 1) + 1 /\ n \in Nat \ {0}
    BY <2>1
  <2> QED
    BY <2>1, <2>2
<1>2. PICK dims : dims = SplitRows(sel, sd, maxSplits, minBytes, storage)
  OBVIOUS
<1>3. /\ SpansOf(dims, made, sel, sd, n)
      /\ \A d \in 1..n : ~ HasDuplicates(GetSpanPair(sel, d, n, sd.shape[d]))
  <2>1. /\ SpansOf(SplitRows(sel, sd, maxSplits, minBytes, storage), made, sel, sd, sd.ndim)
        /\ \A d \in 1..sd.ndim : ~ HasDuplicates(GetSpanPair(sel, d, sd.ndim, sd.shape[d]))
    BY FixedSpans
  <2> QED
    BY <1>1, <1>2, <2>1
<1>4. /\ dims \in [1..n -> Seq(SpanPair)] /\ made.chunks = ProductChunks(dims, sd)
      /\ \A e \in 1..n : OnceEach(dims[e])
  BY <1>3 DEF SpansOf, Covers
<1>5. UnitsApart(dims[n], storage)
  <2>1. n \in 1..n
    OBVIOUS
  <2>2. ~ HasDuplicates(GetSpanPair(sel, sd.ndim, sd.ndim, sd.shape[sd.ndim]))
    BY <1>1, <1>3, <2>1
  <2>3. UnitsApart(SplitRows(sel, sd, maxSplits, minBytes, storage)[sd.ndim], storage)
    BY <2>2, RowsApart
  <2> QED
    BY <1>1, <1>2, <2>3
<1>6. PICK product \in Seq(Seq(SpanPair)) : product = CartesianProduct(dims)
  BY <1>4, CartesianType
<1>7. PICK C : ChoicesOf(product, dims, n, C)
  <2>1. \E C : ChoicesOf(CartesianProduct(dims), dims, n, C)
    BY <1>4, CartesianChoices
  <2> QED
    BY <1>6, <2>1
<1>8. PICK second : second = SecondaryDimensionsContiguous(dims)
  OBVIOUS
<1>9. PICK cs : cs = ProductChunks(dims, sd)
  OBVIOUS
<1>10. cs = [k \in DOMAIN product |->
               MakeChunk(product[k], second /\ IsMemoryContiguous(Last(product[k])), sd)]
  BY <1>6, <1>8, <1>9, Zenon DEF ProductChunks
<1>11. DOMAIN cs = DOMAIN product
  BY <1>10
<1>12. ASSUME NEW k \in DOMAIN product
       PROVE  cs[k].spans = product[k] /\ product[k] \in Seq(SpanPair) /\ Len(product[k]) = n
  <2>1. PICK spans \in Seq(SpanPair) : spans = product[k] /\ Len(spans) = q + 1
    BY <1>1, <1>7 DEF ChoicesOf
  <2>2. PICK c : c = (second /\ IsMemoryContiguous(Last(product[k])))
    OBVIOUS
  <2>3. cs[k] = MakeChunk(spans, c, sd)
    BY <1>10, <2>1, <2>2
  <2>4. MakeChunk(spans, c, sd).spans = spans
    BY <2>1, ChunkFields
  <2> QED
    BY <1>1, <2>1, <2>3, <2>4
<1>13. ASSUME NEW k \in DOMAIN product, NEW row \in Range(Last(cs[k].spans).disk)
       PROVE  \E i \in 1..Len(product[k][n].disk) : row = product[k][n].disk[i]
  <2>1. PICK spans \in Seq(SpanPair) : spans = product[k] /\ spans = cs[k].spans /\ Len(spans) = n
    BY <1>12
  <2>2. Last(spans) = spans[n] /\ spans[n] \in SpanPair
    BY <2>1 DEF Last
  <2>3. PICK disk \in Seq(Int) : disk = spans[n].disk
    BY <2>2 DEF SpanPair
  <2>4. row \in Range(disk)
    BY <2>1, <2>2, <2>3
  <2>5. \E i \in 1..Len(disk) : row = disk[i]
    <3>1. PICK i \in DOMAIN disk : row = disk[i]
      BY <2>4 DEF Range
    <3>2. i \in 1..Len(disk)
      OBVIOUS
    <3> QED
      BY <3>1, <3>2
  <2> QED
    BY <2>1, <2>3, <2>5
<1>14. ASSUME NEW c \in DOMAIN cs, NEW d \in DOMAIN cs, c # d, Front(cs[d].spans) = Front(cs[c].spans)
       PROVE  UnitsIn(cs[c], storage) \cap UnitsIn(cs[d], storage) = {}
  <2>1. SUFFICES ASSUME ~ IsEmpty(cs[c]), ~ IsEmpty(cs[d]),
                        NEW x \in Range(Last(cs[c].spans).disk), NEW y \in Range(Last(cs[d].spans).disk)
                 PROVE  UnitOf(storage, x) # UnitOf(storage, y)
    BY DEF UnitsIn
  <2>2. PICK a \in DOMAIN product, b \in DOMAIN product : a = c /\ b = d /\ a # b
    BY <1>11, <1>14
  <2>3. cs[a].spans = product[a] /\ cs[b].spans = product[b]
    BY <1>12
  <2>4. IsReadChunk(product[a], n)
    <3>1. PICK chunk : chunk = cs[a]
      OBVIOUS
    <3>2. chunk.spans \in Seq(SpanPair) /\ Len(chunk.spans) = n /\ ~ IsEmpty(chunk)
      BY <1>12, <2>1, <2>2, <3>1
    <3>3. IsReadChunk(chunk.spans, n)
      BY <3>2, ChunkIsRead
    <3> QED
      BY <2>3, <3>1, <3>3
  <2>5. IsReadChunk(product[b], n)
    <3>1. PICK chunk : chunk = cs[b]
      OBVIOUS
    <3>2. chunk.spans \in Seq(SpanPair) /\ Len(chunk.spans) = n /\ ~ IsEmpty(chunk)
      BY <1>12, <2>1, <2>2, <3>1
    <3>3. IsReadChunk(chunk.spans, n)
      BY <3>2, ChunkIsRead
    <3> QED
      BY <2>3, <3>1, <3>3
  <2>6. PICK i \in 1..Len(product[a][n].disk) : x = product[a][n].disk[i]
    BY <1>13, <2>1, <2>2
  <2>7. PICK j \in 1..Len(product[b][n].disk) : y = product[b][n].disk[j]
    BY <1>13, <2>1, <2>2
  <2>8. \A e \in 1..(n - 1) : product[a][e] = product[b][e]
    <3>1. PICK s \in Seq(SpanPair), t \in Seq(SpanPair) :
            s = product[a] /\ t = product[b] /\ Len(s) = n /\ Len(t) = n
      BY <1>12
    <3>2. Front(s) = Front(t)
      BY <1>14, <2>2, <2>3, <3>1
    <3>3. \A e \in 1..q : Front(s)[e] = s[e] /\ Front(t)[e] = t[e]
      BY <1>1, <3>1, FrontOfSpans
    <3> QED
      BY <1>1, <3>1, <3>2, <3>3
  <2>9. UnitOf(storage, product[a][n].disk[i]) # UnitOf(storage, product[b][n].disk[j])
    <3>1. dims \in [1..n -> Seq(SpanPair)]
      BY <1>4
    <3>2. AllOnce(dims, n)
      BY <1>4 DEF AllOnce
    <3>3. a # b /\ AlikeBefore(product, a, b, n)
      BY <2>2, <2>8 DEF AlikeBefore
    <3>4. OfOtherUnits(product[a][n], product[b][n], storage)
      BY <1>5, <1>7, <2>4, <2>5, <3>1, <3>2, <3>3, ProductUnits
    <3> QED
      BY <3>4 DEF OfOtherUnits
  <2> QED
    BY <2>6, <2>7, <2>9
<1>15. EachOnce(cs, storage)
  BY <1>14 DEF EachOnce
<1> QED
  BY <1>4, <1>9, <1>15

\* A storage whose units are to be read once
ReadOnce(storage, nrows) ==
  IsStorage(storage, nrows) /\ HasUnits(storage)
  /\ UnitsConsecutive(storage, nrows) /\ UnitsInOrder(storage, nrows)

\* Its units start where RowUnitStart says, or before
LEMMA ReadOnceStarts ==
  ASSUME NEW storage, NEW nrows \in Nat, ReadOnce(storage, nrows)
  PROVE  HaveStarts(storage)
<1>1. CASE storage.manager = "tiled"
  <2>1. IsTiled(storage, nrows)
    BY <1>1 DEF ReadOnce, IsTiled
  <2> QED
    BY <2>1, TiledStarts
<1>2. CASE storage.manager # "tiled"
  <2>1. storage.manager = "dysco"
    BY <1>2 DEF ReadOnce, HasUnits
  <2>2. storage.rowsPerBlock \in Nat
    BY <1>2, <2>1 DEF ReadOnce, IsStorage, Other
  <2>3. HasUnits(storage)
    BY DEF ReadOnce
  <2> QED
    BY <2>1, <2>2, <2>3, BlockStarts
<1> QED
  BY <1>1, <1>2

\* The partition of a read of rows of one shape, split along the rows, reads each
\* unit once
LEMMA PartitionOnce ==
  ASSUME read \in Reads, ShapeData.ok, Partition.ok, NInstances > 1,
         ShapeData.fixed, ShapeData.extents = <<>>,
         ReadOnce(read.storage, NRow(read.column))
  PROVE  EachOnce(Partition.chunks, read.storage)
<1>1. NRow(read.column) \in Nat
  <2>1. PICK cells : cells = read.column.cells
    OBVIOUS
  <2>2. cells \in Seq([shape : Seq(Nat), defined : BOOLEAN])
    BY <2>1, ReadsAssumption DEF ReadsAssumption, IsColumn
  <2> QED
    BY <2>1, <2>2 DEF NRow
<1>2. PICK storage : storage = read.storage
  OBVIOUS
<1>3. HaveStarts(storage) /\ HasUnits(storage)
  <2>1. HaveStarts(storage)
    BY <1>1, <1>2, ReadOnceStarts
  <2> QED
    BY <1>2, <2>1 DEF ReadOnce
<1>4. PICK sel, sd : sel = EffectiveSelection /\ sd = ShapeData
  OBVIOUS
<1>5. sel \in Seq(Seq(Int)) /\ FixedData(sd) /\ sd.extents = <<>>
  <2>1. EffectiveSelection \in Seq(Seq(Int)) /\ Readable(EffectiveSelection, ShapeData)
    BY ShapeReadable
  <2>2. sel \in Seq(Seq(Int)) /\ Readable(sel, sd) /\ sd.fixed /\ sd.extents = <<>>
    BY <1>4, <2>1
  <2> QED
    BY <2>2 DEF Readable, VariableData
<1>6. PICK made : made = Partition
  OBVIOUS
<1>7. IsPartition(made, sel, sd, NInstances, MinSplitBytes, storage)
  BY <1>2, <1>4, <1>6 DEF Partition, IsPartition
<1>8. PICK result : result = MakeFixed(sel, sd, NInstances, MinSplitBytes, storage)
  OBVIOUS
<1>9. made = result /\ result.ok
  BY <1>5, <1>7, <1>8, FixedPartition
<1>10. NInstances \in Nat /\ MinSplitBytes \in Nat
  BY ReadAssumption DEF ReadAssumption
<1>11. EachOnce(result.chunks, storage)
  BY <1>3, <1>5, <1>8, <1>9, <1>10, FixedOnce
<1> QED
  BY <1>2, <1>6, <1>9, <1>11

\* Chunks are spread that several instances have of the partition
UnitsInv ==
  /\ read \in Reads
  /\ stage = "spread" =>
       ShapeData.ok /\ Partition.ok /\ chunks = Partition.chunks /\ NInstances > 1

\* Every step keeps to that
LEMMA UnitsSteps ==
  UnitsInv /\ [Next]_vars => UnitsInv'
<1> SUFFICES ASSUME UnitsInv, [Next]_vars PROVE UnitsInv'
  OBVIOUS
<1>1. read' = read
  BY DEF Next, vars, FailEarly, PartitionTask, Spread, Return, ReadChunk, FailGroup, EndGroup
<1>2. ShapeData' = ShapeData /\ Partition' = Partition
  BY <1>1 DEF ShapeData, Partition, EffectiveSelection
<1>3. CASE PartitionTask
  <2>1. /\ ShapeData.ok /\ Partition.ok /\ chunks' = Partition.chunks
        /\ stage' = "spread" => NInstances > 1
    BY <1>3 DEF PartitionTask
  <2> QED
    BY <1>1, <1>2, <2>1 DEF UnitsInv
<1>4. CASE ~ PartitionTask
  <2>1. stage' = "spread" => stage = "spread" /\ chunks' = chunks
    BY <1>4 DEF Next, vars, FailEarly, Spread, Return, ReadChunk, FailGroup, EndGroup
  <2> QED
    BY <1>1, <1>2, <2>1 DEF UnitsInv
<1> QED
  BY <1>3, <1>4

(***************************************************************************)
(* Of any storage whose units are rows that follow each other, in the      *)
(* order of the hypercube, or blocks, no two chunks of a section read      *)
(* rows of the same unit: AlignBoundary() leaves it to one instance,       *)
(* wherever the rows are split, and whichever are selected.                *)
(***************************************************************************)
THEOREM UnitsAreReadOnce == Spec => []UnitsReadOnce
<1>1. Init => UnitsInv
  BY DEF Init, UnitsInv
<1>2. UnitsInv => UnitsReadOnce
  <2> SUFFICES ASSUME UnitsInv, stage = "spread", ShapeData.fixed, ShapeData.extents = <<>>,
                      HasUnits(read.storage),
                      UnitsConsecutive(read.storage, NRow(read.column)),
                      UnitsInOrder(read.storage, NRow(read.column)),
                      NEW c \in DOMAIN chunks, NEW d \in DOMAIN chunks, c # d, OneSection(c)
               PROVE  UnitsRead(chunks[c]) \cap UnitsRead(chunks[d]) = {}
    BY DEF UnitsReadOnce
  <2>1. read \in Reads /\ ShapeData.ok /\ Partition.ok /\ NInstances > 1
    BY DEF UnitsInv
  <2>2. ReadOnce(read.storage, NRow(read.column))
    BY <2>1, ReadsAssumption DEF ReadsAssumption, ReadOnce
  <2>3. EachOnce(Partition.chunks, read.storage)
    BY <2>1, <2>2, PartitionOnce
  <2>4. EachOnce(chunks, read.storage)
    BY <2>3 DEF UnitsInv
  <2>5. \A k \in DOMAIN chunks : Front(chunks[k].spans) = Front(chunks[c].spans)
    BY DEF OneSection
  <2>6. UnitsIn(chunks[c], read.storage) \cap UnitsIn(chunks[d], read.storage) = {}
    BY <2>4, <2>5, Zenon DEF EachOnce
  <2> QED
    BY <2>6, Zenon DEF UnitsIn, UnitsRead
<1> QED
  BY <1>1, <1>2, UnitsSteps, PTL DEF Spec

=============================================================================

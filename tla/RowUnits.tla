-------------------------------- MODULE RowUnits --------------------------------
(***************************************************************************)
(* The storage units of a column (MakeRowUnitStart()): rows that a storage *)
(* manager reads, or decodes, together.  A storage is one of               *)
(*   - other: a manager without units, a column of one cell to a           *)
(*     hypercube, or a table that refers to the rows of another;           *)
(*   - tiled: cubes[c] is the extent of the row axes of a hypercube, and   *)
(*     the size of its tiles along the last; cells[r + 1] the hypercube of *)
(*     row r, and its position along the row axes;                         *)
(*   - dysco: blocks of so many rows, from row 0.                          *)
(***************************************************************************)
EXTENDS Integers, SequencesExt

Other == [manager |-> "other"]
Tiled(cubes, cells) == [manager |-> "tiled", cubes |-> cubes, cells |-> cells]
Dysco(rowsPerBlock) == [manager |-> "dysco", rowsPerBlock |-> rowsPerBlock]

\* Each row is in a hypercube that there is, or in none
IsStorage(storage, nrows) ==
  \/ storage = Other
  \/ storage.manager = "dysco" /\ storage.rowsPerBlock \in Nat
  \/ /\ storage.manager = "tiled"
     /\ storage.cells \in Seq([cube : Nat \ {0}, position : Seq(Nat) \ {<<>>}])
     /\ Len(storage.cells) <= nrows
     /\ \A r \in DOMAIN storage.cells :
          LET cube == storage.cubes[storage.cells[r].cube]
          IN  /\ cube.tile \in Nat \ {0}
              /\ cube.shape \in Seq(Nat) /\ Len(cube.shape) = Len(storage.cells[r].position)

\* Is a RowUnitStart made at all?
HasUnits(storage) ==
  \/ storage.manager = "tiled"
  \/ storage.manager = "dysco" /\ storage.rowsPerBlock > 1

\* getHypercube() throws otherwise
InHypercube(storage, row) == row + 1 \in DOMAIN storage.cells

\* Ignores the row axes but the last
OffsetInTile(cube, position) == Last(position) % cube.tile

\* The offset of a row in its band of tiles along the last axis.  Rows step through
\* the row axes fastest first
OffsetInBand(cube, position) ==
  LET inner == Reverse([d \in 1..(Len(position) - 1) |-> d])
  IN  FoldLeft(LAMBDA offset, d : offset * cube.shape[d] + position[d],
               Last(position) % cube.tile, inner)

\* The RowUnitStart: the first row of the unit of a row
UnitStart(storage, row) ==
  IF storage.manager = "dysco" THEN row - (row % storage.rowsPerBlock)
  ELSE IF ~ InHypercube(storage, row) THEN row
  ELSE LET cell == storage.cells[row + 1]
           offset == OffsetInBand(storage.cubes[cell.cube], cell.position)
       IN  IF offset <= row THEN row - offset ELSE row

-----------------------------------------------------------------------------
\* What is really read together: a block, or a hypercube's band of tiles
UnitOf(storage, row) ==
  IF storage.manager = "dysco" THEN <<1, row \div storage.rowsPerBlock>>
  ELSE IF ~ InHypercube(storage, row) THEN <<0, row>>
  ELSE LET cell == storage.cells[row + 1]
       IN  <<cell.cube, Last(cell.position) \div storage.cubes[cell.cube].tile>>

\* No other row comes between the rows of a unit.  It may, in a TiledShapeStMan: the
\* rows of its hypercubes interleave
UnitsConsecutive(storage, nrows) ==
  \A r, s, q \in 0..(nrows - 1) :
    r < s /\ s < q /\ UnitOf(storage, r) = UnitOf(storage, q) =>
      UnitOf(storage, s) = UnitOf(storage, r)

\* Does a hypercube step from position p to q, its row axes fastest first?
IsNext(cube, p, q) ==
  \E k \in DOMAIN p :
    /\ q[k] = p[k] + 1
    /\ \A d \in DOMAIN p : /\ d < k => p[d] = cube.shape[d] - 1 /\ q[d] = 0
                           /\ d > k => q[d] = p[d]

\* Is it the first position of a band?
IsFirst(cube, p) == Last(p) % cube.tile = 0 /\ \A d \in 1..(Len(p) - 1) : p[d] = 0

\* Hypercubes hold the rows of a unit in their order.  Those of a TiledShapeStMan hold
\* them in the order in which the cells got their shapes
UnitsInOrder(storage, nrows) ==
  storage.manager = "tiled" =>
    \A r \in 0..(nrows - 1) : InHypercube(storage, r) =>
      LET cell == storage.cells[r + 1]
          cube == storage.cubes[cell.cube]
      IN  IF r > 0 /\ UnitOf(storage, r - 1) = UnitOf(storage, r)
          THEN IsNext(cube, storage.cells[r].position, cell.position)
          ELSE IsFirst(cube, cell.position)
=============================================================================

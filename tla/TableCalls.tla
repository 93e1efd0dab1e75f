------------------------------- MODULE TableCalls -------------------------------
(***************************************************************************)
(* The calls of NewTableProxy, and what the functor of each does to a      *)
(* casacore table.                                                         *)
(*                                                                         *)
(* A table has cells, from its columns to the value of each row; keywords, *)
(* the columns ("" stands for the table) that have one; whether it is open *)
(* for writing, and whether it may be.  The cells of FIXED are there as    *)
(* soon as the row is, those of VARIABLE once put.                         *)
(***************************************************************************)
EXTENDS Integers, SequencesExt

\* In the order in which a table describes them
TableColumns == <<"FIXED", "VARIABLE">>

Undefined == -1
Default(column) == IF column = "FIXED" THEN 0 ELSE Undefined

NRows(t) == Len(t.cells["FIXED"])
ColumnExists(t, column) == column \in DOMAIN t.cells
ColumnNames(t) == IF ColumnExists(t, "VARIABLE") THEN TableColumns ELSE <<"FIXED">>

\* What casacore keeps true of a table
WellFormed(t) ==
  /\ {"cells", "keywords", "writable", "permitted"} = DOMAIN t
  /\ "FIXED" \in DOMAIN t.cells
  /\ \A column \in DOMAIN t.cells : t.cells[column] \in Seq(Int) /\ Len(t.cells[column]) = NRows(t)
  /\ \A r \in 1..NRows(t) : t.cells["FIXED"][r] # Undefined

\* Answers
NoAnswer == [is |-> "none"]
Failed == [is |-> "failed"]
Ok(value) == [is |-> "ok", value |-> value]

-----------------------------------------------------------------------------
(* Calls.  secondary: does the selection have more dimensions than the row? *)

NoCall == [op |-> "none"]

Queries ==
  {[op |-> op] : op \in {"Name", "nRows", "nColumns", "Columns", "IsWritable",
                         "GetTableDescriptor", "GetDataManagerInfo", "GetLockOptions"}}
  \cup [op : {"GetKeywords"}, column : {"", "VARIABLE"}]
  \cup [op : {"GetColumnDescriptor"}, column : Range(TableColumns)]
  \cup [op : {"GetRowShapes"}, column : Range(TableColumns), secondary : BOOLEAN]

Reads == [op : {"GetColumn"}, column : Range(TableColumns)]

Conversions ==
  [op : {"ToArrow"}, columns : {<<>>, <<"VARIABLE", "FIXED">>}, secondary : BOOLEAN]

\* PutColumn() puts the first so many rows
Writes ==
  [op : {"PutColumn"}, column : Range(TableColumns), rows : 1..2]
  \cup {[op |-> op] : op \in {"AddRows", "AddColumns"}}
  \cup [op : {"PutKeywords"}, column : {"", "VARIABLE"}, parses : BOOLEAN]
  \cup [op : {"RemoveKeyword"}, column : {"", "VARIABLE"}]

\* Statements in TaQL, on so many tables
Statements == [op : {"Taql"}, does : {"SELECT", "UPDATE", "DELETE"}, tables : {1}]
              \cup [op : {"Taql"}, does : {"SELECT"}, tables : {0, 2}]

\* casa.convert.strategy is set
Strategies == {"fixed", "list", "invalid"}
Settings == [op : {"Set"}, strategy : Strategies]

Calls == Queries \cup Reads \cup Conversions \cup Writes \cup Statements \cup Settings

-----------------------------------------------------------------------------
(* Functors: the answer, and what becomes of the table *)

\* GetRowShapes(): which cells have a shape
RowShapes(t, column) == [r \in 1..NRows(t) |-> t.cells[column][r] # Undefined]

Known(t, column) == column # "" => ColumnExists(t, column)

Query(t, call) ==
  CASE call.op = "nRows" -> Ok(NRows(t))
    [] call.op \in {"Columns", "GetDataManagerInfo"} -> Ok(ColumnNames(t))
    [] call.op = "nColumns" -> Ok(Len(ColumnNames(t)))
    [] call.op = "GetTableDescriptor" -> Ok([columns |-> ColumnNames(t), keywords |-> t.keywords])
    [] call.op \in {"Name", "GetLockOptions"} -> Ok(call.op)
    [] call.op = "IsWritable" -> Ok(t.writable)
    [] call.op = "GetKeywords" ->
         IF Known(t, call.column) THEN Ok(call.column \in t.keywords) ELSE Failed
    [] call.op = "GetColumnDescriptor" ->
         IF ColumnExists(t, call.column) THEN Ok(call.column) ELSE Failed
    [] call.op = "GetRowShapes" ->
         IF ColumnExists(t, call.column) THEN Ok(RowShapes(t, call.column)) ELSE Failed

\* Can all rows of a column be read?  Cells of no fixed shape must all be there,
\* and some
Readable(t, column) ==
  /\ ColumnExists(t, column)
  /\ \/ column = "FIXED"
     \/ NRows(t) > 0 /\ Undefined \notin Range(t.cells[column])

\* GetConvertStrategy(): may it be found valid?  It isn't locked: while it is being
\* set, anything may be found
FoundValid(strategy, setting) == IF setting = {} THEN {strategy # "invalid"} ELSE BOOLEAN

\* What a read of a column, made into an array, may answer
Arrays(t, column, strategy, setting) ==
  {IF valid /\ Readable(t, column) THEN Ok(t.cells[column]) ELSE Failed :
     valid \in FoundValid(strategy, setting)}

\* The columns ToArrow() reads
Listed(t, conversion) == IF conversion.columns = <<>> THEN ColumnNames(t) ELSE conversion.columns

\* The arrow table of the columns that could be read
ArrowTable(listed, seen) ==
  LET fields[k \in 0..Len(listed)] ==
        IF k = 0 THEN <<>>
        ELSE IF seen[k] = Failed THEN fields[k - 1]
        ELSE Append(fields[k - 1], [column |-> listed[k], read |-> seen[k]])
  IN  fields[Len(listed)]

\* MaybeReopenRW() throws unless the table is writable, or may be
CanReopen(t) == t.writable \/ t.permitted
Reopened(t) == [t EXCEPT !.writable = TRUE]

\* Does casacore carry out the write?
Possible(t, call) ==
  CASE call.op = "PutColumn" -> ColumnExists(t, call.column) /\ call.rows <= NRows(t)
    [] call.op = "AddRows" -> TRUE
    [] call.op = "AddColumns" -> ~ ColumnExists(t, "VARIABLE")
    [] call.op = "PutKeywords" -> call.parses
    [] call.op = "RemoveKeyword" -> call.column \in t.keywords

\* What it does
Written(t, call) ==
  CASE call.op = "PutColumn" ->
         [t EXCEPT !.cells[call.column] =
            [r \in DOMAIN @ |-> IF r <= call.rows THEN 1 ELSE @[r]]]
    [] call.op = "AddRows" ->
         [t EXCEPT !.cells = [column \in DOMAIN @ |-> Append(@[column], Default(column))]]
    [] call.op = "AddColumns" ->
         [t EXCEPT !.cells = [column \in Range(TableColumns) |->
                                IF column \in DOMAIN @ THEN @[column]
                                ELSE [r \in 1..NRows(t) |-> Default(column)]]]
    [] call.op = "PutKeywords" -> [t EXCEPT !.keywords = @ \cup {call.column}]
    [] call.op = "RemoveKeyword" -> [t EXCEPT !.keywords = @ \ {call.column}]

\* The column of a keyword is looked up before the table is reopened, all else after
Write(t, call) ==
  IF \/ call.op \in {"PutKeywords", "RemoveKeyword"} /\ ~ Known(t, call.column)
     \/ ~ CanReopen(t)
  THEN [table |-> t, answer |-> Failed]
  ELSE IF ~ Possible(t, call) THEN [table |-> Reopened(t), answer |-> Failed]
  ELSE [table |-> Written(Reopened(t), call), answer |-> Ok(TRUE)]

\* A statement in TaQL, carried out by casacore on one instance.  UPDATE adds to
\* each cell of FIXED, DELETE takes the last row
Taql(t, call) ==
  LET reopened == Reopened(t)
  IN  IF call.does = "SELECT" THEN [table |-> t, answer |-> Ok(TRUE)]
      ELSE IF ~ CanReopen(t) THEN [table |-> t, answer |-> Failed]
      ELSE IF call.does = "UPDATE"
      THEN [table |-> [reopened EXCEPT !.cells["FIXED"] = [r \in DOMAIN @ |-> @[r] + 1]],
            answer |-> Ok(TRUE)]
      ELSE [table |-> [reopened EXCEPT !.cells =
                         [column \in DOMAIN @ |-> IF @[column] = <<>> THEN <<>> ELSE Front(@[column])]],
            answer |-> Ok(TRUE)]

\* May be refused without a task: writes need one instance, a statement at most one
\* table, and selections of some calls the rows alone
Refusable(call) ==
  \/ call \in Writes
  \/ call.op = "Taql" /\ call.tables # 1
  \/ call.op \in {"GetRowShapes", "ToArrow"} /\ call.secondary
=============================================================================

------------------------------- MODULE MCTableOps -------------------------------
(* Small tables, and calls of two threads *)
EXTENDS TableOps

Table(nrows, hasVariable, writable, permitted) ==
  [cells |-> [column \in IF hasVariable THEN {"FIXED", "VARIABLE"} ELSE {"FIXED"} |->
                [r \in 1..nrows |-> 0]],
   keywords |-> {}, writable |-> writable, permitted |-> permitted]

\* With every cell, with one column, and read only
SmallTables == {Table(2, TRUE, FALSE, TRUE), Table(1, FALSE, TRUE, TRUE), Table(1, TRUE, FALSE, FALSE)}

\* Every operation, and of those that take arguments enough to succeed and to fail
SmallCalls ==
  {[op |-> "nRows"], [op |-> "Columns"], [op |-> "IsWritable"], [op |-> "GetTableDescriptor"],
   [op |-> "GetKeywords", column |-> ""],
   [op |-> "GetColumnDescriptor", column |-> "VARIABLE"],
   [op |-> "GetRowShapes", column |-> "VARIABLE", secondary |-> FALSE],
   [op |-> "ToArrow", columns |-> <<>>, secondary |-> TRUE],
   [op |-> "PutColumn", column |-> "VARIABLE", rows |-> 2],
   [op |-> "PutKeywords", column |-> "", parses |-> TRUE],
   [op |-> "PutKeywords", column |-> "", parses |-> FALSE],
   [op |-> "RemoveKeyword", column |-> ""],
   [op |-> "AddRows"], [op |-> "AddColumns"], [op |-> "Set", strategy |-> "invalid"]}
  \cup Reads \cup {made \in Conversions : ~ made.secondary} \cup Statements

\* With several instances, a table that doesn't change
CallBounds == <<3, 2>>

\* One of the clients converts the table
CallsOfEach ==
  LET converter == CHOOSE c \in Clients : TRUE
  IN  [c \in Clients |-> IF c = converter THEN SmallCalls ELSE SmallCalls \ Conversions]

UpdatesOfEach == [c \in Clients |-> {made \in Statements : made.does = "UPDATE"}]
=============================================================================

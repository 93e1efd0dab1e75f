-------------------------------- MODULE TableOps --------------------------------
(***************************************************************************)
(* Threads using one table (NewTableProxy): a call is refused, or runs as  *)
(* tasks on the instances of the table, whose callbacks submit further     *)
(* tasks.  GetColumn() may be spread over the instances; ToArrow() lists   *)
(* the columns, then reads each as GetColumn() does; Taql() runs its       *)
(* statement on one instance after the other (Spawn()).                    *)
(*                                                                         *)
(* Instance i names its queue and thread.  Tasks are placed on any         *)
(* instance: Dispatch says on which.  How a read is split is the matter of *)
(* ReadColumn: here a piece is some rows.                                  *)
(***************************************************************************)
EXTENDS TableCalls, FiniteSetsExt

CONSTANTS
  Clients,
  MaxInstances,
  MaxCalls,        \* calls, of all clients together, for each number of instances
  CallsMade,       \* the calls each client makes
  InitialTables,
  TaqlWriters      \* the numbers of instances of tables that UPDATE and DELETE get

ASSUME TableAssumption ==
  /\ MaxInstances \in Nat \ {0} /\ MaxCalls \in [1..MaxInstances -> Nat]
  /\ CallsMade \in [Clients -> SUBSET Calls]
  /\ \A t \in InitialTables : WellFormed(t)

VARIABLES
  nInstances,
  table, strategy, setting,
  call, answer,     \* of each client
  pc,               \* of each client: idle, enter, wait, spawn, columns, set, answered
  listed, seen,     \* ToArrow(): its columns, and what was read of each
  reads,            \* of each column being read: column; if it is spread: rows, the
                    \* cells read; next, the piece to submit; left, pieces not read
                    \* yet; failed, has a piece?
  slot,             \* the loop index of Spawn(), or of ToArrow()'s loop over columns
  queue,            \* of each instance: tasks
  calls,            \* how many were made
  shrunk            \* clients whose table lost rows during the call

clientVars == <<call, answer, pc, listed, seen, reads, slot>>
vars == <<nInstances, table, strategy, setting, clientVars, queue, calls, shrunk>>

Instances == 1..nInstances

\* Task k of a client: 0 is that of the call, others read column k, or a piece of it
Task(c, k, piece) == [client |-> c, k |-> k, piece |-> piece]

Init ==
  /\ nInstances \in 1..MaxInstances
  /\ table \in InitialTables
  /\ strategy = "fixed" /\ setting = {}
  /\ call = [c \in Clients |-> NoCall]
  /\ answer = [c \in Clients |-> NoAnswer]
  /\ pc = [c \in Clients |-> "idle"]
  /\ listed = [c \in Clients |-> <<>>] /\ seen = [c \in Clients |-> <<>>]
  /\ reads = [c \in Clients |-> <<>>]
  /\ slot = [c \in Clients |-> 1]
  /\ queue = [i \in Instances |-> <<>>]
  /\ calls = 0 /\ shrunk = {}

-----------------------------------------------------------------------------
(* Calls *)

Call(c) ==
  /\ pc[c] = "idle" /\ calls < MaxCalls[nInstances]
  /\ \E made \in CallsMade[c] :
       /\ made.op = "Taql" /\ made.does # "SELECT" => nInstances \in TaqlWriters
       /\ call' = [call EXCEPT ![c] = made]
  /\ calls' = calls + 1
  /\ pc' = [pc EXCEPT ![c] = "enter"]
  /\ UNCHANGED <<nInstances, table, strategy, setting, answer, listed, seen, reads, slot, queue, shrunk>>

\* Lets every write through
AnyInstances == TRUE

\* SafeMultithreadedWrites()
SafeMultithreadedWrites == nInstances = 1

Refused(made) ==
  \/ made \in Writes /\ ~ SafeMultithreadedWrites
  \/ made.op = "Taql" /\ made.tables = 2
  \/ made.op \in {"GetRowShapes", "ToArrow"} /\ made.secondary

\* The call is answered
Answer(c, result) ==
  /\ answer' = [answer EXCEPT ![c] = result]
  /\ pc' = [pc EXCEPT ![c] = "answered"]

Refuse(c) ==
  /\ pc[c] = "enter" /\ Refused(call[c])
  /\ Answer(c, Failed)
  /\ UNCHANGED <<nInstances, table, strategy, setting, call, listed, seen, reads, slot, queue, calls, shrunk>>

\* Taql() without tables leaves this one alone
QueryNoTable(c) ==
  /\ pc[c] = "enter" /\ call[c].op = "Taql" /\ call[c].tables = 0
  /\ \E result \in {Ok(TRUE), Failed} : Answer(c, result)
  /\ UNCHANGED <<nInstances, table, strategy, setting, call, listed, seen, reads, slot, queue, calls, shrunk>>

\* A read that isn't spread, so far
NewRead(column) == [column |-> column, rows |-> <<>>, next |-> 1, left |-> {}, failed |-> FALSE]

Enqueue(i, task) == queue' = [queue EXCEPT ![i] = Append(@, task)]

\* RunAsync() of the call's first task
Submit(c) ==
  /\ pc[c] = "enter" /\ ~ Refused(call[c])
  /\ call[c] \notin Settings /\ call[c].op # "Taql"
  /\ \E i \in Instances :
       Enqueue(i, Task(c, IF call[c] \in Reads THEN 1 ELSE 0, 0))
  /\ reads' = [reads EXCEPT ![c] = IF call[c] \in Reads THEN <<NewRead(call[c].column)>> ELSE <<>>]
  /\ pc' = [pc EXCEPT ![c] = "wait"]
  /\ UNCHANGED <<nInstances, table, strategy, setting, call, answer, listed, seen, slot, calls, shrunk>>

\* One iteration of Spawn()
SpawnNext(c) ==
  /\ \/ pc[c] = "enter" /\ call[c].op = "Taql" /\ call[c].tables = 1
     \/ pc[c] = "spawn"
  /\ Enqueue(slot[c], Task(c, 0, 0))
  /\ pc' = [pc EXCEPT ![c] = "wait"]
  /\ UNCHANGED <<nInstances, table, strategy, setting, call, answer, listed, seen, reads, slot, calls, shrunk>>

\* Configuration::Set() writes to a map that isn't locked
BeginSet(c) ==
  /\ pc[c] = "enter" /\ call[c] \in Settings
  /\ setting' = setting \cup {c}
  /\ pc' = [pc EXCEPT ![c] = "set"]
  /\ UNCHANGED <<nInstances, table, strategy, call, answer, listed, seen, reads, slot, queue, calls, shrunk>>

EndSet(c) ==
  /\ pc[c] = "set"
  /\ setting' = setting \ {c}
  /\ strategy' = call[c].strategy
  /\ Answer(c, Ok(TRUE))
  /\ UNCHANGED <<nInstances, table, call, listed, seen, reads, slot, queue, calls, shrunk>>

Return(c) ==
  /\ pc[c] = "answered"
  /\ call' = [call EXCEPT ![c] = NoCall]
  /\ answer' = [answer EXCEPT ![c] = NoAnswer]
  /\ pc' = [pc EXCEPT ![c] = "idle"]
  /\ listed' = [listed EXCEPT ![c] = <<>>] /\ seen' = [seen EXCEPT ![c] = <<>>]
  /\ reads' = [reads EXCEPT ![c] = <<>>]
  /\ slot' = [slot EXCEPT ![c] = 1]
  /\ shrunk' = shrunk \ {c}
  /\ UNCHANGED <<nInstances, table, strategy, setting, queue, calls>>

-----------------------------------------------------------------------------
(* Tasks *)

\* The task at the head of a queue runs, and is gone
Runs(i, c, k, piece) == queue[i] # <<>> /\ Head(queue[i]) = Task(c, k, piece)
Dequeue(i) == queue' = [queue EXCEPT ![i] = Tail(@)]

RunQuery(i, c) ==
  /\ Runs(i, c, 0, 0) /\ call[c] \in Queries
  /\ Dequeue(i)
  /\ Answer(c, Query(table, call[c]))
  /\ UNCHANGED <<nInstances, table, strategy, setting, call, listed, seen, reads, slot, calls, shrunk>>

RunWrite(i, c) ==
  /\ Runs(i, c, 0, 0) /\ call[c] \in Writes
  /\ Dequeue(i)
  /\ table' = Write(table, call[c]).table
  /\ Answer(c, Write(table, call[c]).answer)
  /\ UNCHANGED <<nInstances, strategy, setting, call, listed, seen, reads, slot, calls, shrunk>>

\* Spawn() ends with the last instance, or the first failure
RunStatement(i, c) ==
  LET done == Taql(table, call[c])
  IN  /\ Runs(i, c, 0, 0) /\ call[c] \in Statements
      /\ Dequeue(i)
      /\ table' = done.table
      /\ shrunk' = IF NRows(done.table) < NRows(table)
                   THEN {d \in Clients : call[d] # NoCall} ELSE shrunk
      /\ IF done.answer = Failed \/ slot[c] = nInstances
         THEN Answer(c, done.answer) /\ UNCHANGED slot
         ELSE /\ slot' = [slot EXCEPT ![c] = @ + 1]
              /\ pc' = [pc EXCEPT ![c] = "spawn"]
              /\ UNCHANGED answer
      /\ UNCHANGED <<nInstances, strategy, setting, call, listed, seen, reads, calls>>

\* The metadata of ToArrow()
RunList(i, c) ==
  LET columns == Listed(table, call[c])
  IN  /\ Runs(i, c, 0, 0) /\ call[c] \in Conversions
      /\ Dequeue(i)
      /\ IF \A k \in DOMAIN columns : ColumnExists(table, columns[k])
         THEN /\ listed' = [listed EXCEPT ![c] = columns]
              /\ seen' = [seen EXCEPT ![c] = [k \in DOMAIN columns |-> NoAnswer]]
              /\ reads' = [reads EXCEPT ![c] = [k \in DOMAIN columns |-> NewRead(columns[k])]]
              /\ pc' = [pc EXCEPT ![c] = "columns"]
              /\ UNCHANGED answer
         ELSE Answer(c, Failed) /\ UNCHANGED <<listed, seen, reads>>
      /\ UNCHANGED <<nInstances, table, strategy, setting, call, slot, calls, shrunk>>

\* Submits the columns last to first
LastColumnFirst(c) == Len(listed[c]) + 1 - slot[c]

\* The column whose read is submitted next
NextColumn(c) == slot[c]

\* The callback that reads each column, one iteration
SubmitColumn(c) ==
  /\ pc[c] = "columns"
  /\ \E i \in Instances : Enqueue(i, Task(c, NextColumn(c), 0))
  /\ slot' = [slot EXCEPT ![c] = @ + 1]
  /\ pc' = [pc EXCEPT ![c] = IF slot[c] = Len(listed[c]) THEN "wait" ELSE @]
  /\ UNCHANGED <<nInstances, table, strategy, setting, call, answer, listed, seen, reads, calls, shrunk>>

\* Tells ToArrow() of the columns that could be read only
DeliverArrays(c, k, result) ==
  IF call[c] \in Reads THEN Answer(c, result) /\ UNCHANGED seen
  ELSE /\ seen' = IF result = Failed THEN seen ELSE [seen EXCEPT ![c][k] = result]
       /\ UNCHANGED <<answer, pc>>

\* ReadImpl() of column k ends
Deliver(c, k, result) ==
  IF call[c] \in Reads THEN Answer(c, result) /\ UNCHANGED seen
  ELSE seen' = [seen EXCEPT ![c][k] = result] /\ UNCHANGED <<answer, pc>>

\* The partitioning task reads the column
RunRead(i, c, k) ==
  /\ Runs(i, c, k, 0)
  /\ Dequeue(i)
  /\ \E array \in Arrays(table, reads[c][k].column, strategy, setting) : Deliver(c, k, array)
  /\ UNCHANGED <<nInstances, table, strategy, setting, call, listed, reads, slot, calls, shrunk>>

\* Pieces of a column of n rows that is spread over the instances
NPieces(n) == Min({nInstances, n})
PieceRows(n, p) == ((p - 1) * n) \div NPieces(n) + 1 .. (p * n) \div NPieces(n)

\* Or leaves it to pieces, if there are several chunks
RunPartition(i, c, k) ==
  LET n == NRows(table)
  IN  /\ Runs(i, c, k, 0)
      /\ nInstances > 1 /\ n > 1 /\ Readable(table, reads[c][k].column)
      /\ Dequeue(i)
      /\ reads' = [reads EXCEPT ![c][k].rows = [r \in 1..n |-> Undefined],
                                ![c][k].left = 1..NPieces(n)]
      /\ UNCHANGED <<nInstances, table, strategy, setting, call, answer, pc, listed, seen, slot, calls, shrunk>>

\* The callback submits a piece
SubmitPiece(c, k) ==
  LET p == reads[c][k].next
  IN  /\ p \in reads[c][k].left
      /\ \E i \in Instances : Enqueue(i, Task(c, k, p))
      /\ reads' = [reads EXCEPT ![c][k].next = p + 1]
      /\ UNCHANGED <<nInstances, table, strategy, setting, call, answer, pc, listed, seen, slot, calls, shrunk>>

\* casacore throws if a cell is gone
RunPiece(i, c, k, p) ==
  LET read == reads[c][k]
      cells == table.cells[read.column]
      rows == PieceRows(Len(read.rows), p)
  IN  /\ Runs(i, c, k, p)
      /\ Dequeue(i)
      /\ reads' = [reads EXCEPT
           ![c][k].left = @ \ {p},
           ![c][k].rows = [r \in DOMAIN @ |-> IF r \in rows \cap DOMAIN cells THEN cells[r] ELSE @[r]],
           ![c][k].failed = @ \/ \E r \in rows : r \notin DOMAIN cells \/ cells[r] = Undefined]
      /\ UNCHANGED <<nInstances, table, strategy, setting, call, answer, pc, listed, seen, slot, calls, shrunk>>

\* All() pieces are read: MakeArray()
FanIn(c, k) ==
  LET read == reads[c][k]
  IN  /\ read.rows # <<>> /\ read.left = {}
      /\ \E valid \in FoundValid(strategy, setting) :
           Deliver(c, k, IF valid /\ ~ read.failed THEN Ok(read.rows) ELSE Failed)
      /\ reads' = [reads EXCEPT ![c][k] = NewRead(@.column)]
      /\ UNCHANGED <<nInstances, table, strategy, setting, call, listed, slot, queue, calls, shrunk>>

\* All() columns are read: arrow::Table::Make()
Assemble(c) ==
  /\ pc[c] = "wait" /\ listed[c] # <<>>
  /\ \A k \in DOMAIN seen[c] : seen[c][k] # NoAnswer
  /\ Answer(c, Ok(ArrowTable(listed[c], seen[c])))
  /\ UNCHANGED <<nInstances, table, strategy, setting, call, listed, seen, reads, slot, queue, calls, shrunk>>

\* A client goes on with its call
ClientStep(c) ==
  \/ Refuse(c) \/ QueryNoTable(c) \/ Submit(c) \/ SpawnNext(c)
  \/ BeginSet(c) \/ EndSet(c) \/ Return(c)

Callback(c) ==
  \/ SubmitColumn(c) \/ Assemble(c)
  \/ \E k \in DOMAIN reads[c] : SubmitPiece(c, k) \/ FanIn(c, k)

RunTask(i) ==
  \E c \in Clients :
    \/ RunQuery(i, c) \/ RunWrite(i, c) \/ RunStatement(i, c) \/ RunList(i, c)
    \/ \E k \in DOMAIN reads[c] :
         \/ RunRead(i, c, k) \/ RunPartition(i, c, k)
         \/ \E p \in reads[c][k].left : RunPiece(i, c, k, p)

Next == \/ \E c \in Clients : Call(c) \/ ClientStep(c) \/ Callback(c)
        \/ \E i \in Instances : RunTask(i)

Spec == Init /\ [][Next]_vars

\* Threads run: those of clients in a call, those of instances, and callbacks on
\* either.  No client has to make a call
FairSpec ==
  /\ Spec
  /\ \A c \in Clients : WF_vars(ClientStep(c)) /\ WF_vars(Callback(c))
  /\ \A i \in 1..MaxInstances : WF_vars(i \in Instances /\ RunTask(i))

-----------------------------------------------------------------------------
(* Properties *)

\* A table used by several threads, and read by several instances at once, promises
\* what AtomicTable does: each call of NewTableProxy sees, and leaves, the table as if
\* it ran alone at some moment before it returns; ToArrow() each of its columns
Promise == INSTANCE AtomicTable

TakesEffectAtOnce == Promise!Spec

\* arrow::Table::Make() takes the length of the first column for that of the table.
\* Rows may be added while ToArrow() reads, but no column it returns is shorter than
\* the first, so that no row of the table lacks a cell, unless TaQL deletes rows
NoColumnTooShort ==
  \A c \in Clients :
    call[c] \in Conversions /\ answer[c].is = "ok" /\ c \notin shrunk =>
      LET fields == answer[c].value
      IN  \A k \in DOMAIN fields : Len(fields[1].read.value) <= Len(fields[k].read.value)

\* Every call returns: no task, piece, column or instance is waited for that nobody
\* submits, whatever fails on the way
CallsReturn == \A c \in Clients : pc[c] = "enter" ~> pc[c] = "idle"

\* "Test that attempting to write when ninstances > 1 fails": a table of several
\* instances doesn't change
WritesNeedOneInstance == [][nInstances > 1 => table' = table]_vars
=============================================================================

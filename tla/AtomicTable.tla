------------------------------- MODULE AtomicTable -------------------------------
(***************************************************************************)
(* What a table promises the threads that use it: each call takes effect   *)
(* at one moment between the call and its return, as if it were alone.     *)
(* ToArrow() is the exception: it reads each column at a moment of its own, *)
(* after the moment at which it lists them, and leaves out columns that it *)
(* couldn't read.                                                          *)
(***************************************************************************)
EXTENDS TableCalls

CONSTANTS Clients, InitialTables

VARIABLES
  table,
  strategy,   \* casa.convert.strategy
  setting,    \* clients that are setting it
  call,       \* of each client
  listed,     \* the columns ToArrow() listed
  seen,       \* of each of them: NoAnswer, or what was read
  answer      \* of each client

vars == <<table, strategy, setting, call, listed, seen, answer>>

Init ==
  /\ table \in InitialTables
  /\ strategy = "fixed" /\ setting = {}
  /\ call = [c \in Clients |-> NoCall]
  /\ listed = [c \in Clients |-> <<>>]
  /\ seen = [c \in Clients |-> <<>>]
  /\ answer = [c \in Clients |-> NoAnswer]

Call(c) ==
  /\ call[c] = NoCall
  /\ \E made \in Calls : call' = [call EXCEPT ![c] = made]
  /\ UNCHANGED <<table, strategy, setting, listed, seen, answer>>

Refuse(c) ==
  /\ Refusable(call[c]) /\ answer[c] = NoAnswer
  /\ answer' = [answer EXCEPT ![c] = Failed]
  /\ UNCHANGED <<table, strategy, setting, call, listed, seen>>

\* Any call but ToArrow() and Set takes effect
TakeEffect(c) ==
  /\ answer[c] = NoAnswer
  /\ \/ /\ call[c] \in Queries
        /\ answer' = [answer EXCEPT ![c] = Query(table, call[c])]
        /\ UNCHANGED table
     \/ /\ call[c] \in Reads
        /\ \E array \in Arrays(table, call[c].column, strategy, setting) :
             answer' = [answer EXCEPT ![c] = array]
        /\ UNCHANGED table
     \/ /\ call[c] \in Writes
        /\ table' = Write(table, call[c]).table
        /\ answer' = [answer EXCEPT ![c] = Write(table, call[c]).answer]
     \/ /\ call[c] \in Statements
        /\ table' = Taql(table, call[c]).table
        /\ answer' = [answer EXCEPT ![c] = Taql(table, call[c]).answer]
  /\ UNCHANGED <<strategy, setting, call, listed, seen>>

\* ToArrow() lists columns, or fails if one isn't there
List(c) ==
  LET columns == Listed(table, call[c])
  IN  /\ call[c] \in Conversions /\ answer[c] = NoAnswer /\ listed[c] = <<>>
      /\ IF \A k \in DOMAIN columns : ColumnExists(table, columns[k])
         THEN /\ listed' = [listed EXCEPT ![c] = columns]
              /\ seen' = [seen EXCEPT ![c] = [k \in DOMAIN columns |-> NoAnswer]]
              /\ UNCHANGED answer
         ELSE answer' = [answer EXCEPT ![c] = Failed] /\ UNCHANGED <<listed, seen>>
      /\ UNCHANGED <<table, strategy, setting, call>>

ReadColumn(c, k) ==
  /\ seen[c][k] = NoAnswer
  /\ \E array \in Arrays(table, listed[c][k], strategy, setting) :
       seen' = [seen EXCEPT ![c][k] = array]
  /\ UNCHANGED <<table, strategy, setting, call, listed, answer>>

Assemble(c) ==
  /\ listed[c] # <<>> /\ answer[c] = NoAnswer
  /\ \A k \in DOMAIN seen[c] : seen[c][k] # NoAnswer
  /\ answer' = [answer EXCEPT ![c] = Ok(ArrowTable(listed[c], seen[c]))]
  /\ UNCHANGED <<table, strategy, setting, call, listed, seen>>

BeginSet(c) ==
  /\ call[c] \in Settings /\ answer[c] = NoAnswer
  /\ setting' = setting \cup {c}
  /\ UNCHANGED <<table, strategy, call, listed, seen, answer>>

EndSet(c) ==
  /\ c \in setting
  /\ setting' = setting \ {c}
  /\ strategy' = call[c].strategy
  /\ answer' = [answer EXCEPT ![c] = Ok(TRUE)]
  /\ UNCHANGED <<table, call, listed, seen>>

Return(c) ==
  /\ answer[c] # NoAnswer
  /\ call' = [call EXCEPT ![c] = NoCall]
  /\ answer' = [answer EXCEPT ![c] = NoAnswer]
  /\ listed' = [listed EXCEPT ![c] = <<>>]
  /\ seen' = [seen EXCEPT ![c] = <<>>]
  /\ UNCHANGED <<table, strategy, setting>>

Next ==
  \E c \in Clients :
    \/ Call(c) \/ Refuse(c) \/ TakeEffect(c) \/ List(c) \/ Assemble(c)
    \/ BeginSet(c) \/ EndSet(c) \/ Return(c)
    \/ \E k \in DOMAIN seen[c] : ReadColumn(c, k)

Spec == Init /\ [][Next]_vars
=============================================================================

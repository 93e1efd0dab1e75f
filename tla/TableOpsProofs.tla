----------------------------- MODULE TableOpsProofs -----------------------------
(***************************************************************************)
(* Threads using a table, for any number of them, of instances, rows and   *)
(* calls: unless TaQL writes to a table of several instances, such a table *)
(* doesn't change, and every call takes effect at one moment, reads spread *)
(* over the instances included (AtomicTable).                              *)
(***************************************************************************)
EXTENDS TableOps, WellFoundedInduction, TLAPS

Tasks == [client : Clients, k : Nat, piece : Nat]

ReadStates == [column : {"FIXED", "VARIABLE"}, rows : Seq(Int), next : Nat,
               left : SUBSET Nat, failed : BOOLEAN]

PCs == {"idle", "enter", "wait", "spawn", "columns", "set", "answered"}

TypeInv ==
  /\ nInstances \in Nat \ {0}
  /\ pc \in [Clients -> PCs]
  /\ call \in [Clients -> Calls \cup {NoCall}]
  /\ slot \in [Clients -> Nat \ {0}]
  /\ listed \in [Clients -> Seq({"FIXED", "VARIABLE"})]
  /\ reads \in [Clients -> Seq(ReadStates)]
  /\ DOMAIN answer = Clients /\ DOMAIN seen = Clients
  /\ \A c \in Clients : DOMAIN seen[c] = DOMAIN listed[c]
  /\ queue \in [Instances -> Seq(Tasks)]

\* Is the task on a queue?
Pending(c, k, p) == \E i \in Instances : \E n \in DOMAIN queue[i] : queue[i][n] = Task(c, k, p)

\* No task is on the queues twice
Distinct ==
  \A i, j \in Instances : \A n \in DOMAIN queue[i] : \A m \in DOMAIN queue[j] :
    queue[i][n] = queue[j][m] => i = j /\ n = m

\* Column k of a call is being read: its result hasn't been delivered
Active(c, k) ==
  /\ pc[c] \in {"wait", "columns"}
  /\ call[c] \notin Reads => k < slot[c] /\ seen[c][k] = NoAnswer

(***************************************************************************)
(* A column being read by several instances: the table has been as it is   *)
(* now ever since it was partitioned, and the pieces read so far are right. *)
(***************************************************************************)
Spread(read) ==
  /\ nInstances > 1 /\ Readable(table, read.column) /\ NRows(table) > 1
  /\ ~ read.failed
  /\ Len(read.rows) = NRows(table)
  /\ read.left \subseteq 1..NPieces(NRows(table))
  /\ \A p \in 1..NPieces(NRows(table)) : p \notin read.left =>
       \A r \in PieceRows(NRows(table), p) : read.rows[r] = table.cells[read.column][r]

ReadInv(c, k) ==
  /\ reads[c][k].rows = <<>> => reads[c][k].left = {} /\ ~ reads[c][k].failed
  /\ reads[c][k].rows # <<>> => Active(c, k) /\ Spread(reads[c][k])

\* The task of a call, that of a column, or of a piece of it
TaskInv(c, k, p) ==
  \/ /\ k = 0 /\ p = 0 /\ pc[c] = "wait" /\ reads[c] = <<>> /\ listed[c] = <<>>
     /\ call[c] \notin Reads
     /\ call[c] \in Writes => nInstances = 1
     /\ call[c] \in Statements => slot[c] \in 1..nInstances
     /\ call[c] \in Conversions => slot[c] = 1
  \/ /\ k \in DOMAIN reads[c] /\ Active(c, k)
     /\ p = 0 => reads[c][k].rows = <<>>
     /\ p # 0 => reads[c][k].rows # <<>> /\ p \in reads[c][k].left /\ p < reads[c][k].next

\* What a client is doing
CallInv(c) ==
  /\ IF pc[c] = "idle" THEN call[c] = NoCall ELSE call[c] \in Calls
  /\ call[c] \in Statements /\ call[c].does # "SELECT" => nInstances = 1
  /\ answer[c] # NoAnswer <=> pc[c] = "answered"
  /\ pc[c] = "set" => c \in setting
  /\ call[c] \in Reads => listed[c] = <<>>
  /\ pc[c] \in {"idle", "enter"} => reads[c] = <<>> /\ listed[c] = <<>> /\ slot[c] = 1
  /\ pc[c] = "spawn" =>
       /\ call[c] \in Statements /\ slot[c] \in 1..nInstances
       /\ reads[c] = <<>> /\ listed[c] = <<>>
  /\ pc[c] = "columns" =>
       /\ call[c] \notin Reads /\ slot[c] <= Len(listed[c])
       /\ Len(reads[c]) = Len(listed[c])
       /\ \A k \in DOMAIN seen[c] : slot[c] <= k => seen[c][k] = NoAnswer

\* The columns a client has read
ColumnsInv(c) ==
  /\ reads[c] # <<>> /\ call[c] \in Reads =>
       Len(reads[c]) = 1 /\ reads[c][1].column = call[c].column
  /\ reads[c] # <<>> /\ call[c] \notin Reads =>
       /\ Len(reads[c]) = Len(listed[c])
       /\ \A k \in DOMAIN reads[c] : reads[c][k].column = listed[c][k]
  /\ \A k \in DOMAIN reads[c] : ReadInv(c, k)

ClientInv(c) ==
  /\ CallInv(c)
  /\ ColumnsInv(c)
  /\ \A k, p \in Nat : Pending(c, k, p) => TaskInv(c, k, p)

TableInv ==
  /\ TypeInv
  /\ nInstances > 1 => WellFormed(table)
  /\ Distinct
  /\ \A c \in Clients : ClientInv(c)

-----------------------------------------------------------------------------
(* Pieces *)

\* What division is
LEMMA Division ==
  ASSUME NEW a \in Nat, NEW m \in Nat \ {0}
  PROVE  a \div m \in Nat /\ m * (a \div m) <= a /\ a < m * (a \div m) + m
  OBVIOUS

\* A quotient is bounded from above and from below by multiples of the divisor
LEMMA Quotient ==
  ASSUME NEW a \in Nat, NEW m \in Nat \ {0}, NEW r \in Nat
  PROVE  /\ a < m * r => a \div m < r
         /\ m * r <= a => r <= a \div m
<1> DEFINE q == a \div m
<1>1. q \in Nat /\ m * q <= a /\ a < m * q + m
  BY Division
<1> HIDE DEF q
<1>2. ASSUME a < m * r, r <= q PROVE FALSE
  <2>1. m * r <= m * q
    BY <1>1, <1>2
  <2> QED
    BY <1>1, <1>2, <2>1
<1>3. ASSUME m * r <= a, q < r PROVE FALSE
  <2>1. PICK d \in Nat : r = q + 1 + d
    BY <1>1, <1>3
  <2>2. m * r = m * q + m + m * d /\ m * d \in Nat
    BY <1>1, <2>1
  <2> QED
    BY <1>1, <1>3, <2>2
<1> QED
  BY <1>1, <1>2, <1>3 DEF q

\* The smaller of two numbers
LEMMA MinOfTwo ==
  ASSUME NEW a \in Nat \ {0}, NEW b \in Nat \ {0}
  PROVE  Min({a, b}) \in Nat \ {0}
<1>1. \E x \in {a, b} : \A y \in {a, b} : x <= y
  OBVIOUS
<1>2. Min({a, b}) \in {a, b}
  BY <1>1 DEF Min
<1> QED
  BY <1>2

\* The pieces are of rows of the table, and together they are all of its rows
LEMMA Pieces ==
  ASSUME nInstances \in Nat \ {0}, NEW n \in Nat \ {0}
  PROVE  /\ NPieces(n) \in Nat \ {0}
         /\ \A p \in 1..NPieces(n) : PieceRows(n, p) \subseteq 1..n
         /\ \A r \in 1..n : \E p \in 1..NPieces(n) : r \in PieceRows(n, p)
<1>1. PICK m \in Nat \ {0} : m = NPieces(n)
  BY MinOfTwo DEF NPieces
<1>2. ASSUME NEW p \in 1..m, NEW r \in PieceRows(n, p) PROVE r \in 1..n
  <2>1. r \in ((p - 1) * n) \div m + 1 .. (p * n) \div m
    BY <1>1 DEF PieceRows
  <2>2. (p - 1) * n \in Nat /\ p * n \in Nat
    OBVIOUS
  <2>3. ((p - 1) * n) \div m \in Nat /\ (p * n) \div m \in Nat
    BY <2>2, Division
  <2>4. p * n < m * (n + 1)
    <3>1. PICK d \in Nat : m = p + d
      OBVIOUS
    <3>2. m * (n + 1) = p * n + d * n + m /\ d * n \in Nat
      BY <3>1
    <3> QED
      BY <2>2, <3>2
  <2>5. (p * n) \div m < n + 1
    BY <2>2, <2>4, Quotient
  <2> QED
    BY <2>1, <2>3, <2>5
<1>3. ASSUME NEW r \in 1..n PROVE \E p \in 1..m : r \in PieceRows(n, p)
  <2>1. PICK a \in Nat : a = r * m - 1
    <3>1. r * m \in Nat \ {0}
      OBVIOUS
    <3> QED
      BY <3>1
  <2>2. PICK q \in Nat : q = a \div n /\ n * q <= a /\ a < n * q + n
    BY Division
  <2>3. q < m
    <3>1. a < n * m
      <4>1. PICK d \in Nat : n = r + d
        OBVIOUS
      <4>2. n * m = r * m + d * m /\ d * m \in Nat /\ r * m \in Nat
        BY <4>1
      <4> QED
        BY <2>1, <4>2
    <3> QED
      BY <2>2, <3>1, Quotient
  <2>4. q * n \in Nat /\ q * n < m * r
    <3>1. q * n = n * q /\ n * q \in Nat /\ m * r = r * m /\ r * m \in Nat
      OBVIOUS
    <3> QED
      BY <2>1, <2>2, <3>1
  <2>5. (q + 1) * n \in Nat /\ m * r <= (q + 1) * n
    <3>1. (q + 1) * n = n * q + n /\ n * q \in Nat /\ m * r = r * m /\ r * m \in Nat
      OBVIOUS
    <3> QED
      BY <2>1, <2>2, <3>1
  <2>6. (q * n) \div m < r /\ (q * n) \div m \in Nat
    BY <2>4, Quotient, Division
  <2>7. r <= ((q + 1) * n) \div m /\ ((q + 1) * n) \div m \in Nat
    BY <2>5, Quotient, Division
  <2>8. q + 1 \in 1..m /\ (q + 1) - 1 = q
    BY <2>3
  <2>9. PICK p \in 1..m : p = q + 1 /\ p - 1 = q
    BY <2>8
  <2>10. r \in ((p - 1) * n) \div m + 1 .. (p * n) \div m
    BY <2>6, <2>7, <2>9
  <2>11. r \in PieceRows(n, p)
    BY <1>1, <2>10 DEF PieceRows
  <2> QED
    BY <2>11
<1> QED
  BY <1>1, <1>2, <1>3

-----------------------------------------------------------------------------
(* Queues *)

\* Tasks are told apart by what they are for
LEMMA TaskIs ==
  /\ \A c \in Clients : \A k, p \in Nat : Task(c, k, p) \in Tasks
  /\ \A c, d, k, l, p, q : Task(c, k, p) = Task(d, l, q) => c = d /\ k = l /\ p = q
  BY DEF Task, Tasks

\* Appending to a sequence
LEMMA AppendFacts ==
  ASSUME NEW S, NEW s \in Seq(S), NEW x \in S
  PROVE  /\ Append(s, x) \in Seq(S)
         /\ \A n \in DOMAIN s : n \in DOMAIN Append(s, x) /\ Append(s, x)[n] = s[n]
         /\ \A n \in DOMAIN Append(s, x) :
              n \in DOMAIN s \/ (n = Len(s) + 1 /\ Append(s, x)[n] = x)
         /\ Len(s) + 1 \in DOMAIN Append(s, x) /\ Append(s, x)[Len(s) + 1] = x
  OBVIOUS

\* Taking the head off a sequence
LEMMA TailFacts ==
  ASSUME NEW S, NEW s \in Seq(S), s # <<>>
  PROVE  /\ Tail(s) \in Seq(S)
         /\ Head(s) = s[1] /\ 1 \in DOMAIN s /\ Head(s) \in S
         /\ \A n \in DOMAIN Tail(s) :
              n \in Nat /\ n + 1 # 1 /\ n + 1 \in DOMAIN s /\ Tail(s)[n] = s[n + 1]
         /\ \A n \in DOMAIN s : n = 1 \/ (n - 1 \in DOMAIN Tail(s) /\ Tail(s)[n - 1] = s[n])
  OBVIOUS

\* A task that is submitted and wasn't pending
LEMMA Enqueued ==
  ASSUME TypeInv, Distinct, nInstances' = nInstances,
         NEW i \in Instances, NEW c \in Clients, NEW k \in Nat, NEW p \in Nat,
         ~ Pending(c, k, p), Enqueue(i, Task(c, k, p))
  PROVE  /\ queue' \in [Instances -> Seq(Tasks)]
         /\ Distinct'
         /\ \A d, l, q : Pending(d, l, q)' <=> Pending(d, l, q) \/ (d = c /\ l = k /\ q = p)
<1> DEFINE task == Task(c, k, p)
<1>1. queue[i] \in Seq(Tasks) /\ task \in Tasks /\ Instances' = Instances
  BY TaskIs DEF TypeInv, Instances
<1>2. queue' = [queue EXCEPT ![i] = Append(queue[i], task)]
  BY DEF Enqueue
<1>3. \A j \in Instances : \A n \in DOMAIN queue[j] : queue[j][n] # task
  BY DEF Pending
<1>t. \A d, l, q : Task(d, l, q) = task => d = c /\ l = k /\ q = p
  BY TaskIs
<1> HIDE DEF task
<1>4. /\ queue' \in [Instances -> Seq(Tasks)] /\ queue'[i] = Append(queue[i], task)
      /\ \A j \in Instances \ {i} : queue'[j] = queue[j]
  BY <1>1, <1>2, AppendFacts DEF TypeInv
<1>5. \A j \in Instances : \A n \in DOMAIN queue[j] :
        n \in DOMAIN queue'[j] /\ queue'[j][n] = queue[j][n]
  BY <1>1, <1>4, AppendFacts
<1>6. \A j \in Instances : \A n \in DOMAIN queue'[j] :
        \/ n \in DOMAIN queue[j] /\ queue'[j][n] = queue[j][n]
        \/ j = i /\ n = Len(queue[i]) + 1 /\ queue'[j][n] = task
  BY <1>1, <1>4, AppendFacts
<1>7. Distinct'
  <2> SUFFICES ASSUME NEW j \in Instances, NEW l \in Instances,
                      NEW n \in DOMAIN queue'[j], NEW m \in DOMAIN queue'[l],
                      queue'[j][n] = queue'[l][m]
               PROVE  j = l /\ n = m
    BY <1>1 DEF Distinct
  <2>1. CASE queue'[j][n] = task
    <3>1. j = i /\ n = Len(queue[i]) + 1
      BY <1>3, <1>6, <2>1
    <3>2. queue'[l][m] = task
      BY <2>1
    <3>3. l = i /\ m = Len(queue[i]) + 1
      BY <1>3, <1>6, <3>2
    <3> QED
      BY <3>1, <3>3
  <2>2. CASE queue'[j][n] # task
    <3>1. /\ n \in DOMAIN queue[j] /\ queue'[j][n] = queue[j][n]
          /\ m \in DOMAIN queue[l] /\ queue'[l][m] = queue[l][m]
      BY <1>6, <2>2
    <3>2. queue[j][n] = queue[l][m]
      BY <3>1
    <3> QED
      BY <3>1, <3>2 DEF Distinct
  <2> QED
    BY <2>1, <2>2
<1>8. ASSUME NEW d, NEW l, NEW q
      PROVE  Pending(d, l, q)' <=> Pending(d, l, q) \/ (d = c /\ l = k /\ q = p)
  <2>1. ASSUME Pending(d, l, q)' PROVE Pending(d, l, q) \/ (d = c /\ l = k /\ q = p)
    <3>1. PICK j \in Instances : \E n \in DOMAIN queue'[j] : queue'[j][n] = Task(d, l, q)
      BY <1>1, <2>1 DEF Pending
    <3>2. PICK n \in DOMAIN queue'[j] : queue'[j][n] = Task(d, l, q)
      BY <3>1
    <3>3. CASE n \in DOMAIN queue[j] /\ queue'[j][n] = queue[j][n]
      BY <3>2, <3>3 DEF Pending
    <3>4. CASE queue'[j][n] = task
      BY <1>t, <3>2, <3>4
    <3> QED
      BY <1>6, <3>3, <3>4
  <2>2. ASSUME Pending(d, l, q) PROVE Pending(d, l, q)'
    <3>1. PICK j \in Instances : \E n \in DOMAIN queue[j] : queue[j][n] = Task(d, l, q)
      BY <2>2 DEF Pending
    <3> QED
      BY <1>1, <1>5, <3>1 DEF Pending
  <2>3. Pending(c, k, p)'
    <3>1. Len(queue[i]) + 1 \in DOMAIN queue'[i] /\ queue'[i][Len(queue[i]) + 1] = task
      BY <1>1, <1>4, AppendFacts
    <3> QED
      BY <1>1, <3>1 DEF Pending, task
  <2> QED
    BY <2>1, <2>2, <2>3
<1> QED
  BY <1>4, <1>7, <1>8

\* A task that runs is pending, and no longer so once it is off its queue
LEMMA Dequeued ==
  ASSUME TypeInv, Distinct, nInstances' = nInstances,
         NEW i \in Instances, NEW c \in Clients, NEW k \in Nat, NEW p \in Nat,
         Runs(i, c, k, p), Dequeue(i)
  PROVE  /\ Pending(c, k, p)
         /\ queue' \in [Instances -> Seq(Tasks)]
         /\ Distinct'
         /\ \A d, l, q : Pending(d, l, q)' <=> Pending(d, l, q) /\ ~ (d = c /\ l = k /\ q = p)
<1>1. /\ queue[i] \in Seq(Tasks) /\ queue[i] # <<>> /\ Head(queue[i]) = Task(c, k, p)
      /\ Instances' = Instances
  BY DEF TypeInv, Runs, Instances
<1>2. queue' = [queue EXCEPT ![i] = Tail(queue[i])]
  BY DEF Dequeue
<1>3. 1 \in DOMAIN queue[i] /\ queue[i][1] = Task(c, k, p)
  BY <1>1, TailFacts
<1>4. /\ queue' \in [Instances -> Seq(Tasks)] /\ queue'[i] = Tail(queue[i])
      /\ \A j \in Instances \ {i} : queue'[j] = queue[j]
  BY <1>1, <1>2, TailFacts DEF TypeInv
<1>5. \A n \in DOMAIN queue'[i] :
        n \in Nat /\ n + 1 # 1 /\ n + 1 \in DOMAIN queue[i] /\ queue'[i][n] = queue[i][n + 1]
  BY <1>1, <1>4, TailFacts
<1>6. \A n \in DOMAIN queue[i] :
        n = 1 \/ (n - 1 \in DOMAIN queue'[i] /\ queue'[i][n - 1] = queue[i][n])
  BY <1>1, <1>4, TailFacts
\* where each task was
<1>7. ASSUME NEW j \in Instances, NEW n \in DOMAIN queue'[j]
      PROVE  \E m \in DOMAIN queue[j] :
               /\ queue'[j][n] = queue[j][m] /\ ~ (j = i /\ m = 1)
               /\ m = IF j = i THEN n + 1 ELSE n
  <2>1. CASE j = i
    BY <1>5, <1>7, <2>1
  <2>2. CASE j # i
    BY <1>4, <1>7, <2>2
  <2> QED
    BY <2>1, <2>2
<1>8. Distinct'
  <2> SUFFICES ASSUME NEW j \in Instances, NEW l \in Instances,
                      NEW n \in DOMAIN queue'[j], NEW m \in DOMAIN queue'[l],
                      queue'[j][n] = queue'[l][m]
               PROVE  j = l /\ n = m
    BY <1>1 DEF Distinct
  <2>1. PICK x \in DOMAIN queue[j] :
          queue'[j][n] = queue[j][x] /\ x = IF j = i THEN n + 1 ELSE n
    BY <1>7
  <2>2. PICK y \in DOMAIN queue[l] :
          queue'[l][m] = queue[l][y] /\ y = IF l = i THEN m + 1 ELSE m
    BY <1>7
  <2>3. j = l /\ x = y
    <3>1. queue[j][x] = queue[l][y]
      BY <2>1, <2>2
    <3> QED
      BY <3>1 DEF Distinct
  <2>4. CASE j = i
    BY <1>5, <2>1, <2>2, <2>3, <2>4
  <2>5. CASE j # i
    BY <2>1, <2>2, <2>3, <2>5
  <2> QED
    BY <2>4, <2>5
<1>9. ASSUME NEW d, NEW l, NEW q
      PROVE  Pending(d, l, q)' <=> Pending(d, l, q) /\ ~ (d = c /\ l = k /\ q = p)
  <2>1. ASSUME Pending(d, l, q)' PROVE Pending(d, l, q) /\ Task(d, l, q) # Task(c, k, p)
    <3>1. PICK j \in Instances : \E n \in DOMAIN queue'[j] : queue'[j][n] = Task(d, l, q)
      BY <1>1, <2>1 DEF Pending
    <3>2. PICK n \in DOMAIN queue'[j] : queue'[j][n] = Task(d, l, q)
      BY <3>1
    <3>3. PICK m \in DOMAIN queue[j] : queue'[j][n] = queue[j][m] /\ ~ (j = i /\ m = 1)
      BY <1>7
    <3>4. queue[j][m] # queue[i][1]
      BY <1>3, <3>3 DEF Distinct
    <3> QED
      BY <1>3, <3>2, <3>3, <3>4 DEF Pending
  <2>2. ASSUME Pending(d, l, q), ~ (d = c /\ l = k /\ q = p) PROVE Pending(d, l, q)'
    <3>1. PICK j \in Instances : \E n \in DOMAIN queue[j] : queue[j][n] = Task(d, l, q)
      BY <2>2 DEF Pending
    <3>2. PICK n \in DOMAIN queue[j] : queue[j][n] = Task(d, l, q)
      BY <3>1
    <3>3. ~ (j = i /\ n = 1)
      BY <1>3, <2>2, <3>2, TaskIs
    <3>4. \E m \in DOMAIN queue'[j] : queue'[j][m] = queue[j][n]
      <4>1. CASE j = i
        BY <1>6, <3>3, <4>1
      <4>2. CASE j # i
        BY <1>4, <4>2
      <4> QED
        BY <4>1, <4>2
    <3> QED
      BY <1>1, <3>2, <3>4 DEF Pending
  <2> QED
    BY <2>1, <2>2
<1>10. Pending(c, k, p)
  BY <1>3 DEF Pending
<1> QED
  BY <1>4, <1>8, <1>9, <1>10

-----------------------------------------------------------------------------
(* Calls and answers *)

\* Answers are answers
LEMMA Answers ==
  /\ Failed # NoAnswer /\ \A value : Ok(value) # NoAnswer
  /\ \A value : Ok(value) # Failed
  BY DEF Failed, NoAnswer, Ok

\* Every query has an answer
LEMMA QueryAnswers ==
  ASSUME NEW t, NEW q \in Queries
  PROVE  Query(t, q) # NoAnswer /\ q.op # "Taql" /\ q.op # "ToArrow"
<1>1. q.op \in {"Name", "nRows", "nColumns", "Columns", "IsWritable", "GetTableDescriptor",
                "GetDataManagerInfo", "GetLockOptions", "GetKeywords", "GetColumnDescriptor",
                "GetRowShapes"}
  <2>1. \/ \E op \in {"Name", "nRows", "nColumns", "Columns", "IsWritable",
                       "GetTableDescriptor", "GetDataManagerInfo", "GetLockOptions"} :
              q = [op |-> op]
        \/ q \in [op : {"GetKeywords"}, column : {"", "VARIABLE"}]
        \/ q \in [op : {"GetColumnDescriptor"}, column : Range(TableColumns)]
        \/ q \in [op : {"GetRowShapes"}, column : Range(TableColumns), secondary : BOOLEAN]
    BY DEF Queries
  <2>2. CASE \E op \in {"Name", "nRows", "nColumns", "Columns", "IsWritable",
                        "GetTableDescriptor", "GetDataManagerInfo", "GetLockOptions"} :
               q = [op |-> op]
    <3>1. PICK o \in {"Name", "nRows", "nColumns", "Columns", "IsWritable",
                      "GetTableDescriptor", "GetDataManagerInfo", "GetLockOptions"} : q = [op |-> o]
      BY <2>2
    <3> QED
      BY <3>1
  <2>3. CASE q \in [op : {"GetKeywords"}, column : {"", "VARIABLE"}]
    BY <2>3
  <2>4. CASE q \in [op : {"GetColumnDescriptor"}, column : Range(TableColumns)]
    BY <2>4
  <2>5. CASE q \in [op : {"GetRowShapes"}, column : Range(TableColumns), secondary : BOOLEAN]
    BY <2>5
  <2> QED
    BY <2>1, <2>2, <2>3, <2>4, <2>5
<1> QED
  BY <1>1, Answers DEF Query

\* Every write has an answer
LEMMA WriteAnswers ==
  ASSUME NEW t, NEW w \in Writes PROVE Write(t, w).answer # NoAnswer /\ w.op # "Taql"
<1>1. \/ \E op \in {"AddRows", "AddColumns"} : w = [op |-> op]
      \/ w \in [op : {"PutColumn"}, column : Range(TableColumns), rows : 1..2]
      \/ w \in [op : {"PutKeywords"}, column : {"", "VARIABLE"}, parses : BOOLEAN]
      \/ w \in [op : {"RemoveKeyword"}, column : {"", "VARIABLE"}]
  BY DEF Writes
<1>2. w.op # "Taql"
  <2>1. CASE \E op \in {"AddRows", "AddColumns"} : w = [op |-> op]
    <3>1. PICK o \in {"AddRows", "AddColumns"} : w = [op |-> o]
      BY <2>1
    <3> QED
      BY <3>1
  <2>2. CASE w \in [op : {"PutColumn"}, column : Range(TableColumns), rows : 1..2]
    BY <2>2
  <2>3. CASE w \in [op : {"PutKeywords"}, column : {"", "VARIABLE"}, parses : BOOLEAN]
    BY <2>3
  <2>4. CASE w \in [op : {"RemoveKeyword"}, column : {"", "VARIABLE"}]
    BY <2>4
  <2> QED
    BY <1>1, <2>1, <2>2, <2>3, <2>4
<1> QED
  BY <1>2, Answers DEF Write

\* Every statement has an answer, and one that selects leaves the table alone
LEMMA StatementAnswers ==
  ASSUME NEW t, NEW s \in Statements
  PROVE  /\ Taql(t, s).answer # NoAnswer
         /\ Taql(t, s).answer = Failed => Taql(t, s).table = t
         /\ s.does = "SELECT" => Taql(t, s).table = t /\ Taql(t, s).answer = Ok(TRUE)
  BY Answers DEF Taql

\* Every read has an answer
LEMMA ReadAnswers ==
  ASSUME NEW t, NEW column, NEW how, NEW setters, NEW array \in Arrays(t, column, how, setters)
  PROVE  array # NoAnswer
  BY Answers DEF Arrays

\* The kinds of calls
LEMMA Kinds ==
  ASSUME NEW made \in Calls
  PROVE  /\ made.op = "Taql" => made \in Statements
         /\ made \in Statements => made.op = "Taql"
         /\ made.op = "Taql" => made \notin Reads /\ made \notin Writes /\ made \notin Conversions
                                /\ made \notin Queries /\ made \notin Settings
         /\ made \in Statements /\ made.tables = 0 => made.does = "SELECT"
         /\ made \in Reads => made.column \in {"FIXED", "VARIABLE"}
         /\ made \in Queries \/ made \in Reads \/ made \in Conversions \/ made \in Writes
            \/ made \in Statements \/ made \in Settings
<1>1. Range(TableColumns) = {"FIXED", "VARIABLE"}
  BY DEF Range, TableColumns
<1>2. \A x \in Queries : x.op # "Taql"
  BY QueryAnswers
<1>3. \A x \in Reads : x.op # "Taql" /\ x.column \in {"FIXED", "VARIABLE"}
  BY <1>1 DEF Reads
<1>4. \A x \in Conversions : x.op # "Taql"
  BY DEF Conversions
<1>5. \A x \in Writes : x.op # "Taql"
  BY WriteAnswers
<1>6. \A x \in Settings : x.op # "Taql"
  BY DEF Settings
<1>7. \A x \in Statements : x.op = "Taql" /\ (x.tables = 0 => x.does = "SELECT")
  BY DEF Statements
<1> QED
  BY <1>2, <1>3, <1>4, <1>5, <1>6, <1>7 DEF Calls

\* ToArrow() lists at least one column
LEMMA Listing ==
  ASSUME NEW t, NEW conversion \in Conversions
  PROVE  /\ Listed(t, conversion) \in Seq({"FIXED", "VARIABLE"})
         /\ 1 <= Len(Listed(t, conversion))
<1>1. /\ TableColumns \in Seq({"FIXED", "VARIABLE"}) /\ Len(TableColumns) = 2
      /\ <<"FIXED">> \in Seq({"FIXED", "VARIABLE"}) /\ Len(<<"FIXED">>) = 1
      /\ <<"VARIABLE", "FIXED">> \in Seq({"FIXED", "VARIABLE"}) /\ Len(<<"VARIABLE", "FIXED">>) = 2
  BY DEF TableColumns
<1>2. conversion.columns = <<>> \/ conversion.columns = <<"VARIABLE", "FIXED">>
  BY DEF Conversions
<1>3. \/ Listed(t, conversion) = TableColumns \/ Listed(t, conversion) = <<"FIXED">>
      \/ Listed(t, conversion) = <<"VARIABLE", "FIXED">>
  BY <1>2 DEF Listed, ColumnNames
<1>4. CASE Listed(t, conversion) = TableColumns
  BY <1>1, <1>4
<1>5. CASE Listed(t, conversion) = <<"FIXED">>
  BY <1>5
<1>6. CASE Listed(t, conversion) = <<"VARIABLE", "FIXED">>
  BY <1>6
<1> QED
  BY <1>3, <1>4, <1>5, <1>6

-----------------------------------------------------------------------------
(* Steps of a client, and of others *)

\* A step leaves client d alone
Alike(d) ==
  /\ pc'[d] = pc[d] /\ call'[d] = call[d] /\ answer'[d] = answer[d] /\ slot'[d] = slot[d]
  /\ listed'[d] = listed[d] /\ seen'[d] = seen[d] /\ reads'[d] = reads[d]
  /\ d \in setting => d \in setting'
  /\ \A k, p : Pending(d, k, p)' => Pending(d, k, p)

\* A table of several instances is left alone
Unwritten == nInstances' = nInstances /\ (nInstances > 1 => table' = table)

\* Columns being read by several instances are as good as before
LEMMA SpreadKept ==
  ASSUME Unwritten, NEW read, Spread(read) PROVE Spread(read)'
<1>1. nInstances' = nInstances /\ table' = table
  BY DEF Unwritten, Spread
<1> QED
  BY <1>1 DEF Spread, NPieces, PieceRows

\* A client that a step leaves alone
LEMMA Others ==
  ASSUME Unwritten, NEW d \in Clients, ClientInv(d), Alike(d)
  PROVE  ClientInv(d)'
<1>1. CallInv(d)'
  BY DEF ClientInv, CallInv, Alike, Unwritten
<1>2. \A k : Active(d, k) => Active(d, k)'
  BY DEF Active, Alike
<1>3. ASSUME NEW k \in DOMAIN reads[d], ReadInv(d, k) PROVE ReadInv(d, k)'
  <2>1. reads'[d][k] = reads[d][k]
    BY DEF Alike
  <2>2. ASSUME Spread(reads[d][k]) PROVE Spread(reads[d][k])'
    <3>1. PICK x : x = reads[d][k]
      OBVIOUS
    <3>2. Spread(x)
      BY <2>2, <3>1
    <3>3. Spread(x)'
      BY <3>2, SpreadKept
    <3>4. x = reads'[d][k]
      BY <2>1, <3>1
    <3> QED
      BY <3>3, <3>4 DEF Spread, NPieces, PieceRows
  <2> QED
    BY <1>2, <1>3, <2>1, <2>2 DEF ReadInv
<1>4. ColumnsInv(d)'
  BY <1>3 DEF ClientInv, ColumnsInv, Alike
<1>5. ASSUME NEW k \in Nat, NEW p \in Nat, Pending(d, k, p)' PROVE TaskInv(d, k, p)'
  <2>1. TaskInv(d, k, p)
    BY <1>5 DEF ClientInv, Alike
  <2> QED
    BY <1>2, <2>1 DEF TaskInv, Alike, Unwritten
<1> QED
  BY <1>1, <1>4, <1>5 DEF ClientInv

\* A step of client c keeps the invariant if it does for c itself
LEMMA StepOf ==
  ASSUME TableInv, Unwritten, NEW c \in Clients, TypeInv', Distinct',
         \A d \in Clients \ {c} : Alike(d), ClientInv(c)'
  PROVE  TableInv'
<1>1. \A d \in Clients : ClientInv(d)'
  <2> SUFFICES ASSUME NEW d \in Clients, d # c PROVE ClientInv(d)'
    OBVIOUS
  <2>1. ClientInv(d) /\ Alike(d)
    BY DEF TableInv
  <2> QED
    BY <2>1, Others
<1>2. nInstances' > 1 => WellFormed(table')
  BY DEF TableInv, Unwritten
<1> QED
  BY <1>1, <1>2 DEF TableInv, WellFormed, NRows

\* Nothing is pending or spread of a client that isn't waiting for it
LEMMA Quiet ==
  ASSUME NEW c \in Clients, ClientInv(c), pc[c] \notin {"wait", "columns"}
  PROVE  /\ \A k, p \in Nat : ~ Pending(c, k, p)
         /\ \A k \in DOMAIN reads[c] : reads[c][k].rows = <<>> /\ reads[c][k].left = {}
<1>1. ASSUME NEW k PROVE ~ Active(c, k)
  BY DEF Active
<1>2. \A k, p \in Nat : ~ Pending(c, k, p)
  BY <1>1 DEF ClientInv, TaskInv
<1> QED
  BY <1>1, <1>2 DEF ClientInv, ColumnsInv, ReadInv

\* All that is pending is on a queue
LEMMA PendingTypes ==
  ASSUME TypeInv, NEW c, NEW k, NEW p, Pending(c, k, p)
  PROVE  c \in Clients /\ k \in Nat /\ p \in Nat
<1>1. PICK i \in Instances : \E n \in DOMAIN queue[i] : queue[i][n] = Task(c, k, p)
  BY DEF Pending
<1>2. Task(c, k, p) \in Tasks
  BY <1>1 DEF TypeInv
<1> QED
  BY <1>2 DEF Task, Tasks

\* A client that is answered, and waits for nothing any more
LEMMA Answered ==
  ASSUME TypeInv, Unwritten, NEW c \in Clients, NEW result, result # NoAnswer, Answer(c, result),
         CallInv(c), pc[c] # "idle", call' = call, listed' = listed, ColumnsInv(c)',
         \A k, p \in Nat : ~ Pending(c, k, p)'
  PROVE  ClientInv(c)'
<1>1. pc'[c] = "answered" /\ answer'[c] = result
  BY DEF Answer, TypeInv
<1>2. CallInv(c)'
  BY <1>1 DEF CallInv, Unwritten
<1> QED
  BY <1>2 DEF ClientInv

\* The columns of a client, if they are neither read nor change
LEMMA ColumnsKept ==
  ASSUME NEW c \in Clients, ColumnsInv(c), reads' = reads, listed' = listed, call' = call,
         \A k \in DOMAIN reads[c] : reads[c][k].rows = <<>>
  PROVE  ColumnsInv(c)'
  BY DEF ColumnsInv, ReadInv

\* No task is submitted or run
LEMMA SameQueue ==
  ASSUME TableInv, queue' = queue, nInstances' = nInstances
  PROVE  /\ Distinct' /\ queue' \in [Instances' -> Seq(Tasks)]
         /\ \A c, k, p : Pending(c, k, p)' <=> Pending(c, k, p)
<1>1. Instances' = Instances
  BY DEF Instances
<1> QED
  BY <1>1 DEF TableInv, TypeInv, Distinct, Pending

-----------------------------------------------------------------------------
(* Steps without tasks *)

\* A client makes a call
LEMMA CallStep ==
  ASSUME TableInv, TaqlWriters \subseteq {1}, NEW c \in Clients, Call(c) PROVE TableInv'
<1>1. PICK made \in CallsMade[c] :
        /\ made.op = "Taql" /\ made.does # "SELECT" => nInstances \in TaqlWriters
        /\ call' = [call EXCEPT ![c] = made]
  BY DEF Call
<1>2. made \in Calls
  BY TableAssumption DEF TableAssumption
<1>3. /\ pc[c] = "idle" /\ pc' = [pc EXCEPT ![c] = "enter"]
      /\ UNCHANGED <<nInstances, table, setting, answer, listed, seen, reads, slot, queue>>
  BY DEF Call
<1>4. TypeInv /\ ClientInv(c)
  BY DEF TableInv
<1>5. TypeInv' /\ call'[c] = made /\ pc'[c] = "enter"
  BY <1>1, <1>2, <1>3, <1>4, SameQueue DEF TypeInv, PCs
<1>6. Unwritten /\ \A d \in Clients \ {c} : Alike(d)
  BY <1>1, <1>3, <1>4, SameQueue DEF Unwritten, Alike, TypeInv
<1>7. CallInv(c)'
  <2>1. made \in Statements /\ made.does # "SELECT" => nInstances = 1
    BY <1>1, <1>2, Kinds
  <2> QED
    BY <1>2, <1>3, <1>4, <1>5, <2>1 DEF ClientInv, CallInv
<1>8. reads[c] = <<>>
  BY <1>3, <1>4 DEF ClientInv, CallInv
<1>9. ColumnsInv(c)'
  BY <1>3, <1>8 DEF ColumnsInv
<1>10. \A k, p \in Nat : ~ Pending(c, k, p)'
  BY <1>3, <1>4, Quiet, SameQueue
<1>11. ClientInv(c)'
  BY <1>7, <1>9, <1>10 DEF ClientInv
<1> QED
  BY <1>3, <1>5, <1>6, <1>11, StepOf, SameQueue

\* A client is answered without a task
LEMMA AnswerStep ==
  ASSUME TableInv, NEW c \in Clients, pc[c] \in {"enter", "set"},
         NEW result, result # NoAnswer, Answer(c, result),
         \A d \in Clients \ {c} : d \in setting => d \in setting',
         UNCHANGED <<nInstances, table, call, listed, seen, reads, slot, queue>>
  PROVE  TableInv'
<1>1. TypeInv /\ ClientInv(c)
  BY DEF TableInv
<1>2. TypeInv'
  BY <1>1, SameQueue DEF TypeInv, PCs, Answer
<1>3. Unwritten /\ \A d \in Clients \ {c} : Alike(d)
  BY <1>1, SameQueue DEF Unwritten, Alike, TypeInv, Answer
<1>4. \A k \in DOMAIN reads[c] : reads[c][k].rows = <<>>
  BY <1>1, Quiet
<1>5. ColumnsInv(c)'
  BY <1>1, <1>4, ColumnsKept DEF ClientInv
<1>6. \A k, p \in Nat : ~ Pending(c, k, p)'
  BY <1>1, Quiet, SameQueue
<1>7. ClientInv(c)'
  BY <1>1, <1>3, <1>5, <1>6, Answered DEF ClientInv
<1> QED
  BY <1>2, <1>3, <1>7, StepOf, SameQueue

\* A client begins to set the strategy
LEMMA BeginSetStep ==
  ASSUME TableInv, NEW c \in Clients, BeginSet(c) PROVE TableInv'
<1>1. TypeInv /\ ClientInv(c)
  BY DEF TableInv
<1>2. /\ pc[c] = "enter" /\ pc' = [pc EXCEPT ![c] = "set"] /\ setting' = setting \cup {c}
      /\ UNCHANGED <<nInstances, table, call, answer, listed, seen, reads, slot, queue>>
  BY DEF BeginSet
<1>3. TypeInv' /\ pc'[c] = "set"
  BY <1>1, <1>2, SameQueue DEF TypeInv, PCs
<1>4. Unwritten /\ \A d \in Clients \ {c} : Alike(d)
  BY <1>1, <1>2, SameQueue DEF Unwritten, Alike, TypeInv
<1>5. \A k \in DOMAIN reads[c] : reads[c][k].rows = <<>>
  BY <1>1, <1>2, Quiet
<1>6. ColumnsInv(c)'
  BY <1>1, <1>2, <1>5, ColumnsKept DEF ClientInv
<1>7. \A k, p \in Nat : ~ Pending(c, k, p)'
  BY <1>1, <1>2, Quiet, SameQueue
<1>8. CallInv(c)'
  BY <1>1, <1>2, <1>3 DEF ClientInv, CallInv
<1>9. ClientInv(c)'
  BY <1>6, <1>7, <1>8 DEF ClientInv
<1> QED
  BY <1>2, <1>3, <1>4, <1>9, StepOf, SameQueue

\* A call returns
LEMMA ReturnStep ==
  ASSUME TableInv, NEW c \in Clients, Return(c) PROVE TableInv'
<1>1. TypeInv /\ ClientInv(c)
  BY DEF TableInv
<1>2. /\ pc[c] = "answered" /\ pc' = [pc EXCEPT ![c] = "idle"]
      /\ call' = [call EXCEPT ![c] = NoCall] /\ answer' = [answer EXCEPT ![c] = NoAnswer]
      /\ listed' = [listed EXCEPT ![c] = <<>>] /\ seen' = [seen EXCEPT ![c] = <<>>]
      /\ reads' = [reads EXCEPT ![c] = <<>>] /\ slot' = [slot EXCEPT ![c] = 1]
      /\ UNCHANGED <<nInstances, table, setting, queue>>
  BY DEF Return
<1>3. /\ pc'[c] = "idle" /\ call'[c] = NoCall /\ answer'[c] = NoAnswer /\ listed'[c] = <<>>
      /\ seen'[c] = <<>> /\ reads'[c] = <<>> /\ slot'[c] = 1
  BY <1>1, <1>2 DEF TypeInv
<1>4. TypeInv'
  BY <1>1, <1>2, SameQueue DEF TypeInv, PCs
<1>5. Unwritten /\ \A d \in Clients \ {c} : Alike(d)
  BY <1>1, <1>2, SameQueue DEF Unwritten, Alike, TypeInv
<1>6. ColumnsInv(c)'
  BY <1>3 DEF ColumnsInv
<1>7. \A k, p \in Nat : ~ Pending(c, k, p)'
  BY <1>1, <1>2, Quiet, SameQueue
<1>8. CallInv(c)'
  <2>1. NoCall \notin Statements
    BY DEF NoCall, Statements
  <2> QED
    BY <1>3, <2>1 DEF CallInv
<1>9. ClientInv(c)'
  BY <1>6, <1>7, <1>8 DEF ClientInv
<1> QED
  BY <1>2, <1>4, <1>5, <1>9, StepOf, SameQueue

\* The steps of a client that submit nothing
LEMMA TasklessSteps ==
  ASSUME TableInv, NEW c \in Clients,
         Refuse(c) \/ QueryNoTable(c) \/ BeginSet(c) \/ EndSet(c) \/ Return(c)
  PROVE  TableInv'
<1>1. CASE Refuse(c)
  BY <1>1, AnswerStep, Answers DEF Refuse
<1>2. CASE QueryNoTable(c)
  BY <1>2, AnswerStep, Answers DEF QueryNoTable
<1>3. CASE EndSet(c)
  <2>1. /\ pc[c] = "set" /\ Answer(c, Ok(TRUE)) /\ setting' = setting \ {c}
        /\ UNCHANGED <<nInstances, table, call, listed, seen, reads, slot, queue>>
    BY <1>3 DEF EndSet
  <2>2. Ok(TRUE) # NoAnswer
    BY Answers
  <2> QED
    BY <2>1, <2>2, AnswerStep
<1> QED
  BY <1>1, <1>2, <1>3, BeginSetStep, ReturnStep

-----------------------------------------------------------------------------
(* The tasks of calls *)

\* A read that isn't spread
LEMMA NewReads ==
  ASSUME NEW column \in {"FIXED", "VARIABLE"}
  PROVE  /\ NewRead(column) \in ReadStates
         /\ NewRead(column).column = column /\ NewRead(column).rows = <<>>
         /\ NewRead(column).left = {} /\ NewRead(column).next = 1 /\ ~ NewRead(column).failed
         /\ <<NewRead(column)>> \in Seq(ReadStates) /\ DOMAIN <<NewRead(column)>> = {1}
         /\ Len(<<NewRead(column)>>) = 1 /\ <<NewRead(column)>>[1] = NewRead(column)
<1>1. NewRead(column) \in ReadStates
  BY DEF NewRead, ReadStates
<1>2. /\ NewRead(column).column = column /\ NewRead(column).rows = <<>>
      /\ NewRead(column).left = {} /\ NewRead(column).next = 1 /\ ~ NewRead(column).failed
  BY DEF NewRead
<1> QED
  BY <1>1, <1>2

\* The call's first task is submitted
LEMMA SubmitStep ==
  ASSUME TableInv, NEW c \in Clients, Submit(c) PROVE TableInv'
<1> DEFINE isRead == call[c] \in Reads
           new == IF isRead THEN <<NewRead(call[c].column)>> ELSE <<>>
<1>1. TypeInv /\ ClientInv(c) /\ Distinct
  BY DEF TableInv
<1>2. /\ pc[c] = "enter" /\ ~ Refused(call[c]) /\ call[c].op # "Taql"
      /\ pc' = [pc EXCEPT ![c] = "wait"] /\ reads' = [reads EXCEPT ![c] = new]
      /\ UNCHANGED <<nInstances, table, setting, call, answer, listed, seen, slot>>
  BY DEF Submit
<1>k. PICK k \in Nat : k = IF isRead THEN 1 ELSE 0
  OBVIOUS
<1>3. PICK i \in Instances : Enqueue(i, Task(c, k, 0))
  BY <1>k DEF Submit
<1>4. \A l, p \in Nat : ~ Pending(c, l, p)
  BY <1>1, <1>2, Quiet
<1>5. k \in Nat /\ 0 \in Nat
  OBVIOUS
<1>6. call[c] \in Calls /\ slot[c] = 1 /\ listed[c] = <<>> /\ answer[c] = NoAnswer
  BY <1>1, <1>2 DEF ClientInv, CallInv
<1>7. new \in Seq(ReadStates)
  BY <1>6, Kinds, NewReads
<1> HIDE DEF new
<1>8. /\ queue' \in [Instances -> Seq(Tasks)] /\ Distinct'
      /\ \A d, l, q : Pending(d, l, q)' <=> Pending(d, l, q) \/ (d = c /\ l = k /\ q = 0)
  BY <1>1, <1>2, <1>3, <1>4, <1>5, Enqueued
<1>9. pc'[c] = "wait" /\ reads'[c] = new
  BY <1>1, <1>2 DEF TypeInv
<1>10. TypeInv'
  <2>1. Instances' = Instances
    BY <1>2 DEF Instances
  <2> QED
    BY <1>1, <1>2, <1>7, <1>8, <2>1 DEF TypeInv, PCs
<1>11. Unwritten /\ \A d \in Clients \ {c} : Alike(d)
  BY <1>1, <1>2, <1>8 DEF Unwritten, Alike, TypeInv
<1>12. CallInv(c)'
  BY <1>1, <1>2, <1>6, <1>9 DEF ClientInv, CallInv
<1>13. ColumnsInv(c)' /\ TaskInv(c, k, 0)'
  <2>1. CASE isRead
    <3>1. /\ DOMAIN new = {1} /\ Len(new) = 1 /\ new[1].column = call[c].column
          /\ new[1].rows = <<>> /\ new[1].left = {} /\ ~ new[1].failed /\ new # <<>> /\ k = 1
      BY <1>6, <1>k, <2>1, Kinds, NewReads DEF new
    <3>2. ColumnsInv(c)'
      BY <1>2, <1>9, <2>1, <3>1 DEF ColumnsInv, ReadInv
    <3>3. Active(c, 1)'
      BY <1>2, <1>9, <2>1 DEF Active
    <3> QED
      BY <1>9, <3>1, <3>2, <3>3 DEF TaskInv
  <2>2. CASE ~ isRead
    <3>1. new = <<>> /\ k = 0
      BY <1>k, <2>2 DEF new
    <3>2. ColumnsInv(c)'
      BY <1>9, <3>1 DEF ColumnsInv
    <3>3. call[c] \notin Statements /\ (call[c] \in Writes => nInstances = 1)
      BY <1>2, <1>6, Kinds DEF Refused, SafeMultithreadedWrites
    <3> QED
      BY <1>2, <1>6, <1>9, <2>2, <3>1, <3>2, <3>3 DEF TaskInv
  <2> QED
    BY <2>1, <2>2
<1>14. ClientInv(c)'
  BY <1>4, <1>8, <1>12, <1>13 DEF ClientInv
<1> QED
  BY <1>8, <1>10, <1>11, <1>14, StepOf

\* Spawn() submits the task of an instance
LEMMA SpawnStep ==
  ASSUME TableInv, NEW c \in Clients, SpawnNext(c) PROVE TableInv'
<1>1. TypeInv /\ ClientInv(c) /\ Distinct
  BY DEF TableInv
<1>2. /\ pc[c] \in {"enter", "spawn"} /\ (pc[c] = "enter" => call[c].op = "Taql")
      /\ Enqueue(slot[c], Task(c, 0, 0)) /\ pc' = [pc EXCEPT ![c] = "wait"]
      /\ UNCHANGED <<nInstances, table, setting, call, answer, listed, seen, reads, slot>>
  BY DEF SpawnNext
<1>3. /\ call[c] \in Calls /\ answer[c] = NoAnswer
      /\ slot[c] \in Instances /\ reads[c] = <<>> /\ listed[c] = <<>>
  BY <1>1, <1>2 DEF ClientInv, CallInv, TypeInv, Instances
<1>4. call[c] \in Statements
  BY <1>1, <1>2, <1>3, Kinds DEF ClientInv, CallInv
<1>5. call[c] \notin Reads /\ call[c] \notin Writes /\ call[c] \notin Conversions
  BY <1>3, <1>4, Kinds
<1>6. \A l, p \in Nat : ~ Pending(c, l, p)
  BY <1>1, <1>2, Quiet
<1>7. 0 \in Nat
  OBVIOUS
<1>8. /\ queue' \in [Instances -> Seq(Tasks)] /\ Distinct'
      /\ \A d, l, q : Pending(d, l, q)' <=> Pending(d, l, q) \/ (d = c /\ l = 0 /\ q = 0)
  BY <1>1, <1>2, <1>3, <1>6, <1>7, Enqueued
<1>9. pc'[c] = "wait"
  BY <1>1, <1>2 DEF TypeInv
<1>10. TypeInv'
  <2>1. Instances' = Instances
    BY <1>2 DEF Instances
  <2> QED
    BY <1>1, <1>2, <1>8, <2>1 DEF TypeInv, PCs
<1>11. Unwritten /\ \A d \in Clients \ {c} : Alike(d)
  BY <1>1, <1>2, <1>8 DEF Unwritten, Alike, TypeInv
<1>12. CallInv(c)'
  BY <1>1, <1>2, <1>3, <1>9 DEF ClientInv, CallInv
<1>13. ColumnsInv(c)'
  BY <1>2, <1>3 DEF ColumnsInv
<1>14. TaskInv(c, 0, 0)'
  BY <1>2, <1>3, <1>5, <1>9 DEF TaskInv, Instances
<1>15. ClientInv(c)'
  BY <1>6, <1>8, <1>12, <1>13, <1>14 DEF ClientInv
<1> QED
  BY <1>8, <1>10, <1>11, <1>15, StepOf

\* The task of a call is the only one
LEMMA OnlyTask ==
  ASSUME TableInv, NEW c \in Clients, Pending(c, 0, 0)
  PROVE  /\ pc[c] = "wait" /\ answer[c] = NoAnswer /\ reads[c] = <<>> /\ listed[c] = <<>>
         /\ call[c] \in Calls /\ call[c] \notin Reads
         /\ call[c] \in Writes => nInstances = 1
         /\ call[c] \in Statements => slot[c] \in 1..nInstances
         /\ call[c] \in Conversions => slot[c] = 1
         /\ \A k, p \in Nat : Pending(c, k, p) => k = 0 /\ p = 0
<1>1. TypeInv /\ ClientInv(c) /\ 0 \in Nat
  BY DEF TableInv
<1>2. 0 \notin DOMAIN reads[c]
  BY <1>1 DEF TypeInv
<1>3. /\ pc[c] = "wait" /\ reads[c] = <<>> /\ listed[c] = <<>> /\ call[c] \notin Reads
      /\ call[c] \in Writes => nInstances = 1
      /\ call[c] \in Statements => slot[c] \in 1..nInstances
      /\ call[c] \in Conversions => slot[c] = 1
  BY <1>1, <1>2 DEF ClientInv, TaskInv
<1>4. DOMAIN reads[c] = {}
  BY <1>3
<1>5. \A k, p \in Nat : Pending(c, k, p) => k = 0 /\ p = 0
  BY <1>1, <1>4 DEF ClientInv, TaskInv
<1> QED
  BY <1>1, <1>3, <1>5 DEF ClientInv, CallInv

\* The task of a call runs, and there is no other
LEMMA RanCall ==
  ASSUME TableInv, NEW i \in Instances, NEW c \in Clients, Runs(i, c, 0, 0), Dequeue(i),
         nInstances' = nInstances
  PROVE  /\ Pending(c, 0, 0)
         /\ queue' \in [Instances' -> Seq(Tasks)] /\ Distinct'
         /\ \A d, l, q : Pending(d, l, q)' => Pending(d, l, q)
         /\ \A l, q \in Nat : ~ Pending(c, l, q)'
<1>1. TypeInv /\ Distinct /\ 0 \in Nat /\ Instances' = Instances
  BY DEF TableInv, Instances
<1>2. /\ Pending(c, 0, 0) /\ queue' \in [Instances -> Seq(Tasks)] /\ Distinct'
      /\ \A d, l, q : Pending(d, l, q)' <=> Pending(d, l, q) /\ ~ (d = c /\ l = 0 /\ q = 0)
  BY <1>1, Dequeued
<1> QED
  BY <1>1, <1>2, OnlyTask

\* It answers the client
LEMMA CallAnswered ==
  ASSUME TableInv, NEW i \in Instances, NEW c \in Clients, Runs(i, c, 0, 0), Dequeue(i), Unwritten,
         NEW result, result # NoAnswer, Answer(c, result),
         UNCHANGED <<setting, call, listed, seen, reads, slot>>
  PROVE  TableInv'
<1>1. TypeInv /\ ClientInv(c) /\ nInstances' = nInstances
  BY DEF TableInv, Unwritten
<1>2. /\ Pending(c, 0, 0) /\ queue' \in [Instances' -> Seq(Tasks)] /\ Distinct'
      /\ \A d, l, q : Pending(d, l, q)' => Pending(d, l, q)
      /\ \A l, q \in Nat : ~ Pending(c, l, q)'
  BY <1>1, RanCall
<1>3. pc[c] = "wait" /\ reads[c] = <<>>
  BY <1>2, OnlyTask
<1>4. TypeInv'
  BY <1>1, <1>2 DEF TypeInv, PCs, Answer
<1>5. \A d \in Clients \ {c} : Alike(d)
  BY <1>1, <1>2 DEF Alike, TypeInv, Answer
<1>6. ColumnsInv(c)'
  BY <1>3 DEF ColumnsInv
<1>7. ClientInv(c)'
  BY <1>1, <1>2, <1>3, <1>6, Answered DEF ClientInv
<1> QED
  BY <1>2, <1>4, <1>5, <1>7, StepOf

\* The task of a statement runs: on a table of several instances it only selects
LEMMA StatementFacts ==
  ASSUME TableInv, NEW i \in Instances, NEW c \in Clients, RunStatement(i, c)
  PROVE  /\ nInstances' = nInstances /\ Pending(c, 0, 0) /\ call[c] \in Statements
         /\ Unwritten
         /\ nInstances > 1 => call[c].does = "SELECT"
         /\ slot[c] \in 1..nInstances
<1>1. /\ Runs(i, c, 0, 0) /\ Dequeue(i) /\ nInstances' = nInstances /\ call[c] \in Statements
      /\ table' = Taql(table, call[c]).table
  BY DEF RunStatement
<1>2. Pending(c, 0, 0)
  BY <1>1, RanCall
<1>3. TypeInv /\ ClientInv(c)
  BY DEF TableInv
<1>4. nInstances > 1 => call[c].does = "SELECT"
  BY <1>1, <1>3 DEF ClientInv, CallInv, TypeInv
<1>5. slot[c] \in 1..nInstances
  BY <1>1, <1>2, OnlyTask
<1> QED
  BY <1>1, <1>2, <1>4, <1>5, StatementAnswers DEF Unwritten

\* A statement runs on an instance
LEMMA RunStatementStep ==
  ASSUME TableInv, NEW i \in Instances, NEW c \in Clients, RunStatement(i, c) PROVE TableInv'
<1> DEFINE done == Taql(table, call[c])
<1>1. /\ Runs(i, c, 0, 0) /\ Dequeue(i)
      /\ UNCHANGED <<nInstances, strategy, setting, call, listed, seen, reads, calls>>
  BY DEF RunStatement
<1>2. /\ nInstances' = nInstances /\ Pending(c, 0, 0) /\ call[c] \in Statements
      /\ Unwritten /\ slot[c] \in 1..nInstances
  BY StatementFacts
<1>3. CASE done.answer = Failed \/ slot[c] = nInstances
  <2>1. Answer(c, done.answer) /\ slot' = slot
    BY <1>3 DEF RunStatement
  <2>2. done.answer # NoAnswer
    BY <1>2, StatementAnswers
  <2> QED
    BY <1>1, <1>2, <2>1, <2>2, CallAnswered
<1>4. CASE ~ (done.answer = Failed \/ slot[c] = nInstances)
  <2>1. /\ slot' = [slot EXCEPT ![c] = slot[c] + 1] /\ pc' = [pc EXCEPT ![c] = "spawn"]
        /\ answer' = answer
    BY <1>4 DEF RunStatement
  <2>2. TypeInv /\ ClientInv(c)
    BY DEF TableInv
  <2>3. /\ queue' \in [Instances' -> Seq(Tasks)] /\ Distinct'
        /\ \A d, l, q : Pending(d, l, q)' => Pending(d, l, q)
        /\ \A l, q \in Nat : ~ Pending(c, l, q)'
    BY <1>1, <1>2, RanCall
  <2>4. /\ pc[c] = "wait" /\ answer[c] = NoAnswer /\ reads[c] = <<>> /\ listed[c] = <<>>
        /\ call[c] \in Calls
    BY <1>2, OnlyTask
  <2>5. slot'[c] = slot[c] + 1 /\ slot'[c] \in 1..nInstances /\ pc'[c] = "spawn"
    BY <1>2, <1>4, <2>1, <2>2 DEF TypeInv
  <2>6. TypeInv'
    BY <1>1, <2>1, <2>2, <2>3 DEF TypeInv, PCs
  <2>7. \A d \in Clients \ {c} : Alike(d)
    BY <1>1, <2>1, <2>2, <2>3 DEF Alike, TypeInv
  <2>8. ColumnsInv(c)'
    BY <1>1, <2>4 DEF ColumnsInv
  <2>9. CallInv(c)'
    BY <1>1, <1>2, <2>1, <2>2, <2>4, <2>5 DEF ClientInv, CallInv
  <2>10. ClientInv(c)'
    BY <2>3, <2>8, <2>9 DEF ClientInv
  <2> QED
    BY <1>2, <2>3, <2>6, <2>7, <2>10, StepOf
<1> QED
  BY <1>3, <1>4

\* ToArrow() has listed the columns
LEMMA RunListStep ==
  ASSUME TableInv, NEW i \in Instances, NEW c \in Clients, RunList(i, c) PROVE TableInv'
<1>1. /\ Runs(i, c, 0, 0) /\ Dequeue(i) /\ call[c] \in Conversions
      /\ UNCHANGED <<nInstances, table, strategy, setting, call, slot>>
  BY DEF RunList
<1>2. PICK columns : columns = Listed(table, call[c])
  OBVIOUS
<1>3. columns \in Seq({"FIXED", "VARIABLE"}) /\ 1 <= Len(columns)
  BY <1>1, <1>2, Listing
<1>4. Unwritten
  BY <1>1 DEF Unwritten
<1>5. CASE ~ \A k \in DOMAIN columns : ColumnExists(table, columns[k])
  <2>1. Answer(c, Failed) /\ UNCHANGED <<listed, seen, reads>>
    BY <1>2, <1>5 DEF RunList
  <2> QED
    BY <1>1, <1>4, <2>1, CallAnswered, Answers
<1>6. CASE \A k \in DOMAIN columns : ColumnExists(table, columns[k])
  <2>1. /\ listed' = [listed EXCEPT ![c] = columns]
        /\ seen' = [seen EXCEPT ![c] = [k \in DOMAIN columns |-> NoAnswer]]
        /\ reads' = [reads EXCEPT ![c] = [k \in DOMAIN columns |-> NewRead(columns[k])]]
        /\ pc' = [pc EXCEPT ![c] = "columns"] /\ answer' = answer
    BY <1>2, <1>6 DEF RunList
  <2>2. TypeInv /\ ClientInv(c)
    BY DEF TableInv
  <2>3. /\ Pending(c, 0, 0) /\ queue' \in [Instances' -> Seq(Tasks)] /\ Distinct'
        /\ \A d, l, q : Pending(d, l, q)' => Pending(d, l, q)
        /\ \A l, q \in Nat : ~ Pending(c, l, q)'
    BY <1>1, RanCall
  <2>4. /\ pc[c] = "wait" /\ answer[c] = NoAnswer /\ call[c] \in Calls /\ call[c] \notin Reads
        /\ slot[c] = 1
    BY <1>1, <2>3, OnlyTask
  <2>5. PICK new : new = [k \in DOMAIN columns |-> NewRead(columns[k])]
    OBVIOUS
  <2>6. /\ new \in Seq(ReadStates) /\ Len(new) = Len(columns) /\ DOMAIN new = DOMAIN columns
        /\ \A k \in DOMAIN new : /\ new[k].column = columns[k]
                                 /\ new[k].rows = <<>> /\ new[k].left = {} /\ ~ new[k].failed
    <3>1. \A k \in DOMAIN columns : columns[k] \in {"FIXED", "VARIABLE"}
      BY <1>3
    <3>2. \A k \in DOMAIN columns : NewRead(columns[k]) \in ReadStates
      BY <3>1, NewReads
    <3>3. DOMAIN columns = 1..Len(columns) /\ Len(columns) \in Nat
      BY <1>3
    <3>4. new \in [1..Len(columns) -> ReadStates]
      BY <2>5, <3>2, <3>3
    <3>5. new \in Seq(ReadStates) /\ Len(new) = Len(columns)
      BY <3>3, <3>4
    <3> QED
      BY <2>5, <3>1, <3>5, NewReads
  <2>7. /\ listed'[c] = columns /\ seen'[c] = [k \in DOMAIN columns |-> NoAnswer]
        /\ reads'[c] = new /\ pc'[c] = "columns"
    BY <2>1, <2>2, <2>5 DEF TypeInv
  <2>8. TypeInv'
    <3>1. /\ listed' \in [Clients -> Seq({"FIXED", "VARIABLE"})]
          /\ reads' \in [Clients -> Seq(ReadStates)]
      BY <1>3, <2>1, <2>2, <2>5, <2>6 DEF TypeInv
    <3>2. DOMAIN seen' = Clients /\ \A d \in Clients : DOMAIN seen'[d] = DOMAIN listed'[d]
      BY <2>1, <2>2 DEF TypeInv
    <3>3. pc' \in [Clients -> PCs]
      BY <2>1, <2>2 DEF TypeInv, PCs
    <3> QED
      BY <1>1, <2>1, <2>2, <2>3, <3>1, <3>2, <3>3 DEF TypeInv
  <2>9. \A d \in Clients \ {c} : Alike(d)
    BY <1>1, <2>1, <2>2, <2>3 DEF Alike, TypeInv
  <2>10. ColumnsInv(c)'
    BY <1>1, <2>4, <2>6, <2>7 DEF ColumnsInv, ReadInv
  <2>11. CallInv(c)'
    BY <1>1, <1>3, <2>1, <2>2, <2>4, <2>6, <2>7 DEF ClientInv, CallInv
  <2>12. ClientInv(c)'
    BY <2>3, <2>10, <2>11 DEF ClientInv
  <2> QED
    BY <1>4, <2>3, <2>8, <2>9, <2>12, StepOf
<1> QED
  BY <1>5, <1>6

\* The tasks of calls that run
LEMMA CallTaskSteps ==
  ASSUME TableInv, NEW i \in Instances, NEW c \in Clients,
         RunQuery(i, c) \/ RunWrite(i, c) \/ RunStatement(i, c) \/ RunList(i, c)
  PROVE  TableInv'
<1>1. CASE RunQuery(i, c)
  BY <1>1, CallAnswered, QueryAnswers DEF RunQuery, Unwritten
<1>2. CASE RunWrite(i, c)
  <2>1. /\ Runs(i, c, 0, 0) /\ Dequeue(i) /\ call[c] \in Writes
        /\ Answer(c, Write(table, call[c]).answer)
        /\ UNCHANGED <<nInstances, setting, call, listed, seen, reads, slot>>
    BY <1>2 DEF RunWrite
  <2>2. nInstances = 1
    BY <2>1, RanCall, OnlyTask
  <2>3. Unwritten /\ Write(table, call[c]).answer # NoAnswer
    BY <2>1, <2>2, WriteAnswers DEF Unwritten
  <2> QED
    BY <2>1, <2>3, CallAnswered
<1> QED
  BY <1>1, <1>2, RunStatementStep, RunListStep

-----------------------------------------------------------------------------
(* Reading columns *)

\* One column's read changes
LEMMA OneRead ==
  ASSUME TypeInv, NEW c \in Clients, NEW k \in DOMAIN reads[c], NEW new \in ReadStates,
         reads' = [reads EXCEPT ![c] = [reads[c] EXCEPT ![k] = new]]
  PROVE  /\ reads' \in [Clients -> Seq(ReadStates)]
         /\ reads'[c][k] = new /\ Len(reads'[c]) = Len(reads[c])
         /\ DOMAIN reads'[c] = DOMAIN reads[c] /\ reads'[c] # <<>>
         /\ \A l \in DOMAIN reads[c] \ {k} : reads'[c][l] = reads[c][l]
         /\ \A d \in Clients \ {c} : reads'[d] = reads[d]
  BY DEF TypeInv

\* Columns have numbers from 1 on
LEMMA ColumnNumbers ==
  ASSUME TypeInv, NEW c \in Clients, NEW k \in DOMAIN reads[c]
  PROVE  /\ k \in Nat \ {0} /\ k <= Len(reads[c]) /\ Len(reads[c]) \in Nat
         /\ reads[c] # <<>> /\ reads[c][k] \in ReadStates
  BY DEF TypeInv

\* The other columns of a client, as one of them is being read
LEMMA OtherColumns ==
  ASSUME TypeInv, Unwritten, NEW c \in Clients, NEW k \in DOMAIN reads[c],
         NEW l \in DOMAIN reads[c], ReadInv(c, l), reads'[c][l] = reads[c][l],
         Active(c, l) => Active(c, l)'
  PROVE  ReadInv(c, l)'
<1>1. PICK x : x = reads[c][l] /\ x = reads'[c][l]
  OBVIOUS
<1>2. ASSUME Spread(x) PROVE Spread(reads[c][l])'
  <2>1. Spread(x)'
    BY <1>2, SpreadKept
  <2> QED
    BY <1>1, <2>1 DEF Spread, NPieces, PieceRows
<1> QED
  BY <1>1, <1>2 DEF ReadInv

(***************************************************************************)
(* A column is read in pieces: a task of its is submitted or has run, and  *)
(* what is kept of it changes.                                             *)
(***************************************************************************)
LEMMA PieceStep ==
  ASSUME TableInv, NEW c \in Clients, NEW k \in DOMAIN reads[c], Active(c, k),
         NEW new \in ReadStates, reads' = [reads EXCEPT ![c] = [reads[c] EXCEPT ![k] = new]],
         UNCHANGED <<nInstances, table, setting, call, answer, pc, listed, seen, slot>>,
         queue' \in [Instances -> Seq(Tasks)], Distinct',
         \A d, l, q : Pending(d, l, q)' => Pending(d, l, q) \/ (d = c /\ l = k),
         \A p \in Nat : Pending(c, k, p)' => p # 0 /\ p \in new.left /\ p < new.next,
         new.column = reads[c][k].column, new.rows # <<>>, Spread(new)
  PROVE  TableInv'
<1>1. TypeInv /\ ClientInv(c) /\ Instances' = Instances
  BY DEF TableInv, Instances
<1>2. /\ reads' \in [Clients -> Seq(ReadStates)]
      /\ reads'[c][k] = new /\ Len(reads'[c]) = Len(reads[c])
      /\ DOMAIN reads'[c] = DOMAIN reads[c] /\ reads'[c] # <<>>
      /\ \A l \in DOMAIN reads[c] \ {k} : reads'[c][l] = reads[c][l]
      /\ \A d \in Clients \ {c} : reads'[d] = reads[d]
  BY <1>1, OneRead
<1>3. TypeInv'
  BY <1>1, <1>2 DEF TypeInv
<1>4. Unwritten /\ \A d \in Clients \ {c} : Alike(d)
  BY <1>1, <1>2 DEF Unwritten, Alike
<1>5. \A l : Active(c, l) => Active(c, l)'
  BY DEF Active
<1>6. k \in Nat \ {0} /\ reads[c] # <<>> /\ pc[c] \in {"wait", "columns"}
  BY <1>1, ColumnNumbers DEF Active
<1>7. ReadInv(c, k)'
  <2>1. Spread(new)'
    BY <1>4, SpreadKept
  <2>2. new = reads'[c][k]
    BY <1>2
  <2>3. Spread(reads[c][k])'
    BY ONLY <2>1, <2>2 DEF Spread, NPieces, PieceRows
  <2> QED
    BY <1>2, <1>5, <2>3 DEF ReadInv
<1>8. ColumnsInv(c)'
  <2>1. \A l \in DOMAIN reads[c] \ {k} : ReadInv(c, l)'
    BY <1>1, <1>2, <1>4, <1>5, OtherColumns DEF ClientInv, ColumnsInv
  <2> QED
    BY <1>1, <1>2, <1>6, <1>7, <2>1 DEF ClientInv, ColumnsInv
<1>9. CallInv(c)'
  BY <1>1, <1>2, <1>6 DEF ClientInv, CallInv
<1>10. ASSUME NEW l \in Nat, NEW q \in Nat, Pending(c, l, q)' PROVE TaskInv(c, l, q)'
  <2>1. CASE l = k
    BY <1>2, <1>5, <1>10, <2>1 DEF TaskInv
  <2>2. CASE l # k
    <3>1. TaskInv(c, l, q)
      BY <1>1, <1>10, <2>2 DEF ClientInv
    <3> QED
      BY <1>2, <1>5, <1>6, <2>2, <3>1 DEF TaskInv
  <2> QED
    BY <2>1, <2>2
<1>11. ClientInv(c)'
  BY <1>8, <1>9, <1>10 DEF ClientInv
<1> QED
  BY <1>3, <1>4, <1>11, StepOf

\* The read of a column ends, and nothing of it is pending
LEMMA DeliverStep ==
  ASSUME TableInv, NEW c \in Clients, NEW k \in DOMAIN reads[c], Active(c, k),
         NEW result, result # NoAnswer, Deliver(c, k, result),
         NEW new \in ReadStates, reads' = [reads EXCEPT ![c] = [reads[c] EXCEPT ![k] = new]],
         UNCHANGED <<nInstances, table, setting, call, listed, slot>>,
         queue' \in [Instances -> Seq(Tasks)], Distinct',
         \A d, l, q : Pending(d, l, q)' => Pending(d, l, q),
         \A p \in Nat : ~ Pending(c, k, p)',
         new.column = reads[c][k].column, new.rows = <<>>, new.left = {}, ~ new.failed
  PROVE  TableInv'
<1>1. TypeInv /\ ClientInv(c) /\ Instances' = Instances
  BY DEF TableInv, Instances
<1>2. /\ reads' \in [Clients -> Seq(ReadStates)]
      /\ reads'[c][k] = new /\ Len(reads'[c]) = Len(reads[c])
      /\ DOMAIN reads'[c] = DOMAIN reads[c] /\ reads'[c] # <<>>
      /\ \A l \in DOMAIN reads[c] \ {k} : reads'[c][l] = reads[c][l]
      /\ \A d \in Clients \ {c} : reads'[d] = reads[d]
  BY <1>1, OneRead
<1>3. k \in Nat \ {0} /\ reads[c] # <<>> /\ pc[c] \in {"wait", "columns"}
  BY <1>1, ColumnNumbers DEF Active
<1>4. Unwritten /\ ReadInv(c, k)'
  BY <1>2 DEF Unwritten, ReadInv
<1>5. CASE call[c] \in Reads
  <2>1. Answer(c, result) /\ seen' = seen
    BY <1>5 DEF Deliver
  <2>2. TypeInv'
    BY <1>1, <1>2, <2>1 DEF TypeInv, PCs, Answer
  <2>3. \A d \in Clients \ {c} : Alike(d)
    BY <1>1, <1>2, <2>1 DEF Alike, TypeInv, Answer
  <2>4. Len(reads[c]) = 1 /\ DOMAIN reads[c] = {1} /\ k = 1
    BY <1>1, <1>3, <1>5 DEF ClientInv, ColumnsInv, TypeInv
  <2>5. ColumnsInv(c)'
    BY <1>1, <1>2, <1>3, <1>4, <1>5, <2>4 DEF ClientInv, ColumnsInv
  <2>6. ASSUME NEW l \in Nat, NEW q \in Nat PROVE ~ Pending(c, l, q)'
    <3>1. Pending(c, l, q) => l = k
      BY <1>1, <1>3, <2>4 DEF ClientInv, TaskInv
    <3> QED
      BY <3>1
  <2>7. ClientInv(c)'
    BY <1>1, <1>3, <1>4, <2>1, <2>5, <2>6, Answered DEF ClientInv
  <2> QED
    BY <1>4, <2>2, <2>3, <2>7, StepOf
<1>6. CASE call[c] \notin Reads
  <2>1. seen' = [seen EXCEPT ![c][k] = result] /\ answer' = answer /\ pc' = pc
    BY <1>6 DEF Deliver
  <2>2. /\ DOMAIN seen' = Clients /\ DOMAIN seen'[c] = DOMAIN seen[c]
        /\ \A d \in Clients \ {c} : seen'[d] = seen[d]
        /\ \A l \in DOMAIN seen[c] \ {k} : seen'[c][l] = seen[c][l]
    BY <1>1, <2>1 DEF TypeInv
  <2>3. TypeInv'
    BY <1>1, <1>2, <2>1, <2>2 DEF TypeInv
  <2>4. \A d \in Clients \ {c} : Alike(d)
    BY <1>1, <1>2, <2>1, <2>2 DEF Alike
  <2>5. DOMAIN reads[c] = DOMAIN seen[c] /\ k < slot[c] /\ DOMAIN seen[c] \subseteq Nat
    BY <1>1, <1>3, <1>6 DEF ClientInv, ColumnsInv, TypeInv, Active
  <2>6. \A l \in DOMAIN reads[c] \ {k} : Active(c, l) => Active(c, l)'
    BY <2>1, <2>2, <2>5 DEF Active
  <2>7. ColumnsInv(c)'
    <3>1. \A l \in DOMAIN reads[c] \ {k} : ReadInv(c, l)'
      BY <1>1, <1>2, <1>4, <2>6, OtherColumns DEF ClientInv, ColumnsInv
    <3> QED
      BY <1>1, <1>2, <1>3, <1>4, <1>6, <3>1 DEF ClientInv, ColumnsInv
  <2>8. CallInv(c)'
    <3>1. \A l \in DOMAIN seen[c] : slot[c] <= l => l # k
      BY <1>1, <2>5 DEF TypeInv
    <3>2. pc[c] = "columns" => \A l \in DOMAIN seen[c] : slot[c] <= l => seen'[c][l] = NoAnswer
      BY <1>1, <2>2, <3>1 DEF ClientInv, CallInv
    <3> QED
      BY <1>1, <1>2, <1>3, <2>1, <2>2, <3>2 DEF ClientInv, CallInv
  <2>9. ASSUME NEW l \in Nat, NEW q \in Nat, Pending(c, l, q)' PROVE TaskInv(c, l, q)'
    <3>1. TaskInv(c, l, q) /\ l # k
      BY <1>1, <2>9 DEF ClientInv
    <3> QED
      BY <1>2, <1>3, <2>6, <3>1 DEF TaskInv
  <2>10. ClientInv(c)'
    BY <2>7, <2>8, <2>9 DEF ClientInv
  <2> QED
    BY <1>4, <2>3, <2>4, <2>10, StepOf
<1> QED
  BY <1>5, <1>6

\* A task of a column is of one being read; that of a piece isn't that of the column
LEMMA ColumnTasks ==
  ASSUME TableInv, NEW c \in Clients, NEW k \in DOMAIN reads[c], NEW p \in Nat, Pending(c, k, p)
  PROVE  /\ Active(c, k)
         /\ p = 0 => reads[c][k].rows = <<>> /\ \A q \in Nat : Pending(c, k, q) => q = 0
         /\ p # 0 => reads[c][k].rows # <<>> /\ p \in reads[c][k].left /\ Spread(reads[c][k])
<1>1. TypeInv /\ ClientInv(c)
  BY DEF TableInv
<1>2. k \in Nat \ {0}
  BY <1>1, ColumnNumbers
<1>3. \A q \in Nat : Pending(c, k, q) =>
        /\ Active(c, k)
        /\ q = 0 => reads[c][k].rows = <<>>
        /\ q # 0 => reads[c][k].rows # <<>> /\ q \in reads[c][k].left /\ q < reads[c][k].next
  BY <1>1, <1>2 DEF ClientInv, TaskInv
<1> QED
  BY <1>1, <1>2, <1>3 DEF ClientInv, ColumnsInv, ReadInv

\* The task of a column reads it
LEMMA RunReadStep ==
  ASSUME TableInv, NEW i \in Instances, NEW c \in Clients, NEW k \in DOMAIN reads[c],
         RunRead(i, c, k)
  PROVE  TableInv'
<1>1. TypeInv /\ Distinct /\ ClientInv(c) /\ 0 \in Nat
  BY DEF TableInv
<1>2. /\ Runs(i, c, k, 0) /\ Dequeue(i)
      /\ UNCHANGED <<nInstances, table, strategy, setting, call, listed, reads, slot>>
  BY DEF RunRead
<1>3. k \in Nat /\ reads[c][k] \in ReadStates
  BY <1>1, ColumnNumbers
<1>4. /\ Pending(c, k, 0) /\ queue' \in [Instances -> Seq(Tasks)] /\ Distinct'
      /\ \A d, l, q : Pending(d, l, q)' <=> Pending(d, l, q) /\ ~ (d = c /\ l = k /\ q = 0)
  BY <1>1, <1>2, <1>3, Dequeued
<1>5. /\ Active(c, k) /\ reads[c][k].rows = <<>>
      /\ \A q \in Nat : Pending(c, k, q) => q = 0
  BY <1>1, <1>4, ColumnTasks
<1>6. PICK array \in Arrays(table, reads[c][k].column, strategy, setting) : Deliver(c, k, array)
  BY DEF RunRead
<1>7. array # NoAnswer
  BY ReadAnswers
<1>8. reads' = [reads EXCEPT ![c] = [reads[c] EXCEPT ![k] = reads[c][k]]]
  BY <1>1, <1>2 DEF TypeInv
<1>9. reads[c][k].left = {} /\ ~ reads[c][k].failed
  BY <1>1, <1>5 DEF ClientInv, ColumnsInv, ReadInv
<1>10. \A q \in Nat : ~ Pending(c, k, q)'
  BY <1>4, <1>5
<1> QED
  BY <1>2, <1>3, <1>4, <1>5, <1>6, <1>7, <1>8, <1>9, <1>10, DeliverStep

\* The next column of ToArrow() is submitted
LEMMA SubmitColumnStep ==
  ASSUME TableInv, NEW c \in Clients, SubmitColumn(c) PROVE TableInv'
<1>1. TypeInv /\ Distinct /\ ClientInv(c) /\ 0 \in Nat
  BY DEF TableInv
<1>2. PICK k \in Nat \ {0} : k = slot[c]
  BY <1>1 DEF TypeInv
<1>3. PICK i \in Instances : Enqueue(i, Task(c, k, 0))
  BY <1>2 DEF SubmitColumn, NextColumn
<1>4. /\ pc[c] = "columns" /\ slot' = [slot EXCEPT ![c] = k + 1]
      /\ pc' = [pc EXCEPT ![c] = IF k = Len(listed[c]) THEN "wait" ELSE "columns"]
      /\ UNCHANGED <<nInstances, table, strategy, setting, call, answer, listed, seen, reads>>
  BY <1>1, <1>2 DEF SubmitColumn, TypeInv
<1>5. /\ call[c] \notin Reads /\ k <= Len(listed[c]) /\ Len(reads[c]) = Len(listed[c])
      /\ \A l \in DOMAIN seen[c] : k <= l => seen[c][l] = NoAnswer
      /\ answer[c] = NoAnswer /\ call[c] \in Calls
  BY <1>1, <1>2, <1>4 DEF ClientInv, CallInv
<1>6. k \in DOMAIN reads[c] /\ k \in DOMAIN seen[c] /\ reads[c] # <<>>
      /\ DOMAIN seen[c] \subseteq Nat /\ Len(listed[c]) \in Nat
  BY <1>1, <1>5 DEF TypeInv
<1>7. ~ Active(c, k)
  BY <1>2, <1>5 DEF Active
<1>8. ~ Pending(c, k, 0) /\ reads[c][k].rows = <<>>
  BY <1>1, <1>6, <1>7 DEF ClientInv, TaskInv, ColumnsInv, ReadInv
<1>9. /\ queue' \in [Instances -> Seq(Tasks)] /\ Distinct'
      /\ \A d, l, q : Pending(d, l, q)' <=> Pending(d, l, q) \/ (d = c /\ l = k /\ q = 0)
  BY <1>1, <1>3, <1>4, <1>8, Enqueued
<1>10. /\ slot'[c] = k + 1 /\ pc'[c] \in {"wait", "columns"}
       /\ pc'[c] = "columns" => k + 1 <= Len(listed[c])
  BY <1>1, <1>4, <1>5, <1>6 DEF TypeInv
<1>11. TypeInv'
  <2>1. Instances' = Instances
    BY <1>4 DEF Instances
  <2>2. pc' \in [Clients -> PCs] /\ slot' \in [Clients -> Nat \ {0}]
    BY <1>1, <1>4 DEF TypeInv, PCs
  <2> QED
    BY <1>1, <1>4, <1>9, <2>1, <2>2 DEF TypeInv
<1>12. Unwritten /\ \A d \in Clients \ {c} : Alike(d)
  BY <1>1, <1>4, <1>9 DEF Unwritten, Alike, TypeInv
<1>13. \A l \in Nat : Active(c, l) => Active(c, l)'
  BY <1>2, <1>4, <1>5, <1>10 DEF Active
<1>14. CallInv(c)'
  <2>1. \A l \in DOMAIN seen[c] : k + 1 <= l => seen[c][l] = NoAnswer
    BY <1>5, <1>6
  <2> QED
    BY <1>1, <1>4, <1>5, <1>10, <2>1 DEF ClientInv, CallInv
<1>15. ColumnsInv(c)'
  <2>1. \A l \in DOMAIN reads[c] : l \in Nat
    BY <1>1, ColumnNumbers
  <2>2. \A l \in DOMAIN reads[c] : ReadInv(c, l)'
    BY <1>1, <1>4, <1>12, <1>13, <2>1, OtherColumns DEF ClientInv, ColumnsInv
  <2> QED
    BY <1>1, <1>4, <2>2 DEF ClientInv, ColumnsInv
<1>16. Active(c, k)'
  BY <1>4, <1>5, <1>6, <1>10 DEF Active
<1>17. ASSUME NEW l \in Nat, NEW q \in Nat, Pending(c, l, q)' PROVE TaskInv(c, l, q)'
  <2>1. CASE l = k /\ q = 0
    BY <1>4, <1>6, <1>8, <1>16, <2>1 DEF TaskInv
  <2>2. CASE ~ (l = k /\ q = 0)
    <3>1. TaskInv(c, l, q)
      BY <1>1, <1>9, <1>17, <2>2 DEF ClientInv
    <3> QED
      BY <1>4, <1>6, <1>13, <3>1 DEF TaskInv
  <2> QED
    BY <2>1, <2>2
<1>18. ClientInv(c)'
  BY <1>14, <1>15, <1>17 DEF ClientInv
<1> QED
  BY <1>9, <1>11, <1>12, <1>18, StepOf

\* A column is left to pieces
LEMMA RunPartitionStep ==
  ASSUME TableInv, NEW i \in Instances, NEW c \in Clients, NEW k \in DOMAIN reads[c],
         RunPartition(i, c, k)
  PROVE  TableInv'
<1>1. TypeInv /\ Distinct /\ ClientInv(c) /\ 0 \in Nat
  BY DEF TableInv
<1>2. PICK n : n = NRows(table)
  OBVIOUS
<1>3. PICK rows : rows = [r \in 1..n |-> Undefined]
  OBVIOUS
<1>4. PICK left : left = 1..NPieces(n)
  OBVIOUS
<1>5. PICK new : new = [reads[c][k] EXCEPT !.rows = rows, !.left = left]
  OBVIOUS
<1>6. /\ Runs(i, c, k, 0) /\ Dequeue(i)
      /\ nInstances > 1 /\ n > 1 /\ Readable(table, reads[c][k].column)
      /\ reads' = [reads EXCEPT ![c][k].rows = rows, ![c][k].left = left]
      /\ UNCHANGED <<nInstances, table, setting, call, answer, pc, listed, seen, slot>>
  BY <1>2, <1>3, <1>4 DEF RunPartition
<1>7. n \in Nat \ {0}
  BY <1>2, <1>6 DEF TableInv, WellFormed, NRows
<1>8. rows \in Seq(Int) /\ Len(rows) = n /\ rows # <<>> /\ left \in SUBSET Nat
  <2>1. rows \in [1..n -> Int]
    BY <1>3 DEF Undefined
  <2>2. rows \in Seq(Int) /\ Len(rows) = n
    BY <1>7, <2>1
  <2> QED
    BY <1>4, <1>7, <2>2
<1>9. k \in Nat /\ reads[c][k] \in ReadStates
  BY <1>1, ColumnNumbers
<1>10. /\ new \in ReadStates /\ new.column = reads[c][k].column /\ new.rows = rows
       /\ new.left = left /\ new.failed = reads[c][k].failed
  BY <1>5, <1>8, <1>9 DEF ReadStates
<1>11. reads' = [reads EXCEPT ![c] = [reads[c] EXCEPT ![k] = new]]
  BY <1>1, <1>5, <1>6 DEF TypeInv
<1>12. /\ Pending(c, k, 0) /\ queue' \in [Instances -> Seq(Tasks)] /\ Distinct'
       /\ \A d, l, q : Pending(d, l, q)' <=> Pending(d, l, q) /\ ~ (d = c /\ l = k /\ q = 0)
  BY <1>1, <1>6, <1>9, Dequeued
<1>13. /\ Active(c, k) /\ reads[c][k].rows = <<>>
       /\ \A q \in Nat : Pending(c, k, q) => q = 0
  BY <1>1, <1>12, ColumnTasks
<1>14. ~ new.failed
  BY <1>1, <1>10, <1>13 DEF ClientInv, ColumnsInv, ReadInv
<1>15. Spread(new)
  BY <1>2, <1>4, <1>6, <1>8, <1>10, <1>14 DEF Spread
<1>16. \A q \in Nat : ~ Pending(c, k, q)'
  BY <1>12, <1>13
<1> QED
  BY <1>6, <1>8, <1>10, <1>11, <1>12, <1>13, <1>15, <1>16, PieceStep

\* A piece is submitted
LEMMA SubmitPieceStep ==
  ASSUME TableInv, NEW c \in Clients, NEW k \in DOMAIN reads[c], SubmitPiece(c, k)
  PROVE  TableInv'
<1>1. TypeInv /\ Distinct /\ ClientInv(c)
  BY DEF TableInv
<1>2. k \in Nat \ {0} /\ reads[c][k] \in ReadStates
  BY <1>1, ColumnNumbers
<1>3. PICK p \in Nat : p = reads[c][k].next
  BY <1>2 DEF ReadStates
<1>4. PICK new : new = [reads[c][k] EXCEPT !.next = p + 1]
  OBVIOUS
<1>5. /\ p \in reads[c][k].left
      /\ reads' = [reads EXCEPT ![c][k].next = p + 1]
      /\ UNCHANGED <<nInstances, table, setting, call, answer, pc, listed, seen, slot>>
  BY <1>3 DEF SubmitPiece
<1>6. PICK i \in Instances : Enqueue(i, Task(c, k, p))
  BY <1>3 DEF SubmitPiece
<1>7. /\ new \in ReadStates /\ new.column = reads[c][k].column /\ new.rows = reads[c][k].rows
      /\ new.left = reads[c][k].left /\ new.failed = reads[c][k].failed /\ new.next = p + 1
  BY <1>2, <1>4 DEF ReadStates
<1>8. reads' = [reads EXCEPT ![c] = [reads[c] EXCEPT ![k] = new]]
  BY <1>1, <1>4, <1>5 DEF TypeInv
<1>9. reads[c][k].rows # <<>> /\ Active(c, k) /\ Spread(reads[c][k])
  BY <1>1, <1>5 DEF ClientInv, ColumnsInv, ReadInv
<1>10. Spread(new)
  BY <1>7, <1>9 DEF Spread
<1>11. p # 0
  <2>1. reads[c][k].left \subseteq 1..NPieces(NRows(table))
    BY <1>9 DEF Spread
  <2> QED
    BY <1>5, <2>1
<1>12. \A q \in Nat : Pending(c, k, q) => q # 0 /\ q \in new.left /\ q < p
  BY <1>1, <1>2, <1>3, <1>7, <1>9 DEF ClientInv, TaskInv
<1>13. ~ Pending(c, k, p)
  BY <1>12
<1>14. /\ queue' \in [Instances -> Seq(Tasks)] /\ Distinct'
       /\ \A d, l, q : Pending(d, l, q)' <=> Pending(d, l, q) \/ (d = c /\ l = k /\ q = p)
  BY <1>1, <1>2, <1>5, <1>6, <1>13, Enqueued
<1>15. \A q \in Nat : Pending(c, k, q)' => q # 0 /\ q \in new.left /\ q < new.next
  BY <1>5, <1>7, <1>11, <1>12, <1>14
<1> QED
  BY <1>5, <1>7, <1>8, <1>9, <1>10, <1>14, <1>15, PieceStep

\* What casacore has in a column that can be read
LEMMA ReadableCells ==
  ASSUME TableInv, nInstances > 1, NEW column, Readable(table, column)
  PROVE  /\ table.cells[column] \in Seq(Int) /\ Len(table.cells[column]) = NRows(table)
         /\ NRows(table) \in Nat
         /\ \A r \in 1..NRows(table) : table.cells[column][r] # Undefined
<1>1. WellFormed(table) /\ column \in DOMAIN table.cells
  BY DEF TableInv, Readable, ColumnExists
<1>2. table.cells[column] \in Seq(Int) /\ Len(table.cells[column]) = NRows(table)
  BY <1>1 DEF WellFormed
<1>3. NRows(table) \in Nat
  BY <1>2
<1>4. CASE column = "FIXED"
  BY <1>1, <1>2, <1>3, <1>4 DEF WellFormed
<1>5. CASE column # "FIXED"
  <2>1. \A r \in DOMAIN table.cells[column] : table.cells[column][r] # Undefined
    BY <1>5 DEF Readable, Range
  <2> QED
    BY <1>2, <1>3, <2>1
<1> QED
  BY <1>2, <1>3, <1>4, <1>5

\* A piece read by one of several instances adds its rows
LEMMA PieceRead ==
  ASSUME TableInv, NEW read \in ReadStates, Spread(read), NEW p \in read.left,
         NEW cells, cells = table.cells[read.column],
         NEW piece, piece = PieceRows(Len(read.rows), p),
         NEW new \in ReadStates, new.column = read.column, new.left = read.left \ {p},
         DOMAIN new.rows = DOMAIN read.rows,
         \A r \in DOMAIN read.rows : r \in piece \cap DOMAIN cells => new.rows[r] = cells[r],
         \A r \in DOMAIN read.rows : r \notin piece \cap DOMAIN cells => new.rows[r] = read.rows[r],
         (\A r \in piece : r \in DOMAIN cells /\ cells[r] # Undefined) => new.failed = read.failed
  PROVE  Spread(new) /\ new.rows # <<>>
<1>1. PICK n : n = NRows(table)
  OBVIOUS
<1>2. /\ nInstances > 1 /\ Readable(table, read.column) /\ n > 1 /\ ~ read.failed
      /\ Len(read.rows) = n /\ read.left \subseteq 1..NPieces(n)
      /\ \A q \in 1..NPieces(n) : q \notin read.left =>
           \A r \in PieceRows(n, q) : read.rows[r] = cells[r]
  BY <1>1 DEF Spread
<1>3. cells \in Seq(Int) /\ Len(cells) = n /\ n \in Nat /\ \A r \in 1..n : cells[r] # Undefined
  BY <1>1, <1>2, ReadableCells
<1>4. n \in Nat \ {0} /\ nInstances \in Nat \ {0}
  BY <1>2, <1>3 DEF TableInv, TypeInv
<1>5. \A q \in 1..NPieces(n) : PieceRows(n, q) \subseteq 1..n
  BY <1>4, Pieces
<1>6. DOMAIN cells = 1..n /\ DOMAIN read.rows = 1..n
  BY <1>2, <1>3 DEF ReadStates
<1>7. piece = PieceRows(n, p) /\ piece \subseteq 1..n /\ p \in 1..NPieces(n)
  BY <1>2, <1>5
<1>8. \A r \in 1..n : new.rows[r] = IF r \in piece THEN cells[r] ELSE read.rows[r]
  BY <1>6, <1>7
<1>9. Len(new.rows) = n /\ new.rows # <<>>
  <2>1. DOMAIN new.rows = 1..n /\ new.rows \in Seq(Int)
    BY <1>6 DEF ReadStates
  <2> QED
    BY <1>2, <1>3, <2>1
<1>10. ~ new.failed
  BY <1>2, <1>3, <1>6, <1>7
<1>11. new.left \subseteq 1..NPieces(n)
  BY <1>2
<1>12. ASSUME NEW q \in 1..NPieces(n), q \notin new.left, NEW r \in PieceRows(n, q)
       PROVE  new.rows[r] = cells[r]
  <2>1. r \in 1..n
    BY <1>5
  <2>2. CASE q = p
    BY <1>7, <1>8, <2>1, <2>2
  <2>3. CASE q # p
    <3>1. read.rows[r] = cells[r]
      BY <1>2, <1>12, <2>3
    <3> QED
      BY <1>8, <2>1, <3>1
  <2> QED
    BY <2>2, <2>3
<1> QED
  BY <1>1, <1>2, <1>9, <1>10, <1>11, <1>12 DEF Spread

\* The task of a piece runs
LEMMA RunPieceStep ==
  ASSUME TableInv, NEW i \in Instances, NEW c \in Clients, NEW k \in DOMAIN reads[c],
         NEW p \in reads[c][k].left, RunPiece(i, c, k, p)
  PROVE  TableInv'
<1>1. TypeInv /\ Distinct /\ ClientInv(c)
  BY DEF TableInv
<1>2. PICK read : read = reads[c][k]
  OBVIOUS
<1>3. PICK cells : cells = table.cells[read.column]
  OBVIOUS
<1>4. PICK piece : piece = PieceRows(Len(read.rows), p)
  OBVIOUS
<1>5. PICK left : left = read.left \ {p}
  OBVIOUS
<1>6. PICK rows : rows = [r \in DOMAIN read.rows |->
                            IF r \in piece \cap DOMAIN cells THEN cells[r] ELSE read.rows[r]]
  OBVIOUS
<1>7. PICK failed : failed = (read.failed \/ \E r \in piece : r \notin DOMAIN cells \/ cells[r] = Undefined)
  OBVIOUS
<1>8. PICK new : new = [read EXCEPT !.left = left, !.rows = rows, !.failed = failed]
  OBVIOUS
<1>9. k \in Nat \ {0} /\ read \in ReadStates /\ p \in Nat
  BY <1>1, <1>2, ColumnNumbers DEF ReadStates
<1>10. /\ Runs(i, c, k, p) /\ Dequeue(i)
       /\ UNCHANGED <<nInstances, table, setting, call, answer, pc, listed, seen, slot>>
  BY DEF RunPiece
<1>11. reads' = [reads EXCEPT ![c] = [reads[c] EXCEPT ![k] = new]]
  BY <1>1, <1>2, <1>3, <1>4, <1>5, <1>6, <1>7, <1>8, <1>9 DEF RunPiece, TypeInv, ReadStates
<1>12. /\ Pending(c, k, p) /\ queue' \in [Instances -> Seq(Tasks)] /\ Distinct'
       /\ \A d, l, q : Pending(d, l, q)' <=> Pending(d, l, q) /\ ~ (d = c /\ l = k /\ q = p)
  BY <1>1, <1>9, <1>10, Dequeued
<1>13. Active(c, k) /\ read.rows # <<>> /\ Spread(read)
  BY <1>1, <1>2 DEF ClientInv, ColumnsInv, ReadInv
<1>14. rows \in Seq(Int)
  <2>1. cells \in Seq(Int)
    BY <1>3, <1>13, ReadableCells DEF Spread
  <2> QED
    BY <1>6, <1>9, <2>1 DEF ReadStates
<1>15. /\ new \in ReadStates /\ new.column = read.column /\ new.rows = rows
       /\ new.left = left /\ new.next = read.next /\ new.failed = failed
  <2>1. left \in SUBSET Nat /\ failed \in BOOLEAN
    BY <1>5, <1>7, <1>9 DEF ReadStates
  <2> QED
    BY <1>8, <1>9, <1>14, <2>1 DEF ReadStates
<1>16. Spread(new) /\ new.rows # <<>>
  <2>1. p \in read.left /\ new.left = read.left \ {p} /\ DOMAIN new.rows = DOMAIN read.rows
    BY <1>2, <1>5, <1>6, <1>15
  <2>2. /\ \A r \in DOMAIN read.rows : r \in piece \cap DOMAIN cells => new.rows[r] = cells[r]
        /\ \A r \in DOMAIN read.rows : r \notin piece \cap DOMAIN cells => new.rows[r] = read.rows[r]
    BY <1>6, <1>15
  <2>3. (\A r \in piece : r \in DOMAIN cells /\ cells[r] # Undefined) => new.failed = read.failed
    BY <1>7, <1>9, <1>15 DEF ReadStates
  <2>4. Spread(read) /\ new.column = read.column /\ read \in ReadStates /\ new \in ReadStates
    BY <1>9, <1>13, <1>15
  <2> QED
    BY <1>3, <1>4, <2>1, <2>2, <2>3, <2>4, PieceRead
<1>17. \A q \in Nat : Pending(c, k, q)' => q # 0 /\ q \in new.left /\ q < new.next
  <2>1. \A q \in Nat : Pending(c, k, q) => q # 0 /\ q \in read.left /\ q < read.next
    BY <1>1, <1>2, <1>9, <1>13 DEF ClientInv, TaskInv
  <2> QED
    BY <1>5, <1>12, <1>15, <2>1
<1>18. \A d, l, q : Pending(d, l, q)' => Pending(d, l, q) \/ (d = c /\ l = k)
  BY <1>12
<1> QED
  BY <1>2, <1>10, <1>11, <1>12, <1>13, <1>15, <1>16, <1>17, <1>18, PieceStep

\* All pieces of a column are read
LEMMA FanInStep ==
  ASSUME TableInv, NEW c \in Clients, NEW k \in DOMAIN reads[c], FanIn(c, k)
  PROVE  TableInv'
<1>1. TypeInv /\ Distinct /\ ClientInv(c)
  BY DEF TableInv
<1>2. k \in Nat \ {0} /\ reads[c][k] \in ReadStates
  BY <1>1, ColumnNumbers
<1>3. PICK new : new = NewRead(reads[c][k].column)
  OBVIOUS
<1>4. /\ reads[c][k].rows # <<>> /\ reads[c][k].left = {}
      /\ reads' = [reads EXCEPT ![c][k] = new]
      /\ UNCHANGED <<nInstances, table, setting, call, listed, slot, queue>>
  BY <1>3 DEF FanIn
<1>5. PICK valid \in FoundValid(strategy, setting) :
        Deliver(c, k, IF valid /\ ~ reads[c][k].failed THEN Ok(reads[c][k].rows) ELSE Failed)
  BY DEF FanIn
<1>6. PICK result : /\ result = IF valid /\ ~ reads[c][k].failed THEN Ok(reads[c][k].rows) ELSE Failed
                    /\ Deliver(c, k, result)
  BY <1>5
<1>7. result # NoAnswer
  BY <1>6, Answers
<1>8. /\ new \in ReadStates /\ new.column = reads[c][k].column /\ new.rows = <<>>
      /\ new.left = {} /\ ~ new.failed
  BY <1>2, <1>3, NewReads DEF ReadStates
<1>9. reads' = [reads EXCEPT ![c] = [reads[c] EXCEPT ![k] = new]]
  BY <1>1, <1>4 DEF TypeInv
<1>10. Active(c, k)
  BY <1>1, <1>4 DEF ClientInv, ColumnsInv, ReadInv
<1>11. /\ queue' \in [Instances -> Seq(Tasks)] /\ Distinct'
       /\ \A d, l, q : Pending(d, l, q)' <=> Pending(d, l, q)
  BY <1>1, <1>4, SameQueue DEF TypeInv
<1>12. \A q \in Nat : ~ Pending(c, k, q)
  BY <1>1, <1>2, <1>4 DEF ClientInv, TaskInv
<1> QED
  BY <1>4, <1>6, <1>7, <1>8, <1>9, <1>10, <1>11, <1>12, DeliverStep

\* ToArrow() has all its columns: nothing is pending or being read
LEMMA AssembleStep ==
  ASSUME TableInv, NEW c \in Clients, Assemble(c) PROVE TableInv'
<1>1. TypeInv /\ ClientInv(c)
  BY DEF TableInv
<1>2. /\ pc[c] = "wait" /\ listed[c] # <<>>
      /\ \A k \in DOMAIN seen[c] : seen[c][k] # NoAnswer
      /\ UNCHANGED <<nInstances, table, setting, call, listed, seen, reads, slot, queue>>
  BY DEF Assemble
<1>3. PICK result : result # NoAnswer /\ Answer(c, result)
  BY Answers DEF Assemble
<1>4. call[c] \notin Reads
  BY <1>1, <1>2 DEF ClientInv, CallInv
<1>5. ASSUME NEW k \in DOMAIN reads[c] PROVE ~ Active(c, k)
  <2>1. k \in DOMAIN seen[c]
    BY <1>1, <1>4, <1>5, ColumnNumbers DEF ClientInv, ColumnsInv, TypeInv
  <2> QED
    BY <1>2, <1>4, <2>1 DEF Active
<1>6. \A k \in DOMAIN reads[c] : reads[c][k].rows = <<>>
  BY <1>1, <1>5 DEF ClientInv, ColumnsInv, ReadInv
<1>7. ColumnsInv(c)'
  BY <1>1, <1>2, <1>6, ColumnsKept DEF ClientInv
<1>8. \A k, p \in Nat : ~ Pending(c, k, p)
  BY <1>1, <1>2, <1>5 DEF ClientInv, TaskInv
<1>9. \A k, p \in Nat : ~ Pending(c, k, p)'
  BY <1>2, <1>8, SameQueue
<1>10. TypeInv'
  BY <1>1, <1>2, <1>3, SameQueue DEF TypeInv, PCs, Answer
<1>11. Unwritten /\ \A d \in Clients \ {c} : Alike(d)
  BY <1>1, <1>2, <1>3, SameQueue DEF Unwritten, Alike, TypeInv, Answer
<1>12. ClientInv(c)'
  BY <1>1, <1>2, <1>3, <1>7, <1>9, <1>11, Answered DEF ClientInv
<1> QED
  BY <1>2, <1>10, <1>11, <1>12, StepOf, SameQueue

-----------------------------------------------------------------------------
(* All steps *)

\* The invariant holds initially
LEMMA TableInit == Init => TableInv
<1> SUFFICES ASSUME Init PROVE TableInv
  OBVIOUS
<1>1. TypeInv
  <2>1. nInstances \in Nat \ {0}
    BY TableAssumption DEF Init, TableAssumption
  <2>2. <<>> \in Seq(ReadStates) /\ <<>> \in Seq({"FIXED", "VARIABLE"}) /\ <<>> \in Seq(Tasks)
    OBVIOUS
  <2> QED
    BY <2>1, <2>2 DEF Init, TypeInv, PCs
<1>2. WellFormed(table)
  BY TableAssumption DEF Init, TableAssumption
<1>3. \A i \in Instances : DOMAIN queue[i] = {}
  BY DEF Init
<1>4. Distinct /\ \A c, k, p : ~ Pending(c, k, p)
  BY <1>3 DEF Distinct, Pending
<1>5. NoCall \notin Statements /\ NoCall \notin Reads
  BY DEF NoCall, Statements, Reads
<1>6. ASSUME NEW c \in Clients PROVE ClientInv(c)
  <2>1. /\ pc[c] = "idle" /\ call[c] = NoCall /\ answer[c] = NoAnswer /\ listed[c] = <<>>
        /\ reads[c] = <<>> /\ slot[c] = 1
    BY DEF Init
  <2>2. CallInv(c)
    BY <1>5, <2>1 DEF CallInv
  <2>3. ColumnsInv(c)
    BY <2>1 DEF ColumnsInv
  <2> QED
    BY <1>4, <2>2, <2>3 DEF ClientInv
<1> QED
  BY <1>1, <1>2, <1>4, <1>6 DEF TableInv

\* Nothing happens
LEMMA TableStutter ==
  ASSUME TableInv, UNCHANGED vars PROVE TableInv'
<1>1. UNCHANGED <<nInstances, table, setting, call, answer, pc, listed, seen, reads, slot, queue>>
  BY DEF vars, clientVars
<1>2. Distinct' /\ Unwritten /\ \A d \in Clients : Alike(d)
  BY <1>1, SameQueue DEF Unwritten, Alike
<1>3. \A d \in Clients : ClientInv(d)'
  BY <1>2, Others DEF TableInv
<1>4. TypeInv'
  BY <1>1, SameQueue DEF TableInv, TypeInv
<1> QED
  BY <1>1, <1>2, <1>3, <1>4 DEF TableInv, WellFormed, NRows

\* The steps of one task
LEMMA TaskSteps ==
  ASSUME TableInv, NEW i \in Instances, RunTask(i) PROVE TableInv'
<1>1. PICK c \in Clients :
        \/ RunQuery(i, c) \/ RunWrite(i, c) \/ RunStatement(i, c) \/ RunList(i, c)
        \/ \E k \in DOMAIN reads[c] :
             \/ RunRead(i, c, k) \/ RunPartition(i, c, k)
             \/ \E p \in reads[c][k].left : RunPiece(i, c, k, p)
  BY DEF RunTask
<1>2. CASE RunQuery(i, c) \/ RunWrite(i, c) \/ RunStatement(i, c) \/ RunList(i, c)
  BY <1>2, CallTaskSteps
<1>3. ASSUME NEW k \in DOMAIN reads[c],
             \/ RunRead(i, c, k) \/ RunPartition(i, c, k)
             \/ \E p \in reads[c][k].left : RunPiece(i, c, k, p)
      PROVE  TableInv'
  BY <1>3, RunReadStep, RunPartitionStep, RunPieceStep
<1> QED
  BY <1>1, <1>2, <1>3

\* Every step keeps the invariant, if UPDATE and DELETE get tables of one instance only
LEMMA TableStep ==
  ASSUME TableInv, TaqlWriters \subseteq {1}, [Next]_vars PROVE TableInv'
<1>1. ASSUME NEW c \in Clients, ClientStep(c) PROVE TableInv'
  BY <1>1, TasklessSteps, SubmitStep, SpawnStep DEF ClientStep
<1>2. ASSUME NEW c \in Clients, Callback(c) PROVE TableInv'
  BY <1>2, SubmitColumnStep, AssembleStep, SubmitPieceStep, FanInStep DEF Callback
<1> QED
  BY <1>1, <1>2, CallStep, TaskSteps, TableStutter DEF Next

\* Tasks are where calls expect them, and columns being read by several instances are
\* of a table that stays as it is: for any number of clients, instances, rows and calls
THEOREM TableInvariance ==
  ASSUME TaqlWriters \subseteq {1} PROVE Spec => []TableInv
<1>1. TableInv /\ [Next]_vars => TableInv'
  BY TableStep
<1> QED
  BY <1>1, TableInit, PTL DEF Spec

\* A table of several instances is left alone by every step
LEMMA LeftAlone ==
  ASSUME TableInv, [Next]_vars PROVE Unwritten
<1>1. ASSUME NEW c \in Clients, Call(c) \/ ClientStep(c) \/ Callback(c)
      PROVE  nInstances' = nInstances /\ table' = table
  BY <1>1 DEF Call, ClientStep, Refuse, QueryNoTable, Submit, SpawnNext, BeginSet, EndSet, Return,
              Callback, SubmitColumn, Assemble, SubmitPiece, FanIn
<1>2. ASSUME NEW i \in Instances, RunTask(i) PROVE Unwritten
  <2>1. PICK c \in Clients :
          \/ RunQuery(i, c) \/ RunWrite(i, c) \/ RunStatement(i, c) \/ RunList(i, c)
          \/ \E k \in DOMAIN reads[c] :
               \/ RunRead(i, c, k) \/ RunPartition(i, c, k)
               \/ \E p \in reads[c][k].left : RunPiece(i, c, k, p)
    BY <1>2 DEF RunTask
  <2>2. CASE RunWrite(i, c)
    <3>1. Runs(i, c, 0, 0) /\ Dequeue(i) /\ call[c] \in Writes /\ nInstances' = nInstances
      BY <2>2 DEF RunWrite
    <3>2. nInstances = 1
      BY <3>1, RanCall, OnlyTask
    <3> QED
      BY <3>1, <3>2 DEF Unwritten
  <2>3. CASE RunStatement(i, c)
    BY <2>3, StatementFacts
  <2>4. CASE ~ (RunWrite(i, c) \/ RunStatement(i, c))
    BY <2>1, <2>4 DEF RunQuery, RunList, RunRead, RunPartition, RunPiece, Unwritten
  <2> QED
    BY <2>2, <2>3, <2>4
<1>3. CASE UNCHANGED vars
  BY <1>3 DEF vars, Unwritten
<1> QED
  BY <1>1, <1>2, <1>3 DEF Next, Unwritten

\* A table of several instances doesn't change, unless TaQL writes to it: writes are
\* refused by SafeMultithreadedWrites(), and none that was let through is still pending
THEOREM WritesRefused ==
  ASSUME TaqlWriters \subseteq {1} PROVE Spec => WritesNeedOneInstance
<1>1. TableInv /\ [Next]_vars => [nInstances > 1 => table' = table]_vars
  BY LeftAlone DEF Unwritten
<1> QED
  BY <1>1, TableInvariance, PTL DEF Spec, WritesNeedOneInstance

-----------------------------------------------------------------------------
(* Calls take effect at once *)

\* AtomicTable is about the same calls, and the same functors
LEMMA SameCalls ==
  /\ Promise!Queries = Queries /\ Promise!Reads = Reads /\ Promise!Conversions = Conversions
  /\ Promise!Writes = Writes /\ Promise!Statements = Statements /\ Promise!Settings = Settings
  /\ Promise!Calls = Calls /\ Promise!NoCall = NoCall
  /\ Promise!NoAnswer = NoAnswer /\ Promise!Failed = Failed /\ \A v : Promise!Ok(v) = Ok(v)
  BY DEF Promise!Queries, Queries, Promise!Reads, Reads, Promise!Conversions, Conversions,
         Promise!Writes, Writes, Promise!Statements, Statements, Promise!Settings, Settings,
         Promise!Strategies, Strategies, Promise!TableColumns, TableColumns, Promise!Range, Range,
         Promise!Calls, Calls, Promise!NoCall, NoCall, Promise!NoAnswer, NoAnswer,
         Promise!Failed, Failed, Promise!Ok, Ok

\* Tables
LEMMA SameTables ==
  ASSUME NEW t
  PROVE  /\ Promise!NRows(t) = NRows(t) /\ Promise!ColumnNames(t) = ColumnNames(t)
         /\ Promise!CanReopen(t) = CanReopen(t) /\ Promise!Reopened(t) = Reopened(t)
         /\ \A column : /\ Promise!ColumnExists(t, column) = ColumnExists(t, column)
                        /\ Promise!Readable(t, column) = Readable(t, column)
                        /\ Promise!Known(t, column) = Known(t, column)
                        /\ Promise!RowShapes(t, column) = RowShapes(t, column)
  BY DEF Promise!NRows, NRows, Promise!ColumnNames, ColumnNames, Promise!TableColumns, TableColumns,
         Promise!CanReopen, CanReopen, Promise!Reopened, Reopened, Promise!ColumnExists, ColumnExists,
         Promise!Readable, Readable, Promise!Known, Known, Promise!RowShapes, RowShapes,
         Promise!Undefined, Undefined, Promise!Range, Range

\* Functors
LEMMA SameFunctors ==
  ASSUME NEW t, NEW made
  PROVE  /\ Promise!Query(t, made) = Query(t, made)
         /\ Promise!Write(t, made) = Write(t, made)
         /\ Promise!Taql(t, made) = Taql(t, made)
         /\ Promise!Listed(t, made) = Listed(t, made)
         /\ Promise!Refusable(made) = Refusable(made)
<1>1. Promise!Query(t, made) = Query(t, made)
  BY DEF Promise!Query, Query, Promise!NRows, NRows, Promise!ColumnNames, ColumnNames,
         Promise!TableColumns, TableColumns, Promise!ColumnExists, ColumnExists,
         Promise!Known, Known, Promise!RowShapes, RowShapes, Promise!Undefined, Undefined,
         Promise!Ok, Ok, Promise!Failed, Failed
<1>2. Promise!Write(t, made) = Write(t, made)
  BY DEF Promise!Write, Write, Promise!Possible, Possible, Promise!Written, Written,
         Promise!NRows, NRows, Promise!ColumnExists, ColumnExists, Promise!Known, Known,
         Promise!CanReopen, CanReopen, Promise!Reopened, Reopened, Promise!Default, Default,
         Promise!Range, Range, Promise!TableColumns, TableColumns,
         Promise!Undefined, Undefined, Promise!Ok, Ok, Promise!Failed, Failed
<1>3. Promise!Taql(t, made) = Taql(t, made)
  BY DEF Promise!Taql, Taql, Promise!CanReopen, CanReopen, Promise!Reopened, Reopened,
         Promise!Front, Front, Promise!Ok, Ok, Promise!Failed, Failed
<1>4. Promise!Listed(t, made) = Listed(t, made)
  BY SameTables DEF Promise!Listed, Listed
<1>5. Promise!Refusable(made) = Refusable(made)
  BY SameCalls DEF Promise!Refusable, Refusable
<1> QED
  BY <1>1, <1>2, <1>3, <1>4, <1>5

\* What a read may answer, and the table made of the columns read
LEMMA SameArrays ==
  /\ \A t, column, how, setters : Promise!Arrays(t, column, how, setters) = Arrays(t, column, how, setters)
  /\ \A columns, read : Promise!ArrowTable(columns, read) = ArrowTable(columns, read)
  BY SameTables, SameCalls
     DEF Promise!Arrays, Arrays, Promise!FoundValid, FoundValid, Promise!ArrowTable, ArrowTable,
         Promise!Failed, Failed

\* A step that the promise doesn't tell from none
LEMMA Unseen ==
  ASSUME UNCHANGED <<table, strategy, setting, call, listed, seen, answer>>
  PROVE  [Promise!Next]_(Promise!vars)
  BY DEF Promise!vars

\* Calls, and steps of a client without a task
LEMMA PromisedCalls ==
  ASSUME TableInv, NEW c \in Clients, Call(c) \/ ClientStep(c)
  PROVE  [Promise!Next]_(Promise!vars)
<1>1. TypeInv /\ CallInv(c)
  BY DEF TableInv, ClientInv
<1>2. CASE Call(c)
  <2>1. PICK made \in CallsMade[c] : call' = [call EXCEPT ![c] = made]
    BY <1>2 DEF Call
  <2>2. made \in Calls
    BY TableAssumption DEF TableAssumption
  <2>3. call[c] = NoCall /\ UNCHANGED <<table, strategy, setting, listed, seen, answer>>
    BY <1>1, <1>2 DEF Call, CallInv
  <2>4. Promise!Call(c)
    BY <2>1, <2>2, <2>3, SameCalls DEF Promise!Call
  <2> QED
    BY <2>4 DEF Promise!Next
<1>3. ASSUME pc[c] \in {"enter", "set"} PROVE answer[c] = NoAnswer /\ call[c] \in Calls
  BY <1>1, <1>3 DEF CallInv
<1>4. CASE Refuse(c)
  <2>1. Refusable(call[c])
    BY <1>4 DEF Refuse, Refused, Refusable
  <2>2. answer[c] = NoAnswer
    BY <1>3, <1>4 DEF Refuse
  <2>3. Promise!Refuse(c)
    BY <1>4, <2>1, <2>2, SameCalls, SameFunctors DEF Refuse, Promise!Refuse, Answer
  <2> QED
    BY <2>3 DEF Promise!Next
<1>5. CASE QueryNoTable(c)
  <2>1. /\ call[c].op = "Taql" /\ call[c].tables = 0 /\ answer[c] = NoAnswer /\ call[c] \in Calls
        /\ UNCHANGED <<table, strategy, setting, call, listed, seen>>
    BY <1>3, <1>5 DEF QueryNoTable
  <2>2. PICK result \in {Ok(TRUE), Failed} : answer' = [answer EXCEPT ![c] = result]
    BY <1>5 DEF QueryNoTable, Answer
  <2>3. call[c] \in Statements /\ call[c].does = "SELECT"
    BY <2>1, Kinds
  <2>4. CASE result = Ok(TRUE)
    <3>1. Taql(table, call[c]).table = table /\ Taql(table, call[c]).answer = Ok(TRUE)
      BY <2>3, StatementAnswers
    <3>2. Promise!TakeEffect(c)
      BY <2>1, <2>2, <2>3, <2>4, <3>1, SameCalls, SameFunctors DEF Promise!TakeEffect
    <3> QED
      BY <3>2 DEF Promise!Next
  <2>5. CASE result = Failed
    <3>1. Refusable(call[c])
      BY <2>1 DEF Refusable
    <3>2. Promise!Refuse(c)
      BY <2>1, <2>2, <2>5, <3>1, SameCalls, SameFunctors DEF Promise!Refuse
    <3> QED
      BY <3>2 DEF Promise!Next
  <2> QED
    BY <2>4, <2>5
<1>6. CASE Submit(c) \/ SpawnNext(c)
  BY <1>6, Unseen DEF Submit, SpawnNext
<1>7. CASE BeginSet(c)
  <2>1. Promise!BeginSet(c)
    BY <1>3, <1>7, SameCalls DEF BeginSet, Promise!BeginSet
  <2> QED
    BY <2>1 DEF Promise!Next
<1>8. CASE EndSet(c)
  <2>1. c \in setting
    BY <1>1, <1>8 DEF EndSet, CallInv
  <2>2. Promise!EndSet(c)
    BY <1>8, <2>1, SameCalls DEF EndSet, Promise!EndSet, Answer
  <2> QED
    BY <2>2 DEF Promise!Next
<1>9. CASE Return(c)
  <2>1. answer[c] # NoAnswer
    BY <1>1, <1>9 DEF Return, CallInv
  <2>2. Promise!Return(c)
    BY <1>9, <2>1, SameCalls DEF Return, Promise!Return
  <2> QED
    BY <2>2 DEF Promise!Next
<1> QED
  BY <1>2, <1>4, <1>5, <1>6, <1>7, <1>8, <1>9 DEF ClientStep

\* The task of a call takes effect, on the last instance if there are several
LEMMA PromisedTasks ==
  ASSUME TableInv, NEW i \in Instances, NEW c \in Clients,
         RunQuery(i, c) \/ RunWrite(i, c) \/ RunStatement(i, c) \/ RunList(i, c)
  PROVE  [Promise!Next]_(Promise!vars)
<1>1. Runs(i, c, 0, 0) /\ Dequeue(i) /\ UNCHANGED <<nInstances, strategy, setting, call>>
  BY DEF RunQuery, RunWrite, RunStatement, RunList
<1>2. answer[c] = NoAnswer /\ listed[c] = <<>>
  BY <1>1, RanCall, OnlyTask
<1>3. CASE RunQuery(i, c)
  <2>1. Promise!TakeEffect(c)
    BY <1>2, <1>3, SameCalls, SameFunctors DEF RunQuery, Answer, Promise!TakeEffect
  <2> QED
    BY <2>1 DEF Promise!Next
<1>4. CASE RunWrite(i, c)
  <2>1. Promise!TakeEffect(c)
    BY <1>2, <1>4, SameCalls, SameFunctors DEF RunWrite, Answer, Promise!TakeEffect
  <2> QED
    BY <2>1 DEF Promise!Next
<1>5. CASE RunStatement(i, c)
  <2>1. /\ call[c] \in Statements /\ table' = Taql(table, call[c]).table
        /\ UNCHANGED <<strategy, setting, call, listed, seen>>
    BY <1>5 DEF RunStatement
  <2>2. CASE Taql(table, call[c]).answer = Failed \/ slot[c] = nInstances
    <3>1. answer' = [answer EXCEPT ![c] = Taql(table, call[c]).answer]
      BY <1>5, <2>2 DEF RunStatement, Answer
    <3>2. Promise!TakeEffect(c)
      BY <1>2, <2>1, <3>1, SameCalls, SameFunctors DEF Promise!TakeEffect
    <3> QED
      BY <3>2 DEF Promise!Next
  <2>3. CASE ~ (Taql(table, call[c]).answer = Failed \/ slot[c] = nInstances)
    <3>1. answer' = answer
      BY <1>5, <2>3 DEF RunStatement
    <3>2. nInstances > 1 => call[c].does = "SELECT"
      BY <1>5, StatementFacts
    <3>3. slot[c] \in 1..nInstances /\ nInstances \in Nat
      BY <1>5, StatementFacts DEF TableInv, TypeInv
    <3>4. call[c].does = "SELECT"
      BY <2>3, <3>2, <3>3
    <3>5. table' = table
      BY <2>1, <3>4, StatementAnswers
    <3> QED
      BY <2>1, <3>1, <3>5, Unseen
  <2> QED
    BY <2>2, <2>3
<1>6. CASE RunList(i, c)
  <2>1. PICK columns : columns = Listed(table, call[c])
    OBVIOUS
  <2>2. /\ call[c] \in Conversions /\ UNCHANGED <<table, strategy, setting, call>>
        /\ IF \A k \in DOMAIN columns : ColumnExists(table, columns[k])
           THEN /\ listed' = [listed EXCEPT ![c] = columns]
                /\ seen' = [seen EXCEPT ![c] = [k \in DOMAIN columns |-> NoAnswer]]
                /\ UNCHANGED answer
           ELSE answer' = [answer EXCEPT ![c] = Failed] /\ UNCHANGED <<listed, seen>>
    BY <1>6, <2>1 DEF RunList, Answer
  <2>3. \A k : Promise!ColumnExists(table, columns[k]) = ColumnExists(table, columns[k])
    BY SameTables
  <2>4. Promise!List(c)
    BY <1>2, <2>1, <2>2, <2>3, SameCalls, SameFunctors DEF Promise!List
  <2> QED
    BY <2>4 DEF Promise!Next
<1> QED
  BY <1>3, <1>4, <1>5, <1>6

\* The read of a column takes effect when its result is delivered
LEMMA PromisedRead ==
  ASSUME TableInv, NEW c \in Clients, NEW k \in DOMAIN reads[c], Active(c, k),
         NEW array \in Arrays(table, reads[c][k].column, strategy, setting), Deliver(c, k, array),
         UNCHANGED <<table, strategy, setting, call, listed>>
  PROVE  [Promise!Next]_(Promise!vars)
<1>1. TypeInv /\ CallInv(c) /\ ColumnsInv(c)
  BY DEF TableInv, ClientInv
<1>2. k \in Nat \ {0} /\ k <= Len(reads[c]) /\ Len(reads[c]) \in Nat /\ reads[c] # <<>>
  BY <1>1, ColumnNumbers
<1>3. CASE call[c] \in Reads
  <2>1. answer' = [answer EXCEPT ![c] = array] /\ seen' = seen
    BY <1>3 DEF Deliver, Answer
  <2>2. reads[c][k].column = call[c].column
    BY <1>1, <1>2, <1>3 DEF ColumnsInv
  <2>3. answer[c] = NoAnswer
    BY <1>1 DEF CallInv, Active
  <2>4. array \in Promise!Arrays(table, call[c].column, strategy, setting)
    BY <2>2, SameArrays
  <2>5. Promise!TakeEffect(c)
    BY <1>3, <2>1, <2>3, <2>4, SameCalls DEF Promise!TakeEffect
  <2> QED
    BY <2>5 DEF Promise!Next
<1>4. CASE call[c] \notin Reads
  <2>1. seen' = [seen EXCEPT ![c][k] = array] /\ answer' = answer
    BY <1>4 DEF Deliver
  <2>2. reads[c][k].column = listed[c][k] /\ k \in DOMAIN seen[c]
    BY <1>1, <1>2, <1>4 DEF ColumnsInv, TypeInv
  <2>3. seen[c][k] = NoAnswer
    BY <1>4 DEF Active
  <2>4. array \in Promise!Arrays(table, listed[c][k], strategy, setting)
    BY <2>2, SameArrays
  <2>5. Promise!ReadColumn(c, k)
    BY <2>1, <2>3, <2>4, SameCalls DEF Promise!ReadColumn
  <2> QED
    BY <2>2, <2>5 DEF Promise!Next
<1> QED
  BY <1>3, <1>4

\* The pieces read by several instances make up the column as it is at the end
LEMMA PiecesMakeUpColumn ==
  ASSUME TableInv, NEW read \in ReadStates, Spread(read), read.left = {}
  PROVE  read.rows = table.cells[read.column]
<1>1. PICK n : n = NRows(table)
  OBVIOUS
<1>2. PICK cells : cells = table.cells[read.column]
  OBVIOUS
<1>3. /\ nInstances > 1 /\ Readable(table, read.column) /\ n > 1 /\ Len(read.rows) = n
      /\ \A p \in 1..NPieces(n) : \A r \in PieceRows(n, p) : read.rows[r] = cells[r]
  BY <1>1, <1>2 DEF Spread
<1>4. cells \in Seq(Int) /\ Len(cells) = n /\ n \in Nat
  BY <1>1, <1>2, <1>3, ReadableCells
<1>5. n \in Nat \ {0} /\ nInstances \in Nat \ {0}
  BY <1>3, <1>4 DEF TableInv, TypeInv
<1>6. \A r \in 1..n : read.rows[r] = cells[r]
  BY <1>3, <1>5, Pieces
<1>7. read.rows \in Seq(Int)
  BY DEF ReadStates
<1>8. read.rows = cells
  BY <1>3, <1>4, <1>6, <1>7
<1> QED
  BY <1>2, <1>8

\* Tasks and callbacks that read columns
LEMMA PromisedColumns ==
  ASSUME TableInv, NEW c \in Clients, NEW k \in DOMAIN reads[c],
         \/ FanIn(c, k) \/ SubmitPiece(c, k)
         \/ \E i \in Instances :
              \/ RunRead(i, c, k) \/ RunPartition(i, c, k)
              \/ \E p \in reads[c][k].left : RunPiece(i, c, k, p)
  PROVE  [Promise!Next]_(Promise!vars)
<1>1. TypeInv /\ Distinct /\ ColumnsInv(c) /\ 0 \in Nat
  BY DEF TableInv, ClientInv
<1>2. k \in Nat \ {0} /\ reads[c][k] \in ReadStates
  BY <1>1, ColumnNumbers
<1>3. ASSUME NEW i \in Instances, RunRead(i, c, k) PROVE [Promise!Next]_(Promise!vars)
  <2>1. /\ Runs(i, c, k, 0) /\ Dequeue(i) /\ nInstances' = nInstances
        /\ UNCHANGED <<table, strategy, setting, call, listed>>
    BY <1>3 DEF RunRead
  <2>2. Pending(c, k, 0)
    BY <1>1, <1>2, <2>1, Dequeued
  <2>3. Active(c, k)
    BY <1>1, <2>2, ColumnTasks
  <2>4. PICK array \in Arrays(table, reads[c][k].column, strategy, setting) : Deliver(c, k, array)
    BY <1>3 DEF RunRead
  <2> QED
    BY <2>1, <2>3, <2>4, PromisedRead
<1>4. CASE FanIn(c, k)
  <2>1. /\ reads[c][k].rows # <<>> /\ reads[c][k].left = {}
        /\ UNCHANGED <<table, strategy, setting, call, listed>>
    BY <1>4 DEF FanIn
  <2>2. Active(c, k) /\ Spread(reads[c][k])
    BY <1>1, <2>1 DEF ColumnsInv, ReadInv
  <2>3. /\ reads[c][k].rows = table.cells[reads[c][k].column]
        /\ ~ reads[c][k].failed /\ Readable(table, reads[c][k].column)
    BY <1>2, <2>1, <2>2, PiecesMakeUpColumn DEF Spread
  <2>4. PICK valid \in FoundValid(strategy, setting) :
          Deliver(c, k, IF valid /\ ~ reads[c][k].failed THEN Ok(reads[c][k].rows) ELSE Failed)
    BY <1>4 DEF FanIn
  <2>5. PICK array : /\ array = IF valid THEN Ok(table.cells[reads[c][k].column]) ELSE Failed
                     /\ Deliver(c, k, array)
    BY <2>3, <2>4
  <2>6. array \in Arrays(table, reads[c][k].column, strategy, setting)
    BY <2>3, <2>5 DEF Arrays
  <2> QED
    BY <2>1, <2>2, <2>5, <2>6, PromisedRead
<1> QED
  BY <1>3, <1>4, Unseen DEF SubmitPiece, RunPartition, RunPiece

\* ToArrow()'s callbacks
LEMMA PromisedCallbacks ==
  ASSUME TableInv, NEW c \in Clients, Callback(c) PROVE [Promise!Next]_(Promise!vars)
<1>1. CASE SubmitColumn(c)
  BY <1>1, Unseen DEF SubmitColumn
<1>2. CASE Assemble(c)
  <2>1. answer[c] = NoAnswer
    BY <1>2 DEF Assemble, TableInv, ClientInv, CallInv
  <2>2. Promise!Assemble(c)
    BY <1>2, <2>1, SameCalls, SameArrays DEF Assemble, Answer, Promise!Assemble
  <2> QED
    BY <2>2 DEF Promise!Next
<1> QED
  BY <1>1, <1>2, PromisedColumns DEF Callback

\* TableOps implements AtomicTable, for any number of clients, instances, rows and
\* calls: spread over the instances or not, every call of NewTableProxy sees, and
\* leaves, the table as if it ran alone at some moment before it returns, and ToArrow()
\* each of its columns, if UPDATE and DELETE get tables of one instance only
THEOREM TakeEffectAtOnce ==
  ASSUME TaqlWriters \subseteq {1} PROVE Spec => TakesEffectAtOnce
<1>1. Init => Promise!Init
  BY SameCalls DEF Init, Promise!Init
<1>2. ASSUME TableInv, [Next]_vars PROVE [Promise!Next]_(Promise!vars)
  <2>1. ASSUME NEW i \in Instances, RunTask(i) PROVE [Promise!Next]_(Promise!vars)
    <3>1. PICK c \in Clients :
            \/ RunQuery(i, c) \/ RunWrite(i, c) \/ RunStatement(i, c) \/ RunList(i, c)
            \/ \E k \in DOMAIN reads[c] :
                 \/ RunRead(i, c, k) \/ RunPartition(i, c, k)
                 \/ \E p \in reads[c][k].left : RunPiece(i, c, k, p)
      BY <2>1 DEF RunTask
    <3> QED
      BY <1>2, <3>1, PromisedTasks, PromisedColumns
  <2>2. CASE UNCHANGED vars
    BY <2>2, Unseen DEF vars, clientVars
  <2> QED
    BY <1>2, <2>1, <2>2, PromisedCalls, PromisedCallbacks DEF Next
<1>3. TableInv /\ [Next]_vars => [Promise!Next]_(Promise!vars)
  BY <1>2
<1> QED
  BY <1>1, <1>3, TableInvariance, PTL DEF Spec, TakesEffectAtOnce, Promise!Spec

-----------------------------------------------------------------------------
(***************************************************************************)
(* ToArrow() of a table that others write to: with one instance, the tasks *)
(* reading its columns run in the order of the columns, so that rows added *)
(* meanwhile are in the later ones; with several, the table doesn't change. *)
(***************************************************************************)

\* What writes keep of WellFormed: all columns have the same number of rows
Rectangular(t) ==
  /\ {"cells", "keywords", "writable", "permitted"} = DOMAIN t
  /\ "FIXED" \in DOMAIN t.cells
  /\ \A column \in DOMAIN t.cells : t.cells[column] \in Seq(Int) /\ Len(t.cells[column]) = NRows(t)

\* The tasks of a client are in the one queue in the order of their columns
InOrder ==
  nInstances = 1 =>
    \A n, m \in DOMAIN queue[1] :
      n < m /\ queue[1][n].client = queue[1][m].client => queue[1][n].k < queue[1][m].k

ColumnAnswers == {NoAnswer, Failed} \cup {Ok(rows) : rows \in Seq(Int)}

\* Column k was read, and how many rows
IsRead(c, k) == seen[c][k].is = "ok"
RowsRead(c, k) == Len(seen[c][k].value)

\* The rows of the columns a client has read so far: later columns are to be read
\* after, and have no fewer rows
SeenInv(c) ==
  /\ \A k \in DOMAIN seen[c] : seen[c][k] \in ColumnAnswers
  /\ nInstances = 1 =>
       \A k \in DOMAIN seen[c] : \A l \in Nat :
         seen[c][k] # NoAnswer /\ Pending(c, l, 0) => k < l
  /\ c \notin shrunk =>
       /\ \A k \in DOMAIN seen[c] : IsRead(c, k) =>
            RowsRead(c, k) <= NRows(table) /\ (nInstances > 1 => RowsRead(c, k) = NRows(table))
       /\ \A k, l \in DOMAIN seen[c] :
            IsRead(c, k) /\ IsRead(c, l) /\ k <= l => RowsRead(c, k) <= RowsRead(c, l)

\* ToArrow() answers with the columns it has read
AnswerInv(c) ==
  /\ pc[c] = "set" => call[c] \in Settings
  /\ call[c] \in Conversions /\ answer[c].is = "ok" =>
       /\ answer[c] = Ok(ArrowTable(listed[c], seen[c]))
       /\ \A k \in DOMAIN seen[c] : seen[c][k] # NoAnswer

OrderInv ==
  /\ Rectangular(table)
  /\ InOrder
  /\ \A c \in Clients : SeenInv(c) /\ AnswerInv(c)

-----------------------------------------------------------------------------
(* The arrow table of the columns read *)

\* The fields of the first n columns, and of each number of columns before them
Fields(columns, read, f, n) ==
  f = [k \in 0..n |->
         IF k = 0 THEN <<>>
         ELSE IF read[k] = Failed THEN f[k - 1]
         ELSE Append(f[k - 1], [column |-> columns[k], read |-> read[k]])]

\* A set of numbers that has 0, and the successor of each number it has, has them all
LEMMA NumbersOfSet ==
  ASSUME NEW S, 0 \in S, \A n \in Nat : n \in S => n + 1 \in S
  PROVE  Nat \subseteq S
<1> DEFINE missing == Nat \ S
           less == {ss \in Nat \X Nat : ss[1] < ss[2]}
<1>1. SUFFICES ASSUME missing # {} PROVE FALSE
  OBVIOUS
<1>w. IsWellFoundedOn(less, Nat)
  BY NatLessThanWellFounded DEF OpToRel
<1>2. PICK n \in missing : \A m \in missing : ~ (<<m, n>> \in less)
  <2>1. missing \subseteq Nat
    OBVIOUS
  <2> HIDE DEF missing, less
  <2> QED
    BY <1>1, <1>w, <2>1, WFMin
<1>3. n - 1 \in missing
  BY <1>2
<1>4. <<n - 1, n>> \in less
  BY <1>3
<1> QED
  BY <1>2, <1>3, <1>4

\* There are such fields
LEMMA FieldsExist ==
  ASSUME NEW columns, NEW read, NEW n \in Nat PROVE \E f : Fields(columns, read, f, n)
<1> DEFINE S == {m \in Nat : \E f : Fields(columns, read, f, m)}
<1>1. 0 \in S
  <2>1. Fields(columns, read, [k \in 0..0 |-> <<>>], 0)
    BY DEF Fields
  <2> QED
    BY <2>1
<1>2. ASSUME NEW m \in Nat, m \in S PROVE m + 1 \in S
  <2>1. PICK f : Fields(columns, read, f, m)
    BY <1>2
  <2> DEFINE last == IF read[m + 1] = Failed THEN f[m]
                     ELSE Append(f[m], [column |-> columns[m + 1], read |-> read[m + 1]])
             g == [k \in 0..(m + 1) |-> IF k = m + 1 THEN last ELSE f[k]]
  <2>2. \A k \in 0..m : /\ k \in 0..(m + 1) /\ g[k] = f[k]
                        /\ k # 0 => k - 1 \in 0..m /\ g[k - 1] = f[k - 1]
    OBVIOUS
  <2>3. g[m + 1] = last /\ g[m] = f[m] /\ (m + 1) - 1 = m /\ m + 1 # 0
    OBVIOUS
  <2>4. \A k \in 0..m : f[k] = IF k = 0 THEN <<>>
                               ELSE IF read[k] = Failed THEN f[k - 1]
                               ELSE Append(f[k - 1], [column |-> columns[k], read |-> read[k]])
    BY <2>1 DEF Fields
  <2>5. \A k \in 0..(m + 1) : k \in 0..m \/ k = m + 1
    OBVIOUS
  <2>6. g = [k \in 0..(m + 1) |-> g[k]]
    OBVIOUS
  <2> HIDE DEF g
  <2>7. \A k \in 0..(m + 1) :
          g[k] = IF k = 0 THEN <<>>
                 ELSE IF read[k] = Failed THEN g[k - 1]
                 ELSE Append(g[k - 1], [column |-> columns[k], read |-> read[k]])
    <3>1. TAKE k \in 0..(m + 1)
    <3>2. CASE k \in 0..m
      BY <2>2, <2>4, <3>2
    <3>3. CASE k = m + 1
      BY <2>3, <3>3
    <3> QED
      BY <2>5, <3>2, <3>3
  <2>8. Fields(columns, read, g, m + 1)
    BY <2>6, <2>7 DEF Fields
  <2> QED
    BY <2>8
<1>3. Nat \subseteq S
  <2> HIDE DEF S
  <2> QED
    BY <1>1, <1>2, NumbersOfSet
<1> QED
  BY <1>3

\* In the table of the columns that could be read, the first comes before the others
LEMMA FieldsOfTable ==
  ASSUME NEW columns, Len(columns) \in Nat, NEW read,
         NEW i \in DOMAIN ArrowTable(columns, read)
  PROVE  \E j, l \in 1..Len(columns) :
           /\ j <= l /\ read[j] # Failed /\ read[l] # Failed
           /\ ArrowTable(columns, read)[1].read = read[j]
           /\ ArrowTable(columns, read)[i].read = read[l]
<1> DEFINE N == Len(columns)
           f == CHOOSE g : Fields(columns, read, g, N)
           Of == {[column |-> columns[k], read |-> read[k]] : k \in 1..N}
           Good(m) == /\ f[m] \in Seq(Of)
                      /\ \A a \in DOMAIN f[m] : \E j, l \in 1..m :
                           /\ j <= l /\ read[j] # Failed /\ read[l] # Failed
                           /\ f[m][1].read = read[j] /\ f[m][a].read = read[l]
           S == {m \in Nat : m <= N => Good(m)}
<1>1. Fields(columns, read, f, N)
  BY FieldsExist
<1>2. ArrowTable(columns, read) = f[N]
  BY DEF ArrowTable, Fields
<1>3. \A k \in 0..N : f[k] = IF k = 0 THEN <<>>
                             ELSE IF read[k] = Failed THEN f[k - 1]
                             ELSE Append(f[k - 1], [column |-> columns[k], read |-> read[k]])
  BY <1>1 DEF Fields
<1>4. N \in Nat
  OBVIOUS
<1> HIDE DEF f, N
<1>5. 0 \in S
  <2>1. f[0] = <<>>
    <3>1. 0 \in 0..N
      BY <1>4
    <3> QED
      BY <1>3, <3>1
  <2>2. <<>> \in Seq(Of) /\ \A a \in DOMAIN <<>> : FALSE
    <3> HIDE DEF Of
    <3> QED
      OBVIOUS
  <2>3. Good(0)
    BY <2>1, <2>2
  <2> QED
    BY <2>3
<1>6. ASSUME NEW m \in Nat, m \in S PROVE m + 1 \in S
  <2>1. SUFFICES ASSUME m + 1 <= N PROVE Good(m + 1)
    OBVIOUS
  <2>2. Good(m) /\ m + 1 \in 1..N /\ m + 1 \in 0..N /\ m + 1 # 0 /\ (m + 1) - 1 = m
    BY <1>4, <1>6, <2>1
  <2>3. CASE read[m + 1] = Failed
    <3>1. f[m + 1] = f[m]
      BY <1>3, <2>2, <2>3
    <3>2. 1..m \subseteq 1..(m + 1)
      OBVIOUS
    <3> QED
      BY <2>2, <3>1, <3>2
  <2>4. CASE read[m + 1] # Failed
    <3>1. PICK new : new = [column |-> columns[m + 1], read |-> read[m + 1]]
      OBVIOUS
    <3>2. new \in Of /\ new.read = read[m + 1]
      BY <2>2, <3>1
    <3>3. f[m + 1] = Append(f[m], new)
      BY <1>3, <2>2, <2>4, <3>1
    <3>4. f[m] \in Seq(Of)
      BY <2>2
    <3>5. /\ f[m + 1] \in Seq(Of)
          /\ \A a \in DOMAIN f[m] : f[m + 1][a] = f[m][a]
          /\ \A a \in DOMAIN f[m + 1] : a \in DOMAIN f[m] \/ (a = Len(f[m]) + 1 /\ f[m + 1][a] = new)
          /\ DOMAIN f[m] # {} => 1 \in DOMAIN f[m]
          /\ DOMAIN f[m] = {} => Len(f[m]) + 1 = 1
      <4> HIDE DEF Of
      <4> QED
        BY <3>2, <3>3, <3>4, AppendFacts
    <3>6. ASSUME NEW a \in DOMAIN f[m + 1]
          PROVE  \E j, l \in 1..(m + 1) :
                   /\ j <= l /\ read[j] # Failed /\ read[l] # Failed
                   /\ f[m + 1][1].read = read[j] /\ f[m + 1][a].read = read[l]
      <4>1. CASE a \in DOMAIN f[m]
        <5>1. f[m + 1][1] = f[m][1] /\ f[m + 1][a] = f[m][a]
          BY <3>5, <4>1
        <5>2. PICK j, l \in 1..m : /\ j <= l /\ read[j] # Failed /\ read[l] # Failed
                                   /\ f[m][1].read = read[j] /\ f[m][a].read = read[l]
          BY <2>2, <4>1
        <5> QED
          BY <5>1, <5>2
      <4>2. CASE a \notin DOMAIN f[m] /\ DOMAIN f[m] # {}
        <5>1. 1 \in DOMAIN f[m] /\ f[m + 1][1] = f[m][1] /\ f[m + 1][a] = new
          BY <3>5, <3>6, <4>2
        <5>2. PICK j \in 1..m : read[j] # Failed /\ f[m][1].read = read[j]
          BY <2>2, <5>1
        <5>3. j \in 1..(m + 1) /\ m + 1 \in 1..(m + 1) /\ j <= m + 1
          OBVIOUS
        <5> QED
          BY <2>4, <3>2, <5>1, <5>2, <5>3
      <4>3. CASE DOMAIN f[m] = {}
        <5>1. a = 1 /\ f[m + 1][a] = new /\ m + 1 \in 1..(m + 1) /\ m + 1 <= m + 1
          BY <3>5, <3>6, <4>3
        <5> QED
          BY <2>4, <3>2, <5>1
      <4> QED
        BY <4>1, <4>2, <4>3
    <3> QED
      BY <3>5, <3>6
  <2> QED
    BY <2>3, <2>4
<1>7. Nat \subseteq S
  <2> HIDE DEF S
  <2> QED
    BY <1>5, <1>6, NumbersOfSet
<1>8. Good(N)
  BY <1>4, <1>7
<1> QED
  BY <1>2, <1>8 DEF N

-----------------------------------------------------------------------------
(* Rows *)

\* A table has a number of rows
LEMMA RowsOfTable ==
  ASSUME NEW t, Rectangular(t) PROVE NRows(t) \in Nat
  BY DEF Rectangular, NRows

\* A table whose columns were replaced by others, all of n rows
LEMMA NewCells ==
  ASSUME NEW t, NEW u, {"cells", "keywords", "writable", "permitted"} = DOMAIN t, NEW n,
         DOMAIN u = DOMAIN t, "FIXED" \in DOMAIN u.cells,
         \A column \in DOMAIN u.cells : u.cells[column] \in Seq(Int) /\ Len(u.cells[column]) = n
  PROVE  Rectangular(u) /\ NRows(u) = n
  BY DEF Rectangular, NRows

\* Opening a table for writing leaves its rows alone
LEMMA ReopenedRows ==
  ASSUME NEW t, Rectangular(t)
  PROVE  Rectangular(Reopened(t)) /\ Reopened(t).cells = t.cells /\ NRows(Reopened(t)) = NRows(t)
<1>1. Reopened(t).cells = t.cells /\ DOMAIN Reopened(t) = DOMAIN t
  BY DEF Reopened, Rectangular
<1> QED
  BY <1>1 DEF Rectangular, NRows

\* A write is one of these
LEMMA WriteKinds ==
  ASSUME NEW w \in Writes
  PROVE  w.op \in {"PutColumn", "AddRows", "AddColumns", "PutKeywords", "RemoveKeyword"}
<1>1. \/ \E op \in {"AddRows", "AddColumns"} : w = [op |-> op]
      \/ w \in [op : {"PutColumn"}, column : Range(TableColumns), rows : 1..2]
      \/ w \in [op : {"PutKeywords"}, column : {"", "VARIABLE"}, parses : BOOLEAN]
      \/ w \in [op : {"RemoveKeyword"}, column : {"", "VARIABLE"}]
  BY DEF Writes
<1>2. CASE \E op \in {"AddRows", "AddColumns"} : w = [op |-> op]
  <2>1. PICK o \in {"AddRows", "AddColumns"} : w = [op |-> o]
    BY <1>2
  <2> QED
    BY <2>1
<1>3. CASE w \in [op : {"PutColumn"}, column : Range(TableColumns), rows : 1..2]
  BY <1>3
<1>4. CASE w \in [op : {"PutKeywords"}, column : {"", "VARIABLE"}, parses : BOOLEAN]
  BY <1>4
<1>5. CASE w \in [op : {"RemoveKeyword"}, column : {"", "VARIABLE"}]
  BY <1>5
<1> QED
  BY <1>1, <1>2, <1>3, <1>4, <1>5

\* Writes keep columns of one length, and no row is lost
LEMMA WrittenRows ==
  ASSUME NEW t, Rectangular(t), NEW w, Possible(t, w),
         w.op \in {"PutColumn", "AddRows", "AddColumns", "PutKeywords", "RemoveKeyword"}
  PROVE  Rectangular(Written(t, w)) /\ NRows(t) <= NRows(Written(t, w))
<1>1. PICK n \in Nat : n = NRows(t)
  BY RowsOfTable
<1>2. /\ {"cells", "keywords", "writable", "permitted"} = DOMAIN t /\ "FIXED" \in DOMAIN t.cells
      /\ \A column \in DOMAIN t.cells : t.cells[column] \in Seq(Int) /\ Len(t.cells[column]) = n
  BY <1>1 DEF Rectangular
<1>3. CASE w.op = "PutColumn"
  <2>1. w.column \in DOMAIN t.cells
    BY <1>3 DEF Possible, ColumnExists
  <2>2. PICK rows : rows = [r \in DOMAIN t.cells[w.column] |->
                              IF r <= w.rows THEN 1 ELSE t.cells[w.column][r]]
    OBVIOUS
  <2>3. PICK u : u = Written(t, w)
    OBVIOUS
  <2>4. u = [t EXCEPT !.cells = [t.cells EXCEPT ![w.column] = rows]]
    BY <1>2, <1>3, <2>2, <2>3 DEF Written
  <2>5. DOMAIN u = DOMAIN t /\ u.cells = [t.cells EXCEPT ![w.column] = rows]
    BY <1>2, <2>4
  <2>6. rows \in Seq(Int) /\ Len(rows) = n
    <3>1. t.cells[w.column] \in Seq(Int) /\ Len(t.cells[w.column]) = n
      BY <1>2, <2>1
    <3> QED
      BY <2>2, <3>1
  <2>7. "FIXED" \in DOMAIN u.cells
    BY <1>2, <2>5
  <2>8. \A column \in DOMAIN u.cells : u.cells[column] \in Seq(Int) /\ Len(u.cells[column]) = n
    BY <1>2, <2>1, <2>5, <2>6
  <2>9. Rectangular(u) /\ NRows(u) = n
    BY <1>2, <2>5, <2>7, <2>8, NewCells
  <2> QED
    BY <1>1, <2>3, <2>9
<1>4. CASE w.op = "AddRows"
  <2>1. PICK u : u = Written(t, w)
    OBVIOUS
  <2>2. u = [t EXCEPT !.cells = [column \in DOMAIN t.cells |-> Append(t.cells[column], Default(column))]]
    BY <1>2, <1>4, <2>1 DEF Written
  <2>3. /\ DOMAIN u = DOMAIN t
        /\ u.cells = [column \in DOMAIN t.cells |-> Append(t.cells[column], Default(column))]
    BY <1>2, <2>2
  <2>4. \A column : Default(column) \in Int
    BY DEF Default, Undefined
  <2>5. \A column \in DOMAIN u.cells : u.cells[column] \in Seq(Int) /\ Len(u.cells[column]) = n + 1
    BY <1>2, <2>3, <2>4
  <2>6. "FIXED" \in DOMAIN u.cells
    BY <1>2, <2>3
  <2>7. Rectangular(u) /\ NRows(u) = n + 1
    BY <1>2, <2>3, <2>5, <2>6, NewCells
  <2> QED
    BY <1>1, <2>1, <2>7
<1>5. CASE w.op = "AddColumns"
  <2>1. PICK u : u = Written(t, w)
    OBVIOUS
  <2>2. PICK cells : cells = [column \in Range(TableColumns) |->
                                IF column \in DOMAIN t.cells THEN t.cells[column]
                                ELSE [r \in 1..n |-> Default(column)]]
    OBVIOUS
  <2>3. u = [t EXCEPT !.cells = cells]
    BY <1>1, <1>2, <1>5, <2>1, <2>2 DEF Written
  <2>4. DOMAIN u = DOMAIN t /\ u.cells = cells
    BY <1>2, <2>3
  <2>5. \A column : [r \in 1..n |-> Default(column)] \in Seq(Int)
                    /\ Len([r \in 1..n |-> Default(column)]) = n
    BY DEF Default, Undefined
  <2>6. ASSUME NEW column \in DOMAIN u.cells
        PROVE  u.cells[column] \in Seq(Int) /\ Len(u.cells[column]) = n
    <3>1. CASE column \in DOMAIN t.cells
      BY <1>2, <2>2, <2>4, <2>6, <3>1
    <3>2. CASE column \notin DOMAIN t.cells
      <4>1. u.cells[column] = [r \in 1..n |-> Default(column)]
        BY <2>2, <2>4, <2>6, <3>2
      <4> QED
        BY <2>5, <4>1
    <3> QED
      BY <3>1, <3>2
  <2>7. "FIXED" \in Range(TableColumns)
    BY DEF Range, TableColumns
  <2>8. "FIXED" \in DOMAIN u.cells
    BY <2>2, <2>4, <2>7
  <2>9. Rectangular(u) /\ NRows(u) = n
    BY <1>2, <2>4, <2>6, <2>8, NewCells
  <2> QED
    BY <1>1, <2>1, <2>9
<1>6. CASE w.op \in {"PutKeywords", "RemoveKeyword"}
  <2>1. PICK u : u = Written(t, w)
    OBVIOUS
  <2>2. DOMAIN u = DOMAIN t /\ u.cells = t.cells
    BY <1>2, <1>6, <2>1 DEF Written
  <2>3. /\ "FIXED" \in DOMAIN u.cells
        /\ \A column \in DOMAIN u.cells : u.cells[column] \in Seq(Int) /\ Len(u.cells[column]) = n
    BY <1>2, <2>2
  <2>4. Rectangular(u) /\ NRows(u) = n
    BY <1>2, <2>2, <2>3, NewCells
  <2> QED
    BY <1>1, <2>1, <2>4
<1> QED
  BY <1>3, <1>4, <1>5, <1>6

\* So does a write that fails
LEMMA WriteRows ==
  ASSUME NEW t, Rectangular(t), NEW w \in Writes
  PROVE  Rectangular(Write(t, w).table) /\ NRows(t) <= NRows(Write(t, w).table)
<1>1. NRows(t) \in Nat /\ Rectangular(Reopened(t)) /\ NRows(Reopened(t)) = NRows(t)
  BY RowsOfTable, ReopenedRows
<1>2. w.op \in {"PutColumn", "AddRows", "AddColumns", "PutKeywords", "RemoveKeyword"}
  BY WriteKinds
<1>3. CASE ~ Possible(t, w)
  BY <1>1, <1>3 DEF Write
<1>4. CASE Possible(t, w)
  <2>1. Possible(Reopened(t), w)
    <3>1. \A column : ColumnExists(Reopened(t), column) <=> ColumnExists(t, column)
      BY ReopenedRows DEF ColumnExists
    <3>2. Reopened(t).keywords = t.keywords
      BY DEF Reopened, Rectangular
    <3> QED
      BY <1>1, <1>2, <1>4, <3>1, <3>2 DEF Possible
  <2>2. /\ Rectangular(Written(Reopened(t), w))
        /\ NRows(Reopened(t)) <= NRows(Written(Reopened(t), w))
    BY <1>1, <1>2, <2>1, WrittenRows
  <2> QED
    BY <1>1, <2>2 DEF Write
<1> QED
  BY <1>3, <1>4

\* Statements keep columns of one length
LEMMA StatementRows ==
  ASSUME NEW t, Rectangular(t), NEW s PROVE Rectangular(Taql(t, s).table)
<1>1. PICK u : u = Reopened(t)
  OBVIOUS
<1>2. PICK n \in Nat : n = NRows(u)
  BY <1>1, RowsOfTable, ReopenedRows
<1>3. /\ {"cells", "keywords", "writable", "permitted"} = DOMAIN u /\ "FIXED" \in DOMAIN u.cells
      /\ \A column \in DOMAIN u.cells : u.cells[column] \in Seq(Int) /\ Len(u.cells[column]) = n
  BY <1>1, <1>2, ReopenedRows DEF Rectangular
<1>4. CASE s.does = "SELECT" \/ ~ CanReopen(t)
  BY <1>4 DEF Taql
<1>5. CASE ~ (s.does = "SELECT" \/ ~ CanReopen(t)) /\ s.does = "UPDATE"
  <2>1. PICK rows : rows = [r \in DOMAIN u.cells["FIXED"] |-> u.cells["FIXED"][r] + 1]
    OBVIOUS
  <2>2. PICK new : new = Taql(t, s).table
    OBVIOUS
  <2>3. new = [u EXCEPT !.cells = [u.cells EXCEPT !["FIXED"] = rows]]
    BY <1>1, <1>3, <1>5, <2>1, <2>2 DEF Taql
  <2>4. DOMAIN new = DOMAIN u /\ new.cells = [u.cells EXCEPT !["FIXED"] = rows]
    BY <1>3, <2>3
  <2>5. rows \in Seq(Int) /\ Len(rows) = n
    <3>1. u.cells["FIXED"] \in Seq(Int) /\ Len(u.cells["FIXED"]) = n
      BY <1>3
    <3> QED
      BY <2>1, <3>1
  <2>6. "FIXED" \in DOMAIN new.cells
    BY <1>3, <2>4
  <2>7. \A column \in DOMAIN new.cells : new.cells[column] \in Seq(Int) /\ Len(new.cells[column]) = n
    BY <1>3, <2>4, <2>5
  <2>8. Rectangular(new)
    BY <1>3, <2>4, <2>6, <2>7, NewCells
  <2> QED
    BY <2>2, <2>8
<1>6. CASE ~ (s.does = "SELECT" \/ ~ CanReopen(t)) /\ s.does # "UPDATE"
  <2>1. PICK new : new = Taql(t, s).table
    OBVIOUS
  <2>2. PICK cells : cells = [column \in DOMAIN u.cells |->
                                IF u.cells[column] = <<>> THEN <<>> ELSE Front(u.cells[column])]
    OBVIOUS
  <2>3. new = [u EXCEPT !.cells = cells]
    BY <1>1, <1>3, <1>6, <2>1, <2>2 DEF Taql
  <2>4. DOMAIN new = DOMAIN u /\ new.cells = cells
    BY <1>3, <2>3
  <2>5. PICK m : m = IF n = 0 THEN 0 ELSE n - 1
    OBVIOUS
  <2>6. ASSUME NEW column \in DOMAIN new.cells
        PROVE  new.cells[column] \in Seq(Int) /\ Len(new.cells[column]) = m
    <3>1. PICK old : old = u.cells[column]
      OBVIOUS
    <3>2. old \in Seq(Int) /\ Len(old) = n
      BY <1>3, <2>2, <2>4, <2>6, <3>1
    <3>3. CASE old = <<>>
      BY <2>2, <2>4, <2>5, <2>6, <3>1, <3>2, <3>3
    <3>4. CASE old # <<>>
      <4>1. new.cells[column] = SubSeq(old, 1, Len(old) - 1)
        BY <2>2, <2>4, <2>6, <3>1, <3>4 DEF Front
      <4>2. n # 0
        BY <3>2, <3>4
      <4> QED
        BY <2>5, <3>2, <4>1, <4>2
    <3> QED
      BY <3>3, <3>4
  <2>7. "FIXED" \in DOMAIN new.cells
    BY <1>3, <2>2, <2>4
  <2>8. Rectangular(new)
    BY <1>3, <2>4, <2>6, <2>7, NewCells
  <2> QED
    BY <2>1, <2>8
<1> QED
  BY <1>4, <1>5, <1>6

-----------------------------------------------------------------------------
(* Rows are lost to nobody who isn't told *)

\* What a step does to the table, and to a client in a call that doesn't end with it
RowsKept ==
  /\ Rectangular(table')
  /\ \A d \in Clients : call[d] # NoCall /\ call'[d] = call[d] /\ d \notin shrunk' =>
       d \notin shrunk /\ NRows(table) <= NRows(table')

\* A step that leaves the table alone
LEMMA TableKept ==
  ASSUME Rectangular(table), table' = table, shrunk' = shrunk PROVE RowsKept
  BY RowsOfTable DEF RowsKept

\* Steps keep columns of one length, and clients know of the rows lost
LEMMA RowsKeptByStep ==
  ASSUME TypeInv, Rectangular(table), [Next]_vars PROVE RowsKept
<1>1. ASSUME NEW c \in Clients, Call(c) \/ ClientStep(c) \/ Callback(c) PROVE RowsKept
  <2>1. table' = table
    BY <1>1 DEF Call, ClientStep, Refuse, QueryNoTable, Submit, SpawnNext, BeginSet, EndSet, Return,
                Callback, SubmitColumn, Assemble, SubmitPiece, FanIn
  <2>2. CASE Return(c)
    <3>1. shrunk' = shrunk \ {c} /\ call' = [call EXCEPT ![c] = NoCall]
      BY <2>2 DEF Return
    <3>2. call'[c] = NoCall
      BY <3>1 DEF TypeInv
    <3> QED
      BY <2>1, <3>1, <3>2, RowsOfTable DEF RowsKept
  <2>3. CASE ~ Return(c)
    <3>1. shrunk' = shrunk
      BY <1>1, <2>3 DEF Call, ClientStep, Refuse, QueryNoTable, Submit, SpawnNext, BeginSet, EndSet,
                        Callback, SubmitColumn, Assemble, SubmitPiece, FanIn
    <3> QED
      BY <2>1, <3>1, TableKept
  <2> QED
    BY <2>2, <2>3
<1>2. ASSUME NEW i \in Instances, RunTask(i) PROVE RowsKept
  <2>1. PICK c \in Clients :
          \/ RunQuery(i, c) \/ RunWrite(i, c) \/ RunStatement(i, c) \/ RunList(i, c)
          \/ \E k \in DOMAIN reads[c] :
               \/ RunRead(i, c, k) \/ RunPartition(i, c, k)
               \/ \E p \in reads[c][k].left : RunPiece(i, c, k, p)
    BY <1>2 DEF RunTask
  <2>2. CASE RunWrite(i, c)
    <3>1. call[c] \in Writes /\ table' = Write(table, call[c]).table /\ shrunk' = shrunk
      BY <2>2 DEF RunWrite
    <3>2. Rectangular(table') /\ NRows(table) <= NRows(table')
      BY <3>1, WriteRows
    <3> QED
      BY <3>1, <3>2 DEF RowsKept
  <2>3. CASE RunStatement(i, c)
    <3>1. /\ table' = Taql(table, call[c]).table
          /\ shrunk' = IF NRows(table') < NRows(table)
                       THEN {d \in Clients : call[d] # NoCall} ELSE shrunk
      BY <2>3 DEF RunStatement
    <3>2. Rectangular(table')
      BY <3>1, StatementRows
    <3>3. NRows(table) \in Nat /\ NRows(table') \in Nat
      BY <3>2, RowsOfTable
    <3>4. CASE NRows(table') < NRows(table)
      BY <3>1, <3>2, <3>4 DEF RowsKept
    <3>5. CASE ~ (NRows(table') < NRows(table))
      BY <3>1, <3>2, <3>3, <3>5 DEF RowsKept
    <3> QED
      BY <3>4, <3>5
  <2>4. CASE ~ (RunWrite(i, c) \/ RunStatement(i, c))
    <3>1. table' = table /\ shrunk' = shrunk
      BY <2>1, <2>4 DEF RunQuery, RunList, RunRead, RunPartition, RunPiece
    <3> QED
      BY <3>1, TableKept
  <2> QED
    BY <2>2, <2>3, <2>4
<1>3. CASE UNCHANGED vars
  BY <1>3, TableKept DEF vars
<1> QED
  BY <1>1, <1>2, <1>3 DEF Next

-----------------------------------------------------------------------------
(* The order of tasks *)

\* A task is submitted after those of the columns before
LEMMA InOrderEnqueued ==
  ASSUME TypeInv, InOrder, nInstances' = nInstances,
         NEW i \in Instances, NEW c \in Clients, NEW k \in Nat, NEW p \in Nat,
         Enqueue(i, Task(c, k, p)),
         nInstances = 1 => \A l, q \in Nat : Pending(c, l, q) => l < k
  PROVE  InOrder'
<1>1. SUFFICES ASSUME nInstances = 1,
                      NEW n \in DOMAIN queue'[1], NEW m \in DOMAIN queue'[1],
                      n < m, queue'[1][n].client = queue'[1][m].client
               PROVE  queue'[1][n].k < queue'[1][m].k
  BY DEF InOrder
<1>2. i = 1 /\ 1 \in Instances
  BY <1>1 DEF Instances
<1>3. PICK task : task = Task(c, k, p)
  OBVIOUS
<1>4. task \in Tasks /\ task.client = c /\ task.k = k
  BY <1>3 DEF Task, Tasks
<1>5. queue[1] \in Seq(Tasks) /\ queue'[1] = Append(queue[1], task)
  BY <1>2, <1>3 DEF TypeInv, Enqueue
<1>6. n \in DOMAIN queue[1] /\ queue'[1][n] = queue[1][n]
  BY <1>1, <1>4, <1>5
<1>7. CASE m \in DOMAIN queue[1]
  <2>1. queue'[1][m] = queue[1][m]
    BY <1>4, <1>5, <1>7
  <2> QED
    BY <1>1, <1>6, <1>7, <2>1 DEF InOrder
<1>8. CASE m \notin DOMAIN queue[1]
  <2>1. queue'[1][m] = task
    BY <1>4, <1>5, <1>8, AppendFacts
  <2>2. queue[1][n] \in Tasks
    BY <1>5, <1>6
  <2>3. /\ queue[1][n].client = c /\ queue[1][n].k \in Nat /\ queue[1][n].piece \in Nat
        /\ queue[1][n] = Task(c, queue[1][n].k, queue[1][n].piece)
    BY <1>1, <1>4, <1>6, <2>1, <2>2 DEF Task, Tasks
  <2>4. Pending(c, queue[1][n].k, queue[1][n].piece)
    BY <1>2, <1>6, <2>3 DEF Pending
  <2>5. queue[1][n].k < k
    BY <1>1, <2>3, <2>4
  <2> QED
    BY <1>4, <1>6, <2>1, <2>5
<1> QED
  BY <1>7, <1>8

\* A task that runs is of a column before all those of the client that are pending
LEMMA InOrderDequeued ==
  ASSUME TypeInv, InOrder, nInstances' = nInstances, NEW i \in Instances, NEW c \in Clients,
         NEW k \in Nat, NEW p \in Nat, Runs(i, c, k, p), Dequeue(i)
  PROVE  /\ InOrder'
         /\ nInstances = 1 => \A l, q : Pending(c, l, q)' => k < l
<1>1. SUFFICES ASSUME nInstances = 1
               PROVE  /\ \A n, m \in DOMAIN queue'[1] :
                           n < m /\ queue'[1][n].client = queue'[1][m].client =>
                             queue'[1][n].k < queue'[1][m].k
                      /\ \A l, q : Pending(c, l, q)' => k < l
  BY DEF InOrder
<1>2. i = 1 /\ 1 \in Instances /\ Instances' = {1}
  BY <1>1 DEF Instances
<1>3. /\ queue[1] \in Seq(Tasks) /\ queue[1] # <<>> /\ queue'[1] = Tail(queue[1])
      /\ Head(queue[1]) = Task(c, k, p)
  BY <1>2 DEF TypeInv, Runs, Dequeue
<1>4. \A n \in DOMAIN queue'[1] : /\ n \in Nat /\ n + 1 \in DOMAIN queue[1] /\ 1 < n + 1
                                  /\ queue'[1][n] = queue[1][n + 1]
  BY <1>3, TailFacts
<1>5. 1 \in DOMAIN queue[1] /\ queue[1][1].client = c /\ queue[1][1].k = k
  BY <1>3, TailFacts DEF Task
<1>6. ASSUME NEW n \in DOMAIN queue'[1], NEW m \in DOMAIN queue'[1],
             n < m, queue'[1][n].client = queue'[1][m].client
      PROVE  queue'[1][n].k < queue'[1][m].k
  BY <1>1, <1>4, <1>6 DEF InOrder
<1>7. ASSUME NEW l, NEW q, Pending(c, l, q)' PROVE k < l
  <2>1. PICK n \in DOMAIN queue'[1] : queue'[1][n] = Task(c, l, q)
    BY <1>2, <1>7 DEF Pending
  <2>2. queue[1][n + 1].client = c /\ queue[1][n + 1].k = l
    BY <1>4, <2>1 DEF Task
  <2> QED
    BY <1>1, <1>4, <1>5, <2>2 DEF InOrder
<1> QED
  BY <1>6, <1>7

\* With one instance no column is read in pieces
LEMMA PiecesNeedInstances ==
  ASSUME TableInv, NEW c \in Clients, NEW k \in DOMAIN reads[c], reads[c][k].left # {}
  PROVE  nInstances > 1
  BY DEF TableInv, ClientInv, ColumnsInv, ReadInv, Spread

\* Every step keeps the order of tasks
LEMMA InOrderStep ==
  ASSUME TableInv, InOrder, [Next]_vars PROVE InOrder'
<1>1. TypeInv /\ 0 \in Nat /\ \A c \in Clients : ClientInv(c)
  BY DEF TableInv
<1>2. ASSUME nInstances' = nInstances, queue' = queue PROVE InOrder'
  BY <1>2 DEF InOrder
<1>3. ASSUME NEW c \in Clients, Submit(c) PROVE InOrder'
  <2>1. PICK i \in Instances : Enqueue(i, Task(c, IF call[c] \in Reads THEN 1 ELSE 0, 0))
    BY <1>3 DEF Submit
  <2>2. PICK k \in Nat : k = IF call[c] \in Reads THEN 1 ELSE 0
    OBVIOUS
  <2>3. pc[c] \notin {"wait", "columns"} /\ nInstances' = nInstances
    BY <1>3 DEF Submit
  <2>4. \A l, q \in Nat : Pending(c, l, q) => l < k
    BY <1>1, <2>3, Quiet
  <2> QED
    BY <1>1, <2>1, <2>2, <2>3, <2>4, InOrderEnqueued
<1>4. ASSUME NEW c \in Clients, SpawnNext(c) PROVE InOrder'
  <2>1. CallInv(c) /\ nInstances \in Nat \ {0}
    BY <1>1 DEF ClientInv, TypeInv
  <2>2. /\ pc[c] \in {"enter", "spawn"} /\ nInstances' = nInstances
        /\ Enqueue(slot[c], Task(c, 0, 0))
    BY <1>4 DEF SpawnNext
  <2>3. slot[c] \in Instances
    BY <2>1, <2>2 DEF CallInv, Instances
  <2>4. \A l, q \in Nat : Pending(c, l, q) => l < 0
    BY <1>1, <2>2, Quiet
  <2> QED
    BY <1>1, <2>2, <2>3, <2>4, InOrderEnqueued
<1>5. ASSUME NEW c \in Clients, SubmitColumn(c) PROVE InOrder'
  <2>1. PICK i \in Instances : Enqueue(i, Task(c, slot[c], 0))
    BY <1>5 DEF SubmitColumn, NextColumn
  <2>2. slot[c] \in Nat \ {0} /\ pc[c] = "columns" /\ nInstances' = nInstances
    BY <1>1, <1>5 DEF SubmitColumn, TypeInv
  <2>3. call[c] \notin Reads
    BY <1>1, <2>2 DEF ClientInv, CallInv
  <2>4. \A l, q \in Nat : Pending(c, l, q) => l < slot[c]
    BY <1>1, <2>2, <2>3 DEF ClientInv, TaskInv, Active
  <2> QED
    BY <1>1, <2>1, <2>2, <2>4, InOrderEnqueued
<1>6. ASSUME NEW c \in Clients, NEW k \in DOMAIN reads[c], SubmitPiece(c, k) PROVE InOrder'
  <2>1. nInstances > 1 /\ nInstances' = nInstances
    BY <1>6, PiecesNeedInstances DEF SubmitPiece
  <2> QED
    BY <2>1 DEF InOrder
<1>7. ASSUME NEW i \in Instances, NEW c \in Clients, NEW k \in Nat, NEW p \in Nat,
             Runs(i, c, k, p), Dequeue(i), nInstances' = nInstances
      PROVE  InOrder'
  BY <1>1, <1>7, InOrderDequeued
<1>8. ASSUME NEW c \in Clients, Call(c) \/ ClientStep(c) \/ Callback(c) PROVE InOrder'
  <2>1. CASE \/ Call(c) \/ Refuse(c) \/ QueryNoTable(c) \/ BeginSet(c) \/ EndSet(c) \/ Return(c)
             \/ Assemble(c) \/ \E k \in DOMAIN reads[c] : FanIn(c, k)
    <3>1. nInstances' = nInstances /\ queue' = queue
      BY <2>1 DEF Call, Refuse, QueryNoTable, BeginSet, EndSet, Return, Assemble, FanIn
    <3> QED
      BY <1>2, <3>1
  <2> QED
    BY <1>3, <1>4, <1>5, <1>6, <1>8, <2>1 DEF ClientStep, Callback
<1>9. ASSUME NEW i \in Instances, RunTask(i) PROVE InOrder'
  <2>1. PICK c \in Clients :
          \/ RunQuery(i, c) \/ RunWrite(i, c) \/ RunStatement(i, c) \/ RunList(i, c)
          \/ \E k \in DOMAIN reads[c] :
               \/ RunRead(i, c, k) \/ RunPartition(i, c, k)
               \/ \E p \in reads[c][k].left : RunPiece(i, c, k, p)
    BY <1>9 DEF RunTask
  <2>2. CASE RunQuery(i, c) \/ RunWrite(i, c) \/ RunStatement(i, c) \/ RunList(i, c)
    <3>1. Runs(i, c, 0, 0) /\ Dequeue(i) /\ nInstances' = nInstances
      BY <2>2 DEF RunQuery, RunWrite, RunStatement, RunList
    <3> QED
      BY <1>1, <1>7, <3>1
  <2>3. ASSUME NEW k \in DOMAIN reads[c], RunRead(i, c, k) \/ RunPartition(i, c, k) PROVE InOrder'
    <3>1. Runs(i, c, k, 0) /\ Dequeue(i) /\ nInstances' = nInstances /\ k \in Nat
      BY <1>1, <2>3, ColumnNumbers DEF RunRead, RunPartition
    <3> QED
      BY <1>1, <1>7, <3>1
  <2>4. ASSUME NEW k \in DOMAIN reads[c], NEW p \in reads[c][k].left, RunPiece(i, c, k, p)
        PROVE  InOrder'
    <3>1. nInstances > 1 /\ nInstances' = nInstances
      BY <2>4, PiecesNeedInstances DEF RunPiece
    <3> QED
      BY <3>1 DEF InOrder
  <2> QED
    BY <2>1, <2>2, <2>3, <2>4
<1>10. CASE UNCHANGED vars
  BY <1>2, <1>10 DEF vars
<1> QED
  BY <1>8, <1>9, <1>10 DEF Next

-----------------------------------------------------------------------------
(* The columns a client has read *)

\* Tasks of later columns, if any, become pending
Later(d) ==
  nInstances = 1 =>
    \A l \in Nat : Pending(d, l, 0)' =>
      Pending(d, l, 0) \/ \A k \in DOMAIN seen[d] : seen[d][k] # NoAnswer => k < l

\* A client that has columns is in a call that isn't GetColumn()
LEMMA HasColumns ==
  ASSUME TableInv, NEW d \in Clients, DOMAIN seen[d] # {}
  PROVE  /\ call[d] \in Calls /\ call[d] # NoCall /\ call[d] \notin Reads
         /\ pc[d] \notin {"idle", "enter", "spawn"} /\ ~ Pending(d, 0, 0)
<1>1. listed[d] # <<>> /\ CallInv(d)
  BY DEF TableInv, TypeInv, ClientInv
<1>2. NoCall \notin Calls
  <2> QED
    BY DEF NoCall, Calls, Queries, Reads, Conversions, Writes, Statements, Settings
<1>3. ~ Pending(d, 0, 0)
  BY <1>1, OnlyTask
<1> QED
  BY <1>1, <1>2, <1>3 DEF CallInv

\* A task that is submitted is that of a later column
LEMMA LaterStep ==
  ASSUME TableInv, [Next]_vars, NEW d \in Clients PROVE Later(d)
<1>1. TypeInv /\ Distinct /\ 0 \in Nat /\ \A c \in Clients : ClientInv(c)
  BY DEF TableInv
<1>2. ASSUME nInstances' = nInstances, queue' = queue PROVE Later(d)
  BY <1>2, SameQueue DEF Later
<1>3. ASSUME NEW c \in Clients, NEW i \in Instances, NEW k \in Nat, NEW p \in Nat,
             Enqueue(i, Task(c, k, p)), nInstances' = nInstances, ~ Pending(c, k, p),
             \A l \in DOMAIN seen[c] : seen[c][l] # NoAnswer => l < k
      PROVE  Later(d)
  <2>1. \A e, l, q : Pending(e, l, q)' <=> Pending(e, l, q) \/ (e = c /\ l = k /\ q = p)
    BY <1>1, <1>3, Enqueued
  <2> QED
    BY <1>3, <2>1 DEF Later
<1>4. ASSUME NEW c \in Clients, Submit(c) PROVE Later(d)
  <2>1. PICK i \in Instances : Enqueue(i, Task(c, IF call[c] \in Reads THEN 1 ELSE 0, 0))
    BY <1>4 DEF Submit
  <2>2. PICK k \in Nat : k = IF call[c] \in Reads THEN 1 ELSE 0
    OBVIOUS
  <2>3. pc[c] = "enter" /\ pc[c] \notin {"wait", "columns"} /\ nInstances' = nInstances
    BY <1>4 DEF Submit
  <2>4. ~ Pending(c, k, 0)
    BY <1>1, <2>3, Quiet
  <2>5. DOMAIN seen[c] = {}
    BY <2>3, HasColumns
  <2> QED
    BY <1>1, <1>3, <2>1, <2>2, <2>3, <2>4, <2>5
<1>5. ASSUME NEW c \in Clients, SpawnNext(c) PROVE Later(d)
  <2>1. CallInv(c) /\ nInstances \in Nat \ {0}
    BY <1>1 DEF ClientInv, TypeInv
  <2>2. /\ pc[c] \in {"enter", "spawn"} /\ nInstances' = nInstances
        /\ Enqueue(slot[c], Task(c, 0, 0))
    BY <1>5 DEF SpawnNext
  <2>3. slot[c] \in Instances
    BY <2>1, <2>2 DEF CallInv, Instances
  <2>4. ~ Pending(c, 0, 0)
    BY <1>1, <2>2, Quiet
  <2>5. DOMAIN seen[c] = {}
    BY <2>2, HasColumns
  <2> QED
    BY <1>1, <1>3, <2>2, <2>3, <2>4, <2>5
<1>6. ASSUME NEW c \in Clients, SubmitColumn(c) PROVE Later(d)
  <2>1. PICK i \in Instances : Enqueue(i, Task(c, slot[c], 0))
    BY <1>6 DEF SubmitColumn, NextColumn
  <2>2. slot[c] \in Nat \ {0} /\ pc[c] = "columns" /\ nInstances' = nInstances
    BY <1>1, <1>6 DEF SubmitColumn, TypeInv
  <2>3. CallInv(c)
    BY <1>1 DEF ClientInv
  <2>4. ~ Pending(c, slot[c], 0)
    <3>1. ASSUME Pending(c, slot[c], 0) PROVE slot[c] < slot[c]
      BY <1>1, <2>2, <2>3, <3>1 DEF ClientInv, TaskInv, Active, CallInv
    <3> QED
      BY <2>2, <3>1
  <2>5. \A l \in DOMAIN seen[c] : l \in Nat
    BY <1>1 DEF TypeInv
  <2>6. \A l \in DOMAIN seen[c] : seen[c][l] # NoAnswer => l < slot[c]
    BY <2>2, <2>3, <2>5 DEF CallInv
  <2> QED
    BY <1>1, <1>3, <2>1, <2>2, <2>4, <2>6
<1>7. ASSUME NEW c \in Clients, NEW k \in DOMAIN reads[c], SubmitPiece(c, k) PROVE Later(d)
  <2>1. nInstances > 1
    BY <1>7, PiecesNeedInstances DEF SubmitPiece
  <2> QED
    BY <2>1 DEF Later
<1>8. ASSUME NEW i \in Instances, NEW c \in Clients, NEW k \in Nat, NEW p \in Nat,
             Runs(i, c, k, p), Dequeue(i), nInstances' = nInstances
      PROVE  Later(d)
  <2>1. \A e, l, q : Pending(e, l, q)' => Pending(e, l, q)
    BY <1>1, <1>8, Dequeued
  <2> QED
    BY <2>1 DEF Later
<1>9. ASSUME NEW c \in Clients, Call(c) \/ ClientStep(c) \/ Callback(c) PROVE Later(d)
  <2>1. CASE \/ Call(c) \/ Refuse(c) \/ QueryNoTable(c) \/ BeginSet(c) \/ EndSet(c) \/ Return(c)
             \/ Assemble(c) \/ \E k \in DOMAIN reads[c] : FanIn(c, k)
    <3>1. nInstances' = nInstances /\ queue' = queue
      BY <2>1 DEF Call, Refuse, QueryNoTable, BeginSet, EndSet, Return, Assemble, FanIn
    <3> QED
      BY <1>2, <3>1
  <2> QED
    BY <1>4, <1>5, <1>6, <1>7, <1>9, <2>1 DEF ClientStep, Callback
<1>10. ASSUME NEW i \in Instances, RunTask(i) PROVE Later(d)
  <2>1. PICK c \in Clients :
          \/ RunQuery(i, c) \/ RunWrite(i, c) \/ RunStatement(i, c) \/ RunList(i, c)
          \/ \E k \in DOMAIN reads[c] :
               \/ RunRead(i, c, k) \/ RunPartition(i, c, k)
               \/ \E p \in reads[c][k].left : RunPiece(i, c, k, p)
    BY <1>10 DEF RunTask
  <2>2. CASE RunQuery(i, c) \/ RunWrite(i, c) \/ RunStatement(i, c) \/ RunList(i, c)
    <3>1. Runs(i, c, 0, 0) /\ Dequeue(i) /\ nInstances' = nInstances
      BY <2>2 DEF RunQuery, RunWrite, RunStatement, RunList
    <3> QED
      BY <1>1, <1>8, <3>1
  <2>3. ASSUME NEW k \in DOMAIN reads[c], RunRead(i, c, k) \/ RunPartition(i, c, k) PROVE Later(d)
    <3>1. Runs(i, c, k, 0) /\ Dequeue(i) /\ nInstances' = nInstances /\ k \in Nat
      BY <1>1, <2>3, ColumnNumbers DEF RunRead, RunPartition
    <3> QED
      BY <1>1, <1>8, <3>1
  <2>4. ASSUME NEW k \in DOMAIN reads[c], NEW p \in reads[c][k].left, RunPiece(i, c, k, p)
        PROVE  Later(d)
    <3>1. nInstances > 1
      BY <2>4, PiecesNeedInstances DEF RunPiece
    <3> QED
      BY <3>1 DEF Later
  <2> QED
    BY <2>1, <2>2, <2>3, <2>4
<1>11. CASE UNCHANGED vars
  BY <1>2, <1>11 DEF vars
<1> QED
  BY <1>9, <1>10, <1>11 DEF Next

\* A column that was read has a number of rows
LEMMA ColumnRows ==
  /\ NoAnswer \in ColumnAnswers /\ NoAnswer.is # "ok" /\ Failed.is # "ok"
  /\ \A x \in ColumnAnswers : x.is = "ok" => Len(x.value) \in Nat /\ x # NoAnswer /\ x # Failed
  /\ \A x \in ColumnAnswers : x # NoAnswer /\ x # Failed => x.is = "ok"
  /\ \A rows \in Seq(Int) :
       Ok(rows) \in ColumnAnswers /\ Ok(rows).is = "ok" /\ Len(Ok(rows).value) = Len(rows)
<1>1. /\ \A v : Ok(v).is = "ok" /\ Ok(v).value = v
      /\ NoAnswer.is # "ok" /\ Failed.is # "ok"
  BY DEF Ok, NoAnswer, Failed
<1>2. \A rows \in Seq(Int) : Len(rows) \in Nat
  OBVIOUS
<1> QED
  BY <1>1, <1>2 DEF ColumnAnswers

\* A client that a step leaves alone, but for rows added and columns to be read
LEMMA SeenKept ==
  ASSUME Rectangular(table), RowsKept, Unwritten, nInstances \in Nat \ {0},
         NEW d \in Clients, SeenInv(d), seen'[d] = seen[d], Later(d),
         DOMAIN seen[d] # {} => call[d] # NoCall /\ call'[d] = call[d]
  PROVE  SeenInv(d)'
<1>1. nInstances' = nInstances /\ NRows(table) \in Nat /\ NRows(table') \in Nat
  BY RowsOfTable DEF RowsKept, Unwritten
<1>2. /\ \A k \in DOMAIN seen[d] : seen[d][k] \in ColumnAnswers
      /\ nInstances = 1 => \A k \in DOMAIN seen[d] : \A l \in Nat :
                             seen[d][k] # NoAnswer /\ Pending(d, l, 0) => k < l
  BY DEF SeenInv
<1>3. nInstances = 1 => \A k \in DOMAIN seen[d] : \A l \in Nat :
                          seen[d][k] # NoAnswer /\ Pending(d, l, 0)' => k < l
  BY <1>2 DEF Later
<1>4. ASSUME d \notin shrunk', NEW k \in DOMAIN seen[d], seen[d][k].is = "ok"
      PROVE  /\ Len(seen[d][k].value) <= NRows(table')
             /\ nInstances > 1 => Len(seen[d][k].value) = NRows(table')
             /\ \A l \in DOMAIN seen[d] : seen[d][l].is = "ok" /\ k <= l =>
                  Len(seen[d][k].value) <= Len(seen[d][l].value)
  <2>1. d \notin shrunk /\ NRows(table) <= NRows(table')
    BY <1>4 DEF RowsKept
  <2>2. /\ Len(seen[d][k].value) <= NRows(table)
        /\ nInstances > 1 => Len(seen[d][k].value) = NRows(table)
        /\ \A l \in DOMAIN seen[d] : seen[d][l].is = "ok" /\ k <= l =>
             Len(seen[d][k].value) <= Len(seen[d][l].value)
    BY <1>4, <2>1 DEF SeenInv, IsRead, RowsRead
  <2>3. Len(seen[d][k].value) \in Nat
    BY <1>2, <1>4, ColumnRows
  <2>4. nInstances > 1 => table' = table
    BY DEF Unwritten
  <2> QED
    BY <1>1, <2>1, <2>2, <2>3, <2>4
<1> QED
  BY <1>1, <1>2, <1>3, <1>4 DEF SeenInv, IsRead, RowsRead

\* What is read of a column has all its rows
LEMMA ArrayRows ==
  ASSUME Rectangular(table), NEW column, NEW array \in Arrays(table, column, strategy, setting)
  PROVE  /\ array \in ColumnAnswers /\ array # NoAnswer
         /\ array.is = "ok" => Len(array.value) = NRows(table)
<1>1. CASE array = Failed
  BY <1>1, ColumnRows, Answers DEF ColumnAnswers
<1>2. CASE array # Failed
  <2>1. array = Ok(table.cells[column]) /\ column \in DOMAIN table.cells
    BY <1>2 DEF Arrays, Readable, ColumnExists
  <2>2. table.cells[column] \in Seq(Int) /\ Len(table.cells[column]) = NRows(table)
    BY <2>1 DEF Rectangular
  <2> QED
    BY <2>1, <2>2, ColumnRows, Answers
<1> QED
  BY <1>1, <1>2

\* The next column of ToArrow() is read
LEMMA SeenDelivered ==
  ASSUME TableInv, Rectangular(table), NEW c \in Clients, SeenInv(c), Later(c),
         NEW k \in DOMAIN seen[c],
         NEW array, array \in ColumnAnswers, array # NoAnswer,
         array.is = "ok" => Len(array.value) = NRows(table),
         seen' = [seen EXCEPT ![c][k] = array],
         nInstances = 1 => /\ Pending(c, k, 0)
                           /\ \A l \in Nat : Pending(c, l, 0)' => Pending(c, l, 0) /\ k < l,
         UNCHANGED <<nInstances, table, shrunk>>
  PROVE  SeenInv(c)'
<1>1. /\ DOMAIN seen'[c] = DOMAIN seen[c] /\ seen'[c][k] = array
      /\ \A l \in DOMAIN seen[c] \ {k} : seen'[c][l] = seen[c][l]
  BY DEF TableInv, TypeInv
<1>2. NRows(table) \in Nat /\ nInstances \in Nat \ {0} /\ \A l \in DOMAIN seen[c] : l \in Nat
  BY RowsOfTable DEF TableInv, TypeInv
<1>3. \A l \in DOMAIN seen[c] : seen'[c][l] \in ColumnAnswers
  BY <1>1 DEF SeenInv
<1>4. nInstances = 1 => \A m \in DOMAIN seen[c] : \A l \in Nat :
                          seen'[c][m] # NoAnswer /\ Pending(c, l, 0)' => m < l
  BY <1>1 DEF SeenInv
<1>5. ASSUME c \notin shrunk, NEW m \in DOMAIN seen[c], seen'[c][m].is = "ok"
      PROVE  /\ Len(seen'[c][m].value) <= NRows(table)
             /\ nInstances > 1 => Len(seen'[c][m].value) = NRows(table)
  <2>1. CASE m = k
    BY <1>1, <1>2, <1>5, <2>1
  <2>2. CASE m # k
    BY <1>1, <1>5, <2>2 DEF SeenInv, IsRead, RowsRead
  <2> QED
    BY <2>1, <2>2
<1>6. ASSUME c \notin shrunk, NEW m \in DOMAIN seen[c], NEW l \in DOMAIN seen[c],
             seen'[c][m].is = "ok", seen'[c][l].is = "ok", m <= l
      PROVE  Len(seen'[c][m].value) <= Len(seen'[c][l].value)
  <2>1. Len(seen'[c][m].value) \in Nat /\ Len(seen'[c][l].value) \in Nat
    BY <1>3, <1>6, ColumnRows
  <2>2. CASE l = k
    <3>1. Len(seen'[c][l].value) = NRows(table)
      BY <1>1, <1>6, <2>2
    <3> QED
      BY <1>5, <1>6, <3>1
  <2>3. CASE m = k /\ l # k
    <3>1. seen[c][l] # NoAnswer
      BY <1>1, <1>6, <2>3, ColumnRows
    <3>2. k \in Nat /\ ~ (l < k)
      BY <1>2, <1>6, <2>3
    <3>3. nInstances # 1
      BY <3>1, <3>2 DEF SeenInv
    <3>4. nInstances > 1
      BY <1>2, <3>3
    <3> QED
      BY <1>5, <1>6, <2>1, <3>4
  <2>4. CASE m # k /\ l # k
    BY <1>1, <1>6, <2>4 DEF SeenInv, IsRead, RowsRead
  <2> QED
    BY <2>2, <2>3, <2>4
<1>7. c \notin shrunk' <=> c \notin shrunk
  OBVIOUS
<1> QED
  BY <1>1, <1>3, <1>4, <1>5, <1>6, <1>7 DEF SeenInv, IsRead, RowsRead

\* The read of a column ends
LEMMA SeenRead ==
  ASSUME TableInv, Rectangular(table), NEW c \in Clients, SeenInv(c), Later(c),
         NEW k \in DOMAIN reads[c], Active(c, k), call[c] \notin Reads,
         NEW array \in Arrays(table, reads[c][k].column, strategy, setting), Deliver(c, k, array),
         nInstances = 1 => /\ Pending(c, k, 0)
                           /\ \A l \in Nat : Pending(c, l, 0)' => Pending(c, l, 0) /\ k < l,
         UNCHANGED <<nInstances, table, shrunk>>
  PROVE  SeenInv(c)'
<1>1. TypeInv /\ ColumnsInv(c)
  BY DEF TableInv, ClientInv
<1>2. k \in DOMAIN seen[c]
  BY <1>1, ColumnNumbers DEF ColumnsInv, TypeInv
<1>3. seen' = [seen EXCEPT ![c][k] = array]
  BY DEF Deliver
<1>4. /\ array \in ColumnAnswers /\ array # NoAnswer
      /\ array.is = "ok" => Len(array.value) = NRows(table)
  BY ArrayRows
<1> QED
  BY <1>2, <1>3, <1>4, SeenDelivered

\* The task that reads a column runs
LEMMA SeenRunRead ==
  ASSUME TableInv, Rectangular(table), InOrder, NEW i \in Instances, NEW c \in Clients, SeenInv(c),
         Later(c), NEW k \in DOMAIN reads[c], RunRead(i, c, k), call[c] \notin Reads
  PROVE  SeenInv(c)'
<1>1. TypeInv /\ Distinct /\ 0 \in Nat
  BY DEF TableInv
<1>2. k \in Nat \ {0}
  BY <1>1, ColumnNumbers
<1>3. Runs(i, c, k, 0) /\ Dequeue(i) /\ UNCHANGED <<nInstances, table, shrunk>>
  BY DEF RunRead
<1>4. Pending(c, k, 0) /\ \A d, l, q : Pending(d, l, q)' => Pending(d, l, q)
  BY <1>1, <1>2, <1>3, Dequeued
<1>5. Active(c, k)
  BY <1>1, <1>4, ColumnTasks
<1>6. nInstances = 1 => \A l, q : Pending(c, l, q)' => k < l
  BY <1>1, <1>2, <1>3, InOrderDequeued
<1>7. PICK array \in Arrays(table, reads[c][k].column, strategy, setting) : Deliver(c, k, array)
  BY DEF RunRead
<1> QED
  BY <1>3, <1>4, <1>5, <1>6, <1>7, SeenRead

\* The pieces of a column have been read, by several instances
LEMMA SeenFanIn ==
  ASSUME TableInv, Rectangular(table), NEW c \in Clients, SeenInv(c), Later(c),
         NEW k \in DOMAIN reads[c], FanIn(c, k), call[c] \notin Reads
  PROVE  SeenInv(c)'
<1>1. TypeInv /\ ColumnsInv(c) /\ reads[c][k] \in ReadStates
  BY ColumnNumbers DEF TableInv, ClientInv
<1>2. /\ reads[c][k].rows # <<>> /\ reads[c][k].left = {}
      /\ UNCHANGED <<nInstances, table, shrunk>>
  BY DEF FanIn
<1>3. Active(c, k) /\ Spread(reads[c][k])
  BY <1>1, <1>2 DEF ColumnsInv, ReadInv
<1>4. /\ reads[c][k].rows = table.cells[reads[c][k].column]
      /\ ~ reads[c][k].failed /\ Readable(table, reads[c][k].column) /\ nInstances > 1
  BY <1>1, <1>2, <1>3, PiecesMakeUpColumn DEF Spread
<1>5. PICK valid \in FoundValid(strategy, setting) :
        Deliver(c, k, IF valid /\ ~ reads[c][k].failed THEN Ok(reads[c][k].rows) ELSE Failed)
  BY DEF FanIn
<1>6. PICK array : /\ array = IF valid THEN Ok(table.cells[reads[c][k].column]) ELSE Failed
                   /\ Deliver(c, k, array)
  BY <1>4, <1>5
<1>7. array \in Arrays(table, reads[c][k].column, strategy, setting)
  BY <1>4, <1>6 DEF Arrays
<1>8. nInstances # 1
  BY <1>4
<1> QED
  BY <1>2, <1>3, <1>6, <1>7, <1>8, SeenRead

\* Every step keeps the order of the columns read, and of their rows
LEMMA SeenStep ==
  ASSUME TableInv, OrderInv, [Next]_vars, NEW d \in Clients PROVE SeenInv(d)'
<1>1. /\ TypeInv /\ Rectangular(table) /\ InOrder /\ SeenInv(d) /\ nInstances \in Nat \ {0}
      /\ RowsKept /\ Unwritten /\ Later(d)
  BY RowsKeptByStep, LeftAlone, LaterStep DEF TableInv, TypeInv, OrderInv
<1>2. ASSUME seen'[d] = seen[d], DOMAIN seen[d] # {} => call'[d] = call[d] PROVE SeenInv(d)'
  BY <1>1, <1>2, HasColumns, SeenKept
<1>3. ASSUME NEW c \in Clients, Call(c) PROVE SeenInv(d)'
  <2>1. pc[c] = "idle" /\ seen' = seen /\ \A e \in Clients \ {c} : call'[e] = call[e]
    BY <1>1, <1>3 DEF Call, TypeInv
  <2>2. DOMAIN seen[c] = {}
    BY <2>1, HasColumns
  <2> QED
    BY <1>2, <2>1, <2>2
<1>4. ASSUME NEW c \in Clients, Return(c) PROVE SeenInv(d)'
  <2>1. /\ seen'[c] = <<>>
        /\ \A e \in Clients \ {c} : seen'[e] = seen[e] /\ call'[e] = call[e]
    BY <1>1, <1>4 DEF Return, TypeInv
  <2>2. CASE d = c
    <3>1. DOMAIN seen'[d] = {}
      BY <2>1, <2>2
    <3> QED
      BY <3>1 DEF SeenInv
  <2>3. CASE d # c
    BY <1>2, <2>1, <2>3
  <2> QED
    BY <2>2, <2>3
<1>5. ASSUME NEW c \in Clients, NEW i \in Instances, RunList(i, c) PROVE SeenInv(d)'
  <2>1. PICK columns : columns = Listed(table, call[c])
    OBVIOUS
  <2>2. /\ call' = call
        /\ \/ seen' = [seen EXCEPT ![c] = [k \in DOMAIN columns |-> NoAnswer]]
           \/ seen' = seen
    BY <1>5, <2>1 DEF RunList
  <2>3. CASE seen'[d] = seen[d]
    BY <1>2, <2>2, <2>3
  <2>4. CASE seen'[d] # seen[d]
    <3>1. seen'[d] = [k \in DOMAIN columns |-> NoAnswer]
      BY <1>1, <2>2, <2>4 DEF TypeInv
    <3>2. \A k \in DOMAIN seen'[d] :
            /\ seen'[d][k] = NoAnswer /\ seen'[d][k] \in ColumnAnswers /\ seen'[d][k].is # "ok"
      BY <3>1, ColumnRows
    <3> QED
      BY <3>2 DEF SeenInv, IsRead
  <2> QED
    BY <2>3, <2>4
<1>6. ASSUME NEW c \in Clients, NEW k \in DOMAIN reads[c],
             FanIn(c, k) \/ \E i \in Instances : RunRead(i, c, k)
      PROVE  SeenInv(d)'
  <2>1. call' = call /\ \E result : Deliver(c, k, result)
    BY <1>6 DEF FanIn, RunRead
  <2>2. CASE d # c \/ call[c] \in Reads
    <3>1. seen'[d] = seen[d]
      BY <1>1, <2>1, <2>2 DEF Deliver, TypeInv
    <3> QED
      BY <1>2, <2>1, <3>1
  <2>3. CASE d = c /\ call[c] \notin Reads
    BY <1>1, <1>6, <2>3, SeenRunRead, SeenFanIn
  <2> QED
    BY <2>2, <2>3
<1>7. ASSUME seen' = seen, call' = call PROVE SeenInv(d)'
  BY <1>2, <1>7
<1>8. ASSUME NEW c \in Clients, Call(c) \/ ClientStep(c) \/ Callback(c) PROVE SeenInv(d)'
  <2>1. CASE \/ Refuse(c) \/ QueryNoTable(c) \/ Submit(c) \/ SpawnNext(c) \/ BeginSet(c) \/ EndSet(c)
             \/ SubmitColumn(c) \/ Assemble(c) \/ \E k \in DOMAIN reads[c] : SubmitPiece(c, k)
    <3>1. seen' = seen /\ call' = call
      BY <2>1 DEF Refuse, QueryNoTable, Submit, SpawnNext, BeginSet, EndSet, SubmitColumn, Assemble,
                  SubmitPiece
    <3> QED
      BY <1>7, <3>1
  <2> QED
    BY <1>3, <1>4, <1>6, <1>8, <2>1 DEF ClientStep, Callback
<1>9. ASSUME NEW i \in Instances, RunTask(i) PROVE SeenInv(d)'
  <2>1. PICK c \in Clients :
          \/ RunQuery(i, c) \/ RunWrite(i, c) \/ RunStatement(i, c) \/ RunList(i, c)
          \/ \E k \in DOMAIN reads[c] :
               \/ RunRead(i, c, k) \/ RunPartition(i, c, k)
               \/ \E p \in reads[c][k].left : RunPiece(i, c, k, p)
    BY <1>9 DEF RunTask
  <2>2. CASE RunList(i, c) \/ \E k \in DOMAIN reads[c] : RunRead(i, c, k)
    BY <1>5, <1>6, <2>2
  <2>3. CASE ~ (RunList(i, c) \/ \E k \in DOMAIN reads[c] : RunRead(i, c, k))
    <3>1. seen' = seen /\ call' = call
      BY <2>1, <2>3 DEF RunQuery, RunWrite, RunStatement, RunPartition, RunPiece
    <3> QED
      BY <1>7, <3>1
  <2> QED
    BY <2>2, <2>3
<1>10. CASE UNCHANGED vars
  BY <1>7, <1>10 DEF vars, clientVars
<1> QED
  BY <1>8, <1>9, <1>10 DEF Next

-----------------------------------------------------------------------------
(* What ToArrow() answers *)

\* Conversions are no other calls
LEMMA ConversionsAlone ==
  ASSUME NEW made \in Conversions
  PROVE  /\ made \notin Queries /\ made \notin Reads /\ made \notin Writes
         /\ made \notin Statements /\ made \notin Settings /\ made.op # "Taql" /\ made # NoCall
<1>1. made.op = "ToArrow"
  BY DEF Conversions
<1>2. made \notin Queries
  BY <1>1, QueryAnswers
<1>3. made \notin Writes
  BY <1>1, WriteKinds
<1> QED
  BY <1>1, <1>2, <1>3 DEF Reads, Statements, Settings, NoCall

\* Every step keeps what ToArrow() has answered, or answers with the columns read
LEMMA AnswersKept ==
  ASSUME TableInv, TableInv', OrderInv, [Next]_vars, NEW d \in Clients PROVE AnswerInv(d)'
<1>1. TypeInv /\ AnswerInv(d)
  BY DEF TableInv, OrderInv
<1>2. ASSUME call'[d] = call[d], pc'[d] # "answered",
             pc'[d] = "set" => pc[d] = "set" \/ call[d] \in Settings
      PROVE  AnswerInv(d)'
  <2>1. answer'[d].is # "ok"
    <3>1. answer'[d] = NoAnswer
      BY <1>2 DEF TableInv, ClientInv, CallInv
    <3> QED
      BY <3>1, ColumnRows
  <2> QED
    BY <1>1, <1>2, <2>1 DEF AnswerInv
<1>3. ASSUME pc'[d] = pc[d], call'[d] = call[d], answer'[d] = answer[d], listed'[d] = listed[d],
             seen'[d] = seen[d]
      PROVE  AnswerInv(d)'
  BY <1>1, <1>3 DEF AnswerInv
<1>4. ASSUME Answer(d, Failed) \/ call[d] \notin Conversions, pc'[d] = "answered",
             call'[d] = call[d]
      PROVE  AnswerInv(d)'
  <2>1. CASE Answer(d, Failed)
    <3>1. answer'[d] = Failed
      BY <1>1, <2>1 DEF Answer, TypeInv
    <3> QED
      BY <1>4, <3>1, ColumnRows DEF AnswerInv
  <2>2. CASE call[d] \notin Conversions
    BY <1>4, <2>2 DEF AnswerInv
  <2> QED
    BY <1>4, <2>1, <2>2

<1>5. ASSUME NEW c \in Clients, Call(c) \/ ClientStep(c) PROVE AnswerInv(d)'
  <2>1. CASE d # c
    <3>1. /\ pc'[d] = pc[d] /\ call'[d] = call[d] /\ answer'[d] = answer[d] /\ listed'[d] = listed[d]
          /\ seen'[d] = seen[d]
      BY <1>1, <1>5, <2>1 DEF TypeInv, Call, ClientStep, Refuse, QueryNoTable, Submit, SpawnNext,
                              BeginSet, EndSet, Return, Answer
    <3> QED
      BY <1>3, <3>1
  <2>2. CASE d = c /\ (Call(c) \/ Return(c))
    <3>1. pc'[d] \in {"enter", "idle"}
      BY <1>1, <2>2 DEF TypeInv, Call, Return
    <3>2. answer'[d] = NoAnswer
      BY <3>1 DEF TableInv, ClientInv, CallInv
    <3> QED
      BY <3>1, <3>2, ColumnRows DEF AnswerInv
  <2>3. CASE d = c /\ (Submit(c) \/ SpawnNext(c) \/ BeginSet(c))
    <3>1. /\ call' = call /\ pc'[d] \in {"wait", "set"}
          /\ pc'[d] = "set" => call[d] \in Settings
      BY <1>1, <2>3 DEF TypeInv, Submit, SpawnNext, BeginSet
    <3> QED
      BY <1>2, <3>1
  <2>4. CASE d = c /\ (Refuse(c) \/ QueryNoTable(c) \/ EndSet(c))
    <3>1. call' = call /\ pc'[d] = "answered"
      BY <1>1, <2>4 DEF TypeInv, Refuse, QueryNoTable, EndSet, Answer
    <3>2. Answer(d, Failed) \/ call[d].op = "Taql" \/ call[d] \in Settings
      BY <1>1, <2>4 DEF Refuse, QueryNoTable, EndSet, AnswerInv
    <3>3. Answer(d, Failed) \/ call[d] \notin Conversions
      BY <3>2, ConversionsAlone
    <3> QED
      BY <1>4, <3>1, <3>3
  <2> QED
    BY <1>5, <2>1, <2>2, <2>3, <2>4 DEF ClientStep
<1>6. ASSUME NEW c \in Clients, NEW k \in DOMAIN reads[c],
             FanIn(c, k) \/ \E i \in Instances : RunRead(i, c, k)
      PROVE  AnswerInv(d)'
  <2>1. call' = call /\ listed' = listed
    BY <1>6 DEF FanIn, RunRead
  <2>2. PICK result : Deliver(c, k, result)
    BY <1>6 DEF FanIn, RunRead
  <2>3. CASE d # c
    <3>1. pc'[d] = pc[d] /\ answer'[d] = answer[d] /\ seen'[d] = seen[d]
      BY <1>1, <2>2, <2>3 DEF Deliver, Answer, TypeInv
    <3> QED
      BY <1>3, <2>1, <3>1
  <2>4. CASE d = c /\ call[c] \in Reads
    <3>1. pc'[d] = "answered" /\ call[d] \notin Conversions
      BY <1>1, <2>2, <2>4, ConversionsAlone DEF Deliver, Answer, TypeInv
    <3> QED
      BY <1>4, <2>1, <3>1
  <2>5. CASE d = c /\ call[c] \notin Reads
    <3>1. pc' = pc
      BY <2>2, <2>5 DEF Deliver
    <3>2. pc[c] # "answered"
      <4>1. CASE FanIn(c, k)
        BY <4>1 DEF FanIn, TableInv, ClientInv, ColumnsInv, ReadInv, Active
      <4>2. ASSUME NEW i \in Instances, RunRead(i, c, k) PROVE pc[c] # "answered"
        <5>1. k \in Nat /\ 0 \in Nat /\ Distinct
          BY <1>1, ColumnNumbers DEF TableInv
        <5>2. Runs(i, c, k, 0) /\ Dequeue(i) /\ nInstances' = nInstances
          BY <4>2 DEF RunRead
        <5>3. Pending(c, k, 0)
          BY <1>1, <5>1, <5>2, Dequeued
        <5>4. Active(c, k)
          BY <5>1, <5>3, ColumnTasks
        <5> QED
          BY <5>4 DEF Active
      <4> QED
        BY <1>6, <4>1, <4>2
    <3> QED
      BY <1>2, <2>1, <2>5, <3>1, <3>2
  <2> QED
    BY <2>3, <2>4, <2>5
<1>7. ASSUME NEW c \in Clients, Assemble(c) PROVE AnswerInv(d)'
  <2>1. /\ call' = call /\ listed' = listed /\ seen' = seen
        /\ \A k \in DOMAIN seen[c] : seen[c][k] # NoAnswer
        /\ Answer(c, Ok(ArrowTable(listed[c], seen[c])))
    BY <1>7 DEF Assemble
  <2>2. CASE d # c
    <3>1. pc'[d] = pc[d] /\ answer'[d] = answer[d]
      BY <1>1, <2>1, <2>2 DEF Answer, TypeInv
    <3> QED
      BY <1>3, <2>1, <3>1
  <2>3. CASE d = c
    <3>1. pc'[d] = "answered" /\ answer'[d] = Ok(ArrowTable(listed[d], seen[d]))
      BY <1>1, <2>1, <2>3 DEF Answer, TypeInv
    <3> QED
      BY <2>1, <2>3, <3>1 DEF AnswerInv
  <2> QED
    BY <2>2, <2>3
<1>8. ASSUME pc' = pc, UNCHANGED <<call, answer, listed, seen>> PROVE AnswerInv(d)'
  BY <1>3, <1>8
<1>9. ASSUME NEW c \in Clients, SubmitColumn(c) PROVE AnswerInv(d)'
  <2>1. /\ pc[c] = "columns" /\ UNCHANGED <<call, answer, listed, seen>>
        /\ pc'[c] \in {"wait", "columns"} /\ \A e \in Clients \ {c} : pc'[e] = pc[e]
    BY <1>1, <1>9 DEF SubmitColumn, TypeInv
  <2>2. CASE d = c
    BY <1>2, <2>1, <2>2
  <2>3. CASE d # c
    BY <1>3, <2>1, <2>3
  <2> QED
    BY <2>2, <2>3
<1>10. ASSUME NEW c \in Clients, NEW i \in Instances,
              RunQuery(i, c) \/ RunWrite(i, c) \/ RunStatement(i, c) \/ RunList(i, c)
       PROVE  AnswerInv(d)'
  <2>1. CASE d # c
    <3>1. /\ pc'[d] = pc[d] /\ call'[d] = call[d] /\ answer'[d] = answer[d] /\ listed'[d] = listed[d]
          /\ seen'[d] = seen[d]
      BY <1>1, <1>10, <2>1 DEF TypeInv, RunQuery, RunWrite, RunStatement, RunList, Answer
    <3> QED
      BY <1>3, <3>1
  <2>2. CASE d = c /\ (RunQuery(i, c) \/ RunWrite(i, c))
    <3>1. call' = call /\ pc'[d] = "answered" /\ call[d] \notin Conversions
      BY <1>1, <2>2, ConversionsAlone DEF TypeInv, RunQuery, RunWrite, Answer
    <3> QED
      BY <1>4, <3>1
  <2>3. CASE d = c /\ RunStatement(i, c)
    <3>1. call' = call /\ pc'[d] \in {"answered", "spawn"} /\ call[d] \notin Conversions
      BY <1>1, <2>3, ConversionsAlone DEF TypeInv, RunStatement, Answer
    <3> QED
      BY <1>2, <1>4, <3>1
  <2>4. CASE d = c /\ RunList(i, c)
    <3>1. call' = call /\ (Answer(d, Failed) \/ pc'[d] = "columns")
      BY <1>1, <2>4 DEF TypeInv, RunList
    <3>2. Answer(d, Failed) => pc'[d] = "answered"
      BY <1>1 DEF Answer, TypeInv
    <3> QED
      BY <1>2, <1>4, <3>1, <3>2
  <2> QED
    BY <1>10, <2>1, <2>2, <2>3, <2>4
<1>11. ASSUME NEW i \in Instances, RunTask(i) PROVE AnswerInv(d)'
  <2>1. PICK c \in Clients :
          \/ RunQuery(i, c) \/ RunWrite(i, c) \/ RunStatement(i, c) \/ RunList(i, c)
          \/ \E k \in DOMAIN reads[c] :
               \/ RunRead(i, c, k) \/ RunPartition(i, c, k)
               \/ \E p \in reads[c][k].left : RunPiece(i, c, k, p)
    BY <1>11 DEF RunTask
  <2>2. ASSUME NEW k \in DOMAIN reads[c],
               RunPartition(i, c, k) \/ \E p \in reads[c][k].left : RunPiece(i, c, k, p)
        PROVE  AnswerInv(d)'
    BY <1>8, <2>2 DEF RunPartition, RunPiece
  <2> QED
    BY <1>6, <1>10, <2>1, <2>2
<1>12. ASSUME NEW c \in Clients, Callback(c) PROVE AnswerInv(d)'
  <2>1. ASSUME NEW k \in DOMAIN reads[c], SubmitPiece(c, k) PROVE AnswerInv(d)'
    BY <1>8, <2>1 DEF SubmitPiece
  <2> QED
    BY <1>6, <1>7, <1>9, <1>12, <2>1 DEF Callback
<1>13. CASE UNCHANGED vars
  BY <1>8, <1>13 DEF vars, clientVars
<1> QED
  BY <1>5, <1>11, <1>12, <1>13 DEF Next

-----------------------------------------------------------------------------
(* All steps *)

\* Rows, tasks, columns and answers are in order, initially
LEMMA OrderInit == Init => OrderInv
<1> SUFFICES ASSUME Init PROVE OrderInv
  OBVIOUS
<1>1. Rectangular(table)
  BY TableAssumption DEF Init, TableAssumption, WellFormed, Rectangular
<1>2. InOrder
  BY DEF InOrder, Init, Instances
<1>3. ASSUME NEW c \in Clients PROVE SeenInv(c) /\ AnswerInv(c)
  <2>1. seen[c] = <<>> /\ answer[c] = NoAnswer /\ pc[c] = "idle"
    BY DEF Init
  <2>2. DOMAIN seen[c] = {} /\ answer[c].is # "ok"
    BY <2>1, ColumnRows
  <2> QED
    BY <2>1, <2>2 DEF SeenInv, AnswerInv
<1> QED
  BY <1>1, <1>2, <1>3 DEF OrderInv

\* And after every step
LEMMA OrderStep ==
  ASSUME TableInv, TableInv', OrderInv, [Next]_vars PROVE OrderInv'
<1>1. Rectangular(table)'
  BY RowsKeptByStep DEF RowsKept, OrderInv, TableInv
<1>2. InOrder'
  BY InOrderStep DEF OrderInv
<1> QED
  BY <1>1, <1>2, SeenStep, AnswersKept DEF OrderInv

\* The table that ToArrow() returns has the columns read, of which the first has the
\* fewest rows
LEMMA FirstIsShortest ==
  ASSUME TableInv, OrderInv PROVE NoColumnTooShort
<1>1. SUFFICES ASSUME NEW c \in Clients, call[c] \in Conversions, answer[c].is = "ok", c \notin shrunk,
                      NEW i \in DOMAIN answer[c].value
               PROVE  Len(answer[c].value[1].read.value) <= Len(answer[c].value[i].read.value)
  BY DEF NoColumnTooShort
<1>2. SeenInv(c) /\ AnswerInv(c)
  BY DEF OrderInv
<1>3. /\ answer[c] = Ok(ArrowTable(listed[c], seen[c]))
      /\ \A k \in DOMAIN seen[c] : seen[c][k] # NoAnswer
  BY <1>1, <1>2 DEF AnswerInv
<1>4. answer[c].value = ArrowTable(listed[c], seen[c])
  BY <1>3 DEF Ok
<1>5. Len(listed[c]) \in Nat /\ DOMAIN seen[c] = 1..Len(listed[c])
  BY DEF TableInv, TypeInv
<1>6. PICK j, l \in 1..Len(listed[c]) :
        /\ j <= l /\ seen[c][j] # Failed /\ seen[c][l] # Failed
        /\ answer[c].value[1].read = seen[c][j] /\ answer[c].value[i].read = seen[c][l]
  BY <1>1, <1>4, <1>5, FieldsOfTable
<1>7. seen[c][j].is = "ok" /\ seen[c][l].is = "ok"
  BY <1>2, <1>3, <1>5, <1>6, ColumnRows DEF SeenInv
<1>8. Len(seen[c][j].value) <= Len(seen[c][l].value)
  BY <1>1, <1>2, <1>5, <1>6, <1>7 DEF SeenInv, IsRead, RowsRead
<1> QED
  BY <1>6, <1>8

\* Rows may be added, by any number of clients, while ToArrow() reads its columns, and
\* still no column it returns is shorter than the first, of which arrow::Table::Make()
\* takes the number of rows: with one instance the columns are read in order, with
\* several the table doesn't change.  DELETE is what takes rows
THEOREM FirstColumnShortest ==
  ASSUME TaqlWriters \subseteq {1} PROVE Spec => []NoColumnTooShort
<1>1. TableInv /\ TableInv' /\ OrderInv /\ [Next]_vars => OrderInv'
  BY OrderStep
<1>2. Spec => []OrderInv
  BY <1>1, OrderInit, TableInvariance, PTL DEF Spec
<1>3. TableInv /\ OrderInv => NoColumnTooShort
  BY FirstIsShortest
<1> QED
  BY <1>2, <1>3, TableInvariance, PTL
=============================================================================

-------------------------- MODULE IsolatedTableProxyProofs --------------------------
(***************************************************************************)
(* Proofs about the life cycle of proxies, for any number of clients,      *)
(* instances and proxies.                                                  *)
(*                                                                         *)
(* The inductive invariant has three layers, each resting on those before: *)
(* control (what a thread is doing agrees with the tasks it waits for and  *)
(* the task it runs), ownership (what is owned is alive, and only one      *)
(* thread destroys it), and tables (pools outlive the tasks queued on      *)
(* them, and tables are closed before they are destroyed).                 *)
(***************************************************************************)
EXTENDS IsolatedTableProxy, TLAPS

-----------------------------------------------------------------------------
(* Control *)

ClientPCs == {"idle", "make", "dispatch", "wait", "close", "release", "deps", "pools", "join"}
InstancePCs == {"idle", "run", "callback", "dispatch", "teardown", "close", "release", "deps",
                "pools", "join"}

\* The thread that a task serves waits for it, and for no other of its kind
TaskAwaited(i, k) ==
  LET task == queue[i][k]
      t == task.thread
  IN  CASE task.kind = "run" ->
             /\ t \in Clients /\ pc[t] = "wait" /\ arg[t] = task.proxy
             /\ task.slot \in pending[t]
             /\ task.holds => task.slot = 0
        [] task.kind = "open" ->
             /\ t \in Clients /\ pc[t] = "make" /\ arg[t] = task.proxy
             /\ waits[t] = {i} /\ next[t] = i /\ task.slot = 0 /\ ~ task.holds
        [] task.kind = "close" ->
             /\ pc[t] = "close" /\ arg[t] = task.proxy
             /\ i \in waits[t] /\ i < next[t] /\ task.slot = 0 /\ ~ task.holds

TasksAwaited == \A i \in Instances : \A k \in DOMAIN queue[i] : TaskAwaited(i, k)

\* Is it the same piece of work?
SameWork(i, task, j, other) ==
  /\ task.kind = other.kind /\ task.thread = other.thread /\ task.slot = other.slot
  /\ task.kind = "close" => i = j

\* Nothing is queued twice
TasksDistinct ==
  \A i, j \in Instances : \A k \in DOMAIN queue[i], l \in DOMAIN queue[j] :
    SameWork(i, queue[i][k], j, queue[j][l]) => i = j /\ k = l

InCallback(i) == pc[i] \in {"callback", "dispatch"}

\* Until its callback submits groups, a call has no future but its first
FirstTaskAlone ==
  \A i \in Instances : \A k \in DOMAIN queue[i] :
    queue[i][k].kind = "run" /\ queue[i][k].slot = 0 =>
      \/ pending[queue[i][k].thread] = {0}
      \/ k = 1 /\ InCallback(i)

\* What an isolation thread is in the middle of is at the head of its queue.  The
\* groups that a callback has submitted come before the next one
ServesHead(i) ==
  /\ pc[i] = "run" \/ InCallback(i) => queue[i] # <<>> /\ queue[i][1].kind = "run"
  /\ InCallback(i) =>
       /\ queue[i][1].holds
       /\ \A s \in pending[queue[i][1].thread] : s < next[i]
  /\ pc[i] = "dispatch" => next[i] \in Instances

Serving == \A i \in Instances : ServesHead(i)

\* What a thread may do, and that it has destructors to return to if it is in one
InStep(t) ==
  /\ t \in Clients => pc[t] \in ClientPCs
  /\ t \in Instances => pc[t] \in InstancePCs
  /\ pc[t] \in {"release", "deps", "pools", "join"} => unwind[t] # <<>>
  /\ pc[t] \notin {"close", "release", "deps", "pools", "join"} => unwind[t] = <<>>
  /\ pc[t] = "close" /\ unwind[t] = <<>> => t \in Clients

ThreadsInStep == \A t \in Threads : InStep(t)

ControlInv ==
  /\ TypeOK
  /\ ThreadsInStep
  /\ Serving
  /\ TasksAwaited
  /\ TasksDistinct
  /\ FirstTaskAlone

-----------------------------------------------------------------------------
(* Ownership *)

\* Is t in the destructor of the innermost proxy it unwinds?
Destroying(t) == pc[t] \in {"release", "deps"} \/ (pc[t] = "close" /\ unwind[t] # <<>>)

\* Each dying proxy is being destroyed by one thread; those whose destructors it
\* came from are dead
DestructorsInStep ==
  \A t \in Threads :
    /\ Destroying(t) =>
         /\ phase[unwind[t][1]] = "dying"
         /\ pc[t] = "close" => arg[t] = unwind[t][1]
         /\ \A u \in Threads : Destroying(u) /\ unwind[u][1] = unwind[t][1] => u = t
    /\ \A k \in DOMAIN unwind[t] :
         k > 1 \/ ~ Destroying(t) => phase[unwind[t][k]] \in {"dead", "aborted"}

\* A client in a call, and one that closes, has a reference
CallersHold ==
  \A c \in Clients :
    pc[c] \in {"dispatch", "wait"} \/ (pc[c] = "close" /\ unwind[c] = <<>>) => c \in held[arg[c]]

\* A proxy is made by one client, which holds the one it spawns from
MakersHold ==
  \A c \in Clients : pc[c] = "make" =>
    /\ phase[arg[c]] = "making"
    /\ arg[c] # Root => parent[arg[c]] \in Proxies /\ c \in held[parent[arg[c]]]
    /\ \A d \in Clients : pc[d] = "make" /\ arg[d] = arg[c] => d = c

\* What has an owner is alive
OwnedAlive ==
  /\ \A p \in Proxies : held[p] # {} => phase[p] = "live"
  /\ \A i \in Instances : pc[i] = "teardown" => phase[arg[i]] = "live"
  /\ \A p \in Proxies :
       phase[p] \in {"live", "dying"} /\ parent[p] # NoProxy => phase[parent[p]] = "live"
  /\ parent[Root] = NoProxy

OwnershipInv ==
  /\ DestructorsInStep
  /\ CallersHold
  /\ MakersHold
  /\ OwnedAlive

-----------------------------------------------------------------------------
(* Tables *)

\* Who may still submit to the pools, or waits for a task on them, holds them
PoolsOutlive ==
  /\ \A p \in Proxies : phase[p] \in {"making", "live"} => p \in poolHeld \ cpu
  /\ \A t \in Threads : Destroying(t) /\ pc[t] # "deps" => unwind[t][1] \in poolHeld \ cpu
  /\ \A p \in cpu : phase[p] \in {"dying", "dead"} /\ isClosed[p]

\* Close() has closed the tables it has visited, unless it still waits for that
ClosesInTurn ==
  \A t \in Threads : pc[t] = "close" =>
    \A i \in Instances : i < next[t] /\ i \notin waits[t] => table[arg[t]][i] # "open"

\* A destructor past Close() is of a closed proxy, and what is closed has no open table
ClosedForGood ==
  /\ \A t \in Threads : pc[t] \in {"release", "deps"} => isClosed[unwind[t][1]]
  /\ \A p \in Proxies : phase[p] = "dead" => isClosed[p]
  /\ \A p \in Proxies : phase[p] \in {"live", "dying", "dead"} /\ isClosed[p] =>
       \A i \in Instances : table[p][i] # "open"

\* No close of its table is ahead of a task that was submitted before it
EarlyTasksAhead ==
  \A i \in Instances : \A k \in DOMAIN queue[i] :
    queue[i][k].kind = "run" /\ ~ queue[i][k].afterClose =>
      \A l \in 1..(k - 1) : ~ (queue[i][l].kind = "close" /\ queue[i][l].proxy = queue[i][k].proxy)

TableInv ==
  /\ PoolsOutlive
  /\ ClosesInTurn
  /\ ClosedForGood
  /\ EarlyTasksAhead
  /\ EarlyTasksServed
  /\ TableOpenWhileRunning

LifecycleInv == ControlInv /\ OwnershipInv /\ TableInv

-----------------------------------------------------------------------------
(* Queues *)

\* The threads, and the range of the loops over the instances
LEMMA Ranges ==
  /\ NInstances \in Nat \ {0}
  /\ Clients \subseteq Threads /\ Instances \subseteq Threads
  /\ \A t \in Threads : t \in Clients \/ t \in Instances
  /\ \A c \in Clients : c \notin Instances
  /\ Instances \subseteq Nat
  /\ 1 \in 1..(NInstances + 1)
  /\ \A i \in Instances : i \in 1..(NInstances + 1) /\ i + 1 \in 1..(NInstances + 1)
  /\ \A i \in Instances : i \in 0..NInstances /\ i # 0
  /\ 0 \in 0..NInstances
  BY InstancesAssumption, ThreadsAssumption
  DEF InstancesAssumption, ThreadsAssumption, Instances, Threads

\* Appending to a sequence
LEMMA AppendFacts ==
  ASSUME NEW S, NEW s \in Seq(S), NEW x \in S
  PROVE  /\ Append(s, x) \in Seq(S) /\ Append(s, x) # <<>>
         /\ \A k \in DOMAIN s : k \in DOMAIN Append(s, x) /\ Append(s, x)[k] = s[k]
         /\ \A k \in DOMAIN Append(s, x) :
              \/ k \in DOMAIN s
              \/ k = Len(s) + 1 /\ k \notin DOMAIN s /\ Append(s, x)[k] = x
         /\ \A k \in DOMAIN s : k \in Nat /\ 1 <= k /\ k < Len(s) + 1
         /\ Len(s) \in Nat
  OBVIOUS

\* Taking the head off a sequence
LEMMA TailFacts ==
  ASSUME NEW S, NEW s \in Seq(S), s # <<>>
  PROVE  /\ Tail(s) \in Seq(S)
         /\ Head(s) = s[1] /\ 1 \in DOMAIN s /\ Head(s) \in S
         /\ \A k \in DOMAIN Tail(s) :
              k \in Nat /\ 1 <= k /\ k + 1 \in DOMAIN s /\ Tail(s)[k] = s[k + 1]
  OBVIOUS

\* The tasks on the queues once one is appended
LEMMA Enqueued ==
  ASSUME TypeOK, NEW i \in Instances, NEW task \in Tasks, Enqueue(i, task)
  PROVE  /\ queue' \in [Instances -> Seq(Tasks)]
         /\ \A j \in Instances : \A k \in DOMAIN queue[j] :
              k \in DOMAIN queue'[j] /\ queue'[j][k] = queue[j][k]
         /\ \A j \in Instances : \A k \in DOMAIN queue'[j] :
              \/ k \in DOMAIN queue[j] /\ queue'[j][k] = queue[j][k]
              \/ /\ j = i /\ k = Len(queue[i]) + 1 /\ k \notin DOMAIN queue[i]
                 /\ queue'[j][k] = task
         /\ \A j \in Instances : queue[j] # <<>> => queue'[j] # <<>> /\ queue'[j][1] = queue[j][1]
<1>1. queue[i] \in Seq(Tasks)
  BY DEF TypeOK
<1>2. queue' = [queue EXCEPT ![i] = Append(queue[i], task)]
  BY DEF Enqueue
<1>3. /\ queue' \in [Instances -> Seq(Tasks)] /\ queue'[i] = Append(queue[i], task)
      /\ \A j \in Instances \ {i} : queue'[j] = queue[j]
  BY <1>1, <1>2, AppendFacts DEF TypeOK
<1>4. \A j \in Instances : \A k \in DOMAIN queue[j] :
        k \in DOMAIN queue'[j] /\ queue'[j][k] = queue[j][k]
  BY <1>1, <1>3, AppendFacts
<1>5. \A j \in Instances : \A k \in DOMAIN queue'[j] :
        \/ k \in DOMAIN queue[j] /\ queue'[j][k] = queue[j][k]
        \/ /\ j = i /\ k = Len(queue[i]) + 1 /\ k \notin DOMAIN queue[i]
           /\ queue'[j][k] = task
  BY <1>1, <1>3, AppendFacts
<1>6. ASSUME NEW j \in Instances, queue[j] # <<>>
      PROVE  queue'[j] # <<>> /\ queue'[j][1] = queue[j][1]
  <2>1. queue[j] \in Seq(Tasks)
    BY DEF TypeOK
  <2>2. 1 \in DOMAIN queue[j]
    BY <1>6, <2>1, TailFacts
  <2> QED
    BY <1>1, <1>3, <1>4, <1>6, <2>2, AppendFacts
<1> QED
  BY <1>3, <1>4, <1>5, <1>6

\* The tasks on the queues once the first of one is gone
LEMMA Dequeued ==
  ASSUME TypeOK, NEW i \in Instances, queue[i] # <<>>, queue' = [queue EXCEPT ![i] = Tail(@)]
  PROVE  /\ queue' \in [Instances -> Seq(Tasks)]
         /\ Head(queue[i]) = queue[i][1] /\ 1 \in DOMAIN queue[i] /\ queue[i][1] \in Tasks
         /\ \A j \in Instances \ {i} : queue'[j] = queue[j]
         /\ \A k \in DOMAIN queue'[i] :
              k \in Nat /\ 1 <= k /\ k + 1 \in DOMAIN queue[i] /\ queue'[i][k] = queue[i][k + 1]
<1>1. queue[i] \in Seq(Tasks)
  BY DEF TypeOK
<1>2. queue' = [queue EXCEPT ![i] = Tail(queue[i])]
  OBVIOUS
<1>3. /\ queue' \in [Instances -> Seq(Tasks)] /\ queue'[i] = Tail(queue[i])
      /\ \A j \in Instances \ {i} : queue'[j] = queue[j]
  BY <1>1, <1>2, TailFacts DEF TypeOK
<1> QED
  BY <1>1, <1>3, TailFacts

-----------------------------------------------------------------------------
(* Types *)

\* A task that is submitted is a task
LEMMA NewTasks ==
  /\ \A p \in Proxies, c \in Threads, slot \in 0..NInstances, holds, late \in BOOLEAN :
       RunTask(p, c, slot, holds, late) \in Tasks
  /\ \A kind \in {"open", "close"}, p \in Proxies, t \in Threads :
       ControlTask(kind, p, t) \in Tasks
  BY Ranges DEF Tasks, RunTask, ControlTask

\* A running task serves a client and a proxy
LEMMA Served ==
  ASSUME ControlInv, NEW i \in Instances, queue[i] # <<>>
  PROVE  /\ Head(queue[i]) = queue[i][1] /\ 1 \in DOMAIN queue[i]
         /\ Head(queue[i]) \in Tasks
         /\ Head(queue[i]).proxy \in Proxies /\ Head(queue[i]).thread \in Threads
         /\ Head(queue[i]).slot \in 0..NInstances
         /\ Head(queue[i]).holds \in BOOLEAN
         /\ Head(queue[i]).kind \in {"run", "open", "close"}
         /\ TaskAwaited(i, 1)
<1>1. queue[i] \in Seq(Tasks)
  BY DEF ControlInv, TypeOK
<1>2. Head(queue[i]) = queue[i][1] /\ 1 \in DOMAIN queue[i] /\ Head(queue[i]) \in Tasks
  BY <1>1, TailFacts
<1>3. TaskAwaited(i, 1)
  BY <1>2 DEF ControlInv, TasksAwaited
<1> QED
  BY <1>2, <1>3 DEF Tasks

\* The thread of a task of each kind
LEMMA ServedRun ==
  ASSUME ControlInv, NEW i \in Instances, queue[i] # <<>>, Head(queue[i]).kind = "run"
  PROVE  /\ Head(queue[i]).thread \in Clients
         /\ pc[Head(queue[i]).thread] = "wait" /\ arg[Head(queue[i]).thread] = Head(queue[i]).proxy
         /\ Head(queue[i]).slot \in pending[Head(queue[i]).thread]
         /\ Head(queue[i]).holds => Head(queue[i]).slot = 0
  BY Served DEF TaskAwaited

\* Of an open task
LEMMA ServedOpen ==
  ASSUME ControlInv, NEW i \in Instances, queue[i] # <<>>, Head(queue[i]).kind = "open"
  PROVE  /\ Head(queue[i]).thread \in Clients
         /\ pc[Head(queue[i]).thread] = "make" /\ arg[Head(queue[i]).thread] = Head(queue[i]).proxy
         /\ waits[Head(queue[i]).thread] = {i} /\ next[Head(queue[i]).thread] = i
  BY Served DEF TaskAwaited

\* Of a close task
LEMMA ServedClose ==
  ASSUME ControlInv, NEW i \in Instances, queue[i] # <<>>, Head(queue[i]).kind = "close"
  PROVE  /\ Head(queue[i]).thread \in Threads
         /\ pc[Head(queue[i]).thread] = "close" /\ arg[Head(queue[i]).thread] = Head(queue[i]).proxy
         /\ i \in waits[Head(queue[i]).thread] /\ i < next[Head(queue[i]).thread]
  BY Served DEF TaskAwaited

\* What an isolation thread runs, and in its callback dispatches for
LEMMA Running ==
  ASSUME ControlInv, NEW i \in Instances, pc[i] = "run" \/ InCallback(i)
  PROVE  /\ queue[i] # <<>> /\ Head(queue[i]).kind = "run"
         /\ InCallback(i) => Head(queue[i]).holds
         /\ InCallback(i) => \A s \in pending[Head(queue[i]).thread] : s < next[i]
  BY Served DEF ControlInv, Serving, ServesHead

\* A task that ends keeps the types
LEMMA CompleteType ==
  ASSUME ControlInv, NEW i \in Instances, queue[i] # <<>>, Head(queue[i]).kind = "run", Complete(i)
  PROVE  TypeOK'
<1> DEFINE task == Head(queue[i])
<1>1. task.proxy \in Proxies /\ task.thread \in Clients /\ i \in Threads /\ task.thread \in Threads
  BY Served, ServedRun, Ranges
<1>2. queue' \in [Instances -> Seq(Tasks)]
  BY Dequeued DEF Complete, ControlInv
<1>3. pending' \in [Clients -> SUBSET (0..NInstances)]
  BY <1>1 DEF Complete, ControlInv, TypeOK, UnfinishedFutures
<1>4. pc' \in [Threads -> PCs]
  BY <1>1 DEF Complete, ControlInv, TypeOK, PCs
<1>5. arg' \in [Threads -> Proxies]
  BY <1>1 DEF Complete, ControlInv, TypeOK
<1> QED
  BY <1>2, <1>3, <1>4, <1>5 DEF Complete, ControlInv, TypeOK, proxyVars

\* A reference dropped keeps the types
LEMMA DroppedType ==
  ASSUME TypeOK, NEW t \in Threads, NEW p, NEW ph \in [Proxies -> Phases], NEW last \in BOOLEAN,
         NEW after \in PCs, last => p \in Proxies, Dropped(t, p, ph, last, after)
  PROVE  /\ phase' \in [Proxies -> Phases]
         /\ pc' \in [Threads -> PCs]
         /\ arg' \in [Threads -> Proxies]
         /\ next' \in [Threads -> 1..(NInstances + 1)]
         /\ unwind' \in [Threads -> Seq(Proxies)]
<1>1. CASE last
  <2>1. Destructor(p) \in PCs
    BY DEF Destructor, PCs
  <2>2. phase' \in [Proxies -> Phases]
    BY <1>1 DEF Dropped, Phases
  <2>3. pc' \in [Threads -> PCs]
    BY <1>1, <2>1 DEF Dropped, TypeOK
  <2>4. arg' \in [Threads -> Proxies]
    BY <1>1 DEF Dropped, TypeOK
  <2>5. next' \in [Threads -> 1..(NInstances + 1)]
    BY <1>1, Ranges DEF Dropped, TypeOK
  <2>6. unwind' \in [Threads -> Seq(Proxies)]
    <3>1. unwind[t] \in Seq(Proxies) /\ <<p>> \in Seq(Proxies)
      BY <1>1 DEF TypeOK
    <3>2. <<p>> \o unwind[t] \in Seq(Proxies)
      BY <3>1
    <3> QED
      BY <1>1, <3>2 DEF Dropped, TypeOK
  <2> QED
    BY <2>2, <2>3, <2>4, <2>5, <2>6
<1>2. CASE ~ last
  BY <1>2 DEF Dropped, TypeOK
<1> QED
  BY <1>1, <1>2

\* Every step keeps the types
LEMMA TypeStep ==
  ASSUME ControlInv, [Next]_vars PROVE TypeOK'
<1> USE DEF ControlInv
<1>1. ASSUME NEW c \in Clients, StartMake(c) PROVE TypeOK'
  BY <1>1, Ranges, ProxiesAssumption DEF TypeOK, StartMake, Phases, PCs, ProxiesAssumption
<1>2. ASSUME NEW c \in Clients, NEW p \in Proxies, NEW q \in Proxies, StartSpawn(c, p, q)
      PROVE  TypeOK'
  BY <1>2, Ranges DEF TypeOK, StartSpawn, Phases, PCs
<1>3. ASSUME NEW c \in Clients, NEW p \in Proxies, Call(c, p) PROVE TypeOK'
  BY <1>3, Ranges DEF TypeOK, Call, PCs, proxyVars
<1>4. ASSUME NEW c \in Clients, NEW p \in Proxies, StartClose(c, p) PROVE TypeOK'
  BY <1>4, Ranges DEF TypeOK, StartClose, PCs, proxyVars
<1>5. ASSUME NEW c \in Clients, NEW p \in Proxies, ClientDrop(c, p) PROVE TypeOK'
  <2> DEFINE h == [held EXCEPT ![p] = @ \ {c}]
             last == ~ Referenced(p, h, phase, pc)
  <2>1. held' \in [Proxies -> SUBSET Clients]
    BY <1>5 DEF TypeOK, ClientDrop
  <2>2. c \in Threads /\ "idle" \in PCs /\ last \in BOOLEAN /\ phase \in [Proxies -> Phases]
    BY Ranges DEF PCs, TypeOK
  <2>3. Dropped(c, p, phase, last, "idle")
    BY <1>5 DEF ClientDrop
  <2> HIDE DEF last
  <2>4. /\ phase' \in [Proxies -> Phases] /\ pc' \in [Threads -> PCs]
        /\ arg' \in [Threads -> Proxies] /\ next' \in [Threads -> 1..(NInstances + 1)]
        /\ unwind' \in [Threads -> Seq(Proxies)]
    BY <2>2, <2>3, DroppedType
  <2> QED
    BY <1>5, <2>1, <2>4 DEF TypeOK, ClientDrop
<1>6. ASSUME NEW c \in Clients, MakeSubmit(c) PROVE TypeOK'
  <2>1. c \in Threads /\ next[c] \in Instances /\ arg[c] \in Proxies
    BY <1>6, Ranges DEF TypeOK, MakeSubmit
  <2>2. queue' \in [Instances -> Seq(Tasks)]
    BY <1>6, <2>1, NewTasks, Enqueued DEF MakeSubmit
  <2> QED
    BY <1>6, <2>1, <2>2 DEF TypeOK, MakeSubmit, proxyVars
<1>7. ASSUME NEW c \in Clients, MakeReturn(c) PROVE TypeOK'
  BY <1>7, Ranges DEF TypeOK, MakeReturn, Phases, PCs
<1>8. ASSUME NEW c \in Clients, NEW i \in Instances, NEW holds \in BOOLEAN, CallSubmit(c, i, holds)
      PROVE  TypeOK'
  <2>1. c \in Threads /\ arg[c] \in Proxies /\ CloseQueued(arg[c], i) \in BOOLEAN
    BY Ranges DEF TypeOK, CloseQueued
  <2>2. queue' \in [Instances -> Seq(Tasks)]
    BY <1>8, <2>1, Ranges, NewTasks, Enqueued DEF CallSubmit
  <2>3. pending' \in [Clients -> SUBSET (0..NInstances)]
    BY <1>8, Ranges DEF TypeOK, CallSubmit
  <2> QED
    BY <1>8, <2>1, <2>2, <2>3 DEF TypeOK, CallSubmit, PCs, proxyVars
<1>9. ASSUME NEW i \in Instances, OpenSucceeds(i) PROVE TypeOK'
  <2> DEFINE task == Head(queue[i])
  <2>1. queue[i] # <<>> /\ task.kind = "open" /\ queue' \in [Instances -> Seq(Tasks)]
    BY <1>9, Dequeued DEF OpenSucceeds, OpenTask
  <2>2. /\ task.thread \in Threads /\ task.proxy \in Proxies
        /\ next[task.thread] + 1 \in 1..(NInstances + 1)
    BY <2>1, Served, ServedOpen, Ranges
  <2>3. table' \in [Proxies -> [Instances -> TableStates]]
    BY <1>9, <2>2 DEF TypeOK, OpenSucceeds, TableStates
  <2>4. next' \in [Threads -> 1..(NInstances + 1)]
    BY <1>9, <2>2 DEF TypeOK, OpenSucceeds
  <2> QED
    BY <1>9, <2>1, <2>2, <2>3, <2>4 DEF TypeOK, OpenSucceeds
<1>10. ASSUME NEW i \in Instances, OpenFails(i) PROVE TypeOK'
  <2> DEFINE task == Head(queue[i])
  <2>1. queue[i] # <<>> /\ task.kind = "open" /\ queue' \in [Instances -> Seq(Tasks)]
    BY <1>10, Dequeued DEF OpenFails, OpenTask
  <2>2. task.thread \in Threads /\ task.proxy \in Proxies
    BY <2>1, Served
  <2>3. phase' \in [Proxies -> Phases] /\ pc' \in [Threads -> PCs]
    BY <1>10, <2>2 DEF TypeOK, OpenFails, Phases, PCs
  <2>4. unwind' \in [Threads -> Seq(Proxies)]
    <3>1. <<task.proxy>> \in Seq(Proxies)
      BY <2>2
    <3> QED
      BY <1>10, <2>2, <3>1 DEF TypeOK, OpenFails
  <2> QED
    BY <1>10, <2>1, <2>2, <2>3, <2>4 DEF TypeOK, OpenFails
<1>11. ASSUME NEW i \in Instances, StartFunctor(i) PROVE TypeOK'
  BY <1>11, Ranges DEF TypeOK, StartFunctor, PCs, proxyVars
<1>12. ASSUME NEW i \in Instances, RejectTask(i) PROVE TypeOK'
  BY <1>12, CompleteType DEF RejectTask
<1>13. ASSUME NEW i \in Instances, EndFunctor(i) PROVE TypeOK'
  BY <1>13, Running, CompleteType DEF EndFunctor
<1>14. ASSUME NEW i \in Instances, StartCallback(i) PROVE TypeOK'
  BY <1>14, Ranges DEF TypeOK, StartCallback, PCs, proxyVars
<1>15. ASSUME NEW i \in Instances, CallbackCheck(i) PROVE TypeOK'
  <2>1. next[i] \in Instances /\ i \in Threads
    BY <1>15, Ranges DEF CallbackCheck, MoreGroups
  <2>2. next' \in [Threads -> 1..(NInstances + 1)]
    BY <1>15, <2>1, Ranges DEF TypeOK, CallbackCheck
  <2> QED
    BY <1>15, <2>1, <2>2 DEF TypeOK, CallbackCheck, PCs, proxyVars
<1>16. ASSUME NEW i \in Instances, CallbackReturn(i) PROVE TypeOK'
  BY <1>16, Running, CompleteType DEF CallbackReturn, InCallback
<1>17. ASSUME NEW i \in Instances, NEW j \in Instances, CallbackSubmit(i, j) PROVE TypeOK'
  <2> DEFINE task == Head(queue[i])
  <2>1. queue[i] # <<>> /\ task.kind = "run"
    BY <1>17, Running DEF CallbackSubmit, InCallback
  <2>2. next[i] \in Instances /\ i \in Threads
    BY <1>17, Ranges DEF CallbackSubmit, Serving, ServesHead
  <2>3. /\ task.proxy \in Proxies /\ task.thread \in Clients /\ task.thread \in Threads
        /\ CloseQueued(task.proxy, j) \in BOOLEAN
    BY <2>1, Served, ServedRun DEF CloseQueued
  <2>4. queue' \in [Instances -> Seq(Tasks)]
    BY <1>17, <2>2, <2>3, Ranges, NewTasks, Enqueued DEF CallbackSubmit
  <2>5. pending' \in [Clients -> SUBSET (0..NInstances)]
    BY <1>17, <2>2, <2>3, Ranges DEF TypeOK, CallbackSubmit
  <2>6. next' \in [Threads -> 1..(NInstances + 1)]
    BY <1>17, <2>2, Ranges DEF TypeOK, CallbackSubmit
  <2> QED
    BY <1>17, <2>2, <2>4, <2>5, <2>6 DEF TypeOK, CallbackSubmit, PCs, proxyVars
<1>18. ASSUME NEW i \in Instances, CloseTask(i) PROVE TypeOK'
  <2> DEFINE task == Head(queue[i])
  <2>1. queue[i] # <<>> /\ task.kind = "close" /\ queue' \in [Instances -> Seq(Tasks)]
    BY <1>18, Dequeued DEF CloseTask
  <2>2. task.thread \in Threads /\ task.proxy \in Proxies
    BY <2>1, Served
  <2>3. table' \in [Proxies -> [Instances -> TableStates]]
    BY <1>18, <2>2 DEF TypeOK, CloseTask, TableStates, Closed
  <2> QED
    BY <1>18, <2>1, <2>2, <2>3 DEF TypeOK, CloseTask
<1>19. ASSUME NEW i \in Instances, TeardownCallback(i) PROVE TypeOK'
  <2> DEFINE last == ~ Referenced(arg[i], held, phase, [pc EXCEPT ![i] = "idle"])
  <2>1. /\ i \in Threads /\ "idle" \in PCs /\ last \in BOOLEAN /\ arg[i] \in Proxies
        /\ phase \in [Proxies -> Phases]
    BY Ranges DEF PCs, TypeOK
  <2>2. Dropped(i, arg[i], phase, last, "idle")
    BY <1>19 DEF TeardownCallback
  <2> HIDE DEF last
  <2>3. /\ phase' \in [Proxies -> Phases] /\ pc' \in [Threads -> PCs]
        /\ arg' \in [Threads -> Proxies] /\ next' \in [Threads -> 1..(NInstances + 1)]
        /\ unwind' \in [Threads -> Seq(Proxies)]
    BY <2>1, <2>2, DroppedType
  <2> QED
    BY <1>19, <2>3 DEF TypeOK, TeardownCallback
<1>20. ASSUME NEW t \in Threads, CloseInline(t) PROVE TypeOK'
  <2>1. next[t] \in Instances /\ arg[t] \in Proxies
    BY <1>20 DEF TypeOK, CloseInline
  <2>2. table' \in [Proxies -> [Instances -> TableStates]]
    BY <1>20, <2>1 DEF TypeOK, CloseInline, TableStates, Closed
  <2>3. next' \in [Threads -> 1..(NInstances + 1)]
    BY <1>20, <2>1, Ranges DEF TypeOK, CloseInline
  <2> QED
    BY <1>20, <2>2, <2>3 DEF TypeOK, CloseInline
<1>21. ASSUME NEW t \in Threads, CloseSubmit(t) PROVE TypeOK'
  <2>1. next[t] \in Instances /\ arg[t] \in Proxies
    BY <1>21 DEF TypeOK, CloseSubmit
  <2>2. queue' \in [Instances -> Seq(Tasks)]
    BY <1>21, <2>1, NewTasks, Enqueued DEF CloseSubmit
  <2>3. next' \in [Threads -> 1..(NInstances + 1)]
    BY <1>21, <2>1, Ranges DEF TypeOK, CloseSubmit
  <2> QED
    BY <1>21, <2>1, <2>2, <2>3 DEF TypeOK, CloseSubmit, proxyVars
<1>22. ASSUME NEW t \in Threads, CloseReturn(t) PROVE TypeOK'
  BY <1>22 DEF TypeOK, CloseReturn, PCs
<1>23. ASSUME NEW t \in Threads, ReleasePools(t) PROVE TypeOK'
  <2>1. unwind[t] \in Seq(Proxies) /\ unwind[t] # <<>>
    BY <1>23 DEF TypeOK, ReleasePools, ThreadsInStep, InStep
  <2>2. Head(unwind[t]) \in Proxies
    BY <2>1, TailFacts
  <2>3. cpu' \in SUBSET Proxies
    BY <1>23, <2>2 DEF TypeOK, ReleasePools
  <2> QED
    BY <1>23, <2>3 DEF TypeOK, ReleasePools, PCs
<1>24. ASSUME NEW t \in Threads, DropDependencies(t) PROVE TypeOK'
  <2> DEFINE p == Head(unwind[t])
             q == parent[p]
             ph == [phase EXCEPT ![p] = "dead"]
             last == q # NoProxy /\ ~ Referenced(q, held, ph, pc)
  <2>1. unwind[t] \in Seq(Proxies) /\ unwind[t] # <<>>
    BY <1>24 DEF TypeOK, DropDependencies, ThreadsInStep, InStep
  <2>2. p \in Proxies
    BY <2>1, TailFacts
  <2>3. ph \in [Proxies -> Phases] /\ (last => q \in Proxies) /\ last \in BOOLEAN /\ "pools" \in PCs
    BY <2>2 DEF TypeOK, Phases, PCs
  <2>4. Dropped(t, q, ph, last, "pools")
    BY <1>24 DEF DropDependencies
  <2> HIDE DEF p, q, ph, last
  <2>5. /\ phase' \in [Proxies -> Phases] /\ pc' \in [Threads -> PCs]
        /\ arg' \in [Threads -> Proxies] /\ next' \in [Threads -> 1..(NInstances + 1)]
        /\ unwind' \in [Threads -> Seq(Proxies)]
    BY <2>3, <2>4, DroppedType
  <2> QED
    BY <1>24, <2>5 DEF TypeOK, DropDependencies
<1>25. ASSUME NEW t \in Threads, DropPools(t) PROVE TypeOK'
  BY <1>25 DEF TypeOK, DropPools, PCs
<1>26. ASSUME NEW t \in Threads, JoinPools(t) PROVE TypeOK'
  <2>1. unwind[t] \in Seq(Proxies) /\ unwind[t] # <<>>
    BY <1>26 DEF TypeOK, JoinPools, ThreadsInStep, InStep
  <2>2. Head(unwind[t]) \in Proxies /\ Tail(unwind[t]) \in Seq(Proxies)
    BY <2>1, TailFacts
  <2>3. table' \in [Proxies -> [Instances -> TableStates]]
    BY <1>26, <2>2 DEF TypeOK, JoinPools, TableStates
  <2>4. unwind' \in [Threads -> Seq(Proxies)]
    BY <1>26, <2>2 DEF TypeOK, JoinPools
  <2>5. pc' \in [Threads -> PCs]
    BY <1>26 DEF TypeOK, JoinPools, PCs
  <2> QED
    BY <1>26, <2>3, <2>4, <2>5 DEF TypeOK, JoinPools
<1>27. ASSUME NEW p \in Proxies, CpuDelete(p) PROVE TypeOK'
  BY <1>27 DEF TypeOK, CpuDelete, TableStates, threadVars
<1>28. CASE UNCHANGED vars
  BY <1>28 DEF TypeOK, vars
<1> QED
  BY <1>1, <1>2, <1>3, <1>4, <1>5, <1>6, <1>7, <1>8, <1>9, <1>10, <1>11, <1>12, <1>13,
     <1>14, <1>15, <1>16, <1>17, <1>18, <1>19, <1>20, <1>21, <1>22, <1>23, <1>24, <1>25,
     <1>26, <1>27, <1>28
  DEF Next, ClientStarts, ClientStep, WorkerStep, DestroyStep

-----------------------------------------------------------------------------
(* Control *)

\* No task serves t
Quiet(t) == \A i \in Instances : \A k \in DOMAIN queue[i] : queue[i][k].thread # t

\* Tasks serve threads that wait for them
LEMMA QuietThreads ==
  ASSUME ControlInv, NEW t \in Threads,
         \/ pc[t] \notin {"wait", "make", "close"}
         \/ pc[t] \in {"make", "close"} /\ waits[t] = {}
  PROVE  Quiet(t)
<1> SUFFICES ASSUME NEW i \in Instances, NEW k \in DOMAIN queue[i], queue[i][k].thread = t
             PROVE  FALSE
  BY DEF Quiet
<1>1. TaskAwaited(i, k) /\ queue[i][k].kind \in {"run", "open", "close"}
  <2>1. queue[i][k] \in Tasks
    BY DEF ControlInv, TypeOK
  <2> QED
    BY <2>1 DEF ControlInv, TasksAwaited, Tasks
<1> QED
  BY <1>1 DEF TaskAwaited

\* A task is still awaited if its thread goes on waiting for it
LEMMA StillAwaited ==
  ASSUME NEW i \in Instances, NEW k, NEW l, TaskAwaited(i, k), queue'[i][l] = queue[i][k],
         NEW t, t = queue[i][k].thread,
         queue[i][k].kind \in {"run", "open", "close"},
         pc'[t] = pc[t], arg'[t] = arg[t],
         t \in Clients => pending[t] \subseteq pending'[t]
                          \/ queue[i][k].slot \in pending'[t],
         pc[t] # "close" => waits'[t] = waits[t] /\ next'[t] = next[t],
         pc[t] = "close" /\ i \in waits[t] /\ i < next[t] => i \in waits'[t] /\ i < next'[t]
  PROVE  TaskAwaited(i, l)'
<1>1. CASE queue[i][k].kind = "run"
  BY <1>1 DEF TaskAwaited
<1>2. CASE queue[i][k].kind = "open"
  BY <1>2 DEF TaskAwaited
<1>3. CASE queue[i][k].kind = "close"
  BY <1>3 DEF TaskAwaited
<1> QED
  BY <1>1, <1>2, <1>3

\* A step of thread t that leaves the queues, what it waits for and other threads
\* alone.  No task serves it, or it goes on with a Close()
LEMMA ThreadMoves ==
  ASSUME ControlInv, TypeOK', NEW t \in Threads, UNCHANGED <<queue, waits, pending>>,
         \A u \in Threads \ {t} : /\ pc'[u] = pc[u] /\ arg'[u] = arg[u]
                                  /\ next'[u] = next[u] /\ unwind'[u] = unwind[u],
         \/ Quiet(t)
         \/ /\ pc[t] = "close" /\ pc'[t] = "close" /\ arg'[t] = arg[t] /\ t \notin Clients
            /\ \A i \in Instances : i < next[t] => i < next'[t],
         InStep(t)', t \in Instances => ServesHead(t)',
         t \in Instances /\ InCallback(t) => InCallback(t)'
  PROVE  ControlInv'
<1>1. ThreadsInStep'
  BY DEF ControlInv, ThreadsInStep, InStep
<1>2. Serving'
  BY Ranges DEF ControlInv, Serving, ServesHead, InCallback
<1>3. ASSUME NEW i \in Instances, NEW k \in DOMAIN queue[i] PROVE TaskAwaited(i, k)'
  <2> DEFINE u == queue[i][k].thread
  <2>1. queue[i][k] \in Tasks
    BY <1>3 DEF ControlInv, TypeOK
  <2>2. /\ u \in Threads /\ queue[i][k].kind \in {"run", "open", "close"}
        /\ queue'[i][k] = queue[i][k] /\ TaskAwaited(i, k)
    BY <1>3, <2>1 DEF Tasks, ControlInv, TasksAwaited
  <2>3. CASE u # t
    <3>1. /\ pc'[u] = pc[u] /\ arg'[u] = arg[u] /\ next'[u] = next[u] /\ waits'[u] = waits[u]
          /\ pending' = pending
      BY <2>2, <2>3
    <3> HIDE DEF u
    <3> QED
      BY <2>2, <3>1, StillAwaited DEF u
  <2>4. CASE u = t
    <3>1. ~ Quiet(t)
      BY <1>3, <2>4 DEF Quiet
    <3>2. /\ pc[t] = "close" /\ pc'[t] = "close" /\ arg'[t] = arg[t] /\ t \notin Clients
          /\ waits'[t] = waits[t] /\ (i < next[t] => i < next'[t])
      BY <3>1
    <3> QED
      BY <2>2, <2>4, <3>2, StillAwaited
  <2> QED
    BY <2>3, <2>4
<1>4. TasksAwaited'
  BY <1>3 DEF TasksAwaited
<1>5. TasksDistinct'
  BY DEF ControlInv, TasksDistinct, SameWork
<1>6. FirstTaskAlone'
  <2> SUFFICES ASSUME NEW i \in Instances, NEW k \in DOMAIN queue[i],
                      queue[i][k].kind = "run", queue[i][k].slot = 0,
                      pending[queue[i][k].thread] # {0}
               PROVE  k = 1 /\ InCallback(i)'
    BY DEF FirstTaskAlone
  <2>1. k = 1 /\ InCallback(i)
    BY DEF ControlInv, FirstTaskAlone
  <2> QED
    BY <2>1, Ranges DEF InCallback
<1> QED
  BY <1>1, <1>2, <1>4, <1>5, <1>6 DEF ControlInv

\* A task is submitted that is awaited, and is none of those already queued
LEMMA Submitted ==
  ASSUME ControlInv, NEW i \in Instances, NEW task \in Tasks, Enqueue(i, task),
         \A j \in Instances : \A k \in DOMAIN queue[j] :
           TaskAwaited(j, k)' /\ ~ SameWork(j, queue[j][k], i, task),
         \A k \in DOMAIN queue'[i] : queue'[i][k] = task => TaskAwaited(i, k)'
  PROVE  TasksAwaited' /\ TasksDistinct'
<1>1. \A j \in Instances : \A k \in DOMAIN queue'[j] :
        \/ k \in DOMAIN queue[j] /\ queue'[j][k] = queue[j][k]
        \/ /\ j = i /\ k = Len(queue[i]) + 1 /\ k \notin DOMAIN queue[i]
           /\ queue'[j][k] = task
  BY Enqueued DEF ControlInv
<1>2. TasksAwaited'
  BY <1>1 DEF TasksAwaited
<1>3. TasksDistinct'
  <2> SUFFICES ASSUME NEW j \in Instances, NEW m \in Instances,
                      NEW k \in DOMAIN queue'[j], NEW l \in DOMAIN queue'[m],
                      SameWork(j, queue'[j][k], m, queue'[m][l])
               PROVE  j = m /\ k = l
    BY DEF TasksDistinct, SameWork
  <2>1. CASE /\ k \in DOMAIN queue[j] /\ queue'[j][k] = queue[j][k]
             /\ l \in DOMAIN queue[m] /\ queue'[m][l] = queue[m][l]
    BY <2>1 DEF ControlInv, TasksDistinct
  <2>2. CASE ~ (k \in DOMAIN queue[j] /\ queue'[j][k] = queue[j][k])
    <3>1. j = i /\ k = Len(queue[i]) + 1 /\ queue'[j][k] = task
      BY <1>1, <2>2
    <3>2. ~ (l \in DOMAIN queue[m] /\ queue'[m][l] = queue[m][l])
      BY <3>1 DEF SameWork
    <3> QED
      BY <1>1, <3>1, <3>2
  <2>3. CASE ~ (l \in DOMAIN queue[m] /\ queue'[m][l] = queue[m][l])
    <3>1. m = i /\ l = Len(queue[i]) + 1 /\ queue'[m][l] = task
      BY <1>1, <2>3
    <3>2. ~ (k \in DOMAIN queue[j] /\ queue'[j][k] = queue[j][k])
      BY <3>1 DEF SameWork
    <3> QED
      BY <1>1, <3>1, <3>2
  <2> QED
    BY <2>1, <2>2, <2>3
<1> QED
  BY <1>2, <1>3

\* A task queued is a task, awaited by a thread
LEMMA QueuedTask ==
  ASSUME ControlInv, NEW i \in Instances, NEW k \in DOMAIN queue[i]
  PROVE  /\ queue[i][k] \in Tasks /\ TaskAwaited(i, k)
         /\ queue[i][k].thread \in Threads /\ queue[i][k].proxy \in Proxies
         /\ queue[i][k].slot \in 0..NInstances
         /\ queue[i][k].kind \in {"run", "open", "close"}
<1>1. queue[i][k] \in Tasks
  BY DEF ControlInv, TypeOK
<1> QED
  BY <1>1 DEF ControlInv, TasksAwaited, Tasks

\* Make() and Spawn() submit an open
LEMMA MakeSubmitControl ==
  ASSUME ControlInv, TypeOK', NEW c \in Clients, MakeSubmit(c) PROVE ControlInv'
<1>0. PICK i \in Instances : i = next[c]
  BY DEF MakeSubmit
<1> DEFINE task == ControlTask("open", arg[c], c)
<1>1. /\ i \in Instances /\ c \in Threads /\ arg[c] \in Proxies /\ pc[c] = "make" /\ waits[c] = {}
      /\ task \in Tasks /\ Enqueue(i, task) /\ waits' = [waits EXCEPT ![c] = {i}]
      /\ UNCHANGED <<pc, arg, next, unwind, pending>>
  BY <1>0, Ranges, NewTasks DEF ControlInv, TypeOK, MakeSubmit
<1>2. Quiet(c)
  BY <1>1, QuietThreads
<1>3. ASSUME NEW j \in Instances, NEW k \in DOMAIN queue[j]
      PROVE  TaskAwaited(j, k)' /\ ~ SameWork(j, queue[j][k], i, task)
  <2> DEFINE u == queue[j][k].thread
  <2>1. /\ u \in Threads /\ u # c /\ TaskAwaited(j, k) /\ queue[j][k].kind \in {"run", "open", "close"}
    BY <1>2, <1>3, QueuedTask DEF Quiet
  <2>2. queue'[j][k] = queue[j][k]
    BY <1>1, <1>3, Enqueued DEF ControlInv
  <2>3. waits'[u] = waits[u]
    BY <1>1, <2>1 DEF ControlInv, TypeOK
  <2>4. TaskAwaited(j, k)'
    <3> HIDE DEF u
    <3> QED
      BY <1>1, <2>1, <2>2, <2>3, StillAwaited DEF u
  <2> QED
    BY <2>1, <2>4 DEF SameWork, ControlTask
<1>4. \A k \in DOMAIN queue'[i] : queue'[i][k] = task => TaskAwaited(i, k)'
  <2>1. waits'[c] = {i} /\ next[c] = i
    BY <1>0, <1>1 DEF ControlInv, TypeOK
  <2> QED
    BY <1>1, <2>1 DEF TaskAwaited, ControlTask
<1>5. TasksAwaited' /\ TasksDistinct'
  <2> HIDE DEF task
  <2> QED
    BY <1>1, <1>3, <1>4, Submitted
<1>6. /\ \A j \in Instances : queue[j] # <<>> => queue'[j] # <<>> /\ queue'[j][1] = queue[j][1]
      /\ \A j \in Instances : \A k \in DOMAIN queue'[j] :
           \/ k \in DOMAIN queue[j] /\ queue'[j][k] = queue[j][k]
           \/ queue'[j][k].kind = "open"
  BY <1>1, Enqueued DEF ControlInv, ControlTask
<1>7. ThreadsInStep' /\ Serving'
  BY <1>1, <1>6 DEF ControlInv, ThreadsInStep, InStep, Serving, ServesHead, InCallback
<1>8. FirstTaskAlone'
  BY <1>1, <1>6 DEF ControlInv, FirstTaskAlone, InCallback
<1> QED
  BY <1>5, <1>7, <1>8 DEF ControlInv

\* Close() submits a close
LEMMA CloseSubmitControl ==
  ASSUME ControlInv, TypeOK', NEW t \in Threads, CloseSubmit(t) PROVE ControlInv'
<1>0. PICK i \in Instances : i = next[t]
  BY DEF CloseSubmit
<1> DEFINE task == ControlTask("close", arg[t], t)
<1>1. /\ i \in Instances /\ arg[t] \in Proxies /\ pc[t] = "close"
      /\ task \in Tasks /\ Enqueue(i, task) /\ waits' = [waits EXCEPT ![t] = @ \cup {i}]
      /\ next' = [next EXCEPT ![t] = i + 1]
      /\ UNCHANGED <<pc, arg, unwind, pending>>
  BY <1>0, NewTasks DEF ControlInv, TypeOK, CloseSubmit
<1>2. /\ waits'[t] = waits[t] \cup {i} /\ next'[t] = i + 1
      /\ \A u \in Threads \ {t} : waits'[u] = waits[u] /\ next'[u] = next[u]
      /\ \A j \in Instances : j < i => j < i + 1 /\ j # i
      /\ i < i + 1 /\ next[t] = i
  BY <1>0, <1>1, Ranges DEF ControlInv, TypeOK
<1>3. ASSUME NEW j \in Instances, NEW k \in DOMAIN queue[j]
      PROVE  TaskAwaited(j, k)' /\ ~ SameWork(j, queue[j][k], i, task)
  <2> DEFINE u == queue[j][k].thread
  <2>1. u \in Threads /\ TaskAwaited(j, k) /\ queue[j][k].kind \in {"run", "open", "close"}
    BY <1>3, QueuedTask
  <2>2. queue'[j][k] = queue[j][k]
    BY <1>1, <1>3, Enqueued DEF ControlInv
  <2>3. TaskAwaited(j, k)'
    <3>1. /\ pc[u] # "close" => waits'[u] = waits[u] /\ next'[u] = next[u]
          /\ pc[u] = "close" /\ j \in waits[u] /\ j < next[u] => j \in waits'[u] /\ j < next'[u]
      BY <1>1, <1>2, <2>1
    <3> HIDE DEF u
    <3> QED
      BY <1>1, <2>1, <2>2, <3>1, StillAwaited DEF u
  <2>4. ASSUME SameWork(j, queue[j][k], i, task) PROVE FALSE
    <3>1. queue[j][k].kind = "close" /\ u = t /\ j = i
      BY <2>4 DEF SameWork, ControlTask
    <3>2. j < next[t]
      BY <2>1, <3>1 DEF TaskAwaited
    <3> QED
      BY <1>2, <3>1, <3>2
  <2> QED
    BY <2>3, <2>4
<1>4. \A k \in DOMAIN queue'[i] : queue'[i][k] = task => TaskAwaited(i, k)'
  BY <1>1, <1>2 DEF TaskAwaited, ControlTask
<1>5. TasksAwaited' /\ TasksDistinct'
  <2> HIDE DEF task
  <2> QED
    BY <1>1, <1>3, <1>4, Submitted
<1>6. /\ \A j \in Instances : queue[j] # <<>> => queue'[j] # <<>> /\ queue'[j][1] = queue[j][1]
      /\ \A j \in Instances : \A k \in DOMAIN queue'[j] :
           \/ k \in DOMAIN queue[j] /\ queue'[j][k] = queue[j][k]
           \/ queue'[j][k].kind = "close"
  BY <1>1, Enqueued DEF ControlInv, ControlTask
<1>7. ThreadsInStep'
  BY <1>1 DEF ControlInv, ThreadsInStep, InStep
<1>8. Serving'
  BY <1>1, <1>2, <1>6, Ranges DEF ControlInv, Serving, ServesHead, InCallback
<1>9. FirstTaskAlone'
  BY <1>1, <1>6 DEF ControlInv, FirstTaskAlone, InCallback
<1> QED
  BY <1>5, <1>7, <1>8, <1>9 DEF ControlInv

\* A call submits its first task
LEMMA CallSubmitControl ==
  ASSUME ControlInv, TypeOK', NEW c \in Clients, NEW i \in Instances, NEW holds \in BOOLEAN,
         CallSubmit(c, i, holds)
  PROVE  ControlInv'
<1> DEFINE late == CloseQueued(arg[c], i)
           task == RunTask(arg[c], c, 0, holds, late)
<1>1. /\ c \in Threads /\ arg[c] \in Proxies /\ pc[c] = "dispatch" /\ late \in BOOLEAN
      /\ Enqueue(i, task) /\ pending' = [pending EXCEPT ![c] = {0}]
      /\ pc' = [pc EXCEPT ![c] = "wait"]
      /\ UNCHANGED <<arg, next, waits, unwind>>
  BY Ranges DEF ControlInv, TypeOK, CallSubmit, CloseQueued
<1> HIDE DEF late
<1>2. task \in Tasks
  BY <1>1, Ranges, NewTasks
<1>3. Quiet(c)
  BY <1>1, QuietThreads
<1>4. /\ pc'[c] = "wait" /\ pending'[c] = {0}
      /\ \A u \in Threads \ {c} : pc'[u] = pc[u]
      /\ \A d \in Clients \ {c} : pending'[d] = pending[d]
      /\ \A j \in Instances : pc'[j] = pc[j]
  BY <1>1, Ranges DEF ControlInv, TypeOK
<1>5. ASSUME NEW j \in Instances, NEW k \in DOMAIN queue[j]
      PROVE  TaskAwaited(j, k)' /\ ~ SameWork(j, queue[j][k], i, task)
  <2> DEFINE u == queue[j][k].thread
  <2>1. /\ u \in Threads /\ u # c /\ TaskAwaited(j, k) /\ queue[j][k].kind \in {"run", "open", "close"}
    BY <1>3, <1>5, QueuedTask DEF Quiet
  <2>2. queue'[j][k] = queue[j][k]
    BY <1>1, <1>2, <1>5, Enqueued DEF ControlInv
  <2>3. pc'[u] = pc[u] /\ (u \in Clients => pending'[u] = pending[u])
    BY <1>4, <2>1
  <2>4. TaskAwaited(j, k)'
    <3> HIDE DEF u
    <3> QED
      BY <1>1, <2>1, <2>2, <2>3, StillAwaited DEF u
  <2> QED
    BY <2>1, <2>4 DEF SameWork, RunTask
<1>6. \A k \in DOMAIN queue'[i] : queue'[i][k] = task => TaskAwaited(i, k)'
  BY <1>1, <1>4 DEF TaskAwaited, RunTask
<1>7. TasksAwaited' /\ TasksDistinct'
  <2> HIDE DEF task
  <2> QED
    BY <1>1, <1>2, <1>5, <1>6, Submitted
<1>8. /\ \A j \in Instances : queue[j] # <<>> => queue'[j] # <<>> /\ queue'[j][1] = queue[j][1]
      /\ \A j \in Instances : \A k \in DOMAIN queue'[j] :
           \/ k \in DOMAIN queue[j] /\ queue'[j][k] = queue[j][k]
           \/ queue'[j][k] = task
  BY <1>1, <1>2, Enqueued DEF ControlInv
<1>9. ThreadsInStep'
  BY <1>1, <1>4, Ranges DEF ControlInv, ThreadsInStep, InStep, ClientPCs
<1>10. Serving'
  <2> SUFFICES ASSUME NEW j \in Instances PROVE ServesHead(j)'
    BY DEF Serving
  <2>1. ServesHead(j) /\ pc'[j] = pc[j] /\ next'[j] = next[j]
    BY <1>1, <1>4 DEF ControlInv, Serving
  <2>2. CASE InCallback(j)
    <3>1. queue[j] # <<>> /\ queue[j][1].kind = "run" /\ 1 \in DOMAIN queue[j]
      BY <2>1, <2>2, Served DEF ServesHead
    <3>2. queue[j][1].thread \in Clients \ {c}
      BY <1>3, <3>1, QueuedTask DEF Quiet, TaskAwaited
    <3> QED
      BY <1>4, <1>8, <2>1, <3>1, <3>2 DEF ServesHead, InCallback
  <2>3. CASE ~ InCallback(j)
    BY <1>8, <2>1, <2>3 DEF ServesHead, InCallback
  <2> QED
    BY <2>2, <2>3
<1>11. FirstTaskAlone'
  <2> SUFFICES ASSUME NEW j \in Instances, NEW k \in DOMAIN queue'[j],
                      queue'[j][k].kind = "run", queue'[j][k].slot = 0
               PROVE  pending'[queue'[j][k].thread] = {0} \/ (k = 1 /\ InCallback(j)')
    BY DEF FirstTaskAlone
  <2>1. CASE queue'[j][k] = task
    BY <1>4, <2>1 DEF RunTask
  <2>2. CASE k \in DOMAIN queue[j] /\ queue'[j][k] = queue[j][k]
    <3>1. queue[j][k].thread \in Clients \ {c}
      BY <1>3, <2>2, QueuedTask DEF Quiet, TaskAwaited
    <3> QED
      BY <1>4, <2>2, <3>1 DEF ControlInv, FirstTaskAlone, InCallback
  <2> QED
    BY <1>8, <2>1, <2>2
<1> QED
  BY <1>7, <1>9, <1>10, <1>11 DEF ControlInv

\* A callback submits a group of chunks
LEMMA CallbackSubmitControl ==
  ASSUME ControlInv, TypeOK', NEW i \in Instances, NEW j \in Instances, CallbackSubmit(i, j)
  PROVE  ControlInv'
<1>0. PICK n \in Instances, c \in Clients, p \in Proxies :
        n = next[i] /\ c = Head(queue[i]).thread /\ p = Head(queue[i]).proxy
  BY Running, Served, ServedRun DEF CallbackSubmit, InCallback, ControlInv, Serving, ServesHead
<1> DEFINE late == CloseQueued(p, j)
           task == RunTask(p, c, n, FALSE, late)
<1>1. /\ i \in Threads /\ pc[i] = "dispatch" /\ late \in BOOLEAN
      /\ Enqueue(j, task) /\ pending' = [pending EXCEPT ![c] = @ \cup {n}]
      /\ next' = [next EXCEPT ![i] = n + 1]
      /\ pc' = [pc EXCEPT ![i] = "callback"]
      /\ UNCHANGED <<arg, waits, unwind>>
  BY <1>0, Ranges DEF CallbackSubmit, CloseQueued
<1> HIDE DEF late
<1>2. task \in Tasks
  BY <1>1, Ranges, NewTasks
<1>3. Quiet(i)
  BY <1>1, QuietThreads
<1>4. /\ pc'[i] = "callback" /\ next'[i] = n + 1 /\ pending'[c] = pending[c] \cup {n}
      /\ \A u \in Threads \ {i} : pc'[u] = pc[u] /\ next'[u] = next[u]
      /\ \A d \in Clients \ {c} : pending'[d] = pending[d]
  BY <1>1 DEF ControlInv, TypeOK
<1>5. /\ queue[i] # <<>> /\ 1 \in DOMAIN queue[i] /\ queue[i][1].kind = "run"
      /\ queue[i][1].holds /\ queue[i][1].slot = 0 /\ queue[i][1].thread = c
      /\ \A s \in pending[c] : s < n
  BY <1>0, <1>1, Running, Served, ServedRun DEF InCallback
<1>6. n # 0 /\ ~ (n < n) /\ n < n + 1 /\ \A s \in pending[c] : s < n + 1
  BY <1>5, Ranges DEF ControlInv, TypeOK
<1>7. ASSUME NEW m \in Instances, NEW k \in DOMAIN queue[m]
      PROVE  TaskAwaited(m, k)' /\ ~ SameWork(m, queue[m][k], j, task)
  <2> DEFINE u == queue[m][k].thread
  <2>1. /\ u \in Threads /\ u # i /\ TaskAwaited(m, k) /\ queue[m][k].kind \in {"run", "open", "close"}
    BY <1>3, <1>7, QueuedTask DEF Quiet
  <2>2. queue'[m][k] = queue[m][k]
    BY <1>1, <1>2, <1>7, Enqueued DEF ControlInv
  <2>3. pc'[u] = pc[u] /\ next'[u] = next[u] /\ (u \in Clients => pending[u] \subseteq pending'[u])
    BY <1>4, <2>1
  <2>4. TaskAwaited(m, k)'
    <3> HIDE DEF u
    <3> QED
      BY <1>1, <2>1, <2>2, <2>3, StillAwaited DEF u
  <2>5. ASSUME SameWork(m, queue[m][k], j, task) PROVE FALSE
    <3>1. queue[m][k].kind = "run" /\ u = c /\ queue[m][k].slot = n
      BY <2>5 DEF SameWork, RunTask
    <3>2. n \in pending[c]
      BY <2>1, <3>1 DEF TaskAwaited
    <3> QED
      BY <1>5, <1>6, <3>2
  <2> QED
    BY <2>4, <2>5
<1>8. \A k \in DOMAIN queue'[j] : queue'[j][k] = task => TaskAwaited(j, k)'
  <2>1. pc[c] = "wait" /\ arg[c] = p /\ c \in Threads /\ c # i
    BY <1>0, <1>5, Served, ServedRun, Ranges
  <2> QED
    BY <1>1, <1>4, <2>1 DEF TaskAwaited, RunTask
<1>9. TasksAwaited' /\ TasksDistinct'
  <2> HIDE DEF task
  <2> QED
    BY <1>1, <1>2, <1>7, <1>8, Submitted
<1>10. /\ \A m \in Instances : queue[m] # <<>> => queue'[m] # <<>> /\ queue'[m][1] = queue[m][1]
       /\ \A m \in Instances : \A k \in DOMAIN queue'[m] :
            \/ k \in DOMAIN queue[m] /\ queue'[m][k] = queue[m][k]
            \/ queue'[m][k] = task
  <2> HIDE DEF task
  <2>1. TypeOK /\ task \in Tasks /\ Enqueue(j, task)
    BY <1>1, <1>2 DEF ControlInv
  <2> QED
    BY <2>1, Enqueued
<1>11. ThreadsInStep'
  BY <1>1, <1>4, Ranges DEF ControlInv, ThreadsInStep, InStep, InstancePCs
<1>12. Serving'
  <2> SUFFICES ASSUME NEW m \in Instances PROVE ServesHead(m)'
    BY DEF Serving
  <2>1. CASE m = i
    BY <1>4, <1>5, <1>6, <1>10, <2>1 DEF ServesHead, InCallback
  <2>2. CASE m # i
    <3>1. ServesHead(m) /\ pc'[m] = pc[m] /\ next'[m] = next[m]
      BY <1>4, <2>2, Ranges DEF ControlInv, Serving
    <3>2. CASE InCallback(m)
      <4>1. /\ queue[m] # <<>> /\ queue[m][1].kind = "run" /\ 1 \in DOMAIN queue[m]
            /\ queue[m][1].slot = 0 /\ queue[m][1].thread \in Clients
        BY <3>1, <3>2, Served, ServedRun DEF ServesHead
      <4>2. queue[m][1].thread # c
        BY <1>5, <2>2, <4>1 DEF ControlInv, TasksDistinct, SameWork
      <4> QED
        BY <1>4, <1>10, <3>1, <4>1, <4>2 DEF ServesHead, InCallback
    <3>3. CASE ~ InCallback(m)
      BY <1>10, <3>1, <3>3 DEF ServesHead, InCallback
    <3> QED
      BY <3>2, <3>3
  <2> QED
    BY <2>1, <2>2
<1>13. FirstTaskAlone'
  <2> SUFFICES ASSUME NEW m \in Instances, NEW k \in DOMAIN queue'[m],
                      queue'[m][k].kind = "run", queue'[m][k].slot = 0
               PROVE  pending'[queue'[m][k].thread] = {0} \/ (k = 1 /\ InCallback(m)')
    BY DEF FirstTaskAlone
  <2>1. queue'[m][k] # task
    BY <1>6 DEF RunTask
  <2>2. k \in DOMAIN queue[m] /\ queue'[m][k] = queue[m][k]
    BY <1>10, <2>1
  <2>3. queue[m][k].thread \in Clients
    BY <2>2, QueuedTask DEF TaskAwaited
  <2>4. CASE queue[m][k].thread = c
    <3>1. m = i /\ k = 1
      BY <1>5, <2>2, <2>4 DEF ControlInv, TasksDistinct, SameWork
    <3> QED
      BY <1>4, <3>1 DEF InCallback
  <2>5. CASE queue[m][k].thread # c
    BY <1>4, <2>2, <2>3, <2>5, Ranges DEF ControlInv, FirstTaskAlone, InCallback
  <2> QED
    BY <2>4, <2>5
<1> QED
  BY <1>9, <1>11, <1>12, <1>13 DEF ControlInv

\* The first task of queue i is over, and the others are still awaited
LEMMA Finished ==
  ASSUME ControlInv, NEW i \in Instances, queue[i] # <<>>, queue' = [queue EXCEPT ![i] = Tail(@)],
         \A j \in Instances : \A k \in DOMAIN queue[j] : \A l :
           (j # i \/ k # 1) /\ queue'[j][l] = queue[j][k] => TaskAwaited(j, l)'
  PROVE  TasksAwaited' /\ TasksDistinct'
<1>1. /\ \A j \in Instances \ {i} : queue'[j] = queue[j]
      /\ \A k \in DOMAIN queue'[i] :
           k \in Nat /\ 1 <= k /\ k + 1 \in DOMAIN queue[i] /\ queue'[i][k] = queue[i][k + 1]
  BY Dequeued DEF ControlInv
<1>2. ASSUME NEW j \in Instances, NEW l \in DOMAIN queue'[j] PROVE TaskAwaited(j, l)'
  <2>1. CASE j = i
    <3>1. l + 1 \in DOMAIN queue[i] /\ queue'[i][l] = queue[i][l + 1] /\ l + 1 # 1
      BY <1>1, <1>2, <2>1
    <3> QED
      BY <2>1, <3>1
  <2>2. CASE j # i
    BY <1>1, <1>2, <2>2
  <2> QED
    BY <2>1, <2>2
<1>3. TasksAwaited'
  BY <1>2 DEF TasksAwaited
<1>4. TasksDistinct'
  <2> SUFFICES ASSUME NEW j \in Instances, NEW m \in Instances,
                      NEW k \in DOMAIN queue'[j], NEW l \in DOMAIN queue'[m],
                      SameWork(j, queue'[j][k], m, queue'[m][l])
               PROVE  j = m /\ k = l
    BY DEF TasksDistinct, SameWork
  <2>1. CASE j = i /\ m = i
    <3>1. /\ k + 1 \in DOMAIN queue[i] /\ queue'[i][k] = queue[i][k + 1] /\ k \in Nat
          /\ l + 1 \in DOMAIN queue[i] /\ queue'[i][l] = queue[i][l + 1] /\ l \in Nat
      BY <1>1, <2>1
    <3>2. k + 1 = l + 1
      BY <2>1, <3>1 DEF ControlInv, TasksDistinct
    <3> QED
      BY <2>1, <3>1, <3>2
  <2>2. CASE j = i /\ m # i
    <3>1. k + 1 \in DOMAIN queue[i] /\ queue'[i][k] = queue[i][k + 1] /\ queue'[m] = queue[m]
      BY <1>1, <2>2
    <3> QED
      BY <2>2, <3>1 DEF ControlInv, TasksDistinct
  <2>3. CASE j # i /\ m = i
    <3>1. l + 1 \in DOMAIN queue[i] /\ queue'[i][l] = queue[i][l + 1] /\ queue'[j] = queue[j]
      BY <1>1, <2>3
    <3> QED
      BY <2>3, <3>1 DEF ControlInv, TasksDistinct
  <2>4. CASE j # i /\ m # i
    BY <1>1, <2>4 DEF ControlInv, TasksDistinct
  <2> QED
    BY <2>1, <2>2, <2>3, <2>4
<1> QED
  BY <1>3, <1>4

\* The open or close at the head of queue i is over
LEMMA ControlTaskEnds ==
  ASSUME ControlInv, TypeOK', NEW i \in Instances, queue[i] # <<>>, pc[i] = "idle",
         queue' = [queue EXCEPT ![i] = Tail(@)], pending' = pending,
         \A j \in Instances : pc'[j] = pc[j] /\ next'[j] = next[j],
         \A j \in Instances : \A k \in DOMAIN queue[j] : \A l :
           (j # i \/ k # 1) /\ queue'[j][l] = queue[j][k] => TaskAwaited(j, l)',
         ThreadsInStep'
  PROVE  ControlInv'
<1>1. TasksAwaited' /\ TasksDistinct'
  BY Finished
<1>2. /\ \A j \in Instances \ {i} : queue'[j] = queue[j]
      /\ \A k \in DOMAIN queue'[i] :
           k \in Nat /\ 1 <= k /\ k + 1 \in DOMAIN queue[i] /\ queue'[i][k] = queue[i][k + 1]
  BY Dequeued DEF ControlInv
<1>3. Serving'
  BY <1>2 DEF ControlInv, Serving, ServesHead, InCallback
<1>4. FirstTaskAlone'
  <2> SUFFICES ASSUME NEW j \in Instances, NEW k \in DOMAIN queue'[j],
                      queue'[j][k].kind = "run", queue'[j][k].slot = 0
               PROVE  pending'[queue'[j][k].thread] = {0} \/ (k = 1 /\ InCallback(j)')
    BY DEF FirstTaskAlone
  <2>1. CASE j = i
    <3>1. PICK m \in DOMAIN queue[i] : queue'[i][k] = queue[i][m] /\ m # 1
      BY <1>2, <2>1
    <3>2. queue[i][m].kind = "run" /\ queue[i][m].slot = 0
      BY <2>1, <3>1
    <3>3. pending[queue[i][m].thread] = {0}
      BY <3>1, <3>2 DEF ControlInv, FirstTaskAlone
    <3> QED
      BY <2>1, <3>1, <3>3
  <2>2. CASE j # i
    BY <1>2, <2>2 DEF ControlInv, FirstTaskAlone, InCallback
  <2> QED
    BY <2>1, <2>2
<1> QED
  BY <1>1, <1>3, <1>4 DEF ControlInv

\* A client that waits for an open waits for nothing else
LEMMA OnlyOpen ==
  ASSUME ControlInv, NEW i \in Instances, queue[i] # <<>>, Head(queue[i]).kind = "open",
         NEW j \in Instances, NEW k \in DOMAIN queue[j], j # i \/ k # 1
  PROVE  queue[j][k].thread # Head(queue[i]).thread
<1> SUFFICES ASSUME queue[j][k].thread = Head(queue[i]).thread PROVE FALSE
  OBVIOUS
<1>1. /\ Head(queue[i]) = queue[i][1] /\ 1 \in DOMAIN queue[i] /\ pc[Head(queue[i]).thread] = "make"
      /\ TaskAwaited(i, 1)
  BY Served, ServedOpen
<1>2. TaskAwaited(j, k) /\ queue[j][k].kind \in {"run", "open", "close"}
  BY QueuedTask
<1>3. queue[j][k].kind = "open" /\ queue[j][k].slot = 0 /\ queue[i][1].slot = 0
  BY <1>1, <1>2 DEF TaskAwaited
<1> QED
  BY <1>1, <1>3 DEF ControlInv, TasksDistinct, SameWork

\* A table is opened
LEMMA OpenSucceedsControl ==
  ASSUME ControlInv, TypeOK', NEW i \in Instances, OpenSucceeds(i) PROVE ControlInv'
<1>0. PICK c \in Clients : c = Head(queue[i]).thread
  BY ServedOpen DEF OpenSucceeds, OpenTask
<1>1. /\ queue[i] # <<>> /\ Head(queue[i]).kind = "open" /\ pc[i] = "idle" /\ c \in Threads
      /\ queue' = [queue EXCEPT ![i] = Tail(@)]
      /\ UNCHANGED <<pc, arg, unwind, pending>>
      /\ \A u \in Threads \ {c} : waits'[u] = waits[u] /\ next'[u] = next[u]
  BY <1>0, Ranges DEF OpenSucceeds, OpenTask, ControlInv, TypeOK
<1>2. ASSUME NEW j \in Instances, NEW k \in DOMAIN queue[j], NEW l, j # i \/ k # 1,
             queue'[j][l] = queue[j][k]
      PROVE  TaskAwaited(j, l)'
  <2> DEFINE u == queue[j][k].thread
  <2>1. /\ u \in Threads /\ u # c /\ TaskAwaited(j, k) /\ queue[j][k].kind \in {"run", "open", "close"}
    BY <1>0, <1>1, <1>2, OnlyOpen, QueuedTask
  <2>2. waits'[u] = waits[u] /\ next'[u] = next[u]
    BY <1>1, <2>1
  <2> HIDE DEF u
  <2> QED
    BY <1>1, <1>2, <2>1, <2>2, StillAwaited DEF u
<1>3. ThreadsInStep'
  BY <1>1 DEF ControlInv, ThreadsInStep, InStep
<1>4. \A j \in Instances : pc'[j] = pc[j] /\ next'[j] = next[j]
  BY <1>1, Ranges
<1>5. \A j \in Instances : \A k \in DOMAIN queue[j] : \A l :
        (j # i \/ k # 1) /\ queue'[j][l] = queue[j][k] => TaskAwaited(j, l)'
  BY <1>2
<1>6. pending' = pending /\ queue[i] # <<>> /\ pc[i] = "idle" /\ queue' = [queue EXCEPT ![i] = Tail(@)]
  BY <1>1
<1> QED
  BY <1>3, <1>4, <1>5, <1>6, ControlTaskEnds

\* A table fails to open
LEMMA OpenFailsControl ==
  ASSUME ControlInv, TypeOK', NEW i \in Instances, OpenFails(i) PROVE ControlInv'
<1>0. PICK c \in Clients, q \in Proxies : c = Head(queue[i]).thread /\ q = Head(queue[i]).proxy
  BY Served, ServedOpen DEF OpenFails, OpenTask
<1>1. /\ queue[i] # <<>> /\ Head(queue[i]).kind = "open" /\ pc[i] = "idle" /\ c \in Threads
      /\ queue' = [queue EXCEPT ![i] = Tail(@)]
      /\ UNCHANGED <<arg, next, pending>>
      /\ \A u \in Threads \ {c} : waits'[u] = waits[u] /\ pc'[u] = pc[u] /\ unwind'[u] = unwind[u]
      /\ pc'[c] = "pools" /\ unwind'[c] = <<q>>
  BY <1>0, Ranges DEF OpenFails, OpenTask, ControlInv, TypeOK
<1>2. ASSUME NEW j \in Instances, NEW k \in DOMAIN queue[j], NEW l, j # i \/ k # 1,
             queue'[j][l] = queue[j][k]
      PROVE  TaskAwaited(j, l)'
  <2> DEFINE u == queue[j][k].thread
  <2>1. /\ u \in Threads /\ u # c /\ TaskAwaited(j, k) /\ queue[j][k].kind \in {"run", "open", "close"}
    BY <1>0, <1>1, <1>2, OnlyOpen, QueuedTask
  <2>2. waits'[u] = waits[u] /\ pc'[u] = pc[u]
    BY <1>1, <2>1
  <2> HIDE DEF u
  <2> QED
    BY <1>1, <1>2, <2>1, <2>2, StillAwaited DEF u
<1>3. ThreadsInStep'
  <2>1. <<q>> # <<>>
    OBVIOUS
  <2> QED
    BY <1>1, <2>1, Ranges DEF ControlInv, ThreadsInStep, InStep, ClientPCs
<1>4. \A j \in Instances : pc'[j] = pc[j] /\ next'[j] = next[j]
  BY <1>1, Ranges
<1>5. \A j \in Instances : \A k \in DOMAIN queue[j] : \A l :
        (j # i \/ k # 1) /\ queue'[j][l] = queue[j][k] => TaskAwaited(j, l)'
  BY <1>2
<1>6. pending' = pending /\ queue[i] # <<>> /\ pc[i] = "idle" /\ queue' = [queue EXCEPT ![i] = Tail(@)]
  BY <1>1
<1> QED
  BY <1>3, <1>4, <1>5, <1>6, ControlTaskEnds

\* A table is closed
LEMMA CloseTaskControl ==
  ASSUME ControlInv, TypeOK', NEW i \in Instances, CloseTask(i) PROVE ControlInv'
<1>0. PICK t \in Threads : t = Head(queue[i]).thread
  BY Served DEF CloseTask
<1>1. /\ queue[i] # <<>> /\ Head(queue[i]).kind = "close" /\ pc[i] = "idle"
      /\ queue' = [queue EXCEPT ![i] = Tail(@)]
      /\ UNCHANGED <<pc, arg, next, unwind, pending>>
      /\ waits'[t] = waits[t] \ {i}
      /\ \A u \in Threads \ {t} : waits'[u] = waits[u]
  BY <1>0 DEF CloseTask, ControlInv, TypeOK
<1>2. Head(queue[i]) = queue[i][1] /\ 1 \in DOMAIN queue[i] /\ queue[i][1].slot = 0
      /\ pc[t] = "close"
  BY <1>0, <1>1, Served DEF TaskAwaited
<1>3. ASSUME NEW j \in Instances, NEW k \in DOMAIN queue[j], NEW l, j # i \/ k # 1,
             queue'[j][l] = queue[j][k]
      PROVE  TaskAwaited(j, l)'
  <2> DEFINE u == queue[j][k].thread
  <2>1. /\ u \in Threads /\ TaskAwaited(j, k) /\ queue[j][k].kind \in {"run", "open", "close"}
    BY <1>3, QueuedTask
  <2>2. CASE u = t
    <3>1. queue[j][k].kind = "close" /\ queue[j][k].slot = 0
      BY <1>2, <2>1, <2>2 DEF TaskAwaited
    <3>2. j # i
      BY <1>0, <1>1, <1>2, <1>3, <2>2, <3>1 DEF ControlInv, TasksDistinct, SameWork
    <3> QED
      BY <1>1, <1>2, <1>3, <2>1, <2>2, <3>2, StillAwaited
  <2>3. CASE u # t
    <3>1. waits'[u] = waits[u]
      BY <1>1, <2>1, <2>3
    <3> HIDE DEF u
    <3> QED
      BY <1>1, <1>3, <2>1, <3>1, StillAwaited DEF u
  <2> QED
    BY <2>2, <2>3
<1>4. ThreadsInStep'
  BY <1>1 DEF ControlInv, ThreadsInStep, InStep
<1>5. \A j \in Instances : \A k \in DOMAIN queue[j] : \A l :
        (j # i \/ k # 1) /\ queue'[j][l] = queue[j][k] => TaskAwaited(j, l)'
  BY <1>3
<1>6. pending' = pending /\ queue[i] # <<>> /\ pc[i] = "idle" /\ queue' = [queue EXCEPT ![i] = Tail(@)]
  BY <1>1
<1> QED
  BY <1>1, <1>4, <1>5, <1>6, ControlTaskEnds

\* A task of a call is over
LEMMA CompleteControl ==
  ASSUME ControlInv, TypeOK', NEW i \in Instances, queue[i] # <<>>, Head(queue[i]).kind = "run",
         pc[i] \in {"idle", "run", "callback"}, Complete(i)
  PROVE  ControlInv'
<1>0. PICK c \in Clients, p \in Proxies, s \in 0..NInstances, h \in BOOLEAN :
        /\ c = Head(queue[i]).thread /\ p = Head(queue[i]).proxy
        /\ s = Head(queue[i]).slot /\ h = Head(queue[i]).holds
  BY Served, ServedRun
<1>1. /\ queue' = [queue EXCEPT ![i] = Tail(@)]
      /\ UNCHANGED <<next, waits, unwind>>
      /\ i # c /\ c \in Threads /\ i \in Threads
      /\ pending'[c] = pending[c] \ {s} /\ \A d \in Clients \ {c} : pending'[d] = pending[d]
  BY <1>0, Ranges DEF Complete, UnfinishedFutures, ControlInv, TypeOK
<1>2. /\ pc'[i] \in {"teardown", "idle"}
      /\ pc'[c] = IF pending[c] \ {s} = {} THEN "idle" ELSE pc[c]
      /\ \A u \in Threads \ {i, c} : pc'[u] = pc[u]
      /\ \A u \in Threads \ {i} : arg'[u] = arg[u]
  BY <1>0, <1>1 DEF Complete, UnfinishedFutures, ControlInv, TypeOK
<1>3. Quiet(i)
  BY <1>1, QuietThreads
<1>4. /\ queue[i][1].kind = "run" /\ queue[i][1].thread = c /\ queue[i][1].slot = s
      /\ 1 \in DOMAIN queue[i] /\ pc[c] = "wait" /\ s \in pending[c]
  BY <1>0, Served, ServedRun
<1>5. ASSUME NEW j \in Instances, NEW k \in DOMAIN queue[j], NEW l, j # i \/ k # 1,
             queue'[j][l] = queue[j][k]
      PROVE  TaskAwaited(j, l)'
  <2> DEFINE u == queue[j][k].thread
  <2>1. /\ u \in Threads /\ u # i /\ TaskAwaited(j, k) /\ queue[j][k].kind \in {"run", "open", "close"}
    BY <1>3, <1>5, QueuedTask DEF Quiet
  <2>2. CASE u = c
    <3>1. queue[j][k].kind = "run" /\ queue[j][k].slot \in pending[c]
      BY <1>4, <2>1, <2>2 DEF TaskAwaited
    <3>2. queue[j][k].slot # s
      BY <1>4, <1>5, <2>2, <3>1 DEF ControlInv, TasksDistinct, SameWork
    <3>3. queue[j][k].slot \in pending'[c] /\ pc'[c] = pc[c] /\ arg'[c] = arg[c]
      BY <1>1, <1>2, <3>1, <3>2
    <3> QED
      BY <1>1, <1>4, <1>5, <2>1, <2>2, <3>3, StillAwaited
  <2>3. CASE u # c
    <3>1. pc'[u] = pc[u] /\ arg'[u] = arg[u] /\ (u \in Clients => pending'[u] = pending[u])
      BY <1>1, <1>2, <2>1, <2>3
    <3> HIDE DEF u
    <3> QED
      BY <1>1, <1>5, <2>1, <3>1, StillAwaited DEF u
  <2> QED
    BY <2>2, <2>3
<1>6. \A j \in Instances : \A k \in DOMAIN queue[j] : \A l :
        (j # i \/ k # 1) /\ queue'[j][l] = queue[j][k] => TaskAwaited(j, l)'
  BY <1>5
<1>7. TasksAwaited' /\ TasksDistinct'
  BY <1>1, <1>6, Finished
<1>8. /\ \A j \in Instances \ {i} : queue'[j] = queue[j]
      /\ \A k \in DOMAIN queue'[i] :
           k \in Nat /\ 1 <= k /\ k + 1 \in DOMAIN queue[i] /\ queue'[i][k] = queue[i][k + 1]
  BY <1>1, Dequeued DEF ControlInv
<1>9. ThreadsInStep'
  <2> SUFFICES ASSUME NEW u \in Threads PROVE InStep(u)'
    BY DEF ThreadsInStep
  <2>1. InStep(u)
    BY DEF ControlInv, ThreadsInStep
  <2> QED
    BY <1>1, <1>2, <1>4, <2>1, Ranges DEF InStep, ClientPCs, InstancePCs
<1>10. Serving'
  <2> SUFFICES ASSUME NEW m \in Instances PROVE ServesHead(m)'
    BY DEF Serving
  <2>1. CASE m = i
    BY <1>2, <2>1 DEF ServesHead, InCallback
  <2>2. CASE m # i
    <3>1. /\ ServesHead(m) /\ pc'[m] = pc[m] /\ next'[m] = next[m] /\ queue'[m] = queue[m]
      BY <1>1, <1>2, <1>8, <2>2, Ranges DEF ControlInv, Serving
    <3>2. CASE InCallback(m)
      <4>1. /\ queue[m] # <<>> /\ queue[m][1].kind = "run" /\ queue[m][1].thread \in Clients
        BY <3>1, <3>2, Served, ServedRun DEF ServesHead
      <4>2. pending'[queue[m][1].thread] \subseteq pending[queue[m][1].thread]
        BY <1>1, <4>1
      <4> QED
        BY <3>1, <4>1, <4>2 DEF ServesHead, InCallback
    <3>3. CASE ~ InCallback(m)
      BY <3>1, <3>3 DEF ServesHead, InCallback
    <3> QED
      BY <3>2, <3>3
  <2> QED
    BY <2>1, <2>2
<1>11. FirstTaskAlone'
  <2> SUFFICES ASSUME NEW j \in Instances, NEW k \in DOMAIN queue'[j],
                      queue'[j][k].kind = "run", queue'[j][k].slot = 0
               PROVE  pending'[queue'[j][k].thread] = {0} \/ (k = 1 /\ InCallback(j)')
    BY DEF FirstTaskAlone
  <2>1. PICK m \in DOMAIN queue[j] : /\ queue'[j][k] = queue[j][m]
                                     /\ j # i \/ m # 1
                                     /\ j # i => m = k
    BY <1>8
  <2>2. queue[j][m].kind = "run" /\ queue[j][m].slot = 0 /\ queue[j][m].thread \in Clients
    <3>1. queue[j][m].kind = "run" /\ queue[j][m].slot = 0
      BY <2>1
    <3> QED
      BY <3>1, QueuedTask DEF TaskAwaited
  <2>3. pending[queue[j][m].thread] = {0} \/ (m = 1 /\ InCallback(j))
    BY <2>2 DEF ControlInv, FirstTaskAlone
  <2>4. CASE m = 1 /\ InCallback(j)
    <3>1. j # i /\ k = 1 /\ pc'[j] = pc[j]
      BY <1>2, <2>1, <2>4, Ranges
    <3> QED
      BY <2>4, <3>1 DEF InCallback
  <2>5. CASE pending[queue[j][m].thread] = {0}
    <3>1. queue[j][m].thread # c
      <4> SUFFICES ASSUME queue[j][m].thread = c PROVE FALSE
        OBVIOUS
      <4>1. s = 0
        BY <1>4, <2>5
      <4> QED
        BY <1>4, <2>1, <2>2, <4>1 DEF ControlInv, TasksDistinct, SameWork
    <3> QED
      BY <1>1, <2>1, <2>2, <2>5, <3>1
  <2> QED
    BY <2>3, <2>4, <2>5
<1> QED
  BY <1>7, <1>9, <1>10, <1>11 DEF ControlInv

\* Putting one sequence element ahead of a sequence
LEMMA PushFacts ==
  ASSUME NEW S, NEW s \in Seq(S), NEW x \in S
  PROVE  /\ <<x>> \o s # <<>> /\ (<<x>> \o s)[1] = x
         /\ \A k \in DOMAIN (<<x>> \o s) :
              k # 1 => k - 1 \in DOMAIN s /\ (<<x>> \o s)[k] = s[k - 1]
  OBVIOUS

\* The thread that drops a reference either enters the destructor or goes on
LEMMA DroppedThread ==
  ASSUME TypeOK, NEW t \in Threads, NEW p, NEW ph \in [Proxies -> Phases], NEW last \in BOOLEAN,
         NEW after \in PCs, last => p \in Proxies, Dropped(t, p, ph, last, after)
  PROVE  /\ \A u \in Threads \ {t} : /\ pc'[u] = pc[u] /\ arg'[u] = arg[u]
                                     /\ next'[u] = next[u] /\ unwind'[u] = unwind[u]
         /\ last => /\ pc'[t] = Destructor(p) /\ pc'[t] \in {"close", "release"}
                    /\ arg'[t] = p /\ next'[t] = 1
                    /\ unwind'[t] # <<>> /\ unwind'[t][1] = p
                    /\ \A k \in DOMAIN unwind'[t] :
                         k # 1 => k - 1 \in DOMAIN unwind[t] /\ unwind'[t][k] = unwind[t][k - 1]
                    /\ phase' = [ph EXCEPT ![p] = "dying"]
         /\ ~ last => /\ pc'[t] = after /\ phase' = ph
                      /\ UNCHANGED <<arg, next, unwind>>
<1>1. CASE last
  <2>1. unwind[t] \in Seq(Proxies) /\ p \in Proxies
    BY <1>1 DEF TypeOK
  <2>2. /\ unwind'[t] = <<p>> \o unwind[t] /\ pc'[t] = Destructor(p)
        /\ arg'[t] = p /\ next'[t] = 1 /\ phase' = [ph EXCEPT ![p] = "dying"]
        /\ \A u \in Threads \ {t} : /\ pc'[u] = pc[u] /\ arg'[u] = arg[u]
                                    /\ next'[u] = next[u] /\ unwind'[u] = unwind[u]
    BY <1>1 DEF Dropped, TypeOK
  <2>3. pc'[t] \in {"close", "release"}
    BY <2>2 DEF Destructor
  <2> QED
    BY <1>1, <2>1, <2>2, <2>3, PushFacts
<1>2. CASE ~ last
  BY <1>2 DEF Dropped, TypeOK
<1> QED
  BY <1>1, <1>2

\* A reference dropped, by a thread that no task serves
LEMMA DroppedControl ==
  ASSUME ControlInv, TypeOK', NEW t \in Threads, UNCHANGED <<queue, waits, pending>>,
         \A u \in Threads \ {t} : /\ pc'[u] = pc[u] /\ arg'[u] = arg[u]
                                  /\ next'[u] = next[u] /\ unwind'[u] = unwind[u],
         NEW after,
         \/ pc'[t] \in {"close", "release"} /\ unwind'[t] # <<>>
         \/ pc'[t] = after /\ unwind' = unwind,
         \/ pc[t] = "deps" /\ after = "pools"
         \/ pc[t] \in {"idle", "teardown"} /\ after = "idle"
  PROVE  ControlInv'
<1>1. Quiet(t)
  BY QuietThreads
<1>2. InStep(t)'
  <2>1. InStep(t)
    BY DEF ControlInv, ThreadsInStep
  <2> QED
    BY <2>1 DEF InStep, ClientPCs, InstancePCs
<1>3. ServesHead(t)' /\ ~ InCallback(t)
  BY DEF ServesHead, InCallback
<1> QED
  BY <1>1, <1>2, <1>3, ThreadMoves

\* Every step keeps the threads in step with the tasks
LEMMA ControlStep ==
  ASSUME ControlInv, [Next]_vars PROVE ControlInv'
<1>0. TypeOK' /\ TypeOK
  BY TypeStep DEF ControlInv
<1> DEFINE Others(t) ==
      \A u \in Threads \ {t} : /\ pc'[u] = pc[u] /\ arg'[u] = arg[u]
                               /\ next'[u] = next[u] /\ unwind'[u] = unwind[u]
<1>1. ASSUME NEW c \in Clients, NEW q, \/ StartMake(c)
                                       \/ (\E p \in Proxies : StartSpawn(c, p, q))
                                       \/ Call(c, q) \/ StartClose(c, q)
      PROVE  ControlInv'
  <2>1. /\ c \in Threads /\ c \notin Instances /\ pc[c] = "idle" /\ UNCHANGED <<queue, waits, pending>>
        /\ pc'[c] \in {"make", "dispatch", "close"} /\ Others(c) /\ unwind' = unwind
    BY <1>0, <1>1, Ranges DEF StartMake, StartSpawn, Call, StartClose, TypeOK
  <2>2. Quiet(c)
    BY <2>1, QuietThreads
  <2>3. InStep(c)'
    <3>1. InStep(c)
      BY <2>1 DEF ControlInv, ThreadsInStep
    <3> QED
      BY <1>1, <2>1, <3>1 DEF InStep, ClientPCs
  <2> QED
    BY <1>0, <2>1, <2>2, <2>3, ThreadMoves
<1>2. ASSUME NEW c \in Clients, NEW p \in Proxies, ClientDrop(c, p) PROVE ControlInv'
  <2> DEFINE last == ~ Referenced(p, [held EXCEPT ![p] = @ \ {c}], phase, pc)
  <2>1. c \in Threads /\ last \in BOOLEAN /\ UNCHANGED <<queue, waits, pending>> /\ pc[c] = "idle"
        /\ phase \in [Proxies -> Phases] /\ "idle" \in PCs
    BY <1>0, <1>2, Ranges DEF ClientDrop, TypeOK, PCs
  <2>2. Dropped(c, p, phase, last, "idle")
    BY <1>2 DEF ClientDrop
  <2> HIDE DEF last
  <2>3. /\ \A u \in Threads \ {c} : /\ pc'[u] = pc[u] /\ arg'[u] = arg[u]
                                    /\ next'[u] = next[u] /\ unwind'[u] = unwind[u]
        /\ \/ pc'[c] \in {"close", "release"} /\ unwind'[c] # <<>>
           \/ pc'[c] = "idle" /\ unwind' = unwind
    BY <1>0, <2>1, <2>2, DroppedThread
  <2> QED
    BY <1>0, <2>1, <2>3, DroppedControl
<1>3. ASSUME NEW c \in Clients, MakeReturn(c) PROVE ControlInv'
  <2>1. /\ c \in Threads /\ c \notin Instances /\ pc[c] = "make" /\ waits[c] = {}
        /\ UNCHANGED <<queue, waits, pending>>
        /\ pc'[c] = "idle" /\ Others(c) /\ unwind' = unwind
    BY <1>0, <1>3, Ranges DEF MakeReturn, TypeOK
  <2>2. Quiet(c)
    BY <2>1, QuietThreads
  <2>3. InStep(c)'
    <3>1. InStep(c)
      BY <2>1 DEF ControlInv, ThreadsInStep
    <3> QED
      BY <2>1, <3>1 DEF InStep, ClientPCs
  <2> QED
    BY <1>0, <2>1, <2>2, <2>3, ThreadMoves
<1>4. ASSUME NEW i \in Instances, StartFunctor(i) PROVE ControlInv'
  <2>1. /\ i \in Threads /\ i \notin Clients /\ pc[i] = "idle" /\ UNCHANGED <<queue, waits, pending>>
        /\ pc'[i] = "run" /\ Others(i) /\ unwind' = unwind
        /\ queue[i] # <<>> /\ Head(queue[i]).kind = "run"
    BY <1>0, <1>4, Ranges DEF StartFunctor, TypeOK
  <2>2. Quiet(i)
    BY <2>1, QuietThreads
  <2>3. InStep(i)'
    <3>1. InStep(i)
      BY <2>1 DEF ControlInv, ThreadsInStep
    <3> QED
      BY <2>1, <3>1 DEF InStep, InstancePCs
  <2>4. ServesHead(i)' /\ ~ InCallback(i)
    BY <2>1, Served DEF ServesHead, InCallback
  <2> QED
    BY <1>0, <2>1, <2>2, <2>3, <2>4, ThreadMoves
<1>5. ASSUME NEW i \in Instances, StartCallback(i) PROVE ControlInv'
  <2>1. /\ i \in Threads /\ i \notin Clients /\ pc[i] = "run" /\ UNCHANGED <<queue, waits, pending>>
        /\ pc'[i] = "callback" /\ next'[i] = 1 /\ Others(i) /\ unwind' = unwind
        /\ Head(queue[i]).holds
    BY <1>0, <1>5, Ranges DEF StartCallback, TypeOK
  <2>2. Quiet(i)
    BY <2>1, QuietThreads
  <2>3. InStep(i)'
    <3>1. InStep(i)
      BY <2>1 DEF ControlInv, ThreadsInStep
    <3> QED
      BY <2>1, <3>1 DEF InStep, InstancePCs
  <2>4. ServesHead(i)' /\ ~ InCallback(i)
    <3>1. queue[i] # <<>> /\ Head(queue[i]).kind = "run" /\ ~ InCallback(i)
      BY <2>1, Running DEF InCallback
    <3>2. /\ Head(queue[i]) = queue[i][1] /\ 1 \in DOMAIN queue[i] /\ Head(queue[i]).slot = 0
      BY <2>1, <3>1, Served, ServedRun
    <3>3. pending[queue[i][1].thread] = {0}
      BY <3>1, <3>2 DEF ControlInv, FirstTaskAlone
    <3>4. \A s \in pending'[queue'[i][1].thread] : s < next'[i]
      BY <2>1, <3>3
    <3> QED
      BY <2>1, <3>1, <3>2, <3>4 DEF ServesHead, InCallback
  <2> QED
    BY <1>0, <2>1, <2>2, <2>3, <2>4, ThreadMoves
<1>6. ASSUME NEW i \in Instances, CallbackCheck(i) PROVE ControlInv'
  <2>1. /\ i \in Threads /\ i \notin Clients /\ pc[i] = "callback" /\ UNCHANGED <<queue, waits, pending>>
        /\ pc'[i] \in {"callback", "dispatch"} /\ Others(i) /\ unwind' = unwind
        /\ next[i] \in Instances
    BY <1>0, <1>6, Ranges DEF CallbackCheck, MoreGroups, TypeOK
  <2>2. \/ pc'[i] = "callback" /\ next'[i] = next[i] + 1
        \/ pc'[i] = "dispatch" /\ next'[i] = next[i]
    BY <1>0, <1>6, <2>1 DEF CallbackCheck, TypeOK
  <2>3. Quiet(i)
    BY <2>1, QuietThreads
  <2>4. InStep(i)'
    <3>1. InStep(i)
      BY <2>1 DEF ControlInv, ThreadsInStep
    <3> QED
      BY <2>1, <3>1 DEF InStep, InstancePCs
  <2>5. ServesHead(i)' /\ InCallback(i)'
    <3>1. ServesHead(i) /\ InCallback(i)
      BY <2>1 DEF ControlInv, Serving, InCallback
    <3>2. /\ queue[i] # <<>> /\ Head(queue[i]).kind = "run" /\ Head(queue[i]) = queue[i][1]
          /\ queue[i][1].thread \in Clients
      BY <3>1, Running, Served, ServedRun
    <3>3. PICK n \in Instances : n = next[i]
      BY <2>1
    <3>4. pending[queue[i][1].thread] \subseteq 0..NInstances
      BY <1>0, <3>2 DEF TypeOK
    <3>5. \A s \in pending[queue[i][1].thread] : s \in 0..NInstances /\ s < n
      BY <3>1, <3>3, <3>4 DEF ServesHead
    <3>6. \A s \in pending[queue[i][1].thread] : s < n + 1
      BY <3>5, Ranges
    <3>7. \A s \in pending[queue[i][1].thread] : s < next'[i]
      BY <2>2, <3>3, <3>5, <3>6
    <3> QED
      BY <2>1, <2>2, <3>1, <3>7 DEF ServesHead, InCallback
  <2> QED
    BY <1>0, <2>1, <2>3, <2>4, <2>5, ThreadMoves
<1>7. ASSUME NEW i \in Instances, RejectTask(i) \/ EndFunctor(i) \/ CallbackReturn(i)
      PROVE  ControlInv'
  <2>1. /\ queue[i] # <<>> /\ Head(queue[i]).kind = "run" /\ Complete(i)
        /\ pc[i] \in {"idle", "run", "callback"}
    BY <1>7, Running DEF RejectTask, EndFunctor, CallbackReturn, InCallback
  <2> QED
    BY <1>0, <2>1, CompleteControl
<1>8. ASSUME NEW i \in Instances, TeardownCallback(i) PROVE ControlInv'
  <2> DEFINE last == ~ Referenced(arg[i], held, phase, [pc EXCEPT ![i] = "idle"])
  <2>1. /\ i \in Threads /\ last \in BOOLEAN /\ UNCHANGED <<queue, waits, pending>>
        /\ pc[i] = "teardown" /\ arg[i] \in Proxies
        /\ phase \in [Proxies -> Phases] /\ "idle" \in PCs
    BY <1>0, <1>8, Ranges DEF TeardownCallback, TypeOK, PCs
  <2>2. Dropped(i, arg[i], phase, last, "idle")
    BY <1>8 DEF TeardownCallback
  <2> HIDE DEF last
  <2>3. /\ \A u \in Threads \ {i} : /\ pc'[u] = pc[u] /\ arg'[u] = arg[u]
                                    /\ next'[u] = next[u] /\ unwind'[u] = unwind[u]
        /\ \/ pc'[i] \in {"close", "release"} /\ unwind'[i] # <<>>
           \/ pc'[i] = "idle" /\ unwind' = unwind
    BY <1>0, <2>1, <2>2, DroppedThread
  <2> QED
    BY <1>0, <2>1, <2>3, DroppedControl
<1>9. ASSUME NEW t \in Threads, CloseInline(t) PROVE ControlInv'
  <2>1. /\ t \in Instances /\ t \notin Clients /\ pc[t] = "close" /\ UNCHANGED <<queue, waits, pending>>
        /\ pc' = pc /\ Others(t) /\ unwind' = unwind /\ arg' = arg /\ next[t] \in Instances
        /\ next'[t] = next[t] + 1
    BY <1>0, <1>9, Ranges DEF CloseInline, OwnsThread, TypeOK
  <2>2. PICK n \in Instances : n = next[t]
    BY <2>1
  <2>3. \A i \in Instances : i < n => i < n + 1
    BY Ranges
  <2>4. InStep(t)' /\ ServesHead(t)' /\ ~ InCallback(t)
    BY <2>1 DEF ControlInv, ThreadsInStep, InStep, ServesHead, InCallback
  <2> QED
    BY <1>0, <2>1, <2>2, <2>3, <2>4, ThreadMoves
<1>10. ASSUME NEW t \in Threads, CloseReturn(t) PROVE ControlInv'
  <2>1. /\ pc[t] = "close" /\ waits[t] = {} /\ UNCHANGED <<queue, waits, pending>>
        /\ pc'[t] = (IF unwind[t] = <<>> THEN "idle" ELSE "release") /\ Others(t)
        /\ unwind' = unwind
    BY <1>0, <1>10 DEF CloseReturn, AllDone, TypeOK
  <2>2. Quiet(t)
    BY <2>1, QuietThreads
  <2>3. InStep(t)' /\ ServesHead(t)' /\ ~ InCallback(t)
    BY <2>1 DEF ControlInv, ThreadsInStep, InStep, ServesHead, InCallback, ClientPCs, InstancePCs
  <2> QED
    BY <1>0, <2>1, <2>2, <2>3, ThreadMoves
<1>11. ASSUME NEW t \in Threads, ReleasePools(t) \/ DropPools(t) PROVE ControlInv'
  <2>1. /\ pc[t] \in {"release", "pools"} /\ UNCHANGED <<queue, waits, pending>>
        /\ pc'[t] \in {"deps", "join"} /\ Others(t) /\ unwind' = unwind
    BY <1>0, <1>11 DEF ReleasePools, DropPools, TypeOK
  <2>2. Quiet(t)
    BY <2>1, QuietThreads
  <2>3. InStep(t)' /\ ServesHead(t)' /\ ~ InCallback(t)
    BY <2>1 DEF ControlInv, ThreadsInStep, InStep, ServesHead, InCallback, ClientPCs, InstancePCs
  <2> QED
    BY <1>0, <2>1, <2>2, <2>3, ThreadMoves
<1>12. ASSUME NEW t \in Threads, DropDependencies(t) PROVE ControlInv'
  <2> DEFINE p == Head(unwind[t])
             ph == [phase EXCEPT ![p] = "dead"]
             last == parent[p] # NoProxy /\ ~ Referenced(parent[p], held, ph, pc)
  <2>1. /\ last \in BOOLEAN /\ UNCHANGED <<queue, waits, pending>> /\ pc[t] = "deps"
    BY <1>12 DEF DropDependencies
  <2>2. unwind[t] \in Seq(Proxies) /\ unwind[t] # <<>>
    BY <1>0, <2>1 DEF TypeOK, ControlInv, ThreadsInStep, InStep
  <2>3. p \in Proxies
    BY <2>2, TailFacts
  <2>4. (last => parent[p] \in Proxies) /\ ph \in [Proxies -> Phases] /\ "pools" \in PCs
    BY <1>0, <2>3 DEF TypeOK, Phases, PCs
  <2>5. Dropped(t, parent[p], ph, last, "pools")
    BY <1>12 DEF DropDependencies
  <2> HIDE DEF last, ph, p
  <2>6. /\ \A u \in Threads \ {t} : /\ pc'[u] = pc[u] /\ arg'[u] = arg[u]
                                    /\ next'[u] = next[u] /\ unwind'[u] = unwind[u]
        /\ \/ pc'[t] \in {"close", "release"} /\ unwind'[t] # <<>>
           \/ pc'[t] = "pools" /\ unwind' = unwind
    BY <1>0, <2>1, <2>4, <2>5, DroppedThread
  <2> QED
    BY <1>0, <2>1, <2>6, DroppedControl
<1>13. ASSUME NEW t \in Threads, JoinPools(t) PROVE ControlInv'
  <2>1. /\ pc[t] = "join" /\ UNCHANGED <<queue, waits, pending>> /\ Others(t)
        /\ unwind'[t] = Tail(unwind[t])
        /\ pc'[t] = IF Tail(unwind[t]) = <<>> THEN "idle" ELSE "pools"
    BY <1>0, <1>13 DEF JoinPools, TypeOK
  <2>2. Quiet(t)
    BY <2>1, QuietThreads
  <2>3. InStep(t)' /\ ServesHead(t)' /\ ~ InCallback(t)
    BY <2>1 DEF ControlInv, ThreadsInStep, InStep, ServesHead, InCallback, ClientPCs, InstancePCs
  <2> QED
    BY <1>0, <2>1, <2>2, <2>3, ThreadMoves
<1>14. ASSUME UNCHANGED <<queue, threadVars>> PROVE ControlInv'
  <2>1. UNCHANGED <<queue, pc, arg, next, waits, unwind, pending>>
    BY <1>14 DEF threadVars
  <2>2. ThreadsInStep' /\ Serving'
    BY <2>1 DEF ControlInv, ThreadsInStep, InStep, Serving, ServesHead, InCallback
  <2>3. TasksAwaited'
    <3> SUFFICES ASSUME NEW i \in Instances, NEW k \in DOMAIN queue[i] PROVE TaskAwaited(i, k)'
      BY <2>1 DEF TasksAwaited
    <3>1. TaskAwaited(i, k)
      BY DEF ControlInv, TasksAwaited
    <3> QED
      BY <2>1, <3>1 DEF TaskAwaited
  <2>4. TasksDistinct' /\ FirstTaskAlone'
    BY <2>1 DEF ControlInv, TasksDistinct, SameWork, FirstTaskAlone, InCallback
  <2> QED
    BY <1>0, <2>2, <2>3, <2>4 DEF ControlInv
<1>15. ASSUME (\E p \in Proxies : CpuDelete(p)) \/ UNCHANGED vars PROVE ControlInv'
  BY <1>14, <1>15 DEF CpuDelete, vars, threadVars
<1> QED
  BY <1>0, <1>1, <1>2, <1>3, <1>4, <1>5, <1>6, <1>7, <1>8, <1>9, <1>10, <1>11, <1>12, <1>13, <1>15,
     MakeSubmitControl, CallSubmitControl, OpenSucceedsControl, OpenFailsControl,
     CallbackSubmitControl, CloseTaskControl, CloseSubmitControl
  DEF Next, ClientStarts, ClientStep, WorkerStep, DestroyStep

-----------------------------------------------------------------------------
(* Ownership *)

\* Does c need the reference it holds?
NeedsReference(c) == pc[c] \in {"dispatch", "wait"} \/ (pc[c] = "close" /\ unwind[c] = <<>>)

\* A step that changes no phase and no reference leaves thread t in step with the
\* proxies it destroys, holds or makes
KeepsOwnership(t) ==
  /\ Destroying(t)' =>
       /\ Destroying(t) /\ unwind'[t][1] = unwind[t][1]
       /\ pc'[t] = "close" => arg'[t] = unwind[t][1]
  /\ \A k \in DOMAIN unwind'[t] :
       k > 1 \/ ~ Destroying(t)' => phase[unwind'[t][k]] \in {"dead", "aborted"}
  /\ t \in Clients /\ NeedsReference(t)' => t \in held[arg'[t]]
  /\ t \in Clients /\ pc'[t] = "make" => pc[t] = "make" /\ arg'[t] = arg[t]
  /\ t \in Instances /\ pc'[t] = "teardown" => phase[arg'[t]] = "live"

\* Such a step keeps the invariant
LEMMA OwnershipKept ==
  ASSUME OwnershipInv, UNCHANGED <<phase, parent, held>>, \A t \in Threads : KeepsOwnership(t)
  PROVE  OwnershipInv'
<1>1. DestructorsInStep'
  <2> SUFFICES ASSUME NEW t \in Threads
               PROVE  /\ Destroying(t)' =>
                           /\ phase'[unwind'[t][1]] = "dying"
                           /\ pc'[t] = "close" => arg'[t] = unwind'[t][1]
                           /\ \A u \in Threads :
                                Destroying(u)' /\ unwind'[u][1] = unwind'[t][1] => u = t
                      /\ \A k \in DOMAIN unwind'[t] :
                           k > 1 \/ ~ Destroying(t)' =>
                             phase'[unwind'[t][k]] \in {"dead", "aborted"}
    BY DEF DestructorsInStep
  <2>1. KeepsOwnership(t)
    OBVIOUS
  <2>2. ASSUME Destroying(t)', NEW u \in Threads, Destroying(u)', unwind'[u][1] = unwind'[t][1]
        PROVE  u = t
    BY <2>2 DEF OwnershipInv, DestructorsInStep, KeepsOwnership
  <2> QED
    BY <2>1, <2>2 DEF OwnershipInv, DestructorsInStep, KeepsOwnership
<1>2. CallersHold'
  BY Ranges DEF CallersHold, KeepsOwnership, NeedsReference
<1>3. MakersHold'
  BY Ranges DEF OwnershipInv, MakersHold, KeepsOwnership
<1>4. OwnedAlive'
  BY Ranges DEF OwnershipInv, OwnedAlive, KeepsOwnership
<1> QED
  BY <1>1, <1>2, <1>3, <1>4 DEF OwnershipInv

\* A thread that does nothing, and one that goes on with what it does
LEMMA Unmoved ==
  ASSUME OwnershipInv, NEW t \in Threads, pc'[t] = pc[t], unwind'[t] = unwind[t], arg'[t] = arg[t]
  PROVE  KeepsOwnership(t)
<1>1. (Destroying(t)' <=> Destroying(t)) /\ (NeedsReference(t)' <=> NeedsReference(t))
  BY DEF Destroying, NeedsReference
<1> QED
  BY <1>1 DEF KeepsOwnership, OwnershipInv, DestructorsInStep, CallersHold, NeedsReference, OwnedAlive

\* A thread that is in no destructor, makes nothing and needs no reference
LEMMA Uninvolved ==
  ASSUME ControlInv, NEW t \in Threads, unwind'[t] = unwind[t],
         pc[t] \notin {"close", "release", "deps", "pools", "join"},
         pc'[t] \notin {"close", "release", "deps", "teardown"},
         t \in Clients => pc'[t] \notin {"make", "dispatch", "wait"}
  PROVE  KeepsOwnership(t)
<1>1. unwind[t] = <<>>
  BY DEF ControlInv, ThreadsInStep, InStep
<1>2. ~ Destroying(t)' /\ (t \in Clients => ~ NeedsReference(t)')
  BY DEF Destroying, NeedsReference
<1> QED
  BY <1>1, <1>2 DEF KeepsOwnership

\* A step of one thread, and of no other
LEMMA OneMoved ==
  ASSUME OwnershipInv, UNCHANGED <<phase, parent, held>>, NEW t \in Threads, KeepsOwnership(t),
         \A u \in Threads \ {t} : pc'[u] = pc[u] /\ arg'[u] = arg[u] /\ unwind'[u] = unwind[u]
  PROVE  OwnershipInv'
<1>1. \A u \in Threads : KeepsOwnership(u)
  BY Unmoved
<1> QED
  BY <1>1, OwnershipKept

\* Steps that change no phase and no reference
LEMMA OwnershipSteps ==
  ASSUME ControlInv, OwnershipInv,
         \/ \E c \in Clients : \/ MakeSubmit(c)
                               \/ \E p \in Proxies : Call(c, p) \/ StartClose(c, p)
                               \/ \E i \in Instances, holds \in BOOLEAN : CallSubmit(c, i, holds)
         \/ \E i \in Instances : \/ OpenSucceeds(i) \/ StartFunctor(i) \/ RejectTask(i) \/ EndFunctor(i)
                                 \/ StartCallback(i) \/ CallbackCheck(i) \/ CallbackReturn(i)
                                 \/ \E j \in Instances : CallbackSubmit(i, j)
                                 \/ CloseTask(i)
         \/ \E t \in Threads : \/ CloseInline(t) \/ CloseSubmit(t) \/ CloseReturn(t)
                               \/ ReleasePools(t) \/ DropPools(t) \/ JoinPools(t)
         \/ \E p \in Proxies : CpuDelete(p)
         \/ UNCHANGED vars
  PROVE  OwnershipInv'
<1>0. TypeOK /\ \A t \in Threads : InStep(t)
  BY DEF ControlInv, ThreadsInStep
<1>1. ASSUME UNCHANGED <<phase, parent, held, pc, arg, unwind>> PROVE OwnershipInv'
  <2>1. \A t \in Threads : KeepsOwnership(t)
    BY <1>1, Unmoved
  <2> QED
    BY <1>1, <2>1, OwnershipKept
<1>2. ASSUME NEW c \in Clients, NEW p \in Proxies, Call(c, p) \/ StartClose(c, p)
      PROVE  OwnershipInv'
  <2>1. /\ c \in Threads /\ c \notin Instances /\ unwind[c] = <<>> /\ unwind' = unwind
        /\ arg'[c] = p /\ pc'[c] \in {"dispatch", "close"} /\ c \in held[p]
        /\ UNCHANGED <<phase, parent, held>>
        /\ \A u \in Threads \ {c} : pc'[u] = pc[u] /\ arg'[u] = arg[u] /\ unwind'[u] = unwind[u]
    BY <1>0, <1>2, Ranges DEF Call, StartClose, InStep, TypeOK, proxyVars
  <2>2. KeepsOwnership(c)
    BY <2>1 DEF KeepsOwnership, Destroying
  <2> QED
    BY <2>1, <2>2, OneMoved
<1>3. ASSUME NEW c \in Clients, NEW i \in Instances, NEW holds \in BOOLEAN, CallSubmit(c, i, holds)
      PROVE  OwnershipInv'
  <2>1. /\ c \in Threads /\ c \notin Instances /\ unwind[c] = <<>> /\ unwind' = unwind
        /\ arg' = arg /\ pc'[c] = "wait" /\ c \in held[arg[c]]
        /\ UNCHANGED <<phase, parent, held>>
        /\ \A u \in Threads \ {c} : pc'[u] = pc[u] /\ arg'[u] = arg[u] /\ unwind'[u] = unwind[u]
    BY <1>0, <1>3, Ranges DEF CallSubmit, InStep, TypeOK, proxyVars, OwnershipInv, CallersHold
  <2>2. KeepsOwnership(c)
    BY <2>1 DEF KeepsOwnership, Destroying
  <2> QED
    BY <2>1, <2>2, OneMoved
<1>4. ASSUME NEW i \in Instances, NEW j \in Instances,
             StartFunctor(i) \/ StartCallback(i) \/ CallbackCheck(i) \/ CallbackSubmit(i, j)
      PROVE  OwnershipInv'
  <2>1. /\ i \in Threads /\ i \notin Clients /\ UNCHANGED <<phase, parent, held, unwind>>
        /\ pc[i] \in {"idle", "run", "callback", "dispatch"}
        /\ pc'[i] \in {"run", "callback", "dispatch"}
        /\ \A u \in Threads \ {i} : pc'[u] = pc[u] /\ arg'[u] = arg[u] /\ unwind'[u] = unwind[u]
    BY <1>0, <1>4, Ranges
    DEF StartFunctor, StartCallback, CallbackCheck, CallbackSubmit, TypeOK, proxyVars
  <2>2. KeepsOwnership(i)
    BY <2>1, Uninvolved
  <2> QED
    BY <2>1, <2>2, OneMoved
<1>5. ASSUME NEW i \in Instances, RejectTask(i) \/ EndFunctor(i) \/ CallbackReturn(i)
      PROVE  OwnershipInv'
  <2>1. /\ queue[i] # <<>> /\ Head(queue[i]).kind = "run" /\ Complete(i)
        /\ pc[i] \in {"idle", "run", "callback"}
    BY <1>5, Running DEF RejectTask, EndFunctor, CallbackReturn, InCallback
  <2>2. PICK c \in Clients, p \in Proxies : c = Head(queue[i]).thread /\ p = Head(queue[i]).proxy
    BY <2>1, Served, ServedRun
  <2>3. /\ c \in Threads /\ i \in Threads /\ i \notin Clients /\ c # i
        /\ UNCHANGED <<phase, parent, held, unwind>>
        /\ arg'[i] = p /\ \A u \in Threads \ {i} : arg'[u] = arg[u]
    BY <1>0, <2>1, <2>2, Ranges DEF Complete, TypeOK, proxyVars
  <2>4. /\ pc'[i] \in {"teardown", "idle"} /\ (pc'[c] = "idle" \/ pc'[c] = pc[c])
        /\ \A u \in Threads \ {i, c} : pc'[u] = pc[u]
    BY <1>0, <2>1, <2>2, <2>3 DEF Complete, TypeOK
  <2>5. pc[c] = "wait" /\ arg[c] = p
    BY <2>1, <2>2, ServedRun
  <2>6. phase[p] = "live"
    BY <2>5 DEF OwnershipInv, CallersHold, OwnedAlive
  <2>7. KeepsOwnership(i)
    <3>1. unwind[i] = <<>> /\ ~ Destroying(i)'
      BY <1>0, <2>1, <2>3, <2>4 DEF InStep, Destroying
    <3> QED
      BY <2>3, <2>4, <2>6, <3>1 DEF KeepsOwnership
  <2>8. KeepsOwnership(c)
    <3>1. CASE pc'[c] = "idle"
      BY <2>3, <2>5, <3>1, Uninvolved
    <3>2. CASE pc'[c] = pc[c]
      BY <2>3, <3>2, Unmoved
    <3> QED
      BY <2>4, <3>1, <3>2
  <2>9. \A u \in Threads : KeepsOwnership(u)
    <3> SUFFICES ASSUME NEW u \in Threads, u # i, u # c PROVE KeepsOwnership(u)
      BY <2>7, <2>8
    <3> QED
      BY <2>3, <2>4, Unmoved
  <2> QED
    BY <2>3, <2>9, OwnershipKept
<1>6. ASSUME NEW t \in Threads, CloseReturn(t) PROVE OwnershipInv'
  <2>1. /\ UNCHANGED <<phase, parent, held, unwind, arg>> /\ pc[t] = "close"
        /\ pc'[t] = (IF unwind[t] = <<>> THEN "idle" ELSE "release")
        /\ \A u \in Threads \ {t} : pc'[u] = pc[u] /\ arg'[u] = arg[u] /\ unwind'[u] = unwind[u]
    BY <1>0, <1>6 DEF CloseReturn, TypeOK
  <2>2. KeepsOwnership(t)
    <3>1. (Destroying(t)' <=> Destroying(t)) /\ ~ NeedsReference(t)'
      BY <2>1 DEF Destroying, NeedsReference
    <3> QED
      BY <2>1, <3>1 DEF KeepsOwnership, OwnershipInv, DestructorsInStep
  <2> QED
    BY <2>1, <2>2, OneMoved
<1>7. ASSUME NEW t \in Threads, ReleasePools(t) \/ DropPools(t) PROVE OwnershipInv'
  <2>1. /\ UNCHANGED <<phase, parent, held, unwind, arg>>
        /\ \/ pc[t] = "release" /\ pc'[t] = "deps"
           \/ pc[t] = "pools" /\ pc'[t] = "join"
        /\ \A u \in Threads \ {t} : pc'[u] = pc[u] /\ arg'[u] = arg[u] /\ unwind'[u] = unwind[u]
    BY <1>0, <1>7 DEF ReleasePools, DropPools, TypeOK
  <2>2. KeepsOwnership(t)
    <3>1. (Destroying(t)' <=> Destroying(t)) /\ ~ NeedsReference(t)'
      BY <2>1 DEF Destroying, NeedsReference
    <3> QED
      BY <2>1, <3>1 DEF KeepsOwnership, OwnershipInv, DestructorsInStep
  <2> QED
    BY <2>1, <2>2, OneMoved
<1>8. ASSUME NEW t \in Threads, JoinPools(t) PROVE OwnershipInv'
  <2>1. /\ UNCHANGED <<phase, parent, held, arg>> /\ pc[t] = "join"
        /\ pc'[t] \in {"idle", "pools"} /\ unwind'[t] = Tail(unwind[t])
        /\ unwind[t] \in Seq(Proxies) /\ unwind[t] # <<>>
        /\ \A u \in Threads \ {t} : pc'[u] = pc[u] /\ arg'[u] = arg[u] /\ unwind'[u] = unwind[u]
    BY <1>0, <1>8 DEF JoinPools, TypeOK, InStep
  <2>2. KeepsOwnership(t)
    <3>1. ~ Destroying(t)' /\ ~ Destroying(t) /\ ~ NeedsReference(t)'
      BY <2>1 DEF Destroying, NeedsReference
    <3>2. \A k \in DOMAIN unwind[t] : phase[unwind[t][k]] \in {"dead", "aborted"}
      BY <3>1 DEF OwnershipInv, DestructorsInStep
    <3>3. \A k \in DOMAIN unwind'[t] : phase[unwind'[t][k]] \in {"dead", "aborted"}
      BY <2>1, <3>2, TailFacts
    <3> QED
      BY <2>1, <3>1, <3>3 DEF KeepsOwnership
  <2> QED
    BY <2>1, <2>2, OneMoved
<1> QED
  BY <1>1, <1>2, <1>3, <1>4, <1>5, <1>6, <1>7, <1>8
  DEF MakeSubmit, OpenSucceeds, CloseTask, CloseInline, CloseSubmit, CpuDelete, vars, proxyVars,
      threadVars

\* Make() or Spawn() starts
LEMMA StartOwnership ==
  ASSUME ControlInv, OwnershipInv, NEW c \in Clients,
         StartMake(c) \/ \E p, r \in Proxies : StartSpawn(c, p, r)
  PROVE  OwnershipInv'
<1>0. TypeOK /\ c \in Threads /\ c \notin Instances
  BY Ranges DEF ControlInv
<1>1. PICK q \in Proxies :
        /\ phase[q] = "none" /\ phase' = [phase EXCEPT ![q] = "making"]
        /\ pc[c] = "idle" /\ pc' = [pc EXCEPT ![c] = "make"] /\ arg' = [arg EXCEPT ![c] = q]
        /\ UNCHANGED <<held, unwind>>
        /\ \A r \in Proxies \ {q} : parent'[r] = parent[r]
        /\ q # Root => parent'[q] \in Proxies /\ c \in held[parent'[q]]
        /\ parent'[Root] = NoProxy
  <2>1. CASE StartMake(c)
    BY <1>0, <2>1, ProxiesAssumption DEF StartMake, ProxiesAssumption, OwnershipInv, OwnedAlive
  <2>2. ASSUME NEW p \in Proxies, NEW r \in Proxies, StartSpawn(c, p, r)
        PROVE  /\ phase[r] = "none" /\ phase' = [phase EXCEPT ![r] = "making"]
               /\ pc[c] = "idle" /\ pc' = [pc EXCEPT ![c] = "make"] /\ arg' = [arg EXCEPT ![c] = r]
               /\ UNCHANGED <<held, unwind>>
               /\ \A x \in Proxies \ {r} : parent'[x] = parent[x]
               /\ r # Root => parent'[r] \in Proxies /\ c \in held[parent'[r]]
               /\ parent'[Root] = NoProxy
    BY <1>0, <2>2, ProxiesAssumption
    DEF StartSpawn, ProxiesAssumption, OwnershipInv, OwnedAlive, TypeOK
  <2> QED
    BY <2>1, <2>2
<1>2. /\ phase'[q] = "making" /\ \A r \in Proxies \ {q} : phase'[r] = phase[r]
      /\ pc'[c] = "make" /\ arg'[c] = q
      /\ \A u \in Threads \ {c} : pc'[u] = pc[u] /\ arg'[u] = arg[u]
      /\ \A u \in Threads : arg[u] \in Proxies /\ unwind[u] \in Seq(Proxies)
      /\ unwind[c] = <<>>
  BY <1>0, <1>1 DEF TypeOK, ControlInv, ThreadsInStep, InStep
<1>3. DestructorsInStep'
  <2> SUFFICES ASSUME NEW t \in Threads
               PROVE  /\ Destroying(t)' =>
                           /\ phase'[unwind'[t][1]] = "dying"
                           /\ pc'[t] = "close" => arg'[t] = unwind'[t][1]
                           /\ \A u \in Threads :
                                Destroying(u)' /\ unwind'[u][1] = unwind'[t][1] => u = t
                      /\ \A k \in DOMAIN unwind'[t] :
                           k > 1 \/ ~ Destroying(t)' =>
                             phase'[unwind'[t][k]] \in {"dead", "aborted"}
    BY DEF DestructorsInStep
  <2>1. \A u \in Threads : Destroying(u)' => Destroying(u) /\ u # c
    BY <1>1, <1>2 DEF Destroying
  <2>2. \A u \in Threads \ {c} : Destroying(u)' <=> Destroying(u)
    BY <1>1, <1>2 DEF Destroying
  <2>3. \A u \in Threads : \A k \in DOMAIN unwind[u] :
          phase[unwind[u][k]] # "none" => phase'[unwind[u][k]] = phase[unwind[u][k]]
    BY <1>1, <1>2
  <2>4. Destroying(t) => 1 \in DOMAIN unwind[t]
    <3>1. Destroying(t) => unwind[t] # <<>>
      BY DEF Destroying, ControlInv, ThreadsInStep, InStep
    <3> QED
      BY <1>2, <3>1, TailFacts
  <2>5. CASE t = c
    BY <1>1, <1>2, <2>1, <2>5
  <2>6. CASE t # c
    <3>1. unwind'[t] = unwind[t] /\ pc'[t] = pc[t] /\ arg'[t] = arg[t]
      BY <1>1, <1>2, <2>6
    <3> QED
      BY <1>1, <2>1, <2>2, <2>3, <2>4, <2>6, <3>1 DEF OwnershipInv, DestructorsInStep
  <2> QED
    BY <2>5, <2>6
<1>4. CallersHold'
  BY <1>1, <1>2, Ranges DEF OwnershipInv, CallersHold
<1>5. MakersHold'
  BY <1>1, <1>2, Ranges DEF OwnershipInv, MakersHold
<1>6. OwnedAlive'
  <2>1. \A p \in Proxies : held'[p] # {} => phase'[p] = "live"
    BY <1>1, <1>2 DEF OwnershipInv, OwnedAlive
  <2>2. \A i \in Instances : pc'[i] = "teardown" => phase'[arg'[i]] = "live"
    BY <1>0, <1>1, <1>2, Ranges DEF OwnershipInv, OwnedAlive
  <2>3. \A p \in Proxies :
          phase'[p] \in {"live", "dying"} /\ parent'[p] # NoProxy => phase'[parent'[p]] = "live"
    <3> SUFFICES ASSUME NEW p \in Proxies, phase'[p] \in {"live", "dying"}, parent'[p] # NoProxy
                 PROVE  phase'[parent'[p]] = "live"
      OBVIOUS
    <3>1. p # q /\ parent'[p] = parent[p] /\ parent[p] \in Proxies
      BY <1>0, <1>1, <1>2 DEF TypeOK
    <3> QED
      BY <1>1, <1>2, <3>1 DEF OwnershipInv, OwnedAlive
  <2> QED
    BY <1>1, <2>1, <2>2, <2>3 DEF OwnedAlive
<1> QED
  BY <1>3, <1>4, <1>5, <1>6 DEF OwnershipInv

\* A step of thread t that leaves the proxies that other threads destroy dying or dead
LEMMA DestructorsKept ==
  ASSUME OwnershipInv, NEW t \in Threads,
         \A u \in Threads \ {t} : pc'[u] = pc[u] /\ arg'[u] = arg[u] /\ unwind'[u] = unwind[u],
         \A u \in Threads \ {t} : Destroying(u) => phase'[unwind[u][1]] = "dying",
         \A u \in Threads \ {t} : \A k \in DOMAIN unwind[u] :
           phase[unwind[u][k]] \in {"dead", "aborted"} => phase'[unwind[u][k]] \in {"dead", "aborted"},
         Destroying(t)' =>
           /\ phase'[unwind'[t][1]] = "dying"
           /\ pc'[t] = "close" => arg'[t] = unwind'[t][1]
           /\ \A u \in Threads \ {t} : Destroying(u) => unwind[u][1] # unwind'[t][1],
         \A k \in DOMAIN unwind'[t] :
           k > 1 \/ ~ Destroying(t)' => phase'[unwind'[t][k]] \in {"dead", "aborted"}
  PROVE  DestructorsInStep'
<1> SUFFICES ASSUME NEW v \in Threads
             PROVE  /\ Destroying(v)' =>
                         /\ phase'[unwind'[v][1]] = "dying"
                         /\ pc'[v] = "close" => arg'[v] = unwind'[v][1]
                         /\ \A u \in Threads :
                              Destroying(u)' /\ unwind'[u][1] = unwind'[v][1] => u = v
                    /\ \A k \in DOMAIN unwind'[v] :
                         k > 1 \/ ~ Destroying(v)' =>
                           phase'[unwind'[v][k]] \in {"dead", "aborted"}
  BY DEF DestructorsInStep
<1>1. \A u \in Threads \ {t} : Destroying(u)' <=> Destroying(u)
  BY DEF Destroying
<1>2. CASE v = t
  BY <1>1, <1>2
<1>3. CASE v # t
  <2>1. unwind'[v] = unwind[v] /\ pc'[v] = pc[v] /\ arg'[v] = arg[v]
    BY <1>3
  <2> QED
    BY <1>1, <1>3, <2>1 DEF OwnershipInv, DestructorsInStep
<1> QED
  BY <1>2, <1>3

\* A thread in a destructor has it on its stack
LEMMA Unwinding ==
  ASSUME ControlInv, NEW t \in Threads, Destroying(t)
  PROVE  unwind[t] # <<>> /\ 1 \in DOMAIN unwind[t] /\ unwind[t][1] \in Proxies
<1>1. unwind[t] \in Seq(Proxies) /\ unwind[t] # <<>>
  BY DEF Destroying, ControlInv, ThreadsInStep, InStep, TypeOK
<1> QED
  BY <1>1, TailFacts

\* The open of a half made proxy fails, and its client destroys it
LEMMA OpenFailsOwnership ==
  ASSUME ControlInv, OwnershipInv, NEW i \in Instances, OpenFails(i) PROVE OwnershipInv'
<1>0. TypeOK
  BY DEF ControlInv
<1>1. PICK c \in Clients, q \in Proxies :
        c = Head(queue[i]).thread /\ q = Head(queue[i]).proxy /\ pc[c] = "make" /\ arg[c] = q
  BY Served, ServedOpen DEF OpenFails, OpenTask
<1>2. /\ c \in Threads /\ c \notin Instances /\ UNCHANGED <<parent, held, arg>>
      /\ phase'[q] = "aborted" /\ \A r \in Proxies \ {q} : phase'[r] = phase[r]
      /\ pc'[c] = "pools" /\ unwind'[c] = <<q>>
      /\ \A u \in Threads \ {c} : pc'[u] = pc[u] /\ unwind'[u] = unwind[u]
      /\ \A u \in Threads : arg[u] \in Proxies /\ unwind[u] \in Seq(Proxies)
  BY <1>0, <1>1, Ranges DEF OpenFails, TypeOK
<1>3. phase[q] = "making" /\ \A d \in Clients \ {c} : pc[d] = "make" => arg[d] # q
  BY <1>1 DEF OwnershipInv, MakersHold
<1>4. DestructorsInStep'
  <2>1. \A k \in DOMAIN unwind'[c] : phase'[unwind'[c][k]] = "aborted"
    BY <1>2
  <2>2. ~ Destroying(c)'
    BY <1>2 DEF Destroying
  <2>3. \A u \in Threads : Destroying(u) => phase'[unwind[u][1]] = "dying"
    BY <1>2, <1>3, Unwinding DEF OwnershipInv, DestructorsInStep
  <2>4. \A u \in Threads : \A k \in DOMAIN unwind[u] :
          phase[unwind[u][k]] \in {"dead", "aborted"} => phase'[unwind[u][k]] \in {"dead", "aborted"}
    BY <1>2, <1>3
  <2> QED
    BY <1>2, <2>1, <2>2, <2>3, <2>4, DestructorsKept
<1>5. CallersHold'
  BY <1>2, Ranges DEF OwnershipInv, CallersHold
<1>6. MakersHold'
  <2> SUFFICES ASSUME NEW d \in Clients, pc'[d] = "make"
               PROVE  /\ phase'[arg'[d]] = "making"
                      /\ arg'[d] # Root =>
                           parent'[arg'[d]] \in Proxies /\ d \in held'[parent'[arg'[d]]]
                      /\ \A e \in Clients : pc'[e] = "make" /\ arg'[e] = arg'[d] => e = d
    BY DEF MakersHold
  <2>1. d # c /\ pc[d] = "make" /\ arg[d] # q /\ arg[d] \in Proxies
    BY <1>2, <1>3, Ranges
  <2> QED
    BY <1>2, <2>1, Ranges DEF OwnershipInv, MakersHold
<1>7. OwnedAlive'
  <2>1. \A p \in Proxies : phase[p] = "live" => phase'[p] = "live"
    BY <1>2, <1>3
  <2>2. \A p \in Proxies : phase'[p] \in {"live", "dying"} => phase[p] = phase'[p]
    BY <1>2
  <2>3. \A j \in Instances : pc'[j] = pc[j] /\ arg[j] \in Proxies
    BY <1>2, Ranges
  <2>4. \A p \in Proxies : parent[p] # NoProxy => parent[p] \in Proxies
    BY <1>0 DEF TypeOK
  <2> QED
    BY <1>2, <2>1, <2>2, <2>3, <2>4 DEF OwnershipInv, OwnedAlive
<1> QED
  BY <1>4, <1>5, <1>6, <1>7 DEF OwnershipInv

\* Make() or Spawn() returns
LEMMA MakeReturnOwnership ==
  ASSUME ControlInv, OwnershipInv, NEW c \in Clients, MakeReturn(c) PROVE OwnershipInv'
<1>0. TypeOK
  BY DEF ControlInv
<1>1. PICK q \in Proxies : q = arg[c]
  BY <1>0, Ranges DEF TypeOK
<1>2. /\ c \in Threads /\ c \notin Instances /\ UNCHANGED <<parent, arg, unwind>> /\ pc[c] = "make"
      /\ phase'[q] = "live" /\ \A r \in Proxies \ {q} : phase'[r] = phase[r]
      /\ held'[q] = Clients /\ \A r \in Proxies \ {q} : held'[r] = held[r]
      /\ pc'[c] = "idle" /\ \A u \in Threads \ {c} : pc'[u] = pc[u]
      /\ \A u \in Threads : arg[u] \in Proxies /\ unwind[u] \in Seq(Proxies)
      /\ unwind[c] = <<>>
  BY <1>0, <1>1, Ranges DEF MakeReturn, TypeOK, ControlInv, ThreadsInStep, InStep
<1>3. /\ phase[q] = "making" /\ \A d \in Clients \ {c} : pc[d] = "make" => arg[d] # q
      /\ q # Root => parent[q] \in Proxies /\ c \in held[parent[q]]
  BY <1>1, <1>2 DEF OwnershipInv, MakersHold
<1>4. DestructorsInStep'
  <2>1. \A u \in Threads : Destroying(u) => phase'[unwind[u][1]] = "dying"
    BY <1>2, <1>3, Unwinding DEF OwnershipInv, DestructorsInStep
  <2>2. \A u \in Threads : \A k \in DOMAIN unwind[u] :
          phase[unwind[u][k]] \in {"dead", "aborted"} => phase'[unwind[u][k]] \in {"dead", "aborted"}
    BY <1>2, <1>3
  <2>3. ~ Destroying(c)'
    BY <1>2 DEF Destroying
  <2> QED
    BY <1>2, <2>1, <2>2, <2>3, DestructorsKept
<1>5. \A p \in Proxies, d \in Clients : d \in held[p] => d \in held'[p]
  BY <1>2
<1>6. CallersHold'
  BY <1>2, <1>5, Ranges DEF OwnershipInv, CallersHold
<1>7. MakersHold'
  <2> SUFFICES ASSUME NEW d \in Clients, pc'[d] = "make"
               PROVE  /\ phase'[arg'[d]] = "making"
                      /\ arg'[d] # Root =>
                           parent'[arg'[d]] \in Proxies /\ d \in held'[parent'[arg'[d]]]
                      /\ \A e \in Clients : pc'[e] = "make" /\ arg'[e] = arg'[d] => e = d
    BY DEF MakersHold
  <2>1. d # c /\ pc[d] = "make" /\ arg[d] # q /\ arg[d] \in Proxies
    BY <1>2, <1>3, Ranges
  <2> QED
    BY <1>2, <1>5, <2>1, Ranges DEF OwnershipInv, MakersHold
<1>8. OwnedAlive'
  <2>1. \A p \in Proxies : phase[p] = "live" => phase'[p] = "live"
    BY <1>2
  <2>2. \A p \in Proxies : held'[p] # {} => phase'[p] = "live"
    BY <1>2 DEF OwnershipInv, OwnedAlive
  <2>3. \A j \in Instances : pc'[j] = pc[j] /\ arg[j] \in Proxies
    BY <1>2, Ranges
  <2>4. ASSUME NEW p \in Proxies, phase'[p] \in {"live", "dying"}, parent[p] # NoProxy
        PROVE  phase'[parent[p]] = "live"
    <3>1. parent[p] \in Proxies
      BY <1>0, <2>4 DEF TypeOK
    <3>2. CASE p = q
      <4>1. q # Root
        BY <2>4, <3>2 DEF OwnershipInv, OwnedAlive
      <4> QED
        BY <1>3, <2>1, <3>2, <4>1 DEF OwnershipInv, OwnedAlive
    <3>3. CASE p # q
      BY <1>2, <2>1, <2>4, <3>1, <3>3 DEF OwnershipInv, OwnedAlive
    <3> QED
      BY <3>2, <3>3
  <2> QED
    BY <1>2, <2>1, <2>2, <2>3, <2>4 DEF OwnershipInv, OwnedAlive
<1> QED
  BY <1>4, <1>6, <1>7, <1>8 DEF OwnershipInv

\* Is r a proxy nobody owns any more, after the step?
Orphaned(r) ==
  /\ held'[r] = {}
  /\ \A q \in Proxies : parent[q] = r => phase'[q] \notin {"live", "dying"}
  /\ \A i \in Instances : pc'[i] = "teardown" => arg'[i] # r

\* Thread t drops references, enters destructors of what nobody owns any more, and
\* leaves destructors
LEMMA DroppedOwnership ==
  ASSUME ControlInv, OwnershipInv, NEW t \in Threads, parent' = parent,
         \A r \in Proxies :
           \/ phase'[r] = phase[r]
           \/ phase[r] = "live" /\ phase'[r] = "dying" /\ Orphaned(r)
           \/ phase[r] = "dying" /\ phase'[r] = "dead" /\ Destroying(t) /\ unwind[t][1] = r,
         \A r \in Proxies : held'[r] \subseteq held[r],
         \A r \in Proxies, d \in Clients \ {t} : d \in held[r] => d \in held'[r],
         \A u \in Threads \ {t} : pc'[u] = pc[u] /\ arg'[u] = arg[u] /\ unwind'[u] = unwind[u],
         Destroying(t)' =>
           /\ unwind'[t][1] \in Proxies
           /\ phase[unwind'[t][1]] = "live" /\ phase'[unwind'[t][1]] = "dying"
           /\ pc'[t] = "close" => arg'[t] = unwind'[t][1],
         \A k \in DOMAIN unwind'[t] :
           k > 1 \/ ~ Destroying(t)' => phase'[unwind'[t][k]] \in {"dead", "aborted"},
         pc'[t] \notin {"make", "teardown"}, ~ NeedsReference(t)'
  PROVE  OwnershipInv'
<1>0. TypeOK
  BY DEF ControlInv
<1>1. DestructorsInStep'
  <2>1. ASSUME NEW u \in Threads \ {t}, Destroying(u)
        PROVE  phase[unwind[u][1]] = "dying" /\ phase'[unwind[u][1]] = "dying"
    <3>1. unwind[u][1] \in Proxies /\ phase[unwind[u][1]] = "dying"
      BY <2>1, Unwinding DEF OwnershipInv, DestructorsInStep
    <3>2. ~ (Destroying(t) /\ unwind[t][1] = unwind[u][1])
      BY <2>1 DEF OwnershipInv, DestructorsInStep
    <3> QED
      BY <3>1, <3>2
  <2>2. \A u \in Threads \ {t} : \A k \in DOMAIN unwind[u] :
          phase[unwind[u][k]] \in {"dead", "aborted"} => phase'[unwind[u][k]] \in {"dead", "aborted"}
    <3> SUFFICES ASSUME NEW u \in Threads \ {t}, NEW k \in DOMAIN unwind[u],
                        phase[unwind[u][k]] \in {"dead", "aborted"}
                 PROVE  phase'[unwind[u][k]] \in {"dead", "aborted"}
      OBVIOUS
    <3>1. unwind[u][k] \in Proxies
      BY <1>0 DEF TypeOK
    <3> QED
      BY <3>1
  <2>3. \A u \in Threads \ {t} : Destroying(t)' /\ Destroying(u) => unwind[u][1] # unwind'[t][1]
    BY <2>1
  <2> QED
    BY <2>1, <2>2, <2>3, DestructorsKept
<1>2. \A p \in Proxies : phase[p] \in {"making"} => phase'[p] = phase[p]
  OBVIOUS
<1>3. CallersHold'
  <2> SUFFICES ASSUME NEW d \in Clients, NeedsReference(d)' PROVE d \in held'[arg'[d]]
    BY DEF CallersHold, NeedsReference
  <2>1. d \in Threads /\ d # t
    BY Ranges
  <2>2. NeedsReference(d) /\ arg'[d] = arg[d] /\ arg[d] \in Proxies
    BY <1>0, <2>1 DEF NeedsReference, TypeOK
  <2> QED
    BY <2>1, <2>2 DEF OwnershipInv, CallersHold, NeedsReference
<1>4. MakersHold'
  <2> SUFFICES ASSUME NEW d \in Clients, pc'[d] = "make"
               PROVE  /\ phase'[arg'[d]] = "making"
                      /\ arg'[d] # Root =>
                           parent'[arg'[d]] \in Proxies /\ d \in held'[parent'[arg'[d]]]
                      /\ \A e \in Clients : pc'[e] = "make" /\ arg'[e] = arg'[d] => e = d
    BY DEF MakersHold
  <2>1. /\ d \in Threads /\ d # t /\ pc[d] = "make" /\ arg'[d] = arg[d] /\ arg[d] \in Proxies
        /\ \A e \in Clients : pc'[e] = "make" => pc[e] = "make" /\ arg'[e] = arg[e]
    BY <1>0, Ranges DEF TypeOK
  <2>2. phase'[arg[d]] = "making"
    BY <1>2, <2>1 DEF OwnershipInv, MakersHold
  <2>3. arg[d] # Root => parent[arg[d]] \in Proxies /\ d \in held'[parent[arg[d]]]
    BY <2>1 DEF OwnershipInv, MakersHold
  <2> QED
    BY <2>1, <2>2, <2>3 DEF OwnershipInv, MakersHold
<1>5. OwnedAlive'
  <2>1. \A p \in Proxies : phase[p] = "live" => phase'[p] = "live" \/ Orphaned(p)
    OBVIOUS
  <2>2. \A p \in Proxies : held'[p] # {} => phase'[p] = "live"
    BY <2>1 DEF OwnershipInv, OwnedAlive, Orphaned
  <2>3. ASSUME NEW i \in Instances, pc'[i] = "teardown" PROVE phase'[arg'[i]] = "live"
    <3>1. i \in Threads /\ i # t /\ pc[i] = "teardown" /\ arg'[i] = arg[i] /\ arg[i] \in Proxies
      BY <1>0, <2>3, Ranges DEF TypeOK
    <3>2. ~ Orphaned(arg[i])
      BY <2>3, <3>1 DEF Orphaned
    <3> QED
      BY <2>1, <3>1, <3>2 DEF OwnershipInv, OwnedAlive
  <2>4. ASSUME NEW p \in Proxies, phase'[p] \in {"live", "dying"}, parent[p] # NoProxy
        PROVE  phase'[parent[p]] = "live"
    <3>1. parent[p] \in Proxies /\ phase[p] \in {"live", "dying"}
      BY <1>0, <2>4 DEF TypeOK
    <3>2. ~ Orphaned(parent[p])
      BY <2>4 DEF Orphaned
    <3> QED
      BY <2>1, <2>4, <3>1, <3>2 DEF OwnershipInv, OwnedAlive
  <2> QED
    BY <2>2, <2>3, <2>4 DEF OwnershipInv, OwnedAlive
<1> QED
  BY <1>1, <1>3, <1>4, <1>5 DEF OwnershipInv

\* A client lets go of a proxy
LEMMA ClientDropOwnership ==
  ASSUME ControlInv, OwnershipInv, NEW c \in Clients, NEW p \in Proxies, ClientDrop(c, p)
  PROVE  OwnershipInv'
<1> DEFINE h == [held EXCEPT ![p] = @ \ {c}]
           last == ~ Referenced(p, h, phase, pc)
<1>1. /\ TypeOK /\ c \in Threads /\ c \notin Instances /\ last \in BOOLEAN /\ parent' = parent
      /\ phase \in [Proxies -> Phases] /\ "idle" \in PCs /\ c \in held[p] /\ unwind[c] = <<>>
  BY Ranges DEF ControlInv, TypeOK, ClientDrop, PCs, ThreadsInStep, InStep
<1>2. Dropped(c, p, phase, last, "idle")
  BY DEF ClientDrop
<1>3. /\ held'[p] = held[p] \ {c} /\ \A r \in Proxies \ {p} : held'[r] = held[r]
      /\ held' = h
  BY <1>1 DEF ClientDrop, TypeOK
<1>4. last => /\ \A q \in Proxies : parent[q] = p => phase[q] \notin {"live", "dying"}
              /\ \A i \in Instances : pc[i] = "teardown" => arg[i] # p
              /\ held'[p] = {}
  BY <1>3 DEF Referenced
<1>5. phase[p] = "live"
  BY <1>1 DEF OwnershipInv, OwnedAlive
<1> HIDE DEF last, h
<1>6. \A u \in Threads \ {c} : pc'[u] = pc[u] /\ arg'[u] = arg[u] /\ unwind'[u] = unwind[u]
  BY <1>1, <1>2, DroppedThread
<1>7. CASE last
  <2>1. /\ pc'[c] \in {"close", "release"} /\ arg'[c] = p /\ unwind'[c] # <<>> /\ unwind'[c][1] = p
        /\ \A k \in DOMAIN unwind'[c] : k # 1 => k - 1 \in DOMAIN unwind[c]
        /\ phase' = [phase EXCEPT ![p] = "dying"]
    BY <1>1, <1>2, <1>7, DroppedThread
  <2>2. /\ phase'[p] = "dying" /\ \A r \in Proxies \ {p} : phase'[r] = phase[r]
        /\ \A k \in DOMAIN unwind'[c] : k = 1
    BY <1>1, <2>1
  <2>3. Orphaned(p)
    <3>1. parent[p] # p
      BY <1>4, <1>5, <1>7
    <3> QED
      BY <1>1, <1>4, <1>6, <1>7, <2>2, <3>1, Ranges DEF Orphaned
  <2>4. Destroying(c)' /\ ~ NeedsReference(c)'
    BY <2>1 DEF Destroying, NeedsReference
  <2> QED
    BY <1>1, <1>3, <1>5, <1>6, <2>1, <2>2, <2>3, <2>4, DroppedOwnership
<1>8. CASE ~ last
  <2>1. pc'[c] = "idle" /\ phase' = phase /\ unwind' = unwind
    BY <1>1, <1>2, <1>8, DroppedThread
  <2>2. ~ Destroying(c)' /\ ~ NeedsReference(c)'
    BY <2>1 DEF Destroying, NeedsReference
  <2> QED
    BY <1>1, <1>3, <1>6, <2>1, <2>2, DroppedOwnership
<1> QED
  BY <1>7, <1>8

\* A callback lets go of a proxy
LEMMA TeardownOwnership ==
  ASSUME ControlInv, OwnershipInv, NEW i \in Instances, TeardownCallback(i)
  PROVE  OwnershipInv'
<1>0. PICK p \in Proxies : p = arg[i]
  BY Ranges DEF ControlInv, TypeOK
<1> DEFINE w == [pc EXCEPT ![i] = "idle"]
           last == ~ Referenced(p, held, phase, w)
<1>1. /\ TypeOK /\ i \in Threads /\ i \notin Clients /\ last \in BOOLEAN /\ parent' = parent
      /\ phase \in [Proxies -> Phases] /\ "idle" \in PCs /\ pc[i] = "teardown" /\ unwind[i] = <<>>
      /\ held' = held
  BY Ranges DEF ControlInv, TypeOK, TeardownCallback, PCs, ThreadsInStep, InStep
<1>2. Dropped(i, p, phase, last, "idle")
  BY <1>0 DEF TeardownCallback
<1>3. last => /\ \A q \in Proxies : parent[q] = p => phase[q] \notin {"live", "dying"}
              /\ \A j \in Instances \ {i} : pc[j] = "teardown" => arg[j] # p
              /\ held[p] = {}
  <2>1. \A j \in Instances \ {i} : w[j] = pc[j]
    BY <1>1, Ranges DEF TypeOK
  <2> QED
    BY <2>1 DEF Referenced
<1>4. phase[p] = "live"
  BY <1>0, <1>1 DEF OwnershipInv, OwnedAlive
<1> HIDE DEF last, w
<1>5. \A u \in Threads \ {i} : pc'[u] = pc[u] /\ arg'[u] = arg[u] /\ unwind'[u] = unwind[u]
  BY <1>1, <1>2, DroppedThread
<1>6. CASE last
  <2>1. /\ pc'[i] \in {"close", "release"} /\ arg'[i] = p /\ unwind'[i] # <<>> /\ unwind'[i][1] = p
        /\ \A k \in DOMAIN unwind'[i] : k # 1 => k - 1 \in DOMAIN unwind[i]
        /\ phase' = [phase EXCEPT ![p] = "dying"]
    BY <1>1, <1>2, <1>6, DroppedThread
  <2>2. /\ phase'[p] = "dying" /\ \A r \in Proxies \ {p} : phase'[r] = phase[r]
        /\ \A k \in DOMAIN unwind'[i] : k = 1
    BY <1>1, <2>1
  <2>3. Orphaned(p)
    <3>1. parent[p] # p
      BY <1>3, <1>4, <1>6
    <3> QED
      BY <1>1, <1>3, <1>5, <1>6, <2>1, <2>2, <3>1, Ranges DEF Orphaned
  <2>4. Destroying(i)' /\ ~ NeedsReference(i)'
    BY <2>1 DEF Destroying, NeedsReference
  <2> QED
    BY <1>1, <1>4, <1>5, <2>1, <2>2, <2>3, <2>4, DroppedOwnership
<1>7. CASE ~ last
  <2>1. pc'[i] = "idle" /\ phase' = phase /\ unwind' = unwind
    BY <1>1, <1>2, <1>7, DroppedThread
  <2>2. ~ Destroying(i)' /\ ~ NeedsReference(i)'
    BY <2>1 DEF Destroying, NeedsReference
  <2> QED
    BY <1>1, <1>5, <2>1, <2>2, DroppedOwnership
<1> QED
  BY <1>6, <1>7

\* A destructor ends, and lets go of the proxy it was spawned from
LEMMA DependenciesOwnership ==
  ASSUME ControlInv, OwnershipInv, NEW t \in Threads, DropDependencies(t)
  PROVE  OwnershipInv'
<1>0. /\ TypeOK /\ pc[t] = "deps" /\ Destroying(t) /\ UNCHANGED <<parent, held>>
      /\ unwind[t] \in Seq(Proxies) /\ unwind[t] # <<>>
  BY DEF ControlInv, DropDependencies, Destroying, TypeOK, ThreadsInStep, InStep
<1>1. PICK p \in Proxies : p = Head(unwind[t]) /\ p = unwind[t][1]
  BY <1>0, TailFacts
<1>2. /\ phase[p] = "dying"
      /\ \A k \in DOMAIN unwind[t] : k > 1 => phase[unwind[t][k]] \in {"dead", "aborted"}
      /\ \A k \in DOMAIN unwind[t] : k \in Nat /\ k >= 1 /\ unwind[t][k] \in Proxies
  BY <1>0, <1>1 DEF OwnershipInv, DestructorsInStep
<1>11. PICK q \in Proxies \cup {NoProxy} : q = parent[p]
  BY <1>0 DEF TypeOK
<1> DEFINE ph == [phase EXCEPT ![p] = "dead"]
           last == q # NoProxy /\ ~ Referenced(q, held, ph, pc)
<1>3. /\ last \in BOOLEAN /\ ph \in [Proxies -> Phases] /\ "pools" \in PCs
      /\ ph[p] = "dead" /\ (\A r \in Proxies \ {p} : ph[r] = phase[r])
      /\ (last => q \in Proxies)
  BY <1>0 DEF TypeOK, Phases, PCs
<1>4. Dropped(t, q, ph, last, "pools")
  BY <1>1, <1>11 DEF DropDependencies
<1>5. last => /\ \A r \in Proxies : parent[r] = q => ph[r] \notin {"live", "dying"}
              /\ \A i \in Instances : pc[i] = "teardown" => arg[i] # q
              /\ held[q] = {}
  BY DEF Referenced
<1>6. last => phase[q] = "live"
  BY <1>2, <1>11 DEF OwnershipInv, OwnedAlive
<1> HIDE DEF last, ph
<1>10. /\ TypeOK /\ last \in BOOLEAN /\ ph \in [Proxies -> Phases] /\ "pools" \in PCs
      /\ (last => q \in Proxies)
  BY <1>0, <1>3
<1>7. \A u \in Threads \ {t} : pc'[u] = pc[u] /\ arg'[u] = arg[u] /\ unwind'[u] = unwind[u]
  BY <1>4, <1>10, DroppedThread
<1>8. CASE last
  <2>1. /\ pc'[t] \in {"close", "release"} /\ arg'[t] = q /\ unwind'[t] # <<>> /\ unwind'[t][1] = q
        /\ \A k \in DOMAIN unwind'[t] :
             k # 1 => k - 1 \in DOMAIN unwind[t] /\ unwind'[t][k] = unwind[t][k - 1]
        /\ phase' = [ph EXCEPT ![q] = "dying"]
    <3>1. /\ pc'[t] \in {"close", "release"} /\ arg'[t] = q /\ unwind'[t] # <<>> /\ unwind'[t][1] = q
      BY <1>4, <1>8, <1>10, DroppedThread
    <3>2. \A k \in DOMAIN unwind'[t] :
             k # 1 => k - 1 \in DOMAIN unwind[t] /\ unwind'[t][k] = unwind[t][k - 1]
      BY <1>4, <1>8, <1>10, DroppedThread
    <3>3. phase' = [ph EXCEPT ![q] = "dying"]
      BY <1>4, <1>8 DEF Dropped
    <3> QED
      BY <3>1, <3>2, <3>3
  <2>2. /\ phase[q] = "live" /\ q # p /\ q \in Proxies
        /\ phase'[q] = "dying" /\ phase'[p] = "dead"
        /\ \A r \in Proxies \ {p, q} : phase'[r] = phase[r]
    BY <1>2, <1>3, <1>6, <1>8, <2>1
  <2>3. Orphaned(q)
    <3>1. parent[q] # q
      BY <1>3, <1>5, <1>8, <2>2
    <3>2. \A r \in Proxies : parent[r] = q => phase'[r] \notin {"live", "dying"}
      BY <1>3, <1>5, <1>8, <2>2, <3>1
    <3> QED
      BY <1>0, <1>5, <1>7, <1>8, <2>1, <3>2, Ranges DEF Orphaned
  <2>4. Destroying(t)' /\ ~ NeedsReference(t)'
    BY <2>1 DEF Destroying, NeedsReference
  <2>5. ASSUME NEW k \in DOMAIN unwind'[t], k > 1
        PROVE  phase'[unwind'[t][k]] \in {"dead", "aborted"}
    <3>1. PICK l \in DOMAIN unwind[t] : unwind'[t][k] = unwind[t][l]
      BY <2>1, <2>5
    <3>2. CASE l = 1
      BY <1>1, <2>2, <3>1, <3>2
    <3>3. CASE l # 1
      <4>1. phase[unwind[t][l]] \in {"dead", "aborted"} /\ unwind[t][l] \in Proxies
        BY <1>2, <3>3
      <4> QED
        BY <1>2, <2>2, <3>1, <4>1
    <3> QED
      BY <3>2, <3>3
  <2> QED
    BY <1>0, <1>1, <1>2, <1>7, <2>1, <2>2, <2>3, <2>4, <2>5, DroppedOwnership
<1>9. CASE ~ last
  <2>1. pc'[t] = "pools" /\ phase' = ph /\ unwind' = unwind
    BY <1>4, <1>9, <1>10, DroppedThread
  <2>2. ~ Destroying(t)' /\ ~ NeedsReference(t)'
    BY <2>1 DEF Destroying, NeedsReference
  <2>3. ASSUME NEW k \in DOMAIN unwind'[t] PROVE phase'[unwind'[t][k]] \in {"dead", "aborted"}
    <3>1. CASE k = 1
      BY <1>1, <1>3, <2>1, <3>1
    <3>2. CASE k # 1
      <4>1. phase[unwind[t][k]] \in {"dead", "aborted"} /\ unwind[t][k] \in Proxies
        BY <1>2, <2>1, <2>3, <3>2
      <4> QED
        BY <1>2, <1>3, <2>1, <4>1
    <3> QED
      BY <3>1, <3>2
  <2>4. \A r \in Proxies : phase'[r] = phase[r] \/ (r = p /\ phase'[r] = "dead")
    BY <1>3, <2>1
  <2> QED
    BY <1>0, <1>1, <1>2, <1>7, <2>1, <2>2, <2>3, <2>4, DroppedOwnership
<1> QED
  BY <1>8, <1>9

\* Every step keeps ownership
LEMMA OwnershipStep ==
  ASSUME ControlInv, OwnershipInv, [Next]_vars PROVE OwnershipInv'
  BY OwnershipSteps, StartOwnership, OpenFailsOwnership, MakeReturnOwnership, ClientDropOwnership,
     TeardownOwnership, DependenciesOwnership
  DEF Next, ClientStarts, ClientStep, WorkerStep, DestroyStep

-----------------------------------------------------------------------------
(* Tables *)

\* Whoever closes a proxy holds a reference to it, or destroys it
LEMMA ClosersOwn ==
  ASSUME ControlInv, OwnershipInv, NEW t \in Threads, pc[t] = "close"
  PROVE  /\ arg[t] \in Proxies /\ phase[arg[t]] \in {"live", "dying"}
         /\ t \in Instances => phase[arg[t]] = "dying" /\ Destroying(t)
         /\ unwind[t] # <<>> => Destroying(t) /\ arg[t] = unwind[t][1]
<1>1. arg[t] \in Proxies
  BY DEF ControlInv, TypeOK
<1>2. CASE unwind[t] = <<>>
  <2>1. t \in Clients /\ t \notin Instances
    BY <1>2, Ranges DEF ControlInv, ThreadsInStep, InStep
  <2> QED
    BY <1>1, <1>2, <2>1 DEF OwnershipInv, CallersHold, OwnedAlive
<1>3. CASE unwind[t] # <<>>
  <2>1. Destroying(t)
    BY <1>3 DEF Destroying
  <2> QED
    BY <1>1, <1>3, <2>1 DEF OwnershipInv, DestructorsInStep
<1> QED
  BY <1>2, <1>3

\* Whoever a task serves owns the proxy it is for, or makes it
LEMMA TasksOwned ==
  ASSUME ControlInv, OwnershipInv PROVE NoUseAfterFree
<1> SUFFICES ASSUME NEW i \in Instances, NEW k \in DOMAIN queue[i]
             PROVE  LET task == queue[i][k]
                    IN  CASE task.kind = "run" -> phase[task.proxy] = "live"
                          [] task.kind = "open" ->
                               /\ phase[task.proxy] = "making"
                               /\ task.proxy # Root => phase[parent[task.proxy]] = "live"
                          [] task.kind = "close" -> phase[task.proxy] \in {"live", "dying"}
  BY DEF NoUseAfterFree
<1>1. /\ TaskAwaited(i, k) /\ queue[i][k].thread \in Threads /\ queue[i][k].proxy \in Proxies
      /\ queue[i][k].kind \in {"run", "open", "close"}
  BY QueuedTask
<1>2. CASE queue[i][k].kind = "run"
  BY <1>1, <1>2 DEF TaskAwaited, OwnershipInv, CallersHold, OwnedAlive
<1>3. CASE queue[i][k].kind = "open"
  <2>1. PICK c \in Clients : pc[c] = "make" /\ arg[c] = queue[i][k].proxy
    BY <1>1, <1>3 DEF TaskAwaited
  <2>2. /\ phase[queue[i][k].proxy] = "making"
        /\ queue[i][k].proxy # Root => phase[parent[queue[i][k].proxy]] = "live"
    BY <2>1 DEF OwnershipInv, MakersHold, OwnedAlive
  <2> QED
    BY <1>3, <2>2
<1>4. CASE queue[i][k].kind = "close"
  <2>1. pc[queue[i][k].thread] = "close" /\ arg[queue[i][k].thread] = queue[i][k].proxy
    BY <1>1, <1>4 DEF TaskAwaited
  <2>2. phase[queue[i][k].proxy] \in {"live", "dying"}
    BY <1>1, <2>1, ClosersOwn
  <2> QED
    BY <1>4, <2>2
<1> QED
  BY <1>1, <1>2, <1>3, <1>4

\* The phase of the proxy of a task of each kind
LEMMA TaskPhases ==
  ASSUME ControlInv, OwnershipInv, NEW i \in Instances, NEW k \in DOMAIN queue[i]
  PROVE  /\ queue[i][k].kind = "run" => phase[queue[i][k].proxy] = "live"
         /\ queue[i][k].kind = "open" => phase[queue[i][k].proxy] = "making"
<1>1. NoUseAfterFree
  BY TasksOwned
<1>2. CASE queue[i][k].kind = "run"
  BY <1>1, <1>2 DEF NoUseAfterFree
<1>3. CASE queue[i][k].kind = "open"
  BY <1>1, <1>3 DEF NoUseAfterFree
<1> QED
  BY <1>2, <1>3

\* Pools and closed proxies
ProxyInv == PoolsOutlive /\ ClosesInTurn /\ ClosedForGood

\* No table is opened, but those of a proxy being made
OnlyCloses ==
  \A p \in Proxies, i \in Instances :
    table'[p][i] = "open" => table[p][i] = "open" \/ phase[p] = "making"

\* Whoever closes goes on closing, or has just started
LEMMA ClosesKept ==
  ASSUME ControlInv, OwnershipInv, ClosesInTurn, OnlyCloses,
         \A t \in Threads : pc'[t] = "close" =>
           \/ next'[t] = 1
           \/ pc[t] = "close" /\ arg'[t] = arg[t] /\ next'[t] = next[t] /\ waits'[t] = waits[t]
  PROVE  ClosesInTurn'
<1> SUFFICES ASSUME NEW t \in Threads, pc'[t] = "close",
                    NEW i \in Instances, i < next'[t], i \notin waits'[t]
             PROVE  table'[arg'[t]][i] # "open"
  BY DEF ClosesInTurn
<1>1. next'[t] # 1
  BY Ranges DEF Instances
<1>2. pc[t] = "close" /\ arg'[t] = arg[t] /\ next'[t] = next[t] /\ waits'[t] = waits[t]
  BY <1>1
<1>3. arg[t] \in Proxies /\ phase[arg[t]] # "making"
  BY <1>2, ClosersOwn
<1> QED
  BY <1>2, <1>3 DEF ClosesInTurn, OnlyCloses

\* Steps that leave the pools and phases alone, and no destructor behind
LEMMA ProxyKept ==
  ASSUME ControlInv, OwnershipInv, ProxyInv, UNCHANGED <<phase, isClosed, poolHeld, cpu>>,
         OnlyCloses,
         \A t \in Threads : Destroying(t)' =>
           Destroying(t) /\ unwind'[t][1] = unwind[t][1] /\ pc'[t] = pc[t],
         ClosesInTurn'
  PROVE  ProxyInv'
<1>1. PoolsOutlive'
  BY DEF ProxyInv, PoolsOutlive
<1>2. ClosedForGood'
  <2>1. \A t \in Threads : pc'[t] \in {"release", "deps"} => Destroying(t)'
    BY DEF Destroying
  <2>2. \A t \in Threads : pc'[t] \in {"release", "deps"} => isClosed'[unwind'[t][1]]
    BY <2>1 DEF ProxyInv, ClosedForGood
  <2>3. \A p \in Proxies : phase'[p] \in {"live", "dying", "dead"} /\ isClosed'[p] =>
          \A i \in Instances : table'[p][i] # "open"
    BY DEF ProxyInv, ClosedForGood, OnlyCloses
  <2> QED
    BY <2>2, <2>3 DEF ProxyInv, ClosedForGood
<1> QED
  BY <1>1, <1>2 DEF ProxyInv

\* No step opens a table but the one that opens it
LEMMA TablesOnlyClose ==
  ASSUME ControlInv, OwnershipInv, [Next]_vars PROVE OnlyCloses
<1>0. TypeOK
  BY DEF ControlInv
<1>1. ASSUME NEW i \in Instances, OpenSucceeds(i) PROVE OnlyCloses
  <2>1. queue[i] # <<>> /\ Head(queue[i]).kind = "open"
    BY <1>1 DEF OpenSucceeds, OpenTask
  <2>2. /\ Head(queue[i]).proxy \in Proxies /\ phase[Head(queue[i]).proxy] = "making"
    BY <2>1, Served, TaskPhases
  <2> QED
    BY <1>0, <1>1, <2>2 DEF OpenSucceeds, OnlyCloses, TypeOK
<1>2. ASSUME NEW i \in Instances, CloseTask(i) PROVE OnlyCloses
  <2>1. Head(queue[i]).proxy \in Proxies
    BY <1>2, Served DEF CloseTask
  <2> QED
    BY <1>0, <1>2, <2>1 DEF CloseTask, OnlyCloses, TypeOK, Closed
<1>3. ASSUME NEW t \in Threads, CloseInline(t) PROVE OnlyCloses
  BY <1>0, <1>3 DEF CloseInline, OnlyCloses, TypeOK, Closed
<1>4. ASSUME NEW t \in Threads, JoinPools(t) PROVE OnlyCloses
  BY <1>0, <1>4 DEF JoinPools, OnlyCloses, TypeOK
<1>5. ASSUME NEW p \in Proxies, CpuDelete(p) PROVE OnlyCloses
  BY <1>0, <1>5 DEF CpuDelete, OnlyCloses, TypeOK
<1>6. ASSUME table' = table PROVE OnlyCloses
  BY <1>6 DEF OnlyCloses
<1>7. ASSUME NEW c \in Clients, ClientStarts(c) \/ ClientStep(c) PROVE table' = table
  BY <1>7
  DEF ClientStarts, ClientStep, StartMake, StartSpawn, Call, StartClose, ClientDrop, MakeSubmit,
      MakeReturn, CallSubmit, proxyVars
<1>8. ASSUME NEW i \in Instances, WorkerStep(i) PROVE OnlyCloses
  BY <1>1, <1>2, <1>6, <1>8
  DEF WorkerStep, OpenFails, StartFunctor, RejectTask, EndFunctor, StartCallback, CallbackCheck,
      CallbackReturn, CallbackSubmit, TeardownCallback, Complete, proxyVars
<1>9. ASSUME NEW t \in Threads, DestroyStep(t) PROVE OnlyCloses
  BY <1>3, <1>4, <1>6, <1>9
  DEF DestroyStep, CloseSubmit, CloseReturn, ReleasePools, DropDependencies, DropPools, proxyVars
<1> QED
  BY <1>5, <1>6, <1>7, <1>8, <1>9 DEF Next, vars

\* Steps that leave the pools and phases alone
LEMMA ProxySteps ==
  ASSUME ControlInv, OwnershipInv, ProxyInv, OnlyCloses,
         \/ \E c \in Clients : \/ MakeSubmit(c)
                               \/ \E p \in Proxies : Call(c, p) \/ StartClose(c, p)
                               \/ \E i \in Instances, holds \in BOOLEAN : CallSubmit(c, i, holds)
         \/ \E i \in Instances : \/ OpenSucceeds(i) \/ StartFunctor(i) \/ RejectTask(i) \/ EndFunctor(i)
                                 \/ StartCallback(i) \/ CallbackCheck(i) \/ CallbackReturn(i)
                                 \/ \E j \in Instances : CallbackSubmit(i, j)
                                 \/ CloseTask(i)
         \/ \E t \in Threads : CloseInline(t) \/ CloseSubmit(t) \/ JoinPools(t)
         \/ UNCHANGED vars
  PROVE  ProxyInv'
<1>0. TypeOK /\ \A t \in Threads : InStep(t)
  BY DEF ControlInv, ThreadsInStep
<1>1. ASSUME NEW t \in Threads, UNCHANGED <<phase, isClosed, poolHeld, cpu>>,
             pc'[t] # "close" \/ next'[t] = 1, ~ Destroying(t)',
             pc[t] # "close",
             \A u \in Threads \ {t} : /\ pc'[u] = pc[u] /\ arg'[u] = arg[u] /\ next'[u] = next[u]
                                      /\ unwind'[u] = unwind[u] /\ waits'[u] = waits[u]
      PROVE  ProxyInv'
  <2>1. ClosesInTurn'
    BY <1>1, ClosesKept DEF ProxyInv
  <2>2. \A u \in Threads : Destroying(u)' =>
          Destroying(u) /\ unwind'[u][1] = unwind[u][1] /\ pc'[u] = pc[u]
    BY <1>1 DEF Destroying
  <2> QED
    BY <1>1, <2>1, <2>2, ProxyKept
<1>2. ASSUME NEW c \in Clients, MakeSubmit(c) PROVE ProxyInv'
  BY <1>0, <1>1, <1>2, Ranges DEF MakeSubmit, TypeOK, proxyVars, Destroying
<1>3. ASSUME NEW c \in Clients, NEW p \in Proxies, Call(c, p) \/ StartClose(c, p)
      PROVE  ProxyInv'
  <2>1. c \in Threads /\ unwind[c] = <<>>
    BY <1>0, <1>3, Ranges DEF Call, StartClose, InStep
  <2>2. ~ Destroying(c)'
    BY <1>0, <1>3, <2>1 DEF Call, StartClose, Destroying, TypeOK
  <2> QED
    BY <1>0, <1>1, <1>3, <2>1, <2>2 DEF Call, StartClose, TypeOK, proxyVars
<1>4. ASSUME NEW c \in Clients, NEW i \in Instances, NEW holds \in BOOLEAN, CallSubmit(c, i, holds)
      PROVE  ProxyInv'
  BY <1>0, <1>1, <1>4, Ranges DEF CallSubmit, TypeOK, proxyVars, Destroying
<1>5. ASSUME NEW i \in Instances, OpenSucceeds(i) PROVE ProxyInv'
  <2>1. PICK c \in Clients : c = Head(queue[i]).thread /\ pc[c] = "make"
    BY <1>5, ServedOpen DEF OpenSucceeds, OpenTask
  <2> QED
    BY <1>0, <1>1, <1>5, <2>1, Ranges DEF OpenSucceeds, TypeOK, Destroying
<1>6. ASSUME NEW i \in Instances, NEW j \in Instances,
             StartFunctor(i) \/ StartCallback(i) \/ CallbackCheck(i) \/ CallbackSubmit(i, j)
      PROVE  ProxyInv'
  <2>1. /\ i \in Threads /\ UNCHANGED <<phase, isClosed, poolHeld, cpu, waits, unwind>>
        /\ pc[i] \in {"idle", "run", "callback", "dispatch"}
        /\ pc'[i] \in {"run", "callback", "dispatch"}
        /\ \A u \in Threads \ {i} : pc'[u] = pc[u] /\ arg'[u] = arg[u] /\ next'[u] = next[u]
    BY <1>0, <1>6, Ranges
    DEF StartFunctor, StartCallback, CallbackCheck, CallbackSubmit, TypeOK, proxyVars
  <2> QED
    BY <1>1, <2>1 DEF Destroying
<1>7. ASSUME NEW i \in Instances, RejectTask(i) \/ EndFunctor(i) \/ CallbackReturn(i)
      PROVE  ProxyInv'
  <2>1. /\ queue[i] # <<>> /\ Head(queue[i]).kind = "run" /\ Complete(i)
        /\ pc[i] \in {"idle", "run", "callback"}
    BY <1>7, Running DEF RejectTask, EndFunctor, CallbackReturn, InCallback
  <2>2. PICK c \in Clients : c = Head(queue[i]).thread /\ pc[c] = "wait"
    BY <2>1, ServedRun
  <2>3. /\ c \in Threads /\ i \in Threads /\ c # i
        /\ UNCHANGED <<phase, isClosed, poolHeld, cpu, unwind, next, waits>>
        /\ \A u \in Threads \ {i} : arg'[u] = arg[u]
    BY <1>0, <2>1, <2>2, Ranges DEF Complete, TypeOK, proxyVars
  <2>4. /\ pc'[i] \in {"teardown", "idle"} /\ pc'[c] \in {"idle", "wait"}
        /\ \A u \in Threads \ {i, c} : pc'[u] = pc[u]
    BY <1>0, <2>1, <2>2, <2>3 DEF Complete, TypeOK
  <2>5. ClosesInTurn'
    BY <2>3, <2>4, ClosesKept DEF ProxyInv
  <2>6. \A u \in Threads : Destroying(u)' =>
          Destroying(u) /\ unwind'[u][1] = unwind[u][1] /\ pc'[u] = pc[u]
    BY <2>3, <2>4 DEF Destroying
  <2> QED
    BY <2>3, <2>5, <2>6, ProxyKept
<1>8. ASSUME NEW t \in Threads, JoinPools(t) PROVE ProxyInv'
  <2>1. pc'[t] \in {"idle", "pools"}
    BY <1>0, <1>8 DEF JoinPools, TypeOK
  <2> QED
    BY <1>0, <1>1, <1>8, <2>1 DEF JoinPools, TypeOK, Destroying
<1>9. ASSUME UNCHANGED <<phase, isClosed, poolHeld, cpu, pc, arg, unwind>>, ClosesInTurn'
      PROVE  ProxyInv'
  BY <1>9, ProxyKept DEF Destroying
<1>10. ASSUME NEW t \in Threads, CloseSubmit(t) PROVE ProxyInv'
  <2>1. PICK n \in Instances : n = next[t]
    BY <1>10 DEF CloseSubmit
  <2>2. /\ UNCHANGED <<phase, isClosed, poolHeld, cpu, table, pc, arg, unwind>>
        /\ next'[t] = n + 1 /\ waits'[t] = waits[t] \cup {n}
        /\ \A u \in Threads \ {t} : next'[u] = next[u] /\ waits'[u] = waits[u]
    BY <1>0, <1>10, <2>1 DEF CloseSubmit, TypeOK, proxyVars
  <2>3. \A i \in Instances : i < n + 1 /\ i # n => i < n
    BY Ranges
  <2>4. ClosesInTurn'
    BY <2>1, <2>2, <2>3 DEF ProxyInv, ClosesInTurn
  <2> QED
    BY <1>9, <2>2, <2>4
<1>11. ASSUME NEW t \in Threads, CloseInline(t) PROVE ProxyInv'
  <2>1. PICK n \in Instances : n = next[t]
    BY <1>11 DEF CloseInline
  <2>2. /\ UNCHANGED <<phase, isClosed, poolHeld, cpu, pc, arg, unwind, waits>>
        /\ pc[t] = "close" /\ next'[t] = n + 1
        /\ \A u \in Threads \ {t} : next'[u] = next[u]
        /\ table'[arg[t]][n] # "open"
    BY <1>0, <1>11, <2>1 DEF CloseInline, TypeOK, Closed
  <2>3. \A i \in Instances : i < n + 1 /\ i # n => i < n
    BY Ranges
  <2>4. ClosesInTurn'
    <3> SUFFICES ASSUME NEW u \in Threads, pc[u] = "close",
                        NEW i \in Instances, i < next'[u], i \notin waits[u]
                 PROVE  table'[arg[u]][i] # "open"
      BY <2>2 DEF ClosesInTurn
    <3>1. arg[u] \in Proxies /\ phase[arg[u]] # "making"
      BY ClosersOwn
    <3>2. CASE u = t /\ i = n
      BY <2>2, <3>2
    <3>3. CASE ~ (u = t /\ i = n)
      <4>1. i < next[u]
        BY <2>1, <2>2, <2>3, <3>3
      <4> QED
        BY <3>1, <4>1 DEF ProxyInv, ClosesInTurn, OnlyCloses
    <3> QED
      BY <3>2, <3>3
  <2> QED
    BY <1>9, <2>2, <2>4
<1>12. ASSUME NEW i \in Instances, CloseTask(i) PROVE ProxyInv'
  <2>1. PICK t \in Threads : t = Head(queue[i]).thread
    BY <1>12, Served DEF CloseTask
  <2>2. arg[t] = Head(queue[i]).proxy /\ arg[t] \in Proxies
    BY <1>12, <2>1, Served, ServedClose DEF CloseTask
  <2>3. /\ UNCHANGED <<phase, isClosed, poolHeld, cpu, pc, arg, unwind, next>>
        /\ waits'[t] = waits[t] \ {i}
        /\ \A u \in Threads \ {t} : waits'[u] = waits[u]
        /\ table'[arg[t]][i] # "open"
    BY <1>0, <1>12, <2>1, <2>2 DEF CloseTask, TypeOK, Closed
  <2>4. ClosesInTurn'
    <3> SUFFICES ASSUME NEW u \in Threads, pc[u] = "close",
                        NEW j \in Instances, j < next[u], j \notin waits'[u]
                 PROVE  table'[arg[u]][j] # "open"
      BY <2>3 DEF ClosesInTurn
    <3>1. arg[u] \in Proxies /\ phase[arg[u]] # "making"
      BY ClosersOwn
    <3>2. CASE u = t /\ j = i
      BY <2>3, <3>2
    <3>3. CASE ~ (u = t /\ j = i)
      <4>1. j \notin waits[u]
        BY <2>3, <3>3
      <4> QED
        BY <3>1, <4>1 DEF ProxyInv, ClosesInTurn, OnlyCloses
    <3> QED
      BY <3>2, <3>3
  <2> QED
    BY <1>9, <2>3, <2>4
<1>13. CASE UNCHANGED vars
  <2>1. ClosesInTurn'
    BY <1>13 DEF vars, ProxyInv, ClosesInTurn
  <2> QED
    BY <1>9, <1>13, <2>1 DEF vars
<1> QED
  BY <1>2, <1>3, <1>4, <1>5, <1>6, <1>7, <1>8, <1>10, <1>11, <1>12, <1>13

\* What thread t does when it drops a reference: the proxies whose destructor it
\* enters were alive, and those whose destructor it leaves were dying
DropsReference(t) ==
  /\ UNCHANGED <<isClosed, table, poolHeld, cpu, queue, waits>>
  /\ \A u \in Threads \ {t} : /\ pc'[u] = pc[u] /\ arg'[u] = arg[u]
                              /\ next'[u] = next[u] /\ unwind'[u] = unwind[u]
  /\ \A r \in Proxies : \/ phase'[r] = phase[r]
                        \/ phase[r] = "live" /\ phase'[r] = "dying"
                        \/ phase[r] = "dying" /\ phase'[r] = "dead" /\ pc[t] = "deps" /\ unwind[t][1] = r
  /\ Destroying(t)' => /\ unwind'[t][1] \in Proxies /\ phase[unwind'[t][1]] = "live"
                       /\ pc'[t] = Destructor(unwind'[t][1])
  /\ pc'[t] \in {"close", "release", "idle", "pools"}
  /\ pc'[t] = "close" => next'[t] = 1

\* A client lets go of a proxy, a callback does, or a destructor does
LEMMA Drops ==
  ASSUME ControlInv, OwnershipInv, NEW t \in Threads,
         \/ t \in Clients /\ \E p \in Proxies : ClientDrop(t, p)
         \/ t \in Instances /\ TeardownCallback(t)
         \/ DropDependencies(t)
  PROVE  DropsReference(t)
<1>0. TypeOK /\ phase \in [Proxies -> Phases] /\ "idle" \in PCs /\ "pools" \in PCs
  BY DEF ControlInv, TypeOK, PCs
<1>1. ASSUME NEW p \in Proxies, NEW last \in BOOLEAN, NEW ph \in [Proxies -> Phases],
             NEW after \in {"idle", "pools"},
             UNCHANGED <<isClosed, table, poolHeld, cpu, queue, waits>>,
             last => ph[p] = "live" /\ phase[p] = "live",
             \A r \in Proxies :
               \/ ph[r] = phase[r]
               \/ phase[r] = "dying" /\ ph[r] = "dead" /\ pc[t] = "deps" /\ unwind[t][1] = r,
             \A u \in Threads \ {t} : /\ pc'[u] = pc[u] /\ arg'[u] = arg[u]
                                      /\ next'[u] = next[u] /\ unwind'[u] = unwind[u],
             last => /\ pc'[t] = Destructor(p) /\ pc'[t] \in {"close", "release"}
                     /\ next'[t] = 1 /\ unwind'[t][1] = p
                     /\ phase' = [ph EXCEPT ![p] = "dying"],
             ~ last => pc'[t] = after /\ phase' = ph
      PROVE  DropsReference(t)
  <2>1. CASE last
    <3>1. phase'[p] = "dying" /\ \A r \in Proxies \ {p} : phase'[r] = ph[r]
      BY <1>1, <2>1
    <3>2. \A r \in Proxies :
            \/ phase'[r] = phase[r]
            \/ phase[r] = "live" /\ phase'[r] = "dying"
            \/ phase[r] = "dying" /\ phase'[r] = "dead" /\ pc[t] = "deps" /\ unwind[t][1] = r
      BY <1>1, <2>1, <3>1
    <3> QED
      BY <1>1, <2>1, <3>2 DEF DropsReference
  <2>2. CASE ~ last
    BY <1>1, <2>2 DEF DropsReference, Destroying
  <2> QED
    BY <2>1, <2>2
<1>2. ASSUME t \in Clients, NEW p \in Proxies, ClientDrop(t, p) PROVE DropsReference(t)
  <2> DEFINE last == ~ Referenced(p, [held EXCEPT ![p] = @ \ {t}], phase, pc)
  <2>1. Dropped(t, p, phase, last, "idle") /\ last \in BOOLEAN
    BY <1>2 DEF ClientDrop
  <2>2. phase[p] = "live" /\ UNCHANGED <<isClosed, table, poolHeld, cpu, queue, waits>>
    BY <1>2 DEF ClientDrop, OwnershipInv, OwnedAlive
  <2> HIDE DEF last
  <2>3. /\ \A u \in Threads \ {t} : /\ pc'[u] = pc[u] /\ arg'[u] = arg[u]
                                    /\ next'[u] = next[u] /\ unwind'[u] = unwind[u]
        /\ last => /\ pc'[t] = Destructor(p) /\ pc'[t] \in {"close", "release"}
                   /\ next'[t] = 1 /\ unwind'[t][1] = p
                   /\ phase' = [phase EXCEPT ![p] = "dying"]
        /\ ~ last => pc'[t] = "idle" /\ phase' = phase
    BY <1>0, <2>1, DroppedThread
  <2> QED
    BY <1>0, <1>1, <2>1, <2>2, <2>3
<1>3. ASSUME t \in Instances, TeardownCallback(t) PROVE DropsReference(t)
  <2>0. PICK p \in Proxies : p = arg[t]
    BY <1>0 DEF TypeOK
  <2> DEFINE last == ~ Referenced(p, held, phase, [pc EXCEPT ![t] = "idle"])
  <2>1. Dropped(t, p, phase, last, "idle") /\ last \in BOOLEAN
    BY <1>3, <2>0 DEF TeardownCallback
  <2>2. phase[p] = "live" /\ UNCHANGED <<isClosed, table, poolHeld, cpu, queue, waits>>
    BY <1>3, <2>0 DEF TeardownCallback, OwnershipInv, OwnedAlive
  <2> HIDE DEF last
  <2>3. /\ \A u \in Threads \ {t} : /\ pc'[u] = pc[u] /\ arg'[u] = arg[u]
                                    /\ next'[u] = next[u] /\ unwind'[u] = unwind[u]
        /\ last => /\ pc'[t] = Destructor(p) /\ pc'[t] \in {"close", "release"}
                   /\ next'[t] = 1 /\ unwind'[t][1] = p
                   /\ phase' = [phase EXCEPT ![p] = "dying"]
        /\ ~ last => pc'[t] = "idle" /\ phase' = phase
    BY <1>0, <2>1, DroppedThread
  <2> QED
    BY <1>0, <1>1, <2>1, <2>2, <2>3
<1>4. ASSUME DropDependencies(t) PROVE DropsReference(t)
  <2>1. /\ pc[t] = "deps" /\ Destroying(t) /\ UNCHANGED <<isClosed, table, poolHeld, cpu, queue, waits>>
        /\ unwind[t] \in Seq(Proxies) /\ unwind[t] # <<>>
    BY <1>0, <1>4 DEF ControlInv, DropDependencies, Destroying, TypeOK, ThreadsInStep, InStep
  <2>2. PICK p \in Proxies : p = Head(unwind[t]) /\ p = unwind[t][1]
    BY <2>1, TailFacts
  <2>3. PICK q \in Proxies \cup {NoProxy} : q = parent[p]
    BY <1>0 DEF TypeOK
  <2> DEFINE ph == [phase EXCEPT ![p] = "dead"]
             last == q # NoProxy /\ ~ Referenced(q, held, ph, pc)
  <2>4. /\ last \in BOOLEAN /\ ph \in [Proxies -> Phases] /\ (last => q \in Proxies)
    BY <1>0 DEF Phases
  <2>5. Dropped(t, q, ph, last, "pools")
    BY <1>4, <2>2, <2>3 DEF DropDependencies
  <2>6. phase[p] = "dying" /\ (last => phase[q] = "live")
    BY <2>1, <2>2, <2>3 DEF OwnershipInv, DestructorsInStep, OwnedAlive
  <2>7. /\ last => ph[q] = "live"
        /\ \A r \in Proxies :
             \/ ph[r] = phase[r]
             \/ phase[r] = "dying" /\ ph[r] = "dead" /\ pc[t] = "deps" /\ unwind[t][1] = r
    BY <1>0, <2>1, <2>2, <2>4, <2>6
  <2> HIDE DEF last, ph
  <2>8. /\ TypeOK /\ last \in BOOLEAN /\ ph \in [Proxies -> Phases] /\ "pools" \in PCs
         /\ (last => q \in Proxies)
    BY <1>0, <2>4
  <2>9. \A u \in Threads \ {t} : /\ pc'[u] = pc[u] /\ arg'[u] = arg[u]
                                 /\ next'[u] = next[u] /\ unwind'[u] = unwind[u]
    BY <2>5, <2>8, DroppedThread
  <2>10. ASSUME last
        PROVE  /\ pc'[t] = Destructor(q) /\ pc'[t] \in {"close", "release"}
               /\ next'[t] = 1 /\ unwind'[t][1] = q
    BY <2>5, <2>10, <2>8, DroppedThread
  <2>11. /\ last => phase' = [ph EXCEPT ![q] = "dying"]
         /\ ~ last => pc'[t] = "pools" /\ phase' = ph
    <3>1. CASE last
      BY <2>5, <3>1 DEF Dropped
    <3>2. CASE ~ last
      BY <1>0, <2>5, <3>2 DEF Dropped, TypeOK
    <3> QED
      BY <3>1, <3>2
  <2>12. CASE last
    BY <1>1, <2>1, <2>4, <2>6, <2>7, <2>9, <2>10, <2>11, <2>12
  <2>13. CASE ~ last
    BY <1>1, <2>1, <2>2, <2>4, <2>7, <2>9, <2>11, <2>13
  <2> QED
    BY <2>12, <2>13
<1> QED
  BY <1>2, <1>3, <1>4

\* Such a step keeps pools and closed proxies
LEMMA DropsProxy ==
  ASSUME ControlInv, OwnershipInv, ProxyInv, NEW t \in Threads, DropsReference(t)
  PROVE  ProxyInv'
<1>1. /\ UNCHANGED <<isClosed, table, poolHeld, cpu, queue, waits>>
      /\ \A u \in Threads \ {t} : /\ pc'[u] = pc[u] /\ arg'[u] = arg[u]
                                  /\ next'[u] = next[u] /\ unwind'[u] = unwind[u]
      /\ \A r \in Proxies : \/ phase'[r] = phase[r]
                            \/ phase[r] = "live" /\ phase'[r] = "dying"
                            \/ /\ phase[r] = "dying" /\ phase'[r] = "dead"
                               /\ pc[t] = "deps" /\ unwind[t][1] = r
      /\ Destroying(t)' => /\ unwind'[t][1] \in Proxies /\ phase[unwind'[t][1]] = "live"
                           /\ pc'[t] = Destructor(unwind'[t][1])
      /\ pc'[t] \in {"close", "release", "idle", "pools"}
      /\ pc'[t] = "close" => next'[t] = 1
  BY DEF DropsReference
<1>2. \A u \in Threads \ {t} : Destroying(u)' <=> Destroying(u)
  BY <1>1 DEF Destroying
<1>3. PoolsOutlive'
  <2>1. \A p \in Proxies : phase'[p] \in {"making", "live"} => phase[p] \in {"making", "live"}
    BY <1>1
  <2>2. \A u \in Threads : Destroying(u)' /\ pc'[u] # "deps" => unwind'[u][1] \in poolHeld' \ cpu'
    BY <1>1, <1>2 DEF ProxyInv, PoolsOutlive
  <2>3. cpu \subseteq Proxies
    BY DEF ControlInv, TypeOK
  <2>4. \A p \in cpu : phase'[p] \in {"dying", "dead"} /\ isClosed'[p]
    BY <1>1, <2>3 DEF ProxyInv, PoolsOutlive
  <2> QED
    BY <1>1, <2>1, <2>2, <2>4 DEF ProxyInv, PoolsOutlive
<1>4. ClosesInTurn'
  <2>1. OnlyCloses
    BY <1>1 DEF OnlyCloses
  <2> QED
    BY <1>1, <2>1, ClosesKept DEF ProxyInv
<1>5. ClosedForGood'
  <2>1. ASSUME NEW u \in Threads, pc'[u] \in {"release", "deps"} PROVE isClosed'[unwind'[u][1]]
    <3>1. CASE u = t
      <4>1. pc'[t] = "release" /\ Destroying(t)'
        BY <1>1, <2>1, <3>1 DEF Destroying
      <4> QED
        BY <1>1, <3>1, <4>1 DEF Destructor
    <3>2. CASE u # t
      BY <1>1, <2>1, <3>2 DEF ProxyInv, ClosedForGood
    <3> QED
      BY <3>1, <3>2
  <2>2. \A p \in Proxies : phase'[p] = "dead" => isClosed'[p]
    BY <1>1 DEF ProxyInv, ClosedForGood
  <2>3. \A p \in Proxies : phase'[p] \in {"live", "dying", "dead"} => phase[p] \in {"live", "dying", "dead"}
    BY <1>1
  <2> QED
    BY <1>1, <2>1, <2>2, <2>3 DEF ProxyInv, ClosedForGood
<1> QED
  BY <1>3, <1>4, <1>5 DEF ProxyInv

\* Make() or Spawn() starts, fails or returns
LEMMA MakeProxy ==
  ASSUME ControlInv, OwnershipInv, ProxyInv,
         \/ \E c \in Clients : \/ StartMake(c)
                               \/ \E p, q \in Proxies : StartSpawn(c, p, q)
                               \/ MakeReturn(c)
         \/ \E i \in Instances : OpenFails(i)
  PROVE  ProxyInv'
<1>0. TypeOK /\ cpu \subseteq Proxies
  BY DEF ControlInv, TypeOK
<1>1. PICK c \in Clients, q \in Proxies :
        /\ phase[q] \in {"none", "making"} /\ phase'[q] \in {"making", "aborted", "live"}
        /\ \A r \in Proxies \ {q} : phase'[r] = phase[r] /\ isClosed'[r] = isClosed[r]
        /\ \A r \in Proxies \ {q} : r \in poolHeld <=> r \in poolHeld'
        /\ phase'[q] = "live" => ~ isClosed'[q]
        /\ phase'[q] \in {"making", "live"} => q \in poolHeld'
        /\ UNCHANGED <<cpu, table>>
        /\ pc'[c] \in {"make", "pools", "idle"}
        /\ \A u \in Threads \ {c} : /\ pc'[u] = pc[u] /\ arg'[u] = arg[u] /\ next'[u] = next[u]
                                    /\ unwind'[u] = unwind[u] /\ waits'[u] = waits[u]
  <2>1. ASSUME NEW c \in Clients, StartMake(c)
        PROVE  /\ phase[Root] = "none" /\ phase'[Root] = "making" /\ Root \in Proxies
               /\ \A r \in Proxies \ {Root} : phase'[r] = phase[r] /\ isClosed'[r] = isClosed[r]
               /\ poolHeld' = poolHeld \cup {Root}
               /\ UNCHANGED <<cpu, table>> /\ pc'[c] = "make"
               /\ \A u \in Threads \ {c} : /\ pc'[u] = pc[u] /\ arg'[u] = arg[u] /\ next'[u] = next[u]
                                           /\ unwind'[u] = unwind[u] /\ waits'[u] = waits[u]
    BY <1>0, <2>1, ProxiesAssumption, Ranges DEF StartMake, ProxiesAssumption, TypeOK
  <2>2. ASSUME NEW c \in Clients, NEW p \in Proxies, NEW q \in Proxies, StartSpawn(c, p, q)
        PROVE  /\ phase[q] = "none" /\ phase'[q] = "making"
               /\ \A r \in Proxies \ {q} : phase'[r] = phase[r] /\ isClosed'[r] = isClosed[r]
               /\ poolHeld' = poolHeld \cup {q}
               /\ UNCHANGED <<cpu, table>> /\ pc'[c] = "make"
               /\ \A u \in Threads \ {c} : /\ pc'[u] = pc[u] /\ arg'[u] = arg[u] /\ next'[u] = next[u]
                                           /\ unwind'[u] = unwind[u] /\ waits'[u] = waits[u]
    BY <1>0, <2>2, Ranges DEF StartSpawn, TypeOK
  <2>3. ASSUME NEW c \in Clients, MakeReturn(c)
        PROVE  /\ arg[c] \in Proxies /\ phase[arg[c]] = "making" /\ phase'[arg[c]] = "live"
               /\ \A r \in Proxies \ {arg[c]} : phase'[r] = phase[r] /\ isClosed'[r] = isClosed[r]
               /\ poolHeld' = poolHeld /\ ~ isClosed'[arg[c]] /\ arg[c] \in poolHeld
               /\ UNCHANGED <<cpu, table>> /\ pc'[c] = "idle"
               /\ \A u \in Threads \ {c} : /\ pc'[u] = pc[u] /\ arg'[u] = arg[u] /\ next'[u] = next[u]
                                           /\ unwind'[u] = unwind[u] /\ waits'[u] = waits[u]
    <3>1. arg[c] \in Proxies /\ c \in Threads
      BY <1>0, Ranges DEF TypeOK
    <3>2. phase[arg[c]] = "making" /\ arg[c] \in poolHeld
      BY <2>3, <3>1 DEF MakeReturn, OwnershipInv, MakersHold, ProxyInv, PoolsOutlive
    <3> QED
      BY <1>0, <2>3, <3>1, <3>2 DEF MakeReturn, TypeOK
  <2>4. ASSUME NEW i \in Instances, OpenFails(i)
        PROVE  \E c \in Clients, q \in Proxies :
                 /\ phase[q] = "making" /\ phase'[q] = "aborted"
                 /\ \A r \in Proxies \ {q} : phase'[r] = phase[r] /\ isClosed'[r] = isClosed[r]
                 /\ poolHeld' = poolHeld
                 /\ UNCHANGED <<cpu, table>> /\ pc'[c] = "pools"
                 /\ \A u \in Threads \ {c} : /\ pc'[u] = pc[u] /\ arg'[u] = arg[u]
                                             /\ next'[u] = next[u] /\ unwind'[u] = unwind[u]
                                             /\ waits'[u] = waits[u]
    <3>1. PICK c \in Clients, q \in Proxies :
            c = Head(queue[i]).thread /\ q = Head(queue[i]).proxy /\ pc[c] = "make" /\ arg[c] = q
      BY <2>4, Served, ServedOpen DEF OpenFails, OpenTask
    <3>2. phase[q] = "making" /\ c \in Threads
      BY <3>1, Ranges DEF OwnershipInv, MakersHold
    <3>3. /\ phase'[q] = "aborted" /\ \A r \in Proxies \ {q} : phase'[r] = phase[r] /\ isClosed'[r] = isClosed[r]
          /\ UNCHANGED <<cpu, table, poolHeld>> /\ pc'[c] = "pools"
          /\ \A u \in Threads \ {c} : /\ pc'[u] = pc[u] /\ arg'[u] = arg[u]
                                      /\ next'[u] = next[u] /\ unwind'[u] = unwind[u]
                                      /\ waits'[u] = waits[u]
      BY <1>0, <2>4, <3>1, <3>2 DEF OpenFails, TypeOK
    <3> QED
      BY <3>2, <3>3
  <2>5. CASE \E c \in Clients : StartMake(c)
    BY <2>1, <2>5
  <2>6. CASE \E c \in Clients : \E p, q \in Proxies : StartSpawn(c, p, q)
    BY <2>2, <2>6
  <2>7. CASE \E c \in Clients : MakeReturn(c)
    BY <2>3, <2>7
  <2>8. CASE \E i \in Instances : OpenFails(i)
    BY <2>4, <2>8
  <2> QED
    BY <2>5, <2>6, <2>7, <2>8
<1>2. ~ Destroying(c)' /\ \A u \in Threads \ {c} : Destroying(u)' <=> Destroying(u)
  BY <1>1 DEF Destroying
<1>3. ASSUME NEW u \in Threads, Destroying(u)'
      PROVE  /\ Destroying(u) /\ unwind'[u][1] = unwind[u][1] /\ pc'[u] = pc[u]
             /\ unwind[u][1] \in Proxies \ {q}
  BY <1>1, <1>2, <1>3, Unwinding DEF OwnershipInv, DestructorsInStep
<1>4. q \notin cpu
  BY <1>1 DEF ProxyInv, PoolsOutlive
<1>5. PoolsOutlive'
  <2>1. \A p \in Proxies : phase'[p] \in {"making", "live"} => p \in poolHeld' \ cpu'
    BY <1>1, <1>4 DEF ProxyInv, PoolsOutlive
  <2>2. \A u \in Threads : Destroying(u)' /\ pc'[u] # "deps" => unwind'[u][1] \in poolHeld' \ cpu'
    BY <1>1, <1>3 DEF ProxyInv, PoolsOutlive
  <2>3. \A p \in cpu : phase'[p] \in {"dying", "dead"} /\ isClosed'[p]
    BY <1>0, <1>1, <1>4 DEF ProxyInv, PoolsOutlive
  <2> QED
    BY <1>1, <2>1, <2>2, <2>3 DEF PoolsOutlive
<1>6. ClosesInTurn'
  <2>1. OnlyCloses
    BY <1>1 DEF OnlyCloses
  <2> QED
    BY <1>1, <2>1, ClosesKept DEF ProxyInv
<1>7. ClosedForGood'
  <2>1. \A u \in Threads : pc'[u] \in {"release", "deps"} => isClosed'[unwind'[u][1]]
    <3> SUFFICES ASSUME NEW u \in Threads, pc'[u] \in {"release", "deps"}
                 PROVE  isClosed'[unwind'[u][1]]
      OBVIOUS
    <3>1. Destroying(u)'
      BY DEF Destroying
    <3> QED
      BY <1>1, <1>3, <3>1 DEF ProxyInv, ClosedForGood
  <2>2. \A p \in Proxies : phase'[p] \in {"dying", "dead"} => p # q
    BY <1>1
  <2>3. \A p \in Proxies : phase'[p] = "dead" => isClosed'[p]
    BY <1>1, <2>2 DEF ProxyInv, ClosedForGood
  <2>4. \A p \in Proxies : phase'[p] \in {"live", "dying", "dead"} /\ isClosed'[p] =>
          \A i \in Instances : table'[p][i] # "open"
    BY <1>1 DEF ProxyInv, ClosedForGood
  <2> QED
    BY <2>1, <2>3, <2>4 DEF ClosedForGood
<1> QED
  BY <1>5, <1>6, <1>7 DEF ProxyInv

\* Close() returns
LEMMA CloseReturnProxy ==
  ASSUME ControlInv, OwnershipInv, ProxyInv, NEW t \in Threads, CloseReturn(t)
  PROVE  ProxyInv'
<1>0. TypeOK /\ cpu \subseteq Proxies
  BY DEF ControlInv, TypeOK
<1>1. PICK p \in Proxies : p = arg[t]
  BY <1>0 DEF TypeOK
<1>2. /\ isClosed'[p] = TRUE /\ \A r \in Proxies \ {p} : isClosed'[r] = isClosed[r]
      /\ UNCHANGED <<phase, table, poolHeld, cpu, arg, next, waits, unwind>>
      /\ pc[t] = "close" /\ pc'[t] = (IF unwind[t] = <<>> THEN "idle" ELSE "release")
      /\ \A u \in Threads \ {t} : pc'[u] = pc[u]
      /\ next[t] = NInstances + 1 /\ waits[t] = {}
  BY <1>0, <1>1 DEF CloseReturn, AllDone, TypeOK
<1>3. \A i \in Instances : table[p][i] # "open"
  <2>1. \A i \in Instances : i < NInstances + 1
    BY Ranges DEF Instances
  <2> QED
    BY <1>1, <1>2, <2>1 DEF ProxyInv, ClosesInTurn
<1>4. \A u \in Threads : Destroying(u)' => Destroying(u) /\ (pc'[u] # "deps" => pc[u] # "deps")
  BY <1>2 DEF Destroying
<1>5. \A r \in Proxies : isClosed[r] => isClosed'[r]
  BY <1>2
<1>6. PoolsOutlive'
  BY <1>0, <1>2, <1>4, <1>5 DEF ProxyInv, PoolsOutlive
<1>7. ClosesInTurn'
  <2>1. OnlyCloses
    BY <1>2 DEF OnlyCloses
  <2> QED
    BY <1>2, <2>1, ClosesKept DEF ProxyInv
<1>8. ClosedForGood'
  <2>1. ASSUME NEW u \in Threads, pc'[u] \in {"release", "deps"} PROVE isClosed'[unwind'[u][1]]
    <3>1. CASE u = t
      <4>1. unwind[t] # <<>>
        BY <1>2, <2>1, <3>1
      <4> QED
        BY <1>1, <1>2, <3>1, <4>1, ClosersOwn
    <3>2. CASE u # t
      <4>1. pc[u] \in {"release", "deps"} /\ Destroying(u)
        BY <1>2, <2>1, <3>2 DEF Destroying
      <4>2. unwind[u][1] \in Proxies
        BY <4>1, Unwinding
      <4> QED
        BY <1>2, <1>5, <4>1, <4>2 DEF ProxyInv, ClosedForGood
    <3> QED
      BY <3>1, <3>2
  <2>2. \A r \in Proxies : phase'[r] \in {"live", "dying", "dead"} /\ isClosed'[r] =>
          \A i \in Instances : table'[r][i] # "open"
    BY <1>2, <1>3 DEF ProxyInv, ClosedForGood
  <2>3. \A r \in Proxies : phase'[r] = "dead" => isClosed'[r]
    BY <1>2, <1>5 DEF ProxyInv, ClosedForGood
  <2> QED
    BY <2>1, <2>2, <2>3 DEF ClosedForGood
<1> QED
  BY <1>6, <1>7, <1>8 DEF ProxyInv

\* The pools of a proxy are handed over, or let go of
LEMMA PoolsProxy ==
  ASSUME ControlInv, OwnershipInv, ProxyInv, NEW t \in Threads, ReleasePools(t) \/ DropPools(t)
  PROVE  ProxyInv'
<1>0. /\ TypeOK /\ cpu \subseteq Proxies /\ unwind[t] \in Seq(Proxies) /\ unwind[t] # <<>>
      /\ pc[t] \in {"release", "pools"}
  BY DEF ControlInv, TypeOK, ReleasePools, DropPools, ThreadsInStep, InStep
<1>1. PICK p \in Proxies : p = Head(unwind[t]) /\ p = unwind[t][1] /\ 1 \in DOMAIN unwind[t]
  BY <1>0, TailFacts
<1>2. /\ UNCHANGED <<phase, isClosed, table, arg, next, waits, unwind>>
      /\ \A u \in Threads \ {t} : pc'[u] = pc[u]
      /\ pc'[t] \in {"deps", "join"} /\ (pc'[t] = "deps" => pc[t] = "release")
  BY <1>0 DEF ReleasePools, DropPools, TypeOK
<1>3. ClosesInTurn'
  <2>1. OnlyCloses
    BY <1>2 DEF OnlyCloses
  <2> QED
    BY <1>2, <2>1, ClosesKept DEF ProxyInv
<1>4. ClosedForGood'
  <2>1. \A u \in Threads : pc'[u] \in {"release", "deps"} => pc[u] \in {"release", "deps"}
    BY <1>2
  <2> QED
    BY <1>2, <2>1 DEF ProxyInv, ClosedForGood
<1>5. \A u \in Threads \ {t} : Destroying(u)' <=> Destroying(u)
  BY <1>2 DEF Destroying
<1>6. CASE ReleasePools(t)
  <2>1. /\ poolHeld' = poolHeld /\ cpu' \subseteq cpu \cup {p} /\ pc'[t] = "deps" /\ pc[t] = "release"
    BY <1>0, <1>1, <1>6 DEF ReleasePools, TypeOK
  <2>2. phase[p] = "dying" /\ isClosed[p] /\ \A u \in Threads \ {t} : Destroying(u) => unwind[u][1] # p
    BY <1>1, <2>1 DEF Destroying, OwnershipInv, DestructorsInStep, ProxyInv, ClosedForGood
  <2>3. PoolsOutlive'
    BY <1>2, <1>5, <2>1, <2>2 DEF ProxyInv, PoolsOutlive
  <2> QED
    BY <1>3, <1>4, <2>3 DEF ProxyInv
<1>7. CASE DropPools(t)
  <2>1. /\ poolHeld \ {p} \subseteq poolHeld' /\ cpu' = cpu /\ pc'[t] = "join" /\ pc[t] = "pools"
    BY <1>0, <1>1, <1>7 DEF DropPools, TypeOK
  <2>2. phase[p] \in {"dead", "aborted"} /\ ~ Destroying(t)'
    <3>1. ~ Destroying(t) /\ ~ Destroying(t)'
      BY <2>1 DEF Destroying
    <3> QED
      BY <1>1, <3>1 DEF OwnershipInv, DestructorsInStep
  <2>3. \A u \in Threads \ {t} : Destroying(u) => unwind[u][1] # p
    BY <2>2 DEF OwnershipInv, DestructorsInStep
  <2>4. PoolsOutlive'
    BY <1>2, <1>5, <2>1, <2>2, <2>3 DEF ProxyInv, PoolsOutlive
  <2> QED
    BY <1>3, <1>4, <2>4 DEF ProxyInv
<1> QED
  BY <1>6, <1>7

\* The CPU pool deletes pools handed to it
LEMMA CpuDeleteProxy ==
  ASSUME ControlInv, OwnershipInv, ProxyInv, OnlyCloses, NEW p \in Proxies, CpuDelete(p)
  PROVE  ProxyInv'
<1>1. /\ p \in cpu /\ cpu' = cpu \ {p} /\ poolHeld' = poolHeld \ {p}
      /\ UNCHANGED <<phase, isClosed, pc, arg, next, waits, unwind>>
  BY DEF CpuDelete, threadVars
<1>2. \A u \in Threads : Destroying(u)' <=> Destroying(u)
  BY <1>1 DEF Destroying
<1>3. PoolsOutlive'
  BY <1>1, <1>2 DEF ProxyInv, PoolsOutlive
<1>4. ClosesInTurn'
  BY <1>1, ClosesKept DEF ProxyInv
<1>5. ClosedForGood'
  BY <1>1 DEF ProxyInv, ClosedForGood, OnlyCloses
<1> QED
  BY <1>3, <1>4, <1>5 DEF ProxyInv

\* Every step keeps pools and closed proxies
LEMMA ProxyStep ==
  ASSUME ControlInv, OwnershipInv, ProxyInv, [Next]_vars PROVE ProxyInv'
<1>1. OnlyCloses
  BY TablesOnlyClose
<1>2. ASSUME NEW t \in Threads, \/ t \in Clients /\ \E p \in Proxies : ClientDrop(t, p)
                                \/ t \in Instances /\ TeardownCallback(t)
                                \/ DropDependencies(t)
      PROVE  ProxyInv'
  BY <1>2, Drops, DropsProxy
<1> QED
  BY <1>1, <1>2, ProxySteps, MakeProxy, CloseReturnProxy, PoolsProxy, CpuDeleteProxy, Ranges
  DEF Next, ClientStarts, ClientStep, WorkerStep, DestroyStep

-----------------------------------------------------------------------------
(* Tasks ahead of a close *)

QueueInv == EarlyTasksAhead /\ EarlyTasksServed /\ TableOpenWhileRunning

\* A task is submitted; it knows whether its table's close is ahead
Submits(i, task) ==
  /\ Enqueue(i, task) /\ table' = table
  /\ task.kind = "run" /\ ~ task.afterClose => ~ CloseQueued(task.proxy, i)

\* A task is over, and its isolation thread no longer runs it
Finishes(i) ==
  queue[i] # <<>> /\ queue' = [queue EXCEPT ![i] = Tail(@)] /\ pc'[i] # "run"

\* Tasks are only submitted, at the end of a queue, or finished, at its head
LEMMA QueueMoves ==
  ASSUME ControlInv, [Next]_vars
  PROVE  \/ queue' = queue
         \/ \E i \in Instances : Finishes(i)
         \/ \E i \in Instances, task \in Tasks : Submits(i, task)
<1> DEFINE Moves == \/ queue' = queue
                    \/ \E i \in Instances : Finishes(i)
                    \/ \E i \in Instances, task \in Tasks : Submits(i, task)
<1>0. TypeOK
  BY DEF ControlInv
<1>1. ASSUME NEW c \in Clients, MakeSubmit(c) PROVE Moves
  <2>1. next[c] \in Instances /\ ControlTask("open", arg[c], c) \in Tasks
    BY <1>0, <1>1, Ranges, NewTasks DEF MakeSubmit, TypeOK
  <2>2. Submits(next[c], ControlTask("open", arg[c], c))
    BY <1>1 DEF MakeSubmit, Submits, ControlTask, proxyVars
  <2> QED
    BY <2>1, <2>2
<1>2. ASSUME NEW t \in Threads, CloseSubmit(t) PROVE Moves
  <2>1. next[t] \in Instances /\ ControlTask("close", arg[t], t) \in Tasks
    BY <1>0, <1>2, NewTasks DEF CloseSubmit, TypeOK
  <2>2. Submits(next[t], ControlTask("close", arg[t], t))
    BY <1>2 DEF CloseSubmit, Submits, ControlTask, proxyVars
  <2> QED
    BY <2>1, <2>2
<1>3. ASSUME NEW c \in Clients, NEW i \in Instances, NEW holds \in BOOLEAN, CallSubmit(c, i, holds)
      PROVE  Moves
  <2> DEFINE late == CloseQueued(arg[c], i)
             task == RunTask(arg[c], c, 0, holds, late)
  <2>1. late \in BOOLEAN /\ arg[c] \in Proxies /\ c \in Threads
    BY <1>0, Ranges DEF CloseQueued, TypeOK
  <2>2. task.proxy = arg[c] /\ task.afterClose = late
    BY DEF RunTask
  <2>3. Submits(i, task)
    BY <1>3, <2>2 DEF CallSubmit, Submits, proxyVars
  <2> HIDE DEF late
  <2>4. task \in Tasks
    BY <2>1, Ranges, NewTasks
  <2> QED
    BY <2>3, <2>4
<1>4. ASSUME NEW i \in Instances, NEW j \in Instances, CallbackSubmit(i, j) PROVE Moves
  <2>0. PICK n \in Instances, c \in Clients, p \in Proxies :
          n = next[i] /\ c = Head(queue[i]).thread /\ p = Head(queue[i]).proxy
    BY <1>4, Running, Served, ServedRun
    DEF CallbackSubmit, InCallback, ControlInv, Serving, ServesHead
  <2> DEFINE late == CloseQueued(p, j)
             task == RunTask(p, c, n, FALSE, late)
  <2>1. late \in BOOLEAN /\ c \in Threads /\ n \in 0..NInstances
    BY <1>0, Ranges DEF CloseQueued
  <2>2. task.proxy = p /\ task.afterClose = late
    BY DEF RunTask
  <2>3. Submits(j, task)
    BY <1>4, <2>0, <2>2 DEF CallbackSubmit, Submits, proxyVars
  <2> HIDE DEF late
  <2>4. task \in Tasks
    BY <2>1, NewTasks
  <2> QED
    BY <2>3, <2>4
<1>5. ASSUME NEW i \in Instances, OpenSucceeds(i) \/ OpenFails(i) \/ CloseTask(i) PROVE Moves
  <2>1. /\ queue[i] # <<>> /\ queue' = [queue EXCEPT ![i] = Tail(@)]
        /\ pc[i] = "idle" /\ (pc' = pc \/ \E c : pc' = [pc EXCEPT ![c] = "pools"])
    BY <1>5 DEF OpenSucceeds, OpenFails, OpenTask, CloseTask
  <2>2. Finishes(i)
    BY <1>0, <2>1, Ranges DEF Finishes, TypeOK
  <2> QED
    BY <2>2
<1>6. ASSUME NEW i \in Instances, RejectTask(i) \/ EndFunctor(i) \/ CallbackReturn(i)
      PROVE  Moves
  <2>1. queue[i] # <<>> /\ Head(queue[i]).kind = "run" /\ Complete(i)
    BY <1>6, Running DEF RejectTask, EndFunctor, CallbackReturn, InCallback
  <2>2. PICK c \in Clients : c = Head(queue[i]).thread
    BY <2>1, ServedRun
  <2>3. c # i /\ i \in Threads /\ c \in Threads
    BY Ranges
  <2>4. pc'[i] # "run"
    BY <1>0, <2>1, <2>2, <2>3 DEF Complete, TypeOK
  <2>5. Finishes(i)
    BY <2>1, <2>4 DEF Complete, Finishes
  <2> QED
    BY <2>5
<1>7. ASSUME NEW c \in Clients, ClientStarts(c) \/ MakeReturn(c) PROVE queue' = queue
  BY <1>7
  DEF ClientStarts, StartMake, StartSpawn, Call, StartClose, ClientDrop, MakeReturn
<1>8. ASSUME NEW i \in Instances, \/ StartFunctor(i) \/ StartCallback(i) \/ CallbackCheck(i)
                                  \/ TeardownCallback(i)
      PROVE  queue' = queue
  BY <1>8 DEF StartFunctor, StartCallback, CallbackCheck, TeardownCallback
<1>9. ASSUME NEW t \in Threads, \/ CloseInline(t) \/ CloseReturn(t) \/ ReleasePools(t)
                                \/ DropDependencies(t) \/ DropPools(t) \/ JoinPools(t)
      PROVE  queue' = queue
  BY <1>9 DEF CloseInline, CloseReturn, ReleasePools, DropDependencies, DropPools, JoinPools
<1>10. ASSUME (\E p \in Proxies : CpuDelete(p)) \/ UNCHANGED vars PROVE queue' = queue
  BY <1>10 DEF CpuDelete, vars
<1> QED
  BY <1>1, <1>2, <1>3, <1>4, <1>5, <1>6, <1>7, <1>8, <1>9, <1>10
  DEF Next, ClientStep, WorkerStep, DestroyStep

\* A table of a live proxy is only closed by a close task, on its isolation thread
LEMMA LiveTables ==
  ASSUME ControlInv, OwnershipInv, ProxyInv, [Next]_vars,
         NEW p \in Proxies, NEW i \in Instances, phase[p] = "live"
  PROVE  table'[p][i] = table[p][i] \/ (CloseTask(i) /\ p = Head(queue[i]).proxy)
<1> DEFINE Kept == table'[p][i] = table[p][i] \/ (CloseTask(i) /\ p = Head(queue[i]).proxy)
<1>0. TypeOK
  BY DEF ControlInv
<1>1. ASSUME NEW j \in Instances, OpenSucceeds(j) PROVE Kept
  <2>1. queue[j] # <<>> /\ Head(queue[j]).kind = "open"
    BY <1>1 DEF OpenSucceeds, OpenTask
  <2>2. /\ Head(queue[j]).proxy \in Proxies /\ phase[Head(queue[j]).proxy] = "making"
    BY <2>1, Served, TaskPhases
  <2> QED
    BY <1>0, <1>1, <2>2 DEF OpenSucceeds, TypeOK
<1>2. ASSUME NEW j \in Instances, CloseTask(j) PROVE Kept
  <2>1. Head(queue[j]).proxy \in Proxies
    BY <1>2, Served DEF CloseTask
  <2>2. CASE j = i /\ p = Head(queue[j]).proxy
    BY <1>2, <2>2
  <2>3. CASE ~ (j = i /\ p = Head(queue[j]).proxy)
    BY <1>0, <1>2, <2>1, <2>3 DEF CloseTask, TypeOK
  <2> QED
    BY <2>2, <2>3
<1>3. ASSUME NEW t \in Threads, CloseInline(t) PROVE Kept
  <2>1. t \in Instances /\ pc[t] = "close"
    BY <1>3 DEF CloseInline, OwnsThread
  <2>2. arg[t] \in Proxies /\ arg[t] # p
    BY <2>1, ClosersOwn
  <2> QED
    BY <1>0, <1>3, <2>2 DEF CloseInline, TypeOK
<1>4. ASSUME NEW t \in Threads, JoinPools(t) PROVE Kept
  <2>1. /\ unwind[t] \in Seq(Proxies) /\ unwind[t] # <<>> /\ ~ Destroying(t)
    BY <1>0, <1>4 DEF ControlInv, TypeOK, JoinPools, ThreadsInStep, InStep, Destroying
  <2>2. Head(unwind[t]) \in Proxies /\ phase[Head(unwind[t])] \in {"dead", "aborted"}
    BY <2>1, TailFacts DEF OwnershipInv, DestructorsInStep
  <2> QED
    BY <1>0, <1>4, <2>2 DEF JoinPools, TypeOK
<1>5. ASSUME NEW q \in Proxies, CpuDelete(q) PROVE Kept
  <2>1. q # p
    BY <1>5 DEF CpuDelete, ProxyInv, PoolsOutlive
  <2> QED
    BY <1>0, <1>5, <2>1 DEF CpuDelete, TypeOK
<1>6. ASSUME NEW c \in Clients, ClientStarts(c) \/ ClientStep(c) PROVE table' = table
  BY <1>6
  DEF ClientStarts, ClientStep, StartMake, StartSpawn, Call, StartClose, ClientDrop, MakeSubmit,
      MakeReturn, CallSubmit, proxyVars
<1>7. ASSUME NEW j \in Instances, WorkerStep(j) PROVE table' = table \/ OpenSucceeds(j) \/ CloseTask(j)
  BY <1>7
  DEF WorkerStep, OpenFails, StartFunctor, RejectTask, EndFunctor, StartCallback, CallbackCheck,
      CallbackReturn, CallbackSubmit, TeardownCallback, Complete, proxyVars
<1>8. ASSUME NEW t \in Threads, DestroyStep(t) PROVE table' = table \/ CloseInline(t) \/ JoinPools(t)
  BY <1>8
  DEF DestroyStep, CloseSubmit, CloseReturn, ReleasePools, DropDependencies, DropPools, proxyVars
<1>9. ASSUME table' = table PROVE Kept
  BY <1>9
<1>10. UNCHANGED vars => table' = table
  BY DEF vars
<1> QED
  BY <1>1, <1>2, <1>3, <1>4, <1>5, <1>6, <1>7, <1>8, <1>9, <1>10 DEF Next

\* A functor that runs was already running, or starts
LEMMA FunctorStarts ==
  ASSUME ControlInv, OwnershipInv, [Next]_vars, NEW i \in Instances, pc'[i] = "run"
  PROVE  pc[i] = "run" \/ StartFunctor(i)
<1> SUFFICES ASSUME pc[i] # "run", ~ StartFunctor(i) PROVE FALSE
  OBVIOUS
<1>0. TypeOK /\ i \in Threads
  BY Ranges DEF ControlInv
<1>1. ASSUME NEW c \in Clients, ClientStarts(c), ~ \E p \in Proxies : ClientDrop(c, p) PROVE FALSE
  BY <1>0, <1>1 DEF ClientStarts, StartMake, StartSpawn, Call, StartClose, TypeOK
<1>2. ASSUME NEW c \in Clients, ClientStep(c) PROVE FALSE
  BY <1>0, <1>2 DEF ClientStep, MakeSubmit, MakeReturn, CallSubmit, TypeOK
<1>3. ASSUME NEW j \in Instances, RejectTask(j) \/ EndFunctor(j) \/ CallbackReturn(j) PROVE FALSE
  <2>1. queue[j] # <<>> /\ Head(queue[j]).kind = "run" /\ Complete(j)
    BY <1>3, Running DEF RejectTask, EndFunctor, CallbackReturn, InCallback
  <2>2. PICK c \in Clients : c = Head(queue[j]).thread
    BY <2>1, ServedRun
  <2>3. c # j /\ j \in Threads /\ c \in Threads /\ c # i
    BY Ranges
  <2> QED
    BY <1>0, <2>1, <2>2, <2>3 DEF Complete, TypeOK
<1>4. ASSUME NEW j \in Instances, NEW m \in Instances,
             \/ OpenSucceeds(j) \/ OpenFails(j) \/ CloseTask(j) \/ StartFunctor(j)
             \/ StartCallback(j) \/ CallbackCheck(j) \/ CallbackSubmit(j, m)
      PROVE  FALSE
  BY <1>0, <1>4
  DEF OpenSucceeds, OpenFails, CloseTask, StartFunctor, StartCallback, CallbackCheck,
      CallbackSubmit, TypeOK
<1>5. ASSUME NEW t \in Threads, \/ CloseInline(t) \/ CloseSubmit(t) \/ CloseReturn(t) \/ ReleasePools(t)
                                \/ DropPools(t) \/ JoinPools(t)
      PROVE  FALSE
  BY <1>0, <1>5
  DEF CloseInline, CloseSubmit, CloseReturn, ReleasePools, DropPools, JoinPools, TypeOK
<1>6. ASSUME NEW t \in Threads, \/ t \in Clients /\ \E p \in Proxies : ClientDrop(t, p)
                                \/ t \in Instances /\ TeardownCallback(t)
                                \/ DropDependencies(t)
      PROVE  FALSE
  BY <1>0, <1>6, Drops DEF DropsReference
<1>7. ASSUME (\E p \in Proxies : CpuDelete(p)) \/ UNCHANGED vars PROVE FALSE
  BY <1>7 DEF CpuDelete, vars, threadVars
<1> QED
  BY <1>1, <1>2, <1>3, <1>4, <1>5, <1>6, <1>7, Ranges DEF Next, WorkerStep, DestroyStep

\* The tasks of the next state were queued before, in the same order, or are new and last
LEMMA QueueStep ==
  ASSUME ControlInv, OwnershipInv, ProxyInv, QueueInv, [Next]_vars PROVE QueueInv'
<1>0. TypeOK
  BY DEF ControlInv
<1>1. ASSUME NEW i \in Instances, Finishes(i) PROVE EarlyTasksAhead'
  <2>1. /\ \A j \in Instances \ {i} : queue'[j] = queue[j]
        /\ \A k \in DOMAIN queue'[i] :
             k \in Nat /\ 1 <= k /\ k + 1 \in DOMAIN queue[i] /\ queue'[i][k] = queue[i][k + 1]
        /\ queue' \in [Instances -> Seq(Tasks)]
    BY <1>0, <1>1, Dequeued DEF Finishes
  <2> SUFFICES ASSUME NEW j \in Instances, NEW k \in DOMAIN queue'[j],
                      queue'[j][k].kind = "run", ~ queue'[j][k].afterClose, NEW l \in 1..(k - 1)
               PROVE  ~ (queue'[j][l].kind = "close" /\ queue'[j][l].proxy = queue'[j][k].proxy)
    BY DEF EarlyTasksAhead
  <2>2. CASE j # i
    <3>1. queue'[j] = queue[j]
      BY <2>1, <2>2
    <3>2. k \in DOMAIN queue[j] /\ queue[j][k].kind = "run" /\ ~ queue[j][k].afterClose
      BY <3>1
    <3> QED
      BY <3>1, <3>2 DEF QueueInv, EarlyTasksAhead
  <2>3. CASE j = i
    <3>1. queue'[i] \in Seq(Tasks)
      BY <2>1
    <3>2. l \in DOMAIN queue'[i]
      BY <2>3, <3>1
    <3>3. PICK m \in DOMAIN queue[i], n \in DOMAIN queue[i] :
            m = k + 1 /\ n = l + 1 /\ queue'[i][k] = queue[i][m] /\ queue'[i][l] = queue[i][n]
      BY <2>1, <2>3, <3>2
    <3>4. n \in 1..(m - 1)
      <4>1. k \in Nat
        BY <2>1, <2>3
      <4> QED
        BY <3>3, <4>1
    <3> QED
      BY <2>3, <3>3, <3>4 DEF QueueInv, EarlyTasksAhead
  <2> QED
    BY <2>2, <2>3
<1>2. ASSUME NEW i \in Instances, NEW task \in Tasks, Submits(i, task) PROVE EarlyTasksAhead'
  <2>1. /\ \A j \in Instances : \A k \in DOMAIN queue[j] :
             k \in DOMAIN queue'[j] /\ queue'[j][k] = queue[j][k]
        /\ \A j \in Instances : \A k \in DOMAIN queue'[j] :
             \/ k \in DOMAIN queue[j] /\ queue'[j][k] = queue[j][k]
             \/ /\ j = i /\ k = Len(queue[i]) + 1 /\ k \notin DOMAIN queue[i]
                /\ queue'[j][k] = task
    BY <1>0, <1>2, Enqueued DEF Submits
  <2> SUFFICES ASSUME NEW j \in Instances, NEW k \in DOMAIN queue'[j],
                      queue'[j][k].kind = "run", ~ queue'[j][k].afterClose, NEW l \in 1..(k - 1)
               PROVE  ~ (queue'[j][l].kind = "close" /\ queue'[j][l].proxy = queue'[j][k].proxy)
    BY DEF EarlyTasksAhead
  <2>2. queue[j] \in Seq(Tasks) /\ queue[i] \in Seq(Tasks)
    BY <1>0 DEF TypeOK
  <2>3. CASE k \in DOMAIN queue[j] /\ queue'[j][k] = queue[j][k]
    <3>1. l \in DOMAIN queue[j]
      BY <2>2, <2>3
    <3> QED
      BY <2>1, <2>3, <3>1 DEF QueueInv, EarlyTasksAhead
  <2>4. CASE j = i /\ k = Len(queue[i]) + 1 /\ queue'[j][k] = task
    <3>1. l \in DOMAIN queue[i]
      BY <2>2, <2>4
    <3>2. queue'[i][l] = queue[i][l]
      BY <2>1, <3>1
    <3> QED
      BY <1>2, <2>4, <3>1, <3>2 DEF Submits, CloseQueued
  <2> QED
    BY <2>1, <2>3, <2>4
<1>3. ASSUME queue' = queue PROVE EarlyTasksAhead'
  BY <1>3 DEF QueueInv, EarlyTasksAhead
<1>4. EarlyTasksAhead'
  BY <1>1, <1>2, <1>3, QueueMoves
<1>5. EarlyTasksServed'
  <2> SUFFICES ASSUME NEW j \in Instances, NEW k \in DOMAIN queue'[j],
                      queue'[j][k].kind = "run", ~ queue'[j][k].afterClose
               PROVE  table'[queue'[j][k].proxy][j] \in {"open", "failed"}
    BY DEF EarlyTasksServed
  <2>1. ASSUME CloseTask(j), queue'[j][k].proxy = Head(queue[j]).proxy PROVE FALSE
    <3>1. queue[j] # <<>> /\ queue' = [queue EXCEPT ![j] = Tail(@)] /\ Head(queue[j]).kind = "close"
      BY <2>1 DEF CloseTask
    <3>2. /\ Head(queue[j]) = queue[j][1]
          /\ k \in Nat /\ 1 <= k /\ k + 1 \in DOMAIN queue[j] /\ queue'[j][k] = queue[j][k + 1]
      BY <1>0, <3>1, Dequeued
    <3>3. PICK m \in DOMAIN queue[j] : m = k + 1 /\ queue'[j][k] = queue[j][m]
      BY <3>2
    <3>4. 1 \in 1..(m - 1)
      BY <3>2, <3>3
    <3>5. queue[j][m].kind = "run" /\ ~ queue[j][m].afterClose
      BY <3>3
    <3>6. ~ (queue[j][1].kind = "close" /\ queue[j][1].proxy = queue[j][m].proxy)
      BY <3>4, <3>5 DEF QueueInv, EarlyTasksAhead
    <3> QED
      BY <2>1, <3>1, <3>2, <3>3, <3>6
  <2>2. ASSUME NEW m \in DOMAIN queue[j], queue'[j][k] = queue[j][m]
        PROVE  table'[queue'[j][k].proxy][j] \in {"open", "failed"}
    <3>1. queue[j][m].kind = "run" /\ ~ queue[j][m].afterClose
      BY <2>2
    <3>2. phase[queue[j][m].proxy] = "live" /\ queue[j][m].proxy \in Proxies
      BY <3>1, TaskPhases, QueuedTask
    <3>3. table'[queue[j][m].proxy][j] = table[queue[j][m].proxy][j]
      BY <2>1, <2>2, <3>2, LiveTables
    <3>4. table[queue[j][m].proxy][j] \in {"open", "failed"}
      BY <3>1 DEF QueueInv, EarlyTasksServed
    <3> QED
      BY <2>2, <3>3, <3>4
  <2>3. ASSUME NEW i \in Instances, Finishes(i)
        PROVE  \E m \in DOMAIN queue[j] : queue'[j][k] = queue[j][m]
    <3>1. queue[i] # <<>> /\ queue' = [queue EXCEPT ![i] = Tail(@)]
      BY <2>3 DEF Finishes
    <3>2. CASE j = i
      <4>1. k + 1 \in DOMAIN queue[j] /\ queue'[j][k] = queue[j][k + 1]
        BY <1>0, <3>1, <3>2, Dequeued
      <4> QED
        BY <4>1
    <3>3. CASE j # i
      <4>1. queue'[j] = queue[j]
        BY <1>0, <3>1, <3>3 DEF TypeOK
      <4> QED
        BY <4>1
    <3> QED
      BY <3>2, <3>3
  <2>4. ASSUME NEW i \in Instances, NEW task \in Tasks, Submits(i, task)
        PROVE  table'[queue'[j][k].proxy][j] \in {"open", "failed"}
    <3>1. \/ k \in DOMAIN queue[j] /\ queue'[j][k] = queue[j][k]
          \/ j = i /\ queue'[j][k] = task
      BY <1>0, <2>4, Enqueued DEF Submits
    <3>2. CASE j = i /\ queue'[j][k] = task
      <4>1. ~ CloseQueued(task.proxy, i) /\ table' = table
        BY <2>4, <3>2 DEF Submits
      <4> QED
        BY <3>2, <4>1 DEF CloseQueued
    <3> QED
      BY <2>2, <3>1, <3>2
  <2> QED
    BY <2>2, <2>3, <2>4, QueueMoves
<1>6. TableOpenWhileRunning'
  <2> SUFFICES ASSUME NEW i \in Instances, pc'[i] = "run"
               PROVE  table'[Head(queue'[i]).proxy][i] \in {"open", "failed"}
    BY DEF TableOpenWhileRunning
  <2>1. CASE StartFunctor(i)
    BY <2>1 DEF StartFunctor, proxyVars
  <2>2. CASE pc[i] = "run"
    <3>1. queue[i] # <<>> /\ Head(queue[i]).kind = "run"
      BY <2>2, Running
    <3>2. /\ Head(queue[i]) = queue[i][1] /\ 1 \in DOMAIN queue[i]
          /\ Head(queue[i]).proxy \in Proxies /\ phase[Head(queue[i]).proxy] = "live"
      BY <3>1, Served, TaskPhases
    <3>3. ~ CloseTask(i)
      BY <2>2 DEF CloseTask
    <3>4. table'[Head(queue[i]).proxy][i] = table[Head(queue[i]).proxy][i]
      BY <3>2, <3>3, LiveTables
    <3>5. Head(queue'[i]) = Head(queue[i])
      <4>1. ASSUME NEW j \in Instances, Finishes(j) PROVE queue'[i] = queue[i]
        <5>1. j # i
          BY <4>1 DEF Finishes
        <5> QED
          BY <1>0, <4>1, <5>1, Dequeued DEF Finishes
      <4>2. ASSUME NEW j \in Instances, NEW task \in Tasks, Submits(j, task)
            PROVE  Head(queue'[i]) = Head(queue[i])
        <5>1. /\ queue'[i] \in Seq(Tasks) /\ queue'[i] # <<>> /\ queue'[i][1] = queue[i][1]
          BY <1>0, <3>1, <4>2, Enqueued DEF Submits
        <5> QED
          BY <3>2, <5>1, TailFacts
      <4> QED
        BY <4>1, <4>2, QueueMoves
    <3> QED
      BY <2>2, <3>4, <3>5 DEF QueueInv, TableOpenWhileRunning
  <2> QED
    BY <2>1, <2>2, FunctorStarts
<1> QED
  BY <1>4, <1>5, <1>6 DEF QueueInv

-----------------------------------------------------------------------------
(* The life cycle of proxies *)

\* The invariant holds initially
LEMMA LifecycleInit ==
  ASSUME Init PROVE LifecycleInv
<1>1. TypeOK
  BY Ranges, ProxiesAssumption DEF Init, TypeOK, Phases, TableStates, PCs, ProxiesAssumption
<1>2. /\ \A t \in Threads : pc[t] = "idle" /\ unwind[t] = <<>>
      /\ \A i \in Instances : pc[i] = "idle" /\ queue[i] = <<>>
      /\ \A c \in Clients : pc[c] = "idle" /\ c \in Threads
      /\ \A p \in Proxies : phase[p] = "none" /\ held[p] = {} /\ parent[p] = NoProxy
      /\ cpu = {}
  BY Ranges DEF Init
<1>3. ControlInv
  BY <1>1, <1>2
  DEF ControlInv, ThreadsInStep, InStep, ClientPCs, InstancePCs, Serving, ServesHead, InCallback,
      TasksAwaited, TasksDistinct, FirstTaskAlone
<1>4. OwnershipInv
  BY <1>2, ProxiesAssumption
  DEF OwnershipInv, DestructorsInStep, Destroying, CallersHold, MakersHold, OwnedAlive,
      ProxiesAssumption
<1>5. TableInv
  BY <1>2
  DEF TableInv, PoolsOutlive, Destroying, ClosesInTurn, ClosedForGood, EarlyTasksAhead,
      EarlyTasksServed, TableOpenWhileRunning
<1> QED
  BY <1>3, <1>4, <1>5 DEF LifecycleInv

\* Every step preserves it
LEMMA LifecycleStep ==
  ASSUME LifecycleInv, [Next]_vars PROVE LifecycleInv'
<1>1. ControlInv /\ OwnershipInv /\ ProxyInv /\ QueueInv
  BY DEF LifecycleInv, TableInv, ProxyInv, QueueInv
<1>2. ControlInv' /\ OwnershipInv' /\ ProxyInv' /\ QueueInv'
  BY <1>1, ControlStep, OwnershipStep, ProxyStep, QueueStep
<1> QED
  BY <1>2 DEF LifecycleInv, TableInv, ProxyInv, QueueInv

\* Threads, tasks, proxies and tables stay in step: the invariant of which the
\* theorems below are consequences
THEOREM Lifecycle == Spec => []LifecycleInv
  BY LifecycleInit, LifecycleStep, PTL DEF Spec

\* The variables keep their types, and every task and thread its place
THEOREM TypeCorrect == Spec => []TypeOK
<1>1. LifecycleInv => TypeOK
  BY DEF LifecycleInv, ControlInv
<1> QED
  BY <1>1, Lifecycle, PTL

\* No task outlives the proxy it captured as a raw pointer: Close(), the destructor
\* and the shared pools never leave one queued (RunAsync() and Close() on any thread)
THEOREM NeverUsedAfterFree == Spec => []NoUseAfterFree
<1>1. LifecycleInv => NoUseAfterFree
  BY TasksOwned DEF LifecycleInv
<1> QED
  BY <1>1, Lifecycle, PTL

\* Pools are only shut down with empty queues: ~IsolatedTableProxy(), on a client or
\* through the CPU pool, drops no task and leaves no future unfinished
THEOREM NeverDropsTask == Spec => []NoDroppedTask
<1>1. LifecycleInv => NoDroppedTask
  <2> SUFFICES ASSUME LifecycleInv, NEW i \in Instances, queue[i] # <<>> PROVE poolHeld # {}
    BY DEF NoDroppedTask
  <2>1. ControlInv /\ OwnershipInv /\ PoolsOutlive
    BY DEF LifecycleInv, TableInv
  <2>2. PICK task : task = Head(queue[i]) /\ task.proxy \in Proxies /\ task.thread \in Threads
                    /\ task.kind \in {"run", "open", "close"} /\ task = queue[i][1]
                    /\ 1 \in DOMAIN queue[i]
    BY <2>1, Served
  <2>3. CASE task.kind \in {"run", "open"}
    <3>1. phase[task.proxy] \in {"live", "making"}
      BY <2>1, <2>2, <2>3, TaskPhases
    <3> QED
      BY <2>1, <2>2, <3>1 DEF PoolsOutlive
  <2>4. CASE task.kind = "close"
    <3>1. pc[task.thread] = "close"
      BY <2>1, <2>2, <2>4, ServedClose
    <3>2. CASE unwind[task.thread] = <<>>
      <4>1. task.thread \in Clients
        BY <2>1, <2>2, <3>1, <3>2 DEF ControlInv, ThreadsInStep, InStep
      <4>2. arg[task.thread] \in Proxies /\ phase[arg[task.thread]] = "live"
        BY <2>1, <2>2, <3>1, <3>2, <4>1 DEF ControlInv, TypeOK, OwnershipInv, CallersHold, OwnedAlive
      <4> QED
        BY <2>1, <4>2 DEF PoolsOutlive
    <3>3. CASE unwind[task.thread] # <<>>
      <4>1. Destroying(task.thread)
        BY <3>1, <3>3 DEF Destroying
      <4> QED
        BY <2>1, <2>2, <3>1, <4>1 DEF PoolsOutlive
    <3> QED
      BY <3>2, <3>3
  <2> QED
    BY <2>2, <2>3, <2>4
<1> QED
  BY <1>1, Lifecycle, PTL

\* No Close() and no destructor nulls a table while a functor uses it
THEOREM TableStaysOpen == Spec => []TableOpenWhileRunning
<1>1. LifecycleInv => TableOpenWhileRunning
  BY DEF LifecycleInv, TableInv
<1> QED
  BY <1>1, Lifecycle, PTL

\* Tasks queued ahead of a close find their table open, although a destructor on an
\* isolation thread closes inline, ahead of the queue
THEOREM EarlyTasksFindTable == Spec => []EarlyTasksServed
<1>1. LifecycleInv => EarlyTasksServed
  BY DEF LifecycleInv, TableInv
<1> QED
  BY <1>1, Lifecycle, PTL

\* is_closed_ is true of a proxy only once each of its tables has been closed
THEOREM ClosedIsClosed == Spec => []ClosedMeansClosed
<1>1. LifecycleInv => ClosedMeansClosed
  BY DEF LifecycleInv, TableInv, ClosedForGood, ClosedMeansClosed
<1> QED
  BY <1>1, Lifecycle, PTL

\* No open table is destroyed, on a client or by the CPU pool, but those of a proxy
\* whose Make() or Spawn() failed
THEOREM OpenTablesClosedFirst == Spec => NoOpenTableDestroyed
<1> DEFINE Step == \A p \in Proxies, i \in Instances :
                     table[p][i] = "open" /\ table'[p][i] = "none" => phase[p] = "aborted"
<1>1. ASSUME LifecycleInv, [Next]_vars PROVE [Step]_vars
  <2> SUFFICES ASSUME NEW p \in Proxies, NEW i \in Instances,
                      table[p][i] = "open", table'[p][i] = "none"
               PROVE  phase[p] = "aborted"
    OBVIOUS
  <2>0. ControlInv /\ TypeOK /\ OwnershipInv /\ PoolsOutlive /\ ClosedForGood
    BY <1>1 DEF LifecycleInv, TableInv, ControlInv
  <2>1. ASSUME NEW t \in Threads, JoinPools(t) PROVE phase[p] = "aborted"
    <3>1. /\ unwind[t] \in Seq(Proxies) /\ unwind[t] # <<>> /\ ~ Destroying(t)
      BY <2>0, <2>1 DEF ControlInv, TypeOK, JoinPools, ThreadsInStep, InStep, Destroying
    <3>2. Head(unwind[t]) \in Proxies /\ phase[Head(unwind[t])] \in {"dead", "aborted"}
      BY <2>0, <3>1, TailFacts DEF OwnershipInv, DestructorsInStep
    <3>3. p = Head(unwind[t])
      BY <2>0, <2>1, <3>2 DEF JoinPools, TypeOK
    <3> QED
      BY <2>0, <3>2, <3>3 DEF ClosedForGood
  <2>2. ASSUME NEW q \in Proxies, CpuDelete(q) PROVE phase[p] = "aborted"
    <3>1. p = q
      BY <2>0, <2>2 DEF CpuDelete, TypeOK
    <3> QED
      BY <2>0, <2>2, <3>1 DEF CpuDelete, PoolsOutlive, ClosedForGood
  <2>3. ASSUME NEW j \in Instances, OpenSucceeds(j) PROVE FALSE
    <3>1. Head(queue[j]).proxy \in Proxies
      BY <2>0, <2>3, Served DEF OpenSucceeds, OpenTask
    <3> QED
      BY <2>0, <2>3, <3>1 DEF OpenSucceeds, TypeOK
  <2>4. ASSUME NEW j \in Instances, CloseTask(j) PROVE FALSE
    <3>1. Head(queue[j]).proxy \in Proxies
      BY <2>0, <2>4, Served DEF CloseTask
    <3> QED
      BY <2>0, <2>4, <3>1 DEF CloseTask, TypeOK, Closed
  <2>5. ASSUME NEW t \in Threads, CloseInline(t) PROVE FALSE
    BY <2>0, <2>5 DEF CloseInline, TypeOK, Closed
  <2>6. ASSUME NEW c \in Clients, ClientStarts(c) \/ ClientStep(c) PROVE table' = table
    BY <2>6
    DEF ClientStarts, ClientStep, StartMake, StartSpawn, Call, StartClose, ClientDrop, MakeSubmit,
        MakeReturn, CallSubmit, proxyVars
  <2>7. ASSUME NEW j \in Instances, WorkerStep(j)
        PROVE  table' = table \/ OpenSucceeds(j) \/ CloseTask(j)
    BY <2>7
    DEF WorkerStep, OpenFails, StartFunctor, RejectTask, EndFunctor, StartCallback, CallbackCheck,
        CallbackReturn, CallbackSubmit, TeardownCallback, Complete, proxyVars
  <2>8. ASSUME NEW t \in Threads, DestroyStep(t)
        PROVE  table' = table \/ CloseInline(t) \/ JoinPools(t)
    BY <2>8
    DEF DestroyStep, CloseSubmit, CloseReturn, ReleasePools, DropDependencies, DropPools, proxyVars
  <2>9. UNCHANGED vars => table' = table
    BY DEF vars
  <2>10. table' # table
    OBVIOUS
  <2> QED
    BY <1>1, <2>1, <2>2, <2>3, <2>4, <2>5, <2>6, <2>7, <2>8, <2>9, <2>10 DEF Next
<1> QED
  BY <1>1, Lifecycle, PTL DEF Spec, NoOpenTableDestroyed
=============================================================================

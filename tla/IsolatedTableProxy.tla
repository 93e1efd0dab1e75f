--------------------------- MODULE IsolatedTableProxy ---------------------------
(***************************************************************************)
(* The life cycle of the IsolatedTableProxy objects of one table: the      *)
(* proxy made by Make(), the proxies Spawn()ed from it, the one-thread     *)
(* pools they share, the tasks RunAsync() queues on those pools, Close(),  *)
(* and the destructor, on whichever thread drops the last reference.       *)
(*                                                                         *)
(* A pool of one thread is a FIFO queue and the isolation thread serving   *)
(* it, so instance i, its pool and its thread share the name i.  The task  *)
(* a thread is running stays at the head of its queue until it completes.  *)
(* Placement (Dispatch) is left open here: any instance may be chosen.     *)
(***************************************************************************)
EXTENDS Naturals, Sequences

CONSTANTS
  Clients,      \* threads calling into the library through a NewTableProxy
  NInstances,   \* number of instances: pools, isolation threads, TableProxies
  Proxies,      \* identities of the IsolatedTableProxy objects
  Root,         \* the one that Make() creates; the others are Spawn()ed
  NoProxy       \* "no parent"

Instances == 1..NInstances
Threads == Clients \cup Instances

ASSUME InstancesAssumption == NInstances \in Nat \ {0}
ASSUME ThreadsAssumption == Clients \cap Instances = {}
ASSUME ProxiesAssumption == Root \in Proxies /\ NoProxy \notin Proxies

VARIABLES
  phase,     \* of each proxy: none, making, live, dying (in the destructor),
             \* dead (members being or already destroyed), aborted
  parent,    \* the proxy it was spawned from, kept alive by dependencies_
  isClosed,  \* is_closed_
  table,     \* per proxy and instance, the casacore table of the TableProxy:
             \* none (no TableProxy), open, null (closed), failed (close threw)
  held,      \* the clients holding a reference, through their NewTableProxy
  poolHeld,  \* proxies whose proxy_pools_ still hold the shared pools
  cpu,       \* proxies whose proxy_pools_ wait to be deleted by the CPU pool
  queue,     \* of each pool: the tasks it has yet to complete
  pc,        \* what each thread is doing
  arg,       \* the proxy it is doing it to
  next,      \* the next instance, or group of chunks, of its loop
  waits,     \* the instances whose open or close task it waits for
  unwind,    \* destructors in progress on each thread, innermost first
  pending    \* unfinished futures of each client's call: 0 for its first task,
             \* g for group g of a fanned out read

proxyVars == <<phase, parent, isClosed, table, held, poolHeld, cpu>>
threadVars == <<pc, arg, next, waits, unwind, pending>>
vars == <<phase, parent, isClosed, table, held, poolHeld, cpu, queue,
          pc, arg, next, waits, unwind, pending>>

Phases == {"none", "making", "live", "dying", "dead", "aborted"}
TableStates == {"none", "open", "null", "failed"}
PCs == {"idle", "make", "dispatch", "wait", "run", "callback", "teardown",
        "close", "release", "deps", "pools", "join"}

(***************************************************************************)
(* A task.  thread is the client whose call it serves, or the thread that  *)
(* waits for the open or close.  holds: a callback capturing the proxy is  *)
(* attached to its future, which only the first task of a read has.        *)
(* afterClose records, for the properties only, that the close of this     *)
(* instance was already queued or done when the task was submitted.        *)
(***************************************************************************)
Tasks == [kind: {"run", "open", "close"}, proxy: Proxies, thread: Threads,
          slot: 0..NInstances, holds: BOOLEAN, afterClose: BOOLEAN]

RunTask(p, c, slot, holds, late) ==
  [kind |-> "run", proxy |-> p, thread |-> c, slot |-> slot,
   holds |-> holds, afterClose |-> late]

ControlTask(kind, p, t) ==
  [kind |-> kind, proxy |-> p, thread |-> t, slot |-> 0,
   holds |-> FALSE, afterClose |-> FALSE]

Init ==
  /\ phase = [p \in Proxies |-> "none"]
  /\ parent = [p \in Proxies |-> NoProxy]
  /\ isClosed = [p \in Proxies |-> TRUE]
  /\ table = [p \in Proxies |-> [i \in Instances |-> "none"]]
  /\ held = [p \in Proxies |-> {}]
  /\ poolHeld = {}
  /\ cpu = {}
  /\ queue = [i \in Instances |-> <<>>]
  /\ pc = [t \in Threads |-> "idle"]
  /\ arg = [t \in Threads |-> Root]
  /\ next = [t \in Threads |-> 1]
  /\ waits = [t \in Threads |-> {}]
  /\ unwind = [t \in Threads |-> <<>>]
  /\ pending = [c \in Clients |-> {}]

-----------------------------------------------------------------------------
\* Submit(): append a task to a pool's queue
Enqueue(i, task) == queue' = [queue EXCEPT ![i] = Append(@, task)]

\* Has the close of p's table on i been queued or run?
CloseQueued(p, i) ==
  \/ table[p][i] # "open"
  \/ \E k \in DOMAIN queue[i] : queue[i][k].kind = "close" /\ queue[i][k].proxy = p

(***************************************************************************)
(* Does anyone still own p, given who holds references (h), the phases of  *)
(* the proxies (ph) and the activity of the threads (w)?  Owners are the   *)
(* clients, the dependencies_ of spawned proxies, and the callbacks that   *)
(* captured p: attached to a queued or running task, or being torn down.   *)
(***************************************************************************)
Referenced(p, h, ph, w) ==
  \/ h[p] # {}
  \/ \E q \in Proxies : parent[q] = p /\ ph[q] \in {"live", "dying"}
  \/ \E i \in Instances : w[i] = "teardown" /\ arg[i] = p
  \/ \E i \in Instances : \E k \in DOMAIN queue[i] :
        queue[i][k].proxy = p /\ queue[i][k].holds

\* What thread t does next once it enters the destructor of p, which starts
\* with Close(): nothing to do there if p is closed
DestructorSkipsClose(p) == "release"
Destructor(p) == IF isClosed[p] THEN "release" ELSE "close"

-----------------------------------------------------------------------------
(* Make() and Spawn(): open a table on each isolation thread in turn.      *)

StartMake(c) ==
  /\ pc[c] = "idle" /\ phase[Root] = "none"
  /\ phase' = [phase EXCEPT ![Root] = "making"]
  /\ poolHeld' = poolHeld \cup {Root}
  /\ pc' = [pc EXCEPT ![c] = "make"]
  /\ arg' = [arg EXCEPT ![c] = Root]
  /\ next' = [next EXCEPT ![c] = 1]
  /\ UNCHANGED <<parent, isClosed, table, held, cpu, queue, waits, unwind, pending>>

\* Spawn() does not check whether p is closed
StartSpawn(c, p, q) ==
  /\ pc[c] = "idle" /\ c \in held[p] /\ q # Root /\ phase[q] = "none"
  /\ phase' = [phase EXCEPT ![q] = "making"]
  /\ parent' = [parent EXCEPT ![q] = p]
  /\ poolHeld' = poolHeld \cup {q}
  /\ pc' = [pc EXCEPT ![c] = "make"]
  /\ arg' = [arg EXCEPT ![c] = q]
  /\ next' = [next EXCEPT ![c] = 1]
  /\ UNCHANGED <<isClosed, table, held, cpu, queue, waits, unwind, pending>>

MakeSubmit(c) ==
  /\ pc[c] = "make" /\ waits[c] = {} /\ next[c] \in Instances
  /\ Enqueue(next[c], ControlTask("open", arg[c], c))
  /\ waits' = [waits EXCEPT ![c] = {next[c]}]
  /\ UNCHANGED <<proxyVars, pc, arg, next, unwind, pending>>

OpenTask(i) ==
  /\ pc[i] = "idle" /\ poolHeld # {}
  /\ queue[i] # <<>> /\ Head(queue[i]).kind = "open"
  /\ queue' = [queue EXCEPT ![i] = Tail(@)]

\* The functor returned a TableProxy, which the caller stores
OpenSucceeds(i) ==
  LET c == Head(queue[i]).thread
  IN  /\ OpenTask(i)
      /\ table' = [table EXCEPT ![Head(queue[i]).proxy][i] = "open"]
      /\ waits' = [waits EXCEPT ![c] = {}]
      /\ next' = [next EXCEPT ![c] = @ + 1]
      /\ UNCHANGED <<phase, parent, isClosed, held, poolHeld, cpu,
                     pc, arg, unwind, pending>>

(***************************************************************************)
(* The functor failed or threw, and Make() or Spawn() returns, destroying  *)
(* the half made proxy on the calling thread.  Being marked as closed and  *)
(* not yet dependent on its parent, there is nothing to do but destroy its *)
(* proxy_pools_.                                                           *)
(***************************************************************************)
OpenFails(i) ==
  LET c == Head(queue[i]).thread
      q == Head(queue[i]).proxy
  IN  /\ OpenTask(i)
      /\ phase' = [phase EXCEPT ![q] = "aborted"]
      /\ waits' = [waits EXCEPT ![c] = {}]
      /\ pc' = [pc EXCEPT ![c] = "pools"]
      /\ unwind' = [unwind EXCEPT ![c] = <<q>>]
      /\ UNCHANGED <<parent, isClosed, table, held, poolHeld, cpu,
                     arg, next, pending>>

\* The proxy is returned, and shared by all the clients
MakeReturn(c) ==
  /\ pc[c] = "make" /\ waits[c] = {} /\ next[c] = NInstances + 1
  /\ phase' = [phase EXCEPT ![arg[c]] = "live"]
  /\ isClosed' = [isClosed EXCEPT ![arg[c]] = FALSE]
  /\ held' = [held EXCEPT ![arg[c]] = Clients]
  /\ pc' = [pc EXCEPT ![c] = "idle"]
  /\ UNCHANGED <<parent, table, poolHeld, cpu, queue, arg, next, waits, unwind, pending>>

-----------------------------------------------------------------------------
(* RunAsync(): check, dispatch, and run on the isolation thread.           *)

\* CheckClosed() passed.  It fails if is_closed_, and the call returns
Call(c, p) ==
  /\ pc[c] = "idle" /\ c \in held[p]
  /\ ~isClosed[p]
  /\ pc' = [pc EXCEPT ![c] = "dispatch"]
  /\ arg' = [arg EXCEPT ![c] = p]
  /\ UNCHANGED <<proxyVars, queue, next, waits, unwind, pending>>

\* The call's first task is queued, and the client waits for the call's future.
\* holds: the future has a callback capturing the proxy (ReadImpl)
CallSubmit(c, i, holds) ==
  /\ c \in Clients /\ pc[c] = "dispatch"
  /\ Enqueue(i, RunTask(arg[c], c, 0, holds, CloseQueued(arg[c], i)))
  /\ pending' = [pending EXCEPT ![c] = {0}]
  /\ pc' = [pc EXCEPT ![c] = "wait"]
  /\ UNCHANGED <<proxyVars, arg, next, waits, unwind>>

\* InvokeOnInstance(): the functor runs unless the table is null
StartFunctor(i) ==
  /\ pc[i] = "idle" /\ poolHeld # {}
  /\ queue[i] # <<>> /\ Head(queue[i]).kind = "run"
  /\ table[Head(queue[i]).proxy][i] \in {"open", "failed"}
  /\ pc' = [pc EXCEPT ![i] = "run"]
  /\ UNCHANGED <<proxyVars, queue, arg, next, waits, unwind, pending>>

\* The futures a call still waits for once the task is over
AnyFuture(task) == {}
UnfinishedFutures(task) == pending[task.thread] \ {task.slot}

(***************************************************************************)
(* The task at the head of i's queue is over and its future, with any      *)
(* callback, completes.  The client goes on once all its call's futures    *)
(* are finished.  A callback still holds its reference at that point: it   *)
(* is only torn down by a later step.                                      *)
(***************************************************************************)
Complete(i) ==
  LET task == Head(queue[i])
      left == UnfinishedFutures(task)
  IN  /\ queue' = [queue EXCEPT ![i] = Tail(@)]
      /\ pending' = [pending EXCEPT ![task.thread] = left]
      /\ pc' = [pc EXCEPT ![i] = IF task.holds THEN "teardown" ELSE "idle",
                          ![task.thread] = IF left = {} THEN "idle" ELSE @]
      /\ arg' = [arg EXCEPT ![i] = task.proxy]
      /\ UNCHANGED <<proxyVars, next, waits, unwind>>

\* The table has been closed: the task fails without running its functor
ForgetTask(i) ==
  /\ pc[i] = "idle" /\ poolHeld # {}
  /\ queue[i] # <<>> /\ Head(queue[i]).kind = "run"
  /\ table[Head(queue[i]).proxy][i] # "open"
  /\ queue' = [queue EXCEPT ![i] = Tail(@)]
  /\ UNCHANGED <<proxyVars, threadVars>>
RejectTask(i) ==
  /\ pc[i] = "idle" /\ poolHeld # {}
  /\ queue[i] # <<>> /\ Head(queue[i]).kind = "run"
  /\ table[Head(queue[i]).proxy][i] # "open"
  /\ Complete(i)

\* The functor returned and there is nothing more to do, or it failed
EndFunctor(i) ==
  /\ pc[i] = "run"
  /\ Complete(i)

\* The callback of ReadImpl finds several chunks to spread over the instances
StartCallback(i) ==
  /\ pc[i] = "run" /\ Head(queue[i]).holds /\ NInstances > 1
  /\ pc' = [pc EXCEPT ![i] = "callback"]
  /\ next' = [next EXCEPT ![i] = 1]
  /\ UNCHANGED <<proxyVars, queue, arg, waits, unwind, pending>>

\* Chunks are split into at most one group per instance
OneGroupTooMany(i) == next[i] \in 1..(NInstances + 1)
MoreGroups(i) == next[i] \in Instances

\* RunAsync() of the next group, from the isolation thread: CheckClosed()
CallbackCheck(i) ==
  /\ pc[i] = "callback" /\ MoreGroups(i)
  /\ IF isClosed[Head(queue[i]).proxy]
     THEN next' = [next EXCEPT ![i] = @ + 1] /\ UNCHANGED pc
     ELSE pc' = [pc EXCEPT ![i] = "dispatch"] /\ UNCHANGED next
  /\ UNCHANGED <<proxyVars, queue, arg, waits, unwind, pending>>

CallbackSubmit(i, j) ==
  LET task == Head(queue[i])
  IN  /\ i \in Instances /\ pc[i] = "dispatch"
      /\ Enqueue(j, RunTask(task.proxy, task.thread, next[i], FALSE,
                            CloseQueued(task.proxy, j)))
      /\ pending' = [pending EXCEPT ![task.thread] = @ \cup {next[i]}]
      /\ next' = [next EXCEPT ![i] = @ + 1]
      /\ pc' = [pc EXCEPT ![i] = "callback"]
      /\ UNCHANGED <<proxyVars, arg, waits, unwind>>

\* At least two groups were dispatched.  All() takes over from the callback
CallbackReturn(i) ==
  /\ pc[i] = "callback" /\ next[i] > 2
  /\ Complete(i)

-----------------------------------------------------------------------------
(* Close(), called by a client or by the destructor on any thread.         *)

StartClose(c, p) ==
  /\ pc[c] = "idle" /\ c \in held[p]
  /\ ~isClosed[p]
  /\ pc' = [pc EXCEPT ![c] = "close"]
  /\ arg' = [arg EXCEPT ![c] = p]
  /\ next' = [next EXCEPT ![c] = 1]
  /\ UNCHANGED <<proxyVars, queue, waits, unwind, pending>>

\* What close() may leave of a table: it throws, or the table is null
Closed == {"null", "failed"}

\* Is t the thread of pool i?
AlwaysOwnsThread(t, i) == TRUE
NeverOwnsThread(t, i) == FALSE
OwnsThread(t, i) == t = i

\* This thread is the pool's own: close inline, ahead of the queue
CloseInline(t) ==
  /\ pc[t] = "close" /\ next[t] \in Instances /\ OwnsThread(t, next[t])
  /\ \E s \in Closed : table' = [table EXCEPT ![arg[t]][next[t]] = s]
  /\ next' = [next EXCEPT ![t] = @ + 1]
  /\ UNCHANGED <<phase, parent, isClosed, held, poolHeld, cpu, queue,
                 pc, arg, waits, unwind, pending>>

CloseSubmit(t) ==
  /\ pc[t] = "close" /\ next[t] \in Instances /\ ~ OwnsThread(t, next[t])
  /\ Enqueue(next[t], ControlTask("close", arg[t], t))
  /\ waits' = [waits EXCEPT ![t] = @ \cup {next[t]}]
  /\ next' = [next EXCEPT ![t] = @ + 1]
  /\ UNCHANGED <<proxyVars, pc, arg, unwind, pending>>

CloseTask(i) ==
  LET task == Head(queue[i])
  IN  /\ pc[i] = "idle" /\ poolHeld # {}
      /\ queue[i] # <<>> /\ task.kind = "close"
      /\ \E s \in Closed : table' = [table EXCEPT ![task.proxy][i] = s]
      /\ queue' = [queue EXCEPT ![i] = Tail(@)]
      /\ waits' = [waits EXCEPT ![task.thread] = @ \ {i}]
      /\ UNCHANGED <<phase, parent, isClosed, held, poolHeld, cpu,
                     pc, arg, next, unwind, pending>>

\* Every instance has been visited, and every submitted close is over
NotWaited(t) == next[t] = NInstances + 1
LastSkipped(t) == next[t] = NInstances /\ waits[t] = {}
AllDone(t) == next[t] = NInstances + 1 /\ waits[t] = {}

\* All closes are done: defer_close marks the proxy closed
CloseReturn(t) ==
  /\ pc[t] = "close" /\ AllDone(t)
  /\ isClosed' = [isClosed EXCEPT ![arg[t]] = TRUE]
  /\ pc' = [pc EXCEPT ![t] = IF unwind[t] = <<>> THEN "idle" ELSE "release"]
  /\ UNCHANGED <<phase, parent, table, held, poolHeld, cpu, queue,
                 arg, next, waits, unwind, pending>>

-----------------------------------------------------------------------------
(* References and the destructor.                                          *)

\* Thread t has dropped a reference to p, which leaves the phases ph.  If it was
\* the last one t enters the destructor of p, otherwise it goes on to "after"
Dropped(t, p, ph, last, after) ==
  IF last
  THEN /\ phase' = [ph EXCEPT ![p] = "dying"]
       /\ pc' = [pc EXCEPT ![t] = Destructor(p)]
       /\ arg' = [arg EXCEPT ![t] = p]
       /\ next' = [next EXCEPT ![t] = 1]
       /\ unwind' = [unwind EXCEPT ![t] = <<p>> \o @]
  ELSE /\ phase' = ph
       /\ pc' = [pc EXCEPT ![t] = after]
       /\ UNCHANGED <<arg, next, unwind>>

\* A client between calls lets go of its NewTableProxy
ClientDrop(c, p) ==
  LET h == [held EXCEPT ![p] = @ \ {c}]
  IN  /\ pc[c] = "idle" /\ c \in held[p]
      /\ held' = h
      /\ Dropped(c, p, phase, ~Referenced(p, h, phase, pc), "idle")
      /\ UNCHANGED <<parent, isClosed, table, poolHeld, cpu, queue, waits, pending>>

\* A callback that captured the proxy is destroyed on the isolation thread
TeardownCallback(i) ==
  LET p == arg[i]
      w == [pc EXCEPT ![i] = "idle"]
  IN  /\ pc[i] = "teardown"
      /\ Dropped(i, p, phase, ~Referenced(p, held, phase, w), "idle")
      /\ UNCHANGED <<parent, isClosed, table, held, poolHeld, cpu, queue, waits, pending>>

\* A thread of the pools hands proxy_pools_ to the CPU pool for destruction
LeakPools(t) ==
  /\ pc[t] = "release"
  /\ pc' = [pc EXCEPT ![t] = "deps"]
  /\ UNCHANGED <<proxyVars, queue, arg, next, waits, unwind, pending>>
ReleasePools(t) ==
  /\ pc[t] = "release"
  /\ cpu' = IF t \in Instances THEN cpu \cup {Head(unwind[t])} ELSE cpu
  /\ pc' = [pc EXCEPT ![t] = "deps"]
  /\ UNCHANGED <<phase, parent, isClosed, table, held, poolHeld, queue,
                 arg, next, waits, unwind, pending>>

\* The destructor's body is over and dependencies_ is destroyed, which may run
\* the destructor of the parent on the same thread
DropDependencies(t) ==
  LET p == Head(unwind[t])
      q == parent[p]
      ph == [phase EXCEPT ![p] = "dead"]
      last == q # NoProxy /\ ~Referenced(q, held, ph, pc)
  IN  /\ pc[t] = "deps"
      /\ Dropped(t, q, ph, last, "pools")
      /\ UNCHANGED <<parent, isClosed, table, held, poolHeld, cpu, queue,
                     waits, pending>>

\* proxy_pools_ is destroyed, unless it was handed to the CPU pool.  Pools that
\* nothing else holds shut down: tasks still queued are dropped
DropPools(t) ==
  LET p == Head(unwind[t])
  IN  /\ pc[t] = "pools"
      /\ poolHeld' = IF t \in Instances THEN poolHeld ELSE poolHeld \ {p}
      /\ pc' = [pc EXCEPT ![t] = "join"]
      /\ UNCHANGED <<phase, parent, isClosed, table, held, cpu, queue,
                     arg, next, waits, unwind, pending>>

\* Shutting down waits for the pools' threads to exit, after which the
\* TableProxies are destroyed.  An enclosing destructor then goes on
JoinPools(t) ==
  LET p == Head(unwind[t])
  IN  /\ pc[t] = "join"
      /\ t \in Clients /\ poolHeld = {} => \A i \in Instances : pc[i] = "idle"
      /\ table' = IF t \in Instances THEN table
                  ELSE [table EXCEPT ![p] = [i \in Instances |-> "none"]]
      /\ unwind' = [unwind EXCEPT ![t] = Tail(@)]
      /\ pc' = [pc EXCEPT ![t] = IF Tail(unwind[t]) = <<>> THEN "idle" ELSE "pools"]
      /\ UNCHANGED <<phase, parent, isClosed, held, poolHeld, cpu, queue,
                     arg, next, waits, pending>>

\* The CPU pool deletes the proxy_pools_ handed to it
CpuDelete(p) ==
  /\ p \in cpu
  /\ cpu' = cpu \ {p}
  /\ poolHeld' = poolHeld \ {p}
  /\ table' = [table EXCEPT ![p] = [i \in Instances |-> "none"]]
  /\ UNCHANGED <<phase, parent, isClosed, held, queue, threadVars>>

-----------------------------------------------------------------------------
ClientStarts(c) ==
  \/ StartMake(c)
  \/ \E p, q \in Proxies : StartSpawn(c, p, q)
  \/ \E p \in Proxies : Call(c, p) \/ StartClose(c, p) \/ ClientDrop(c, p)

ClientStep(c) ==
  \/ MakeSubmit(c)
  \/ MakeReturn(c)
  \/ \E i \in Instances, holds \in BOOLEAN : CallSubmit(c, i, holds)

WorkerStep(i) ==
  \/ OpenSucceeds(i) \/ OpenFails(i)
  \/ StartFunctor(i) \/ RejectTask(i) \/ EndFunctor(i)
  \/ StartCallback(i) \/ CallbackCheck(i) \/ CallbackReturn(i)
  \/ \E j \in Instances : CallbackSubmit(i, j)
  \/ CloseTask(i)
  \/ TeardownCallback(i)

DestroyStep(t) ==
  \/ CloseInline(t) \/ CloseSubmit(t) \/ CloseReturn(t)
  \/ ReleasePools(t) \/ DropDependencies(t) \/ DropPools(t) \/ JoinPools(t)

Next ==
  \/ \E c \in Clients : ClientStarts(c) \/ ClientStep(c)
  \/ \E i \in Instances : WorkerStep(i)
  \/ \E t \in Threads : DestroyStep(t)
  \/ \E p \in Proxies : CpuDelete(p)

Spec == Init /\ [][Next]_vars

(***************************************************************************)
(* What has begun goes on: threads are scheduled, functors return, and the *)
(* CPU pool runs what it is given.  No client has to start anything.       *)
(***************************************************************************)
Fairness ==
  /\ \A c \in Clients : WF_vars(ClientStep(c))
  /\ \A i \in Instances : WF_vars(WorkerStep(i))
  /\ \A t \in Threads : WF_vars(DestroyStep(t))
  /\ \A p \in Proxies : WF_vars(CpuDelete(p))

FairSpec == Spec /\ Fairness

-----------------------------------------------------------------------------
TypeOK ==
  /\ phase \in [Proxies -> Phases]
  /\ parent \in [Proxies -> Proxies \cup {NoProxy}]
  /\ isClosed \in [Proxies -> BOOLEAN]
  /\ table \in [Proxies -> [Instances -> TableStates]]
  /\ held \in [Proxies -> SUBSET Clients]
  /\ poolHeld \in SUBSET Proxies
  /\ cpu \in SUBSET Proxies
  /\ queue \in [Instances -> Seq(Tasks)]
  /\ pc \in [Threads -> PCs]
  /\ arg \in [Threads -> Proxies]
  /\ next \in [Threads -> 1..(NInstances + 1)]
  /\ waits \in [Threads -> SUBSET Instances]
  /\ unwind \in [Threads -> Seq(Proxies)]
  /\ pending \in [Clients -> SUBSET (0..NInstances)]

(***************************************************************************)
(* Tasks capture the proxy as a raw pointer, and no queue holds a          *)
(* reference for them.  No task outlives its proxy: the proxy a queued or  *)
(* running task dereferences has not entered its destructor, except for    *)
(* the close tasks the destructor itself waits for.                        *)
(***************************************************************************)
NoUseAfterFree ==
  \A i \in Instances : \A k \in DOMAIN queue[i] :
    LET task == queue[i][k]
    IN  CASE task.kind = "run" -> phase[task.proxy] = "live"
          [] task.kind = "open" ->
               /\ phase[task.proxy] = "making"
               /\ task.proxy # Root => phase[parent[task.proxy]] = "live"
          [] task.kind = "close" -> phase[task.proxy] \in {"live", "dying"}

(***************************************************************************)
(* Pools shut down by dropping their queue, leaving the futures of the     *)
(* tasks on it unfinished and their reservations in place.  By the time    *)
(* the last proxy lets go of the pools, on a client or on the CPU pool,    *)
(* nothing is queued.                                                      *)
(***************************************************************************)
NoDroppedTask == poolHeld = {} => \A i \in Instances : queue[i] = <<>>

(***************************************************************************)
(* While a functor runs its table stays open: no Close() and no destructor *)
(* on another thread nulls the table under it.                             *)
(***************************************************************************)
TableOpenWhileRunning ==
  \A i \in Instances :
    pc[i] = "run" => table[Head(queue[i]).proxy][i] \in {"open", "failed"}

(***************************************************************************)
(* A task queued ahead of the close of its table is served: the table is   *)
(* still open when its turn comes, although Close() on an isolation thread *)
(* closes inline, ahead of the queue.                                      *)
(***************************************************************************)
EarlyTasksServed ==
  \A i \in Instances : \A k \in DOMAIN queue[i] :
    LET task == queue[i][k]
    IN  task.kind = "run" /\ ~task.afterClose =>
          table[task.proxy][i] \in {"open", "failed"}

(***************************************************************************)
(* is_closed_ is only set once no instance's table is open, whichever of   *)
(* several concurrent Close() calls and the destructor sets it; a proxy    *)
(* past its destructor is closed.                                          *)
(***************************************************************************)
ClosedMeansClosed ==
  \A p \in Proxies :
    /\ phase[p] \in {"live", "dying"} /\ isClosed[p] =>
         \A i \in Instances : table[p][i] # "open"
    /\ phase[p] = "dead" => \A i \in Instances : table[p][i] # "open"

(***************************************************************************)
(* A table that is open is closed by close(), on its isolation thread: it  *)
(* is never destroyed still open on the thread that destroys the           *)
(* TableProxy.  Only a proxy whose Make() or Spawn() failed is exempt.     *)
(***************************************************************************)
NoOpenTableDestroyed ==
  [][\A p \in Proxies, i \in Instances :
       table[p][i] = "open" /\ table'[p][i] = "none" => phase[p] = "aborted"]_vars

(***************************************************************************)
(* Every call returns, whatever the other clients close or drop meanwhile. *)
(***************************************************************************)
CallsReturn == \A c \in Clients : pc[c] = "wait" ~> pc[c] = "idle"

(***************************************************************************)
(* A thread that starts closing or destroying a proxy gets through it,     *)
(* even if it is one of the isolation threads the close has to run on.     *)
(***************************************************************************)
CloseReturns == \A t \in Threads : pc[t] = "close" ~> pc[t] # "close"

(***************************************************************************)
(* Once the last reference to the last proxy is gone, on any thread, its   *)
(* pools are eventually destroyed, by that thread or by the CPU pool.      *)
(***************************************************************************)
PoolsReclaimed ==
  (\A p \in Proxies : phase[p] \in {"none", "dead", "aborted"}) ~>
    (phase[Root] = "none" \/ poolHeld = {})
=============================================================================

-------------------------------- MODULE Dispatch --------------------------------
(***************************************************************************)
(* How IsolatedTableProxy places tasks on its instances.  Dispatch() loads *)
(* the outstanding cost of each instance in turn, chooses the least, and   *)
(* only then reserves the task's cost there; TaskScope releases it on the  *)
(* isolation thread when the task completes.  Nothing is locked: other     *)
(* threads reserve and release between any two of these steps.             *)
(*                                                                         *)
(* Tasks are dispatched by clients, by a running task (whose own cost is   *)
(* discounted) and by the continuation of a completed task.                *)
(***************************************************************************)
EXTENDS Integers, Sequences, FiniteSetsExt, SequencesExt

CONSTANTS
  Clients,      \* client threads
  NInstances,   \* instances, each with its isolation thread and InstanceStats
  Costs,        \* estimated bytes of a task
  MaxTasks      \* bound on the tasks dispatched in a behaviour

Instances == 1..NInstances
Threads == Clients \cup Instances

ASSUME DispatchAssumption ==
  /\ NInstances \in Nat \ {0} /\ MaxTasks \in Nat
  /\ Costs \subseteq Nat \ {0} /\ IsFiniteSet(Costs)
  /\ Clients \cap Instances = {}

NoTask == 0

VARIABLES
  outstanding,  \* outstanding_cost of each instance
  submitted,    \* tasks submitted to it
  completed,    \* tasks it completed
  queue,        \* costs of the tasks queued on its pool
  current,      \* current_task of its thread: the running task's cost or NoTask
  pc,           \* idle, load, reserve, submit; an isolation thread also runs a
                \* task (run) or its continuation (then)
  back,         \* where a dispatching thread goes once the task is submitted
  cost,         \* cost of the task being dispatched
  at,           \* next instance whose load is read
  choice,       \* instance chosen so far
  least,        \* its load
  drift         \* costs others reserved or released while the thread chose

vars == <<outstanding, submitted, completed, queue, current, pc, back, cost, at,
          choice, least, drift>>

Init ==
  /\ outstanding = [i \in Instances |-> 0]
  /\ submitted = [i \in Instances |-> 0]
  /\ completed = [i \in Instances |-> 0]
  /\ queue = [i \in Instances |-> <<>>]
  /\ current = [i \in Instances |-> NoTask]
  /\ pc = [t \in Threads |-> "idle"]
  /\ back = [t \in Threads |-> "idle"]
  /\ cost = [t \in Threads |-> NoTask]
  /\ at = [t \in Threads |-> 1]
  /\ choice = [t \in Threads |-> 1]
  /\ least = [t \in Threads |-> 0]
  /\ drift = [t \in Threads |-> 0]

-----------------------------------------------------------------------------
Choosing(t) == pc[t] \in {"load", "reserve"}

\* Tasks dispatched so far, those being dispatched included
Dispatched ==
  MapThenSumSet(LAMBDA i : submitted[i], Instances)
    + Cardinality({t \in Threads : Choosing(t)})

\* The load of instance i as thread t sees it.  A task dispatching from its
\* isolation thread is about to complete, so its own cost is discounted
Load(t, i) == outstanding[i] - (IF t = i THEN current[i] ELSE NoTask)

\* Where the loop over the instances starts
ZeroBased == 0
FirstInstance == 1

\* RunAsync() reaches Dispatch(): from a client, a functor or a continuation
Begin(t, n) ==
  /\ pc[t] \in (IF t \in Clients THEN {"idle"} ELSE {"run", "then"})
  /\ Dispatched < MaxTasks
  /\ pc' = [pc EXCEPT ![t] = "load"]
  /\ back' = [back EXCEPT ![t] = pc[t]]
  /\ cost' = [cost EXCEPT ![t] = n]
  /\ at' = [at EXCEPT ![t] = FirstInstance]
  /\ choice' = [choice EXCEPT ![t] = 1]
  /\ least' = [least EXCEPT ![t] = 0]
  /\ drift' = [drift EXCEPT ![t] = 0]
  /\ UNCHANGED <<outstanding, submitted, completed, queue, current>>

\* Ties keep the lower numbered instance.  least starts as the largest int64_t,
\* which no load reaches, so the first load is always taken
TiesGoLast(t) == at[t] = 1 \/ Load(t, at[t]) <= least[t]
LessLoaded(t) == at[t] = 1 \/ Load(t, at[t]) < least[t]

\* One iteration
LoadNext(t) ==
  /\ pc[t] = "load"
  /\ IF LessLoaded(t)
     THEN /\ choice' = [choice EXCEPT ![t] = at[t]]
          /\ least' = [least EXCEPT ![t] = Load(t, at[t])]
     ELSE UNCHANGED <<choice, least>>
  /\ at' = [at EXCEPT ![t] = @ + 1]
  /\ pc' = [pc EXCEPT ![t] = IF at[t] = NInstances THEN "reserve" ELSE "load"]
  /\ UNCHANGED <<outstanding, submitted, completed, queue, current, back, cost, drift>>

\* Thread t reserves or releases n: for everyone else who is choosing now, the
\* loads already read are off by as much
Drift(t, n) ==
  drift' = [u \in Threads |-> IF u # t /\ Choosing(u) THEN drift[u] + n ELSE drift[u]]

Reserve(t) ==
  /\ pc[t] = "reserve"
  /\ outstanding' = [outstanding EXCEPT ![choice[t]] = @ + cost[t]]
  /\ submitted' = [submitted EXCEPT ![choice[t]] = @ + 1]
  /\ pc' = [pc EXCEPT ![t] = "submit"]
  /\ Drift(t, cost[t])
  /\ UNCHANGED <<completed, queue, current, back, cost, at, choice, least>>

\* RunInPool() queues the task on the chosen instance's pool
Submit(t) ==
  /\ pc[t] = "submit"
  /\ queue' = [queue EXCEPT ![choice[t]] = Append(@, cost[t])]
  /\ pc' = [pc EXCEPT ![t] = back[t]]
  /\ UNCHANGED <<outstanding, submitted, completed, current, back, cost, at,
                 choice, least, drift>>

\* TaskScope(): the task starts running on its isolation thread
EnterTask(i) ==
  /\ pc[i] = "idle" /\ queue[i] # <<>>
  /\ current' = [current EXCEPT ![i] = Head(queue[i])]
  /\ queue' = [queue EXCEPT ![i] = Tail(@)]
  /\ pc' = [pc EXCEPT ![i] = "run"]
  /\ UNCHANGED <<outstanding, submitted, completed, back, cost, at, choice, least, drift>>

\* What ~TaskScope() releases, and what it leaves as the thread's current task
ReleasesNothing(i) == NoTask
Released(i) == current[i]
KeepsRunning(i) == current[i]
AfterTask(i) == NoTask

\* ~TaskScope(): the reservation is released before the future completes and
\* its continuation runs
LeaveTask(i) ==
  /\ pc[i] = "run"
  /\ current' = [current EXCEPT ![i] = AfterTask(i)]
  /\ outstanding' = [outstanding EXCEPT ![i] = @ - Released(i)]
  /\ completed' = [completed EXCEPT ![i] = @ + 1]
  /\ pc' = [pc EXCEPT ![i] = "then"]
  /\ Drift(i, Released(i))
  /\ UNCHANGED <<submitted, queue, back, cost, at, choice, least>>

EndContinuation(i) ==
  /\ pc[i] = "then"
  /\ pc' = [pc EXCEPT ![i] = "idle"]
  /\ UNCHANGED <<outstanding, submitted, completed, queue, current, back, cost,
                 at, choice, least, drift>>

Step(t) == LoadNext(t) \/ Reserve(t) \/ Submit(t)

Work(i) == EnterTask(i) \/ LeaveTask(i) \/ EndContinuation(i)

Next ==
  \/ \E t \in Threads : Step(t) \/ \E n \in Costs : Begin(t, n)
  \/ \E i \in Instances : Work(i)

Spec == Init /\ [][Next]_vars

\* Threads are scheduled and functors return; nobody has to dispatch anything
FairSpec ==
  /\ Spec
  /\ \A t \in Threads : WF_vars(Step(t))
  /\ \A i \in Instances : WF_vars(Work(i))

-----------------------------------------------------------------------------
TypeOK ==
  /\ outstanding \in [Instances -> Int]
  /\ submitted \in [Instances -> Nat]
  /\ completed \in [Instances -> Nat]
  /\ queue \in [Instances -> Seq(Costs)]
  /\ current \in [Instances -> Costs \cup {NoTask}]
  /\ pc \in [Threads -> {"idle", "load", "reserve", "submit", "run", "then"}]
  /\ back \in [Threads -> {"idle", "run", "then"}]
  /\ cost \in [Threads -> Costs \cup {NoTask}]
  /\ at \in [Threads -> 1..(NInstances + 1)]
  /\ choice \in [Threads -> Instances]
  /\ least \in [Threads -> Int]
  /\ drift \in [Threads -> Nat]

\* Costs of the tasks reserved on i: not yet submitted, queued and running
ReservedOn(i) ==
  MapThenSumSet(LAMBDA t : cost[t],
                {t \in Threads : pc[t] = "submit" /\ choice[t] = i})
    + FoldSeq(LAMBDA x, y : x + y, 0, queue[i]) + current[i]

(***************************************************************************)
(* The load Dispatch() compares is the work really ahead on the instance:  *)
(* no interleaving of reservations and releases loses or leaks a cost, so  *)
(* an idle instance shows none.                                            *)
(***************************************************************************)
LoadIsOutstandingWork == \A i \in Instances : outstanding[i] = ReservedOn(i)

(***************************************************************************)
(* No thread ever sees a negative load, the discount of the running task   *)
(* included: a task's cost is never both released and discounted.          *)
(***************************************************************************)
NoNegativeLoad ==
  \A t \in Threads, i \in Instances : Load(t, i) >= 0 /\ least[t] >= 0

(***************************************************************************)
(* The instance chosen has the least load, give or take what other threads *)
(* reserved and released since the loads were read; if they did neither it *)
(* is the lowest numbered of the least loaded.                             *)
(***************************************************************************)
ChoosesLeastLoaded ==
  \A t \in Threads :
    pc[t] = "reserve" =>
      \A i \in Instances :
        /\ Load(t, choice[t]) <= Load(t, i) + drift[t]
        /\ drift[t] = 0 /\ Load(t, choice[t]) = Load(t, i) => choice[t] <= i

(***************************************************************************)
(* Every reservation is eventually released once no more work arrives: the *)
(* loads of an idle proxy return to zero.                                  *)
(***************************************************************************)
LoadsReturnToZero == <>[](\A i \in Instances : outstanding[i] = 0)
=============================================================================

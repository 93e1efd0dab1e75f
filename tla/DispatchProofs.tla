------------------------------ MODULE DispatchProofs ------------------------------
(***************************************************************************)
(* Proofs about the placement of tasks, for any number of clients and      *)
(* instances, any costs and any bound on the tasks.                        *)
(*                                                                         *)
(* ChoosesLeastLoaded speaks of a thread that has read every load, so it   *)
(* is proved from what is true in the middle of the loop of Dispatch().    *)
(* LoadIsOutstandingWork is an account, kept by adding and moving costs:   *)
(* its proof rests on the laws of sums, which are proved first.            *)
(***************************************************************************)
EXTENDS Dispatch, FiniteSetTheorems, WellFoundedInduction, TLAPS

(***************************************************************************)
(* The loop invariant of Dispatch() on thread t: of the instances already  *)
(* read the chosen one is the least loaded, up to what other threads have  *)
(* reserved and released since.  Both the recorded and the present load of *)
(* the chosen instance are related to the others', because the next one    *)
(* read is compared with the recorded load.                                *)
(***************************************************************************)
LoopInv(t) ==
  \A i \in 1..(at[t] - 1) :
    /\ choice[t] < at[t]
    /\ Load(t, choice[t]) <= least[t] + drift[t]
    /\ least[t] <= Load(t, i) + drift[t]
    /\ Load(t, choice[t]) <= Load(t, i) + drift[t]
    /\ drift[t] = 0 => Load(t, choice[t]) = least[t]
    /\ drift[t] = 0 /\ Load(t, choice[t]) = Load(t, i) => choice[t] <= i

\* Where the loop is, and that a thread dispatching has a task to dispatch
ControlInv ==
  /\ \A t \in Threads : pc[t] = "load" => at[t] \in Instances
  /\ \A t \in Threads : pc[t] = "reserve" => at[t] = NInstances + 1
  /\ \A t \in Threads : pc[t] \in {"load", "reserve", "submit"} => cost[t] \in Costs

\* The inductive invariant
PlacementInv ==
  /\ TypeOK
  /\ ControlInv
  /\ \A t \in Threads : Choosing(t) => LoopInv(t)

-----------------------------------------------------------------------------
\* Ranges of the constants, and of the loop's counter
LEMMA Ranges ==
  /\ NInstances \in Nat \ {0}
  /\ Instances \subseteq Threads
  /\ Instances \subseteq Nat
  /\ \A i \in Instances : i >= 1
  /\ Costs \cup {NoTask} \subseteq Nat
  BY DispatchAssumption DEF DispatchAssumption, Instances, Threads, NoTask

\* The counter of the loop stays within one of the last instance
LEMMA NextInRange ==
  ASSUME NEW k \in Instances PROVE k + 1 \in 1..(NInstances + 1)
  BY DispatchAssumption DEF DispatchAssumption, Instances

\* ... and names an instance unless the loop is over
LEMMA NextIsInstance ==
  ASSUME NEW k \in Instances, k # NInstances PROVE k + 1 \in Instances
  BY DispatchAssumption DEF DispatchAssumption, Instances

\* Loads are integers, in this state and in the next one
LEMMA LoadType == TypeOK => \A t \in Threads, i \in Instances : Load(t, i) \in Int
<1> SUFFICES ASSUME TypeOK, NEW t \in Threads, NEW i \in Instances
             PROVE  Load(t, i) \in Int
  OBVIOUS
<1>1. outstanding[i] \in Int /\ current[i] \in Nat
  BY Ranges DEF TypeOK
<1> QED
  BY <1>1 DEF Load, NoTask

\* The same of the next state
LEMMA LoadTypeNext == TypeOK' => \A t \in Threads, i \in Instances : Load(t, i)' \in Int
<1> SUFFICES ASSUME TypeOK', NEW t \in Threads, NEW i \in Instances
             PROVE  Load(t, i)' \in Int
  OBVIOUS
<1>1. outstanding'[i] \in Int /\ current'[i] \in Nat
  BY Ranges DEF TypeOK
<1> QED
  BY <1>1 DEF Load, NoTask

\* Whatever precedes the counter is an instance
LEMMA Below ==
  ASSUME NEW m \in 1..(NInstances + 1), NEW i \in 1..(m - 1) PROVE i \in Instances
  BY DispatchAssumption DEF DispatchAssumption, Instances

\* Every step keeps the types
LEMMA TypeStep ==
  ASSUME TypeOK, ControlInv, [Next]_vars PROVE TypeOK'
<1>1. ASSUME NEW t \in Threads, NEW n \in Costs, Begin(t, n) PROVE TypeOK'
  <2> USE <1>1 DEF TypeOK, Begin, FirstInstance
  <2>1. pc' \in [Threads -> {"idle", "load", "reserve", "submit", "run", "then"}]
    OBVIOUS
  <2>2. back' \in [Threads -> {"idle", "run", "then"}]
    OBVIOUS
  <2>3. cost' \in [Threads -> Costs \cup {NoTask}]
    OBVIOUS
  <2>4. at' \in [Threads -> 1..(NInstances + 1)]
    BY Ranges
  <2>5. choice' \in [Threads -> Instances]
    BY Ranges DEF Instances
  <2>6. least' \in [Threads -> Int] /\ drift' \in [Threads -> Nat]
    OBVIOUS
  <2> QED
    BY <2>1, <2>2, <2>3, <2>4, <2>5, <2>6
<1>2. ASSUME NEW t \in Threads, LoadNext(t) PROVE TypeOK'
  <2> USE <1>2 DEF TypeOK, LoadNext, LessLoaded
  <2>1. pc' \in [Threads -> {"idle", "load", "reserve", "submit", "run", "then"}]
    OBVIOUS
  <2>2. at[t] \in Instances
    BY DEF ControlInv
  <2>3. at' \in [Threads -> 1..(NInstances + 1)]
    BY <2>2, NextInRange
  <2>4. choice' \in [Threads -> Instances]
    BY <2>2
  <2>5. least' \in [Threads -> Int]
    <3>1. Load(t, at[t]) \in Int
      BY <2>2, LoadType
    <3> QED
      BY <3>1
  <2> QED
    BY <2>1, <2>3, <2>4, <2>5
<1>3. ASSUME NEW t \in Threads, Reserve(t) PROVE TypeOK'
  <2> USE <1>3 DEF TypeOK, Reserve
  <2>1. cost[t] \in Nat
    BY Ranges
  <2>2. pc' \in [Threads -> {"idle", "load", "reserve", "submit", "run", "then"}]
    OBVIOUS
  <2>3. outstanding' \in [Instances -> Int] /\ submitted' \in [Instances -> Nat]
    BY <2>1
  <2>4. drift' \in [Threads -> Nat]
    BY <2>1 DEF Drift
  <2> QED
    BY <2>2, <2>3, <2>4
<1>4. ASSUME NEW t \in Threads, Submit(t) PROVE TypeOK'
  <2> USE <1>4 DEF TypeOK, Submit
  <2>1. pc' \in [Threads -> {"idle", "load", "reserve", "submit", "run", "then"}]
    OBVIOUS
  <2>2. queue' \in [Instances -> Seq(Costs)]
    BY DEF ControlInv
  <2> QED
    BY <2>1, <2>2
<1>5. ASSUME NEW i \in Instances, EnterTask(i) PROVE TypeOK'
  <2> USE <1>5 DEF TypeOK, EnterTask
  <2>1. pc' \in [Threads -> {"idle", "load", "reserve", "submit", "run", "then"}]
    BY Ranges
  <2>2. queue[i] \in Seq(Costs) /\ queue[i] # <<>>
    OBVIOUS
  <2>3. Head(queue[i]) \in Costs /\ Tail(queue[i]) \in Seq(Costs)
    BY <2>2
  <2>4. queue' \in [Instances -> Seq(Costs)]
    BY <2>3
  <2>5. current' \in [Instances -> Costs \cup {NoTask}]
    BY <2>3
  <2> QED
    BY <2>1, <2>4, <2>5
<1>6. ASSUME NEW i \in Instances, LeaveTask(i) PROVE TypeOK'
  <2> USE <1>6 DEF TypeOK, LeaveTask, Released, AfterTask
  <2>1. current[i] \in Nat
    BY Ranges
  <2>2. pc' \in [Threads -> {"idle", "load", "reserve", "submit", "run", "then"}]
    BY Ranges
  <2>3. outstanding' \in [Instances -> Int] /\ completed' \in [Instances -> Nat]
    BY <2>1
  <2>4. current' \in [Instances -> Costs \cup {NoTask}]
    OBVIOUS
  <2>5. drift' \in [Threads -> Nat]
    BY <2>1 DEF Drift
  <2> QED
    BY <2>2, <2>3, <2>4, <2>5
<1>7. ASSUME NEW i \in Instances, EndContinuation(i) PROVE TypeOK'
  BY <1>7, Ranges DEF TypeOK, EndContinuation
<1>8. CASE UNCHANGED vars
  BY <1>8 DEF TypeOK, vars
<1> QED
  BY <1>1, <1>2, <1>3, <1>4, <1>5, <1>6, <1>7, <1>8 DEF Next, Step, Work

\* Every step keeps the loop's counter and the program counter in step
LEMMA ControlStep ==
  ASSUME TypeOK, ControlInv, [Next]_vars PROVE ControlInv'
<1> USE DEF TypeOK, ControlInv
<1>1. ASSUME NEW t \in Threads, NEW n \in Costs, Begin(t, n) PROVE ControlInv'
  <2>1. 1 \in Instances
    BY Ranges DEF Instances
  <2> QED
    BY <1>1, <2>1 DEF Begin, FirstInstance
<1>2. ASSUME NEW t \in Threads, LoadNext(t) PROVE ControlInv'
  <2>1. at[t] \in Instances
    BY <1>2 DEF LoadNext, LessLoaded
  <2>2. at[t] # NInstances => at[t] + 1 \in Instances
    BY <2>1, NextIsInstance
  <2>3. ASSUME NEW u \in Threads, pc'[u] = "load" PROVE at'[u] \in Instances
    BY <1>2, <2>1, <2>2, <2>3 DEF LoadNext, LessLoaded
  <2>4. ASSUME NEW u \in Threads, pc'[u] = "reserve" PROVE at'[u] = NInstances + 1
    BY <1>2, <2>1, <2>4 DEF LoadNext, LessLoaded
  <2>5. ASSUME NEW u \in Threads, pc'[u] \in {"load", "reserve", "submit"}
        PROVE  cost'[u] \in Costs
    BY <1>2, <2>5 DEF LoadNext, LessLoaded
  <2> QED
    BY <2>3, <2>4, <2>5
<1>3. ASSUME NEW t \in Threads, Reserve(t) PROVE ControlInv'
  BY <1>3 DEF Reserve
<1>4. ASSUME NEW t \in Threads, Submit(t) PROVE ControlInv'
  BY <1>4 DEF Submit
<1>5. ASSUME NEW i \in Instances, EnterTask(i) PROVE ControlInv'
  BY <1>5, Ranges DEF EnterTask
<1>6. ASSUME NEW i \in Instances, LeaveTask(i) PROVE ControlInv'
  BY <1>6, Ranges DEF LeaveTask, Released, AfterTask
<1>7. ASSUME NEW i \in Instances, EndContinuation(i) PROVE ControlInv'
  BY <1>7, Ranges DEF EndContinuation
<1>8. CASE UNCHANGED vars
  BY <1>8 DEF vars
<1> QED
  BY <1>1, <1>2, <1>3, <1>4, <1>5, <1>6, <1>7, <1>8 DEF Next, Step, Work

\* Another thread reserves or releases n on instance k: the loop invariant of
\* thread u holds with the drift grown by n
LEMMA LoopDrift ==
  ASSUME TypeOK, TypeOK', NEW u \in Threads, LoopInv(u),
         UNCHANGED <<at[u], choice[u], least[u]>>,
         NEW n \in Nat, NEW k \in Instances,
         drift'[u] = drift[u] + n,
         u \in Instances => current'[u] = current[u],
         \A i \in Instances \ {k} : outstanding'[i] = outstanding[i],
         outstanding'[k] \in {outstanding[k] - n, outstanding[k] + n}
  PROVE  LoopInv(u)'
<1> DEFINE c == choice[u]
           L(i) == outstanding[i] - (IF u = i THEN current[i] ELSE 0)
           M(i) == outstanding'[i] - (IF u = i THEN current'[i] ELSE 0)
<1>1. \A i \in 1..(at[u] - 1) : i \in Instances
  BY Below DEF TypeOK
<1>2. /\ c \in Instances /\ c \in Nat /\ least[u] \in Int /\ drift[u] \in Nat
      /\ choice'[u] = c /\ least'[u] = least[u] /\ at'[u] = at[u]
  BY Ranges DEF TypeOK
<1>3. \A i \in Instances : L(i) \in Int /\ M(i) \in Int
  BY LoadType, LoadTypeNext DEF Load, NoTask
<1>4. /\ \A i \in Instances \ {k} : M(i) = L(i)
      /\ M(k) \in {L(k) - n, L(k) + n}
  <2>1. \A i \in Instances : outstanding[i] \in Int /\ outstanding'[i] \in Int
    BY DEF TypeOK
  <2>2. \A i \in Instances : current[i] \in Nat /\ current'[i] \in Nat
    BY Ranges DEF TypeOK
  <2>3. \A i \in Instances \ {k} : M(i) = L(i)
    OBVIOUS
  <2>4. M(k) \in {L(k) - n, L(k) + n}
    BY <2>1, <2>2
  <2> QED
    BY <2>3, <2>4
<1>5. ASSUME NEW i \in 1..(at[u] - 1)
      PROVE  /\ c < at[u]
             /\ L(c) <= least[u] + drift[u]
             /\ least[u] <= L(i) + drift[u]
             /\ L(c) <= L(i) + drift[u]
             /\ drift[u] = 0 => L(c) = least[u]
             /\ drift[u] = 0 /\ L(c) = L(i) => c <= i
  BY DEF LoopInv, Load, NoTask
<1> HIDE DEF c, L, M
<1>6. ASSUME NEW i \in 1..(at[u] - 1)
      PROVE  /\ c < at[u]
             /\ M(c) <= least[u] + drift'[u]
             /\ least[u] <= M(i) + drift'[u]
             /\ M(c) <= M(i) + drift'[u]
             /\ drift'[u] = 0 => M(c) = least[u]
             /\ drift'[u] = 0 /\ M(c) = M(i) => c <= i
  <2>1. i \in Instances
    BY <1>1
  <2>2. \/ M(c) = L(c) /\ M(i) = L(i)
        \/ M(c) = L(c) /\ M(i) \in {L(i) - n, L(i) + n}
        \/ M(i) = L(i) /\ M(c) \in {L(c) - n, L(c) + n}
        \/ L(c) = L(i) /\ M(c) = M(i) /\ M(c) \in {L(c) - n, L(c) + n}
    BY <1>2, <1>4, <2>1
  <2>3. /\ M(c) <= least[u] + (drift[u] + n)
        /\ least[u] <= M(i) + (drift[u] + n)
        /\ M(c) <= M(i) + (drift[u] + n)
        /\ drift[u] + n = 0 => /\ M(c) = least[u] /\ M(c) = L(c) /\ M(i) = L(i)
                               /\ drift[u] = 0
    <3>1. /\ L(c) <= least[u] + drift[u] /\ least[u] <= L(i) + drift[u]
          /\ L(c) <= L(i) + drift[u] /\ (drift[u] = 0 => L(c) = least[u])
      BY <1>5
    <3>2. /\ L(c) \in Int /\ M(c) \in Int /\ L(i) \in Int /\ M(i) \in Int
          /\ least[u] \in Int /\ drift[u] \in Nat
      BY <1>2, <1>3, <2>1
    <3> DEFINE x == L(c)
               y == L(i)
               x1 == M(c)
               y1 == M(i)
               l == least[u]
               d == drift[u]
    <3>3. /\ x \in Int /\ x1 \in Int /\ y \in Int /\ y1 \in Int /\ l \in Int /\ d \in Nat
          /\ x <= l + d /\ l <= y + d /\ x <= y + d /\ (d = 0 => x = l)
      BY <3>1, <3>2
    <3>4. \/ x1 = x /\ y1 = y
          \/ x1 = x /\ y1 \in {y - n, y + n}
          \/ y1 = y /\ x1 \in {x - n, x + n}
          \/ x = y /\ x1 = y1 /\ x1 \in {x - n, x + n}
      BY <2>2
    <3> HIDE DEF x, y, x1, y1, l, d
    <3>5. /\ x1 <= l + (d + n) /\ l <= y1 + (d + n) /\ x1 <= y1 + (d + n)
          /\ d + n = 0 => x1 = l /\ x1 = x /\ y1 = y /\ d = 0
      BY <3>3, <3>4
    <3> QED
      BY <3>5 DEF x, y, x1, y1, l, d
  <2> QED
    BY <1>5, <2>3
<1> QED
  BY <1>2, <1>6 DEF LoopInv, Load, NoTask, c, M

\* One iteration of thread t's own loop keeps its loop invariant
LEMMA LoopRead ==
  ASSUME TypeOK, ControlInv, TypeOK', NEW t \in Threads, LoopInv(t), LoadNext(t)
  PROVE  LoopInv(t)'
<1> DEFINE a == at[t]
           c == choice[t]
           d == drift[t]
           l == least[t]
           L(i) == Load(t, i)
<1>1. /\ a \in Instances /\ a \in Nat /\ a >= 1
      /\ c \in Instances /\ c \in Nat /\ l \in Int /\ d \in Nat
  BY Ranges DEF TypeOK, ControlInv, LoadNext, LessLoaded
<1>2. /\ at'[t] = a + 1 /\ drift'[t] = d
      /\ IF a = 1 \/ L(a) < l THEN choice'[t] = a /\ least'[t] = L(a)
                              ELSE choice'[t] = c /\ least'[t] = l
  BY DEF LoadNext, LessLoaded, TypeOK
<1>3. \A i \in 1..a : i \in Instances /\ i \in Nat /\ L(i) \in Int
  <2>1. a + 1 \in 1..(NInstances + 1)
    BY <1>1, NextInRange
  <2>2. \A i \in 1..((a + 1) - 1) : i \in Instances
    BY <2>1, Below
  <2>3. (a + 1) - 1 = a
    BY <1>1
  <2> QED
    BY <2>2, <2>3, LoadType, Ranges
<1>4. \A i \in 1..(a - 1) :
        /\ c < a
        /\ L(c) <= l + d /\ l <= L(i) + d /\ L(c) <= L(i) + d
        /\ d = 0 => L(c) = l
        /\ d = 0 /\ L(c) = L(i) => c <= i
  BY DEF LoopInv
<1>5. L(c) \in Int /\ L(a) \in Int
  BY <1>1, LoadType
<1> HIDE DEF a, c, d, l, L
<1>6. ASSUME NEW i \in 1..a, a = 1 \/ L(a) < l
      PROVE  /\ L(a) <= L(a) + d /\ L(a) <= L(i) + d
             /\ d = 0 /\ L(a) = L(i) => a <= i
  <2>1. CASE i = a
    BY <1>1, <1>5, <2>1
  <2>2. CASE i # a
    <3> DEFINE x == L(a)
               y == L(i)
    <3>1. i \in 1..(a - 1) /\ a # 1 /\ L(i) \in Int
      BY <1>1, <1>3, <2>2
    <3>2. x \in Int /\ y \in Int /\ x < l /\ l <= y + d
      BY <1>4, <1>5, <1>6, <3>1
    <3> HIDE DEF x, y
    <3>3. x <= x + d /\ x <= y + d /\ ~(d = 0 /\ x = y)
      BY <1>1, <3>2
    <3> QED
      BY <3>3 DEF x, y
  <2> QED
    BY <2>1, <2>2
<1>7. ASSUME NEW i \in 1..a, ~ (a = 1 \/ L(a) < l)
      PROVE  /\ c < a
             /\ L(c) <= l + d /\ l <= L(i) + d /\ L(c) <= L(i) + d
             /\ d = 0 => L(c) = l
             /\ d = 0 /\ L(c) = L(i) => c <= i
  <2>1. 1 \in 1..(a - 1)
    BY <1>1, <1>7
  <2>2. c < a /\ L(c) <= l + d /\ (d = 0 => L(c) = l)
    BY <1>4, <2>1
  <2>3. CASE i # a
    <3>1. i \in 1..(a - 1)
      BY <1>1, <2>3
    <3> QED
      BY <1>4, <3>1
  <2>4. CASE i = a
    <3> DEFINE x == L(c)
               y == L(a)
    <3>1. x \in Int /\ y \in Int /\ ~(y < l) /\ x <= l + d /\ (d = 0 => x = l)
      BY <1>5, <1>7, <2>2
    <3> HIDE DEF x, y
    <3>2. x <= l + d /\ l <= y + d /\ x <= y + d
      BY <1>1, <3>1
    <3>3. c <= a
      BY <1>1, <2>2
    <3> QED
      BY <2>2, <2>4, <3>2, <3>3 DEF x, y
  <2> QED
    BY <2>3, <2>4
<1>8. outstanding' = outstanding /\ current' = current
  BY DEF LoadNext, LessLoaded
<1>9. 1..(at'[t] - 1) = 1..a
  BY <1>1, <1>2
<1>10. \A i : Load(t, i)' = L(i)
  BY <1>8 DEF Load, L
<1>11. ASSUME NEW i \in 1..a
       PROVE  /\ choice'[t] < at'[t]
              /\ L(choice'[t]) <= least'[t] + d
              /\ least'[t] <= L(i) + d
              /\ L(choice'[t]) <= L(i) + d
              /\ d = 0 => L(choice'[t]) = least'[t]
              /\ d = 0 /\ L(choice'[t]) = L(i) => choice'[t] <= i
  <2>1. CASE a = 1 \/ L(a) < l
    <3>1. a < a + 1
      BY <1>1
    <3> QED
      BY <1>2, <1>6, <2>1, <3>1
  <2>2. CASE ~ (a = 1 \/ L(a) < l)
    <3>1. c < a + 1
      BY <1>1, <1>7, <2>2
    <3> QED
      BY <1>2, <1>7, <2>2, <3>1
  <2> QED
    BY <2>1, <2>2
<1> QED
  BY <1>2, <1>8, <1>9, <1>11 DEF LoopInv, Load, L

\* Every step keeps the loop invariant of every thread that is choosing
LEMMA LoopStep ==
  ASSUME PlacementInv, [Next]_vars, TypeOK', NEW u \in Threads, Choosing(u)'
  PROVE  LoopInv(u)'
<1> USE DEF PlacementInv
<1>1. ASSUME UNCHANGED <<at[u], choice[u], least[u], drift[u], outstanding, pc[u]>>,
             u \in Instances => current'[u] = current[u]
      PROVE  LoopInv(u)'
  <2>1. Choosing(u) /\ LoopInv(u)
    BY <1>1 DEF Choosing
  <2>2. drift'[u] = drift[u] + 0
    BY <1>1 DEF TypeOK
  <2>3. 1 \in Instances /\ outstanding'[1] \in {outstanding[1] - 0, outstanding[1] + 0}
    BY <1>1, Ranges DEF TypeOK, Instances
  <2> QED
    BY <1>1, <2>1, <2>2, <2>3, LoopDrift
<1>2. ASSUME NEW t \in Threads, NEW n \in Costs, Begin(t, n) PROVE LoopInv(u)'
  <2>1. CASE t = u
    <3>1. at'[u] = 1
      BY <1>2, <2>1 DEF Begin, FirstInstance, TypeOK
    <3> QED
      BY <3>1 DEF LoopInv
  <2>2. CASE t # u
    BY <1>1, <1>2, <2>2 DEF Begin, FirstInstance, TypeOK
  <2> QED
    BY <2>1, <2>2
<1>3. ASSUME NEW t \in Threads, LoadNext(t) PROVE LoopInv(u)'
  <2>1. CASE t = u
    BY <1>3, <2>1, LoopRead DEF LoadNext, LessLoaded, Choosing
  <2>2. CASE t # u
    <3>1. choice'[u] = choice[u] /\ least'[u] = least[u]
      <4> DEFINE better == at[t] = 1 \/ Load(t, at[t]) < least[t]
      <4>1. CASE better
        <5>1. /\ choice' = [choice EXCEPT ![t] = at[t]]
              /\ least' = [least EXCEPT ![t] = Load(t, at[t])]
          BY <1>3, <4>1 DEF LoadNext, LessLoaded
        <5> QED
          BY <2>2, <5>1 DEF TypeOK
      <4>2. CASE ~ better
        BY <1>3, <4>2 DEF LoadNext, LessLoaded
      <4> QED
        BY <4>1, <4>2
    <3>2. at'[u] = at[u] /\ pc'[u] = pc[u] /\ drift'[u] = drift[u]
      BY <1>3, <2>2 DEF LoadNext, LessLoaded, TypeOK
    <3>3. outstanding' = outstanding /\ current' = current
      BY <1>3 DEF LoadNext, LessLoaded
    <3> QED
      BY <1>1, <3>1, <3>2, <3>3
  <2> QED
    BY <2>1, <2>2
<1>4. ASSUME NEW t \in Threads, Reserve(t) PROVE LoopInv(u)'
  <2>1. t # u /\ Choosing(u) /\ LoopInv(u)
    BY <1>4 DEF Reserve, Choosing, TypeOK
  <2>2. choice[t] \in Instances /\ cost[t] \in Nat
    BY Ranges DEF TypeOK
  <2>3. drift'[u] = drift[u] + cost[t]
    BY <1>4, <2>1 DEF Reserve, Drift
  <2>4. /\ \A i \in Instances \ {choice[t]} : outstanding'[i] = outstanding[i]
        /\ outstanding'[choice[t]] = outstanding[choice[t]] + cost[t]
    BY <1>4, <2>2 DEF Reserve, TypeOK
  <2>5. UNCHANGED <<at[u], choice[u], least[u]>> /\ current' = current
    BY <1>4 DEF Reserve
  <2> QED
    BY <2>1, <2>2, <2>3, <2>4, <2>5, LoopDrift
<1>5. ASSUME NEW t \in Threads, Submit(t) PROVE LoopInv(u)'
  <2>1. t # u
    BY <1>5 DEF Submit, Choosing, TypeOK
  <2> QED
    BY <1>1, <1>5, <2>1 DEF Submit, TypeOK
<1>6. ASSUME NEW j \in Instances, EnterTask(j) PROVE LoopInv(u)'
  <2>1. j # u
    BY <1>6, Ranges DEF EnterTask, Choosing, TypeOK
  <2> QED
    BY <1>1, <1>6, <2>1 DEF EnterTask, TypeOK
<1>7. ASSUME NEW j \in Instances, LeaveTask(j) PROVE LoopInv(u)'
  <2>1. j # u /\ Choosing(u) /\ LoopInv(u)
    BY <1>7, Ranges DEF LeaveTask, Released, AfterTask, Choosing, TypeOK
  <2>2. current[j] \in Nat
    BY Ranges DEF TypeOK
  <2>3. drift'[u] = drift[u] + current[j]
    BY <1>7, <2>1 DEF LeaveTask, Released, AfterTask, Drift
  <2>4. /\ \A i \in Instances \ {j} : outstanding'[i] = outstanding[i]
        /\ outstanding'[j] = outstanding[j] - current[j]
        /\ u \in Instances => current'[u] = current[u]
    BY <1>7, <2>1 DEF LeaveTask, Released, AfterTask, TypeOK
  <2>5. UNCHANGED <<at[u], choice[u], least[u]>>
    BY <1>7 DEF LeaveTask, Released, AfterTask
  <2> QED
    BY <2>1, <2>2, <2>3, <2>4, <2>5, LoopDrift
<1>8. ASSUME NEW j \in Instances, EndContinuation(j) PROVE LoopInv(u)'
  <2>1. j # u
    BY <1>8, Ranges DEF EndContinuation, Choosing, TypeOK
  <2> QED
    BY <1>1, <1>8, <2>1 DEF EndContinuation, TypeOK
<1>9. CASE UNCHANGED vars
  BY <1>1, <1>9 DEF vars
<1> QED
  BY <1>2, <1>3, <1>4, <1>5, <1>6, <1>7, <1>8, <1>9 DEF Next, Step, Work

\* The invariant holds at every step
LEMMA Invariance == Spec => []PlacementInv
<1>1. Init => PlacementInv
  <2> SUFFICES ASSUME Init PROVE PlacementInv
    OBVIOUS
  <2>1. TypeOK
    BY Ranges DEF Init, TypeOK, Instances
  <2> QED
    BY <2>1, Ranges DEF Init, PlacementInv, ControlInv, Choosing
<1>2. PlacementInv /\ [Next]_vars => PlacementInv'
  BY TypeStep, ControlStep, LoopStep DEF PlacementInv
<1> QED
  BY <1>1, <1>2, PTL DEF Spec

(***************************************************************************)
(* Instances are only looked up in range, and queues hold reserved tasks.  *)
(***************************************************************************)
THEOREM TypeCorrect == Spec => []TypeOK
<1>1. PlacementInv => TypeOK
  BY DEF PlacementInv
<1> QED
  BY <1>1, Invariance, PTL

(***************************************************************************)
(* Dispatch() chooses the least loaded instance, up to what was reserved   *)
(* and released while it read the loads, and the lowest numbered one when  *)
(* nothing was.                                                            *)
(***************************************************************************)
THEOREM Placement == Spec => []ChoosesLeastLoaded
<1>1. PlacementInv => ChoosesLeastLoaded
  <2> SUFFICES ASSUME PlacementInv, NEW t \in Threads, pc[t] = "reserve",
                      NEW i \in Instances
               PROVE  /\ Load(t, choice[t]) <= Load(t, i) + drift[t]
                      /\ drift[t] = 0 /\ Load(t, choice[t]) = Load(t, i) => choice[t] <= i
    BY DEF ChoosesLeastLoaded
  <2>1. at[t] = NInstances + 1 /\ LoopInv(t)
    BY DEF PlacementInv, ControlInv, Choosing
  <2>2. i \in 1..((NInstances + 1) - 1)
    BY DispatchAssumption DEF DispatchAssumption, Instances
  <2> QED
    BY <2>1, <2>2 DEF LoopInv
<1> QED
  BY <1>1, Invariance, PTL

-----------------------------------------------------------------------------
(***************************************************************************)
(* Sums.  The sum of f over a set is the number of its units: one for each *)
(* element x and number up to f[x].                                        *)
(***************************************************************************)
Total(f, S) == MapThenSumSet(LAMBDA x : f[x], S)

Units(f, S) == {u \in S \X Nat : u[2] \in 1..f[u[1]]}

\* The units of one element
LEMMA UnitsOfOne ==
  ASSUME NEW n \in Nat, NEW x
  PROVE  IsFiniteSet({x} \X (1..n)) /\ Cardinality({x} \X (1..n)) = n
<1>1. IsFiniteSet({x}) /\ Cardinality({x}) = 1
  BY FS_Singleton
<1>2. IsFiniteSet(1..n) /\ Cardinality(1..n) = n
  BY FS_Interval
<1>3. /\ IsFiniteSet({x} \X (1..n))
      /\ Cardinality({x} \X (1..n)) = Cardinality({x}) * Cardinality(1..n)
  BY <1>1, <1>2, FS_Product
<1> QED
  BY <1>1, <1>2, <1>3

\* They add up to those of the set
LEMMA UnitsSplit ==
  ASSUME NEW f, NEW S, NEW x \in S, f[x] \in Nat
  PROVE  /\ Units(f, S) = Units(f, S \ {x}) \cup ({x} \X (1..f[x]))
         /\ Units(f, S \ {x}) \cap ({x} \X (1..f[x])) = {}
  BY DEF Units

\* A finite set has finitely many
LEMMA UnitsFinite ==
  ASSUME NEW S, IsFiniteSet(S), NEW f, \A x \in S : f[x] \in Nat
  PROVE  IsFiniteSet(Units(f, S))
<1> SUFFICES ASSUME ~ IsFiniteSet(Units(f, S)) PROVE FALSE
  OBVIOUS
<1> DEFINE Bad == {T \in SUBSET S : ~ IsFiniteSet(Units(f, T))}
<1>1. Bad # {} /\ Bad \subseteq FiniteSubsetsOf(S)
  BY FS_Subset DEF FiniteSubsetsOf
<1>2. PICK T \in Bad : \A U \in Bad : ~ (<<U, T>> \in StrictSubsetOrdering(S))
  BY <1>1, FS_StrictSubsetOrderingWellFounded, WFMin
<1>3. T # {}
  <2>1. Units(f, {}) = {}
    BY DEF Units
  <2> QED
    BY <2>1, FS_EmptySet
<1>4. PICK x \in T : TRUE
  BY <1>3
<1>5. T \ {x} \notin Bad
  <2>1. <<T \ {x}, T>> \in StrictSubsetOrdering(S)
    BY <1>4 DEF StrictSubsetOrdering
  <2> QED
    BY <1>2, <2>1
<1>6. IsFiniteSet(Units(f, T \ {x})) /\ f[x] \in Nat
  BY <1>4, <1>5
<1>7. IsFiniteSet({x} \X (1..f[x]))
  BY <1>6, UnitsOfOne
<1>8. IsFiniteSet(Units(f, T \ {x}) \cup ({x} \X (1..f[x])))
  BY <1>6, <1>7, FS_Union
<1>9. Units(f, T) = Units(f, T \ {x}) \cup ({x} \X (1..f[x]))
  BY <1>4, <1>6, UnitsSplit
<1> QED
  BY <1>2, <1>8, <1>9

\* Counting them
LEMMA UnitsCount ==
  ASSUME NEW S, IsFiniteSet(S), NEW f, \A x \in S : f[x] \in Nat, NEW x \in S
  PROVE  Cardinality(Units(f, S)) = f[x] + Cardinality(Units(f, S \ {x}))
<1>1. IsFiniteSet(S \ {x}) /\ \A y \in S \ {x} : f[y] \in Nat
  BY FS_RemoveElement
<1>2. PICK A : A = Units(f, S \ {x})
  OBVIOUS
<1>3. PICK B : B = {x} \X (1..f[x])
  OBVIOUS
<1>4. IsFiniteSet(A) /\ Cardinality(A) \in Nat
  BY <1>1, <1>2, UnitsFinite, FS_CardinalityType
<1>5. IsFiniteSet(B) /\ Cardinality(B) = f[x]
  BY <1>3, UnitsOfOne
<1>6. Units(f, S) = A \cup B /\ A \cap B = {}
  BY <1>2, <1>3, UnitsSplit
<1>7. Cardinality(A \cup B) = Cardinality(A) + Cardinality(B) - Cardinality(A \cap B)
  BY <1>4, <1>5, FS_Union
<1>8. Cardinality(A \cap B) = 0
  BY <1>6, FS_EmptySet
<1> QED
  BY <1>2, <1>4, <1>5, <1>6, <1>7, <1>8

(***************************************************************************)
(* The recursion of MapThenFoldSet() has a solution, the number of units   *)
(* of each subset, and no other.                                           *)
(***************************************************************************)
LEMMA TotalIsUnits ==
  ASSUME NEW S, IsFiniteSet(S), NEW f, \A x \in S : f[x] \in Nat
  PROVE  Total(f, S) = Cardinality(Units(f, S))
<1> DEFINE Pick(T) == CHOOSE x \in T : TRUE
           Body(g) == [T \in SUBSET S |-> IF T = {} THEN 0 ELSE f[Pick(T)] + g[T \ {Pick(T)}]]
           count == [T \in SUBSET S |-> Cardinality(Units(f, T))]
<1>1. PICK iter : iter = CHOOSE g : g = Body(g)
  OBVIOUS
<1>2. Total(f, S) = iter[S]
  BY <1>1 DEF Total, MapThenSumSet, MapThenFoldSet
<1>3. ASSUME NEW T \in SUBSET S, T # {}
      PROVE  /\ Pick(T) \in T /\ T \ {Pick(T)} \in SUBSET S /\ IsFiniteSet(T)
             /\ Cardinality(Units(f, T)) = f[Pick(T)] + Cardinality(Units(f, T \ {Pick(T)}))
  <2>1. PICK x : x = Pick(T)
    OBVIOUS
  <2>2. x \in T /\ T \ {x} \in SUBSET S
    BY <1>3, <2>1
  <2>3. IsFiniteSet(T) /\ \A y \in T : f[y] \in Nat
    BY FS_Subset
  <2>4. Cardinality(Units(f, T)) = f[x] + Cardinality(Units(f, T \ {x}))
    BY <2>2, <2>3, UnitsCount
  <2> QED
    BY <2>1, <2>2, <2>3, <2>4
<1>4. Cardinality(Units(f, {})) = 0
  <2>1. Units(f, {}) = {}
    BY DEF Units
  <2> QED
    BY <2>1, FS_EmptySet
<1> HIDE DEF Pick
<1>5. count = Body(count)
  BY <1>3, <1>4
<1>6. iter = Body(iter)
  BY <1>1, <1>5
<1>7. ASSUME NEW T \in SUBSET S
      PROVE  iter[T] = IF T = {} THEN 0 ELSE f[Pick(T)] + iter[T \ {Pick(T)}]
  BY <1>6
<1> HIDE DEF Body
<1>8. ASSUME iter[S] # Cardinality(Units(f, S)) PROVE FALSE
  <2> DEFINE Bad == {T \in SUBSET S : iter[T] # Cardinality(Units(f, T))}
  <2>1. Bad # {} /\ Bad \subseteq FiniteSubsetsOf(S)
    BY <1>8, FS_Subset DEF FiniteSubsetsOf
  <2>2. PICK T \in Bad : \A U \in Bad : ~ (<<U, T>> \in StrictSubsetOrdering(S))
    BY <2>1, FS_StrictSubsetOrderingWellFounded, WFMin
  <2>3. T # {}
    BY <1>4, <1>7
  <2>4. /\ Pick(T) \in T /\ T \ {Pick(T)} \in SUBSET S
        /\ Cardinality(Units(f, T)) = f[Pick(T)] + Cardinality(Units(f, T \ {Pick(T)}))
    BY <1>3, <2>3
  <2>5. <<T \ {Pick(T)}, T>> \in StrictSubsetOrdering(S)
    BY <2>4 DEF StrictSubsetOrdering
  <2>6. T \ {Pick(T)} \notin Bad
    BY <2>2, <2>5
  <2>7. iter[T] = f[Pick(T)] + iter[T \ {Pick(T)}]
    BY <1>7, <2>3
  <2>8. iter[T \ {Pick(T)}] = Cardinality(Units(f, T \ {Pick(T)}))
    BY <2>4, <2>6
  <2> QED
    BY <2>2, <2>4, <2>7, <2>8
<1> QED
  BY <1>2, <1>8

\* The empty sum
LEMMA TotalOfNone == ASSUME NEW f PROVE Total(f, {}) = 0
<1>1. Units(f, {}) = {} /\ IsFiniteSet({}) /\ Cardinality({}) = 0
  BY FS_EmptySet DEF Units
<1> QED
  BY <1>1, TotalIsUnits

\* The laws of sums, over finite sets of natural numbers
LEMMA Totals ==
  ASSUME NEW S, IsFiniteSet(S), NEW f, \A x \in S : f[x] \in Nat
  PROVE  /\ Total(f, S) \in Nat
         /\ \A x \in S : Total(f, S) = f[x] + Total(f, S \ {x}) /\ Total(f, S \ {x}) \in Nat
         /\ \A g : (\A x \in S : g[x] = f[x]) => Total(g, S) = Total(f, S)
<1>1. Total(f, S) \in Nat
  BY TotalIsUnits, UnitsFinite, FS_CardinalityType
<1>2. ASSUME NEW x \in S
      PROVE  Total(f, S) = f[x] + Total(f, S \ {x}) /\ Total(f, S \ {x}) \in Nat
  <2>1. IsFiniteSet(S \ {x}) /\ \A y \in S \ {x} : f[y] \in Nat
    BY FS_RemoveElement
  <2>2. Total(f, S \ {x}) = Cardinality(Units(f, S \ {x}))
    BY <2>1, TotalIsUnits
  <2>3. Cardinality(Units(f, S \ {x})) \in Nat
    BY <2>1, UnitsFinite, FS_CardinalityType
  <2> QED
    BY <2>2, <2>3, TotalIsUnits, UnitsCount
<1>3. ASSUME NEW g, \A x \in S : g[x] = f[x] PROVE Total(g, S) = Total(f, S)
  <2>1. Units(g, S) = Units(f, S) /\ \A x \in S : g[x] \in Nat
    BY <1>3 DEF Units
  <2> QED
    BY <2>1, TotalIsUnits
<1> QED
  BY <1>1, <1>2, <1>3

\* The sum of a sequence
TotalSeq(q) == FoldSeq(LAMBDA x, y : x + y, 0, q)

LEMMA TotalSeqIs ==
  ASSUME NEW q PROVE TotalSeq(q) = Total(q, DOMAIN q)
  BY DEF TotalSeq, Total, FoldSeq, FoldFunction, FoldFunctionOnSet, MapThenSumSet, MapThenFoldSet

\* The laws of sums of sequences: queues are summed as tasks come and go
LEMMA TotalSeqs ==
  ASSUME NEW q \in Seq(Nat)
  PROVE  /\ TotalSeq(q) \in Nat /\ TotalSeq(<<>>) = 0
         /\ \A n \in Nat : TotalSeq(Append(q, n)) = TotalSeq(q) + n
         /\ q # <<>> => TotalSeq(q) = Head(q) + TotalSeq(Tail(q)) /\ TotalSeq(Tail(q)) \in Nat
<1>1. ASSUME NEW s \in Seq(Nat)
      PROVE  /\ IsFiniteSet(DOMAIN s) /\ \A x \in DOMAIN s : s[x] \in Nat
             /\ TotalSeq(s) = Cardinality(Units(s, DOMAIN s)) /\ TotalSeq(s) \in Nat
             /\ IsFiniteSet(Units(s, DOMAIN s))
  <2>1. DOMAIN s = 1..Len(s) /\ Len(s) \in Nat /\ \A x \in DOMAIN s : s[x] \in Nat
    OBVIOUS
  <2>2. IsFiniteSet(DOMAIN s)
    BY <2>1, FS_Interval
  <2> QED
    BY <2>1, <2>2, TotalSeqIs, TotalIsUnits, Totals, UnitsFinite
<1>2. TotalSeq(<<>>) = 0
  <2>1. <<>> \in Seq(Nat) /\ Units(<<>>, DOMAIN <<>>) = {}
    BY DEF Units
  <2> QED
    BY <1>1, <2>1, FS_EmptySet
<1>3. ASSUME NEW n \in Nat PROVE TotalSeq(Append(q, n)) = TotalSeq(q) + n
  <2>1. PICK s : s = Append(q, n)
    OBVIOUS
  <2>2. PICK l \in Nat : l = Len(q)
    OBVIOUS
  <2>3. /\ s \in Seq(Nat) /\ l + 1 \in DOMAIN s /\ s[l + 1] = n
        /\ DOMAIN s \ {l + 1} = DOMAIN q /\ \A x \in DOMAIN q : s[x] = q[x]
    <3>1. s \in Seq(Nat) /\ Len(s) = l + 1 /\ s[l + 1] = n
      BY <2>1, <2>2
    <3>2. DOMAIN s = 1..(l + 1) /\ DOMAIN q = 1..l
      BY <2>2, <3>1
    <3>3. \A x \in 1..l : s[x] = q[x]
      BY <2>1, <2>2
    <3>4. (1..(l + 1)) \ {l + 1} = 1..l /\ l + 1 \in 1..(l + 1)
      OBVIOUS
    <3> QED
      BY <3>1, <3>2, <3>3, <3>4
  <2>4. /\ IsFiniteSet(DOMAIN s) /\ \A x \in DOMAIN s : s[x] \in Nat
        /\ IsFiniteSet(DOMAIN q) /\ \A x \in DOMAIN q : q[x] \in Nat
        /\ TotalSeq(q) \in Nat
    BY <1>1, <2>3
  <2>5. Total(s, DOMAIN s) = n + Total(s, DOMAIN q)
    BY <2>3, <2>4, Totals
  <2>6. Total(s, DOMAIN q) = Total(q, DOMAIN q)
    BY <2>3, <2>4, Totals
  <2>7. TotalSeq(s) = Total(s, DOMAIN s) /\ TotalSeq(q) = Total(q, DOMAIN q)
    BY TotalSeqIs
  <2>8. TotalSeq(s) = n + TotalSeq(q)
    BY <2>5, <2>6, <2>7
  <2>9. TotalSeq(s) = TotalSeq(q) + n
    BY <2>4, <2>8
  <2> QED
    BY <2>1, <2>9
<1>4. ASSUME q # <<>> PROVE TotalSeq(q) = Head(q) + TotalSeq(Tail(q)) /\ TotalSeq(Tail(q)) \in Nat
  <2>1. PICK s : s = Tail(q)
    OBVIOUS
  <2>2. PICK l \in Nat \ {0} : l = Len(q)
    BY <1>4
  <2>3. /\ s \in Seq(Nat) /\ 1 \in DOMAIN q /\ q[1] = Head(q) /\ q[1] \in Nat
        /\ DOMAIN s = 1..(l - 1) /\ DOMAIN q \ {1} = 2..l /\ \A x \in 1..(l - 1) : s[x] = q[x + 1]
    BY <1>4, <2>1, <2>2
  <2>4. PICK A : A = Units(s, 1..(l - 1))
    OBVIOUS
  <2>5. PICK B : B = Units(q, 2..l)
    OBVIOUS
  <2>6. Cardinality(A) = Cardinality(B)
    <3> DEFINE shift == [u \in A |-> <<u[1] + 1, u[2]>>]
    <3>1. \A u \in A : /\ u = <<u[1], u[2]>> /\ u[1] \in 1..(l - 1) /\ u[2] \in Nat
                       /\ u[2] \in 1..q[u[1] + 1]
      BY <2>3, <2>4 DEF Units
    <3>2. \A u \in A : shift[u] = <<u[1] + 1, u[2]>>
      OBVIOUS
    <3>7. shift \in [A -> B]
      BY <3>1, <2>5 DEF Units
    <3> HIDE DEF shift
    <3>3. \A u, v \in A : shift[u] = shift[v] => u = v
      <4> SUFFICES ASSUME NEW u \in A, NEW v \in A, shift[u] = shift[v] PROVE u = v
        OBVIOUS
      <4>1. <<u[1] + 1, u[2]>> = <<v[1] + 1, v[2]>>
        BY <3>2
      <4>2. u[1] + 1 = v[1] + 1 /\ u[2] = v[2]
        BY <4>1
      <4>3. u[1] \in Int /\ v[1] \in Int /\ u = <<u[1], u[2]>> /\ v = <<v[1], v[2]>>
        BY <3>1
      <4>4. u[1] = v[1]
        BY <4>2, <4>3
      <4> QED
        BY <4>2, <4>3, <4>4
    <3>4. \A w \in B : \E u \in A : shift[u] = w
      <4> SUFFICES ASSUME NEW w \in B PROVE \E u \in A : shift[u] = w
        OBVIOUS
      <4>1. w = <<w[1], w[2]>> /\ w[1] \in 2..l /\ w[2] \in Nat /\ w[2] \in 1..q[w[1]]
        BY <2>5 DEF Units
      <4>2. PICK k \in 1..(l - 1) : w[1] = k + 1
        <5>1. w[1] - 1 \in 1..(l - 1) /\ w[1] = (w[1] - 1) + 1
          BY <4>1
        <5> QED
          BY <5>1
      <4>3. <<k, w[2]>> \in A
        <5>1. s[k] = q[k + 1]
          BY <2>3
        <5>2. <<k, w[2]>> \in (1..(l - 1)) \X Nat /\ w[2] \in 1..s[k]
          BY <4>1, <4>2, <5>1
        <5> QED
          BY <2>4, <5>2 DEF Units
      <4>4. shift[<<k, w[2]>>] = <<k + 1, w[2]>>
        BY <3>2, <4>3
      <4>5. shift[<<k, w[2]>>] = w
        BY <4>1, <4>2, <4>4
      <4> QED
        BY <4>3, <4>5
    <3>5. shift \in Bijection(A, B)
      BY <3>7, <3>3, <3>4 DEF Bijection, Injection, Surjection, IsInjective
    <3>6. IsFiniteSet(A)
      BY <1>1, <2>3, <2>4
    <3>8. ExistsBijection(A, B)
      BY <3>5 DEF ExistsBijection
    <3> QED
      BY <3>6, <3>8, FS_Bijection
  <2>7. IsFiniteSet(DOMAIN q) /\ \A x \in DOMAIN q : q[x] \in Nat
    BY <1>1
  <2>8. Cardinality(Units(q, DOMAIN q)) = q[1] + Cardinality(B)
    <3>1. Cardinality(Units(q, DOMAIN q)) = q[1] + Cardinality(Units(q, DOMAIN q \ {1}))
      BY <2>3, <2>7, UnitsCount
    <3> QED
      BY <2>3, <2>5, <3>1
  <2>9. TotalSeq(q) = Cardinality(Units(q, DOMAIN q)) /\ TotalSeq(s) = Cardinality(A) /\ TotalSeq(s) \in Nat
    BY <1>1, <2>3, <2>4
  <2> QED
    BY <2>1, <2>3, <2>6, <2>8, <2>9
<1> QED
  BY <1>1, <1>2, <1>3, <1>4

-----------------------------------------------------------------------------
\* Threads that reserved a task's cost on i and have not submitted it yet
Reservers(i) == {t \in Threads : pc[t] = "submit" /\ choice[t] = i}

(***************************************************************************)
(* Why no cost is lost or leaked: the reservations of an instance are      *)
(* those of finitely many threads, its queue and its thread's task, and    *)
(* the thread has a task only between TaskScope() and ~TaskScope(), also   *)
(* when the task itself dispatches.                                        *)
(***************************************************************************)
WorkInv ==
  /\ \A i \in Instances : IsFiniteSet(Reservers(i))
  /\ \A i \in Instances :
       \/ pc[i] \in {"idle", "then"}
       \/ pc[i] \in {"load", "reserve", "submit"} /\ back[i] # "run"
       => current[i] = NoTask
  /\ LoadIsOutstandingWork
  /\ \A t \in Threads : least[t] >= 0

\* The work reserved on an instance is made of three natural numbers
LEMMA Parts ==
  ASSUME TypeOK, NEW i \in Instances, IsFiniteSet(Reservers(i))
  PROVE  /\ Total(cost, Reservers(i)) \in Nat /\ TotalSeq(queue[i]) \in Nat
         /\ current[i] \in Nat /\ queue[i] \in Seq(Nat)
         /\ ReservedOn(i) = Total(cost, Reservers(i)) + TotalSeq(queue[i]) + current[i]
         /\ \A t \in Reservers(i) : cost[t] \in Nat
<1>1. \A t \in Reservers(i) : cost[t] \in Nat
  BY Ranges DEF TypeOK, Reservers
<1>2. current[i] \in Nat
  BY Ranges DEF TypeOK
<1>3. queue[i] \in Seq(Nat)
  <2>1. queue[i] \in Seq(Costs) /\ Costs \subseteq Nat
    BY Ranges DEF TypeOK
  <2>2. queue[i] \in [1..Len(queue[i]) -> Costs] /\ Len(queue[i]) \in Nat
    BY <2>1
  <2>3. queue[i] \in [1..Len(queue[i]) -> Nat]
    BY <2>1, <2>2
  <2> QED
    BY <2>2, <2>3
<1>4. ReservedOn(i) = Total(cost, Reservers(i)) + TotalSeq(queue[i]) + current[i]
  BY DEF ReservedOn, Total, TotalSeq, Reservers
<1> QED
  BY <1>1, <1>2, <1>3, <1>4, Totals, TotalSeqs

\* The same of the next state
LEMMA PartsNext ==
  ASSUME NEW i \in Instances
  PROVE  ReservedOn(i)' = Total(cost', Reservers(i)') + TotalSeq(queue'[i]) + current'[i]
  BY DEF ReservedOn, Total, TotalSeq, Reservers, MapThenSumSet, MapThenFoldSet, FoldSeq,
         FoldFunction, FoldFunctionOnSet

\* A step that leaves the reservations of an instance alone
LEMMA SameWork ==
  ASSUME TypeOK, WorkInv, NEW i \in Instances,
         Reservers(i)' = Reservers(i), \A t \in Reservers(i) : cost'[t] = cost[t],
         UNCHANGED <<outstanding[i], queue[i], current[i]>>
  PROVE  IsFiniteSet(Reservers(i)') /\ outstanding'[i] = ReservedOn(i)'
<1>1. IsFiniteSet(Reservers(i)) /\ outstanding[i] = ReservedOn(i)
  BY DEF WorkInv, LoadIsOutstandingWork
<1>2. /\ ReservedOn(i) = Total(cost, Reservers(i)) + TotalSeq(queue[i]) + current[i]
      /\ \A t \in Reservers(i) : cost[t] \in Nat
  BY <1>1, Parts
<1>3. Total(cost', Reservers(i)) = Total(cost, Reservers(i))
  BY <1>1, <1>2, Totals
<1>4. ReservedOn(i)' = Total(cost', Reservers(i)') + TotalSeq(queue'[i]) + current'[i]
  BY PartsNext
<1> QED
  BY <1>1, <1>2, <1>3, <1>4

\* No load is negative, whoever reads it
LEMMA LoadNotNegative ==
  ASSUME TypeOK, WorkInv, NEW t \in Threads, NEW i \in Instances
  PROVE  Load(t, i) >= 0
<1>1. IsFiniteSet(Reservers(i)) /\ outstanding[i] = ReservedOn(i)
  BY DEF WorkInv, LoadIsOutstandingWork
<1>2. /\ Total(cost, Reservers(i)) \in Nat /\ TotalSeq(queue[i]) \in Nat
      /\ current[i] \in Nat
      /\ ReservedOn(i) = Total(cost, Reservers(i)) + TotalSeq(queue[i]) + current[i]
  BY <1>1, Parts
<1>3. PICK r \in Nat : r = Total(cost, Reservers(i))
  BY <1>2
<1>4. PICK q \in Nat : q = TotalSeq(queue[i])
  BY <1>2
<1>5. outstanding[i] = r + q + current[i]
  BY <1>1, <1>2, <1>3, <1>4
<1> QED
  BY <1>2, <1>5 DEF Load, NoTask

\* Reserve() adds the cost of the task to the work of the chosen instance
LEMMA ReserveWork ==
  ASSUME TypeOK, ControlInv, WorkInv, NEW t \in Threads, Reserve(t), NEW i \in Instances
  PROVE  IsFiniteSet(Reservers(i)') /\ outstanding'[i] = ReservedOn(i)'
<1>1. cost' = cost /\ queue' = queue /\ current' = current /\ choice' = choice
  BY DEF Reserve
<1>2. /\ choice[t] \in Instances /\ t \notin Reservers(i)
      /\ pc'[t] = "submit" /\ \A u \in Threads \ {t} : pc'[u] = pc[u]
  BY DEF Reserve, TypeOK, Reservers
<1>3. CASE i # choice[t]
  <2>1. Reservers(i)' = Reservers(i)
    BY <1>1, <1>2, <1>3 DEF Reservers
  <2>2. outstanding'[i] = outstanding[i]
    BY <1>3 DEF Reserve, TypeOK
  <2> QED
    BY <1>1, <2>1, <2>2, SameWork
<1>4. CASE i = choice[t]
  <2>1. Reservers(i)' = Reservers(i) \cup {t}
    BY <1>1, <1>2, <1>4 DEF Reservers
  <2>2. IsFiniteSet(Reservers(i)) /\ outstanding[i] = ReservedOn(i)
    BY DEF WorkInv, LoadIsOutstandingWork
  <2>3. /\ Total(cost, Reservers(i)) \in Nat /\ TotalSeq(queue[i]) \in Nat
        /\ current[i] \in Nat
        /\ ReservedOn(i) = Total(cost, Reservers(i)) + TotalSeq(queue[i]) + current[i]
        /\ \A u \in Reservers(i) : cost[u] \in Nat
    BY <2>2, Parts
  <2>4. cost[t] \in Nat
    BY Ranges DEF TypeOK
  <2>5. PICK R : R = Reservers(i) \cup {t}
    OBVIOUS
  <2>6. IsFiniteSet(R)
    BY <2>2, <2>5, FS_AddElement
  <2>7. \A u \in R : cost[u] \in Nat
    BY <2>3, <2>4, <2>5
  <2>8. t \in R /\ R \ {t} = Reservers(i)
    BY <1>2, <2>5
  <2>9. Total(cost, R) = cost[t] + Total(cost, R \ {t})
    BY <2>6, <2>7, <2>8, Totals
  <2>10. ReservedOn(i)' = Total(cost', Reservers(i)') + TotalSeq(queue'[i]) + current'[i]
    BY PartsNext
  <2>11. ReservedOn(i)' = (cost[t] + Total(cost, Reservers(i))) + TotalSeq(queue[i]) + current[i]
    BY <1>1, <2>1, <2>5, <2>8, <2>9, <2>10
  <2>12. outstanding'[i] = outstanding[i] + cost[t]
    BY <1>4 DEF Reserve, TypeOK
  <2>13. PICK a \in Nat, b \in Nat, c \in Nat, n \in Nat :
           /\ a = Total(cost, Reservers(i)) /\ b = TotalSeq(queue[i])
           /\ c = current[i] /\ n = cost[t]
    BY <2>3, <2>4
  <2>14. (n + a) + b + c = (a + b + c) + n
    OBVIOUS
  <2>15. outstanding'[i] = ReservedOn(i)'
    BY <2>2, <2>3, <2>11, <2>12, <2>13, <2>14
  <2> QED
    BY <2>1, <2>5, <2>6, <2>15
<1> QED
  BY <1>3, <1>4

\* Submit() moves it from the thread to the queue
LEMMA SubmitWork ==
  ASSUME TypeOK, ControlInv, WorkInv, NEW t \in Threads, Submit(t), NEW i \in Instances
  PROVE  IsFiniteSet(Reservers(i)') /\ outstanding'[i] = ReservedOn(i)'
<1>1. cost' = cost /\ outstanding' = outstanding /\ current' = current /\ choice' = choice
  BY DEF Submit
<1>2. /\ choice[t] \in Instances /\ t \in Reservers(choice[t])
      /\ pc'[t] # "submit" /\ \A u \in Threads \ {t} : pc'[u] = pc[u]
  BY DEF Submit, TypeOK, Reservers
<1>3. CASE i # choice[t]
  <2>1. Reservers(i)' = Reservers(i)
    BY <1>1, <1>2, <1>3 DEF Reservers
  <2>2. queue'[i] = queue[i]
    BY <1>3 DEF Submit, TypeOK
  <2> QED
    BY <1>1, <2>1, <2>2, SameWork
<1>4. CASE i = choice[t]
  <2>1. Reservers(i)' = Reservers(i) \ {t}
    BY <1>1, <1>2, <1>4 DEF Reservers
  <2>2. IsFiniteSet(Reservers(i)) /\ outstanding[i] = ReservedOn(i)
    BY DEF WorkInv, LoadIsOutstandingWork
  <2>3. /\ Total(cost, Reservers(i)) \in Nat /\ TotalSeq(queue[i]) \in Nat
        /\ current[i] \in Nat /\ queue[i] \in Seq(Nat)
        /\ ReservedOn(i) = Total(cost, Reservers(i)) + TotalSeq(queue[i]) + current[i]
        /\ \A u \in Reservers(i) : cost[u] \in Nat
    BY <2>2, Parts
  <2>4. t \in Reservers(i) /\ cost[t] \in Nat
    BY <1>2, <1>4, <2>3
  <2>5. /\ Total(cost, Reservers(i)) = cost[t] + Total(cost, Reservers(i) \ {t})
        /\ Total(cost, Reservers(i) \ {t}) \in Nat
    BY <2>2, <2>3, <2>4, Totals
  <2>6. queue'[i] = Append(queue[i], cost[t])
    BY <1>4 DEF Submit, TypeOK
  <2>7. TotalSeq(queue'[i]) = TotalSeq(queue[i]) + cost[t]
    BY <2>3, <2>4, <2>6, TotalSeqs
  <2>8. ReservedOn(i)' = Total(cost', Reservers(i)') + TotalSeq(queue'[i]) + current'[i]
    BY PartsNext
  <2>9. ReservedOn(i)' = Total(cost, Reservers(i) \ {t}) + (TotalSeq(queue[i]) + cost[t]) + current[i]
    BY <1>1, <2>1, <2>7, <2>8
  <2>10. PICK a \in Nat, b \in Nat, c \in Nat, n \in Nat :
           /\ a = Total(cost, Reservers(i) \ {t}) /\ b = TotalSeq(queue[i])
           /\ c = current[i] /\ n = cost[t]
    BY <2>3, <2>4, <2>5
  <2>11. a + (b + n) + c = (n + a) + b + c
    OBVIOUS
  <2>12. outstanding'[i] = ReservedOn(i)'
    BY <1>1, <2>2, <2>3, <2>5, <2>9, <2>10, <2>11
  <2> QED
    BY <2>1, <2>2, <2>12, FS_RemoveElement
<1> QED
  BY <1>3, <1>4

\* TaskScope() moves it from the queue to the thread, which had no task
LEMMA EnterWork ==
  ASSUME TypeOK, ControlInv, WorkInv, NEW j \in Instances, EnterTask(j), NEW i \in Instances
  PROVE  IsFiniteSet(Reservers(i)') /\ outstanding'[i] = ReservedOn(i)'
<1>1. cost' = cost /\ outstanding' = outstanding /\ choice' = choice
  BY DEF EnterTask
<1>2. Reservers(i)' = Reservers(i)
  BY <1>1, Ranges DEF EnterTask, TypeOK, Reservers
<1>3. CASE i # j
  <2>1. queue'[i] = queue[i] /\ current'[i] = current[i]
    BY <1>3 DEF EnterTask, TypeOK
  <2> QED
    BY <1>1, <1>2, <2>1, SameWork
<1>4. CASE i = j
  <2>1. current[i] = NoTask /\ queue[i] # <<>>
    BY <1>4 DEF WorkInv, EnterTask
  <2>2. IsFiniteSet(Reservers(i)) /\ outstanding[i] = ReservedOn(i)
    BY DEF WorkInv, LoadIsOutstandingWork
  <2>3. /\ Total(cost, Reservers(i)) \in Nat /\ queue[i] \in Seq(Nat)
        /\ ReservedOn(i) = Total(cost, Reservers(i)) + TotalSeq(queue[i]) + current[i]
    BY <2>2, Parts
  <2>4. /\ TotalSeq(queue[i]) = Head(queue[i]) + TotalSeq(Tail(queue[i]))
        /\ TotalSeq(Tail(queue[i])) \in Nat
    BY <2>1, <2>3, TotalSeqs
  <2>5. Head(queue[i]) \in Nat
    BY <2>1, <2>3
  <2>6. current'[i] = Head(queue[i]) /\ queue'[i] = Tail(queue[i])
    BY <1>4 DEF EnterTask, TypeOK
  <2>7. ReservedOn(i)' = Total(cost', Reservers(i)') + TotalSeq(queue'[i]) + current'[i]
    BY PartsNext
  <2>8. PICK a \in Nat, b \in Nat, h \in Nat :
          /\ a = Total(cost, Reservers(i)) /\ b = TotalSeq(Tail(queue[i]))
          /\ h = Head(queue[i])
    BY <2>3, <2>4, <2>5
  <2>9. a + b + h = a + (h + b) + NoTask
    BY DEF NoTask
  <2>10. outstanding'[i] = ReservedOn(i)'
    BY <1>1, <1>2, <2>1, <2>2, <2>3, <2>4, <2>6, <2>7, <2>8, <2>9
  <2> QED
    BY <1>2, <2>2, <2>10
<1> QED
  BY <1>3, <1>4

\* ~TaskScope() releases it
LEMMA LeaveWork ==
  ASSUME TypeOK, ControlInv, WorkInv, NEW j \in Instances, LeaveTask(j), NEW i \in Instances
  PROVE  IsFiniteSet(Reservers(i)') /\ outstanding'[i] = ReservedOn(i)'
<1> USE DEF Released, AfterTask
<1>1. cost' = cost /\ queue' = queue /\ choice' = choice
  BY DEF LeaveTask
<1>2. Reservers(i)' = Reservers(i)
  BY <1>1, Ranges DEF LeaveTask, TypeOK, Reservers
<1>3. CASE i # j
  <2>1. outstanding'[i] = outstanding[i] /\ current'[i] = current[i]
    BY <1>3 DEF LeaveTask, TypeOK
  <2> QED
    BY <1>1, <1>2, <2>1, SameWork
<1>4. CASE i = j
  <2>1. IsFiniteSet(Reservers(i)) /\ outstanding[i] = ReservedOn(i)
    BY DEF WorkInv, LoadIsOutstandingWork
  <2>2. /\ Total(cost, Reservers(i)) \in Nat /\ TotalSeq(queue[i]) \in Nat
        /\ current[i] \in Nat
        /\ ReservedOn(i) = Total(cost, Reservers(i)) + TotalSeq(queue[i]) + current[i]
    BY <2>1, Parts
  <2>3. outstanding'[i] = outstanding[i] - current[i] /\ current'[i] = NoTask
    BY <1>4 DEF LeaveTask, TypeOK
  <2>4. ReservedOn(i)' = Total(cost', Reservers(i)') + TotalSeq(queue'[i]) + current'[i]
    BY PartsNext
  <2>5. PICK a \in Nat, b \in Nat, c \in Nat :
          a = Total(cost, Reservers(i)) /\ b = TotalSeq(queue[i]) /\ c = current[i]
    BY <2>2
  <2>6. (a + b + c) - c = a + b + NoTask
    BY DEF NoTask
  <2>7. outstanding'[i] = ReservedOn(i)'
    BY <1>1, <1>2, <2>1, <2>2, <2>3, <2>4, <2>5, <2>6
  <2> QED
    BY <1>2, <2>1, <2>7
<1> QED
  BY <1>3, <1>4

\* Every step keeps the account
LEMMA WorkStep ==
  ASSUME PlacementInv, WorkInv, [Next]_vars PROVE WorkInv'
<1> USE DEF PlacementInv
<1> DEFINE Sum(i) == IsFiniteSet(Reservers(i)') /\ outstanding'[i] = ReservedOn(i)'
           Busy(i) == (\/ pc'[i] \in {"idle", "then"}
                       \/ pc'[i] \in {"load", "reserve", "submit"} /\ back'[i] # "run")
                      => current'[i] = NoTask
<1>1. SUFFICES /\ \A i \in Instances : Sum(i)
               /\ \A i \in Instances : Busy(i)
               /\ \A t \in Threads : least'[t] >= 0
  BY DEF WorkInv, LoadIsOutstandingWork
<1>2. /\ \A i \in Instances :
           \/ pc[i] \in {"idle", "then"}
           \/ pc[i] \in {"load", "reserve", "submit"} /\ back[i] # "run"
           => current[i] = NoTask
      /\ \A t \in Threads : least[t] >= 0
  BY DEF WorkInv
<1>3. ASSUME NEW t \in Threads, NEW n \in Costs, Begin(t, n)
      PROVE  /\ \A i \in Instances : Sum(i) /\ Busy(i)
             /\ \A u \in Threads : least'[u] >= 0
  <2>1. /\ pc[t] # "submit" /\ pc'[t] = "load" /\ back'[t] = pc[t]
        /\ \A u \in Threads \ {t} : /\ pc'[u] = pc[u] /\ back'[u] = back[u]
                                    /\ cost'[u] = cost[u] /\ choice'[u] = choice[u]
        /\ pc[t] \in {"idle", "run", "then"}
    BY <1>3 DEF Begin, FirstInstance, TypeOK
  <2>2. outstanding' = outstanding /\ queue' = queue /\ current' = current
    BY <1>3 DEF Begin, FirstInstance
  <2>3. ASSUME NEW i \in Instances PROVE Sum(i)
    <3>1. Reservers(i)' = Reservers(i) /\ \A u \in Reservers(i) : cost'[u] = cost[u]
      BY <2>1 DEF Reservers
    <3> QED
      BY <2>2, <3>1, SameWork
  <2>4. ASSUME NEW i \in Instances PROVE Busy(i)
    BY <1>2, <2>1, <2>2, Ranges
  <2>5. \A u \in Threads : least'[u] >= 0
    BY <1>2, <1>3 DEF Begin, FirstInstance, TypeOK
  <2> QED
    BY <2>3, <2>4, <2>5
<1>4. ASSUME NEW t \in Threads, LoadNext(t)
      PROVE  /\ \A i \in Instances : Sum(i) /\ Busy(i)
             /\ \A u \in Threads : least'[u] >= 0
  <2>1. /\ pc[t] = "load" /\ pc'[t] \in {"load", "reserve"}
        /\ \A u \in Threads \ {t} : pc'[u] = pc[u] /\ choice'[u] = choice[u]
    BY <1>4 DEF LoadNext, LessLoaded, TypeOK
  <2>2. /\ outstanding' = outstanding /\ queue' = queue /\ current' = current
        /\ cost' = cost /\ back' = back
    BY <1>4 DEF LoadNext, LessLoaded
  <2>3. ASSUME NEW i \in Instances PROVE Sum(i)
    <3>1. Reservers(i)' = Reservers(i)
      BY <2>1 DEF Reservers
    <3> QED
      BY <2>2, <3>1, SameWork
  <2>4. ASSUME NEW i \in Instances PROVE Busy(i)
    BY <1>2, <2>1, <2>2, Ranges
  <2>5. at[t] \in Instances
    BY <2>1 DEF ControlInv
  <2>6. Load(t, at[t]) >= 0
    BY <2>5, LoadNotNegative
  <2>7. ASSUME NEW u \in Threads PROVE least'[u] >= 0
    <3>1. least' = least \/ least' = [least EXCEPT ![t] = Load(t, at[t])]
      BY <1>4 DEF LoadNext
    <3> QED
      BY <1>2, <2>6, <3>1 DEF TypeOK
  <2> QED
    BY <2>3, <2>4, <2>7
<1>5. ASSUME NEW t \in Threads, Reserve(t)
      PROVE  /\ \A i \in Instances : Sum(i) /\ Busy(i)
             /\ \A u \in Threads : least'[u] >= 0
  <2>1. \A i \in Instances : Sum(i)
    BY <1>5, ReserveWork
  <2>2. /\ current' = current /\ back' = back /\ least' = least
        /\ pc[t] = "reserve" /\ pc'[t] = "submit"
        /\ \A u \in Threads \ {t} : pc'[u] = pc[u]
    BY <1>5 DEF Reserve, TypeOK
  <2>3. ASSUME NEW i \in Instances PROVE Busy(i)
    BY <1>2, <2>2, Ranges
  <2> QED
    BY <1>2, <2>1, <2>2, <2>3
<1>6. ASSUME NEW t \in Threads, Submit(t)
      PROVE  /\ \A i \in Instances : Sum(i) /\ Busy(i)
             /\ \A u \in Threads : least'[u] >= 0
  <2>1. \A i \in Instances : Sum(i)
    BY <1>6, SubmitWork
  <2>2. /\ current' = current /\ back' = back /\ least' = least
        /\ pc[t] = "submit" /\ pc'[t] = back[t] /\ back[t] \in {"idle", "run", "then"}
        /\ \A u \in Threads \ {t} : pc'[u] = pc[u]
    BY <1>6 DEF Submit, TypeOK
  <2>3. ASSUME NEW i \in Instances PROVE Busy(i)
    BY <1>2, <2>2, Ranges
  <2> QED
    BY <1>2, <2>1, <2>2, <2>3
<1>7. ASSUME NEW j \in Instances, EnterTask(j)
      PROVE  /\ \A i \in Instances : Sum(i) /\ Busy(i)
             /\ \A u \in Threads : least'[u] >= 0
  <2>1. \A i \in Instances : Sum(i)
    BY <1>7, EnterWork
  <2>2. /\ back' = back /\ least' = least /\ pc'[j] = "run"
        /\ \A i \in Instances \ {j} : pc'[i] = pc[i] /\ current'[i] = current[i]
    BY <1>7, Ranges DEF EnterTask, TypeOK
  <2>3. ASSUME NEW i \in Instances PROVE Busy(i)
    BY <1>2, <2>2
  <2> QED
    BY <1>2, <2>1, <2>2, <2>3
<1>8. ASSUME NEW j \in Instances, LeaveTask(j)
      PROVE  /\ \A i \in Instances : Sum(i) /\ Busy(i)
             /\ \A u \in Threads : least'[u] >= 0
  <2>1. \A i \in Instances : Sum(i)
    BY <1>8, LeaveWork
  <2>2. /\ back' = back /\ least' = least /\ current'[j] = NoTask
        /\ \A i \in Instances \ {j} : pc'[i] = pc[i] /\ current'[i] = current[i]
    BY <1>8, Ranges DEF LeaveTask, AfterTask, TypeOK
  <2>3. ASSUME NEW i \in Instances PROVE Busy(i)
    BY <1>2, <2>2
  <2> QED
    BY <1>2, <2>1, <2>2, <2>3
<1>9. ASSUME NEW j \in Instances, EndContinuation(j)
      PROVE  /\ \A i \in Instances : Sum(i) /\ Busy(i)
             /\ \A u \in Threads : least'[u] >= 0
  <2>1. /\ pc[j] = "then" /\ pc'[j] = "idle" /\ \A u \in Threads \ {j} : pc'[u] = pc[u]
    BY <1>9, Ranges DEF EndContinuation, TypeOK
  <2>2. /\ outstanding' = outstanding /\ queue' = queue /\ current' = current
        /\ cost' = cost /\ back' = back /\ choice' = choice /\ least' = least
    BY <1>9 DEF EndContinuation
  <2>3. ASSUME NEW i \in Instances PROVE Sum(i)
    <3>1. Reservers(i)' = Reservers(i)
      BY <2>1, <2>2 DEF Reservers
    <3> QED
      BY <2>2, <3>1, SameWork
  <2>4. ASSUME NEW i \in Instances PROVE Busy(i)
    BY <1>2, <2>1, <2>2, Ranges
  <2> QED
    BY <1>2, <2>2, <2>3, <2>4
<1>10. CASE UNCHANGED vars
  <2>1. /\ outstanding' = outstanding /\ queue' = queue /\ current' = current /\ pc' = pc
        /\ cost' = cost /\ back' = back /\ choice' = choice /\ least' = least
    BY <1>10 DEF vars
  <2>2. ASSUME NEW i \in Instances PROVE Sum(i)
    <3>1. Reservers(i)' = Reservers(i)
      BY <2>1 DEF Reservers
    <3> QED
      BY <2>1, <3>1, SameWork
  <2> QED
    BY <1>2, <2>1, <2>2
<1> HIDE DEF Sum, Busy
<1> QED
  BY <1>3, <1>4, <1>5, <1>6, <1>7, <1>8, <1>9, <1>10 DEF Next, Step, Work

\* The account holds at every step
LEMMA WorkInvariance == Spec => [](PlacementInv /\ WorkInv)
<1>1. Init => WorkInv
  <2> SUFFICES ASSUME Init PROVE WorkInv
    OBVIOUS
  <2>1. ASSUME NEW i \in Instances
        PROVE  Reservers(i) = {} /\ ReservedOn(i) = 0 /\ outstanding[i] = 0
    <3>1. Reservers(i) = {}
      BY DEF Init, Reservers
    <3>2. ReservedOn(i) = Total(cost, Reservers(i)) + TotalSeq(queue[i]) + current[i]
      BY DEF ReservedOn, Total, TotalSeq, Reservers
    <3>3. queue[i] = <<>> /\ current[i] = 0 /\ outstanding[i] = 0
      BY DEF Init, NoTask
    <3>4. <<>> \in Seq(Nat)
      OBVIOUS
    <3>5. TotalSeq(<<>>) = 0
      BY <3>4, TotalSeqs
    <3>6. Total(cost, {}) = 0
      BY TotalOfNone
    <3> QED
      BY <3>1, <3>2, <3>3, <3>5, <3>6
  <2>2. \A i \in Instances : IsFiniteSet(Reservers(i))
    BY <2>1, FS_EmptySet
  <2>3. LoadIsOutstandingWork
    BY <2>1 DEF LoadIsOutstandingWork
  <2> QED
    BY <2>2, <2>3 DEF Init, WorkInv
<1>2. PlacementInv /\ WorkInv /\ [Next]_vars => WorkInv'
  BY WorkStep
<1> QED
  BY <1>1, <1>2, Invariance, PTL DEF Spec

(***************************************************************************)
(* The load Dispatch() compares is the work ahead on the instance, however *)
(* many threads reserve and release at once.                               *)
(***************************************************************************)
THEOREM LoadsAreExact == Spec => []LoadIsOutstandingWork
<1>1. WorkInv => LoadIsOutstandingWork
  BY DEF WorkInv
<1> QED
  BY <1>1, WorkInvariance, PTL

(***************************************************************************)
(* A task's cost is never both released and discounted: no thread reads or *)
(* remembers a negative load.                                              *)
(***************************************************************************)
THEOREM LoadsAreNatural == Spec => []NoNegativeLoad
<1>1. PlacementInv /\ WorkInv => NoNegativeLoad
  <2> SUFFICES ASSUME PlacementInv, WorkInv, NEW t \in Threads, NEW i \in Instances
               PROVE  Load(t, i) >= 0 /\ least[t] >= 0
    BY DEF NoNegativeLoad
  <2>1. Load(t, i) >= 0
    BY LoadNotNegative DEF PlacementInv
  <2>2. least[t] >= 0
    BY DEF WorkInv
  <2> QED
    BY <2>1, <2>2
<1> QED
  BY <1>1, WorkInvariance, PTL
=============================================================================

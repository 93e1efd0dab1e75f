---------------------------- MODULE ReadColumnProofs ----------------------------
(***************************************************************************)
(* A read of a column returns after every task it started has ended; the   *)
(* groups of chunks are as many as the instances or the chunks, and        *)
(* balanced; and only elements of the column are put in the result: for    *)
(* any column, selection, number of instances and of chunks.               *)
(*                                                                         *)
(* At the end are the lemmas about sequences, sums and products on which   *)
(* ReadRacesProofs builds.                                                 *)
(***************************************************************************)
EXTENDS ReadColumn, FiniteSetTheorems, NaturalsInduction, WellFoundedInduction, TLAPS

(***************************************************************************)
(* Groups of chunks are there once the read is spread, each with a status; *)
(* the call has an outcome once it has returned, and then none is busy.    *)
(***************************************************************************)
ReturnInv ==
  /\ DOMAIN groups = DOMAIN status
  /\ stage \in {"partition", "spread"} => status = <<>>
  /\ outcome # "none" => stage = "returned"
  /\ stage = "returned" => \A g \in DOMAIN status : status[g] # "busy"

\* No task has started before the read is spread
LEMMA NoneStarted ==
  ASSUME ReturnInv, stage \in {"partition", "spread"}
  PROVE  DOMAIN groups = {} /\ DOMAIN status = {} /\ outcome = "none"
  BY DEF ReturnInv

\* The steps before anything is read
LEMMA EarlySteps ==
  ASSUME ReturnInv, FailEarly \/ PartitionTask \/ Spread PROVE ReturnInv'
<1>1. DOMAIN groups = {} /\ DOMAIN status = {} /\ outcome = "none"
  BY NoneStarted DEF FailEarly, PartitionTask, Spread
<1>2. CASE FailEarly
  BY <1>1, <1>2 DEF FailEarly, ReturnInv
<1>3. CASE PartitionTask
  <2>1. CASE NInstances > 1 /\ Len(Partition.chunks) > 1
    <3>1. stage' = "spread" /\ UNCHANGED <<groups, status, outcome>> /\ stage = "partition"
      BY <1>3, <2>1 DEF PartitionTask
    <3> QED
      BY <1>1, <3>1 DEF ReturnInv
  <2>2. CASE ~ (NInstances > 1 /\ Len(Partition.chunks) > 1)
    <3>1. PICK all : groups' = <<all>>
      BY <1>3, <2>2 DEF PartitionTask
    <3>2. stage' = "read" /\ status' = <<"busy">> /\ outcome' = outcome
      BY <1>3, <2>2 DEF PartitionTask
    <3>3. DOMAIN groups' = DOMAIN status'
      BY <3>1, <3>2
    <3> QED
      BY <1>1, <3>2, <3>3 DEF ReturnInv
  <2> QED
    BY <2>1, <2>2
<1>4. CASE Spread
  <2>1. PICK ends, start : /\ groups' = [g \in DOMAIN ends |-> SubSeq(chunks, start[g], ends[g])]
                           /\ status' = [g \in DOMAIN ends |-> "busy"]
    <3> DEFINE e == GroupChunks(chunks, NInstances)
               s == [g \in DOMAIN e |-> IF g = 1 THEN 1 ELSE e[g - 1] + 1]
    <3>1. /\ groups' = [g \in DOMAIN e |-> SubSeq(chunks, s[g], e[g])]
          /\ status' = [g \in DOMAIN e |-> "busy"]
      BY <1>4 DEF Spread
    <3> HIDE DEF e, s
    <3> QED
      BY <3>1
  <2>2. stage' = "read" /\ outcome' = outcome
    BY <1>4 DEF Spread
  <2> QED
    BY <1>1, <2>1, <2>2 DEF ReturnInv
<1> QED
  BY <1>2, <1>3, <1>4

\* The steps of the task reading a group, and the return once all are done
LEMMA LateSteps ==
  ASSUME ReturnInv,
         Return \/ \E g \in DOMAIN groups : ReadChunk(g) \/ FailGroup(g) \/ EndGroup(g)
  PROVE  ReturnInv'
<1>1. CASE Return
  BY <1>1 DEF Return, AllFinished, ReturnInv
<1>2. ASSUME NEW g \in DOMAIN groups, ReadChunk(g) \/ FailGroup(g) \/ EndGroup(g)
      PROVE  ReturnInv'
  <2>1. status[g] = "busy" /\ UNCHANGED <<stage, outcome>>
    BY <1>2 DEF ReadChunk, FailGroup, EndGroup
  <2>2. stage \notin {"partition", "spread"} /\ stage # "returned" /\ outcome = "none"
    BY <2>1, NoneStarted DEF ReturnInv
  <2>3. DOMAIN groups' = DOMAIN groups /\ DOMAIN status' = DOMAIN status
    BY <1>2 DEF ReadChunk, FailGroup, EndGroup
  <2> QED
    BY <2>1, <2>2, <2>3 DEF ReturnInv
<1> QED
  BY <1>1, <1>2

(***************************************************************************)
(* Once GetColumn() has returned, with an error either, no task writes to  *)
(* the result: All() waits for every group, the others when one fails too, *)
(* so that the caller may free the array it passed (unowned_buffer()).     *)
(***************************************************************************)
THEOREM NoneWritesAfterReturn == Spec => NoWriteAfterReturn
<1>1. Init => ReturnInv
  BY DEF Init, ReturnInv
<1>2. ReturnInv /\ [Next]_vars => ReturnInv'
  <2>1. ASSUME ReturnInv, UNCHANGED vars PROVE ReturnInv'
    BY <2>1 DEF ReturnInv, vars
  <2> QED
    BY <2>1, EarlySteps, LateSteps DEF Next
<1>3. ReturnInv /\ [Next]_vars => [outcome # "none" => buffer' = buffer]_vars
  <2> SUFFICES ASSUME ReturnInv, Next, outcome # "none" PROVE buffer' = buffer
    BY DEF vars
  <2>1. stage = "returned" /\ \A g \in DOMAIN groups : status[g] # "busy"
    BY DEF ReturnInv
  <2> QED
    BY <2>1 DEF Next, FailEarly, PartitionTask, Spread, Return, ReadChunk, FailGroup, EndGroup
<1> QED
  BY <1>1, <1>2, <1>3, PTL DEF Spec, NoWriteAfterReturn

-----------------------------------------------------------------------------
(* Folds over sequences, and the groups of chunks *)

\* A set of numbers that has 0, and the successor of each number it has, has them all
LEMMA NumbersOfSet ==
  ASSUME NEW S, 0 \in S, \A n \in Nat : n \in S => n + 1 \in S
  PROVE  Nat \subseteq S
<1> DEFINE missing == Nat \ S
           less == {ss \in Nat \X Nat : ss[1] < ss[2]}
<1>1. SUFFICES ASSUME missing # {} PROVE FALSE
  OBVIOUS
<1>w. IsWellFoundedOn(less, Nat)
  BY NatLessThanWellFounded DEF OpToRel
<1>2. PICK n \in missing : \A m \in missing : ~ (<<m, n>> \in less)
  <2>1. missing \subseteq Nat
    OBVIOUS
  <2> HIDE DEF missing, less
  <2> QED
    BY <1>1, <1>w, <2>1, WFMin
<1>3. n - 1 \in missing
  BY <1>2
<1>4. <<n - 1, n>> \in less
  BY <1>3
<1> QED
  BY <1>2, <1>3, <1>4

\* A set of numbers up to n, unless empty, has a greatest
LEMMA MaxIsOneOf ==
  ASSUME NEW n \in Nat, NEW S \in SUBSET (1..n), S # {}
  PROVE  Max(S) \in S /\ \A y \in S : Max(S) >= y
<1> DEFINE P(m) == \A T \in SUBSET (1..m) : T # {} => \E x \in T : \A y \in T : x >= y
           Ps == {m \in Nat : P(m)}
<1>1. 0 \in Ps
  <2>1. 1..0 = {}
    OBVIOUS
  <2> QED
    BY <2>1
<1>2. ASSUME NEW m \in Nat, m \in Ps PROVE m + 1 \in Ps
  <2>1. SUFFICES ASSUME NEW T \in SUBSET (1..(m + 1)), T # {}
                 PROVE  \E x \in T : \A y \in T : x >= y
    OBVIOUS
  <2>2. CASE m + 1 \in T
    BY <2>2
  <2>3. CASE m + 1 \notin T
    <3>1. T \in SUBSET (1..m)
      BY <2>3
    <3> QED
      BY <1>2, <2>1, <3>1
  <2> QED
    BY <2>2, <2>3
<1>3. n \in Ps
  <2> HIDE DEF Ps
  <2> QED
    BY <1>1, <1>2, NumbersOfSet
<1>4. PICK x \in S : \A y \in S : x >= y
  BY <1>3
<1> QED
  BY <1>4 DEF Max

\* The recursion of a fold over 1..n, from base: it[s] folds F over s
IsFold(it, base, F, n) ==
  it = [s \in SUBSET (1..n) |-> IF s = {} THEN base ELSE F[<<it[s \ {Max(s)}], Max(s)>>]]

\* R has base, and F stays in it
IsClosed(R, base, F, n) == base \in R /\ \A r \in R : \A i \in 1..n : F[<<r, i>>] \in R

\* There is one, and it stays in any set that has base and that F stays in
LEMMA FoldExists ==
  ASSUME NEW base, NEW F, NEW n \in Nat, NEW R, IsClosed(R, base, F, n)
  PROVE  \E it \in [SUBSET (1..n) -> R] : IsFold(it, base, F, n)
<1>0. base \in R /\ \A r \in R : \A i \in 1..n : F[<<r, i>>] \in R
  BY DEF IsClosed
<1> DEFINE P(m) == \E it \in [SUBSET (1..m) -> R] : IsFold(it, base, F, m)
           S == {m \in Nat : m <= n => P(m)}
<1>1. 0 \in S
  <2>1. IsFold([s \in SUBSET (1..0) |-> base], base, F, 0)
    BY DEF IsFold
  <2>2. [s \in SUBSET (1..0) |-> base] \in [SUBSET (1..0) -> R]
    BY <1>0
  <2> QED
    BY <2>1, <2>2
<1>2. ASSUME NEW m \in Nat, m \in S PROVE m + 1 \in S
  <2>0. SUFFICES ASSUME m + 1 <= n PROVE P(m + 1)
    <3> HIDE DEF P
    <3> QED
      OBVIOUS
  <2>a. P(m)
    <3> HIDE DEF P
    <3> QED
      BY <1>2, <2>0
  <2>1. PICK f \in [SUBSET (1..m) -> R] : IsFold(f, base, F, m)
    BY <2>a
  <2> DEFINE D == SUBSET (1..(m + 1))
             last(s) == F[<<f[s \ {m + 1}], m + 1>>]
             g == [s \in D |-> IF m + 1 \in s THEN last(s) ELSE f[s]]
  <2>2. \A s \in SUBSET (1..m) : f[s] = IF s = {} THEN base ELSE F[<<f[s \ {Max(s)}], Max(s)>>]
    BY <2>1 DEF IsFold
  <2>3. \A s \in D : m + 1 \notin s => s \in SUBSET (1..m) /\ s \ {Max(s)} \in SUBSET (1..m)
    <3>1. TAKE s \in D
    <3>2. HAVE m + 1 \notin s
    <3>3. \A x \in s : x \in 1..m
      BY <3>2
    <3> QED
      BY <3>3
  <2>4. \A s \in D : m + 1 \in s => s \ {m + 1} \in SUBSET (1..m)
    OBVIOUS
  <2>5. \A s \in SUBSET (1..m) : s \in D /\ m + 1 \notin s /\ g[s] = f[s]
    OBVIOUS
  <2>6. \A s \in D : m + 1 \in s => Max(s) = m + 1
    <3>1. TAKE s \in D
    <3>2. HAVE m + 1 \in s
    <3>3. Max(s) \in s /\ Max(s) >= m + 1
      <4> HIDE DEF D
      <4>1. m + 1 \in Nat /\ s \in SUBSET (1..(m + 1)) /\ s # {}
        BY <3>2 DEF D
      <4> QED
        BY <3>2, <4>1, MaxIsOneOf
    <3>4. Max(s) \in 1..(m + 1)
      BY <3>3
    <3> HIDE DEF D
    <3> QED
      BY <3>3, <3>4
  <2>7. ASSUME NEW s \in D
        PROVE  /\ g[s] = IF s = {} THEN base ELSE F[<<g[s \ {Max(s)}], Max(s)>>]
               /\ g[s] \in R
    <3>1. CASE m + 1 \in s
      <4>1. g[s] = last(s) /\ Max(s) = m + 1 /\ s # {}
        BY <2>6, <3>1
      <4>2. g[s \ {m + 1}] = f[s \ {m + 1}]
        BY <2>4, <2>5, <3>1
      <4>3. f[s \ {m + 1}] \in R /\ m + 1 \in 1..n
        BY <2>0, <2>1, <2>4, <3>1
      <4> HIDE DEF g
      <4> QED
        BY <1>0, <4>1, <4>2, <4>3
    <3>2. CASE m + 1 \notin s
      <4>1. s \in SUBSET (1..m) /\ s \ {Max(s)} \in SUBSET (1..m)
        BY <2>3, <3>2
      <4>2. g[s] = f[s] /\ g[s \ {Max(s)}] = f[s \ {Max(s)}]
        BY <2>5, <4>1
      <4> HIDE DEF g
      <4> QED
        BY <2>1, <2>2, <4>1, <4>2
    <3> QED
      BY <3>1, <3>2
  <2>8. g = [s \in D |-> g[s]]
    OBVIOUS
  <2>9. IsFold(g, base, F, m + 1) /\ g \in [D -> R]
    <3> HIDE DEF g
    <3> QED
      BY <2>7, <2>8 DEF IsFold
  <2> HIDE DEF g
  <2> QED
    BY <2>9
<1>3. n \in S
  <2> HIDE DEF S
  <2> QED
    BY <1>1, <1>2, NumbersOfSet
<1>4. P(n)
  <2> HIDE DEF P
  <2> QED
    BY <1>3
<1> QED
  BY <1>4

\* The results of folding F over 1..0, ... 1..n
IsFolded(p, base, F, n) == p[0] = base /\ \A m \in 1..n : p[m] = F[<<p[m - 1], m>>]

\* It goes through the numbers from the first to the last
LEMMA FoldSteps ==
  ASSUME NEW base, NEW F, NEW n \in Nat, NEW R, IsClosed(R, base, F, n),
         NEW it, IsFold(it, base, F, n)
  PROVE  \E p \in [0..n -> R] : IsFolded(p, base, F, n) /\ p[n] = it[1..n]
<1>0. base \in R /\ \A r \in R : \A i \in 1..n : F[<<r, i>>] \in R
  BY DEF IsClosed
<1>1. \A s \in SUBSET (1..n) : it[s] = IF s = {} THEN base ELSE F[<<it[s \ {Max(s)}], Max(s)>>]
  BY DEF IsFold
<1>2. it[1..0] = base
  <2>1. 1..0 = {} /\ 1..0 \in SUBSET (1..n)
    OBVIOUS
  <2> QED
    BY <1>1, <2>1
<1>3. ASSUME NEW m \in 1..n PROVE it[1..m] = F[<<it[1..(m - 1)], m>>]
  <2>1. 1..m \in SUBSET (1..n) /\ 1..m # {} /\ m \in 1..m
    OBVIOUS
  <2>2. Max(1..m) = m
    BY DEF Max
  <2>3. (1..m) \ {m} = 1..(m - 1)
    OBVIOUS
  <2> QED
    BY <1>1, <2>1, <2>2, <2>3
<1> DEFINE S == {m \in Nat : m <= n => it[1..m] \in R}
<1>4. 0 \in S
  BY <1>0, <1>2
<1>5. ASSUME NEW m \in Nat, m \in S PROVE m + 1 \in S
  <2>1. SUFFICES ASSUME m + 1 <= n PROVE it[1..(m + 1)] \in R
    OBVIOUS
  <2>2. m + 1 \in 1..n /\ (m + 1) - 1 = m /\ it[1..m] \in R
    BY <1>5, <2>1
  <2>3. it[1..(m + 1)] = F[<<it[1..m], m + 1>>]
    BY <1>3, <2>2
  <2> QED
    BY <1>0, <2>2, <2>3
<1>6. Nat \subseteq S
  <2> HIDE DEF S
  <2> QED
    BY <1>4, <1>5, NumbersOfSet
<1> DEFINE p == [m \in 0..n |-> it[1..m]]
<1>7. p \in [0..n -> R]
  BY <1>6
<1>8. p[0] = base /\ p[n] = it[1..n]
  BY <1>2
<1>9. \A m \in 1..n : p[m] = F[<<p[m - 1], m>>]
  BY <1>3
<1> HIDE DEF p
<1> QED
  BY <1>7, <1>8, <1>9 DEF IsFolded

\* Sum() adds the numbers of a sequence one after the other
LEMMA SumSteps ==
  ASSUME NEW n \in Nat, NEW s \in [1..n -> Nat]
  PROVE  \E p \in [0..n -> Nat] : /\ p[0] = 0 /\ p[n] = Sum(s)
                                  /\ \A m \in 1..n : p[m] = p[m - 1] + s[m]
<1> DEFINE D == SUBSET (1..n)
           Body(f) == [S \in D |-> IF S = {} THEN 0 ELSE f[S \ {Max(S)}] + s[Max(S)]]
<1>1. PICK it : it = CHOOSE f : f = Body(f)
  OBVIOUS
<1>2. Sum(s) = it[1..n]
  BY <1>1 DEF Sum, FoldLeft, MapThenFoldSet
<1> DEFINE Q == Nat \cup {it[S] : S \in D}
<1>f. PICK F : F = [x \in Q \X (1..n) |-> x[1] + s[x[2]]]
  OBVIOUS
<1>3. \A r \in Q : \A i \in 1..n : F[<<r, i>>] = r + s[i]
  BY <1>f
<1>4. \A r \in Nat : r \in Q
  OBVIOUS
<1>5. \A r \in Nat : \A i \in 1..n : F[<<r, i>>] = r + s[i]
  BY <1>f
<1>6. \A S \in D : S # {} => Max(S) \in 1..n /\ S \ {Max(S)} \in D
  BY MaxIsOneOf
<1>7. \A S \in D : it[S] \in Q
  OBVIOUS
<1> HIDE DEF Q
<1>8. IsClosed(Nat, 0, F, n)
  <2>1. SUFFICES ASSUME NEW r \in Nat, NEW i \in 1..n PROVE F[<<r, i>>] \in Nat
    BY DEF IsClosed
  <2>2. F[<<r, i>>] = r + s[i] /\ s[i] \in Nat
    BY <1>5
  <2> QED
    BY <2>2
<1>9. PICK f \in [D -> Nat] : IsFold(f, 0, F, n)
  BY <1>8, FoldExists
<1>10. f = Body(f)
  BY <1>3, <1>4, <1>6, <1>9 DEF IsFold
<1>11. it = Body(it)
  BY <1>1, <1>10
<1>12. IsFold(it, 0, F, n)
  BY <1>3, <1>6, <1>7, <1>11 DEF IsFold
<1>13. PICK p \in [0..n -> Nat] : IsFolded(p, 0, F, n) /\ p[n] = it[1..n]
  BY <1>8, <1>12, FoldSteps
<1>14. \A m \in 1..n : p[m] = p[m - 1] + s[m]
  <2>1. TAKE m \in 1..n
  <2>2. p[m] = F[<<p[m - 1], m>>] /\ p[m - 1] \in Nat
    BY <1>13 DEF IsFolded
  <2> QED
    BY <1>5, <2>2
<1> QED
  BY <1>2, <1>13, <1>14 DEF IsFolded

\* A sum of consecutive numbers is a difference of sums from the first
LEMMA SumOfRange ==
  ASSUME NEW n \in Nat, NEW s \in [1..n -> Nat], NEW p \in [0..n -> Nat],
         \A m \in 1..n : p[m] = p[m - 1] + s[m],
         NEW a \in 0..n, NEW b \in a..n
  PROVE  p[a] <= p[b] /\ Sum([k \in 1..(b - a) |-> s[a + k]]) = p[b] - p[a]
<1> DEFINE t == [k \in 1..(b - a) |-> s[a + k]]
<1>1. b - a \in Nat /\ t \in [1..(b - a) -> Nat]
  OBVIOUS
<1>t. \A k \in 1..(b - a) : t[k] = s[a + k]
  OBVIOUS
<1> HIDE DEF t
<1>2. PICK q \in [0..(b - a) -> Nat] : /\ q[0] = 0 /\ q[b - a] = Sum(t)
                                      /\ \A m \in 1..(b - a) : q[m] = q[m - 1] + t[m]
  BY <1>1, SumSteps
<1> DEFINE S == {m \in Nat : m <= b - a => q[m] = p[a + m] - p[a]}
<1>3. 0 \in S
  BY <1>2
<1>4. ASSUME NEW m \in Nat, m \in S PROVE m + 1 \in S
  <2>1. SUFFICES ASSUME m + 1 <= b - a PROVE q[m + 1] = p[a + (m + 1)] - p[a]
    OBVIOUS
  <2>2. m + 1 \in 1..(b - a) /\ (m + 1) - 1 = m /\ a + (m + 1) \in 1..n
        /\ (a + (m + 1)) - 1 = a + m /\ a + m \in 0..n /\ a + (m + 1) \in 0..n
    BY <2>1
  <2>3. q[m] = p[a + m] - p[a]
    BY <1>4, <2>1
  <2>4. q[m + 1] = q[m] + s[a + (m + 1)]
    BY <1>2, <1>t, <2>2
  <2>5. p[a + (m + 1)] = p[a + m] + s[a + (m + 1)]
    BY <2>2
  <2>6. s[a + (m + 1)] \in Nat /\ p[a] \in Nat /\ p[a + m] \in Nat
    BY <2>2
  <2> QED
    BY <2>3, <2>4, <2>5, <2>6
<1>5. b - a \in S
  <2> HIDE DEF S
  <2> QED
    BY <1>1, <1>3, <1>4, NumbersOfSet
<1>6. q[b - a] = p[b] - p[a] /\ q[b - a] \in Nat /\ p[a] \in Nat /\ p[b] \in Nat
  BY <1>1, <1>5
<1> QED
  BY <1>2, <1>6 DEF t

\* The lesser of two numbers
LEMMA MinOfTwo ==
  ASSUME NEW a \in Nat, NEW b \in Nat
  PROVE  Min({a, b}) \in Nat /\ Min({a, b}) <= a /\ Min({a, b}) <= b /\ Min({a, b}) \in {a, b}
<1>1. \E x \in {a, b} : \A y \in {a, b} : x <= y
  OBVIOUS
<1> QED
  BY <1>1 DEF Min

\* Is the group after those that end at "ends" closed at chunk c of N, of G groups?  The
\* elements up to c are p[c]
Closes(ends, c, N, G, p) ==
  /\ Len(ends) + 1 < G
  /\ p[c] >= (p[N] * (Len(ends) + 1)) \div G \/ N - c = G - Len(ends) - 1

\* The ends of the groups closed at chunk c or before
IsGrouping(q, N, G, p) ==
  /\ q \in [0..N -> Seq(1..N)]
  /\ q[0] = <<>>
  /\ \A c \in 1..N : q[c] = IF Closes(q[c - 1], c, N, G, p) THEN Append(q[c - 1], c) ELSE q[c - 1]

\* The number of elements of the chunks up to each
IsRunning(p, cs) ==
  /\ p \in [0..Len(cs) -> Nat]
  /\ p[0] = 0
  /\ \A c \in 1..Len(cs) : p[c] = p[c - 1] + NElements(cs[c])

\* GroupChunks() goes through the chunks once
LEMMA GroupSteps ==
  ASSUME NEW X, NEW cs \in Seq(X), cs # <<>>, NEW n \in Nat \ {0},
         \A c \in 1..Len(cs) : NElements(cs[c]) \in Nat
  PROVE  \E p, q : /\ IsRunning(p, cs)
                   /\ IsGrouping(q, Len(cs), Min({n, Len(cs)}), p)
                   /\ GroupChunks(cs, n) = Append(q[Len(cs)], Len(cs))
<1>1. PICK N : N = Len(cs)
  OBVIOUS
<1>2. N \in Nat /\ N >= 1 /\ DOMAIN cs = 1..N
  BY <1>1
<1> DEFINE w == [c \in 1..N |-> NElements(cs[c])]
<1>3. w \in [1..N -> Nat] /\ \A c \in 1..N : w[c] = NElements(cs[c])
  BY <1>1
<1> HIDE DEF w
<1>4. PICK p \in [0..N -> Nat] : /\ p[0] = 0 /\ p[N] = Sum(w)
                                /\ \A m \in 1..N : p[m] = p[m - 1] + w[m]
  BY <1>2, <1>3, SumSteps
<1>5. ASSUME NEW c \in 1..N PROVE Sum([k \in 1..c |-> NElements(cs[k])]) = p[c]
  <2>1. 0 \in 0..N /\ c \in 0..N /\ c - 0 = c /\ p[c] - 0 = p[c]
    BY <1>2
  <2>2. Sum([k \in 1..(c - 0) |-> w[0 + k]]) = p[c] - p[0]
    BY <1>2, <1>3, <1>4, <2>1, SumOfRange
  <2>3. [k \in 1..(c - 0) |-> w[0 + k]] = [k \in 1..c |-> NElements(cs[k])]
    BY <1>2, <1>3
  <2> QED
    BY <1>4, <2>1, <2>2, <2>3
<1>6. Sum([c \in DOMAIN cs |-> NElements(cs[c])]) = p[N]
  BY <1>2, <1>4 DEF w
<1>7. PICK G : G = Min({n, N})
  OBVIOUS
<1>8. G \in Nat /\ G >= 1 /\ Max({1, Min({n, Len(cs)})}) = G
  <2>1. G \in Nat /\ G \in {n, N} /\ G >= 1
    BY <1>2, <1>7, MinOfTwo
  <2>2. Max({1, G}) = G
    BY <2>1 DEF Max
  <2> QED
    BY <1>1, <1>7, <2>1, <2>2
<1> DEFINE R == Seq(1..N)
           D == SUBSET (1..N)
           st(ends, c) == IF Closes(ends, c, N, G, p) THEN Append(ends, c) ELSE ends
           Body(f) == [S \in D |-> IF S = {} THEN <<>> ELSE st(f[S \ {Max(S)}], Max(S))]
           dom == [c \in DOMAIN cs |-> c]
           close(ends, c) ==
             IF /\ Len(ends) + 1 < Max({1, Min({n, Len(cs)})})
                /\ \/ Sum([k \in 1..c |-> NElements(cs[k])])
                        >= (Sum([k \in DOMAIN cs |-> NElements(cs[k])]) * (Len(ends) + 1))
                             \div Max({1, Min({n, Len(cs)})})
                   \/ Len(cs) - c = Max({1, Min({n, Len(cs)})}) - Len(ends) - 1
             THEN Append(ends, c) ELSE ends
           Code(f) == [S \in SUBSET (DOMAIN dom) |->
                         IF S = {} THEN <<>> ELSE close(f[S \ {Max(S)}], dom[Max(S)])]
<1>9. PICK it : it = CHOOSE f : f = Code(f)
  OBVIOUS
<1>10. GroupChunks(cs, n) = Append(it[DOMAIN dom], Len(cs))
  BY <1>9 DEF GroupChunks, FoldLeft, MapThenFoldSet
<1>11. \A S \in D : S # {} => Max(S) \in 1..N /\ S \ {Max(S)} \in D
  BY <1>2, MaxIsOneOf
<1>12. \A ends : \A c \in 1..N : close(ends, c) = st(ends, c)
  BY <1>1, <1>5, <1>6, <1>8 DEF Closes
<1>13. DOMAIN dom = 1..N /\ \A c \in 1..N : dom[c] = c
  BY <1>2
<1> HIDE DEF dom, close, st
<1>14. ASSUME NEW f PROVE Code(f) = Body(f)
  BY <1>11, <1>12, <1>13
<1> DEFINE Q == R \cup {it[S] : S \in D}
<1>15. PICK F : F = [x \in Q \X (1..N) |-> st(x[1], x[2])]
  OBVIOUS
<1>16. \A r \in Q : \A i \in 1..N : F[<<r, i>>] = st(r, i)
  BY <1>15
<1>17. (\A r \in R : r \in Q) /\ \A S \in D : it[S] \in Q
  OBVIOUS
<1>18. \A r \in R : \A i \in 1..N : st(r, i) \in R
  <2>1. SUFFICES ASSUME NEW r \in R, NEW i \in 1..N PROVE st(r, i) \in R
    OBVIOUS
  <2>2. Append(r, i) \in R
    OBVIOUS
  <2> HIDE DEF R
  <2> QED
    BY <2>2 DEF st
<1> HIDE DEF R, Q
<1>19. IsClosed(R, <<>>, F, N)
  <2>1. <<>> \in R
    BY DEF R
  <2> QED
    BY <1>16, <1>17, <1>18, <2>1 DEF IsClosed
<1>20. PICK f \in [D -> R] : IsFold(f, <<>>, F, N)
  BY <1>2, <1>19, FoldExists
<1>21. f = Body(f)
  BY <1>11, <1>16, <1>17, <1>20 DEF IsFold
<1>22. it = Body(it)
  <2>1. f = Code(f)
    BY <1>14, <1>21
  <2>2. it = Code(it)
    <3> HIDE DEF Code
    <3> QED
      BY <1>9, <2>1
  <2> QED
    BY <1>14, <2>2
<1>23. IsFold(it, <<>>, F, N)
  BY <1>11, <1>16, <1>17, <1>22 DEF IsFold
<1>24. PICK q \in [0..N -> R] : IsFolded(q, <<>>, F, N) /\ q[N] = it[1..N]
  BY <1>2, <1>19, <1>23, FoldSteps
<1>25. \A c \in 1..N : q[c] = st(q[c - 1], c)
  <2>1. SUFFICES ASSUME NEW c \in 1..N PROVE q[c] = st(q[c - 1], c)
    OBVIOUS
  <2>2. c - 1 \in 0..N /\ q[c - 1] \in R
    BY <1>2, <1>24
  <2> QED
    BY <1>16, <1>17, <1>24, <2>2 DEF IsFolded
<1>26. IsGrouping(q, N, G, p)
  BY <1>24, <1>25 DEF IsGrouping, IsFolded, st, R
<1>27. IsRunning(p, cs)
  BY <1>1, <1>3, <1>4 DEF IsRunning
<1> QED
  BY <1>1, <1>7, <1>10, <1>13, <1>24, <1>26, <1>27

\* The quotient of a sum
LEMMA QuotientOfSum ==
  ASSUME NEW a \in Nat, NEW b \in Nat, NEW G \in Nat, G >= 1
  PROVE  /\ a \div G \in Nat /\ b \div G \in Nat /\ (a + b) \div G \in Nat
         /\ (a + b) \div G <= a \div G + b \div G + 1
<1>1. PICK x \in Nat : x = a \div G
  OBVIOUS
<1>2. PICK y \in Nat : y = b \div G
  OBVIOUS
<1>3. PICK z \in Nat : z = (a + b) \div G
  OBVIOUS
<1>4. PICK u \in Nat : u = a % G /\ u < G /\ a = G * x + u
  BY <1>1
<1>5. PICK v \in Nat : v = b % G /\ v < G /\ b = G * y + v
  BY <1>2
<1>6. PICK r \in Nat : r = (a + b) % G /\ a + b = G * z + r
  BY <1>3
<1>7. G * z < G * x + G * y + 2 * G
  BY <1>4, <1>5, <1>6
<1>8. ASSUME z >= x + y + 2 PROVE FALSE
  <2>1. PICK d \in Nat : z = x + y + 2 + d
    BY <1>8
  <2>2. G * z = G * x + G * y + 2 * G + G * d
    BY <2>1
  <2>3. G * d \in Nat
    BY <2>1
  <2> QED
    BY <1>7, <2>2, <2>3
<1> QED
  BY <1>1, <1>2, <1>3, <1>8

\* A group's share of T elements
LEMMA Quota ==
  ASSUME NEW T \in Nat, NEW G \in Nat, G >= 1, NEW m \in Nat
  PROVE  /\ (T * m) \div G \in Nat /\ (T * (m + 1)) \div G \in Nat /\ T \div G \in Nat
         /\ (T * (m + 1)) \div G <= (T * m) \div G + T \div G + 1
         /\ (T * 0) \div G = 0 /\ (T * G) \div G = T
<1>1. T * m \in Nat /\ T * (m + 1) = T * m + T
  OBVIOUS
<1>2. (T * 0) \div G = 0
  OBVIOUS
<1>3. (T * G) \div G = T
  OBVIOUS
<1> QED
  BY <1>1, <1>2, <1>3, QuotientOfSum

\* Between two quotas
LEMMA BetweenQuotas ==
  ASSUME NEW a \in Nat, NEW b \in Nat, NEW x \in Nat, NEW y \in Nat, NEW z \in Nat,
         b <= y, a >= x, y <= x + z + 1
  PROVE  b - a <= z + 1
OBVIOUS

\* Where group g starts
Start(ends, g) == IF g = 1 THEN 0 ELSE ends[g - 1]

\* Once chunk c has been looked at: enough chunks are left for the groups that are not
\* closed; a closed group had its share with its last chunk at the earliest; and the group
\* that is open starts at its quota, unless each of the chunks left is a group
GroupingInv(ends, c, N, G, p) ==
  LET m == Len(ends)
      s == Start(ends, m + 1)
  IN  /\ m + 1 <= G
      /\ m + 1 < G => N - c >= G - m
      /\ s \in 0..c
      /\ p[s] >= (p[N] * m) \div G \/ N - s = G - m
      /\ s < c /\ m + 1 < G => p[c] < (p[N] * (m + 1)) \div G
      /\ \A g \in 1..m : /\ Start(ends, g) \in 0..(ends[g] - 1) /\ ends[g] \in 1..c
                         /\ N - ends[g] >= G - g
                         /\ p[ends[g] - 1] - p[Start(ends, g)] <= p[N] \div G + 1

\* A group that stays open
LEMMA StaysOpen ==
  ASSUME NEW N \in Nat, NEW G \in Nat, G >= 1, NEW p \in [0..N -> Nat],
         NEW c \in 1..N, NEW ends \in Seq(1..N), GroupingInv(ends, c - 1, N, G, p),
         ~ Closes(ends, c, N, G, p)
  PROVE  GroupingInv(ends, c, N, G, p)
<1>1. PICK m \in Nat : m = Len(ends)
  OBVIOUS
<1>2. PICK s : s = Start(ends, m + 1)
  OBVIOUS
<1>3. /\ m + 1 <= G
      /\ m + 1 < G => N - (c - 1) >= G - m
      /\ s \in 0..(c - 1)
      /\ p[s] >= (p[N] * m) \div G \/ N - s = G - m
      /\ \A g \in 1..m : /\ Start(ends, g) \in 0..(ends[g] - 1) /\ ends[g] \in 1..(c - 1)
                         /\ N - ends[g] >= G - g
                         /\ p[ends[g] - 1] - p[Start(ends, g)] <= p[N] \div G + 1
  BY <1>1, <1>2 DEF GroupingInv
<1>4. m + 1 < G => /\ ~ (p[c] >= (p[N] * (m + 1)) \div G)
                   /\ N - c # G - m - 1
  BY <1>1 DEF Closes
<1>5. m + 1 < G => N - c >= G - m
  BY <1>3, <1>4
<1>6. m + 1 < G => p[c] < (p[N] * (m + 1)) \div G
  <2>1. c \in 0..N /\ N \in 0..N
    OBVIOUS
  <2>2. p[c] \in Nat /\ p[N] \in Nat
    BY <2>1
  <2>3. (p[N] * (m + 1)) \div G \in Nat
    BY <2>2, Quota
  <2> QED
    BY <1>4, <2>2, <2>3
<1>7. s \in 0..c /\ \A e \in 1..(c - 1) : e \in 1..c
  BY <1>3
<1> QED
  BY <1>1, <1>2, <1>3, <1>5, <1>6, <1>7 DEF GroupingInv

\* A group that is closed
LEMMA IsClosedAt ==
  ASSUME NEW N \in Nat, NEW G \in Nat, G >= 1, NEW p \in [0..N -> Nat],
         NEW c \in 1..N, NEW ends \in Seq(1..N), GroupingInv(ends, c - 1, N, G, p),
         Closes(ends, c, N, G, p)
  PROVE  GroupingInv(Append(ends, c), c, N, G, p)
<1>1. PICK m \in Nat : m = Len(ends)
  OBVIOUS
<1>2. PICK s : s = Start(ends, m + 1)
  OBVIOUS
<1>3. /\ N - (c - 1) >= G - m
      /\ s \in 0..(c - 1)
      /\ p[s] >= (p[N] * m) \div G \/ N - s = G - m
      /\ s < c - 1 => p[c - 1] < (p[N] * (m + 1)) \div G
      /\ \A g \in 1..m : /\ Start(ends, g) \in 0..(ends[g] - 1) /\ ends[g] \in 1..(c - 1)
                         /\ N - ends[g] >= G - g
                         /\ p[ends[g] - 1] - p[Start(ends, g)] <= p[N] \div G + 1
  BY <1>1, <1>2 DEF GroupingInv, Closes
<1>4. /\ m + 1 < G
      /\ p[c] >= (p[N] * (m + 1)) \div G \/ N - c = G - (m + 1)
  BY <1>1 DEF Closes
<1>5. PICK new \in Seq(1..N) : new = Append(ends, c)
  <2>1. Append(ends, c) \in Seq(1..N)
    OBVIOUS
  <2> QED
    BY <2>1
<1>6. Len(new) = m + 1 /\ new[m + 1] = c /\ \A g \in 1..m : new[g] = ends[g]
  BY <1>1, <1>5
<1>7. Start(new, (m + 1) + 1) = c
  BY <1>6 DEF Start
<1>8. \A g \in 1..m : Start(new, g) = Start(ends, g)
  BY <1>6 DEF Start
<1>9. Start(new, m + 1) = s
  <2>1. CASE m = 0
    BY <1>2, <2>1 DEF Start
  <2>2. CASE m # 0
    <3>1. m \in 1..m /\ (m + 1) - 1 = m /\ m + 1 # 1
      BY <2>2
    <3> QED
      BY <1>2, <1>6, <3>1 DEF Start
  <2> QED
    BY <2>1, <2>2
<1>10. p[c - 1] - p[s] <= p[N] \div G + 1
  <2>1. c - 1 \in 0..N /\ s \in 0..N /\ N \in 0..N
    BY <1>3
  <2>2. p[c - 1] \in Nat /\ p[s] \in Nat /\ p[N] \in Nat
    BY <2>1
  <2>3. /\ (p[N] * m) \div G \in Nat /\ (p[N] * (m + 1)) \div G \in Nat /\ p[N] \div G \in Nat
        /\ (p[N] * (m + 1)) \div G <= (p[N] * m) \div G + p[N] \div G + 1
    BY <2>2, Quota
  <2>4. CASE s = c - 1
    BY <2>2, <2>3, <2>4
  <2>5. CASE s < c - 1
    <3>1. p[s] >= (p[N] * m) \div G
      BY <1>3, <2>5
    <3>2. p[c - 1] <= (p[N] * (m + 1)) \div G
      <4>1. PICK y \in Nat : y = (p[N] * (m + 1)) \div G
        BY <2>3
      <4>2. p[c - 1] < y
        BY <1>3, <2>5, <4>1
      <4>3. p[c - 1] <= y
        BY <2>2, <4>2
      <4> QED
        BY <4>1, <4>3
    <3> QED
      BY <2>2, <2>3, <3>1, <3>2, BetweenQuotas
  <2> QED
    BY <1>3, <2>4, <2>5
<1>11. N - c >= G - (m + 1) /\ s \in 0..(c - 1) /\ c \in 1..c
  BY <1>3
<1>12. ASSUME NEW g \in 1..(m + 1)
       PROVE  /\ Start(new, g) \in 0..(new[g] - 1) /\ new[g] \in 1..c
              /\ N - new[g] >= G - g
              /\ p[new[g] - 1] - p[Start(new, g)] <= p[N] \div G + 1
  <2>1. CASE g = m + 1
    BY <1>6, <1>9, <1>10, <1>11, <2>1
  <2>2. CASE g \in 1..m
    <3>1. new[g] = ends[g] /\ Start(new, g) = Start(ends, g)
      BY <1>6, <1>8, <2>2
    <3>2. ends[g] \in 1..c
      BY <1>3, <2>2
    <3> QED
      BY <1>3, <2>2, <3>1, <3>2
  <2> QED
    BY <2>1, <2>2
<1>13. c \in 0..c /\ (m + 1) + 1 <= G /\ ~ (c < c)
  BY <1>4
<1>14. GroupingInv(new, c, N, G, p)
  BY <1>4, <1>6, <1>7, <1>11, <1>12, <1>13 DEF GroupingInv
<1> QED
  BY <1>5, <1>14

\* The groups that GroupChunks() closes, and the last
LEMMA GroupsEven ==
  ASSUME NEW N \in Nat, N >= 1, NEW G \in 1..N, NEW p \in [0..N -> Nat],
         \A a \in 0..N : p[a] <= p[N],
         NEW q, IsGrouping(q, N, G, p), NEW ends, ends = Append(q[N], N)
  PROVE  /\ ends \in Seq(1..N) /\ Len(ends) = G /\ ends[G] = N
         /\ \A g \in 1..G : /\ Start(ends, g) \in 0..(ends[g] - 1)
                            /\ p[ends[g] - 1] - p[Start(ends, g)] <= p[N] \div G + 1
<1>0. G \in Nat /\ G >= 1
  OBVIOUS
<1> DEFINE S == {c \in Nat : c <= N => GroupingInv(q[c], c, N, G, p)}
<1>1. 0 \in S
  <2>1. q[0] = <<>> /\ Len(<<>>) = 0 /\ Start(<<>>, 0 + 1) = 0
    BY DEF IsGrouping, Start
  <2>2. 0 \in 0..N /\ N \in 0..N
    OBVIOUS
  <2>3. p[0] \in Nat /\ p[N] \in Nat
    BY <2>2
  <2>4. p[0] >= (p[N] * 0) \div G
    <3>1. (p[N] * 0) \div G = 0
      BY <1>0, <2>3, Quota
    <3> QED
      BY <2>3, <3>1
  <2>5. GroupingInv(<<>>, 0, N, G, p)
    BY <2>1, <2>4 DEF GroupingInv
  <2> QED
    BY <2>1, <2>5
<1>2. ASSUME NEW c \in Nat, c \in S PROVE c + 1 \in S
  <2>1. SUFFICES ASSUME c + 1 <= N PROVE GroupingInv(q[c + 1], c + 1, N, G, p)
    OBVIOUS
  <2>2. c + 1 \in 1..N /\ (c + 1) - 1 = c /\ c \in 0..N
    BY <2>1
  <2>3. GroupingInv(q[c], (c + 1) - 1, N, G, p) /\ q[c] \in Seq(1..N)
    BY <1>2, <2>1, <2>2 DEF IsGrouping
  <2>4. q[c + 1] = IF Closes(q[c], c + 1, N, G, p) THEN Append(q[c], c + 1) ELSE q[c]
    BY <2>2 DEF IsGrouping
  <2> QED
    BY <1>0, <2>2, <2>3, <2>4, StaysOpen, IsClosedAt
<1>3. GroupingInv(q[N], N, N, G, p)
  <2> HIDE DEF S
  <2>1. N \in S
    BY <1>1, <1>2, NumbersOfSet
  <2> QED
    BY <2>1 DEF S
<1>4. PICK last \in Seq(1..N) : last = q[N]
  BY DEF IsGrouping
<1>5. PICK m \in Nat : m = Len(last)
  BY <1>4
<1>6. m = G - 1
  <2>1. m + 1 <= G /\ (m + 1 < G => N - N >= G - m)
    BY <1>3, <1>4, <1>5 DEF GroupingInv
  <2> QED
    BY <1>0, <2>1
<1>7. PICK s : s = Start(last, m + 1)
  OBVIOUS
<1>8. /\ s \in 0..N
      /\ p[s] >= (p[N] * m) \div G \/ N - s = G - m
      /\ \A g \in 1..m : /\ Start(last, g) \in 0..(last[g] - 1) /\ last[g] \in 1..N
                         /\ N - last[g] >= G - g
                         /\ p[last[g] - 1] - p[Start(last, g)] <= p[N] \div G + 1
  BY <1>3, <1>4, <1>5, <1>7 DEF GroupingInv
<1>9. ends \in Seq(1..N) /\ Len(ends) = G /\ ends[G] = N /\ \A g \in 1..m : ends[g] = last[g]
  <2>1. ends = Append(last, N) /\ N \in 1..N /\ m + 1 = G
    BY <1>0, <1>4, <1>6
  <2>2. ends \in Seq(1..N) /\ Len(ends) = m + 1 /\ ends[m + 1] = N /\ \A g \in 1..m : ends[g] = last[g]
    BY <1>5, <2>1
  <2> QED
    BY <2>1, <2>2
<1>10. \A g \in 1..m : Start(ends, g) = Start(last, g)
  <2>1. TAKE g \in 1..m
  <2>2. g # 1 => g - 1 \in 1..m
    OBVIOUS
  <2> QED
    BY <1>9, <2>2 DEF Start
<1>11. Start(ends, G) = s
  BY <1>0, <1>6, <1>7, <1>9 DEF Start
<1>12. s <= N - 1
  <2>1. CASE m = 0
    BY <1>7, <2>1 DEF Start
  <2>2. CASE m # 0
    <3>1. m \in 1..m /\ s = last[m]
      BY <1>5, <1>7, <2>2 DEF Start
    <3> QED
      BY <1>6, <1>8, <3>1
  <2> QED
    BY <2>1, <2>2
<1>13. p[N - 1] - p[s] <= p[N] \div G + 1
  <2>1. N - 1 \in 0..N /\ s \in 0..N /\ N \in 0..N
    BY <1>8
  <2>2. p[N - 1] \in Nat /\ p[s] \in Nat /\ p[N] \in Nat /\ p[N - 1] <= p[N]
    BY <2>1
  <2>3. /\ (p[N] * m) \div G \in Nat /\ (p[N] * (m + 1)) \div G \in Nat /\ p[N] \div G \in Nat
        /\ (p[N] * (m + 1)) \div G <= (p[N] * m) \div G + p[N] \div G + 1
        /\ (p[N] * G) \div G = p[N]
    BY <1>0, <2>2, Quota
  <2>4. m + 1 = G
    BY <1>0, <1>6
  <2>5. CASE N - s = G - m
    <3>1. s = N - 1
      BY <1>6, <1>8, <2>5, <1>0
    <3> QED
      BY <2>2, <2>3, <3>1
  <2>6. CASE p[s] >= (p[N] * m) \div G
    BY <2>2, <2>3, <2>4, <2>6, BetweenQuotas
  <2> QED
    BY <1>8, <2>5, <2>6
<1>14. ASSUME NEW g \in 1..G
       PROVE  /\ Start(ends, g) \in 0..(ends[g] - 1)
              /\ p[ends[g] - 1] - p[Start(ends, g)] <= p[N] \div G + 1
  <2>1. CASE g = G
    <3>1. s \in 0..(N - 1)
      BY <1>8, <1>12
    <3> QED
      BY <1>9, <1>11, <1>13, <2>1, <3>1
  <2>2. CASE g \in 1..m
    BY <1>8, <1>9, <1>10, <2>2
  <2>3. g = G \/ g \in 1..m
    BY <1>0, <1>6
  <2> QED
    BY <2>1, <2>2, <2>3
<1> QED
  BY <1>9, <1>14

-----------------------------------------------------------------------------
(* The chunks of a partition, and that each has a number of elements *)

\* FlattenSeq() gives a sequence of what the sequences hold
LEMMA FlattenType ==
  ASSUME NEW S, NEW ss \in Seq(Seq(S)) PROVE FlattenSeq(ss) \in Seq(S)
<1>1. CASE Len(ss) = 0
  <2>1. FlattenSeq(ss) = ss /\ ss = <<>>
    BY <1>1 DEF FlattenSeq
  <2> QED
    BY <2>1
<1>2. CASE Len(ss) # 0
  <2>1. PICK n \in Nat : n = Len(ss) /\ n >= 1
    BY <1>2
  <2> DEFINE Body(f) == [i \in 1..Len(ss) |-> IF i = 1 THEN ss[i] ELSE f[i - 1] \o ss[i]]
             R == Seq(S)
  <2>2. PICK g : g = CHOOSE f : f = Body(f)
    OBVIOUS
  <2>3. FlattenSeq(ss) = g[n]
    BY <1>2, <2>1, <2>2 DEF FlattenSeq
  <2>4. PICK F : F = [x \in R \X (1..n) |-> x[1] \o ss[x[2]]]
    OBVIOUS
  <2>a. \A i \in 1..n : ss[i] \in R
    BY <2>1
  <2>b. \A r, s \in R : r \o s \in R
    OBVIOUS
  <2>5. \A r \in R : \A i \in 1..n : F[<<r, i>>] = r \o ss[i] /\ ss[i] \in R /\ r \o ss[i] \in R
    <3> HIDE DEF R
    <3> QED
      BY <2>a, <2>b, <2>4
  <2>6. <<>> \in R /\ \A r \in R : <<>> \o r = r
    OBVIOUS
  <2> HIDE DEF R
  <2>7. IsClosed(R, <<>>, F, n)
    BY <2>5, <2>6 DEF IsClosed
  <2>8. PICK it \in [SUBSET (1..n) -> R] : IsFold(it, <<>>, F, n)
    BY <2>1, <2>7, FoldExists
  <2>9. PICK p \in [0..n -> R] : IsFolded(p, <<>>, F, n)
    BY <2>1, <2>7, <2>8, FoldSteps
  <2>10. \A i \in 1..n : p[i] = IF i = 1 THEN ss[i] ELSE p[i - 1] \o ss[i]
    <3>1. SUFFICES ASSUME NEW i \in 1..n
                   PROVE  p[i] = IF i = 1 THEN ss[i] ELSE p[i - 1] \o ss[i]
      OBVIOUS
    <3>2. i - 1 \in 0..n /\ p[i - 1] \in R /\ p[i] = F[<<p[i - 1], i>>]
      BY <2>1, <2>9 DEF IsFolded
    <3>3. p[i] = p[i - 1] \o ss[i] /\ ss[i] \in R
      BY <2>5, <3>2
    <3>4. i = 1 => p[i - 1] = <<>>
      BY <2>9 DEF IsFolded
    <3> QED
      BY <2>6, <3>3, <3>4
  <2> DEFINE h == [i \in 1..n |-> p[i]]
  <2>11. h = Body(h)
    <3>1. \A i \in 1..n : h[i] = p[i] /\ (i # 1 => i - 1 \in 1..n /\ h[i - 1] = p[i - 1])
      BY <2>1
    <3>2. \A i \in 1..n : h[i] = IF i = 1 THEN ss[i] ELSE h[i - 1] \o ss[i]
      BY <2>10, <3>1
    <3>3. h = [i \in 1..n |-> h[i]]
      OBVIOUS
    <3> HIDE DEF h
    <3> QED
      BY <2>1, <3>2, <3>3
  <2>12. g = Body(g)
    <3> HIDE DEF Body, h
    <3> QED
      BY <2>2, <2>11
  <2>13. \A i \in 1..n : g[i] = IF i = 1 THEN ss[i] ELSE g[i - 1] \o ss[i]
    BY <2>1, <2>12
  <2> DEFINE T == {m \in Nat : m + 1 <= n => g[m + 1] \in R}
  <2>14. 0 \in T
    <3>1. 1 \in 1..n /\ 0 + 1 = 1
      BY <2>1
    <3>2. g[1] = ss[1]
      BY <2>13, <3>1
    <3> QED
      BY <2>a, <3>1, <3>2
  <2>15. ASSUME NEW m \in Nat, m \in T PROVE m + 1 \in T
    <3>1. SUFFICES ASSUME (m + 1) + 1 <= n PROVE g[(m + 1) + 1] \in R
      OBVIOUS
    <3>2. g[m + 1] \in R /\ (m + 1) + 1 \in 1..n /\ (m + 1) + 1 # 1
          /\ ((m + 1) + 1) - 1 = m + 1
      BY <2>15, <3>1
    <3>3. g[(m + 1) + 1] = g[m + 1] \o ss[(m + 1) + 1]
      BY <2>13, <3>2
    <3>4. ss[(m + 1) + 1] \in Seq(S)
      BY <2>1, <3>2
    <3> QED
      BY <3>2, <3>3, <3>4 DEF R
  <2>16. n - 1 \in T
    <3>1. n - 1 \in Nat
      BY <2>1
    <3> HIDE DEF T
    <3> QED
      BY <2>14, <2>15, <3>1, NumbersOfSet
  <2>17. g[n] \in R
    <3>1. (n - 1) + 1 = n
      BY <2>1
    <3> QED
      BY <2>1, <2>16, <3>1
  <2> QED
    BY <2>3, <2>17 DEF R
<1> QED
  BY <1>1, <1>2

\* Product() multiplies them
LEMMA ProductSteps ==
  ASSUME NEW n \in Nat, NEW s \in [1..n -> Nat]
  PROVE  \E p \in [0..n -> Nat] : /\ p[0] = 1 /\ p[n] = Product(s)
                                  /\ \A m \in 1..n : p[m] = p[m - 1] * s[m]
<1> DEFINE D == SUBSET (1..n)
           Body(f) == [S \in D |-> IF S = {} THEN 1 ELSE f[S \ {Max(S)}] * s[Max(S)]]
<1>1. PICK it : it = CHOOSE f : f = Body(f)
  OBVIOUS
<1>2. Product(s) = it[1..n]
  BY <1>1 DEF Product, FoldLeft, MapThenFoldSet
<1> DEFINE Q == Nat \cup {it[S] : S \in D}
<1>f. PICK F : F = [x \in Q \X (1..n) |-> x[1] * s[x[2]]]
  OBVIOUS
<1>3. \A r \in Q : \A i \in 1..n : F[<<r, i>>] = r * s[i]
  BY <1>f
<1>4. \A r \in Nat : r \in Q
  OBVIOUS
<1>5. \A r \in Nat : \A i \in 1..n : F[<<r, i>>] = r * s[i]
  BY <1>f
<1>6. \A S \in D : S # {} => Max(S) \in 1..n /\ S \ {Max(S)} \in D
  BY MaxIsOneOf
<1>7. \A S \in D : it[S] \in Q
  OBVIOUS
<1> HIDE DEF Q
<1>8. IsClosed(Nat, 1, F, n)
  <2>1. SUFFICES ASSUME NEW r \in Nat, NEW i \in 1..n PROVE F[<<r, i>>] \in Nat
    BY DEF IsClosed
  <2>2. F[<<r, i>>] = r * s[i] /\ s[i] \in Nat
    BY <1>5
  <2>3. \A x, y \in Nat : x * y \in Nat
    OBVIOUS
  <2> QED
    BY <2>2, <2>3
<1>9. PICK f \in [D -> Nat] : IsFold(f, 1, F, n)
  BY <1>8, FoldExists
<1>10. f = Body(f)
  BY <1>3, <1>4, <1>6, <1>9 DEF IsFold
<1>11. it = Body(it)
  BY <1>1, <1>10
<1>12. IsFold(it, 1, F, n)
  BY <1>3, <1>6, <1>7, <1>11 DEF IsFold
<1>13. PICK p \in [0..n -> Nat] : IsFolded(p, 1, F, n) /\ p[n] = it[1..n]
  BY <1>8, <1>12, FoldSteps
<1>14. \A m \in 1..n : p[m] = p[m - 1] * s[m]
  <2>1. TAKE m \in 1..n
  <2>2. p[m] = F[<<p[m - 1], m>>] /\ p[m - 1] \in Nat
    BY <1>13 DEF IsFolded
  <2> QED
    BY <1>5, <2>2
<1> QED
  BY <1>2, <1>13, <1>14 DEF IsFolded


\* A product of numbers is a number
LEMMA ProductType ==
  ASSUME NEW s \in Seq(Nat) PROVE Product(s) \in Nat
<1>1. PICK n \in Nat : n = Len(s)
  OBVIOUS
<1>2. s \in [1..n -> Nat]
  BY <1>1
<1>3. n \in 0..n
  BY <1>1
<1> QED
  BY <1>1, <1>2, <1>3, ProductSteps

SpanPair == {pair \in [disk : Seq(Int), mem : Seq(Int)] : Len(pair.mem) = Len(pair.disk)}

\* Part of a sequence
LEMMA SubSeqType ==
  ASSUME NEW S, NEW s \in Seq(S), NEW m \in Nat \ {0}, NEW n \in Int, n <= Len(s)
  PROVE  SubSeq(s, m, n) \in Seq(S) /\ Len(SubSeq(s, m, n)) = IF m <= n THEN n - m + 1 ELSE 0
<1>1. SubSeq(s, m, n) = [i \in 1..(n - m + 1) |-> s[i + m - 1]]
  OBVIOUS
<1>2. \A i \in 1..(n - m + 1) : s[i + m - 1] \in S
  OBVIOUS
<1> DEFINE f == [i \in 1..(n - m + 1) |-> s[i + m - 1]]
<1>3. CASE n - m + 1 >= 0
  <2>1. n - m + 1 \in Nat
    BY <1>3
  <2> QED
    BY <1>1, <1>2, <2>1
<1>4. CASE n - m + 1 < 0
  <2>1. 1..(n - m + 1) = {} /\ 1..0 = {}
    BY <1>4
  <2>2. f = [i \in 1..0 |-> s[i + m - 1]]
    BY <2>1
  <2>3. f \in Seq(S) /\ Len(f) = 0
    <3>1. [i \in 1..0 |-> s[i + m - 1]] = <<>>
      OBVIOUS
    <3>2. <<>> \in Seq(S) /\ Len(<<>>) = 0
      OBVIOUS
    <3> HIDE DEF f
    <3> QED
      BY <2>2, <3>1, <3>2
  <2>4. ~ (m <= n)
    BY <1>4
  <2> HIDE DEF f
  <2> QED
    BY <1>1, <2>3, <2>4 DEF f
<1> QED
  BY <1>3, <1>4

\* What a pair is cut into
LEMMA CutType ==
  ASSUME NEW pair \in SpanPair, NEW cuts
  PROVE  CutPair(pair, cuts) \in Seq(SpanPair)
<1>1. PICK n \in Nat : n = Len(pair.disk)
  BY DEF SpanPair
<1> DEFINE Body(f) == [p \in 0..Len(pair.disk) |->
                         IF p = 0 THEN <<0>>
                         ELSE IF p \in cuts THEN Append(f[p - 1], p) ELSE f[p - 1]]
           R == Seq(0..n)
<1>2. PICK f : f = CHOOSE g : g = Body(g)
  OBVIOUS
<1> DEFINE starts == f[Len(pair.disk)]
           end(k) == IF k = Len(starts) THEN Len(pair.disk) ELSE starts[k + 1]
<1>3. CutPair(pair, cuts) =
        [k \in DOMAIN starts |-> [disk |-> SubSeq(pair.disk, starts[k] + 1, end(k)),
                                  mem |-> SubSeq(pair.mem, starts[k] + 1, end(k))]]
  BY <1>2 DEF CutPair
<1>4. PICK F : F = [x \in R \X (1..n) |-> IF x[2] \in cuts THEN Append(x[1], x[2]) ELSE x[1]]
  OBVIOUS
<1>a. \A r \in R : \A i \in 1..n : Append(r, i) \in R
  <2>1. \A i \in 1..n : i \in 0..n
    OBVIOUS
  <2> QED
    BY <2>1
<1>b. <<0>> \in R
  OBVIOUS
<1> HIDE DEF R
<1>5. \A r \in R : \A i \in 1..n : F[<<r, i>>] = IF i \in cuts THEN Append(r, i) ELSE r
  BY <1>4
<1>6. IsClosed(R, <<0>>, F, n)
  BY <1>5, <1>a, <1>b DEF IsClosed
<1>7. PICK it \in [SUBSET (1..n) -> R] : IsFold(it, <<0>>, F, n)
  BY <1>1, <1>6, FoldExists
<1>8. PICK p \in [0..n -> R] : IsFolded(p, <<0>>, F, n)
  BY <1>1, <1>6, <1>7, FoldSteps
<1>9. p = Body(p)
  <2>1. ASSUME NEW i \in 0..n
        PROVE  p[i] = IF i = 0 THEN <<0>>
                      ELSE IF i \in cuts THEN Append(p[i - 1], i) ELSE p[i - 1]
    <3>1. CASE i = 0
      BY <1>8, <3>1 DEF IsFolded
    <3>2. CASE i # 0
      <4>1. i \in 1..n /\ i - 1 \in 0..n
        BY <1>1, <3>2
      <4>2. p[i - 1] \in R /\ p[i] = F[<<p[i - 1], i>>]
        BY <1>8, <4>1 DEF IsFolded
      <4> QED
        BY <1>5, <3>2, <4>1, <4>2
    <3> QED
      BY <3>1, <3>2
  <2> QED
    BY <1>1, <2>1
<1>10. f = Body(f)
  <2> HIDE DEF Body
  <2> QED
    BY <1>2, <1>9
<1>11. \A i \in 0..n : f[i] = IF i = 0 THEN <<0>>
                              ELSE IF i \in cuts THEN Append(f[i - 1], i) ELSE f[i - 1]
  <2> HIDE DEF starts
  <2> QED
    BY <1>1, <1>10
<1> DEFINE T == {m \in Nat : m <= n => f[m] \in R}
<1>12. 0 \in T
  <2>1. 0 \in 0..n
    BY <1>1
  <2> QED
    BY <1>11, <1>b, <2>1
<1>13. ASSUME NEW m \in Nat, m \in T PROVE m + 1 \in T
  <2>1. SUFFICES ASSUME m + 1 <= n PROVE f[m + 1] \in R
    OBVIOUS
  <2>2. f[m] \in R /\ m + 1 \in 0..n /\ m + 1 \in 1..n /\ m + 1 # 0 /\ (m + 1) - 1 = m
    BY <1>13, <2>1
  <2> QED
    BY <1>11, <1>a, <2>2
<1>14. f[n] \in R
  <2>1. n \in T
    <3> HIDE DEF T
    <3> QED
      BY <1>1, <1>12, <1>13, NumbersOfSet
  <2> QED
    BY <2>1
<1>15. PICK st \in Seq(0..n) : st = starts
  BY <1>1, <1>14 DEF R
<1>16. PICK len \in Nat : len = Len(st) /\ DOMAIN st = 1..len
  BY <1>15
<1> HIDE DEF starts
<1>17. ASSUME NEW k \in 1..len
       PROVE  [disk |-> SubSeq(pair.disk, starts[k] + 1, end(k)),
               mem |-> SubSeq(pair.mem, starts[k] + 1, end(k))] \in SpanPair
  <2>1. starts[k] \in 0..n
    BY <1>15, <1>16
  <2>2. end(k) \in Int /\ end(k) <= n
    <3>1. CASE k = len
      BY <1>1, <1>15, <1>16, <3>1
    <3>2. CASE k # len
      <4>1. k + 1 \in 1..len
        BY <3>2
      <4>2. starts[k + 1] \in 0..n
        BY <1>15, <1>16, <4>1
      <4> QED
        BY <1>15, <1>16, <3>2, <4>2
    <3> QED
      BY <3>1, <3>2
  <2>3. starts[k] + 1 \in Nat \ {0}
    BY <2>1
  <2>4. pair.disk \in Seq(Int) /\ pair.mem \in Seq(Int) /\ Len(pair.mem) = n /\ Len(pair.disk) = n
    BY <1>1 DEF SpanPair
  <2> HIDE DEF end
  <2>5. /\ SubSeq(pair.disk, starts[k] + 1, end(k)) \in Seq(Int)
        /\ SubSeq(pair.mem, starts[k] + 1, end(k)) \in Seq(Int)
        /\ Len(SubSeq(pair.mem, starts[k] + 1, end(k))) = Len(SubSeq(pair.disk, starts[k] + 1, end(k)))
    BY <2>2, <2>3, <2>4, SubSeqType
  <2> QED
    BY <2>5 DEF SpanPair
<1> DEFINE piece(k) == [disk |-> SubSeq(pair.disk, starts[k] + 1, end(k)),
                        mem |-> SubSeq(pair.mem, starts[k] + 1, end(k))]
<1>18. CutPair(pair, cuts) = [k \in 1..len |-> piece(k)]
  BY <1>3, <1>15, <1>16
<1>19. \A k \in 1..len : piece(k) \in SpanPair
  BY <1>17
<1> HIDE DEF piece
<1>20. [k \in 1..len |-> piece(k)] \in Seq(SpanPair)
  BY <1>19
<1> QED
  BY <1>18, <1>20

\* The disk indices of the pair are in order
Ascends(pair) == \A k, l \in 1..Len(pair.disk) : k < l => pair.disk[k] <= pair.disk[l]

\* Sorting permutes the indices
LEMMA SortedType ==
  ASSUME NEW ids \in Seq(Int)
  PROVE  LET pair == MakeSortedIndices(ids)
         IN  /\ pair \in SpanPair /\ Len(pair.disk) = Len(ids)
             /\ \A k \in 1..Len(ids) : /\ pair.mem[k] \in 0..(Len(ids) - 1)
                                       /\ pair.disk[k] = ids[pair.mem[k] + 1]
                                       /\ \A l \in 1..Len(ids) : pair.mem[k] = pair.mem[l] => k = l
             /\ Ascends(pair)
<1> DEFINE n == Len(ids)
<1>1. n \in Nat /\ DOMAIN ids = 1..n
  OBVIOUS
<1> DEFINE indices == 0..(n - 1)
           before(i) == {j \in indices : \/ ids[j + 1] < ids[i + 1]
                                         \/ ids[j + 1] = ids[i + 1] /\ j < i}
           mem == [k \in 1..n |-> CHOOSE i \in indices : Cardinality(before(i)) = k - 1]
           disk == [i \in 1..n |-> ids[mem[i] + 1]]
<1>2. MakeSortedIndices(ids) = [disk |-> disk, mem |-> mem]
  <2>1. MakeSortedIndices(ids) = [disk |-> [i \in DOMAIN ids |-> ids[mem[i] + 1]], mem |-> mem]
    BY DEF MakeSortedIndices
  <2> HIDE DEF mem
  <2> QED
    BY <1>1, <2>1
<1>3. \A i \in indices : ids[i + 1] \in Int
  BY <1>1
<1>4. IsFiniteSet(indices) /\ Cardinality(indices) = n
  <2> HIDE DEF n
  <2> QED
    BY <1>1, FS_Interval
<1>5. ASSUME NEW i \in indices
      PROVE  /\ IsFiniteSet(before(i)) /\ Cardinality(before(i)) \in 0..(n - 1)
             /\ i \notin before(i)
  <2>1. i \notin before(i) /\ before(i) \in SUBSET indices
    BY <1>3
  <2>2. before(i) # indices
    BY <2>1
  <2> HIDE DEF before, indices
  <2>3. IsFiniteSet(before(i)) /\ Cardinality(before(i)) <= n /\ Cardinality(before(i)) # n
    BY <1>4, <2>1, <2>2, FS_Subset
  <2>4. Cardinality(before(i)) \in Nat
    BY <2>3, FS_CardinalityType
  <2> QED
    BY <2>1, <2>3, <2>4
<1>d. \A i \in indices : Cardinality(before(i)) \in Nat
  <2>1. \A i \in indices : Cardinality(before(i)) \in 0..(n - 1)
    BY <1>5
  <2>2. TAKE i \in indices
  <2>3. PICK c : c = Cardinality(before(i)) /\ c \in 0..(n - 1)
    BY <2>1
  <2> QED
    BY <2>3
<1>6. ASSUME NEW i \in indices, NEW j \in indices, i \in before(j)
      PROVE  Cardinality(before(i)) < Cardinality(before(j))
  <2>1. before(i) \in SUBSET before(j)
    BY <1>3, <1>6
  <2>2. before(i) # before(j)
    BY <1>5, <1>6
  <2>3. IsFiniteSet(before(j))
    BY <1>5
  <2>4. Cardinality(before(i)) \in Nat /\ Cardinality(before(j)) \in Nat
    BY <1>d
  <2> HIDE DEF before
  <2>5. Cardinality(before(i)) <= Cardinality(before(j)) /\ Cardinality(before(i)) # Cardinality(before(j))
    BY <2>1, <2>2, <2>3, FS_Subset
  <2> QED
    BY <2>4, <2>5
<1>c. ASSUME NEW i \in indices, NEW j \in indices, Cardinality(before(i)) < Cardinality(before(j))
      PROVE  ids[i + 1] <= ids[j + 1]
  <2>1. ids[j + 1] < ids[i + 1] => j \in before(i)
    OBVIOUS
  <2>2. j \notin before(i)
    <3>1. Cardinality(before(i)) \in Nat /\ Cardinality(before(j)) \in Nat
      BY <1>d
    <3> HIDE DEF before, indices
    <3> QED
      BY <1>6, <1>c, <3>1
  <2>3. ids[i + 1] \in Int /\ ids[j + 1] \in Int
    BY <1>3
  <2> HIDE DEF before
  <2> QED
    BY <2>1, <2>2, <2>3
<1>7. ASSUME NEW i \in indices, NEW j \in indices, i # j
      PROVE  Cardinality(before(i)) # Cardinality(before(j))
  <2>1. i \in before(j) \/ j \in before(i)
    BY <1>3, <1>7
  <2>2. Cardinality(before(i)) \in Nat /\ Cardinality(before(j)) \in Nat
    BY <1>d
  <2> HIDE DEF before
  <2> QED
    BY <1>6, <2>1, <2>2
<1> HIDE DEF before, mem
<1> DEFINE rank == [i \in indices |-> Cardinality(before(i))]
<1>8. rank \in [indices -> indices] /\ \A i \in indices : rank[i] = Cardinality(before(i))
  BY <1>5
<1>9. rank \in Injection(indices, indices)
  <2> HIDE DEF rank, indices
  <2> QED
    BY <1>7, <1>8 DEF Injection, IsInjective
<1>10. rank \in Surjection(indices, indices)
  <2> HIDE DEF rank, indices
  <2> QED
    BY <1>4, <1>9, FS_Injection
<1>11. \A r \in indices : \E i \in indices : Cardinality(before(i)) = r
  <2> HIDE DEF rank, indices
  <2> QED
    BY <1>8, <1>10 DEF Surjection
<1>12. ASSUME NEW k \in 1..n
       PROVE  mem[k] \in indices /\ Cardinality(before(mem[k])) = k - 1
  <2>1. k - 1 \in indices
    OBVIOUS
  <2>2. mem[k] = CHOOSE i \in indices : Cardinality(before(i)) = k - 1
    BY DEF mem
  <2> HIDE DEF indices
  <2> QED
    BY <1>11, <2>1, <2>2
<1>13. \A k, l \in 1..n : mem[k] = mem[l] => k = l
  BY <1>12
<1>14. mem \in Seq(Int) /\ Len(mem) = n
  <2>1. mem \in [1..n -> Int]
    BY <1>12 DEF mem
  <2> QED
    BY <2>1
<1>15. disk \in Seq(Int) /\ Len(disk) = n /\ \A k \in 1..n : disk[k] = ids[mem[k] + 1]
  BY <1>3, <1>12
<1> HIDE DEF disk
<1>16. [disk |-> disk, mem |-> mem] \in SpanPair
  BY <1>14, <1>15 DEF SpanPair
<1>17. \A k, l \in 1..n : k < l => disk[k] <= disk[l]
  <2>1. SUFFICES ASSUME NEW k \in 1..n, NEW l \in 1..n, k < l PROVE disk[k] <= disk[l]
    OBVIOUS
  <2>2. Cardinality(before(mem[k])) < Cardinality(before(mem[l]))
    BY <1>12, <2>1
  <2> QED
    BY <1>12, <1>15, <1>c, <2>2
<1>18. Ascends([disk |-> disk, mem |-> mem])
  BY <1>15, <1>17 DEF Ascends
<1> QED
  BY <1>1, <1>2, <1>12, <1>13, <1>15, <1>16, <1>18

\* A product of spans is spans of each dimension
LEMMA CartesianType ==
  ASSUME NEW n \in Nat, NEW dims \in [1..n -> Seq(SpanPair)]
  PROVE  CartesianProduct(dims) \in Seq(Seq(SpanPair))
<1> DEFINE D == SUBSET (1..n)
           R == Seq(Seq(SpanPair))
           ext(product, spans) ==
             FlattenSeq([k \in DOMAIN product |-> [s \in DOMAIN spans |-> Append(product[k], spans[s])]])
           Body(f) == [S \in SUBSET (DOMAIN dims) |->
                         IF S = {} THEN << <<>> >> ELSE ext(f[S \ {Max(S)}], dims[Max(S)])]
<1>1. PICK it : it = CHOOSE f : f = Body(f)
  OBVIOUS
<1>2. CartesianProduct(dims) = it[DOMAIN dims]
  BY <1>1 DEF CartesianProduct, FoldLeft, MapThenFoldSet
<1>3. DOMAIN dims = 1..n
  OBVIOUS
<1>4. \A S \in D : S # {} => Max(S) \in 1..n /\ S \ {Max(S)} \in D
  BY MaxIsOneOf
<1>5. << <<>> >> \in R
  OBVIOUS
<1>6. ASSUME NEW r \in R, NEW i \in 1..n PROVE ext(r, dims[i]) \in R
  <2>1. PICK spans \in Seq(SpanPair) : spans = dims[i]
    OBVIOUS
  <2>2. \A k \in DOMAIN r : \A s \in DOMAIN spans : Append(r[k], spans[s]) \in Seq(SpanPair)
    <3>1. TAKE k \in DOMAIN r
    <3>2. TAKE s \in DOMAIN spans
    <3>3. r[k] \in Seq(SpanPair) /\ spans[s] \in SpanPair
      <4> HIDE DEF SpanPair
      <4> QED
        OBVIOUS
    <3> HIDE DEF SpanPair
    <3> QED
      BY <3>3
  <2> DEFINE row(k) == [s \in DOMAIN spans |-> Append(r[k], spans[s])]
  <2>3. \A k \in DOMAIN r : row(k) \in Seq(Seq(SpanPair))
    <3>1. TAKE k \in DOMAIN r
    <3>2. PICK T : T = Seq(SpanPair)
      OBVIOUS
    <3>3. \A s \in DOMAIN spans : Append(r[k], spans[s]) \in T
      BY <2>2, <3>2
    <3>4. DOMAIN spans = 1..Len(spans) /\ Len(spans) \in Nat
      OBVIOUS
    <3>5. row(k) \in Seq(T)
      BY <3>3, <3>4
    <3> QED
      BY <3>2, <3>5
  <2> HIDE DEF row
  <2>4. [k \in DOMAIN r |-> row(k)] \in Seq(Seq(Seq(SpanPair)))
    <3>1. PICK T : T = Seq(Seq(SpanPair))
      OBVIOUS
    <3>2. DOMAIN r = 1..Len(r) /\ Len(r) \in Nat
      OBVIOUS
    <3>3. [k \in DOMAIN r |-> row(k)] \in Seq(T)
      BY <2>3, <3>1, <3>2
    <3> QED
      BY <3>1, <3>3
  <2>5. FlattenSeq([k \in DOMAIN r |-> row(k)]) \in Seq(Seq(SpanPair))
    BY <2>4, FlattenType
  <2> QED
    BY <2>1, <2>5 DEF row
<1> HIDE DEF R, ext
<1> DEFINE Q == R \cup {it[S] : S \in D}
<1>7. PICK F : F = [x \in Q \X (1..n) |-> ext(x[1], dims[x[2]])]
  OBVIOUS
<1>8. \A r \in Q : \A i \in 1..n : F[<<r, i>>] = ext(r, dims[i])
  BY <1>7
<1>9. (\A r \in R : r \in Q) /\ \A S \in D : it[S] \in Q
  OBVIOUS
<1> HIDE DEF Q
<1>10. IsClosed(R, << <<>> >>, F, n)
  BY <1>5, <1>6, <1>8, <1>9 DEF IsClosed
<1>11. PICK f \in [D -> R] : IsFold(f, << <<>> >>, F, n)
  BY <1>10, FoldExists
<1>12. f = Body(f)
  BY <1>3, <1>4, <1>8, <1>9, <1>11 DEF IsFold
<1>13. it = Body(it)
  <2> HIDE DEF Body
  <2> QED
    BY <1>1, <1>12
<1>14. IsFold(it, << <<>> >>, F, n)
  BY <1>3, <1>4, <1>8, <1>9, <1>13 DEF IsFold
<1>15. PICK p \in [0..n -> R] : IsFolded(p, << <<>> >>, F, n) /\ p[n] = it[1..n]
  BY <1>10, <1>14, FoldSteps
<1>16. n \in 0..n
  OBVIOUS
<1> QED
  BY <1>2, <1>3, <1>15, <1>16 DEF R

\* Chunks of a product
ChunksOf(shapeData) == {MakeChunk(spans, c, shapeData) : spans \in Seq(SpanPair), c \in BOOLEAN}

\* The product of the spans of each dimension is chunks
LEMMA ProductChunksType ==
  ASSUME NEW n \in Nat, NEW dims \in [1..n -> Seq(SpanPair)], NEW shapeData
  PROVE  ProductChunks(dims, shapeData) \in Seq(ChunksOf(shapeData))
<1>1. PICK product \in Seq(Seq(SpanPair)) : product = CartesianProduct(dims)
  BY CartesianType
<1> DEFINE flat(k) == SecondaryDimensionsContiguous(dims) /\ IsMemoryContiguous(Last(product[k]))
           chunk(k) == MakeChunk(product[k], flat(k), shapeData)
<1>2. ProductChunks(dims, shapeData) = [k \in DOMAIN product |-> chunk(k)]
  BY <1>1 DEF ProductChunks
<1>3. \A k \in DOMAIN product : chunk(k) \in ChunksOf(shapeData)
  <2>1. TAKE k \in DOMAIN product
  <2>2. flat(k) \in BOOLEAN
    BY DEF SecondaryDimensionsContiguous, IsMemoryContiguous
  <2>3. product[k] \in Seq(SpanPair)
    <3>1. PICK T : T = Seq(SpanPair)
      OBVIOUS
    <3> QED
      BY <3>1
  <2> HIDE DEF flat
  <2> QED
    BY <2>2, <2>3 DEF ChunksOf
<1>4. DOMAIN product = 1..Len(product) /\ Len(product) \in Nat
  OBVIOUS
<1> HIDE DEF chunk
<1>5. PICK T : T = ChunksOf(shapeData)
  OBVIOUS
<1>6. [k \in DOMAIN product |-> chunk(k)] \in Seq(T)
  BY <1>3, <1>4, <1>5
<1> QED
  BY <1>2, <1>5, <1>6

\* A chunk has a number of elements
LEMMA ElementsOfChunk ==
  ASSUME NEW shapeData, NEW chunk \in ChunksOf(shapeData)
  PROVE  NElements(chunk) \in Nat
<1>1. PICK spans \in Seq(SpanPair) : chunk.spans = spans
  <2>1. PICK spans \in Seq(SpanPair), c \in BOOLEAN : chunk = MakeChunk(spans, c, shapeData)
    BY DEF ChunksOf
  <2>2. chunk.spans = spans
    BY <2>1 DEF MakeChunk
  <2> QED
    BY <2>2
<1>2. \A d \in DOMAIN spans : Len(spans[d].disk) \in Nat
  BY DEF SpanPair
<1>3. DOMAIN spans = 1..Len(spans) /\ Len(spans) \in Nat
  OBVIOUS
<1>4. ChunkShape(chunk) \in Seq(Nat)
  BY <1>1, <1>2, <1>3 DEF ChunkShape
<1> QED
  BY <1>4, ProductType DEF NElements

\* A whole dimension is a span pair
LEMMA MonotonicType ==
  ASSUME NEW n \in Nat PROVE Monotonic(n) \in SpanPair
<1>1. [i \in 1..n |-> i - 1] \in Seq(Int) /\ Len([i \in 1..n |-> i - 1]) = n
  OBVIOUS
<1> QED
  BY <1>1 DEF Monotonic, SpanPair

\* So is a selection of it, sorted
LEMMA SpanPairType ==
  ASSUME NEW sel \in Seq(Seq(Int)), NEW d, NEW ndim, NEW size \in Nat
  PROVE  GetSpanPair(sel, d, ndim, size) \in SpanPair
<1>1. CASE IsSelected(sel, d, ndim)
  <2>1. FSpan(sel, d, ndim) \in Seq(Int)
    <3>1. PICK T : T = Seq(Int)
      OBVIOUS
    <3>2. sel \in Seq(T)
      BY <3>1
    <3>3. FSpan(sel, d, ndim) \in T
      BY <1>1, <3>2 DEF IsSelected, FSpan
    <3> QED
      BY <3>1, <3>3
  <2> QED
    BY <1>1, <2>1, SortedType DEF GetSpanPair
<1>2. CASE ~ IsSelected(sel, d, ndim)
  BY <1>2, MonotonicType DEF GetSpanPair
<1> QED
  BY <1>1, <1>2

\* Cut where indices are not consecutive, it is a sequence of them
LEMMA SubSpansType ==
  ASSUME NEW pair \in SpanPair, NEW entire PROVE MakeSubSpans(pair, entire) \in Seq(SpanPair)
BY CutType DEF MakeSubSpans

\* So are the rows split among the instances
LEMMA SplitType ==
  ASSUME NEW spans \in Seq(SpanPair), NEW nsplits, NEW storage
  PROVE  SplitRowSpans(spans, nsplits, storage) \in Seq(SpanPair)
<1> DEFINE disk(s) == IF IsRead(spans[s]) THEN spans[s].disk ELSE <<>>
           rows == FlattenSeq([s \in DOMAIN spans |-> disk(s)])
           ends == Range(PieceEnds(rows, nsplits, storage))
           before(s) == Sum([r \in 1..(s - 1) |-> Len(disk(r))])
           inner(s) == {e - before(s) : e \in ends} \cap 1..(Len(disk(s)) - 1)
           cut == [s \in DOMAIN spans |-> CutPair(spans[s], inner(s))]
<1>1. SplitRowSpans(spans, nsplits, storage) = FlattenSeq(cut)
  BY DEF SplitRowSpans
<1> HIDE DEF inner
<1>2. PICK T : T = Seq(SpanPair)
  OBVIOUS
<1>3. DOMAIN spans = 1..Len(spans) /\ Len(spans) \in Nat
  OBVIOUS
<1>4. \A s \in DOMAIN spans : CutPair(spans[s], inner(s)) \in T
  <2>1. TAKE s \in DOMAIN spans
  <2>2. spans[s] \in SpanPair
    <3> HIDE DEF SpanPair
    <3> QED
      OBVIOUS
  <2> QED
    BY <1>2, <2>2, CutType
<1>5. cut \in Seq(T)
  BY <1>3, <1>4
<1> HIDE DEF cut
<1> QED
  BY <1>1, <1>2, <1>5, FlattenType

\* A shape: fixed, or a shape for each row; of at least one dimension, the rows
FixedData(shapeData) ==
  /\ shapeData.fixed /\ shapeData.shape \in Seq(Nat)
  /\ shapeData.ndim = Len(shapeData.shape) /\ shapeData.ndim >= 1

VariableData(shapeData, nrows) ==
  /\ ~ shapeData.fixed /\ shapeData.extents = <<>>
  /\ shapeData.rows \in Seq(Seq(Nat)) /\ Len(shapeData.rows) = nrows
  /\ shapeData.ndim \in Int
  /\ shapeData.ndim >= 0 /\ nrows # 0 =>
       \A r \in 1..nrows : Len(shapeData.rows[r]) = shapeData.ndim - 1

\* The chunks of rows of one shape
LEMMA FixedType ==
  ASSUME NEW sel \in Seq(Seq(Int)), NEW shapeData, FixedData(shapeData),
         NEW maxSplits, NEW minBytes, NEW storage,
         MakeFixed(sel, shapeData, maxSplits, minBytes, storage).ok
  PROVE  MakeFixed(sel, shapeData, maxSplits, minBytes, storage).chunks \in Seq(ChunksOf(shapeData))
<1> DEFINE n == shapeData.ndim
           pairs == [d \in 1..n |-> GetSpanPair(sel, d, n, shapeData.shape[d])]
           dims == [d \in 1..n |-> MakeSubSpans(pairs[d], d = n)]
           nsplits == NSplits(dims, maxSplits, minBytes)
           split == IF maxSplits > 1 /\ nsplits > 1
                    THEN [dims EXCEPT ![n] = SplitRowSpans(dims[n], nsplits, storage)] ELSE dims
           bad == \E d \in 1..n : HasDuplicates(pairs[d])
           made == IF bad THEN Error ELSE [ok |-> TRUE, chunks |-> ProductChunks(split, shapeData)]
<1>1. MakeFixed(sel, shapeData, maxSplits, minBytes, storage) = made
  BY DEF MakeFixed
<1>2. n \in Nat /\ n \in 1..n /\ \A d \in 1..n : shapeData.shape[d] \in Nat
  BY DEF FixedData
<1> HIDE DEF n
<1>3. \A d \in 1..n : pairs[d] \in SpanPair
  BY <1>2, SpanPairType
<1> HIDE DEF pairs
<1>4. dims \in [1..n -> Seq(SpanPair)]
  BY <1>3, SubSpansType
<1> HIDE DEF dims
<1>5. SplitRowSpans(dims[n], nsplits, storage) \in Seq(SpanPair)
  BY <1>2, <1>4, SplitType
<1> HIDE DEF nsplits
<1>6. split \in [1..n -> Seq(SpanPair)]
  <2>1. PICK T : T = Seq(SpanPair)
    OBVIOUS
  <2>2. dims \in [1..n -> T] /\ SplitRowSpans(dims[n], nsplits, storage) \in T
    BY <1>4, <1>5, <2>1
  <2> HIDE DEF SpanPair
  <2>3. [dims EXCEPT ![n] = SplitRowSpans(dims[n], nsplits, storage)] \in [1..n -> T]
    BY <2>2
  <2> QED
    BY <2>1, <2>2, <2>3
<1> HIDE DEF split
<1>7. ProductChunks(split, shapeData) \in Seq(ChunksOf(shapeData))
  BY <1>2, <1>6, ProductChunksType
<1>8. ~ bad
  <2> HIDE DEF bad
  <2> QED
    BY <1>1 DEF Error
<1> HIDE DEF bad
<1> QED
  BY <1>1, <1>7, <1>8

\* Rows that are selected are as many as the result has
RowsMatch(sel, ndim, nrows) == IsSelected(sel, ndim, ndim) => Len(FSpan(sel, ndim, ndim)) = nrows

\* Every row of the result has a row of the column, and a place in it
LEMMA RowPairType ==
  ASSUME NEW sel \in Seq(Seq(Int)), NEW ndim, NEW nrows \in Nat, RowsMatch(sel, ndim, nrows)
  PROVE  LET pair == GetSpanPair(sel, ndim, ndim, nrows)
         IN  \A r \in 1..nrows : pair.disk[r] \in Int /\ pair.mem[r] \in 0..(nrows - 1)
<1>1. CASE IsSelected(sel, ndim, ndim)
  <2>1. FSpan(sel, ndim, ndim) \in Seq(Int)
    <3>1. PICK T : T = Seq(Int)
      OBVIOUS
    <3>2. sel \in Seq(T)
      BY <3>1
    <3>3. FSpan(sel, ndim, ndim) \in T
      BY <1>1, <3>2 DEF IsSelected, FSpan
    <3> QED
      BY <3>1, <3>3
  <2>2. PICK ids \in Seq(Int) : ids = FSpan(sel, ndim, ndim)
    BY <2>1
  <2>3. Len(ids) = nrows /\ GetSpanPair(sel, ndim, ndim, nrows) = MakeSortedIndices(ids)
    BY <1>1, <2>2 DEF RowsMatch, GetSpanPair
  <2>4. \A k \in 1..nrows : /\ MakeSortedIndices(ids).mem[k] \in 0..(nrows - 1)
                            /\ MakeSortedIndices(ids).disk[k] = ids[MakeSortedIndices(ids).mem[k] + 1]
    BY <2>3, SortedType
  <2>5. \A m \in 0..(nrows - 1) : ids[m + 1] \in Int
    BY <2>3
  <2> QED
    BY <2>3, <2>4, <2>5
<1>2. CASE ~ IsSelected(sel, ndim, ndim)
  BY <1>2 DEF GetSpanPair, Monotonic
<1> QED
  BY <1>1, <1>2

\* Padding is indices
LEMMA PaddedType ==
  ASSUME NEW size \in Nat, NEW extent PROVE PaddedIds(size, extent) \in Seq(Int)
<1>1. \A i \in 1..size : (IF i <= extent THEN i - 1 ELSE -1) \in Int
  OBVIOUS
<1> QED
  BY <1>1 DEF PaddedIds

\* One row at a time
LEMMA VaryingType ==
  ASSUME NEW sel \in Seq(Seq(Int)), NEW shapeData,
         NEW nrows, nrows = IF shapeData.fixed THEN Last(shapeData.shape) ELSE Len(shapeData.rows),
         FixedData(shapeData) \/ (VariableData(shapeData, nrows) /\ shapeData.ndim >= 0),
         RowsMatch(sel, shapeData.ndim, nrows),
         MakeVarying(sel, shapeData).ok
  PROVE  MakeVarying(sel, shapeData).chunks \in Seq(ChunksOf(shapeData))
<1> DEFINE n == shapeData.ndim
           rowPair == GetSpanPair(sel, n, n, nrows)
           rowShape(m) == IF shapeData.fixed THEN Front(shapeData.shape) ELSE shapeData.rows[m + 1]
           extent(m, d) == IF shapeData.extents = <<>> THEN rowShape(m)[d]
                           ELSE shapeData.extents[m + 1][d]
           pair(m, d) == IF extent(m, d) < rowShape(m)[d]
                         THEN MakeSortedIndices(PaddedIds(rowShape(m)[d], extent(m, d)))
                         ELSE GetSpanPair(sel, d, n, rowShape(m)[d])
           row(r) == [disk |-> <<rowPair.disk[r]>>, mem |-> <<rowPair.mem[r]>>]
           dims(r) == [d \in 1..n |-> IF d = n THEN <<row(r)>>
                                      ELSE MakeSubSpans(pair(rowPair.mem[r], d), FALSE)]
           bad == \/ nrows = 0
                  \/ \E r \in 1..nrows, d \in 1..(n - 1) : HasDuplicates(pair(rowPair.mem[r], d))
           chunks_(r) == ProductChunks(dims(r), shapeData)
           made == IF bad THEN Error
                   ELSE [ok |-> TRUE, chunks |-> FlattenSeq([r \in 1..nrows |-> chunks_(r)])]
<1>1. MakeVarying(sel, shapeData) = made
  BY DEF MakeVarying
<1>2. nrows \in Nat /\ n \in Nat
  <2>1. CASE shapeData.fixed
    BY <2>1 DEF FixedData, VariableData, Last
  <2>2. CASE ~ shapeData.fixed
    BY <2>2 DEF FixedData, VariableData
  <2> QED
    BY <2>1, <2>2
<1>3. \A r \in 1..nrows : rowPair.disk[r] \in Int /\ rowPair.mem[r] \in 0..(nrows - 1)
  <2> HIDE DEF n
  <2> QED
    BY <1>2, RowPairType DEF n
<1>4. ~ bad
  <2> HIDE DEF bad, chunks_
  <2>1. MakeVarying(sel, shapeData) = IF bad THEN Error ELSE made
    BY <1>1
  <2> HIDE DEF made
  <2> QED
    BY <2>1 DEF Error
<1>5. \A m \in 0..(nrows - 1) : \A d \in 1..(n - 1) : rowShape(m)[d] \in Nat
  <2>1. TAKE m \in 0..(nrows - 1)
  <2>2. TAKE d \in 1..(n - 1)
  <2>3. CASE shapeData.fixed
    <3>1. shapeData.shape \in Seq(Nat) /\ Len(shapeData.shape) = n
      BY <2>3 DEF FixedData, VariableData
    <3>2. Front(shapeData.shape)[d] = shapeData.shape[d]
      BY <3>1, <1>2 DEF Front
    <3> QED
      BY <1>2, <2>3, <3>1, <3>2
  <2>4. CASE ~ shapeData.fixed
    <3>a. m + 1 \in 1..nrows /\ nrows # 0
      BY <1>2
    <3>b. VariableData(shapeData, nrows) /\ shapeData.ndim >= 0
      BY <2>4 DEF FixedData
    <3>c. \A r \in 1..nrows : Len(shapeData.rows[r]) = shapeData.ndim - 1
      BY <3>a, <3>b DEF VariableData
    <3>1. shapeData.rows \in Seq(Seq(Nat)) /\ m + 1 \in 1..Len(shapeData.rows)
          /\ Len(shapeData.rows[m + 1]) = n - 1
      BY <3>a, <3>b, <3>c DEF VariableData
    <3>2. shapeData.rows[m + 1] \in Seq(Nat)
      <4>1. PICK T : T = Seq(Nat)
        OBVIOUS
      <4>2. shapeData.rows[m + 1] \in T
        BY <3>1, <4>1
      <4> QED
        BY <4>1, <4>2
    <3> QED
      BY <2>4, <3>1, <3>2
  <2> QED
    BY <2>3, <2>4
<1> HIDE DEF n, rowShape, rowPair
<1>6. \A m \in 0..(nrows - 1) : \A d \in 1..(n - 1) : pair(m, d) \in SpanPair
  <2>1. TAKE m \in 0..(nrows - 1)
  <2>2. TAKE d \in 1..(n - 1)
  <2> HIDE DEF extent
  <2>3. MakeSortedIndices(PaddedIds(rowShape(m)[d], extent(m, d))) \in SpanPair
    <3>1. PaddedIds(rowShape(m)[d], extent(m, d)) \in Seq(Int)
      BY <1>5, PaddedType
    <3> QED
      BY <3>1, SortedType
  <2>4. GetSpanPair(sel, d, n, rowShape(m)[d]) \in SpanPair
    BY <1>5, SpanPairType
  <2> QED
    BY <2>3, <2>4
<1> HIDE DEF pair
<1>7. ASSUME NEW r \in 1..nrows PROVE dims(r) \in [1..n -> Seq(SpanPair)]
  <2>1. row(r) \in SpanPair
    BY <1>3 DEF SpanPair
  <2>2. <<row(r)>> \in Seq(SpanPair)
    <3> HIDE DEF row
    <3> QED
      BY <2>1
  <2>3. \A d \in 1..(n - 1) : MakeSubSpans(pair(rowPair.mem[r], d), FALSE) \in Seq(SpanPair)
    <3>1. TAKE d \in 1..(n - 1)
    <3>2. pair(rowPair.mem[r], d) \in SpanPair
      BY <1>3, <1>6
    <3> QED
      BY <3>2, SubSpansType
  <2>4. \A d \in 1..n : d = n \/ d \in 1..(n - 1)
    BY <1>2
  <2> HIDE DEF row
  <2>5. PICK T : T = Seq(SpanPair)
    OBVIOUS
  <2> QED
    BY <2>2, <2>3, <2>4, <2>5
<1> HIDE DEF dims
<1>8. PICK T : T = Seq(ChunksOf(shapeData))
  OBVIOUS
<1>9. \A r \in 1..nrows : chunks_(r) \in T
  BY <1>2, <1>7, <1>8, ProductChunksType
<1> HIDE DEF chunks_
<1>10. [r \in 1..nrows |-> chunks_(r)] \in Seq(T)
  <2>1. PICK cs : cs = [r \in 1..nrows |-> chunks_(r)]
    OBVIOUS
  <2>2. cs \in [1..nrows -> T]
    BY <1>9, <2>1
  <2>3. nrows \in Nat
    BY <1>2
  <2>4. ASSUME NEW k \in Nat, NEW f \in [1..k -> T] PROVE f \in Seq(T)
    OBVIOUS
  <2>5. cs \in Seq(T)
    BY <2>2, <2>3, <2>4
  <2> QED
    BY <2>1, <2>5
<1>11. FlattenSeq([r \in 1..nrows |-> chunks_(r)]) \in Seq(ChunksOf(shapeData))
  BY <1>8, <1>10, FlattenType
<1> HIDE DEF bad
<1> QED
  BY <1>1, <1>4, <1>11

\* A result that can be partitioned: of the rows selected, unless they agree
Readable(sel, shapeData) ==
  \/ /\ FixedData(shapeData)
     /\ shapeData.extents # <<>> => RowsMatch(sel, shapeData.ndim, Last(shapeData.shape))
  \/ /\ VariableData(shapeData, Len(shapeData.rows))
     /\ RowsMatch(sel, shapeData.ndim, Len(shapeData.rows))

\* A partition is a sequence of chunks
LEMMA MakeType ==
  ASSUME NEW sel \in Seq(Seq(Int)), NEW shapeData, Readable(sel, shapeData),
         NEW maxSplits, NEW minBytes, NEW storage,
         Make(sel, shapeData, maxSplits, minBytes, storage).ok
  PROVE  Make(sel, shapeData, maxSplits, minBytes, storage).chunks \in Seq(ChunksOf(shapeData))
<1>1. shapeData.ndim >= 0
  <2>1. shapeData.ndim \in Int
    BY DEF Readable, VariableData, FixedData
  <2>2. ~ (shapeData.ndim < 0)
    BY DEF Make, Error
  <2> QED
    BY <2>1, <2>2
<1>2. CASE shapeData.fixed /\ shapeData.extents = <<>>
  <2>1. FixedData(shapeData)
    BY <1>2 DEF Readable, VariableData
  <2>2. Make(sel, shapeData, maxSplits, minBytes, storage)
          = MakeFixed(sel, shapeData, maxSplits, minBytes, storage)
    BY <1>2, <2>1 DEF Make, FixedData
  <2> QED
    BY <2>1, <2>2, FixedType
<1>3. CASE ~ (shapeData.fixed /\ shapeData.extents = <<>>)
  <2>1. Make(sel, shapeData, maxSplits, minBytes, storage) = MakeVarying(sel, shapeData)
    <3>1. shapeData.ndim \in Int
      BY DEF Readable, VariableData, FixedData
    <3> QED
      BY <1>1, <1>3, <3>1 DEF Make
  <2>2. PICK nrows : nrows = IF shapeData.fixed THEN Last(shapeData.shape) ELSE Len(shapeData.rows)
    OBVIOUS
  <2>3. /\ FixedData(shapeData) \/ (VariableData(shapeData, nrows) /\ shapeData.ndim >= 0)
        /\ RowsMatch(sel, shapeData.ndim, nrows)
    <3>1. CASE shapeData.fixed
      <4>1. FixedData(shapeData) /\ shapeData.extents # <<>>
        BY <1>3, <3>1 DEF Readable, VariableData
      <4> QED
        BY <2>2, <3>1, <4>1 DEF Readable, VariableData
    <3>2. CASE ~ shapeData.fixed
      BY <1>1, <2>2, <3>2 DEF Readable, FixedData
    <3> QED
      BY <3>1, <3>2
  <2> QED
    BY <2>1, <2>2, <2>3, VaryingType
<1> QED
  BY <1>2, <1>3

\* A span of indices
LEMMA SpanType ==
  ASSUME NEW sel \in Seq(Seq(Int)), NEW d, NEW ndim, IsSelected(sel, d, ndim)
  PROVE  FSpan(sel, d, ndim) \in Seq(Int)
<1>1. PICK T : T = Seq(Int)
  OBVIOUS
<1>2. sel \in Seq(T)
  BY <1>1
<1>3. FSpan(sel, d, ndim) \in T
  BY <1>2 DEF IsSelected, FSpan
<1> QED
  BY <1>1, <1>3

\* The last span is that of the rows
LEMMA RowSpan ==
  ASSUME NEW sel \in Seq(Seq(Int)), NEW n \in Int
  PROVE  /\ IsSelected(sel, n, n) => HasRowSpan(sel) /\ FSpan(sel, n, n) = Last(sel)
         /\ HasRowSpan(sel) => Last(sel) \in Seq(Int)
<1>1. PICK T : T = Seq(Int)
  OBVIOUS
<1>2. sel \in Seq(T) /\ n - n + Len(sel) = Len(sel)
  BY <1>1
<1>3. IsSelected(sel, n, n) => HasRowSpan(sel) /\ FSpan(sel, n, n) = Last(sel)
  BY <1>2 DEF IsSelected, FSpan, HasRowSpan, Last
<1>4. HasRowSpan(sel) => Last(sel) \in T
  BY <1>2 DEF HasRowSpan, Last
<1> QED
  BY <1>1, <1>3, <1>4

\* The rows selected are rows
LEMMA RowsType ==
  ASSUME NEW column, IsColumn(column), NEW sel \in Seq(Seq(Int)), NEW n \in Int
  PROVE  /\ SelectedRows(column, sel) \in Seq(Int)
         /\ RowsMatch(sel, n, Len(SelectedRows(column, sel)))
<1>1. NRow(column) \in Nat
  BY DEF NRow, IsColumn
<1>2. [i \in 1..NRow(column) |-> i - 1] \in Seq(Int)
  BY <1>1
<1> QED
  BY <1>2, RowSpan DEF SelectedRows, RowsMatch

\* A selection leaves a cell its dimensions
LEMMA ClipType ==
  ASSUME NEW sel \in Seq(Seq(Int)), NEW cell \in Seq(Nat)
  PROVE  Clip(sel, cell) \in Seq(Nat) /\ Len(Clip(sel, cell)) = Len(cell)
<1>1. \A d \in 1..Len(cell) :
        (IF IsSelected(sel, d, Len(cell) + 1) THEN Len(FSpan(sel, d, Len(cell) + 1))
         ELSE cell[d]) \in Nat
  <2>1. TAKE d \in 1..Len(cell)
  <2>2. CASE IsSelected(sel, d, Len(cell) + 1)
    <3>1. FSpan(sel, d, Len(cell) + 1) \in Seq(Int)
      BY <2>2, SpanType
    <3> QED
      BY <2>2, <3>1
  <2>3. CASE ~ IsSelected(sel, d, Len(cell) + 1)
    BY <2>3
  <2> QED
    BY <2>2, <2>3
<1>2. DOMAIN cell = 1..Len(cell) /\ Len(cell) \in Nat
  OBVIOUS
<1> QED
  BY <1>1, <1>2 DEF Clip

\* Rows of one shape
LEMMA FixedShapeType ==
  ASSUME NEW cell \in Seq(Nat), NEW nrows \in Nat
  PROVE  FixedData(FixedShape(cell, nrows)) /\ FixedShape(cell, nrows).extents = <<>>
BY DEF FixedShape, FixedData

\* A column whose cells are of one shape, or may be of several: the shape of a new array
LEMMA MakeReadType ==
  ASSUME NEW column, IsColumn(column), NEW sel \in Seq(Seq(Int)), MakeRead(column, sel, FALSE).ok
  PROVE  Readable(sel, MakeRead(column, sel, FALSE))
<1>1. PICK rows \in Seq(Int) : rows = SelectedRows(column, sel)
  BY RowsType, 0 \in Int
<1>2. CASE column.fixed
  <2>1. MakeRead(column, sel, FALSE) = FixedShape(Clip(sel, column.shape), Len(rows))
    <3>1. SelectionFits(sel, column.shape)
      <4> HIDE DEF SelectionFits
      <4> QED
        BY <1>2 DEF MakeRead, Error
    <3> QED
      BY <1>1, <1>2, <3>1 DEF MakeRead
  <2>2. Clip(sel, column.shape) \in Seq(Nat) /\ Len(rows) \in Nat
    BY ClipType DEF IsColumn
  <2> QED
    BY <2>1, <2>2, FixedShapeType DEF Readable
<1>3. CASE ~ column.fixed
  <2> DEFINE missing == {i \in DOMAIN rows : rows[i] < 0 \/ ~ IsDefined(column, rows[i])}
             shapes == [i \in DOMAIN rows |->
                          IF i \in missing THEN <<>> ELSE Clip(sel, Cell(column, rows[i]))]
             bad == \/ \E i \in DOMAIN rows : rows[i] >= NRow(column)
                    \/ missing # {} /\ ~ FALSE
                    \/ \E i \in DOMAIN rows \ missing : ~ SelectionFits(sel, Cell(column, rows[i]))
             same == missing = {} /\ Cardinality(Range(shapes)) = 1
             variable == [ok |-> TRUE, fixed |-> FALSE, shape |-> <<>>, rows |-> shapes,
                          ndim |-> CommonRank(column, shapes), extents |-> <<>>]
  <2>1. MakeRead(column, sel, FALSE)
          = IF bad THEN Error
            ELSE IF same THEN FixedShape(shapes[1], Len(rows)) ELSE variable
    BY <1>1, <1>3 DEF MakeRead, MakeVariable
  <2>2. ~ bad
    <3> DEFINE other == IF same THEN FixedShape(shapes[1], Len(rows)) ELSE variable
    <3>1. MakeRead(column, sel, FALSE) = IF bad THEN Error ELSE other
      BY <2>1
    <3>2. PICK read_ : read_ = MakeRead(column, sel, FALSE)
      OBVIOUS
    <3> HIDE DEF bad, other
    <3>3. read_.ok /\ read_ = IF bad THEN Error ELSE other
      BY <3>1, <3>2
    <3> QED
      BY <3>3 DEF Error
  <2>3. \A i \in DOMAIN rows :
          /\ shapes[i] = Clip(sel, Cell(column, rows[i])) /\ IsDefined(column, rows[i])
          /\ rows[i] \in 0..(NRow(column) - 1)
    BY <2>2 DEF NRow, IsColumn
  <2> DEFINE N == Len(rows)
  <2>4. DOMAIN rows = 1..N /\ N \in Nat
    OBVIOUS
  <2>5. \A i \in 1..N : /\ shapes[i] \in Seq(Nat) /\ shapes[i] # <<>>
                        /\ column.ndim >= 0 => Len(shapes[i]) = column.ndim
    <3>1. TAKE i \in 1..N
    <3>a. rows[i] \in 0..(NRow(column) - 1)
      BY <2>3, <2>4
    <3>b. column.cells \in Seq([shape : Seq(Nat), defined : BOOLEAN]) /\ NRow(column) = Len(column.cells)
      BY DEF NRow, IsColumn
    <3>2. PICK r \in DOMAIN column.cells : r = rows[i] + 1
      BY <3>a, <3>b
    <3>3. Cell(column, rows[i]) = column.cells[r].shape /\ column.cells[r].defined
      BY <2>3, <2>4, <3>2 DEF Cell, IsDefined
    <3>4. column.cells[r].shape \in Seq(Nat) /\ column.cells[r].shape # <<>>
          /\ (column.ndim >= 0 => Len(column.cells[r].shape) = column.ndim)
      <4>1. PICK R : R = [shape : Seq(Nat), defined : BOOLEAN]
        OBVIOUS
      <4>a. column.cells \in Seq(R)
        BY <4>1 DEF IsColumn
      <4>2. column.cells[r] \in R
        BY <3>2, <4>a
      <4>3. column.cells[r].shape \in Seq(Nat)
        BY <4>1, <4>2
      <4>4. /\ column.cells[r].shape # <<>>
            /\ column.ndim >= 0 => Len(column.cells[r].shape) = column.ndim
        <5>1. \A q \in DOMAIN column.cells : column.cells[q].defined =>
                /\ column.cells[q].shape # <<>>
                /\ column.ndim >= 0 => Len(column.cells[q].shape) = column.ndim
          BY <1>3 DEF IsColumn
        <5> QED
          BY <3>2, <3>3, <5>1
      <4> QED
        BY <4>3, <4>4
    <3>5. shapes[i] = Clip(sel, column.cells[r].shape)
      BY <2>3, <2>4, <3>3
    <3> QED
      BY <3>4, <3>5, ClipType
  <2>6. DOMAIN shapes = 1..N
    BY <2>4
  <2> HIDE DEF shapes, missing, bad
  <2>7. CASE same
    <3>1. N # 0
      <4>1. N = 0 => Range(shapes) = {}
        BY <2>6 DEF Range
      <4>2. Cardinality(Range(shapes)) = 1
        BY <2>7
      <4>3. Cardinality({}) = 0
        BY FS_EmptySet
      <4>4. ASSUME N = 0 PROVE Cardinality(Range(shapes)) = Cardinality({})
        BY <4>1, <4>4, Zenon
      <4> QED
        BY <4>2, <4>3, <4>4
    <3>2. shapes[1] \in Seq(Nat)
      BY <2>4, <2>5, <3>1
    <3> QED
      BY <2>1, <2>2, <2>4, <2>7, <3>2, FixedShapeType DEF Readable
  <2>8. CASE ~ same
    <3>1. MakeRead(column, sel, FALSE) = variable
      BY <2>1, <2>2, <2>8
    <3>2. shapes \in Seq(Seq(Nat)) /\ Len(shapes) = N
      <4>1. PICK T : T = Seq(Nat)
        OBVIOUS
      <4>2. \A i \in 1..N : shapes[i] \in T
        BY <2>5, <4>1
      <4>3. shapes = [i \in 1..N |-> shapes[i]]
        BY <2>6 DEF shapes
      <4>4. shapes \in Seq(T) /\ Len(shapes) = N
        BY <2>4, <4>2, <4>3
      <4> QED
        BY <4>1, <4>4
    <3>3. /\ CommonRank(column, shapes) \in Int
          /\ CommonRank(column, shapes) >= 0 =>
               \A r \in 1..N : Len(shapes[r]) = CommonRank(column, shapes) - 1
      <4> DEFINE ranks == {Len(shapes[i]) + 1 : i \in {j \in DOMAIN shapes : shapes[j] # <<>>}}
      <4>1. \A i \in 1..N : Len(shapes[i]) \in Nat
        BY <2>5
      <4>2. ranks = {Len(shapes[i]) + 1 : i \in 1..N}
        BY <2>5, <2>6
      <4>3. CASE Cardinality(ranks) = 1
        <5>1. IsFiniteSet(ranks)
          <6>1. IsFiniteSet(1..N)
            BY <2>4, FS_Interval
          <6>2. PICK f : f = [i \in 1..N |-> Len(shapes[i]) + 1]
            OBVIOUS
          <6> HIDE DEF ranks
          <6>3. f \in Surjection(1..N, ranks)
            BY <4>2, <6>2 DEF Surjection
          <6> QED
            BY <6>1, <6>3, FS_Surjection
        <5> HIDE DEF ranks
        <5>2. PICK x : ranks = {x}
          BY <4>3, <5>1, FS_Singleton
        <5>3. (CHOOSE n \in ranks : TRUE) = x
          BY <5>2
        <5>4. CommonRank(column, shapes) = x
          BY <4>3, <5>3 DEF CommonRank, ranks
        <5>5. \A i \in 1..N : Len(shapes[i]) + 1 = x
          BY <4>2, <5>2
        <5>6. x \in Int
          <6>1. x \in {Len(shapes[i]) + 1 : i \in 1..N}
            BY <4>2, <5>2
          <6>2. PICK i \in 1..N : x = Len(shapes[i]) + 1
            BY <6>1
          <6> QED
            BY <4>1, <6>2
        <5> QED
          BY <4>1, <5>4, <5>5, <5>6
      <4>4. CASE Cardinality(ranks) # 1
        <5>1. CommonRank(column, shapes) = IF column.ndim < 0 THEN column.ndim ELSE column.ndim + 1
          BY <4>4 DEF CommonRank
        <5>2. column.ndim \in Int
          BY DEF IsColumn
        <5> QED
          BY <2>5, <5>1, <5>2
      <4> QED
        BY <4>3, <4>4
    <3>4. variable.rows = shapes /\ variable.ndim = CommonRank(column, shapes)
          /\ ~ variable.fixed /\ variable.extents = <<>>
      OBVIOUS
    <3> HIDE DEF variable
    <3>5. VariableData(variable, N)
      BY <3>2, <3>3, <3>4 DEF VariableData
    <3>6. RowsMatch(sel, variable.ndim, N)
      BY <1>1, <3>3, <3>4, RowsType
    <3> QED
      BY <3>1, <3>2, <3>4, <3>5, <3>6 DEF Readable
  <2> QED
    BY <2>7, <2>8
<1> QED
  BY <1>2, <1>3

\* A selection with dimensions padded and rows replaced is a selection, of those rows
LEMMA RebuildType ==
  ASSUME NEW sel \in Seq(Seq(Int)), NEW cell \in Seq(Nat), NEW extent, NEW rows \in Seq(Int)
  PROVE  LET s == RebuildSelection(sel, cell, extent, rows)
         IN  /\ s \in Seq(Seq(Int))
             /\ \A nrows : (rows # <<>> => Len(rows) = nrows) => RowsMatch(s, Len(cell) + 1, nrows)
<1> DEFINE n == Len(cell) + 1
           span(d) == IF d = n THEN rows
                      ELSE IF IsSelected(sel, d, n) THEN FSpan(sel, d, n)
                      ELSE IF extent[d] < cell[d] THEN PaddedIds(cell[d], extent[d]) ELSE <<>>
           s == [d \in 1..n |-> span(d)]
<1>1. RebuildSelection(sel, cell, extent, rows) = s
  BY DEF RebuildSelection
<1>2. n \in Nat /\ n \in 1..n /\ \A d \in 1..n : d # n => cell[d] \in Nat
  OBVIOUS
<1> HIDE DEF n
<1>3. PICK T : T = Seq(Int)
  OBVIOUS
<1>4. \A d \in 1..n : span(d) \in T
  <2>1. TAKE d \in 1..n
  <2>2. CASE d = n
    BY <1>3, <2>2
  <2>3. CASE d # n /\ IsSelected(sel, d, n)
    BY <1>3, <2>3, SpanType
  <2>4. CASE d # n /\ ~ IsSelected(sel, d, n)
    <3>1. PaddedIds(cell[d], extent[d]) \in T
      BY <1>2, <1>3, <2>4, PaddedType
    <3>2. <<>> \in T
      BY <1>3
    <3> QED
      BY <2>4, <3>1, <3>2
  <2> QED
    BY <2>2, <2>3, <2>4
<1>5. span(n) = rows
  OBVIOUS
<1> HIDE DEF span
<1>6. s \in Seq(T) /\ Len(s) = n /\ s[n] = rows
  BY <1>2, <1>4, <1>5
<1> HIDE DEF s
<1>7. ASSUME NEW nrows, rows # <<>> => Len(rows) = nrows PROVE RowsMatch(s, n, nrows)
  <2>1. n - n + Len(s) = n /\ n \in DOMAIN s
    BY <1>2, <1>6
  <2>2. IsSelected(s, n, n) => rows # <<>>
    BY <1>6, <2>1 DEF IsSelected
  <2>3. FSpan(s, n, n) = rows
    BY <1>6, <2>1 DEF FSpan
  <2> QED
    BY <1>7, <2>2, <2>3 DEF RowsMatch
<1> QED
  BY <1>1, <1>3, <1>6, <1>7 DEF n

\* The rows selected, if any
LEMMA RowSpanOfType ==
  ASSUME NEW column, NEW sel \in Seq(Seq(Int))
  PROVE  /\ RowSpanOf(sel) \in Seq(Int)
         /\ RowSpanOf(sel) # <<>> => Len(RowSpanOf(sel)) = Len(SelectedRows(column, sel))
<1>1. HasRowSpan(sel) => Last(sel) \in Seq(Int)
  BY RowSpan, 0 \in Int
<1> QED
  BY <1>1 DEF RowSpanOf, SelectedRows

\* Reading into an array: rows selected are as many as it has, where cells differ
LEMMA NegateType ==
  ASSUME NEW column, IsColumn(column), NEW sel \in Seq(Seq(Int)),
         NEW result \in Seq(Nat), result # <<>>,
         NegateMissingSelectedRows(column, sel, result).ok
  PROVE  LET negated == NegateMissingSelectedRows(column, sel, result)
         IN  /\ negated.sel \in Seq(Seq(Int))
             /\ negated.extents # <<>> => RowsMatch(negated.sel, Len(result), Last(result))
<1>1. PICK cell \in Seq(Nat) : cell = Front(result) /\ Len(cell) + 1 = Len(result)
  <2>1. Len(result) \in Nat /\ Len(result) >= 1
    OBVIOUS
  <2>2. 1 \in Nat \ {0} /\ Len(result) - 1 \in Int /\ Len(result) - 1 <= Len(result)
    BY <2>1
  <2>3. PICK cell : cell = SubSeq(result, 1, Len(result) - 1)
    OBVIOUS
  <2>4. /\ cell \in Seq(Nat)
        /\ Len(cell) = IF 1 <= Len(result) - 1 THEN (Len(result) - 1) - 1 + 1 ELSE 0
    BY <2>2, <2>3, SubSeqType
  <2>5. Len(cell) + 1 = Len(result)
    <3>1. PICK n \in Nat : n = Len(result) /\ n >= 1
      BY <2>1
    <3>2. Len(cell) = n - 1
      BY <2>4, <3>1
    <3> QED
      BY <3>1, <3>2
  <2> QED
    BY <2>3, <2>4, <2>5 DEF Front
<1>2. CASE column.fixed
  <2> DEFINE extent == CellExtent(sel, column.shape, cell)
             negated == [ok |-> TRUE, extents |-> <<>>,
                         sel |-> IF extent = cell THEN sel
                                 ELSE RebuildSelection(sel, cell, extent, RowSpanOf(sel))]
  <2>1. NegateMissingSelectedRows(column, sel, result)
          = IF ~ ValidateCellShape(sel, column.shape, cell) THEN Error ELSE negated
    BY <1>1, <1>2 DEF NegateMissingSelectedRows, NegateFixed
  <2>2. PICK made : made = NegateMissingSelectedRows(column, sel, result)
    OBVIOUS
  <2>3. made = negated
    <3> HIDE DEF negated
    <3>1. made.ok /\ made = IF ~ ValidateCellShape(sel, column.shape, cell) THEN Error ELSE negated
      BY <2>1, <2>2
    <3> QED
      BY <3>1 DEF Error
  <2> HIDE DEF extent
  <2>4. RebuildSelection(sel, cell, extent, RowSpanOf(sel)) \in Seq(Seq(Int))
    <3>1. RowSpanOf(sel) \in Seq(Int)
      BY RowSpanOfType
    <3> QED
      BY <3>1, RebuildType
  <2>5. made.sel \in Seq(Seq(Int)) /\ made.extents = <<>>
    BY <2>3, <2>4
  <2> QED
    BY <2>2, <2>5
<1>3. CASE ~ column.fixed
  <2> DEFINE nrows == Last(result)
             rows == SelectedRows(column, sel)
             read_ == {i \in DOMAIN rows : rows[i] >= 0 /\ IsDefined(column, rows[i])}
             extent(i) == IF i \in read_ THEN CellExtent(sel, Cell(column, rows[i]), cell)
                          ELSE cell
             common == IF read_ = {} THEN cell ELSE extent(Min(read_))
             differ == {i \in read_ : extent(i) # common}
             shared == IF differ = {} THEN common ELSE cell
             undefined == {i \in DOMAIN rows \ read_ : rows[i] >= 0}
             negs == [i \in DOMAIN rows |-> IF i \in undefined THEN -1 ELSE rows[i]]
             kept == IF undefined # {} THEN negs ELSE RowSpanOf(sel)
             bad == \/ Len(rows) # nrows
                    \/ \E i \in DOMAIN rows : rows[i] >= NRow(column)
                    \/ \E i \in read_ : ~ ValidateCellShape(sel, Cell(column, rows[i]), cell)
             negated == [ok |-> TRUE,
                         extents |-> IF differ = {} THEN <<>>
                                     ELSE [i \in DOMAIN rows |->
                                             IF i < Min(differ) THEN common ELSE extent(i)],
                         sel |-> IF undefined = {} /\ shared = cell THEN sel
                                 ELSE RebuildSelection(sel, cell, shared, kept)]
  <2>1. NegateMissingSelectedRows(column, sel, result) = IF bad THEN Error ELSE negated
    BY <1>1, <1>3 DEF NegateMissingSelectedRows, NegateVariable
  <2>2. PICK made : made = NegateMissingSelectedRows(column, sel, result)
    OBVIOUS
  <2>3. made = negated /\ ~ bad
    <3> HIDE DEF negated, bad
    <3>1. made.ok /\ made = IF bad THEN Error ELSE negated
      BY <2>1, <2>2
    <3> QED
      BY <3>1 DEF Error
  <2>4. rows \in Seq(Int) /\ Len(rows) = nrows
    BY <2>3, RowsType, 0 \in Int
  <2>5. kept \in Seq(Int) /\ (kept # <<>> => Len(kept) = nrows)
    <3>1. CASE undefined # {}
      <4> HIDE DEF rows, undefined, nrows
      <4>1. DOMAIN rows = 1..Len(rows) /\ Len(rows) \in Nat
        BY <2>4
      <4>2. \A i \in 1..Len(rows) : (IF i \in undefined THEN -1 ELSE rows[i]) \in Int
        BY <2>4
      <4>3. negs \in Seq(Int) /\ Len(negs) = Len(rows)
        BY <4>1, <4>2
      <4> QED
        BY <2>4, <3>1, <4>3
    <3>2. CASE undefined = {}
      <4> HIDE DEF undefined
      <4>1. kept = RowSpanOf(sel)
        BY <3>2
      <4> HIDE DEF kept
      <4>2. kept \in Seq(Int) /\ (kept # <<>> => Len(kept) = Len(rows))
        BY <4>1, RowSpanOfType
      <4> QED
        BY <2>4, <4>2
    <3> QED
      BY <3>1, <3>2
  <2> HIDE DEF kept, shared, undefined, differ
  <2>6. /\ RebuildSelection(sel, cell, shared, kept) \in Seq(Seq(Int))
        /\ RowsMatch(RebuildSelection(sel, cell, shared, kept), Len(result), nrows)
    BY <1>1, <2>5, RebuildType
  <2>7. RowsMatch(sel, Len(result), nrows)
    <3>1. Len(result) \in Int
      OBVIOUS
    <3> QED
      BY <2>4, <3>1, RowsType
  <2>8. made.sel = IF undefined = {} /\ shared = cell THEN sel
                   ELSE RebuildSelection(sel, cell, shared, kept)
    BY <2>3
  <2> HIDE DEF negated, bad
  <2>9. made.sel \in Seq(Seq(Int)) /\ RowsMatch(made.sel, Len(result), nrows)
    BY <2>6, <2>7, <2>8
  <2> QED
    BY <2>2, <2>9
<1> QED
  BY <1>2, <1>3

\* The shape of a read is one that the selection it is read by suits
LEMMA ShapeReadable ==
  ASSUME read \in Reads, ShapeData.ok
  PROVE  EffectiveSelection \in Seq(Seq(Int)) /\ Readable(EffectiveSelection, ShapeData)
<1>1. IsColumn(read.column) /\ read.sel \in Seq(Seq(Int)) /\ read.result \in Seq(Nat)
  BY ReadsAssumption DEF ReadsAssumption
<1>2. CASE read.result = <<>>
  <2>1. ShapeData = MakeRead(read.column, read.sel, FALSE) /\ EffectiveSelection = read.sel
    BY <1>2 DEF ShapeData, EffectiveSelection
  <2> QED
    BY <1>1, <2>1, MakeReadType
<1>3. CASE read.result # <<>>
  <2> DEFINE negated == NegateMissingSelectedRows(read.column, read.sel, read.result)
             array == [FixedShape(Front(read.result), Last(read.result))
                         EXCEPT !.extents = negated.extents]
  <2> HIDE DEF negated
  <2>1. ShapeData = (IF negated.ok THEN array ELSE Error) /\ EffectiveSelection = negated.sel
    BY <1>3 DEF ShapeData, EffectiveSelection, negated
  <2>2. PICK shapeData : shapeData = ShapeData
    OBVIOUS
  <2>3. negated.ok /\ shapeData = array
    <3> HIDE DEF array
    <3>1. shapeData.ok /\ shapeData = IF negated.ok THEN array ELSE Error
      BY <2>1, <2>2
    <3> QED
      BY <3>1 DEF Error
  <2>4. /\ negated.sel \in Seq(Seq(Int))
        /\ negated.extents # <<>> => RowsMatch(negated.sel, Len(read.result), Last(read.result))
    BY <1>1, <1>3, <2>3, NegateType DEF negated
  <2>5. PICK result \in Seq(Nat) : result = read.result
    BY <1>1
  <2>6. /\ Front(result) \in Seq(Nat) /\ Len(Front(result)) + 1 = Len(result)
        /\ Last(result) \in Nat /\ Append(Front(result), Last(result)) = result
    BY <1>3, <2>5 DEF Front, Last
  <2>7. /\ shapeData.fixed /\ shapeData.shape = result /\ shapeData.ndim = Len(result)
        /\ shapeData.extents = negated.extents
    BY <2>3, <2>5, <2>6 DEF FixedShape
  <2>8. FixedData(shapeData)
    BY <1>3, <2>5, <2>7 DEF FixedData
  <2>9. Readable(negated.sel, shapeData)
    BY <2>4, <2>5, <2>7, <2>8 DEF Readable
  <2> QED
    BY <2>1, <2>2, <2>4, <2>9
<1> QED
  BY <1>2, <1>3

\* The chunks of a partition
LEMMA PartitionType ==
  ASSUME read \in Reads, ShapeData.ok, Partition.ok
  PROVE  Partition.chunks \in Seq(ChunksOf(ShapeData))
<1>1. EffectiveSelection \in Seq(Seq(Int)) /\ Readable(EffectiveSelection, ShapeData)
  BY ShapeReadable
<1>2. PICK sel \in Seq(Seq(Int)) : sel = EffectiveSelection
  BY <1>1
<1>3. PICK storage : storage = IF NInstances > 1 THEN read.storage ELSE Other
  OBVIOUS
<1>4. Partition = Make(sel, ShapeData, NInstances, MinSplitBytes, storage)
  BY <1>2, <1>3 DEF Partition
<1> QED
  BY <1>1, <1>2, <1>4, MakeType

-----------------------------------------------------------------------------
(* The groups of a read *)

\* The partition is the chunks of the shape; spread, it is of several chunks
SpreadInv ==
  /\ read \in Reads
  /\ stage = "spread" =>
       chunks \in Seq(ChunksOf(ShapeData)) /\ NInstances > 1 /\ Len(chunks) > 1

\* The steps keep it
LEMMA SpreadSteps ==
  SpreadInv /\ [Next]_vars => SpreadInv'
<1> SUFFICES ASSUME SpreadInv, [Next]_vars PROVE SpreadInv'
  OBVIOUS
<1>1. CASE PartitionTask
  <2>1. read' = read /\ ShapeData.ok /\ Partition.ok /\ chunks' = Partition.chunks
    BY <1>1 DEF PartitionTask
  <2>2. ShapeData' = ShapeData
    BY <2>1 DEF ShapeData
  <2>3. chunks' \in Seq(ChunksOf(ShapeData))
    BY <2>1, PartitionType DEF SpreadInv
  <2>4. stage' = "spread" => NInstances > 1 /\ Len(chunks') > 1
    BY <1>1 DEF PartitionTask
  <2> QED
    BY <2>1, <2>2, <2>3, <2>4 DEF SpreadInv
<1>2. CASE ~ PartitionTask
  <2>1. read' = read /\ (stage' = "spread" => stage = "spread" /\ chunks' = chunks)
    BY <1>2 DEF Next, vars, FailEarly, Spread, Return, ReadChunk, FailGroup, EndGroup
  <2>2. ShapeData' = ShapeData
    BY <2>1 DEF ShapeData
  <2> QED
    BY <2>1, <2>2 DEF SpreadInv
<1> QED
  BY <1>1, <1>2

\* What GroupChunks() makes of chunks with a number of elements each: as many groups as
\* there are chunks or instances, none empty, and none going on once it has its share
LEMMA GroupsBalanced ==
  ASSUME NEW X, NEW cs \in Seq(X), cs # <<>>, NEW n \in Nat \ {0},
         \A c \in 1..Len(cs) : NElements(cs[c]) \in Nat
  PROVE  LET ends == GroupChunks(cs, n)
         IN  /\ ends \in Seq(1..Len(cs)) /\ Len(ends) = Min({n, Len(cs)}) /\ Len(ends) <= n
             /\ \A g \in 1..Len(ends) :
                  /\ Start(ends, g) \in 0..(ends[g] - 1)
                  /\ NElementsOf(SubSeq(cs, Start(ends, g) + 1, ends[g] - 1))
                       <= NElementsOf(cs) \div Len(ends) + 1
<1> DEFINE N == Len(cs)
           w == [c \in 1..N |-> NElements(cs[c])]
<1>1. N \in Nat /\ N >= 1 /\ DOMAIN cs = 1..N
  OBVIOUS
<1>2. PICK G : G = Min({n, N})
  OBVIOUS
<1>3. G \in 1..N /\ G <= n
  BY <1>1, <1>2, MinOfTwo
<1>4. PICK p, q : /\ IsRunning(p, cs) /\ IsGrouping(q, N, G, p)
                  /\ GroupChunks(cs, n) = Append(q[N], N)
  BY <1>2, GroupSteps
<1>5. PICK ends : ends = GroupChunks(cs, n)
  OBVIOUS
<1>6. /\ p \in [0..N -> Nat] /\ p[0] = 0 /\ w \in [1..N -> Nat]
      /\ \A m \in 1..N : p[m] = p[m - 1] + w[m]
  BY <1>4 DEF IsRunning
<1> HIDE DEF N
<1>7. w \in [1..N -> Nat] /\ \A c \in 1..N : w[c] = NElements(cs[c])
  BY <1>6
<1> HIDE DEF w
<1>8. ASSUME NEW a \in 0..N, NEW b \in a..N
      PROVE  p[a] <= p[b] /\ Sum([k \in 1..(b - a) |-> w[a + k]]) = p[b] - p[a]
  BY <1>1, <1>6, SumOfRange
<1>9. \A a \in 0..N : p[a] <= p[N]
  <2>1. TAKE a \in 0..N
  <2>2. N \in a..N
    BY <1>1
  <2> QED
    BY <1>8, <2>2
<1>10. /\ ends \in Seq(1..N) /\ Len(ends) = G
       /\ \A g \in 1..G : /\ Start(ends, g) \in 0..(ends[g] - 1)
                          /\ p[ends[g] - 1] - p[Start(ends, g)] <= p[N] \div G + 1
  <2>1. N \in Nat /\ N >= 1 /\ G \in 1..N /\ p \in [0..N -> Nat] /\ IsGrouping(q, N, G, p)
        /\ ends = Append(q[N], N)
    BY <1>1, <1>3, <1>4, <1>5, <1>6
  <2> QED
    BY <1>9, <2>1, GroupsEven
<1>11. ASSUME NEW a \in 0..N, NEW b \in a..N, NEW part, part = SubSeq(cs, a + 1, b)
       PROVE  NElementsOf(part) = p[b] - p[a]
  <2>1. a + 1 \in Nat \ {0} /\ b \in Int /\ b <= Len(cs)
    BY <1>1, <1>11 DEF N
  <2>2. part \in Seq(X)
    BY <1>11, <2>1, SubSeqType
  <2>3. Len(part) = b - a /\ \A k \in 1..(b - a) : part[k] = cs[a + k]
    BY <1>1, <1>11, <2>1 DEF N
  <2>4. [c \in DOMAIN part |-> NElements(part[c])] = [k \in 1..(b - a) |-> w[a + k]]
    <3>1. DOMAIN part = 1..(b - a)
      BY <2>3
    <3>2. \A k \in 1..(b - a) : a + k \in 1..N
      BY <1>1, <1>11
    <3> QED
      BY <1>7, <2>3, <3>1, <3>2
  <2> QED
    BY <1>8, <2>2, <2>4 DEF NElementsOf
<1>12. NElementsOf(cs) = p[N]
  <2>1. 0 \in 0..N /\ N \in 0..N
    BY <1>1
  <2>2. cs = SubSeq(cs, 0 + 1, N)
    BY <1>1 DEF N
  <2>3. NElementsOf(cs) = p[N] - p[0]
    BY <1>11, <2>1, <2>2
  <2>4. p[N] \in Nat /\ p[0] = 0
    BY <1>6, <2>1
  <2> QED
    BY <2>3, <2>4
<1>13. \A g \in 1..G : NElementsOf(SubSeq(cs, Start(ends, g) + 1, ends[g] - 1))
                         <= NElementsOf(cs) \div G + 1
  <2>1. TAKE g \in 1..G
  <2>2. ends[g] \in 1..N
    <3>1. PICK R : R = 1..N
      OBVIOUS
    <3>2. ends \in Seq(R) /\ g \in 1..Len(ends)
      BY <1>10, <3>1
    <3>3. ends[g] \in R
      BY <3>2
    <3> QED
      BY <3>1, <3>3
  <2>3. Start(ends, g) \in 0..N /\ ends[g] - 1 \in Start(ends, g)..N
    BY <1>1, <1>10, <2>2
  <2>4. NElementsOf(SubSeq(cs, Start(ends, g) + 1, ends[g] - 1)) = p[ends[g] - 1] - p[Start(ends, g)]
    BY <1>11, <2>3
  <2> QED
    BY <1>10, <1>12, <2>4
<1> QED
  BY <1>2, <1>3, <1>5, <1>10, <1>13 DEF N

\* The groups of a read
LEMMA SpreadBalanced ==
  SpreadInv => Balanced
<1> SUFFICES ASSUME SpreadInv, stage = "spread"
             PROVE  LET ends == GroupChunks(chunks, NInstances)
                        start(g) == IF g = 1 THEN 0 ELSE ends[g - 1]
                        share == NElementsOf(chunks) \div Len(ends) + 1
                    IN  /\ Len(ends) = Min({NInstances, Len(chunks)})
                        /\ \A g \in DOMAIN ends :
                             /\ start(g) < ends[g]
                             /\ NElementsOf(SubSeq(chunks, start(g) + 1, ends[g] - 1)) <= share
  BY DEF Balanced
<1>1. PICK X : X = ChunksOf(ShapeData)
  OBVIOUS
<1>2. PICK cs \in Seq(X) : cs = chunks /\ cs # <<>>
  BY <1>1 DEF SpreadInv
<1>3. \A c \in 1..Len(cs) : NElements(cs[c]) \in Nat
  BY <1>1, <1>2, ElementsOfChunk
<1>4. PICK ends : ends = GroupChunks(cs, NInstances)
  OBVIOUS
<1>5. /\ ends \in Seq(1..Len(cs)) /\ Len(ends) = Min({NInstances, Len(cs)})
      /\ \A g \in 1..Len(ends) :
           /\ Start(ends, g) \in 0..(ends[g] - 1)
           /\ NElementsOf(SubSeq(cs, Start(ends, g) + 1, ends[g] - 1))
                <= NElementsOf(cs) \div Len(ends) + 1
  BY <1>2, <1>3, <1>4, GroupsBalanced, ReadAssumption DEF ReadAssumption
<1>6. \A g \in DOMAIN ends :
        /\ Start(ends, g) < ends[g]
        /\ NElementsOf(SubSeq(cs, Start(ends, g) + 1, ends[g] - 1))
             <= NElementsOf(cs) \div Len(ends) + 1
  <2>1. TAKE g \in DOMAIN ends
  <2>2. ends \in Seq(1..Len(cs)) /\ g \in 1..Len(ends)
    BY <1>5
  <2>3. ends[g] \in Nat
    BY <2>2
  <2>4. Start(ends, g) \in 0..(ends[g] - 1)
    BY <1>5, <2>2
  <2>5. Start(ends, g) < ends[g]
    BY <2>3, <2>4
  <2> QED
    BY <1>5, <2>2, <2>5
<1> QED
  BY <1>2, <1>4, <1>5, <1>6 DEF Start

(***************************************************************************)
(* GroupChunks() leaves no instance without work, and no task reads much   *)
(* more than its share: of the chunks of any request.                      *)
(***************************************************************************)
THEOREM GroupsAreBalanced == Spec => []Balanced
<1>1. Init => SpreadInv
  BY DEF Init, SpreadInv
<1> QED
  BY <1>1, SpreadSteps, SpreadBalanced, PTL DEF Spec

\* A function of the numbers up to k, with k values
IsOfLength(f, k) == f = [g \in 1..k |-> f[g]]

\* Len() is the number of its values
LEMMA LengthOf ==
  ASSUME NEW k \in Nat, NEW f, IsOfLength(f, k) PROVE Len(f) = k /\ DOMAIN f = 1..k
<1>1. PICK X : X = {f[g] : g \in 1..k}
  OBVIOUS
<1>2. \A g \in 1..k : f[g] \in X
  BY <1>1
<1>3. f \in [1..k -> X]
  BY <1>2 DEF IsOfLength
<1> QED
  BY <1>3

\* A group, with a status, for each of at most NInstances tasks
GroupsInv ==
  /\ \E k \in 0..NInstances : IsOfLength(groups, k) /\ IsOfLength(status, k)
  /\ \A g \in DOMAIN groups : status[g] \in {"busy", "ok", "failed"}

\* Only elements of the column are put in the buffer
BufferInv == \A k \in DOMAIN buffer : buffer[k] # Untouched => Exists(buffer[k])

\* Starting to read
LEMMA StartGroups ==
  ASSUME SpreadInv, GroupsInv, PartitionTask \/ Spread PROVE GroupsInv'
<1>1. NInstances \in Nat /\ NInstances >= 1
  BY ReadAssumption DEF ReadAssumption
<1>2. CASE PartitionTask
  <2>1. CASE NInstances > 1 /\ Len(Partition.chunks) > 1
    BY <1>2, <2>1 DEF PartitionTask, GroupsInv
  <2>2. CASE ~ (NInstances > 1 /\ Len(Partition.chunks) > 1)
    <3>1. PICK all : groups' = <<all>>
      BY <1>2, <2>2 DEF PartitionTask
    <3>2. status' = <<"busy">>
      BY <1>2, <2>2 DEF PartitionTask
    <3>3. IsOfLength(groups', 1) /\ IsOfLength(status', 1)
      BY <3>1, <3>2 DEF IsOfLength
    <3>4. \A g \in DOMAIN groups' : status'[g] \in {"busy", "ok", "failed"}
      BY <3>1, <3>2
    <3> QED
      BY <1>1, <3>3, <3>4 DEF GroupsInv
  <2> QED
    BY <2>1, <2>2
<1>3. CASE Spread
  <2>1. PICK X : X = ChunksOf(ShapeData)
    OBVIOUS
  <2>2. PICK cs \in Seq(X) : cs = chunks /\ cs # <<>>
    BY <1>3, <2>1 DEF SpreadInv, Spread
  <2>3. \A c \in 1..Len(cs) : NElements(cs[c]) \in Nat
    BY <2>1, <2>2, ElementsOfChunk
  <2>4. PICK ends : ends = GroupChunks(cs, NInstances)
    OBVIOUS
  <2>5. ends \in Seq(1..Len(cs)) /\ Len(ends) <= NInstances
    BY <2>2, <2>3, <2>4, GroupsBalanced, ReadAssumption DEF ReadAssumption
  <2>6. PICK k \in 0..NInstances : DOMAIN ends = 1..k
    <3>1. PICK k : k = Len(ends)
      OBVIOUS
    <3>2. DOMAIN ends = 1..k /\ k \in Nat /\ k <= NInstances
      BY <2>5, <3>1
    <3>3. k \in 0..NInstances
      BY <1>1, <3>2
    <3> QED
      BY <3>2, <3>3
  <2>7. PICK start : groups' = [g \in DOMAIN ends |-> SubSeq(chunks, start[g], ends[g])]
    <3> DEFINE first == [g \in DOMAIN ends |-> IF g = 1 THEN 1 ELSE ends[g - 1] + 1]
    <3>1. groups' = [g \in DOMAIN ends |-> SubSeq(chunks, first[g], ends[g])]
      BY <1>3, <2>2, <2>4 DEF Spread
    <3> HIDE DEF first
    <3> QED
      BY <3>1
  <2>8. status' = [g \in DOMAIN ends |-> "busy"]
    BY <1>3, <2>2, <2>4 DEF Spread
  <2>9. IsOfLength(groups', k) /\ IsOfLength(status', k) /\ DOMAIN groups' = 1..k
    BY <2>6, <2>7, <2>8 DEF IsOfLength
  <2>10. \A g \in 1..k : status'[g] \in {"busy", "ok", "failed"}
    BY <2>6, <2>8
  <2> QED
    BY <2>9, <2>10 DEF GroupsInv
<1> QED
  BY <1>2, <1>3

\* The groups go on, end or fail
LEMMA GroupsSteps ==
  ASSUME SpreadInv, GroupsInv, [Next]_vars PROVE GroupsInv'
<1>1. CASE PartitionTask \/ Spread
  BY <1>1, StartGroups
<1>2. CASE UNCHANGED <<groups, status>>
  BY <1>2 DEF GroupsInv
<1>3. ASSUME NEW g \in DOMAIN groups, ReadChunk(g) \/ FailGroup(g) \/ EndGroup(g)
      PROVE  GroupsInv'
  <2>1. PICK k \in 0..NInstances : IsOfLength(groups, k) /\ IsOfLength(status, k)
    BY DEF GroupsInv
  <2>2. DOMAIN groups = 1..k /\ DOMAIN status = 1..k
    BY <2>1 DEF IsOfLength
  <2>3. groups' = groups \/ groups' = [groups EXCEPT ![g] = Tail(groups[g])]
    BY <1>3 DEF ReadChunk, FailGroup, EndGroup
  <2>4. \/ status' = status
        \/ status' = [status EXCEPT ![g] = "failed"]
        \/ status' = [status EXCEPT ![g] = "ok"]
    BY <1>3 DEF ReadChunk, FailGroup, EndGroup
  <2>5. IsOfLength(groups', k) /\ DOMAIN groups' = 1..k
    BY <2>1, <2>2, <2>3 DEF IsOfLength
  <2>6. IsOfLength(status', k)
    BY <2>1, <2>2, <2>4 DEF IsOfLength
  <2>7. \A h \in 1..k : status'[h] \in {"busy", "ok", "failed"}
    BY <2>2, <2>4 DEF GroupsInv
  <2> QED
    BY <2>5, <2>6, <2>7 DEF GroupsInv
<1> QED
  BY <1>1, <1>2, <1>3 DEF Next, vars, FailEarly, Return

\* What a chunk leaves in the buffer
LEMMA BufferOfChunk ==
  ASSUME BufferInv, NEW chunk, NEW k \in DOMAIN AfterRead(chunk),
         AfterRead(chunk)[k] # Untouched
  PROVE  Exists(AfterRead(chunk)[k])
<1> DEFINE at == {pos \in Positions(chunk) :
                    Target(chunk, pos) = k - 1 /\ Exists(Source(chunk, pos))}
<1>1. k \in DOMAIN buffer /\ AfterRead(chunk)[k]
        = IF IsEmpty(chunk) \/ at = {} THEN buffer[k] ELSE Source(chunk, CHOOSE pos \in at : TRUE)
  BY DEF AfterRead
<1>2. CASE IsEmpty(chunk) \/ at = {}
  BY <1>1, <1>2 DEF BufferInv
<1>3. CASE ~ (IsEmpty(chunk) \/ at = {})
  <2>1. (CHOOSE pos \in at : TRUE) \in at
    BY <1>3
  <2> QED
    BY <1>1, <1>3, <2>1
<1> QED
  BY <1>2, <1>3

\* Every step leaves elements of the column in the buffer
LEMMA BufferSteps ==
  ASSUME BufferInv, [Next]_vars PROVE BufferInv'
<1>1. read' = read
  BY DEF Next, vars, FailEarly, PartitionTask, Spread, Return, ReadChunk, FailGroup, EndGroup
<1>2. \A element : Exists(element)' <=> Exists(element)
  BY <1>1 DEF Exists
<1>3. SUFFICES \A k \in DOMAIN buffer' : buffer'[k] # Untouched => Exists(buffer'[k])
  BY <1>1 DEF BufferInv, Exists, Untouched
<1>4. CASE buffer' = buffer
  BY <1>4 DEF BufferInv
<1>5. CASE \E cs : buffer' = NewBuffer(cs)
  BY <1>5 DEF NewBuffer
<1>6. CASE \E chunk : buffer' = AfterRead(chunk)
  BY <1>6, BufferOfChunk
<1> QED
  BY <1>4, <1>5, <1>6
     DEF Next, vars, FailEarly, PartitionTask, Spread, Return, ReadChunk, FailGroup, EndGroup

\* The stages of the call
StageInv ==
  stage \in {"partition", "spread", "read", "returned"} /\ outcome \in {"none", "ok", "failed"}

(***************************************************************************)
(* Every task of a read has its group, of at most as many as there are     *)
(* instances, and only elements of the column are put in the result.       *)
(***************************************************************************)
THEOREM ReadTypeCorrect == Spec => []TypeOK
<1> DEFINE Inv == SpreadInv /\ GroupsInv /\ BufferInv /\ StageInv
<1>1. Init => Inv
  <2> SUFFICES ASSUME Init PROVE Inv
    OBVIOUS
  <2>1. 0 \in 0..NInstances
    BY ReadAssumption DEF ReadAssumption
  <2>2. IsOfLength(<<>>, 0) /\ groups = <<>> /\ status = <<>> /\ buffer = <<>>
    BY DEF IsOfLength, Init
  <2> QED
    BY <2>1, <2>2 DEF Init, SpreadInv, GroupsInv, BufferInv, StageInv
<1>2. Inv /\ [Next]_vars => Inv'
  <2> SUFFICES ASSUME Inv, [Next]_vars PROVE Inv'
    OBVIOUS
  <2>1. StageInv'
    BY DEF StageInv, Next, vars, FailEarly, PartitionTask, Spread, Return, MakeArray,
           ReadChunk, FailGroup, EndGroup
  <2> QED
    BY <2>1, SpreadSteps, GroupsSteps, BufferSteps
<1>3. Inv => TypeOK
  <2> SUFFICES ASSUME Inv PROVE TypeOK
    OBVIOUS
  <2>1. PICK k \in 0..NInstances : IsOfLength(groups, k) /\ IsOfLength(status, k)
    BY DEF GroupsInv
  <2>2. k \in Nat /\ k <= NInstances
    BY ReadAssumption DEF ReadAssumption
  <2>3. Len(groups) = k /\ DOMAIN groups = DOMAIN status
    BY <2>1, <2>2, LengthOf
  <2> QED
    BY <2>2, <2>3 DEF TypeOK, StageInv, GroupsInv, BufferInv
<1> HIDE DEF Inv
<1> QED
  BY <1>1, <1>2, <1>3, PTL DEF Spec

-----------------------------------------------------------------------------
(* Sequences appended to each other, sums and products *)

\* FlattenSeq() appends the sequences one after the other
LEMMA FlattenSteps ==
  ASSUME NEW S, NEW ss \in Seq(Seq(S))
  PROVE  \E f \in [0..Len(ss) -> Seq(S)] :
           /\ f[0] = <<>> /\ f[Len(ss)] = FlattenSeq(ss)
           /\ \A m \in 1..Len(ss) : f[m] = f[m - 1] \o ss[m]
<1>1. CASE Len(ss) = 0
  <2>1. FlattenSeq(ss) = ss /\ ss = <<>>
    BY <1>1 DEF FlattenSeq
  <2>2. PICK f : f = [i \in 0..0 |-> <<>>]
    OBVIOUS
  <2>3. f \in [0..0 -> Seq(S)] /\ f[0] = <<>>
    BY <2>2
  <2> QED
    BY <1>1, <2>1, <2>3
<1>2. CASE Len(ss) # 0
  <2>1. PICK n \in Nat : n = Len(ss) /\ n >= 1
    BY <1>2
  <2> DEFINE Body(f) == [i \in 1..Len(ss) |-> IF i = 1 THEN ss[i] ELSE f[i - 1] \o ss[i]]
             R == Seq(S)
  <2>2. PICK g : g = CHOOSE f : f = Body(f)
    OBVIOUS
  <2>3. FlattenSeq(ss) = g[n]
    BY <1>2, <2>1, <2>2 DEF FlattenSeq
  <2>4. PICK F : F = [x \in R \X (1..n) |-> x[1] \o ss[x[2]]]
    OBVIOUS
  <2>a. \A i \in 1..n : ss[i] \in R
    BY <2>1
  <2>b. \A r, s \in R : r \o s \in R
    OBVIOUS
  <2>5. \A r \in R : \A i \in 1..n : F[<<r, i>>] = r \o ss[i] /\ ss[i] \in R /\ r \o ss[i] \in R
    <3> HIDE DEF R
    <3> QED
      BY <2>a, <2>b, <2>4
  <2>6. <<>> \in R /\ \A r \in R : <<>> \o r = r
    OBVIOUS
  <2> HIDE DEF R
  <2>7. IsClosed(R, <<>>, F, n)
    BY <2>5, <2>6 DEF IsClosed
  <2>8. PICK it \in [SUBSET (1..n) -> R] : IsFold(it, <<>>, F, n)
    BY <2>1, <2>7, FoldExists
  <2>9. PICK p \in [0..n -> R] : IsFolded(p, <<>>, F, n)
    BY <2>1, <2>7, <2>8, FoldSteps
  <2>10. \A i \in 1..n : p[i] = p[i - 1] \o ss[i] /\ p[i] = IF i = 1 THEN ss[i] ELSE p[i - 1] \o ss[i]
    <3>1. SUFFICES ASSUME NEW i \in 1..n
                   PROVE  p[i] = p[i - 1] \o ss[i] /\ p[i] = IF i = 1 THEN ss[i] ELSE p[i - 1] \o ss[i]
      OBVIOUS
    <3>a. i - 1 \in 0..n
      BY <2>1
    <3>2. p[i - 1] \in R /\ p[i] = F[<<p[i - 1], i>>]
      BY <2>9, <3>a DEF IsFolded
    <3>3. p[i] = p[i - 1] \o ss[i] /\ ss[i] \in R
      BY <2>5, <3>2
    <3>4. i = 1 => p[i - 1] = <<>>
      BY <2>9 DEF IsFolded
    <3> QED
      BY <2>6, <3>3, <3>4
  <2> DEFINE h == [i \in 1..n |-> p[i]]
  <2>11. h = Body(h)
    <3>1. \A i \in 1..n : h[i] = p[i] /\ (i # 1 => i - 1 \in 1..n /\ h[i - 1] = p[i - 1])
      BY <2>1
    <3>2. \A i \in 1..n : h[i] = IF i = 1 THEN ss[i] ELSE h[i - 1] \o ss[i]
      BY <2>10, <3>1
    <3>3. h = [i \in 1..n |-> h[i]]
      OBVIOUS
    <3> HIDE DEF h
    <3> QED
      BY <2>1, <3>2, <3>3
  <2>12. g = Body(g)
    <3> HIDE DEF Body, h
    <3> QED
      BY <2>2, <2>11
  <2>13. \A i \in 1..n : g[i] = IF i = 1 THEN ss[i] ELSE g[i - 1] \o ss[i]
    BY <2>1, <2>12
  <2> DEFINE T == {m \in Nat : m + 1 <= n => g[m + 1] = p[m + 1]}
  <2>14. 0 \in T
    <3>1. 1 \in 1..n /\ 0 + 1 = 1
      BY <2>1
    <3>2. g[1] = ss[1] /\ p[1] = ss[1]
      BY <2>10, <2>13, <3>1
    <3> QED
      BY <3>1, <3>2
  <2>15. ASSUME NEW m \in Nat, m \in T PROVE m + 1 \in T
    <3>1. SUFFICES ASSUME (m + 1) + 1 <= n PROVE g[(m + 1) + 1] = p[(m + 1) + 1]
      OBVIOUS
    <3>2. g[m + 1] = p[m + 1] /\ (m + 1) + 1 \in 1..n /\ (m + 1) + 1 # 1
          /\ ((m + 1) + 1) - 1 = m + 1
      BY <2>15, <3>1
    <3>3. g[(m + 1) + 1] = g[m + 1] \o ss[(m + 1) + 1]
      BY <2>13, <3>2
    <3>4. p[(m + 1) + 1] = p[m + 1] \o ss[(m + 1) + 1]
      BY <2>10, <3>2
    <3> QED
      BY <3>2, <3>3, <3>4
  <2>16. n - 1 \in T
    <3>1. n - 1 \in Nat
      BY <2>1
    <3> HIDE DEF T
    <3> QED
      BY <2>14, <2>15, <3>1, NumbersOfSet
  <2>17. g[n] = p[n]
    <3>1. (n - 1) + 1 = n
      BY <2>1
    <3> QED
      BY <2>1, <2>16, <3>1
  <2>18. p[0] = <<>>
    BY <2>9 DEF IsFolded
  <2> QED
    BY <2>1, <2>3, <2>10, <2>17, <2>18 DEF R
<1> QED
  BY <1>1, <1>2

\* Where each element of flat comes from: no two from the same place of the sequences
PlacesOf(flat, ss, A, B) ==
  /\ \A k \in DOMAIN flat :
       A[k] \in DOMAIN ss /\ B[k] \in DOMAIN ss[A[k]] /\ flat[k] = ss[A[k]][B[k]]
  /\ \A k, l \in DOMAIN flat : A[k] = A[l] /\ B[k] = B[l] => k = l

\* Each element of the flattened sequences comes from a place of its own in one of them
LEMMA FlattenPlaces ==
  ASSUME NEW S, NEW ss \in Seq(Seq(S))
  PROVE  \E A, B : PlacesOf(FlattenSeq(ss), ss, A, B)
<1> DEFINE n == Len(ss)
<1>1. PICK R : R = Seq(S)
  OBVIOUS
<1>2. ss \in Seq(R) /\ n \in Nat /\ DOMAIN ss = 1..n /\ \A m \in 1..n : ss[m] \in R
  BY <1>1
<1>3. PICK f \in [0..n -> Seq(S)] :
        /\ f[0] = <<>> /\ f[n] = FlattenSeq(ss)
        /\ \A m \in 1..n : f[m] = f[m - 1] \o ss[m]
  BY FlattenSteps
<1> HIDE DEF n
<1> DEFINE Good(m) == \E A, B : PlacesOf(f[m], ss, A, B) /\ \A k \in DOMAIN f[m] : A[k] <= m
           T == {m \in Nat : m <= n => Good(m)}
<1>4. 0 \in T
  <2>1. DOMAIN f[0] = {}
    BY <1>3
  <2>2. PICK A : A = <<>>
    OBVIOUS
  <2>3. PlacesOf(f[0], ss, A, A) /\ \A k \in DOMAIN f[0] : A[k] <= 0
    BY <2>1 DEF PlacesOf
  <2> QED
    BY <2>3
<1>5. ASSUME NEW m \in Nat, m \in T PROVE m + 1 \in T
  <2>1. SUFFICES ASSUME m + 1 <= n PROVE Good(m + 1)
    <3> HIDE DEF Good
    <3> QED
      OBVIOUS
  <2>2. m \in 0..n /\ m + 1 \in 1..n /\ (m + 1) - 1 = m
    BY <1>2, <2>1
  <2>3. PICK A, B : PlacesOf(f[m], ss, A, B) /\ \A k \in DOMAIN f[m] : A[k] <= m
    BY <1>5, <2>2
  <2>4. PICK r \in Seq(S) : r = f[m]
    BY <1>3, <2>2
  <2>5. PICK t \in Seq(S) : t = ss[m + 1]
    BY <1>1, <1>2, <2>2
  <2>6. PICK u : u = r \o t
    OBVIOUS
  <2>7. f[m + 1] = u
    BY <1>3, <2>2, <2>4, <2>5, <2>6
  <2>8. PICK a \in Nat : a = Len(r) /\ DOMAIN r = 1..a
    OBVIOUS
  <2>9. PICK b \in Nat : b = Len(t) /\ DOMAIN t = 1..b
    OBVIOUS
  <2>10. DOMAIN u = 1..(a + b) /\ (\A k \in 1..a : u[k] = r[k])
         /\ \A k \in 1..(a + b) : k > a => k - a \in 1..b /\ u[k] = t[k - a]
    BY <2>6, <2>8, <2>9
  <2>11. PICK C : C = [k \in 1..(a + b) |-> IF k <= a THEN A[k] ELSE m + 1]
    OBVIOUS
  <2>12. PICK D : D = [k \in 1..(a + b) |-> IF k <= a THEN B[k] ELSE k - a]
    OBVIOUS
  <2>13. \A k \in 1..a : /\ A[k] \in DOMAIN ss /\ B[k] \in DOMAIN ss[A[k]] /\ r[k] = ss[A[k]][B[k]]
                         /\ A[k] <= m
    BY <2>3, <2>4, <2>8 DEF PlacesOf
  <2>14. \A k, l \in 1..a : A[k] = A[l] /\ B[k] = B[l] => k = l
    BY <2>3, <2>4, <2>8 DEF PlacesOf
  <2>15. \A k \in 1..(a + b) : C[k] \in DOMAIN ss /\ D[k] \in DOMAIN ss[C[k]] /\ u[k] = ss[C[k]][D[k]]
                               /\ C[k] <= m + 1
    <3>1. TAKE k \in 1..(a + b)
    <3>2. CASE k <= a
      <4>1. k \in 1..a /\ C[k] = A[k] /\ D[k] = B[k] /\ u[k] = r[k]
        BY <2>10, <2>11, <2>12, <3>2
      <4>2. A[k] <= m /\ A[k] \in Int
        BY <1>2, <2>13, <4>1
      <4> QED
        BY <2>13, <4>1, <4>2
    <3>3. CASE ~ (k <= a)
      <4>1. C[k] = m + 1 /\ D[k] = k - a /\ k - a \in 1..b /\ u[k] = t[k - a]
        BY <2>10, <2>11, <2>12, <3>3
      <4> QED
        BY <1>2, <2>2, <2>5, <2>9, <4>1
    <3> QED
      BY <3>2, <3>3
  <2>16. ASSUME NEW k \in 1..(a + b), NEW l \in 1..(a + b), C[k] = C[l], D[k] = D[l] PROVE k = l
    <3>1. \A x \in 1..(a + b) : IF x <= a THEN C[x] = A[x] /\ D[x] = B[x] /\ A[x] <= m /\ x \in 1..a /\ A[x] \in Int
                                ELSE C[x] = m + 1 /\ D[x] = x - a
      <4>1. TAKE x \in 1..(a + b)
      <4>2. C[x] = (IF x <= a THEN A[x] ELSE m + 1) /\ D[x] = IF x <= a THEN B[x] ELSE x - a
        BY <2>11, <2>12
      <4>3. x <= a => x \in 1..a
        OBVIOUS
      <4>4. x <= a => A[x] <= m /\ A[x] \in Int
        BY <1>2, <2>13, <4>3
      <4> QED
        BY <4>2, <4>3, <4>4
    <3>2. CASE k <= a /\ l <= a
      BY <2>14, <2>16, <3>1, <3>2
    <3>3. CASE ~ (k <= a) /\ ~ (l <= a)
      BY <2>16, <3>1, <3>3
    <3>4. CASE k <= a /\ ~ (l <= a)
      <4>1. C[k] <= m /\ C[l] = m + 1 /\ C[k] \in Int
        BY <3>1, <3>4
      <4> QED
        BY <2>16, <4>1
    <3>5. CASE ~ (k <= a) /\ l <= a
      <4>1. C[l] <= m /\ C[k] = m + 1 /\ C[l] \in Int
        BY <3>1, <3>5
      <4> QED
        BY <2>16, <4>1
    <3> QED
      BY <3>2, <3>3, <3>4, <3>5
  <2>17. PlacesOf(u, ss, C, D)
    BY <2>10, <2>15, <2>16 DEF PlacesOf
  <2> QED
    BY <2>7, <2>10, <2>15, <2>17
<1>6. n \in T
  <2> HIDE DEF T
  <2> QED
    BY <1>2, <1>4, <1>5, NumbersOfSet
<1>7. Good(n)
  BY <1>2, <1>6
<1> QED
  BY <1>3, <1>7

\* p are the sums of the first numbers of s
IsSums(p, s, n) == p \in [0..n -> Nat] /\ p[0] = 0 /\ \A m \in 1..n : p[m] = p[m - 1] + s[m]

\* The last of the sums is the sum
LEMMA SumIs ==
  ASSUME NEW n \in Nat, NEW s \in [1..n -> Nat], NEW p, IsSums(p, s, n)
  PROVE  Sum(s) = p[n] /\ Sum(s) \in Nat
<1>1. PICK N : N = n
  OBVIOUS
<1>2. 0 \in 0..n /\ n \in 0..n /\ n - 0 = n
  OBVIOUS
<1>3. Sum([k \in 1..(n - 0) |-> s[0 + k]]) = p[n] - p[0]
  BY <1>2, SumOfRange DEF IsSums
<1>4. [k \in 1..(n - 0) |-> s[0 + k]] = s
  BY <1>2
<1>5. p[n] \in Nat /\ p[0] = 0
  BY <1>2 DEF IsSums
<1> QED
  BY <1>3, <1>4, <1>5

\* Numbers can be summed one after the other
LEMMA SumsExist ==
  ASSUME NEW n \in Nat, NEW s \in [1..n -> Nat]
  PROVE  \E p : IsSums(p, s, n) /\ p[n] = Sum(s)
BY SumSteps DEF IsSums

\* The sum of the weights W of a sequence
Weight(W, s) == Sum([k \in DOMAIN s |-> W[s[k]]])

\* The weights are numbers
LEMMA Weights ==
  ASSUME NEW S, NEW W \in [S -> Nat], NEW s \in Seq(S)
  PROVE  /\ [k \in DOMAIN s |-> W[s[k]]] \in [1..Len(s) -> Nat]
         /\ Weight(W, s) \in Nat
<1>1. [k \in DOMAIN s |-> W[s[k]]] \in [1..Len(s) -> Nat] /\ Len(s) \in Nat
  OBVIOUS
<1>2. PICK n \in Nat : n = Len(s)
  OBVIOUS
<1>3. PICK w : w = [k \in DOMAIN s |-> W[s[k]]]
  OBVIOUS
<1>4. w \in [1..n -> Nat]
  BY <1>1, <1>2, <1>3
<1>5. PICK p : IsSums(p, w, n)
  BY <1>4, SumsExist
<1>6. Sum(w) \in Nat
  BY <1>4, <1>5, SumIs
<1> QED
  BY <1>1, <1>3, <1>6 DEF Weight

\* Appending adds the weights
LEMMA WeightOfConcat ==
  ASSUME NEW S, NEW W \in [S -> Nat], NEW s \in Seq(S), NEW t \in Seq(S)
  PROVE  Weight(W, s \o t) = Weight(W, s) + Weight(W, t)
<1>1. PICK a \in Nat : a = Len(s) /\ DOMAIN s = 1..a
  OBVIOUS
<1>2. PICK b \in Nat : b = Len(t) /\ DOMAIN t = 1..b
  OBVIOUS
<1>0. PICK u : u = s \o t
  OBVIOUS
<1>3. u \in Seq(S)
  BY <1>0
<1>4. DOMAIN u = 1..(a + b) /\ (\A k \in 1..a : u[k] = s[k]) /\ \A k \in 1..b : u[a + k] = t[k]
  BY <1>0, <1>1, <1>2
<1>5. PICK w : w = [k \in DOMAIN u |-> W[u[k]]]
  OBVIOUS
<1>6. w \in [1..(a + b) -> Nat] /\ a + b \in Nat
  BY <1>3, <1>4, <1>5
<1>7. PICK p : IsSums(p, w, a + b) /\ p[a + b] = Sum(w)
  BY <1>6, SumsExist
<1>8. /\ 0 \in 0..(a + b) /\ a \in 0..(a + b) /\ a \in 0..(a + b) /\ a + b \in a..(a + b)
      /\ a - 0 = a /\ (a + b) - a = b
  OBVIOUS
<1>17. Sum([k \in 1..(a - 0) |-> w[0 + k]]) = p[a] - p[0]
  BY <1>6, <1>7, <1>8, SumOfRange DEF IsSums
<1>13. p[0] = 0 /\ p[a] \in Nat /\ p[a + b] \in Nat
  BY <1>7, <1>8 DEF IsSums
<1>9. Sum([k \in 1..(a - 0) |-> w[0 + k]]) = p[a]
  BY <1>17, <1>13
<1>10. Sum([k \in 1..((a + b) - a) |-> w[a + k]]) = p[a + b] - p[a]
  BY <1>6, <1>7, <1>8, SumOfRange DEF IsSums
<1>11. [k \in DOMAIN s |-> W[s[k]]] = [k \in 1..(a - 0) |-> w[0 + k]]
  <2>1. \A k \in 1..a : W[s[k]] = w[0 + k]
    BY <1>4, <1>5
  <2> QED
    BY <1>1, <1>8, <2>1
<1>12. [k \in DOMAIN t |-> W[t[k]]] = [k \in 1..((a + b) - a) |-> w[a + k]]
  <2>1. \A k \in 1..b : W[t[k]] = w[a + k]
    <3>1. TAKE k \in 1..b
    <3>2. a + k \in 1..(a + b)
      OBVIOUS
    <3> QED
      BY <1>4, <1>5, <3>2
  <2> QED
    BY <1>2, <1>8, <2>1
<1>14. Weight(W, s) = p[a]
  BY <1>9, <1>11, Zenon DEF Weight
<1>15. Weight(W, t) = p[a + b] - p[a]
  BY <1>10, <1>12, Zenon DEF Weight
<1>16. Weight(W, u) = p[a + b]
  BY <1>5, <1>7 DEF Weight
<1> QED
  BY <1>0, <1>13, <1>14, <1>15, <1>16

\* Flattened sequences weigh what the sequences do
LEMMA WeightOfFlat ==
  ASSUME NEW S, NEW W \in [S -> Nat], NEW ss \in Seq(Seq(S))
  PROVE  Weight(W, FlattenSeq(ss)) = Sum([m \in DOMAIN ss |-> Weight(W, ss[m])])
<1>1. PICK R : R = Seq(S)
  OBVIOUS
<1>2. PICK n \in Nat : n = Len(ss)
  OBVIOUS
<1>3. DOMAIN ss = 1..n /\ \A m \in 1..n : ss[m] \in R
  BY <1>1, <1>2
<1>4. PICK f \in [0..n -> R] :
        /\ f[0] = <<>> /\ f[n] = FlattenSeq(ss)
        /\ \A m \in 1..n : f[m] = f[m - 1] \o ss[m]
  BY <1>1, <1>2, FlattenSteps
<1>5. PICK p : p = [m \in 0..n |-> Weight(W, f[m])]
  OBVIOUS
<1>6. PICK w : w = [m \in DOMAIN ss |-> Weight(W, ss[m])]
  OBVIOUS
<1>7. \A m \in 0..n : p[m] = Weight(W, f[m]) /\ p[m] \in Nat
  <2>1. TAKE m \in 0..n
  <2>2. f[m] \in Seq(S)
    BY <1>1, <1>4
  <2> QED
    BY <1>5, <2>2, Weights
<1>8. \A m \in 1..n : w[m] = Weight(W, ss[m]) /\ w[m] \in Nat
  <2>1. TAKE m \in 1..n
  <2>2. ss[m] \in Seq(S)
    BY <1>1, <1>3
  <2> QED
    BY <1>3, <1>6, <2>2, Weights
<1>9. \A m \in 1..n : p[m] = p[m - 1] + w[m]
  <2>1. TAKE m \in 1..n
  <2>2. m - 1 \in 0..n /\ m \in 0..n
    OBVIOUS
  <2>3. f[m - 1] \in Seq(S) /\ ss[m] \in Seq(S) /\ f[m] = f[m - 1] \o ss[m]
    BY <1>1, <1>3, <1>4, <2>2
  <2>4. Weight(W, f[m - 1] \o ss[m]) = Weight(W, f[m - 1]) + Weight(W, ss[m])
    BY <2>3, WeightOfConcat
  <2> QED
    BY <1>7, <1>8, <2>2, <2>3, <2>4
<1>10. p[0] = 0
  <2>1. Weight(W, <<>>) = 0
    <3>1. PICK v : v = [k \in DOMAIN <<>> |-> W[<<>>[k]]]
      OBVIOUS
    <3>2. v \in [1..0 -> Nat]
      BY <3>1
    <3>3. PICK q : IsSums(q, v, 0) /\ q[0] = Sum(v)
      BY <3>2, SumsExist
    <3> QED
      BY <3>1, <3>3 DEF Weight, IsSums
  <2>2. 0 \in 0..n
    OBVIOUS
  <2> QED
    BY <1>4, <1>7, <2>1, <2>2
<1>11. w \in [1..n -> Nat] /\ p \in [0..n -> Nat]
  BY <1>3, <1>5, <1>6, <1>7, <1>8
<1>12. IsSums(p, w, n)
  BY <1>9, <1>10, <1>11 DEF IsSums
<1>13. Sum(w) = p[n] /\ n \in 0..n
  BY <1>11, <1>12, SumIs
<1> QED
  BY <1>4, <1>6, <1>7, <1>13

\* Multiplication distributes
LEMMA Distributes ==
  ASSUME NEW a \in Nat, NEW b \in Nat, NEW c \in Nat
  PROVE  c * (a + b) = c * a + c * b /\ c * a \in Nat /\ c * 0 = 0 /\ a * c = c * a /\ (a + b) * c = a * c + b * c
OBVIOUS

\* A factor of all the terms is one of their sum
LEMMA SumScaled ==
  ASSUME NEW n \in Nat, NEW s \in [1..n -> Nat], NEW c \in Nat
  PROVE  Sum([k \in 1..n |-> c * s[k]]) = c * Sum(s)
<1>1. PICK p : IsSums(p, s, n) /\ p[n] = Sum(s)
  BY SumsExist
<1>2. PICK q : q = [k \in 0..n |-> c * p[k]]
  OBVIOUS
<1>3. PICK t : t = [k \in 1..n |-> c * s[k]]
  OBVIOUS
<1>4. \A k \in 1..n : t[k] \in Nat
  BY <1>3, Distributes
<1>5. t \in [1..n -> Nat]
  BY <1>3, <1>4
<1>6. \A k \in 0..n : p[k] \in Nat
  BY <1>1 DEF IsSums
<1>7. \A k \in 0..n : q[k] = c * p[k] /\ q[k] \in Nat
  BY <1>2, <1>6, Distributes
<1>8. q[0] = 0
  <2>1. 0 \in 0..n /\ p[0] = 0
    BY <1>1 DEF IsSums
  <2> QED
    BY <1>7, <2>1
<1>9. \A k \in 1..n : q[k] = q[k - 1] + t[k]
  <2>1. TAKE k \in 1..n
  <2>2. k - 1 \in 0..n /\ k \in 0..n
    OBVIOUS
  <2>3. p[k] = p[k - 1] + s[k] /\ p[k - 1] \in Nat /\ s[k] \in Nat
    BY <1>1, <1>6, <2>2 DEF IsSums
  <2>4. c * (p[k - 1] + s[k]) = c * p[k - 1] + c * s[k]
    BY <2>3, Distributes
  <2> QED
    BY <1>3, <1>7, <2>2, <2>3, <2>4
<1>10. IsSums(q, t, n)
  BY <1>2, <1>7, <1>8, <1>9 DEF IsSums
<1>11. Sum(t) = q[n] /\ n \in 0..n
  BY <1>5, <1>10, SumIs
<1> QED
  BY <1>1, <1>3, <1>7, <1>11

\* The product with each span appended to each of its members, and that as one sequence
Rows(product, spans) == [k \in DOMAIN product |-> [s \in DOMAIN spans |-> Append(product[k], spans[s])]]
Extend(product, spans) == FlattenSeq(Rows(product, spans))

\* Each row of the product is one of its members with each of the spans appended
LEMMA RowsOfProduct ==
  ASSUME NEW r \in Seq(Seq(SpanPair)), NEW spans \in Seq(SpanPair)
  PROVE  /\ Rows(r, spans) \in Seq(Seq(Seq(SpanPair)))
         /\ DOMAIN Rows(r, spans) = DOMAIN r
         /\ \A k \in DOMAIN r : /\ Rows(r, spans)[k] \in Seq(Seq(SpanPair))
                                /\ DOMAIN Rows(r, spans)[k] = DOMAIN spans
                                /\ r[k] \in Seq(SpanPair)
                                /\ \A s \in DOMAIN spans : Rows(r, spans)[k][s] = Append(r[k], spans[s])
<1>1. PICK T : T = Seq(SpanPair)
  OBVIOUS
<1>2. r \in Seq(T) /\ DOMAIN r = 1..Len(r) /\ Len(r) \in Nat
  BY <1>1
<1>3. DOMAIN spans = 1..Len(spans) /\ Len(spans) \in Nat
  OBVIOUS
<1>4. \A k \in DOMAIN r : \A s \in DOMAIN spans : Append(r[k], spans[s]) \in T
  <2>1. TAKE k \in DOMAIN r
  <2>2. TAKE s \in DOMAIN spans
  <2>3. r[k] \in Seq(SpanPair) /\ spans[s] \in SpanPair
    <3> HIDE DEF SpanPair
    <3>1. r[k] \in T
      BY <1>2
    <3> QED
      BY <1>1, <3>1
  <2> HIDE DEF SpanPair
  <2> QED
    BY <1>1, <2>3
<1> DEFINE row(k) == [s \in DOMAIN spans |-> Append(r[k], spans[s])]
<1>5. \A k \in DOMAIN r : row(k) \in Seq(T)
  BY <1>3, <1>4
<1>6. \A k \in DOMAIN r : DOMAIN row(k) = DOMAIN spans /\ \A s \in DOMAIN spans : row(k)[s] = Append(r[k], spans[s])
  OBVIOUS
<1>7. Rows(r, spans) = [k \in DOMAIN r |-> row(k)]
  BY DEF Rows
<1>8. \A k \in DOMAIN r : r[k] \in Seq(SpanPair)
  BY <1>1, <1>2
<1> HIDE DEF row
<1>9. PICK S : S = Seq(T)
  OBVIOUS
<1>10. [k \in DOMAIN r |-> row(k)] \in Seq(S)
  BY <1>2, <1>5, <1>9
<1> QED
  BY <1>1, <1>5, <1>6, <1>7, <1>8, <1>9, <1>10

\* CartesianProduct() extends the product with the spans of one dimension after the other
LEMMA CartesianSteps ==
  ASSUME NEW n \in Nat, NEW dims \in [1..n -> Seq(SpanPair)]
  PROVE  \E c \in [0..n -> Seq(Seq(SpanPair))] :
           /\ c[0] = << <<>> >> /\ c[n] = CartesianProduct(dims)
           /\ \A m \in 1..n : c[m] = Extend(c[m - 1], dims[m])
<1> DEFINE D == SUBSET (1..n)
           R == Seq(Seq(SpanPair))
           ext(product, spans) ==
             FlattenSeq([k \in DOMAIN product |-> [s \in DOMAIN spans |-> Append(product[k], spans[s])]])
           Body(f) == [S \in SUBSET (DOMAIN dims) |->
                         IF S = {} THEN << <<>> >> ELSE ext(f[S \ {Max(S)}], dims[Max(S)])]
<1>1. PICK it : it = CHOOSE f : f = Body(f)
  OBVIOUS
<1>2. CartesianProduct(dims) = it[DOMAIN dims]
  BY <1>1 DEF CartesianProduct, FoldLeft, MapThenFoldSet
<1>3. DOMAIN dims = 1..n
  OBVIOUS
<1>4. \A S \in D : S # {} => Max(S) \in 1..n /\ S \ {Max(S)} \in D
  BY MaxIsOneOf
<1>5. << <<>> >> \in R
  OBVIOUS
<1>6. ASSUME NEW r \in R, NEW i \in 1..n PROVE ext(r, dims[i]) \in R
  <2>1. PICK spans \in Seq(SpanPair) : spans = dims[i]
    OBVIOUS
  <2>2. Rows(r, spans) \in Seq(Seq(Seq(SpanPair)))
    BY RowsOfProduct
  <2>3. FlattenSeq(Rows(r, spans)) \in Seq(Seq(SpanPair))
    BY <2>2, FlattenType
  <2> QED
    BY <2>1, <2>3 DEF Rows
<1>e. \A r : \A i : ext(r, dims[i]) = Extend(r, dims[i])
  BY DEF Extend, Rows
<1> HIDE DEF R, ext
<1> DEFINE Q == R \cup {it[S] : S \in D}
<1>7. PICK F : F = [x \in Q \X (1..n) |-> ext(x[1], dims[x[2]])]
  OBVIOUS
<1>8. \A r \in Q : \A i \in 1..n : F[<<r, i>>] = ext(r, dims[i])
  BY <1>7
<1>9. (\A r \in R : r \in Q) /\ \A S \in D : it[S] \in Q
  OBVIOUS
<1> HIDE DEF Q
<1>10. IsClosed(R, << <<>> >>, F, n)
  BY <1>5, <1>6, <1>8, <1>9 DEF IsClosed
<1>11. PICK f \in [D -> R] : IsFold(f, << <<>> >>, F, n)
  BY <1>10, FoldExists
<1>12. f = Body(f)
  BY <1>3, <1>4, <1>8, <1>9, <1>11 DEF IsFold
<1>13. it = Body(it)
  <2> HIDE DEF Body
  <2> QED
    BY <1>1, <1>12
<1>14. IsFold(it, << <<>> >>, F, n)
  BY <1>3, <1>4, <1>8, <1>9, <1>13 DEF IsFold
<1>15. PICK p \in [0..n -> R] : IsFolded(p, << <<>> >>, F, n) /\ p[n] = it[1..n]
  BY <1>10, <1>14, FoldSteps
<1>16. \A m \in 1..n : p[m] = Extend(p[m - 1], dims[m])
  <2>1. TAKE m \in 1..n
  <2>2. m - 1 \in 0..n
    OBVIOUS
  <2>3. p[m - 1] \in Q /\ p[m] = F[<<p[m - 1], m>>]
    BY <1>9, <1>15, <2>2 DEF IsFolded
  <2> QED
    BY <1>8, <1>e, <2>3
<1>17. p[0] = << <<>> >>
  BY <1>15 DEF IsFolded
<1> QED
  BY <1>2, <1>3, <1>15, <1>16, <1>17 DEF R

\* Which of the spans of each dimension make up each member of a product: no two are made
\* up of the same
ChoicesOf(product, dims, n, C) ==
  /\ \A k \in DOMAIN product :
       /\ Len(product[k]) = n /\ product[k] \in Seq(SpanPair)
       /\ \A d \in 1..n : C[k][d] \in DOMAIN dims[d] /\ product[k][d] = dims[d][C[k][d]]
  /\ \A k, l \in DOMAIN product : (\A d \in 1..n : C[k][d] = C[l][d]) => k = l

\* Each chunk of a CartesianProduct() is a choice of spans, one of each dimension, that no other is
LEMMA CartesianChoices ==
  ASSUME NEW n \in Nat, NEW dims \in [1..n -> Seq(SpanPair)]
  PROVE  \E C : ChoicesOf(CartesianProduct(dims), dims, n, C)
<1>1. PICK c \in [0..n -> Seq(Seq(SpanPair))] :
        /\ c[0] = << <<>> >> /\ c[n] = CartesianProduct(dims)
        /\ \A m \in 1..n : c[m] = Extend(c[m - 1], dims[m])
  BY CartesianSteps
<1> DEFINE Good(m) == \E C : ChoicesOf(c[m], dims, m, C)
           T == {m \in Nat : m <= n => Good(m)}
<1>2. 0 \in T
  <2>1. PICK p : p = << <<>> >>
    OBVIOUS
  <2>2. DOMAIN p = {1} /\ p[1] = <<>>
    BY <2>1
  <2>3. Len(p[1]) = 0 /\ p[1] \in Seq(SpanPair) /\ 1..0 = {}
    <3> HIDE DEF SpanPair
    <3> QED
      BY <2>2
  <2>4. ChoicesOf(p, dims, 0, p)
    BY <2>2, <2>3 DEF ChoicesOf
  <2> QED
    BY <1>1, <2>1, <2>4
<1>3. ASSUME NEW m \in Nat, m \in T PROVE m + 1 \in T
  <2>1. SUFFICES ASSUME m + 1 <= n PROVE Good(m + 1)
    <3> HIDE DEF Good
    <3> QED
      OBVIOUS
  <2>2. m \in 0..n /\ m + 1 \in 1..n /\ m + 1 \in 0..n /\ (m + 1) - 1 = m
    BY <2>1
  <2>3. PICK C : ChoicesOf(c[m], dims, m, C)
    BY <1>3, <2>2
  <2>4. PICK r \in Seq(Seq(SpanPair)) : r = c[m]
    BY <1>1, <2>2
  <2>5. PICK spans \in Seq(SpanPair) : spans = dims[m + 1]
    BY <2>2
  <2>6. PICK ss \in Seq(Seq(Seq(SpanPair))) :
          /\ ss = Rows(r, spans) /\ DOMAIN ss = DOMAIN r
          /\ \A k \in DOMAIN r : /\ DOMAIN ss[k] = DOMAIN spans /\ r[k] \in Seq(SpanPair)
                                 /\ \A s \in DOMAIN spans : ss[k][s] = Append(r[k], spans[s])
    BY RowsOfProduct
  <2>7. PICK u : u = FlattenSeq(ss)
    OBVIOUS
  <2>8. c[m + 1] = u
    <3>1. c[m + 1] = Extend(c[m], dims[m + 1])
      BY <1>1, <2>2
    <3> QED
      BY <2>4, <2>5, <2>6, <2>7, <3>1 DEF Extend
  <2>9. PICK A, B : PlacesOf(u, ss, A, B)
    BY <2>7, FlattenPlaces
  <2>10. \A k \in DOMAIN u : /\ A[k] \in DOMAIN r /\ B[k] \in DOMAIN spans
                             /\ u[k] = Append(r[A[k]], spans[B[k]]) /\ r[A[k]] \in Seq(SpanPair)
    <3>1. TAKE k \in DOMAIN u
    <3>2. A[k] \in DOMAIN ss /\ B[k] \in DOMAIN ss[A[k]] /\ u[k] = ss[A[k]][B[k]]
      BY <2>9 DEF PlacesOf
    <3>3. PICK a \in DOMAIN r : a = A[k]
      BY <2>6, <3>2
    <3>4. PICK b \in DOMAIN spans : b = B[k]
      BY <2>6, <3>2, <3>3
    <3>5. u[k] = ss[a][b] /\ ss[a][b] = Append(r[a], spans[b]) /\ r[a] \in Seq(SpanPair)
      BY <2>6, <3>2, <3>3, <3>4
    <3> QED
      BY <3>3, <3>4, <3>5
  <2>11. \A k, l \in DOMAIN u : A[k] = A[l] /\ B[k] = B[l] => k = l
    BY <2>9 DEF PlacesOf
  <2>12. PICK E : E = [k \in DOMAIN u |-> [d \in 1..(m + 1) |-> IF d <= m THEN C[A[k]][d] ELSE B[k]]]
    OBVIOUS
  <2>13. \A k \in DOMAIN u : (\A d \in 1..m : E[k][d] = C[A[k]][d]) /\ E[k][m + 1] = B[k]
    <3>1. \A d \in 1..m : d \in 1..(m + 1) /\ d <= m
      OBVIOUS
    <3>2. m + 1 \in 1..(m + 1) /\ ~ (m + 1 <= m)
      OBVIOUS
    <3> QED
      BY <2>12, <3>1, <3>2
  <2>14. ASSUME NEW k \in DOMAIN u
         PROVE  /\ Len(u[k]) = m + 1 /\ u[k] \in Seq(SpanPair)
                /\ \A d \in 1..(m + 1) : E[k][d] \in DOMAIN dims[d] /\ u[k][d] = dims[d][E[k][d]]
    <3>1. PICK v \in Seq(SpanPair) : v = r[A[k]]
      BY <2>10
    <3>2. PICK span \in SpanPair : span = spans[B[k]]
      <4> HIDE DEF SpanPair
      <4> QED
        BY <2>10
    <3>3. Len(v) = m /\ \A d \in 1..m : /\ C[A[k]][d] \in DOMAIN dims[d]
                                        /\ v[d] = dims[d][C[A[k]][d]]
      BY <2>3, <2>4, <2>10, <3>1 DEF ChoicesOf
    <3>4. PICK w : w = Append(v, span)
      OBVIOUS
    <3>5. w = u[k]
      BY <2>10, <3>1, <3>2, <3>4
    <3>6. w \in Seq(SpanPair) /\ Len(w) = m + 1 /\ (\A d \in 1..m : w[d] = v[d]) /\ w[m + 1] = span
      <4> HIDE DEF SpanPair
      <4> QED
        BY <3>3, <3>4
    <3>7. \A d \in 1..(m + 1) : d \in 1..m \/ d = m + 1
      OBVIOUS
    <3>8. ASSUME NEW d \in 1..(m + 1) PROVE E[k][d] \in DOMAIN dims[d] /\ w[d] = dims[d][E[k][d]]
      <4>1. CASE d \in 1..m
        BY <2>13, <3>3, <3>6, <4>1
      <4>2. CASE d = m + 1
        BY <2>5, <2>10, <2>13, <3>2, <3>6, <4>2
      <4> QED
        BY <3>7, <4>1, <4>2
    <3> QED
      BY <3>5, <3>6, <3>8
  <2>15. ASSUME NEW k \in DOMAIN u, NEW l \in DOMAIN u, \A d \in 1..(m + 1) : E[k][d] = E[l][d]
         PROVE  k = l
    <3>1. \A d \in 1..m : C[A[k]][d] = C[A[l]][d]
      <4>1. TAKE d \in 1..m
      <4>2. d \in 1..(m + 1)
        OBVIOUS
      <4> QED
        BY <2>13, <2>15, <4>2
    <3>2. A[k] = A[l]
      BY <2>3, <2>4, <2>10, <3>1 DEF ChoicesOf
    <3>3. m + 1 \in 1..(m + 1)
      OBVIOUS
    <3>4. B[k] = B[l]
      BY <2>13, <2>15, <3>3
    <3> QED
      BY <2>11, <3>2, <3>4
  <2>16. ChoicesOf(u, dims, m + 1, E)
    BY <2>14, <2>15 DEF ChoicesOf
  <2> QED
    BY <2>8, <2>16
<1>4. n \in T
  <2> HIDE DEF T
  <2> QED
    BY <1>2, <1>3, NumbersOfSet
<1>5. Good(n)
  BY <1>4
<1> QED
  BY <1>1, <1>5

\* p are the products of the first numbers of s
IsProducts(p, s, n) ==
  (\A m \in 0..n : p[m] \in Nat) /\ p[0] = 1 /\ \A m \in 1..n : p[m] = p[m - 1] * s[m]

\* Numbers can be multiplied one after the other
LEMMA ProductsExist ==
  ASSUME NEW n \in Nat, NEW s \in [1..n -> Nat]
  PROVE  \E p : IsProducts(p, s, n) /\ p[n] = Product(s)
BY ProductSteps DEF IsProducts

\* Products are products of the same numbers
LEMMA ProductsAgree ==
  ASSUME NEW n \in Nat, NEW s, NEW t, NEW p, NEW q, IsProducts(p, s, n), IsProducts(q, t, n),
         NEW k \in 0..n, \A i \in 1..k : s[i] = t[i]
  PROVE  p[k] = q[k]
<1> DEFINE T == {m \in Nat : m <= k => p[m] = q[m]}
<1>1. 0 \in T
  BY DEF IsProducts
<1>2. ASSUME NEW m \in Nat, m \in T PROVE m + 1 \in T
  <2>1. SUFFICES ASSUME m + 1 <= k PROVE p[m + 1] = q[m + 1]
    OBVIOUS
  <2>2. m + 1 \in 1..n /\ m + 1 \in 1..k /\ (m + 1) - 1 = m /\ p[m] = q[m]
    BY <1>2, <2>1
  <2>3. p[m + 1] = p[m] * s[m + 1] /\ q[m + 1] = q[m] * t[m + 1]
    BY <2>2 DEF IsProducts
  <2> QED
    BY <2>2, <2>3
<1>3. k \in T
  <2> HIDE DEF T
  <2> QED
    BY <1>1, <1>2, NumbersOfSet
<1> QED
  BY <1>3

\* The last of the products is the product
LEMMA ProductIs ==
  ASSUME NEW n \in Nat, NEW s \in [1..n -> Nat], NEW p, IsProducts(p, s, n)
  PROVE  Product(s) = p[n] /\ Product(s) \in Nat
<1>1. PICK q : IsProducts(q, s, n) /\ q[n] = Product(s)
  BY ProductsExist
<1>2. n \in 0..n /\ p[n] \in Nat
  BY DEF IsProducts
<1>3. p[n] = q[n]
  BY <1>1, <1>2, ProductsAgree
<1> QED
  BY <1>1, <1>2, <1>3

\* One number more
LEMMA ProductAppend ==
  ASSUME NEW n \in Nat, NEW s \in [1..n -> Nat], NEW t \in [1..(n + 1) -> Nat],
         \A i \in 1..n : s[i] = t[i]
  PROVE  Product(t) = Product(s) * t[n + 1] /\ Product(s) \in Nat
<1>1. PICK p : IsProducts(p, s, n) /\ p[n] = Product(s)
  BY ProductsExist
<1>2. n + 1 \in Nat
  OBVIOUS
<1>3. PICK q : IsProducts(q, t, n + 1) /\ q[n + 1] = Product(t)
  BY <1>2, ProductsExist
<1>4. IsProducts(q, t, n)
  <2>1. \A m \in 0..n : m \in 0..(n + 1)
    OBVIOUS
  <2>2. \A m \in 1..n : m \in 1..(n + 1)
    OBVIOUS
  <2> QED
    BY <1>3, <2>1, <2>2 DEF IsProducts
<1>5. n \in 0..n /\ n + 1 \in 1..(n + 1) /\ (n + 1) - 1 = n
  OBVIOUS
<1>6. p[n] = q[n]
  BY <1>1, <1>4, <1>5, ProductsAgree
<1>7. q[n + 1] = q[n] * t[n + 1] /\ p[n] \in Nat
  BY <1>1, <1>3, <1>5 DEF IsProducts
<1> QED
  BY <1>1, <1>3, <1>6, <1>7

\* The number of elements of a product of span pairs, and of indices of the spans of a dimension
Size(spans) == Product([d \in DOMAIN spans |-> Len(spans[d].disk)])
Total(spans) == Sum([s \in DOMAIN spans |-> Len(spans[s].disk)])

\* The lengths of spans, and what they multiply and add up to, are natural numbers
LEMMA Lengths ==
  ASSUME NEW spans \in Seq(SpanPair)
  PROVE  /\ [d \in DOMAIN spans |-> Len(spans[d].disk)] \in [1..Len(spans) -> Nat]
         /\ Len(spans) \in Nat /\ Size(spans) \in Nat /\ Total(spans) \in Nat
<1>1. \A d \in DOMAIN spans : Len(spans[d].disk) \in Nat
  BY DEF SpanPair
<1>2. DOMAIN spans = 1..Len(spans) /\ Len(spans) \in Nat
  OBVIOUS
<1>3. PICK s : s = [d \in DOMAIN spans |-> Len(spans[d].disk)]
  OBVIOUS
<1>4. PICK n \in Nat : n = Len(spans)
  OBVIOUS
<1>5. s \in [1..n -> Nat]
  BY <1>1, <1>2, <1>3, <1>4
<1>6. Product(s) \in Nat
  BY <1>5, ProductsExist, ProductIs
<1>7. Sum(s) \in Nat
  BY <1>5, SumsExist, SumIs
<1> QED
  BY <1>2, <1>3, <1>4, <1>5, <1>6, <1>7 DEF Size, Total

\* A span more multiplies the number of elements by its length
LEMMA SizeOfAppend ==
  ASSUME NEW r \in Seq(SpanPair), NEW span \in SpanPair
  PROVE  Size(Append(r, span)) = Size(r) * Len(span.disk)
<1>1. PICK n \in Nat : n = Len(r)
  OBVIOUS
<1>2. PICK u : u = Append(r, span)
  OBVIOUS
<1>3. /\ u \in Seq(SpanPair) /\ Len(u) = n + 1 /\ DOMAIN r = 1..n /\ DOMAIN u = 1..(n + 1)
      /\ (\A d \in 1..n : u[d] = r[d]) /\ u[n + 1] = span
  <2> HIDE DEF SpanPair
  <2> QED
    BY <1>1, <1>2
<1>4. PICK s : s = [d \in DOMAIN r |-> Len(r[d].disk)]
  OBVIOUS
<1>5. PICK t : t = [d \in DOMAIN u |-> Len(u[d].disk)]
  OBVIOUS
<1>6. s \in [1..n -> Nat]
  BY <1>1, <1>4, Lengths
<1>7. t \in [1..(n + 1) -> Nat]
  BY <1>3, <1>5, Lengths
<1>8. (\A i \in 1..n : s[i] = t[i]) /\ t[n + 1] = Len(span.disk)
  <2>1. n + 1 \in 1..(n + 1) /\ \A i \in 1..n : i \in 1..(n + 1)
    OBVIOUS
  <2> QED
    BY <1>3, <1>4, <1>5, <2>1
<1>9. Product(t) = Product(s) * t[n + 1]
  BY <1>6, <1>7, <1>8, ProductAppend
<1>10. Size(u) = Product(t) /\ Size(r) = Product(s)
  BY <1>4, <1>5 DEF Size
<1> QED
  BY <1>2, <1>8, <1>9, <1>10

\* The number of elements of each product
IsSizes(W) == W = [spans \in Seq(SpanPair) |-> Size(spans)]

\* The number of elements of a chunk is a natural number
LEMMA SizesType ==
  ASSUME NEW W, IsSizes(W)
  PROVE  W \in [Seq(SpanPair) -> Nat] /\ \A s \in Seq(SpanPair) : W[s] = Size(s)
<1>1. PICK T : T = Seq(SpanPair)
  OBVIOUS
<1>2. \A s \in T : Size(s) \in Nat
  BY <1>1, Lengths
<1>3. W = [spans \in T |-> Size(spans)]
  BY <1>1 DEF IsSizes
<1>4. W \in [T -> Nat] /\ \A s \in T : W[s] = Size(s)
  BY <1>2, <1>3
<1> QED
  BY <1>1, <1>4

\* A product extended by a dimension has as many elements for each index of the dimension
LEMMA SizeOfExtend ==
  ASSUME NEW r \in Seq(Seq(SpanPair)), NEW spans \in Seq(SpanPair), NEW W, IsSizes(W)
  PROVE  Weight(W, Extend(r, spans)) = Total(spans) * Weight(W, r)
<1>1. PICK T : T = Seq(SpanPair)
  OBVIOUS
<1>2. W \in [T -> Nat] /\ \A s \in T : W[s] = Size(s)
  BY <1>1, SizesType
<1>3. PICK ss \in Seq(Seq(T)) :
        /\ ss = Rows(r, spans) /\ DOMAIN ss = DOMAIN r
        /\ \A k \in DOMAIN r : /\ ss[k] \in Seq(T)
                               /\ DOMAIN ss[k] = DOMAIN spans /\ r[k] \in Seq(SpanPair)
                               /\ \A s \in DOMAIN spans : ss[k][s] = Append(r[k], spans[s])
  BY <1>1, RowsOfProduct
<1>4. Weight(W, Extend(r, spans)) = Sum([m \in DOMAIN ss |-> Weight(W, ss[m])])
  BY <1>2, <1>3, WeightOfFlat DEF Extend
<1>5. PICK b \in Nat : b = Len(spans)
  OBVIOUS
<1>6. PICK t : t = [s \in DOMAIN spans |-> Len(spans[s].disk)]
  OBVIOUS
<1>7. t \in [1..b -> Nat] /\ Total(spans) = Sum(t) /\ Total(spans) \in Nat
  BY <1>5, <1>6, Lengths DEF Total
<1>d. DOMAIN spans = 1..b
  BY <1>5
<1>8. ASSUME NEW k \in DOMAIN r PROVE Weight(W, ss[k]) = Total(spans) * W[r[k]]
  <2>1. PICK v \in Seq(SpanPair) : v = r[k]
    BY <1>3
  <2>2. PICK c \in Nat : c = W[v] /\ c = Size(v)
    BY <1>1, <1>2
  <2>3. \A s \in DOMAIN spans : W[ss[k][s]] = c * t[s]
    <3>1. TAKE s \in DOMAIN spans
    <3>2. PICK span \in SpanPair : span = spans[s]
      <4> HIDE DEF SpanPair
      <4> QED
        OBVIOUS
    <3>3. PICK w : w = Append(v, span)
      OBVIOUS
    <3>4. w \in T
      <4> HIDE DEF SpanPair
      <4> QED
        BY <1>1, <3>3
    <3>5. ss[k][s] = w
      BY <1>3, <2>1, <3>2, <3>3
    <3>6. Size(w) = Size(v) * Len(span.disk)
      BY <3>3, SizeOfAppend
    <3>7. t[s] = Len(span.disk)
      BY <1>6, <3>2
    <3> QED
      BY <1>2, <2>2, <3>4, <3>5, <3>6, <3>7
  <2>4. PICK f : f = [s \in DOMAIN ss[k] |-> W[ss[k][s]]]
    OBVIOUS
  <2>5. f = [s \in 1..b |-> c * t[s]]
    BY <1>3, <1>d, <2>3, <2>4
  <2>6. Sum(f) = c * Sum(t)
    <3>1. Sum([s \in 1..b |-> c * t[s]]) = c * Sum(t)
      BY <1>7, SumScaled
    <3> QED
      BY <2>5, <3>1, Zenon
  <2>7. Weight(W, ss[k]) = Sum(f)
    BY <2>4 DEF Weight
  <2>8. Weight(W, ss[k]) = c * Total(spans)
    BY <1>7, <2>6, <2>7
  <2>9. c * Total(spans) = Total(spans) * c
    BY <1>7
  <2> QED
    BY <2>1, <2>2, <2>8, <2>9
<1>9. PICK a \in Nat : a = Len(r) /\ DOMAIN r = 1..a
  OBVIOUS
<1>10. PICK w : w = [k \in DOMAIN r |-> W[r[k]]]
  OBVIOUS
<1>11. w \in [1..a -> Nat] /\ Weight(W, r) = Sum(w)
  <2>1. r \in Seq(T)
    BY <1>1
  <2> QED
    BY <1>2, <1>9, <1>10, <2>1, Weights DEF Weight
<1>12. PICK g : g = [m \in DOMAIN ss |-> Weight(W, ss[m])]
  OBVIOUS
<1>13. g = [k \in 1..a |-> Total(spans) * w[k]]
  BY <1>3, <1>8, <1>9, <1>10, <1>12
<1>14. Sum([k \in 1..a |-> Total(spans) * w[k]]) = Total(spans) * Sum(w)
  BY <1>7, <1>11, SumScaled
<1>15. Sum(g) = Total(spans) * Sum(w)
  BY <1>13, <1>14, Zenon
<1> QED
  BY <1>4, <1>11, <1>12, <1>15

\* A product has as many elements as the lengths of the dimensions make
LEMMA SizeOfProduct ==
  ASSUME NEW n \in Nat, NEW dims \in [1..n -> Seq(SpanPair)], NEW W, IsSizes(W)
  PROVE  Weight(W, CartesianProduct(dims)) = Product([d \in 1..n |-> Total(dims[d])])
<1>1. PICK c \in [0..n -> Seq(Seq(SpanPair))] :
        /\ c[0] = << <<>> >> /\ c[n] = CartesianProduct(dims)
        /\ \A m \in 1..n : c[m] = Extend(c[m - 1], dims[m])
  BY CartesianSteps
<1>2. PICK t : t = [d \in 1..n |-> Total(dims[d])]
  OBVIOUS
<1>3. PICK T : T = Seq(SpanPair)
  OBVIOUS
<1>4. \A d \in 1..n : dims[d] \in T /\ t[d] = Total(dims[d]) /\ t[d] \in Nat
  BY <1>2, <1>3, Lengths
<1>5. t \in [1..n -> Nat]
  BY <1>2, <1>4
<1>6. PICK p : p = [m \in 0..n |-> Weight(W, c[m])]
  OBVIOUS
<1>7. \A m \in 0..n : p[m] = Weight(W, c[m]) /\ p[m] \in Nat
  <2>1. TAKE m \in 0..n
  <2>2. c[m] \in Seq(T)
    BY <1>1, <1>3
  <2>3. W \in [T -> Nat]
    BY <1>3, SizesType
  <2> QED
    BY <1>6, <2>2, <2>3, Weights
<1>8. p[0] = 1
  <2>1. PICK q : q = << <<>> >>
    OBVIOUS
  <2>2. DOMAIN q = 1..1 /\ q[1] = <<>>
    BY <2>1
  <2>3. PICK e : e = [d \in DOMAIN <<>> |-> Len(<<>>[d].disk)]
    OBVIOUS
  <2>4. e \in [1..0 -> Nat]
    BY <2>3
  <2>5. PICK x : IsProducts(x, e, 0) /\ x[0] = Product(e)
    BY <2>4, ProductsExist
  <2>6. Size(<<>>) = 1
    BY <2>3, <2>5 DEF Size, IsProducts
  <2>7. <<>> \in T
    BY <1>3
  <2>8. W[<<>>] = 1
    BY <1>3, <2>6, <2>7, SizesType
  <2>9. PICK w : w = [k \in DOMAIN q |-> W[q[k]]]
    OBVIOUS
  <2>10. w \in [1..1 -> Nat] /\ w[1] = 1
    BY <2>2, <2>8, <2>9
  <2>11. PICK y : IsSums(y, w, 1) /\ y[1] = Sum(w)
    BY <2>10, SumsExist
  <2>12. y[1] = y[1 - 1] + w[1] /\ y[0] = 0 /\ 1 - 1 = 0
    BY <2>11 DEF IsSums
  <2>13. Weight(W, q) = 1
    BY <2>9, <2>10, <2>11, <2>12 DEF Weight
  <2>14. 0 \in 0..n
    OBVIOUS
  <2> QED
    BY <1>1, <1>7, <2>1, <2>13, <2>14
<1>9. \A m \in 1..n : p[m] = p[m - 1] * t[m]
  <2>1. TAKE m \in 1..n
  <2>2. m - 1 \in 0..n /\ m \in 0..n
    OBVIOUS
  <2>3. PICK r \in Seq(Seq(SpanPair)) : r = c[m - 1]
    BY <1>1, <2>2
  <2>4. PICK spans \in Seq(SpanPair) : spans = dims[m]
    OBVIOUS
  <2>5. Weight(W, Extend(r, spans)) = Total(spans) * Weight(W, r)
    BY SizeOfExtend
  <2>6. p[m] = t[m] * p[m - 1]
    BY <1>1, <1>4, <1>7, <2>2, <2>3, <2>4, <2>5
  <2>7. \A x, y \in Nat : x * y = y * x
    OBVIOUS
  <2> QED
    BY <1>4, <1>7, <2>2, <2>6, <2>7
<1>10. IsProducts(p, t, n)
  BY <1>6, <1>7, <1>8, <1>9 DEF IsProducts
<1>11. n \in 0..n
  OBVIOUS
<1>12. Product(t) = p[n]
  BY <1>5, <1>10, ProductIs
<1> QED
  BY <1>1, <1>2, <1>7, <1>11, <1>12

\* The indices of a pair after the x-th, to the y-th
IsPart(piece, pair, x, y) ==
  piece = [disk |-> SubSeq(pair.disk, x + 1, y), mem |-> SubSeq(pair.mem, x + 1, y)]

\* The pair cut at the bounds b, that but for the first and last are among the cuts
IsCut(cut, pair, b, cuts) ==
  /\ DOMAIN cut = 1..Len(cut) /\ Len(cut) \in Nat
  /\ b[1] = 0 /\ b[Len(cut) + 1] = Len(pair.disk)
  /\ \A k \in 1..Len(cut) :
       /\ b[k] \in Nat /\ b[k + 1] \in Nat /\ b[k] <= b[k + 1] /\ b[k + 1] <= Len(pair.disk)
       /\ IsPart(cut[k], pair, b[k], b[k + 1])
  /\ \A k \in 2..Len(cut) : b[k] \in cuts

\* Starts of pieces of the first m, in order
AreStarts(st, m, cuts) ==
  /\ st \in Seq(Nat) /\ Len(st) >= 1 /\ st[1] = 0
  /\ \A k \in 1..Len(st) : st[k] <= m
  /\ \A k \in 1..(Len(st) - 1) : st[k] <= st[k + 1]
  /\ \A k \in 2..Len(st) : st[k] \in cuts

\* The start of another piece keeps them in order
LEMMA StartsAppend ==
  ASSUME NEW m \in Nat \ {0}, NEW st, NEW cuts, AreStarts(st, m - 1, cuts)
  PROVE  AreStarts(st, m, cuts) /\ (m \in cuts => AreStarts(Append(st, m), m, cuts))
<1>1. PICK len \in Nat : len = Len(st) /\ len >= 1 /\ DOMAIN st = 1..len
  BY DEF AreStarts
<1>2. \A k \in 1..len : st[k] \in Nat /\ st[k] <= m - 1
  BY <1>1 DEF AreStarts
<1>3. PICK u : u = Append(st, m)
  OBVIOUS
<1>4. /\ u \in Seq(Nat) /\ Len(u) = len + 1 /\ u[len + 1] = m
      /\ \A k \in 1..len : u[k] = st[k]
  BY <1>1, <1>3 DEF AreStarts
<1>5. \A k \in 1..(len - 1) : st[k] <= st[k + 1]
  BY <1>1 DEF AreStarts
<1>6. \A k \in 1..len : st[k] <= m
  BY <1>2
<1>7. AreStarts(st, m, cuts)
  BY <1>1, <1>6 DEF AreStarts
<1>8. \A k \in 1..(len + 1) : u[k] <= m
  BY <1>4, <1>6
<1>9. \A k \in 1..len : u[k] <= u[k + 1]
  <2>1. TAKE k \in 1..len
  <2>2. CASE k = len
    BY <1>4, <1>6, <2>2
  <2>3. CASE k # len
    <3>1. k \in 1..(len - 1) /\ k + 1 \in 1..len
      BY <2>3
    <3> QED
      BY <1>4, <1>5, <3>1
  <2> QED
    BY <2>2, <2>3
<1>10. u[1] = 0
  BY <1>1, <1>4 DEF AreStarts
<1>11. Len(u) - 1 = len /\ Len(u) >= 1
  BY <1>4
<1>13. ASSUME m \in cuts, NEW k \in 2..(len + 1) PROVE u[k] \in cuts
  <2>1. CASE k = len + 1
    BY <1>4, <1>13, <2>1
  <2>2. CASE k # len + 1
    <3>1. k \in 2..len /\ k \in 1..len
      BY <2>2
    <3>2. st[k] \in cuts
      BY <1>1, <3>1 DEF AreStarts
    <3> QED
      BY <1>4, <3>1, <3>2
  <2> QED
    BY <2>1, <2>2
<1>12. ASSUME m \in cuts PROVE AreStarts(u, m, cuts)
  <2>1. \A k \in 2..(len + 1) : u[k] \in cuts
    BY <1>12, <1>13
  <2> QED
    BY <1>4, <1>8, <1>9, <1>10, <1>11, <2>1 DEF AreStarts
<1> QED
  BY <1>3, <1>7, <1>12

\* CutPair() yields pieces between increasing bounds, where it cuts
LEMMA CutBounds ==
  ASSUME NEW pair \in SpanPair, NEW cuts
  PROVE  \E b : IsCut(CutPair(pair, cuts), pair, b, cuts)
<1>1. PICK n \in Nat : n = Len(pair.disk)
  BY DEF SpanPair
<1> DEFINE Body(f) == [p \in 0..Len(pair.disk) |->
                         IF p = 0 THEN <<0>>
                         ELSE IF p \in cuts THEN Append(f[p - 1], p) ELSE f[p - 1]]
           R == Seq(Nat)
<1>2. PICK f : f = CHOOSE g : g = Body(g)
  OBVIOUS
<1> DEFINE starts == f[Len(pair.disk)]
           end(k) == IF k = Len(starts) THEN Len(pair.disk) ELSE starts[k + 1]
<1>3. CutPair(pair, cuts) =
        [k \in DOMAIN starts |-> [disk |-> SubSeq(pair.disk, starts[k] + 1, end(k)),
                                  mem |-> SubSeq(pair.mem, starts[k] + 1, end(k))]]
  BY <1>2 DEF CutPair
<1>4. PICK F : F = [x \in R \X (1..n) |-> IF x[2] \in cuts THEN Append(x[1], x[2]) ELSE x[1]]
  OBVIOUS
<1>a. \A r \in R : \A i \in 1..n : Append(r, i) \in R
  <2>1. \A i \in 1..n : i \in Nat
    OBVIOUS
  <2> QED
    BY <2>1
<1>b. <<0>> \in R /\ AreStarts(<<0>>, 0, cuts)
  BY DEF AreStarts
<1> HIDE DEF R
<1>5. \A r \in R : \A i \in 1..n : F[<<r, i>>] = IF i \in cuts THEN Append(r, i) ELSE r
  BY <1>4
<1>6. IsClosed(R, <<0>>, F, n)
  BY <1>5, <1>a, <1>b DEF IsClosed
<1>7. PICK it \in [SUBSET (1..n) -> R] : IsFold(it, <<0>>, F, n)
  BY <1>1, <1>6, FoldExists
<1>8. PICK p \in [0..n -> R] : IsFolded(p, <<0>>, F, n)
  BY <1>1, <1>6, <1>7, FoldSteps
<1>9. p = Body(p)
  <2>1. ASSUME NEW i \in 0..n
        PROVE  p[i] = IF i = 0 THEN <<0>>
                      ELSE IF i \in cuts THEN Append(p[i - 1], i) ELSE p[i - 1]
    <3>1. CASE i = 0
      BY <1>8, <3>1 DEF IsFolded
    <3>2. CASE i # 0
      <4>1. i \in 1..n /\ i - 1 \in 0..n
        BY <1>1, <3>2
      <4>2. p[i - 1] \in R /\ p[i] = F[<<p[i - 1], i>>]
        BY <1>8, <4>1 DEF IsFolded
      <4> QED
        BY <1>5, <3>2, <4>1, <4>2
    <3> QED
      BY <3>1, <3>2
  <2> QED
    BY <1>1, <2>1
<1>10. f = Body(f)
  <2> HIDE DEF Body
  <2> QED
    BY <1>2, <1>9
<1>11. \A i \in 0..n : f[i] = IF i = 0 THEN <<0>>
                              ELSE IF i \in cuts THEN Append(f[i - 1], i) ELSE f[i - 1]
  <2> HIDE DEF starts
  <2> QED
    BY <1>1, <1>10
<1> DEFINE T == {m \in Nat : m <= n => AreStarts(f[m], m, cuts)}
<1>12. 0 \in T
  <2>1. 0 \in 0..n
    BY <1>1
  <2> QED
    BY <1>11, <1>b, <2>1
<1>13. ASSUME NEW m \in Nat, m \in T PROVE m + 1 \in T
  <2>1. SUFFICES ASSUME m + 1 <= n PROVE AreStarts(f[m + 1], m + 1, cuts)
    OBVIOUS
  <2>2. AreStarts(f[m], m, cuts) /\ m + 1 \in 0..n /\ m + 1 \in Nat \ {0} /\ (m + 1) - 1 = m
    BY <1>13, <2>1
  <2>3. f[m + 1] = IF m + 1 \in cuts THEN Append(f[m], m + 1) ELSE f[m]
    BY <1>11, <2>2
  <2>4. AreStarts(f[m], m + 1, cuts) /\ (m + 1 \in cuts => AreStarts(Append(f[m], m + 1), m + 1, cuts))
    BY <2>2, StartsAppend
  <2> QED
    BY <2>3, <2>4
<1>14. AreStarts(f[n], n, cuts)
  <2>1. n \in T
    <3> HIDE DEF T
    <3> QED
      BY <1>1, <1>12, <1>13, NumbersOfSet
  <2> QED
    BY <2>1
<1>15. PICK st : st = starts /\ AreStarts(st, n, cuts)
  BY <1>1, <1>14
<1>16. PICK len \in Nat : len = Len(st) /\ DOMAIN st = 1..len /\ len >= 1
  BY <1>15 DEF AreStarts
<1> HIDE DEF starts
<1>17. PICK b : b = [k \in 1..(len + 1) |-> IF k = len + 1 THEN n ELSE st[k]]
  OBVIOUS
<1>18. /\ b[1] = 0 /\ b[len + 1] = n
       /\ \A k \in 1..len : b[k] = st[k] /\ b[k + 1] = end(k)
  <2>1. 1 \in 1..(len + 1) /\ len + 1 \in 1..(len + 1) /\ 1 # len + 1
    BY <1>16
  <2>2. \A k \in 1..len : k \in 1..(len + 1) /\ k # len + 1 /\ k + 1 \in 1..(len + 1) /\ (k + 1 = len + 1 <=> k = len)
    OBVIOUS
  <2>3. st[1] = 0
    BY <1>15 DEF AreStarts
  <2>4. \A k \in 1..len : b[k] = st[k]
    BY <1>17, <2>2
  <2>5. \A k \in 1..len : b[k + 1] = IF k = len THEN n ELSE st[k + 1]
    BY <1>17, <2>2
  <2> QED
    BY <1>1, <1>15, <1>16, <1>17, <2>1, <2>3, <2>4, <2>5
<1>19. \A k \in 1..len : b[k] \in Nat /\ b[k + 1] \in Nat /\ b[k] <= b[k + 1] /\ b[k + 1] <= n
  <2>1. TAKE k \in 1..len
  <2>2. \A j \in 1..len : st[j] \in Nat /\ st[j] <= n
    BY <1>15, <1>16 DEF AreStarts
  <2>3. CASE k = len
    BY <1>16, <1>18, <2>2, <2>3
  <2>4. CASE k # len
    <3>1. k \in 1..(len - 1) /\ k + 1 \in 1..len
      BY <2>4
    <3>2. st[k] <= st[k + 1]
      BY <1>15, <1>16, <3>1 DEF AreStarts
    <3> QED
      BY <1>18, <2>2, <3>1, <3>2
  <2> QED
    BY <2>3, <2>4
<1>20. PICK cut : cut = CutPair(pair, cuts)
  OBVIOUS
<1>21. \A k \in 1..len : IsPart(cut[k], pair, b[k], b[k + 1])
  <2>1. TAKE k \in 1..len
  <2> HIDE DEF end
  <2>2. cut[k] = [disk |-> SubSeq(pair.disk, starts[k] + 1, end(k)),
                  mem |-> SubSeq(pair.mem, starts[k] + 1, end(k))]
    BY <1>3, <1>15, <1>16, <1>20
  <2>3. starts[k] = b[k] /\ end(k) = b[k + 1]
    BY <1>15, <1>18
  <2> QED
    BY <2>2, <2>3, Zenon DEF IsPart
<1>d. DOMAIN cut = 1..len
  BY <1>3, <1>15, <1>16, <1>20
<1>22. Len(cut) = len
  <2>1. PICK h : h = [k \in 1..len |-> cut[k]]
    OBVIOUS
  <2>2. cut = h
    BY <1>3, <1>20, <1>d, <2>1
  <2>3. Len(h) = len
    BY <2>1
  <2> QED
    BY <2>2, <2>3
<1>24. \A k \in 2..len : b[k] \in cuts
  <2>1. TAKE k \in 2..len
  <2>2. k \in 1..len
    OBVIOUS
  <2>3. st[k] \in cuts
    BY <1>15, <1>16 DEF AreStarts
  <2> QED
    BY <1>18, <2>2, <2>3
<1>23. IsCut(cut, pair, b, cuts)
  BY <1>1, <1>d, <1>18, <1>19, <1>21, <1>22, <1>24 DEF IsCut
<1> QED
  BY <1>20, <1>23

\* Each index of the pair is read into a place of its own
Distinct(pair) == \A i, j \in 1..Len(pair.disk) : pair.mem[i] = pair.mem[j] => i = j

\* So is each index of the spans; and that is, together, each index of the pair
OnceEach(spans) ==
  \A s, t \in DOMAIN spans : \A i \in 1..Len(spans[s].disk), j \in 1..Len(spans[t].disk) :
    spans[s].mem[i] = spans[t].mem[j] => s = t /\ i = j

AreFrom(spans, pair) ==
  \A s \in DOMAIN spans : \A i \in 1..Len(spans[s].disk) :
    \E p \in 1..Len(pair.disk) : spans[s].mem[i] = pair.mem[p] /\ spans[s].disk[i] = pair.disk[p]

Covers(spans, pair) == AreFrom(spans, pair) /\ OnceEach(spans) /\ Total(spans) = Len(pair.disk)

\* Part of a sequence
LEMMA Slice ==
  ASSUME NEW S, NEW s \in Seq(S), NEW a \in Nat, NEW b \in Nat, a <= b, b <= Len(s)
  PROVE  /\ Len(SubSeq(s, a + 1, b)) = b - a
         /\ \A i \in 1..(b - a) : SubSeq(s, a + 1, b)[i] = s[a + i]
<1>1. PICK c \in Nat : c = b - a
  OBVIOUS
<1>2. SubSeq(s, a + 1, b) = [i \in 1..c |-> s[a + i]]
  <2>1. SubSeq(s, a + 1, b) = [i \in 1..(b - (a + 1) + 1) |-> s[i + (a + 1) - 1]]
    OBVIOUS
  <2>2. b - (a + 1) + 1 = c
    BY <1>1
  <2>3. \A i \in 1..c : i + (a + 1) - 1 = a + i
    BY <1>1
  <2>4. [i \in 1..c |-> s[i + (a + 1) - 1]] = [i \in 1..c |-> s[a + i]]
    BY <2>3
  <2> QED
    BY <2>1, <2>2, <2>4
<1>3. PICK t : t = [i \in 1..c |-> s[a + i]]
  OBVIOUS
<1>4. Len(t) = c /\ \A i \in 1..c : t[i] = s[a + i]
  BY <1>3
<1> QED
  BY <1>1, <1>2, <1>3, <1>4

\* Part of a pair
HasPart(piece, pair, x, y) ==
  /\ Len(piece.disk) = y - x
  /\ \A i \in 1..Len(piece.disk) :
       /\ i \in Nat /\ x + i \in 1..Len(pair.disk) /\ x < x + i /\ x + i <= y
       /\ piece.disk[i] = pair.disk[x + i] /\ piece.mem[i] = pair.mem[x + i]

\* A part of a span pair has the indices between its bounds
LEMMA PieceOf ==
  ASSUME NEW pair \in SpanPair, NEW x \in Nat, NEW y \in Nat, x <= y, y <= Len(pair.disk),
         NEW piece, IsPart(piece, pair, x, y)
  PROVE  HasPart(piece, pair, x, y)
<1>1. PICK pd \in Seq(Int), pm \in Seq(Int) : pd = pair.disk /\ pm = pair.mem /\ Len(pd) = Len(pm)
  BY DEF SpanPair
<1>2. PICK cd : cd = SubSeq(pd, x + 1, y)
  OBVIOUS
<1>3. PICK cm : cm = SubSeq(pm, x + 1, y)
  OBVIOUS
<1>4. x <= y /\ y <= Len(pd) /\ y <= Len(pm)
  BY <1>1
<1>5. piece = [disk |-> cd, mem |-> cm]
  BY <1>1, <1>2, <1>3, Zenon DEF IsPart
<1>6. piece.disk = cd /\ piece.mem = cm
  BY <1>5
<1>7. Len(cd) = y - x /\ \A i \in 1..(y - x) : cd[i] = pd[x + i]
  BY <1>1, <1>2, <1>4, Slice
<1>8. \A i \in 1..(y - x) : cm[i] = pm[x + i]
  BY <1>1, <1>3, <1>4, Slice
<1>9. PICK n \in Nat : n = Len(pd)
  BY <1>1
<1>10. \A i \in 1..(y - x) : i \in Nat /\ x + i \in 1..n /\ x < x + i /\ x + i <= y
  BY <1>4, <1>9
<1> QED
  BY <1>1, <1>6, <1>7, <1>8, <1>9, <1>10 DEF HasPart

\* A pair that is cut is still all there
LEMMA CutCovers ==
  ASSUME NEW pair \in SpanPair, NEW cuts, Distinct(pair)
  PROVE  Covers(CutPair(pair, cuts), pair)
<1>0. PICK cut \in Seq(SpanPair) : cut = CutPair(pair, cuts)
  BY CutType
<1>1. PICK b : cut = CutPair(pair, cuts) /\ IsCut(cut, pair, b, cuts)
  BY <1>0, CutBounds
<1>2. PICK n \in Nat : n = Len(pair.disk) /\ n = Len(pair.mem) /\ pair.disk \in Seq(Int) /\ pair.mem \in Seq(Int)
  BY DEF SpanPair
<1>3. PICK len \in Nat : len = Len(cut) /\ DOMAIN cut = 1..len
  BY <1>1 DEF IsCut
<1>4. b[1] = 0 /\ b[len + 1] = n
  BY <1>1, <1>2, <1>3 DEF IsCut
<1>5. ASSUME NEW k \in 1..len
      PROVE  /\ b[k] \in Nat /\ b[k + 1] \in Nat /\ b[k] <= b[k + 1] /\ b[k + 1] <= n
             /\ Len(cut[k].disk) = b[k + 1] - b[k]
             /\ \A i \in 1..Len(cut[k].disk) :
                  /\ i \in Nat /\ b[k] + i \in 1..n /\ b[k] < b[k] + i /\ b[k] + i <= b[k + 1]
                  /\ cut[k].disk[i] = pair.disk[b[k] + i] /\ cut[k].mem[i] = pair.mem[b[k] + i]
  <2>1. /\ b[k] \in Nat /\ b[k + 1] \in Nat /\ b[k] <= b[k + 1] /\ b[k + 1] <= Len(pair.disk)
        /\ IsPart(cut[k], pair, b[k], b[k + 1])
    BY <1>1, <1>3 DEF IsCut
  <2>2. PICK x \in Nat, y \in Nat : x = b[k] /\ y = b[k + 1] /\ x <= y /\ y <= Len(pair.disk)
    BY <2>1
  <2>3. PICK piece : piece = cut[k]
    OBVIOUS
  <2>4. IsPart(piece, pair, x, y)
    BY <2>1, <2>2, <2>3
  <2>5. HasPart(piece, pair, x, y)
    BY <2>2, <2>4, PieceOf
  <2> QED
    BY <1>2, <2>2, <2>3, <2>5, Zenon DEF HasPart
<1>6. PICK lens : lens = [k \in DOMAIN cut |-> Len(cut[k].disk)]
  OBVIOUS
<1>7. lens \in [1..len -> Nat] /\ Total(cut) = Sum(lens)
  BY <1>3, <1>6, Lengths DEF Total
<1>8. PICK p : p = [k \in 0..len |-> b[k + 1]]
  OBVIOUS
<1>9. \A k \in 0..len : p[k] = b[k + 1] /\ p[k] \in Nat
  <2>1. TAKE k \in 0..len
  <2>2. CASE k = 0
    BY <1>4, <1>8, <2>2
  <2>3. CASE k # 0
    <3>1. k \in 1..len
      BY <2>3
    <3> QED
      BY <1>5, <1>8, <3>1
  <2> QED
    BY <2>2, <2>3
<1>10. \A k \in 1..len : p[k] = p[k - 1] + lens[k]
  <2>1. TAKE k \in 1..len
  <2>2. k - 1 \in 0..len /\ k \in 0..len /\ (k - 1) + 1 = k
    OBVIOUS
  <2>3. p[k] = b[k + 1] /\ p[k - 1] = b[k] /\ lens[k] = b[k + 1] - b[k]
    BY <1>3, <1>5, <1>6, <1>9, <2>2
  <2> QED
    BY <1>5, <2>3
<1>11. IsSums(p, lens, len)
  <2>1. 0 \in 0..len /\ 0 + 1 = 1
    OBVIOUS
  <2>2. p[0] = 0 /\ p \in [0..len -> Nat]
    BY <1>4, <1>8, <1>9, <2>1
  <2> QED
    BY <1>10, <2>2 DEF IsSums
<1>12. Total(cut) = n
  <2>1. Sum(lens) = p[len] /\ len \in 0..len
    BY <1>7, <1>11, SumIs
  <2> QED
    BY <1>4, <1>7, <1>9, <2>1
<1>13. \A k, l \in 1..len : k < l => b[k + 1] <= b[l]
  <2>1. TAKE k, l \in 1..len
  <2>2. HAVE k < l
  <2>3. k \in 0..len /\ l - 1 \in k..len /\ l - 1 \in 0..len /\ (l - 1) + 1 = l
    BY <2>2
  <2>4. p[k] <= p[l - 1]
    BY <1>7, <1>10, <1>11, <2>3, SumOfRange DEF IsSums
  <2> QED
    BY <1>9, <2>3, <2>4
<1>14. AreFrom(cut, pair)
  <2>1. SUFFICES ASSUME NEW k \in DOMAIN cut, NEW i \in 1..Len(cut[k].disk)
                 PROVE  \E q \in 1..Len(pair.disk) :
                          cut[k].mem[i] = pair.mem[q] /\ cut[k].disk[i] = pair.disk[q]
    BY Zenon DEF AreFrom
  <2> k \in 1..len
    BY <1>3
  <2>2. b[k] + i \in 1..n /\ cut[k].mem[i] = pair.mem[b[k] + i] /\ cut[k].disk[i] = pair.disk[b[k] + i]
    BY <1>5
  <2> QED
    BY <1>2, <2>2
<1>15. OnceEach(cut)
  <2>1. SUFFICES ASSUME NEW k \in 1..len, NEW l \in 1..len,
                        NEW i \in 1..Len(cut[k].disk), NEW j \in 1..Len(cut[l].disk),
                        cut[k].mem[i] = cut[l].mem[j]
                 PROVE  k = l /\ i = j
    BY <1>3 DEF OnceEach
  <2>2. b[k] + i \in 1..n /\ cut[k].mem[i] = pair.mem[b[k] + i] /\ i \in Nat
        /\ b[k] + i <= b[k + 1] /\ b[k] < b[k] + i
    BY <1>5
  <2>3. b[l] + j \in 1..n /\ cut[l].mem[j] = pair.mem[b[l] + j] /\ j \in Nat
        /\ b[l] + j <= b[l + 1] /\ b[l] < b[l] + j
    BY <1>5
  <2>4. b[k] + i = b[l] + j
    BY <1>2, <2>1, <2>2, <2>3 DEF Distinct
  <2>5. k = l
    <3>a. b[k] \in Nat /\ b[k + 1] \in Nat /\ b[l] \in Nat /\ b[l + 1] \in Nat /\ i \in Nat /\ j \in Nat
      BY <1>5, <2>2, <2>3
    <3>b. b[k] + i <= b[k + 1] /\ b[l] < b[l] + j /\ b[l] + j <= b[l + 1] /\ b[k] < b[k] + i
      BY <2>2, <2>3
    <3>c. (k < l => b[k + 1] <= b[l]) /\ (l < k => b[l + 1] <= b[k])
      BY <1>13
    <3>1. ~ (k < l)
      BY <2>4, <3>a, <3>b, <3>c
    <3>2. ~ (l < k)
      BY <2>4, <3>a, <3>b, <3>c
    <3> QED
      BY <3>1, <3>2
  <2>6. b[k] \in Nat /\ i \in Nat /\ j \in Nat
    BY <1>5, <2>2, <2>3
  <2> QED
    BY <2>4, <2>5, <2>6
<1> QED
  BY <1>1, <1>2, <1>12, <1>14, <1>15 DEF Covers

\* Rows split among the instances are still all there
LEMMA SplitCovers ==
  ASSUME NEW pair, NEW spans \in Seq(SpanPair), Covers(spans, pair), NEW nsplits, NEW storage
  PROVE  Covers(SplitRowSpans(spans, nsplits, storage), pair)
<1> DEFINE disk(s) == IF IsRead(spans[s]) THEN spans[s].disk ELSE <<>>
           rows == FlattenSeq([s \in DOMAIN spans |-> disk(s)])
           ends == Range(PieceEnds(rows, nsplits, storage))
           before(s) == Sum([r \in 1..(s - 1) |-> Len(disk(r))])
           inner(s) == {e - before(s) : e \in ends} \cap 1..(Len(disk(s)) - 1)
<1>1. PICK cut : cut = [s \in DOMAIN spans |-> CutPair(spans[s], inner(s))]
  OBVIOUS
<1>2. SplitRowSpans(spans, nsplits, storage) = FlattenSeq(cut)
  BY <1>1 DEF SplitRowSpans
<1> HIDE DEF inner
<1>3. PICK m \in Nat : m = Len(spans) /\ DOMAIN spans = 1..m
  OBVIOUS
<1>4. PICK P : P = SpanPair
  OBVIOUS
<1>5. spans \in Seq(P) /\ \A s \in 1..m : spans[s] \in P
  BY <1>3, <1>4
<1>6. ASSUME NEW s \in 1..m PROVE cut[s] \in Seq(P) /\ Covers(cut[s], spans[s])
  <2>1. Distinct(spans[s])
    BY <1>3 DEF Covers, OnceEach, Distinct
  <2>2. cut[s] = CutPair(spans[s], inner(s))
    BY <1>1, <1>3
  <2> QED
    BY <1>4, <1>5, <2>1, <2>2, CutType, CutCovers
<1>7. DOMAIN cut = 1..m
  BY <1>1, <1>3
<1>8. cut \in Seq(Seq(P))
  <2>1. PICK T : T = Seq(P)
    OBVIOUS
  <2>2. cut \in [1..m -> T]
    BY <1>1, <1>3, <1>6, <2>1
  <2> QED
    BY <2>1, <2>2
<1>9. PICK u : u = FlattenSeq(cut)
  OBVIOUS
<1>10. u \in Seq(P)
  BY <1>8, <1>9, FlattenType
<1>11. PICK A, B : PlacesOf(u, cut, A, B)
  BY <1>8, <1>9, FlattenPlaces
<1>12. \A k \in DOMAIN u : A[k] \in 1..m /\ B[k] \in DOMAIN cut[A[k]] /\ u[k] = cut[A[k]][B[k]]
  BY <1>7, <1>11 DEF PlacesOf
<1>13. ASSUME NEW k \in DOMAIN u, NEW i \in 1..Len(u[k].disk)
       PROVE  \E p \in 1..Len(spans[A[k]].disk) : /\ u[k].mem[i] = spans[A[k]].mem[p]
                                                  /\ u[k].disk[i] = spans[A[k]].disk[p]
  <2>1. PICK s \in 1..m : s = A[k]
    BY <1>12
  <2>2. PICK t \in DOMAIN cut[s] : t = B[k] /\ u[k] = cut[s][t]
    BY <1>12, <2>1
  <2>3. AreFrom(cut[s], spans[s])
    BY <1>6 DEF Covers
  <2> QED
    BY <2>1, <2>2, <2>3 DEF AreFrom
<1>14. AreFrom(u, pair)
  <2>1. SUFFICES ASSUME NEW k \in DOMAIN u, NEW i \in 1..Len(u[k].disk)
                 PROVE  \E q \in 1..Len(pair.disk) : u[k].mem[i] = pair.mem[q] /\ u[k].disk[i] = pair.disk[q]
    BY DEF AreFrom
  <2>2. PICK p \in 1..Len(spans[A[k]].disk) : /\ u[k].mem[i] = spans[A[k]].mem[p]
                                              /\ u[k].disk[i] = spans[A[k]].disk[p]
    BY <1>13
  <2>3. A[k] \in DOMAIN spans
    BY <1>3, <1>12
  <2>4. PICK q \in 1..Len(pair.disk) : /\ spans[A[k]].mem[p] = pair.mem[q]
                                       /\ spans[A[k]].disk[p] = pair.disk[q]
    BY <2>3 DEF Covers, AreFrom
  <2> QED
    BY <2>2, <2>4
<1>15. OnceEach(u)
  <2>1. SUFFICES ASSUME NEW k \in DOMAIN u, NEW l \in DOMAIN u,
                        NEW i \in 1..Len(u[k].disk), NEW j \in 1..Len(u[l].disk),
                        u[k].mem[i] = u[l].mem[j]
                 PROVE  k = l /\ i = j
    BY DEF OnceEach
  <2>2. PICK p \in 1..Len(spans[A[k]].disk) : u[k].mem[i] = spans[A[k]].mem[p]
    BY <1>13
  <2>3. PICK q \in 1..Len(spans[A[l]].disk) : u[l].mem[j] = spans[A[l]].mem[q]
    BY <1>13
  <2>a. \A s, t \in DOMAIN spans : \A x \in 1..Len(spans[s].disk), y \in 1..Len(spans[t].disk) :
          spans[s].mem[x] = spans[t].mem[y] => s = t /\ x = y
    BY DEF Covers, OnceEach
  <2>4. A[k] = A[l]
    <3>1. PICK s \in DOMAIN spans, t \in DOMAIN spans : s = A[k] /\ t = A[l]
      BY <1>3, <1>12
    <3> QED
      <4>1. p \in 1..Len(spans[s].disk) /\ q \in 1..Len(spans[t].disk)
        BY <3>1, Zenon
      <4>2. spans[s].mem[p] = spans[t].mem[q]
        BY <2>1, <2>2, <2>3, <3>1, Zenon
      <4> QED
        BY <2>a, <3>1, <4>1, <4>2, Zenon
  <2>5. PICK s \in 1..m : s = A[k] /\ s = A[l]
    BY <1>12, <2>4
  <2>6. PICK x \in DOMAIN cut[s], y \in DOMAIN cut[s] : x = B[k] /\ y = B[l] /\ u[k] = cut[s][x] /\ u[l] = cut[s][y]
    BY <1>12, <2>5
  <2>7. x = y /\ i = j
    <3>1. OnceEach(cut[s])
      BY <1>6 DEF Covers
    <3>2. PICK v \in Seq(P) : v = cut[s]
      BY <1>6
    <3>3. \A f, g \in DOMAIN v : \A e \in 1..Len(v[f].disk), h \in 1..Len(v[g].disk) :
            v[f].mem[e] = v[g].mem[h] => f = g /\ e = h
      BY <3>1, <3>2 DEF OnceEach
    <3>4. u[k] = v[x] /\ u[l] = v[y] /\ x \in DOMAIN v /\ y \in DOMAIN v
      BY <2>6, <3>2
    <3> QED
      BY <2>1, <3>3, <3>4
  <2> QED
    BY <1>11, <2>5, <2>6, <2>7 DEF PlacesOf
<1>16. Total(u) = Len(pair.disk)
  <2>1. PICK W : W = [p \in P |-> Len(p.disk)]
    OBVIOUS
  <2>2. \A p \in P : Len(p.disk) \in Nat
    BY <1>4 DEF SpanPair
  <2>3. W \in [P -> Nat] /\ \A p \in P : W[p] = Len(p.disk)
    BY <2>1, <2>2
  <2>4. ASSUME NEW v \in Seq(P) PROVE Total(v) = Weight(W, v)
    <3>1. \A k \in DOMAIN v : v[k] \in P
      OBVIOUS
    <3>2. [k \in DOMAIN v |-> W[v[k]]] = [k \in DOMAIN v |-> Len(v[k].disk)]
      BY <2>3, <3>1
    <3> QED
      BY <3>2, Zenon DEF Total, Weight
  <2>5. Weight(W, u) = Sum([s \in DOMAIN cut |-> Weight(W, cut[s])])
    BY <1>8, <1>9, <2>3, WeightOfFlat
  <2>6. [s \in DOMAIN cut |-> Weight(W, cut[s])] = [s \in DOMAIN spans |-> Len(spans[s].disk)]
    <3>1. \A s \in 1..m : Weight(W, cut[s]) = Len(spans[s].disk)
      <4>1. TAKE s \in 1..m
      <4>2. Total(cut[s]) = Len(spans[s].disk) /\ cut[s] \in Seq(P)
        BY <1>6 DEF Covers
      <4> QED
        BY <2>4, <4>2
    <3> QED
      BY <1>3, <1>7, <3>1
  <2>7. Sum([s \in DOMAIN cut |-> Weight(W, cut[s])]) = Total(spans)
    BY <2>6, Zenon DEF Total
  <2> QED
    BY <1>10, <2>4, <2>5, <2>7 DEF Covers
<1> QED
  BY <1>2, <1>9, <1>14, <1>15, <1>16 DEF Covers

\* A span pair of a whole dimension of the result: it is read into each of its places once
Permutes(pair, size) ==
  /\ pair \in SpanPair /\ Len(pair.disk) = size /\ Distinct(pair)
  /\ \A p \in 1..size : pair.mem[p] \in 0..(size - 1)

\* Sorted row ids are written to each place of the rows once
LEMMA SortedPermutes ==
  ASSUME NEW ids \in Seq(Int) PROVE Permutes(MakeSortedIndices(ids), Len(ids))
<1>1. PICK pair \in SpanPair : pair = MakeSortedIndices(ids)
  BY SortedType
<1>2. /\ Len(pair.disk) = Len(ids)
      /\ \A k \in 1..Len(ids) : /\ pair.mem[k] \in 0..(Len(ids) - 1)
                                /\ \A l \in 1..Len(ids) : pair.mem[k] = pair.mem[l] => k = l
  BY <1>1, SortedType
<1> QED
  BY <1>1, <1>2 DEF Permutes, Distinct

\* A whole dimension is read into each of its places once
LEMMA MonotonicPermutes ==
  ASSUME NEW n \in Nat PROVE Permutes(Monotonic(n), n)
<1>1. PICK pair \in SpanPair : pair = Monotonic(n)
  BY MonotonicType
<1>2. Len(pair.disk) = n /\ \A k \in 1..n : pair.mem[k] = k - 1
  BY <1>1 DEF Monotonic
<1>3. \A k \in 1..n : pair.mem[k] \in 0..(n - 1)
  BY <1>2
<1>4. Distinct(pair)
  BY <1>2 DEF Distinct
<1> QED
  BY <1>1, <1>2, <1>3, <1>4 DEF Permutes

\* The length of the span pair of a dimension
SpanLength(sel, d, ndim, size) == IF IsSelected(sel, d, ndim) THEN Len(FSpan(sel, d, ndim)) ELSE size

\* GetSpanPair() fills the dimension, whether it is selected or not, each place once
LEMMA SpanPairPermutes ==
  ASSUME NEW sel \in Seq(Seq(Int)), NEW d, NEW ndim, NEW size \in Nat
  PROVE  /\ SpanLength(sel, d, ndim, size) \in Nat
         /\ Permutes(GetSpanPair(sel, d, ndim, size), SpanLength(sel, d, ndim, size))
<1>1. CASE IsSelected(sel, d, ndim)
  <2>1. PICK ids \in Seq(Int) : ids = FSpan(sel, d, ndim)
    BY <1>1, SpanType
  <2>2. SpanLength(sel, d, ndim, size) = Len(ids) /\ GetSpanPair(sel, d, ndim, size) = MakeSortedIndices(ids)
    BY <1>1, <2>1 DEF SpanLength, GetSpanPair
  <2> QED
    BY <2>2, SortedPermutes
<1>2. CASE ~ IsSelected(sel, d, ndim)
  <2>1. SpanLength(sel, d, ndim, size) = size /\ GetSpanPair(sel, d, ndim, size) = Monotonic(size)
    BY <1>2 DEF SpanLength, GetSpanPair
  <2> QED
    BY <2>1, MonotonicPermutes
<1> QED
  BY <1>1, <1>2

\* Spans that cover a dimension are read into places of it
LEMMA CoversPlaces ==
  ASSUME NEW spans, NEW pair, NEW size, Permutes(pair, size), Covers(spans, pair),
         NEW s \in DOMAIN spans, NEW i \in 1..Len(spans[s].disk)
  PROVE  spans[s].mem[i] \in 0..(size - 1)
<1>1. PICK p \in 1..Len(pair.disk) : spans[s].mem[i] = pair.mem[p]
  BY DEF Covers, AreFrom
<1> QED
  BY <1>1 DEF Permutes

\* The first place of a span pair
LEMMA MinMemIs ==
  ASSUME NEW span \in SpanPair, NEW size \in Nat, span.disk # <<>>,
         \A i \in 1..Len(span.disk) : span.mem[i] \in 0..(size - 1)
  PROVE  /\ MinMem(span) \in Nat
         /\ \A i \in 1..Len(span.disk) : MinMem(span) <= span.mem[i]
         /\ \E i \in 1..Len(span.disk) : MinMem(span) = span.mem[i]
<1>1. PICK mem \in Seq(Int) : mem = span.mem /\ Len(mem) = Len(span.disk)
  BY DEF SpanPair
<1>2. PICK n \in Nat : n = Len(mem) /\ n >= 1 /\ n = Len(span.disk)
  <2>1. PICK disk \in Seq(Int) : disk = span.disk
    BY DEF SpanPair
  <2> QED
    BY <1>1, <2>1
<1>3. \A i \in 1..n : mem[i] \in Nat
  BY <1>1, <1>2
<1> DEFINE T == {m \in Nat : m >= 1 /\ m <= n => \E i \in 1..m : \A j \in 1..m : mem[i] <= mem[j]}
<1>4. 0 \in T
  OBVIOUS
<1>5. ASSUME NEW m \in Nat, m \in T PROVE m + 1 \in T
  <2>1. SUFFICES ASSUME m + 1 <= n PROVE \E i \in 1..(m + 1) : \A j \in 1..(m + 1) : mem[i] <= mem[j]
    OBVIOUS
  <2>2. \A j \in 1..(m + 1) : j \in 1..n /\ mem[j] \in Nat /\ (j = m + 1 \/ j \in 1..m)
    BY <1>3, <2>1
  <2>3. CASE m = 0
    <3>1. 1 \in 1..(m + 1) /\ \A j \in 1..(m + 1) : j = 1
      BY <2>3
    <3>2. PICK x \in Nat : x = mem[1]
      BY <2>2, <3>1
    <3>3. mem[1] <= mem[1]
      BY <3>2
    <3> QED
      BY <3>1, <3>3
  <2>4. CASE m # 0
    <3>1. PICK i \in 1..m : \A j \in 1..m : mem[i] <= mem[j]
      BY <1>5, <2>1, <2>4
    <3>2. i \in 1..(m + 1) /\ m + 1 \in 1..(m + 1)
      OBVIOUS
    <3>3. CASE mem[i] <= mem[m + 1]
      BY <2>2, <3>1, <3>2, <3>3
    <3>4. CASE ~ (mem[i] <= mem[m + 1])
      <4>1. \A j \in 1..(m + 1) : mem[m + 1] <= mem[j]
        BY <2>2, <3>1, <3>2, <3>4
      <4> QED
        BY <3>2, <4>1
    <3> QED
      BY <3>3, <3>4
  <2> QED
    BY <2>3, <2>4
<1>6. n \in T
  <2> HIDE DEF T
  <2> QED
    BY <1>4, <1>5, NumbersOfSet
<1>7. PICK i \in 1..n : \A j \in 1..n : mem[i] <= mem[j]
  BY <1>2, <1>6
<1>8. MinMem(span) = CHOOSE x \in Range(mem) : \A y \in Range(mem) : x <= y
  <2>1. mem # <<>>
    <3> SUFFICES ASSUME mem = <<>> PROVE FALSE
      OBVIOUS
    <3>1. Len(mem) = 0
      BY Zenon
    <3> QED
      BY <1>2, <3>1
  <2> QED
    BY <1>1, <2>1, Zenon DEF MinMem, Min
<1>9. PICK R : R = Range(mem)
  OBVIOUS
<1>10. (\A y \in R : \E j \in 1..n : y = mem[j]) /\ \A j \in 1..n : mem[j] \in R
  <2>1. DOMAIN mem = 1..n
    <3>1. DOMAIN mem = 1..Len(mem)
      BY <1>1
    <3> QED
      BY <1>2, <3>1
  <2> QED
    BY <1>9, <2>1, Zenon DEF Range
<1>11. PICK x : x = CHOOSE z \in R : \A y \in R : z <= y
  OBVIOUS
<1>12. \E z \in R : \A y \in R : z <= y
  BY <1>7, <1>10
<1>13. x \in R /\ \A y \in R : x <= y
  BY <1>11, <1>12
<1>14. MinMem(span) = x
  BY <1>8, <1>9, <1>11
<1> QED
  BY <1>1, <1>2, <1>3, <1>10, <1>13, <1>14

\* Arithmetic of offsets
LEMMA ProductOfNats == ASSUME NEW x \in Nat, NEW y \in Nat PROVE x * y \in Nat
OBVIOUS

\* An index within the next dimension stays within the array of it
LEMMA OffsetLess ==
  ASSUME NEW v \in Nat, NEW P \in Nat, v < P, NEW x \in Nat, NEW L \in Nat, x < L
  PROVE  v + x * P < P * L
<1>1. PICK e \in Nat : L = x + 1 + e
  <2>1. L - x - 1 \in Nat /\ L = x + 1 + (L - x - 1)
    OBVIOUS
  <2> QED
    BY <2>1
<1>2. P * L = x * P + P + P * e
  BY <1>1
<1>3. P * e \in Nat /\ x * P \in Nat
  BY ProductOfNats
<1> QED
  BY <1>2, <1>3

\* Indices that differ in the next dimension are of different offsets
LEMMA OffsetDiffers ==
  ASSUME NEW v \in Nat, NEW w \in Nat, NEW P \in Nat, v < P, NEW x \in Nat, NEW y \in Nat, x < y
  PROVE  v + x * P < w + y * P
<1>1. PICK e \in Nat : y = x + 1 + e
  <2>1. y - x - 1 \in Nat /\ y = x + 1 + (y - x - 1)
    OBVIOUS
  <2> QED
    BY <2>1
<1>2. y * P = x * P + P + P * e
  BY <1>1
<1>3. P * e \in Nat /\ x * P \in Nat
  BY ProductOfNats
<1> QED
  BY <1>2, <1>3

\* The sum Dot() is
OffsetSum(x, P, n) == Sum([m \in 1..n |-> x[m] * P[m - 1]])

\* v are the offsets of index x in arrays of the first dimensions: P, the strides
IsOffset(v, x, P, n) ==
  /\ \A m \in 0..n : v[m] \in Nat
  /\ v[0] = 0 /\ \A m \in 1..n : v[m] = v[m - 1] + x[m] * P[m - 1]

\* The offset of an index adds up over the dimensions
LEMMA OffsetsExist ==
  ASSUME NEW n \in Nat, NEW x, NEW P, \A m \in 1..n : x[m] \in Nat /\ P[m - 1] \in Nat
  PROVE  \E v : /\ IsOffset(v, x, P, n)
                /\ v[n] = OffsetSum(x, P, n)
<1>1. PICK t : t = [m \in 1..n |-> x[m] * P[m - 1]]
  OBVIOUS
<1>2. \A m \in 1..n : t[m] = x[m] * P[m - 1] /\ t[m] \in Nat
  BY <1>1, ProductOfNats
<1>3. t \in [1..n -> Nat]
  BY <1>1, <1>2
<1>4. PICK v : IsSums(v, t, n) /\ v[n] = Sum(t)
  BY <1>3, SumsExist
<1>6. Sum(t) = OffsetSum(x, P, n)
  BY <1>1, Zenon DEF OffsetSum
<1>5. IsOffset(v, x, P, n)
  BY <1>2, <1>4 DEF IsSums, IsOffset
<1> QED
  BY <1>4, <1>5, <1>6

\* Offsets are of the same index
LEMMA OffsetsAgree ==
  ASSUME NEW n \in Nat, NEW x, NEW y, NEW P, NEW Q, NEW v, NEW w,
         IsOffset(v, x, P, n), IsOffset(w, y, Q, n),
         \A m \in 1..n : x[m] = y[m] /\ P[m - 1] = Q[m - 1]
  PROVE  v[n] = w[n]
<1> DEFINE T == {m \in Nat : m <= n => v[m] = w[m]}
<1>1. 0 \in T
  BY DEF IsOffset
<1>2. ASSUME NEW m \in Nat, m \in T PROVE m + 1 \in T
  <2>1. SUFFICES ASSUME m + 1 <= n PROVE v[m + 1] = w[m + 1]
    OBVIOUS
  <2>2. m + 1 \in 1..n /\ (m + 1) - 1 = m /\ v[m] = w[m]
    BY <1>2, <2>1
  <2>3. v[m + 1] = v[m] + x[m + 1] * P[m] /\ w[m + 1] = w[m] + y[m + 1] * Q[m]
    BY <2>2 DEF IsOffset
  <2>4. x[m + 1] = y[m + 1] /\ P[m] = Q[m]
    BY <2>2
  <2> QED
    BY <2>2, <2>3, <2>4
<1>3. n \in T
  <2> HIDE DEF T
  <2> QED
    BY <1>1, <1>2, NumbersOfSet
<1> QED
  BY <1>3

\* An offset is the sum of those of two indices that add up to the index
AddUp(x, y, z, P, n) ==
  \A m \in 1..n : x[m] \in Nat /\ y[m] \in Nat /\ z[m] = x[m] + y[m] /\ P[m - 1] \in Nat

\* Offsets add up as indices do
LEMMA OffsetsAdd ==
  ASSUME NEW n \in Nat, NEW x, NEW y, NEW z, NEW P, NEW u, NEW v, NEW w,
         IsOffset(u, x, P, n), IsOffset(v, y, P, n), IsOffset(w, z, P, n),
         AddUp(x, y, z, P, n)
  PROVE  w[n] = u[n] + v[n]
<1> USE DEF AddUp
<1> DEFINE T == {m \in Nat : m <= n => w[m] = u[m] + v[m]}
<1>1. 0 \in T
  BY DEF IsOffset
<1>2. ASSUME NEW m \in Nat, m \in T PROVE m + 1 \in T
  <2>1. SUFFICES ASSUME m + 1 <= n PROVE w[m + 1] = u[m + 1] + v[m + 1]
    OBVIOUS
  <2>2. m + 1 \in 1..n /\ (m + 1) - 1 = m /\ w[m] = u[m] + v[m] /\ m \in 0..n
    BY <1>2, <2>1
  <2>3. PICK a \in Nat, b \in Nat, p \in Nat : a = x[m + 1] /\ b = y[m + 1] /\ p = P[m]
    BY <2>2
  <2>4. u[m + 1] = u[m] + a * p
    BY <2>2, <2>3 DEF IsOffset
  <2>5. v[m + 1] = v[m] + b * p
    BY <2>2, <2>3 DEF IsOffset
  <2>6. w[m + 1] = w[m] + (a + b) * p
    <3>1. z[m + 1] = a + b
      BY <2>2, <2>3
    <3> QED
      BY <2>2, <2>3, <3>1 DEF IsOffset
  <2>7. (a + b) * p = a * p + b * p
    BY Distributes
  <2>8. a * p \in Nat /\ b * p \in Nat /\ u[m] \in Nat /\ v[m] \in Nat
    BY <2>2, ProductOfNats DEF IsOffset
  <2> QED
    BY <2>2, <2>4, <2>5, <2>6, <2>7, <2>8
<1>3. n \in T
  <2> HIDE DEF T
  <2> QED
    BY <1>1, <1>2, NumbersOfSet
<1> QED
  BY <1>3

\* An index lies within the array, and no other index has its offset
IsIndex(x, shape, n) == \A d \in 1..n : x[d] \in Nat /\ shape[d] \in Nat /\ x[d] < shape[d]

\* An offset lies within the array, and determines the index
LEMMA OffsetsDistinct ==
  ASSUME NEW n \in Nat, NEW shape, NEW P, IsProducts(P, shape, n),
         NEW x, NEW y, NEW v, NEW w, IsIndex(x, shape, n), IsIndex(y, shape, n),
         IsOffset(v, x, P, n), IsOffset(w, y, P, n)
  PROVE  v[n] < P[n] /\ (v[n] = w[n] => \A d \in 1..n : x[d] = y[d])
<1> DEFINE Good(m) == v[m] < P[m] /\ w[m] < P[m] /\ (v[m] = w[m] => \A d \in 1..m : x[d] = y[d])
           T == {m \in Nat : m <= n => Good(m)}
<1>1. 0 \in T
  BY DEF IsOffset, IsProducts
<1>2. ASSUME NEW m \in Nat, m \in T PROVE m + 1 \in T
  <2>1. SUFFICES ASSUME m + 1 <= n PROVE Good(m + 1)
    <3> HIDE DEF Good
    <3> QED
      OBVIOUS
  <2>2. m + 1 \in 1..n /\ (m + 1) - 1 = m /\ Good(m) /\ m \in 0..n
    BY <1>2, <2>1
  <2>3. PICK a \in Nat, b \in Nat, L \in Nat : a = x[m + 1] /\ b = y[m + 1] /\ L = shape[m + 1] /\ a < L /\ b < L
    BY <2>2 DEF IsIndex
  <2>4. PICK p \in Nat, f \in Nat, g \in Nat : p = P[m] /\ f = v[m] /\ g = w[m] /\ f < p /\ g < p
    BY <2>2 DEF IsProducts, IsOffset
  <2>5. v[m + 1] = f + a * p /\ w[m + 1] = g + b * p /\ P[m + 1] = p * L
    BY <2>2, <2>3, <2>4 DEF IsProducts, IsOffset
  <2>6. f + a * p < p * L /\ g + b * p < p * L
    BY <2>3, <2>4, OffsetLess
  <2>7. a < b => f + a * p < g + b * p
    BY <2>4, OffsetDiffers
  <2>8. b < a => g + b * p < f + a * p
    BY <2>4, OffsetDiffers
  <2>9. f + a * p = g + b * p => a = b /\ f = g
    <3>1. a * p \in Nat /\ b * p \in Nat
      BY ProductOfNats
    <3> QED
      BY <2>7, <2>8, <3>1
  <2>10. f = g => \A d \in 1..m : x[d] = y[d]
    BY <2>2, <2>4
  <2>11. \A d \in 1..(m + 1) : d \in 1..m \/ d = m + 1
    OBVIOUS
  <2>12. f + a * p = g + b * p => \A d \in 1..(m + 1) : x[d] = y[d]
    BY <2>3, <2>9, <2>10, <2>11
  <2> QED
    BY <2>5, <2>6, <2>12
<1>3. n \in T
  <2> HIDE DEF T
  <2> QED
    BY <1>1, <1>2, NumbersOfSet
<1>4. Good(n)
  BY <1>3
<1> QED
  BY <1>4

\* Strides are products of the sizes of the dimensions before
LEMMA StridesAre ==
  ASSUME NEW shape \in Seq(Nat), NEW P, IsProducts(P, shape, Len(shape)), NEW d \in 1..Len(shape)
  PROVE  Strides(shape)[d] = P[d - 1]
<1>1. PICK n \in Nat : n = Len(shape) /\ DOMAIN shape = 1..n
  OBVIOUS
<1>2. PICK e \in Nat : e = d - 1 /\ e <= n /\ e \in 0..n
  BY <1>1
<1>3. PICK s : s = SubSeq(shape, 1, e)
  OBVIOUS
<1>4. s = [i \in 1..e |-> shape[i]]
  <2>1. s = [i \in 1..(e - 1 + 1) |-> shape[i + 1 - 1]]
    BY <1>3
  <2>2. e - 1 + 1 = e /\ \A i \in 1..e : i + 1 - 1 = i
    BY <1>2
  <2>3. [i \in 1..e |-> shape[i + 1 - 1]] = [i \in 1..e |-> shape[i]]
    BY <2>2
  <2> QED
    BY <2>1, <2>2, <2>3
<1>5. s \in [1..e -> Nat] /\ \A i \in 1..e : s[i] = shape[i]
  BY <1>1, <1>2, <1>4
<1>6. Strides(shape)[d] = Product(s)
  BY <1>1, <1>2, <1>3 DEF Strides
<1>7. IsProducts(P, s, e)
  <2>1. \A m \in 0..e : m \in 0..n /\ (m \in 1..e => m \in 1..n)
    BY <1>2
  <2> QED
    BY <1>1, <1>2, <1>5, <2>1 DEF IsProducts
<1>8. Product(s) = P[e]
  BY <1>5, <1>7, ProductIs
<1> QED
  BY <1>2, <1>6, <1>8

\* Dot() of an index and such strides is its offset
AreStrides(strides, P, x, n) ==
  /\ DOMAIN x = 1..n
  /\ \A d \in 1..n : x[d] \in Nat /\ strides[d] = P[d - 1] /\ P[d - 1] \in Nat

\* Dot() with the strides of an array is the offset in the array
LEMMA DotIs ==
  ASSUME NEW n \in Nat, NEW x, NEW strides, NEW P, AreStrides(strides, P, x, n),
         NEW v, IsOffset(v, x, P, n)
  PROVE  Dot(x, strides) = v[n]
<1>5. DOMAIN x = 1..n /\ \A d \in 1..n : x[d] \in Nat /\ strides[d] = P[d - 1] /\ P[d - 1] \in Nat
  BY DEF AreStrides
<1>1. PICK w : IsOffset(w, x, P, n) /\ w[n] = OffsetSum(x, P, n)
  BY <1>5, OffsetsExist
<1>2. [d \in DOMAIN x |-> x[d] * strides[d]] = [m \in 1..n |-> x[m] * P[m - 1]]
  BY <1>5
<1>3. Dot(x, strides) = w[n]
  BY <1>1, <1>2, Zenon DEF Dot, OffsetSum
<1>4. v[n] = w[n]
  BY <1>1, OffsetsAgree
<1> QED
  BY <1>3, <1>4

=============================================================================

------------------------ MODULE SchedulerStepProofs -------------------------
(***************************************************************************)
(* The steps of the scheduler's event loop outside a round keep its        *)
(* invariant, and each is a step of PoolContract or leaves the pools alone.*)
(* First what the proofs need of queues: Keep recurses over the queue; it  *)
(* is shown to satisfy its equation, and what it computes follows by       *)
(* induction over the length of the queue.  Last, what the invariant       *)
(* implies.                                                                *)
(***************************************************************************)
EXTENDS DllmScheduler, FiniteSetTheorems, TLAPS

-----------------------------------------------------------------------------
(* Induction over the naturals. *)

\* A set of naturals that is not empty has a least element.
LEMMA LeastNat ==
  ASSUME NEW T \in SUBSET Nat, T # {}
  PROVE  \E n \in T : \A m \in T : n <= m
<1> DEFINE R == {ss \in Nat \X Nat : ss[1] < ss[2]}
<1>1. IsWellFoundedOn(R, Nat)
  BY Zenon, NatLessThanWellFounded DEF OpToRel
<1>2. PICK x \in T : \A y \in T : ~(<<y, x>> \in R)
  BY Zenon, <1>1, WFMin
<1>3. ASSUME NEW y \in T, y < x PROVE FALSE
  <2>1. <<y, x>> \in Nat \X Nat
    OBVIOUS
  <2>2. <<y, x>> \in R
    BY Zenon, <1>3, <2>1
  <2> QED BY Zenon, <1>2, <2>2
<1>4. \A y \in T : x <= y
  BY <1>3
<1> QED BY <1>4

\* Induction, with the property given by the set of the numbers that have it.
LEMMA SetInduction ==
  ASSUME NEW S, 0 \in S, \A n \in Nat : n \in S => n + 1 \in S
  PROVE  Nat \subseteq S
<1> DEFINE T == Nat \ S
<1> SUFFICES ASSUME T # {} PROVE FALSE
  OBVIOUS
<1>1. PICK n \in T : \A m \in T : n <= m
  BY Zenon, LeastNat
<1>2. n - 1 \in Nat
  BY <1>1
<1>3. n - 1 \in S
  BY <1>1, <1>2
<1> QED BY <1>1, <1>2, <1>3

\* Min and Max of two and three integers.
LEMMA MinMax ==
  /\ \A x, y \in Int : /\ Min({x, y}) = IF x <= y THEN x ELSE y
                       /\ Max({x, y}) = IF x <= y THEN y ELSE x
  /\ \A x, y, z \in Int :
       /\ Min({x, y, z}) \in {x, y, z}
       /\ Min({x, y, z}) <= x /\ Min({x, y, z}) <= y /\ Min({x, y, z}) <= z
<1>1. ASSUME NEW x \in Int, NEW y \in Int
      PROVE  /\ Min({x, y}) = IF x <= y THEN x ELSE y
             /\ Max({x, y}) = IF x <= y THEN y ELSE x
  BY DEF Min, Max
<1>2. ASSUME NEW x \in Int, NEW y \in Int, NEW z \in Int
      PROVE  /\ Min({x, y, z}) \in {x, y, z}
             /\ Min({x, y, z}) <= x /\ Min({x, y, z}) <= y /\ Min({x, y, z}) <= z
  <2> DEFINE T == {x, y, z}
  <2>1. \E m \in T : \A n \in T : m <= n
    OBVIOUS
  <2>2. Min(T) \in T /\ \A n \in T : Min(T) <= n
    BY <2>1 DEF Min
  <2> QED BY <2>2
<1> QED BY <1>1, <1>2

-----------------------------------------------------------------------------
(* Queues. *)

\* The members of a queue, and of one that was appended to or joined with another.
LEMMA QueueMembers ==
  ASSUME NEW A, NEW s \in Seq(A)
  PROVE  /\ Range(s) \subseteq A
         /\ s = <<>> <=> Range(s) = {}
         /\ \A e \in A :
              /\ Append(s, e) \in Seq(A)
              /\ Range(Append(s, e)) = Range(s) \cup {e}
              /\ IsInjective(s) /\ e \notin Range(s) => IsInjective(Append(s, e))
<1>1. DOMAIN s = 1 .. Len(s) /\ Len(s) \in Nat
  OBVIOUS
<1>2. Range(s) \subseteq A
  BY <1>1 DEF Range
<1>3. s = <<>> <=> Range(s) = {}
  <2>1. s = <<>> => Range(s) = {}
    BY DEF Range
  <2>2. s # <<>> => s[1] \in Range(s)
    BY <1>1 DEF Range
  <2> QED BY <2>1, <2>2
<1>4. ASSUME NEW e \in A
      PROVE  /\ Append(s, e) \in Seq(A)
             /\ Range(Append(s, e)) = Range(s) \cup {e}
             /\ IsInjective(s) /\ e \notin Range(s) => IsInjective(Append(s, e))
  <2> DEFINE t == Append(s, e)
  <2>1. /\ t \in Seq(A) /\ DOMAIN t = 1 .. Len(s) + 1
        /\ t[Len(s) + 1] = e /\ \A i \in 1 .. Len(s) : t[i] = s[i]
    OBVIOUS
  <2> HIDE DEF t
  <2>2. Range(t) = Range(s) \cup {e}
    <3>1. \A x \in Range(t) : x \in Range(s) \cup {e}
      BY <1>1, <2>1 DEF Range
    <3>2. \A i \in 1 .. Len(s) : i \in DOMAIN t /\ t[i] = s[i]
      BY <1>1, <2>1
    <3>3. Len(s) + 1 \in DOMAIN t
      BY <1>1, <2>1
    <3>4. \A x \in Range(s) \cup {e} : x \in Range(t)
      BY <1>1, <2>1, <3>2, <3>3 DEF Range
    <3> QED BY <3>1, <3>4
  <2>3. ASSUME IsInjective(s), e \notin Range(s) PROVE IsInjective(t)
    <3> SUFFICES ASSUME NEW i \in DOMAIN t, NEW j \in DOMAIN t, t[i] = t[j] PROVE i = j
      BY DEF IsInjective
    <3>1. CASE i \in 1 .. Len(s) /\ j \in 1 .. Len(s)
      BY <1>1, <2>1, <2>3, <3>1 DEF IsInjective
    <3>2. CASE i = Len(s) + 1 \/ j = Len(s) + 1
      <4>1. \A k \in 1 .. Len(s) : s[k] # e
        BY <1>1, <2>3 DEF Range
      <4> QED BY <1>1, <2>1, <3>2, <4>1
    <3> QED BY <1>1, <2>1, <3>1, <3>2
  <2> QED BY <2>1, <2>2, <2>3 DEF t
<1> QED BY <1>2, <1>3, <1>4

\* Two queues that are joined.
LEMMA JoinedQueues ==
  ASSUME NEW A, NEW s \in Seq(A), NEW t \in Seq(A)
  PROVE  /\ s \o t \in Seq(A)
         /\ Range(s \o t) = Range(s) \cup Range(t)
         /\ IsInjective(s \o t) <=>
              IsInjective(s) /\ IsInjective(t) /\ Range(s) \cap Range(t) = {}
<1> DEFINE u == s \o t
           m == Len(s)
           n == Len(t)
<1>1. /\ DOMAIN s = 1 .. m /\ DOMAIN t = 1 .. n /\ m \in Nat /\ n \in Nat
      /\ u \in Seq(A) /\ DOMAIN u = 1 .. m + n
  OBVIOUS
<1>2. /\ \A i \in 1 .. m : u[i] = s[i]
      /\ \A j \in 1 .. n : u[m + j] = t[j]
  OBVIOUS
<1> HIDE DEF u, m, n
<1>3. /\ \A i \in 1 .. m : i \in DOMAIN u
      /\ \A j \in 1 .. n : m + j \in DOMAIN u
      /\ \A k \in DOMAIN u : k \in 1 .. m \/ \E j \in 1 .. n : k = m + j
  <2>1. ASSUME NEW k \in DOMAIN u, k \notin 1 .. m PROVE \E j \in 1 .. n : k = m + j
    <3>1. k - m \in 1 .. n /\ k = m + (k - m)
      BY <1>1, <2>1
    <3> QED BY <3>1
  <2>2. /\ \A i \in 1 .. m : i \in DOMAIN u
        /\ \A j \in 1 .. n : m + j \in DOMAIN u
    BY <1>1
  <2> QED BY <2>1, <2>2
<1>4. Range(u) = Range(s) \cup Range(t)
  <2>1. ASSUME NEW k \in DOMAIN u PROVE u[k] \in Range(s) \cup Range(t)
    <3>1. CASE k \in 1 .. m
      BY <1>1, <1>2, <3>1 DEF Range
    <3>2. CASE k \notin 1 .. m
      <4>1. PICK j \in 1 .. n : k = m + j
        BY <1>3, <3>2
      <4> QED BY Zenon, <1>1, <1>2, <4>1 DEF Range
    <3> QED BY <3>1, <3>2
  <2>2. \A x \in Range(s) \cup Range(t) : x \in Range(u)
    BY Zenon, <1>1, <1>2, <1>3 DEF Range
  <2> QED BY Zenon, <2>1, <2>2 DEF Range
<1>5. ASSUME IsInjective(u)
      PROVE  IsInjective(s) /\ IsInjective(t) /\ Range(s) \cap Range(t) = {}
  <2>1. IsInjective(s)
    BY <1>1, <1>2, <1>3, <1>5 DEF IsInjective
  <2>2. IsInjective(t)
    <3> SUFFICES ASSUME NEW i \in 1 .. n, NEW j \in 1 .. n, t[i] = t[j] PROVE i = j
      BY <1>1 DEF IsInjective
    <3>1. m + i = m + j
      BY <1>2, <1>3, <1>5 DEF IsInjective
    <3> QED BY <1>1, <3>1
  <2>3. ASSUME NEW x \in Range(s), x \in Range(t) PROVE FALSE
    <3>1. PICK i \in 1 .. m : x = s[i]
      BY <1>1 DEF Range
    <3>2. PICK j \in 1 .. n : x = t[j]
      BY <1>1, <2>3 DEF Range
    <3>3. i = m + j
      BY Zenon, <1>2, <1>3, <1>5, <3>1, <3>2 DEF IsInjective
    <3> QED BY <1>1, <3>1, <3>2, <3>3
  <2> QED BY <2>1, <2>2, <2>3
<1>6. ASSUME IsInjective(s), IsInjective(t), Range(s) \cap Range(t) = {}
      PROVE  IsInjective(u)
  <2> SUFFICES ASSUME NEW k \in DOMAIN u, NEW l \in DOMAIN u, u[k] = u[l] PROVE k = l
    BY DEF IsInjective
  <2>1. \A i \in 1 .. m, j \in 1 .. n : s[i] # t[j]
    BY Zenon, <1>1, <1>6 DEF Range
  <2>2. CASE k \in 1 .. m /\ l \in 1 .. m
    BY <1>1, <1>2, <1>6, <2>2 DEF IsInjective
  <2>3. CASE k \notin 1 .. m /\ l \notin 1 .. m
    <3>1. PICK i \in 1 .. n : k = m + i
      BY <1>3, <2>3
    <3>2. PICK j \in 1 .. n : l = m + j
      BY <1>3, <2>3
    <3> QED BY Zenon, <1>1, <1>2, <1>6, <3>1, <3>2 DEF IsInjective
  <2>4. CASE k \in 1 .. m /\ l \notin 1 .. m
    BY <1>2, <1>3, <2>1, <2>4
  <2>5. CASE k \notin 1 .. m /\ l \in 1 .. m
    BY <1>2, <1>3, <2>1, <2>5
  <2> QED BY <2>2, <2>3, <2>4, <2>5
<1> QED BY <1>1, <1>4, <1>5, <1>6 DEF u

\* Keep satisfies the equation it is defined by.
LEMMA KeepEquation ==
  ASSUME NEW A, NEW queue \in Seq(A), NEW S
  PROVE  \E kept :
           /\ Keep(queue, S) = kept[Len(queue)]
           /\ kept[0] = <<>>
           /\ \A n \in 1 .. Len(queue) :
                kept[n] = IF queue[n] \in S THEN Append(kept[n - 1], queue[n]) ELSE kept[n - 1]
<1> DEFINE N == Len(queue)
           Def(f, n) == IF n = 0 THEN <<>>
                        ELSE IF queue[n] \in S THEN Append(f[n - 1], queue[n]) ELSE f[n - 1]
           kept == CHOOSE f : f = [n \in 0 .. N |-> Def(f, n)]
           Solved == {m \in Nat : \E g : g = [n \in 0 .. m |-> Def(g, n)]}
<1>1. N \in Nat
  OBVIOUS
<1>2. Keep(queue, S) = kept[N]
  BY DEF Keep
<1>3. \A f, g : Def(f, 0) = Def(g, 0)
  OBVIOUS
<1>4. \A f, g : \A n \in Nat \ {0} : f[n - 1] = g[n - 1] => Def(f, n) = Def(g, n)
  OBVIOUS
<1>5. \A f : Def(f, 0) = <<>>
  OBVIOUS
<1>6. \A f : \A n \in 1 .. N :
        Def(f, n) = IF queue[n] \in S THEN Append(f[n - 1], queue[n]) ELSE f[n - 1]
  OBVIOUS
<1> HIDE DEF N, Def
<1>7. 0 \in Solved
  <2> DEFINE g == [n \in 0 .. 0 |-> Def(0, n)]
  <2>1. g = [n \in 0 .. 0 |-> Def(g, n)]
    BY <1>3
  <2> QED BY <2>1
<1>8. ASSUME NEW m \in Nat, m \in Solved PROVE m + 1 \in Solved
  <2>1. PICK g : g = [n \in 0 .. m |-> Def(g, n)]
    BY <1>8
  <2> DEFINE h == [n \in 0 .. m + 1 |-> Def(g, n)]
  <2>2. \A n \in 0 .. m : h[n] = g[n]
    BY <2>1
  <2>3. ASSUME NEW n \in 0 .. m + 1 PROVE h[n] = Def(h, n)
    <3>1. h[n] = Def(g, n)
      OBVIOUS
    <3>2. CASE n = 0
      BY <1>3, <3>1, <3>2
    <3>3. CASE n # 0
      <4>1. n - 1 \in 0 .. m
        BY <3>3
      <4>2. h[n - 1] = g[n - 1]
        BY <2>2, <4>1
      <4>3. Def(h, n) = Def(g, n)
        BY <1>4, <3>3, <4>2
      <4> QED BY <3>1, <4>3
    <3> QED BY <3>2, <3>3
  <2> HIDE DEF h
  <2>4. h = [n \in 0 .. m + 1 |-> Def(h, n)]
    BY <2>3 DEF h
  <2> QED BY <2>4
<1>9. N \in Solved
  <2> HIDE DEF Solved
  <2> QED BY <1>1, <1>7, <1>8, SetInduction
<1>10. \E g : g = [n \in 0 .. N |-> Def(g, n)]
  BY <1>1, <1>9
<1>11. kept = [n \in 0 .. N |-> Def(kept, n)]
  BY Zenon, <1>10
<1> HIDE DEF kept
<1>12. kept[0] = <<>>
  BY <1>1, <1>5, <1>11
<1>13. \A n \in 1 .. N : kept[n] = Def(kept, n)
  BY <1>1, <1>11
<1>14. \A n \in 1 .. N :
         kept[n] = IF queue[n] \in S THEN Append(kept[n - 1], queue[n]) ELSE kept[n - 1]
  BY Zenon, <1>6, <1>13
<1> QED BY <1>2, <1>12, <1>14 DEF N

\* Keep filters: its result has the elements of the queue that are in S, each once
\* when it is once in the queue.
LEMMA KeepFilters ==
  ASSUME NEW A, NEW queue \in Seq(A), NEW S
  PROVE  /\ Keep(queue, S) \in Seq(A)
         /\ Range(Keep(queue, S)) = Range(queue) \cap S
         /\ Len(Keep(queue, S)) <= Len(queue)
         /\ IsInjective(queue) => IsInjective(Keep(queue, S))
<1>1. PICK kept :
        /\ Keep(queue, S) = kept[Len(queue)]
        /\ kept[0] = <<>>
        /\ \A n \in 1 .. Len(queue) :
             kept[n] = IF queue[n] \in S THEN Append(kept[n - 1], queue[n]) ELSE kept[n - 1]
  BY KeepEquation
<1> DEFINE N == Len(queue)
           Firsts(n) == {queue[i] : i \in 1 .. n}
           Good(n) == /\ kept[n] \in Seq(A)
                      /\ Range(kept[n]) = Firsts(n) \cap S
                      /\ Len(kept[n]) <= n
                      /\ IsInjective(queue) => IsInjective(kept[n])
           GoodSet == {n \in Nat : n <= N => Good(n)}
<1>2. N \in Nat /\ DOMAIN queue = 1 .. N
  OBVIOUS
<1>3. 0 \in GoodSet
  <2>1. <<>> \in Seq(A) /\ Len(<<>>) <= 0 /\ Range(<<>>) = {} /\ IsInjective(<<>>)
    BY DEF Range, IsInjective
  <2>2. Firsts(0) = {}
    OBVIOUS
  <2> QED BY Zenon, <1>1, <2>1, <2>2
<1>4. ASSUME NEW n \in Nat, n \in GoodSet PROVE n + 1 \in GoodSet
  <2> SUFFICES ASSUME n + 1 <= N PROVE Good(n + 1)
    OBVIOUS
  <2> DEFINE e == queue[n + 1]
             k == kept[n]
             l == kept[n + 1]
  <2>1. Good(n)
    BY <1>2, <1>4
  <2>2. e \in A /\ n + 1 \in 1 .. N /\ n \in Nat
    BY <1>2
  <2>3. l = IF e \in S THEN Append(k, e) ELSE k
    BY <1>1, <2>2
  <2>4. Firsts(n + 1) = Firsts(n) \cup {e}
    <3>1. \A i \in 1 .. n + 1 : i \in 1 .. n \/ i = n + 1
      OBVIOUS
    <3>2. \A i \in 1 .. n : i \in 1 .. n + 1
      OBVIOUS
    <3>3. n + 1 \in 1 .. n + 1
      OBVIOUS
    <3> QED BY <3>1, <3>2, <3>3
  <2>5. IsInjective(queue) => e \notin Firsts(n)
    BY <1>2, <2>2 DEF IsInjective
  <2> HIDE DEF e, k, l, Firsts, N
  <2>6. CASE e \in S
    <3>1. l = Append(k, e)
      BY <2>3, <2>6
    <3>2. /\ l \in Seq(A)
          /\ Range(l) = Range(k) \cup {e}
          /\ IsInjective(k) /\ e \notin Range(k) => IsInjective(l)
      BY <2>1, <2>2, <3>1, QueueMembers DEF k
    <3>3. Len(l) <= n + 1
      BY <2>1, <2>2, <3>1 DEF k
    <3>4. Range(l) = Firsts(n + 1) \cap S
      BY <2>1, <2>4, <2>6, <3>2 DEF k
    <3>5. IsInjective(queue) => IsInjective(l)
      BY <2>1, <2>5, <3>2 DEF k
    <3> QED BY <3>2, <3>3, <3>4, <3>5 DEF l
  <2>7. CASE e \notin S
    <3>1. l = k
      BY <2>3, <2>7
    <3>2. Len(l) <= n + 1
      BY <2>1, <2>2, <3>1 DEF k
    <3> QED BY <2>1, <2>4, <2>7, <3>1, <3>2 DEF k, l
  <2> QED BY <2>6, <2>7
<1>5. Good(N)
  <2>1. N \in GoodSet
    <3> HIDE DEF GoodSet
    <3> QED BY <1>2, <1>3, <1>4, SetInduction
  <2> QED BY <1>2, <2>1
<1>6. Firsts(N) = Range(queue)
  BY <1>2 DEF Range
<1> QED BY <1>1, <1>5, <1>6

-----------------------------------------------------------------------------
(* The two parts of the inductive invariant, in the form the proofs use. *)

\* What the loop needs of the invariant of PoolContract.
PoolFacts ==
  /\ row \in [Reqs -> Rows \cup {None}]
  /\ slot \in [Reqs -> Slots \cup {None}]
  /\ freeRows \in SUBSET Rows
  /\ freeCells \in SUBSET Cells
  /\ kv \in [Reqs -> Seq(SUBSET Cells)]
  /\ prefix \in [Reqs -> Seq(SUBSET Cells)]
  /\ committed \in [SlotIds -> Seq(SUBSET Cells)]
  /\ \A r \in Reqs : row[r] = None => kv[r] = <<>> /\ prefix[r] = <<>>
  /\ \A r \in Reqs : row[r] # None => row[r] \notin freeRows
  /\ \A r \in Extended \cup Staged : r \in Reqs /\ row[r] # None
  /\ \A r \in Reqs : r \notin Extended \cup Staged => kv[r] = prefix[r]
  /\ \A r \in Reqs : freeCells \cap TokensOf(kv[r]) = {}

\* QueueInv in terms of the members of the queues.
QueueFacts ==
  /\ IsInjective(waitingQ) /\ IsInjective(dllmQ)
  /\ Range(waitingQ) \cap Range(dllmQ) = {}
  /\ \A r \in Reqs : Live(r) => r \in Range(waitingQ) \/ r \in Range(dllmQ)
  /\ \A r \in Range(waitingQ) : Live(r) /\ row[r] = None
  /\ \A r \in Range(stagingQ) : r \in Range(dllmQ) \/ ~Live(r)
  /\ Len(dllmQ) <= MaxRunning
  /\ \A r \in Reqs : row[r] # None => Live(r) /\ r \in Range(dllmQ)
  /\ \A r \in Range(dllmQ) : req[r].status \in {"live", "finished"}
  /\ \A r \in Range(stagingQ) : req[r].status \in {"live", "finished"}
  /\ pc # "recv" => Range(stagingQ) \subseteq Range(dllmQ) /\ \A r \in Range(dllmQ) : Live(r)
  /\ pc \in {"forward", "result"} => batch = stagingQ /\ batch # <<>>
  /\ At("idle") => batch = <<>> /\ stagingQ = <<>>
  /\ crash # "no" => pc \in {"sched", "idle", "forward"}
  /\ pc = "recv" /\ batch = <<>> => freeRows = Rows /\ stagingQ = <<>>

\* QueueFacts is QueueInv with the joined queues taken apart.
LEMMA QueueForms == TypeOK => (QueueInv <=> QueueFacts)
<1> SUFFICES ASSUME TypeOK PROVE QueueInv <=> QueueFacts
  OBVIOUS
<1>1. waitingQ \in Seq(Reqs) /\ dllmQ \in Seq(Reqs) /\ stagingQ \in Seq(Reqs)
  BY Zenon DEF TypeOK
<1>2. /\ Range(waitingQ \o dllmQ) = Range(waitingQ) \cup Range(dllmQ)
      /\ IsInjective(waitingQ \o dllmQ) <=>
           /\ IsInjective(waitingQ) /\ IsInjective(dllmQ)
           /\ Range(waitingQ) \cap Range(dllmQ) = {}
  BY <1>1, JoinedQueues
<1>3. Range(dllmQ \o stagingQ) = Range(dllmQ) \cup Range(stagingQ)
  BY <1>1, JoinedQueues
<1>4. Range(waitingQ) \subseteq Reqs /\ Range(dllmQ) \subseteq Reqs /\ Range(stagingQ) \subseteq Reqs
  BY <1>1, QueueMembers
<1>5. QueuesPartitionRequests <=>
        /\ IsInjective(waitingQ) /\ IsInjective(dllmQ)
        /\ Range(waitingQ) \cap Range(dllmQ) = {}
        /\ \A r \in Reqs : Live(r) => r \in Range(waitingQ) \/ r \in Range(dllmQ)
        /\ \A r \in Range(waitingQ) : Live(r) /\ row[r] = None
        /\ \A r \in Range(stagingQ) : r \in Range(dllmQ) \/ ~Live(r)
        /\ Len(dllmQ) <= MaxRunning
  BY <1>2, <1>4 DEF QueuesPartitionRequests
<1> QED BY Zenon, <1>3, <1>5 DEF QueueInv, QueueFacts

\* The same after a step.
LEMMA QueueFormsNext == TypeOK' => (QueueInv' <=> QueueFacts')
  BY QueueForms, PTL

-----------------------------------------------------------------------------
(* The steps of the loop that take no request out of a batch or into one. *)

\* An empty prefix has no tokens.
LEMMA EmptyPrefix == Cardinality(TokensOf(<<>>)) = 0
<1>1. TokensOf(<<>>) = {}
  BY DEF TokensOf
<1> QED BY <1>1, FS_EmptySet

\* An empty queue has no members.
LEMMA EmptyQueue == Range(<<>>) = {}
  BY DEF Range

\* A request arrives.
LEMMA ReceiveStep ==
  ASSUME LoopInv, PoolFacts, NEW r \in Reqs, NEW prompt \in Nat, NEW maxNew \in Nat,
         Receive(r, prompt, maxNew)
  PROVE  LoopInv' /\ UNCHANGED Contract!vars
<1> DEFINE phase == IF prompt < BlockSize THEN "INCOMING_DECODE" ELSE "INCOMING_PREFILL"
           ignore == r \in IgnoreEosReqs
           new == [NoReq EXCEPT !.status = "live", !.prompt = prompt, !.maxNew = maxNew,
                                !.ignoreEos = ignore, !.phase = phase]
<1>1. TypeOK /\ QueueFacts
  BY QueueForms DEF LoopInv
<1>2. /\ pc = "recv" /\ crash = "no" /\ req[r].status = "absent"
      /\ req' = [req EXCEPT ![r] = new] /\ waitingQ' = Append(waitingQ, r)
      /\ UNCHANGED <<row, slot, mambaOf, freeRows, freeSlots, freeCells, kv, prefix, committed, working>>
      /\ UNCHANGED <<pc, crash, dllmQ, stagingQ, batch, batchFull, aborted>>
  BY DEF Receive, At, poolVars
<1>3. prompt \in Nat /\ maxNew \in Nat
  OBVIOUS
<1>4. /\ new.status = "live" /\ new.prompt = prompt /\ new.maxNew = maxNew
      /\ new.out = 0 /\ new.fill = 0 /\ new.phase \notin Staging
      /\ new \in ReqType
  <2>1. phase \in Phases /\ phase \notin Staging
    BY DEF Phases, Staging
  <2>0. ignore \in BOOLEAN
    <3>1. CASE ignore
      BY <3>1
    <3>2. CASE ~ignore
      BY <3>2
    <3> QED BY <3>1, <3>2
  <2> HIDE DEF phase, ignore
  <2>2. /\ new.status = "live" /\ new.prompt = prompt /\ new.maxNew = maxNew
        /\ new.out = 0 /\ new.fill = 0 /\ new.phase \notin Staging
    BY <2>1 DEF NoReq
  <2>3. NoReq \in ReqType
    <3>1. 0 \in Nat
      OBVIOUS
    <3> QED BY Zenon, <3>1 DEF NoReq, ReqType, Phases
  <2>4. new \in ReqType
    BY Zenon, <1>3, <2>0, <2>1, <2>3 DEF ReqType
  <2> QED BY <2>2, <2>4
<1> HIDE DEF new, phase
<1>5. /\ waitingQ \in Seq(Reqs) /\ dllmQ \in Seq(Reqs) /\ stagingQ \in Seq(Reqs) /\ batch \in Seq(Reqs)
      /\ req \in [Reqs -> ReqType]
  BY Zenon, <1>1 DEF TypeOK
<1>6. /\ r \notin Range(waitingQ) /\ r \notin Range(dllmQ) /\ r \notin Range(stagingQ)
      /\ row[r] = None
  BY <1>1, <1>2 DEF QueueFacts, Live
<1>7. /\ waitingQ' \in Seq(Reqs) /\ IsInjective(waitingQ')
      /\ Range(waitingQ') = Range(waitingQ) \cup {r}
      /\ \A q \in Range(waitingQ) \cup Range(dllmQ) \cup Range(stagingQ) : q \in Reqs
  BY <1>1, <1>2, <1>5, <1>6, QueueMembers DEF QueueFacts
<1>8. req'[r] = new /\ req' \in [Reqs -> ReqType] /\ \A q \in Reqs : q # r => req'[q] = req[q]
  BY <1>2, <1>4, <1>5
<1>9. TypeOK'
  BY <1>1, <1>2, <1>7, <1>8 DEF TypeOK
<1>10. Live(r)' /\ \A q \in Reqs : q # r => (Live(q)' <=> Live(q))
  BY <1>4, <1>8 DEF Live
<1>11. QueueInv'
  <2>1. QueueFacts'
    BY <1>1, <1>2, <1>6, <1>7, <1>8, <1>10 DEF QueueFacts, At
  <2> QED BY <1>9, <2>1, QueueFormsNext
<1>12. ASSUME NEW q \in Reqs, Live(q)' PROVE RequestInv(q)'
  <2>1. CASE q = r
    <3>1. PrefixLen'[r] = 0
      <4>1. prefix'[r] = <<>>
        BY <1>2, <1>6 DEF PoolFacts
      <4> QED BY <4>1, EmptyPrefix DEF PrefixLen
    <3>2. 0 <= prompt + 0
      BY <1>3
    <3> QED BY Zenon, <1>2, <1>4, <1>6, <1>8, <2>1, <3>1, <3>2 DEF RequestInv
  <2>2. CASE q # r
    <3>1. RequestInv(q)
      BY <1>10, <1>12, <2>2 DEF LoopInv
    <3>2. req'[q] = req[q] /\ PrefixLen' = PrefixLen /\ row' = row /\ stagingQ' = stagingQ
      BY <1>2, <1>8, <2>2 DEF PrefixLen
    <3>3. q \in Range(waitingQ') => q \in Range(waitingQ)
      BY <1>7, <2>2
    <3> QED BY Zenon, <3>1, <3>2, <3>3 DEF RequestInv
  <2> QED BY <2>1, <2>2
<1>13. ASSUME NEW q \in Range(stagingQ'), Live(q)' PROVE StagedInv(q)'
  <2>1. q \in Range(stagingQ) /\ q \in Reqs /\ q # r
    BY <1>2, <1>6, <1>7, <1>13
  <2>2. StagedInv(q)
    BY <1>2, <1>10, <1>13, <2>1 DEF LoopInv
  <2>3. req'[q] = req[q] /\ PrefixLen' = PrefixLen /\ row' = row /\ pc' = pc /\ kv' = kv
    BY <1>2, <1>8, <2>1 DEF PrefixLen
  <2> QED BY Zenon, <2>2, <2>3 DEF StagedInv, StoredLen
<1>14. UNCHANGED Contract!vars
  <2>1. Staged' = Staged
    BY <1>2, <1>6, <1>7, <1>10 DEF Staged
  <2>2. Extended' = Extended
    BY <1>2 DEF Extended
  <2> QED BY <1>2, <2>1, <2>2 DEF Contract!vars, Contract!poolVars
<1> QED BY <1>9, <1>11, <1>12, <1>13, <1>14 DEF LoopInv

\* abort_request takes a request out of waiting_queue, or marks it.
LEMMA AbortStep ==
  ASSUME LoopInv, PoolFacts, NEW r \in Reqs, Abort(r)
  PROVE  LoopInv' /\ UNCHANGED Contract!vars
<1> DEFINE queued == r \in Range(waitingQ)
           status == IF queued THEN "dropped" ELSE req[r].status
           marked == req[r].toFinish \/ r \in Range(batch)
           new == [req[r] EXCEPT !.status = status, !.toFinish = marked]
<1>1. TypeOK /\ QueueFacts
  BY QueueForms DEF LoopInv
<1>2. /\ waitingQ \in Seq(Reqs) /\ dllmQ \in Seq(Reqs) /\ stagingQ \in Seq(Reqs) /\ batch \in Seq(Reqs)
      /\ req \in [Reqs -> ReqType] /\ aborted \in SUBSET Reqs
  BY Zenon, <1>1 DEF TypeOK
<1>3. r \in Range(waitingQ) <=> queued
  BY <1>2 DEF Range
<1>4. /\ pc = "recv" /\ crash = "no" /\ req[r].status = "live"
      /\ aborted' = aborted \cup {r}
      /\ waitingQ' = Keep(waitingQ, Reqs \ {r})
      /\ UNCHANGED <<row, slot, mambaOf, freeRows, freeSlots, freeCells, kv, prefix, committed, working>>
      /\ UNCHANGED <<pc, crash, dllmQ, stagingQ, batch, batchFull>>
  BY DEF Abort, At, poolVars
<1>5. req' = [req EXCEPT ![r] = new]
  BY Zenon, <1>2, <1>3 DEF Abort
<1>6. new \in ReqType
  <2>1. marked \in BOOLEAN
    <3>1. CASE marked
      BY <3>1
    <3>2. CASE ~marked
      BY <3>2
    <3> QED BY <3>1, <3>2
  <2>2. status \in {"absent", "live", "finished", "dropped"} /\ req[r] \in ReqType
    BY <1>2, <1>4
  <2> HIDE DEF marked, status
  <2> QED BY Zenon, <2>1, <2>2 DEF ReqType
<1>7. /\ new.status = status /\ new.prompt = req[r].prompt /\ new.maxNew = req[r].maxNew
      /\ new.out = req[r].out /\ new.fill = req[r].fill /\ new.ext = req[r].ext
      /\ new.offset = req[r].offset /\ new.phase = req[r].phase
  <2>1. req[r] \in ReqType
    BY <1>2
  <2> HIDE DEF marked, status
  <2> QED BY <2>1 DEF ReqType
<1> HIDE DEF new
<1>8. req'[r] = new /\ req' \in [Reqs -> ReqType] /\ \A q \in Reqs : q # r => req'[q] = req[q]
  BY <1>2, <1>5, <1>6
<1>9. /\ waitingQ' \in Seq(Reqs) /\ IsInjective(waitingQ')
      /\ Range(waitingQ') = Range(waitingQ) \cap (Reqs \ {r})
      /\ \A q \in Range(waitingQ) \cup Range(dllmQ) \cup Range(stagingQ) : q \in Reqs
  BY <1>1, <1>2, <1>4, KeepFilters, QueueMembers DEF QueueFacts
<1>10. TypeOK'
  BY <1>1, <1>4, <1>8, <1>9 DEF TypeOK
<1>11. /\ Live(r) /\ (Live(r)' <=> ~queued)
       /\ \A q \in Reqs : q # r => (Live(q)' <=> Live(q))
       /\ \A q \in Reqs : Live(q)' => Live(q)
       /\ Range(waitingQ') = {q \in Range(waitingQ) : q # r}
  BY Zenon, <1>4, <1>7, <1>8, <1>9 DEF Live
<1>12. queued => row[r] = None /\ r \notin Range(dllmQ) /\ r \notin Range(stagingQ)
  BY <1>1, <1>11 DEF QueueFacts
<1>13. \A q \in Reqs : q # r \/ ~queued => req'[q].status = req[q].status
  BY <1>7, <1>8
<1>14. QueueInv'
  <2>1. /\ Range(waitingQ') \cap Range(dllmQ') = {}
        /\ \A q \in Reqs : Live(q)' => q \in Range(waitingQ') \/ q \in Range(dllmQ')
        /\ \A q \in Range(waitingQ') : Live(q)' /\ row'[q] = None
        /\ \A q \in Range(stagingQ') : q \in Range(dllmQ') \/ ~Live(q)'
    BY ZenonT(30), <1>1, <1>4, <1>9, <1>11 DEF QueueFacts
  <2>2. \A q \in Reqs : row'[q] # None => Live(q)' /\ q \in Range(dllmQ')
    BY ZenonT(30), <1>1, <1>4, <1>11, <1>12 DEF QueueFacts
  <2>3. \A q \in Range(dllmQ') \cup Range(stagingQ') : req'[q].status \in {"live", "finished"}
    BY <1>1, <1>4, <1>9, <1>12, <1>13 DEF QueueFacts
  <2>4. QueueFacts'
    BY ZenonT(30), <1>1, <1>4, <1>9, <2>1, <2>2, <2>3 DEF QueueFacts, At
  <2> QED BY <1>10, <2>4, QueueFormsNext
<1>15. \A q \in Reqs : /\ req'[q].prompt = req[q].prompt /\ req'[q].maxNew = req[q].maxNew
                       /\ req'[q].out = req[q].out /\ req'[q].fill = req[q].fill
                       /\ req'[q].ext = req[q].ext /\ req'[q].offset = req[q].offset
                       /\ req'[q].phase = req[q].phase
  BY <1>7, <1>8
<1>16. PrefixLen' = PrefixLen
  BY Zenon, <1>4 DEF PrefixLen
<1>17. ASSUME NEW q \in Reqs, Live(q)' PROVE RequestInv(q)'
  <2>1. RequestInv(q)
    BY <1>11, <1>17 DEF LoopInv
  <2>2. q \in Range(waitingQ') => q \in Range(waitingQ)
    BY <1>9
  <2> QED BY Zenon, <1>4, <1>15, <1>16, <2>1, <2>2 DEF RequestInv, Parked, AtBlock, InStep
<1>18. ASSUME NEW q \in Range(stagingQ'), Live(q)' PROVE StagedInv(q)'
  <2>1. q \in Range(stagingQ) /\ q \in Reqs /\ Live(q)
    BY <1>4, <1>9, <1>11, <1>18
  <2>2. StagedInv(q)
    BY ZenonT(30), <1>4, <2>1 DEF LoopInv
  <2> QED BY Zenon, <1>4, <1>15, <1>16, <2>1, <2>2 DEF StagedInv, StoredLen, InStep
<1>19. UNCHANGED Contract!vars
  <2>1. Staged' = Staged
    BY ZenonT(30), <1>4, <1>9, <1>11, <1>12 DEF Staged
  <2>2. Extended' = Extended
    BY <1>4 DEF Extended
  <2> QED BY ZenonT(30), <1>4, <2>1, <2>2 DEF Contract!vars, Contract!poolVars
<1> QED BY <1>10, <1>14, <1>17, <1>18, <1>19 DEF LoopInv

\* What is required of a request between its rounds depends on the pools only
\* through its row and the length of its prefix.
LEMMA SameRequests ==
  ASSUME LoopInv, UNCHANGED <<waitingQ, stagingQ, req, row, prefix>>
  PROVE  \A r \in Reqs : Live(r)' => RequestInv(r)'
<1> SUFFICES ASSUME NEW r \in Reqs, Live(r)' PROVE RequestInv(r)'
  OBVIOUS
<1>1. PrefixLen' = PrefixLen
  BY DEF PrefixLen
<1>2. RequestInv(r)
  BY DEF LoopInv, Live
<1> QED BY Zenon, <1>1, <1>2 DEF RequestInv

\* flush_cache finds no request that owns anything.
LEMMA FlushStep ==
  ASSUME LoopInv, PoolFacts, FlushCache
  PROVE  LoopInv' /\ Contract!Flush
<1>1. TypeOK /\ QueueFacts
  BY QueueForms DEF LoopInv
<1>2. /\ pc = "recv" /\ crash = "no" /\ stagingQ = <<>> /\ batch = <<>> /\ waitingQ = <<>>
      /\ freeRows' = Rows
      /\ UNCHANGED <<row, slot, kv, prefix, committed, working>>
      /\ UNCHANGED <<pc, crash, waitingQ, dllmQ, stagingQ, batch, batchFull, req, aborted>>
  BY DEF FlushCache, IsFullyIdle, At, ClearPools, loopVars
<1>3. freeRows = Rows
  BY <1>1, <1>2 DEF QueueFacts
<1>4. \A r \in Reqs : row[r] = None
  BY Zenon, <1>3 DEF PoolFacts
<1>5. TypeOK'
  BY <1>1, <1>2 DEF TypeOK
<1>6. QueueInv'
  <2>1. QueueFacts'
    BY <1>1, <1>2 DEF QueueFacts, At, Live, Rows
  <2> QED BY <1>5, <2>1, QueueFormsNext
<1>7. /\ \A r \in Reqs : Live(r)' => RequestInv(r)'
      /\ Range(stagingQ') = {}
  BY <1>2, SameRequests, EmptyQueue
<1>8. LoopInv'
  BY <1>5, <1>6, <1>7 DEF LoopInv
<1>9. Contract!Flush
  <2>1. Contract!Live = {}
    BY <1>4 DEF Contract!Live, None, Contract!None
  <2>2. Contract!ClearPools
    BY DEF FlushCache, ClearPools, Contract!ClearPools, Rows, Contract!Rows, Slots,
       Contract!Slots
  <2>3. UNCHANGED <<Extended, pc = "result", Staged>>
    BY <1>2 DEF Extended, Staged, Live
  <2> QED BY <2>1, <2>2, <2>3 DEF Contract!Flush
<1> QED BY <1>8, <1>9

\* An iteration without a batch.
LEMMA SkipRoundStep ==
  ASSUME LoopInv, PoolFacts, SkipRound
  PROVE  LoopInv' /\ UNCHANGED Contract!vars
<1>1. TypeOK /\ QueueFacts
  BY QueueForms DEF LoopInv
<1>2. /\ pc = "sched" /\ crash = "no" /\ dllmQ = <<>> /\ batch' = <<>> /\ pc' = "idle"
      /\ UNCHANGED <<row, slot, mambaOf, freeRows, freeSlots, freeCells, kv, prefix, committed, working>>
      /\ UNCHANGED <<crash, waitingQ, dllmQ, stagingQ, batchFull, req, aborted>>
  BY DEF SkipRound, ShouldSkip, At, poolVars
<1>3. Range(dllmQ) = {}
  BY <1>2, EmptyQueue
<1>4. stagingQ = <<>> /\ Range(stagingQ) = {}
  BY <1>1, <1>2, <1>3, QueueMembers DEF QueueFacts, TypeOK
<1>5. TypeOK'
  BY <1>1, <1>2 DEF TypeOK
<1>6. QueueInv'
  <2>1. QueueFacts'
    BY Zenon, <1>1, <1>2, <1>3, <1>4 DEF QueueFacts, At, Live
  <2> QED BY <1>5, <2>1, QueueFormsNext
<1>7. \A r \in Reqs : Live(r)' => RequestInv(r)'
  BY <1>2, SameRequests
<1>8. LoopInv'
  BY <1>2, <1>4, <1>5, <1>6, <1>7 DEF LoopInv
<1>9. UNCHANGED Contract!vars
  BY <1>2 DEF Extended, Staged, Contract!vars, Contract!poolVars
<1> QED BY <1>8, <1>9

\* The check of an idle iteration.
LEMMA IdleCheckStep ==
  ASSUME LoopInv, PoolFacts, IdleCheck
  PROVE  LoopInv' /\ UNCHANGED Contract!vars
<1>1. TypeOK /\ QueueFacts
  BY QueueForms DEF LoopInv
<1>2. /\ pc = "idle" /\ crash = "no"
      /\ \/ crash' = "idle check" /\ pc' = pc
         \/ freeRows = Rows /\ pc' = "recv" /\ crash' = crash
      /\ UNCHANGED <<row, slot, mambaOf, freeRows, freeSlots, freeCells, kv, prefix, committed, working>>
      /\ UNCHANGED <<waitingQ, dllmQ, stagingQ, batch, batchFull, req, aborted>>
  BY Zenon DEF IdleCheck, At, poolVars
<1>3. stagingQ = <<>> /\ batch = <<>> /\ Range(stagingQ) = {}
  <2>1. stagingQ = <<>> /\ batch = <<>>
    BY Zenon, <1>1, <1>2 DEF QueueFacts, At
  <2> QED BY <2>1, EmptyQueue
<1>4. TypeOK'
  BY Zenon, <1>1, <1>2 DEF TypeOK
<1>5. QueueInv'
  <2>1. QueueFacts'
    BY Zenon, <1>1, <1>2, <1>3 DEF QueueFacts, At, Live, Rows
  <2> QED BY <1>4, <2>1, QueueFormsNext
<1>6. \A r \in Reqs : Live(r)' => RequestInv(r)'
  BY Zenon, <1>2, SameRequests
<1>7. LoopInv'
  BY Zenon, <1>2, <1>3, <1>4, <1>5, <1>6 DEF LoopInv
<1>8. UNCHANGED Contract!vars
  <2>1. Extended' = Extended /\ Staged' = Staged
    BY Zenon, <1>2, <1>3 DEF Extended, Staged
  <2>2. (pc = "result")' = (pc = "result")
    BY Zenon, <1>2
  <2> QED BY Zenon, <1>2, <2>1, <2>2 DEF Contract!vars, Contract!poolVars
<1> QED BY <1>7, <1>8

\* A forward pass, or the exception for a batch that is not made of blocks.
LEMMA RunBatchStep ==
  ASSUME LoopInv, PoolFacts, RunBatch
  PROVE  LoopInv' /\ (Contract!Forward \/ UNCHANGED Contract!vars)
<1>1. TypeOK /\ QueueFacts
  BY QueueForms DEF LoopInv
<1>2. /\ pc = "forward" /\ crash = "no"
      /\ UNCHANGED <<row, slot, mambaOf, freeRows, freeSlots, freeCells, kv, prefix, committed>>
      /\ UNCHANGED <<waitingQ, dllmQ, stagingQ, batch, batchFull, req, aborted>>
  BY Zenon DEF RunBatch, At, poolVars, ForwardPass
<1>3. \/ pc' = pc /\ crash' = "block shape" /\ UNCHANGED working
      \/ /\ \A r \in Range(batch) : req[r].ext = BlockSize
         /\ ForwardPass(Range(batch)) /\ pc' = "result" /\ crash' = crash
  BY Zenon DEF RunBatch, poolVars
<1>4. TypeOK'
  BY Zenon, <1>1, <1>2, <1>3 DEF TypeOK
<1>5. batch = stagingQ /\ batch # <<>> /\ batch \in Seq(Reqs) /\ Range(batch) # {} /\ Range(batch) \subseteq Reqs
  <2>1. batch = stagingQ /\ batch # <<>>
    BY <1>1, <1>2 DEF QueueFacts
  <2>2. batch \in Seq(Reqs)
    BY Zenon, <1>1 DEF TypeOK
  <2> QED BY <2>1, <2>2, QueueMembers
<1>6. QueueInv'
  <2>1. QueueFacts'
    BY Zenon, <1>1, <1>2, <1>3, <1>5 DEF QueueFacts, At, Live, Rows
  <2> QED BY <1>4, <2>1, QueueFormsNext
<1>7. \A r \in Reqs : Live(r)' => RequestInv(r)'
  BY <1>2, SameRequests
<1>8. PrefixLen' = PrefixLen
  BY <1>2 DEF PrefixLen
<1>9. ASSUME crash' = "no", NEW r \in Range(stagingQ'), Live(r)' PROVE StagedInv(r)'
  <2>1. pc' = "result" /\ r \in Range(stagingQ) /\ Live(r) /\ req[r].ext = BlockSize
    BY <1>2, <1>3, <1>5, <1>9 DEF Live
  <2>2. StagedInv(r)
    BY <1>2, <2>1 DEF LoopInv
  <2> QED BY Zenon, <1>2, <1>8, <2>1, <2>2 DEF StagedInv, StoredLen
<1>10. LoopInv'
  BY <1>4, <1>6, <1>7, <1>9 DEF LoopInv
<1>11. Contract!Forward \/ UNCHANGED Contract!vars
  <2>1. CASE pc' = pc /\ UNCHANGED working
    <3>1. Extended' = Extended /\ Staged' = Staged
      BY <1>2, <2>1 DEF Extended, Staged
    <3> QED BY <1>2, <2>1, <3>1 DEF Contract!vars, Contract!poolVars
  <2>2. CASE ForwardPass(Range(batch)) /\ pc' = "result"
    <3>1. Extended = Range(batch) /\ Extended' = Extended /\ Staged' = Staged
      BY <1>2, <2>2 DEF Extended, Staged
    <3>2. Contract!ForwardPass(Extended)
      BY Zenon, <2>2, <3>1 DEF ForwardPass, Contract!ForwardPass, StateSlot, Contract!StateSlot,
         CurrentBlock, Contract!CurrentBlock, Folded, Contract!Folded, SlotIds, Contract!SlotIds
    <3>3. (pc = "result")' = TRUE
      BY <2>2
    <3> QED BY <1>5, <3>1, <3>2, <3>3 DEF Contract!Forward
  <2> QED BY Zenon, <1>3, <2>1, <2>2
<1> QED BY <1>10, <1>11

-----------------------------------------------------------------------------
(* Between two rounds. *)

\* The lengths of rows and prefixes are naturals.
LEMMA Lengths ==
  PoolFacts => \A r \in Reqs : /\ PrefixLen[r] \in Nat /\ StoredLen(r) \in Nat
                               /\ IsFiniteSet(TokensOf(prefix[r])) /\ IsFiniteSet(TokensOf(kv[r]))
<1> SUFFICES ASSUME PoolFacts, NEW r \in Reqs
             PROVE  /\ PrefixLen[r] \in Nat /\ StoredLen(r) \in Nat
                    /\ IsFiniteSet(TokensOf(prefix[r])) /\ IsFiniteSet(TokensOf(kv[r]))
  OBVIOUS
<1>1. prefix[r] \in Seq(SUBSET Cells) /\ kv[r] \in Seq(SUBSET Cells)
  BY DEF PoolFacts
<1>2. TokensOf(prefix[r]) \subseteq Cells /\ TokensOf(kv[r]) \subseteq Cells
  BY <1>1 DEF TokensOf
<1>3. IsFiniteSet(TokensOf(prefix[r])) /\ IsFiniteSet(TokensOf(kv[r]))
  BY <1>2, SchedulerAssumption, FS_Subset
<1> QED BY <1>3, FS_CardinalityType DEF PrefixLen, StoredLen

\* The requests that waited too long leave waiting_queue, those that finished leave
\* the manager, and the staged requests are stashed.
LEMMA FilterAndStashStep ==
  ASSUME LoopInv, PoolFacts, NEW expired \in SUBSET Reqs, FilterAndStash(expired)
  PROVE  LoopInv' /\ (Contract!Stash(Staged) \/ UNCHANGED Contract!vars)
<1> DEFINE live == {r \in Reqs : Live(r)}
<1>1. TypeOK /\ QueueFacts
  BY QueueForms DEF LoopInv
<1>2. /\ waitingQ \in Seq(Reqs) /\ dllmQ \in Seq(Reqs) /\ stagingQ \in Seq(Reqs) /\ batch \in Seq(Reqs)
      /\ req \in [Reqs -> ReqType] /\ batchFull \in BOOLEAN
  BY Zenon, <1>1 DEF TypeOK
<1>3. /\ pc = "recv" /\ crash = "no" /\ expired \subseteq Range(waitingQ) /\ pc' = "sched"
      /\ waitingQ' = Keep(waitingQ, Reqs \ expired)
      /\ dllmQ' = Keep(dllmQ, live) /\ stagingQ' = Keep(stagingQ, live)
      /\ req' = [r \in Reqs |-> IF r \in expired THEN [req[r] EXCEPT !.status = "dropped"] ELSE req[r]]
      /\ UNCHANGED <<crash, batch, aborted>>
  BY DEF FilterAndStash, At, Unexpired, FilterFinished
<1>4. /\ prefix' = [r \in Reqs |-> IF r \in Range(stagingQ') THEN kv[r] ELSE prefix[r]]
      /\ UNCHANGED <<row, slot, mambaOf, freeRows, freeSlots, freeCells, kv, working>>
  BY DEF FilterAndStash, StashRequests
<1>5. /\ waitingQ' \in Seq(Reqs) /\ IsInjective(waitingQ')
      /\ Range(waitingQ') = Range(waitingQ) \cap (Reqs \ expired)
  BY <1>1, <1>2, <1>3, KeepFilters DEF QueueFacts
<1>6. /\ dllmQ' \in Seq(Reqs) /\ IsInjective(dllmQ') /\ Len(dllmQ') <= Len(dllmQ)
      /\ Range(dllmQ') = Range(dllmQ) \cap live
      /\ stagingQ' \in Seq(Reqs) /\ Range(stagingQ') = Range(stagingQ) \cap live
  <2> HIDE DEF live
  <2> QED BY <1>1, <1>2, <1>3, KeepFilters DEF QueueFacts
<1>7. \A q \in Range(waitingQ) \cup Range(dllmQ) \cup Range(stagingQ) : q \in Reqs
  BY <1>2, QueueMembers
<1>8. /\ req' \in [Reqs -> ReqType]
      /\ \A r \in Reqs : r \notin expired => req'[r] = req[r]
      /\ \A r \in expired : ~Live(r)'
  <2>1. ASSUME NEW r \in Reqs PROVE [req[r] EXCEPT !.status = "dropped"] \in ReqType
    <3>1. req[r] \in ReqType
      BY <1>2
    <3> QED BY Zenon, <3>1 DEF ReqType
  <2>2. ASSUME NEW r \in Reqs PROVE [req[r] EXCEPT !.status = "dropped"].status = "dropped"
    BY <1>2 DEF ReqType
  <2> QED BY <1>2, <1>3, <2>1, <2>2 DEF Live
<1>9. TypeOK'
  <2>1. batchFull' \in BOOLEAN
    <3>1. batchFull' = (batchFull /\ batch = <<>>)
      BY DEF FilterAndStash, FullAfterRound
    <3>2. CASE batchFull /\ batch = <<>>
      BY <3>1, <3>2
    <3>3. CASE ~(batchFull /\ batch = <<>>)
      BY <3>1, <3>3
    <3> QED BY <3>2, <3>3
  <2> QED BY <1>1, <1>3, <1>5, <1>6, <1>8, <2>1 DEF TypeOK
<1>10. \A r \in Reqs : Live(r)' <=> Live(r) /\ r \notin expired
  BY <1>3, <1>8 DEF Live
<1>11. QueueInv'
  <2>1. /\ Range(waitingQ') \cap Range(dllmQ') = {}
        /\ \A q \in Reqs : Live(q)' => q \in Range(waitingQ') \/ q \in Range(dllmQ')
        /\ \A q \in Range(waitingQ') : Live(q)' /\ row'[q] = None
    BY Zenon, <1>1, <1>4, <1>5, <1>6, <1>7, <1>10 DEF QueueFacts
  <2>2. \A q \in Range(dllmQ') \cup Range(stagingQ') : q \in Reqs /\ Live(q)'
    <3>1. \A q \in Range(dllmQ') \cup Range(stagingQ') : q \in Reqs /\ Live(q) /\ q \notin Range(waitingQ)
      BY <1>1, <1>6 DEF QueueFacts
    <3> QED BY <1>3, <1>10, <3>1
  <2>3. Range(stagingQ') \subseteq Range(dllmQ')
    BY <1>1, <1>6 DEF QueueFacts
  <2>4. \A q \in Reqs : row'[q] # None => Live(q)' /\ q \in Range(dllmQ')
    BY <1>1, <1>3, <1>4, <1>6, <1>10 DEF QueueFacts
  <2>5. Len(dllmQ') <= MaxRunning
    <3>1. Len(dllmQ) \in Nat /\ Len(dllmQ') \in Nat /\ Len(dllmQ) <= MaxRunning
      BY <1>1, <1>2, <1>6 DEF QueueFacts
    <3> QED BY <1>6, <3>1, AdderAssumption
  <2>6. QueueFacts'
    BY Zenon, <1>3, <1>5, <1>6, <2>1, <2>2, <2>3, <2>4, <2>5 DEF QueueFacts, At, Live
  <2> QED BY <1>9, <2>6, QueueFormsNext
<1>12. /\ Range(stagingQ') = Staged
       /\ \A r \in Reqs : Live(r)' => (r \in Range(stagingQ') <=> r \in Range(stagingQ))
  BY <1>3, <1>6, <1>7, <1>10 DEF Staged
<1>13. ASSUME NEW r \in Reqs
       PROVE  PrefixLen'[r] = IF r \in Range(stagingQ') THEN StoredLen(r) ELSE PrefixLen[r]
  <2>1. prefix'[r] = IF r \in Range(stagingQ') THEN kv[r] ELSE prefix[r]
    BY Zenon, <1>4
  <2> QED BY <2>1 DEF PrefixLen, StoredLen
<1>14. ASSUME NEW r \in Range(stagingQ), Live(r)
       PROVE  StagedInv(r) /\ InStep(req[r], StoredLen(r)) /\ StoredLen(r) = req[r].offset + BlockSize
  BY <1>3, <1>14 DEF LoopInv, StagedInv
<1>15. ASSUME NEW r \in Reqs, Live(r)' PROVE RequestInv(r)'
  <2>1. RequestInv(r) /\ Live(r) /\ r \notin expired /\ req'[r] = req[r] /\ row' = row
    BY <1>4, <1>8, <1>10, <1>15 DEF LoopInv
  <2>2. r \in Range(waitingQ') => r \in Range(waitingQ)
    BY <1>5
  <2>3. CASE r \in Range(stagingQ')
    <3>1. PrefixLen'[r] = StoredLen(r) /\ r \in Range(stagingQ)
      BY <1>6, <1>13, <2>3
    <3>2. PrefixLen'[r] <= req[r].prompt + req[r].out
      BY <1>14, <2>1, <3>1 DEF InStep
    <3> QED BY Zenon, <2>1, <2>2, <2>3, <3>2 DEF RequestInv
  <2>4. CASE r \notin Range(stagingQ')
    <3>1. PrefixLen'[r] = PrefixLen[r] /\ r \notin Range(stagingQ)
      BY <1>6, <1>13, <2>1, <2>4
    <3> QED BY Zenon, <2>1, <2>2, <3>1 DEF RequestInv
  <2> QED BY <2>3, <2>4
<1>16. ASSUME NEW r \in Range(stagingQ'), Live(r)' PROVE StagedInv(r)'
  <2>1. r \in Range(stagingQ) /\ r \in Reqs /\ Live(r) /\ req'[r] = req[r] /\ row' = row
    BY <1>4, <1>6, <1>8, <1>10, <1>16
  <2>2. PrefixLen'[r] = StoredLen(r)
    BY <1>13, <2>1
  <2>3. /\ req[r].phase \in Staging /\ req[r].fill > 0 /\ row[r] # None
        /\ InStep(req[r], StoredLen(r)) /\ StoredLen(r) = req[r].offset + BlockSize
    BY Zenon, <1>14, <2>1 DEF StagedInv
  <2> QED BY <1>3, <2>1, <2>2, <2>3 DEF StagedInv
<1>17. LoopInv'
  BY <1>9, <1>11, <1>15, <1>16 DEF LoopInv
<1>18. Contract!Stash(Staged) \/ UNCHANGED Contract!vars
  <2>1. Extended = {} /\ Extended' = {} /\ Staged' = {} /\ (pc = "result")' = (pc = "result")
    BY <1>3 DEF Extended, Staged
  <2>2. StashRequests(Staged)
    BY <1>12 DEF FilterAndStash
  <2>3. CASE Staged # {}
    <3>1. Contract!StashRequests(Staged)
      BY Zenon, <2>2 DEF StashRequests, Contract!StashRequests, StateSlot, Contract!StateSlot,
         Promoted, Contract!Promoted, SlotIds, Contract!SlotIds
    <3> QED BY <2>1, <2>3, <3>1 DEF Contract!Stash
  <2>4. CASE Staged = {}
    <3>1. prefix' = prefix
      BY <1>4, <1>12, <2>4 DEF PoolFacts
    <3>2. committed' = [s \in SlotIds |-> committed[s]]
      BY <2>2, <2>4 DEF StashRequests
    <3>3. committed' = committed
      BY <3>2 DEF PoolFacts
    <3> QED BY <1>4, <2>1, <2>4, <3>1, <3>3 DEF Contract!vars, Contract!poolVars
  <2> QED BY <2>3, <2>4
<1> QED BY <1>17, <1>18

-----------------------------------------------------------------------------
(* The result of a batch. *)

\* A block behind a prefix of len tokens has a mask, and so new tokens, unless the
\* known tokens fill it.
LEMMA BlockTokens ==
  ASSUME NEW r \in Reqs, req[r] \in ReqType, PrefixLen[r] \in Nat,
         Admitted(req[r], PrefixLen[r]), req[r].ext = BlockSize
  PROVE  /\ NewTokens(r) = IF PrefixLen[r] + BlockSize <= req[r].prompt + req[r].out
                            THEN 0 ELSE PrefixLen[r] + BlockSize - (req[r].prompt + req[r].out)
         /\ NewTokens(r) \in Nat
         /\ req[r].phase \in Prefill <=> NewTokens(r) = 0
<1> DEFINE q == req[r]
           len == PrefixLen[r]
           known == q.prompt + q.out
           n == NewTokens(r)
<1>1. /\ q.prompt \in Nat /\ q.out \in Nat /\ BlockSize \in Nat \ {0}
      /\ known \in Nat /\ len \in Nat /\ len + BlockSize - known \in Int
  <2>1. q.prompt \in Nat /\ q.out \in Nat /\ BlockSize \in Nat \ {0} /\ len \in Nat
    BY AdderAssumption DEF ReqType
  <2> HIDE DEF q, len
  <2> QED BY <2>1
<1>2. /\ len <= known /\ q.fill = len + BlockSize
      /\ q.phase = IF len + BlockSize <= known THEN "STAGING_PREFILL" ELSE "STAGING_DECODE"
  BY DEF Admitted, AtBlock, InStep
<1>3. n = Max({0, q.fill - Max({len, known})})
  BY DEF NewTokens
<1> HIDE DEF n, q, known, len
<1>4. Max({len, known}) = known
  <2>1. len \in Int /\ known \in Int
    BY <1>1
  <2>2. Max({len, known}) = IF len <= known THEN known ELSE len
    BY Zenon, <2>1, MinMax
  <2> QED BY <1>2, <2>2
<1>5. n = IF len + BlockSize <= known THEN 0 ELSE len + BlockSize - known
  <2> DEFINE d == len + BlockSize - known
  <2>1. n = Max({0, d})
    <3>1. q.fill = len + BlockSize
      BY <1>2
    <3>2. q.fill - known = d
      BY <1>1, <3>1
    <3> QED BY Zenon, <1>3, <1>4, <3>2
  <2>2. Max({0, d}) = IF 0 <= d THEN d ELSE 0
    <3>1. 0 \in Int
      OBVIOUS
    <3> QED BY Zenon, <1>1, <3>1, MinMax
  <2> QED BY <1>1, <2>1, <2>2
<1>6. n \in Nat
  BY <1>1, <1>5
<1>7. q.phase \in Prefill <=> len + BlockSize <= known
  BY <1>2 DEF Prefill
<1>8. n = 0 <=> len + BlockSize <= known
  BY <1>1, <1>5
<1>9. q.phase \in Prefill <=> n = 0
  BY <1>7, <1>8
<1> QED BY Zenon, <1>5, <1>6, <1>9 DEF q, known, len, n

\* What check_finished makes of a request with new tokens.
LEMMA CheckedReq ==
  ASSUME NEW q \in ReqType, q.status = "live", NEW n \in Nat, NEW eos
  PROVE  LET p == CheckFinished([q EXCEPT !.out = q.out + n], eos)
         IN  /\ p \in ReqType
             /\ p.prompt = q.prompt /\ p.maxNew = q.maxNew /\ p.out = q.out + n
             /\ p.fill = q.fill /\ p.ext = q.ext /\ p.offset = q.offset /\ p.phase = q.phase
             /\ \/ p.status = "finished"
                \/ p.status = "live" /\ p.out < p.maxNew
<1> DEFINE m == q.out + n
           t == [q EXCEPT !.out = m]
           p == CheckFinished(t, eos)
           f == [t EXCEPT !.status = "finished", !.toFinish = FALSE]
<1>1. m \in Nat /\ q.maxNew \in Nat
  BY DEF ReqType
<1> HIDE DEF m
<1>2. t \in ReqType
  BY Zenon, <1>1 DEF ReqType
<1>3. /\ t.prompt = q.prompt /\ t.maxNew = q.maxNew /\ t.out = m /\ t.status = "live"
      /\ t.fill = q.fill /\ t.ext = q.ext /\ t.offset = q.offset /\ t.phase = q.phase
  BY DEF ReqType
<1> HIDE DEF t
<1>4. f \in ReqType
  <2>1. FALSE \in BOOLEAN /\ "finished" \in {"absent", "live", "finished", "dropped"}
    OBVIOUS
  <2> QED BY Zenon, <1>2, <2>1 DEF ReqType
<1>5. /\ f.prompt = q.prompt /\ f.maxNew = q.maxNew /\ f.out = m /\ f.status = "finished"
      /\ f.fill = q.fill /\ f.ext = q.ext /\ f.offset = q.offset /\ f.phase = q.phase
  BY <1>2, <1>3 DEF ReqType
<1>6. p = f \/ (p = t /\ ~(t.out >= t.maxNew))
  BY DEF CheckFinished
<1> HIDE DEF f, p
<1>7. CASE p = f
  BY <1>4, <1>5, <1>7 DEF p, m, t
<1>8. CASE p = t /\ ~(t.out >= t.maxNew)
  <2>1. t.out < t.maxNew
    BY <1>1, <1>3, <1>8
  <2> QED BY Zenon, <1>2, <1>3, <1>8, <2>1 DEF p, m, t
<1> QED BY <1>6, <1>7, <1>8

\* The new tokens of a batch are known tokens now, and the requests that finished
\* own nothing.
LEMMA ProcessResultStep ==
  ASSUME LoopInv, PoolFacts, NEW eos \in SUBSET Reqs, ProcessResult(eos)
  PROVE  LoopInv' /\ Contract!Finish({r \in Extended : row'[r] = None})
<1> DEFINE decoded == {r \in Range(batch) : NewTokens(r) > 0}
           Checked(r) == CheckFinished([req[r] EXCEPT !.out = req[r].out + NewTokens(r)], r \in eos)
           finished == {r \in decoded : req'[r].status = "finished"}
<1>1. TypeOK /\ QueueFacts
  BY QueueForms DEF LoopInv
<1>2. /\ waitingQ \in Seq(Reqs) /\ dllmQ \in Seq(Reqs) /\ stagingQ \in Seq(Reqs) /\ batch \in Seq(Reqs)
      /\ req \in [Reqs -> ReqType]
  BY Zenon, <1>1 DEF TypeOK
<1>3. /\ pc = "result" /\ crash = "no" /\ pc' = "recv"
      /\ req' = [r \in Reqs |-> IF r \in decoded THEN Checked(r) ELSE req[r]]
      /\ ReleaseKvCache(finished)
      /\ UNCHANGED <<crash, waitingQ, dllmQ, stagingQ, batch, batchFull, aborted>>
  BY DEF ProcessResult, At
<1>4. /\ batch = stagingQ /\ batch # <<>> /\ Range(batch) \subseteq Range(dllmQ) /\ Range(dllmQ) \subseteq Reqs
      /\ Range(waitingQ) \subseteq Reqs
      /\ \A r \in Range(batch) : Live(r)
  <2>1. Range(dllmQ) \subseteq Reqs /\ Range(waitingQ) \subseteq Reqs
    BY <1>2, QueueMembers
  <2> QED BY <1>1, <1>3, <2>1 DEF QueueFacts
<1>5. ASSUME NEW r \in Range(batch)
      PROVE  /\ r \in Reqs /\ req[r] \in ReqType /\ req[r].status = "live"
             /\ PrefixLen[r] \in Nat /\ StoredLen(r) \in Nat
             /\ StagedInv(r) /\ Admitted(req[r], PrefixLen[r]) /\ req[r].ext = BlockSize
             /\ StoredLen(r) = PrefixLen[r] + BlockSize
  <2>1. r \in Reqs /\ Live(r) /\ r \in Range(stagingQ)
    BY <1>4
  <2>2. StagedInv(r)
    BY <1>3, <2>1 DEF LoopInv
  <2>3. PrefixLen[r] \in Nat /\ StoredLen(r) \in Nat
    BY <2>1, Lengths
  <2> QED BY <1>2, <1>3, <2>1, <2>2, <2>3 DEF StagedInv, Live
<1>6. ASSUME NEW r \in Range(batch)
      PROVE  /\ NewTokens(r) = IF PrefixLen[r] + BlockSize <= req[r].prompt + req[r].out
                                THEN 0 ELSE PrefixLen[r] + BlockSize - (req[r].prompt + req[r].out)
             /\ NewTokens(r) \in Nat
  BY <1>5, BlockTokens
<1> DEFINE Same(r) == /\ req'[r].prompt = req[r].prompt /\ req'[r].maxNew = req[r].maxNew
                      /\ req'[r].fill = req[r].fill /\ req'[r].ext = req[r].ext
                      /\ req'[r].offset = req[r].offset /\ req'[r].phase = req[r].phase
<1>7. ASSUME NEW r \in decoded
      PROVE  /\ req'[r] \in ReqType /\ Same(r)
             /\ req'[r].out = req[r].out + NewTokens(r)
             /\ \/ req'[r].status = "finished"
                \/ req'[r].status = "live" /\ req'[r].out < req'[r].maxNew
  <2>1. r \in Reqs /\ req'[r] = Checked(r)
    BY <1>3, <1>5
  <2>2. req[r] \in ReqType /\ req[r].status = "live" /\ NewTokens(r) \in Nat
    BY <1>5, <1>6
  <2> QED BY <2>1, <2>2, CheckedReq
<1> HIDE DEF Checked
<1>8. \A r \in Reqs : r \notin decoded => req'[r] = req[r]
  BY <1>3
<1>9. decoded \subseteq Range(batch) /\ finished \subseteq decoded /\ finished \subseteq Reqs
  BY <1>4
<1>10. /\ row' = [r \in Reqs |-> IF r \in finished THEN None ELSE row[r]]
       /\ kv' = [r \in Reqs |-> IF r \in finished THEN <<>> ELSE kv[r]]
       /\ prefix' = [r \in Reqs |-> IF r \in finished THEN <<>> ELSE prefix[r]]
  BY Zenon, <1>3 DEF ReleaseKvCache
<1> HIDE DEF decoded
<1>11. req' \in [Reqs -> ReqType]
  <2>1. \A r \in Reqs : req'[r] \in ReqType
    BY <1>2, <1>7, <1>8
  <2>2. req' = [r \in Reqs |-> req'[r]]
    BY <1>3
  <2> QED BY <2>1, <2>2
<1>12. /\ \A r \in Reqs : Same(r)
       /\ \A r \in Reqs : r \notin finished => (Live(r)' <=> Live(r)) /\ req'[r].status = req[r].status
       /\ \A r \in finished : req'[r].status = "finished" /\ ~Live(r)' /\ Live(r)
       /\ \A r \in Reqs : Live(r)' => r \notin finished /\ Live(r)
  <2>1. \A r \in Reqs : Same(r)
    BY <1>7, <1>8
  <2>2. ASSUME NEW r \in Reqs, r \notin finished PROVE req'[r].status = req[r].status
    BY ZenonT(30), <1>5, <1>7, <1>8, <1>9, <2>2
  <2>3. \A r \in finished : req'[r].status = "finished" /\ req[r].status = "live"
    BY Zenon, <1>5, <1>9
  <2> QED BY <2>1, <2>2, <2>3 DEF Live
<1> HIDE DEF finished, Same
<1>13. ASSUME NEW r \in Reqs, r \notin finished
       PROVE  row'[r] = row[r] /\ PrefixLen'[r] = PrefixLen[r] /\ StoredLen(r)' = StoredLen(r)
  <2>1. row'[r] = row[r] /\ prefix'[r] = prefix[r] /\ kv'[r] = kv[r]
    BY <1>10, <1>13
  <2> QED BY <2>1 DEF PrefixLen, StoredLen
<1>14. TypeOK'
  BY <1>1, <1>3, <1>11 DEF TypeOK
<1>15. QueueInv'
  <2>1. \A r \in finished : r \in Range(dllmQ) /\ r \notin Range(waitingQ) /\ row'[r] = None
    BY ZenonT(30), <1>1, <1>4, <1>9, <1>10 DEF QueueFacts
  <2>2. \A r \in Reqs : Live(r)' => r \in Range(waitingQ') \/ r \in Range(dllmQ')
    BY ZenonT(30), <1>1, <1>3, <1>12 DEF QueueFacts
  <2>3. \A r \in Range(waitingQ') : Live(r)' /\ row'[r] = None
    BY ZenonT(30), <1>1, <1>3, <1>4, <1>12, <1>13, <2>1 DEF QueueFacts
  <2>4. ASSUME NEW r \in Reqs, row'[r] # None PROVE Live(r)' /\ r \in Range(dllmQ')
    <3>1. r \notin finished /\ row[r] # None
      BY ZenonT(30), <1>13, <2>1, <2>4
    <3>2. Live(r) /\ r \in Range(dllmQ)
      BY ZenonT(30), <1>1, <3>1 DEF QueueFacts
    <3> QED BY ZenonT(30), <1>3, <1>12, <3>1, <3>2
  <2>5. \A r \in Range(dllmQ') \cup Range(stagingQ') : req'[r].status \in {"live", "finished"}
    BY Zenon, <1>1, <1>3, <1>4, <1>12 DEF QueueFacts
  <2>6. \A r \in Range(stagingQ') : r \in Range(dllmQ') \/ ~Live(r)'
    BY <1>3, <1>4
  <2>7. QueueFacts'
    BY Zenon, <1>1, <1>3, <1>4, <2>2, <2>3, <2>4, <2>5, <2>6 DEF QueueFacts, At
  <2> QED BY <1>14, <2>7, QueueFormsNext
<1>16. ASSUME NEW r \in Range(batch), r \notin finished
       PROVE  /\ InStep(req'[r], StoredLen(r)) /\ StoredLen(r) = req'[r].offset + BlockSize
              /\ PrefixLen[r] <= req'[r].prompt + req'[r].out
              /\ req'[r].out = 0 \/ req'[r].out < req'[r].maxNew
  <2> DEFINE len == PrefixLen[r]
             known == req[r].prompt + req[r].out
             q == req[r]
             p == req'[r]
             n == NewTokens(r)
             stored == StoredLen(r)
  <2>1. /\ len \in Nat /\ q.prompt \in Nat /\ q.out \in Nat /\ q.maxNew \in Nat /\ stored \in Nat
        /\ BlockSize \in Nat \ {0}
    BY <1>5, AdderAssumption DEF ReqType
  <2>2. /\ len <= q.prompt + q.out /\ (q.out > 0 => len = q.prompt + q.out)
        /\ q.offset = len /\ stored = len + BlockSize
    BY ZenonT(30), <1>5 DEF Admitted, AtBlock, InStep
  <2>3. p.prompt = q.prompt /\ p.offset = q.offset /\ p.maxNew = q.maxNew
    BY Zenon, <1>4, <1>12 DEF Same
  <2>4. /\ n = IF len + BlockSize <= q.prompt + q.out THEN 0 ELSE len + BlockSize - (q.prompt + q.out)
        /\ n \in Nat
    BY Zenon, <1>6
  <2>5. q.out = 0 \/ q.out < q.maxNew
    BY ZenonT(30), <1>4 DEF LoopInv, RequestInv
  <2>6. CASE r \in decoded
    <3>1. p.out = q.out + n /\ n > 0 /\ p.out < p.maxNew
      BY <1>7, <1>16, <2>6 DEF decoded, finished
    <3> HIDE DEF len, q, p, n, stored
    <3>2. p.prompt + p.out = stored
      BY <2>1, <2>2, <2>3, <2>4, <3>1
    <3>3. len <= p.prompt + p.out /\ stored = p.offset + BlockSize
      BY <2>1, <2>2, <2>3, <3>2
    <3>4. stored <= p.prompt + p.out
      BY <2>1, <3>2
    <3>5. InStep(p, stored)
      BY Zenon, <3>2, <3>4 DEF InStep
    <3> QED BY Zenon, <3>1, <3>3, <3>5 DEF len, p, stored
  <2>7. CASE r \notin decoded
    <3>1. p = q
      BY <1>4, <1>8, <2>7
    <3>2. ~(n > 0)
      BY <2>7 DEF decoded
    <3> HIDE DEF len, q, p, n, stored
    <3>3. len + BlockSize <= q.prompt + q.out
      BY <2>1, <2>4, <3>2
    <3>4. q.out = 0 /\ stored <= q.prompt + q.out
      BY <2>1, <2>2, <3>3
    <3>5. InStep(p, stored) /\ stored = p.offset + BlockSize /\ len <= p.prompt + p.out
      BY <2>2, <3>1, <3>4 DEF InStep
    <3> QED BY <2>5, <3>1, <3>5 DEF len, q, p, stored
  <2> QED BY ZenonT(30), <2>6, <2>7
<1>17. ASSUME NEW r \in Reqs, Live(r)' PROVE RequestInv(r)'
  <2>1. r \notin finished /\ Live(r) /\ RequestInv(r)
    BY Zenon, <1>12, <1>17 DEF LoopInv
  <2>2. row'[r] = row[r] /\ PrefixLen'[r] = PrefixLen[r]
    BY <1>13, <2>1
  <2>3. CASE r \in Range(batch)
    <3>1. StagedInv(r)
      BY <1>5, <2>3
    <3>2. /\ row[r] # None /\ req[r].phase \in Staging
          /\ r \notin Range(waitingQ)
      BY ZenonT(30), <2>1, <3>1 DEF StagedInv, RequestInv
    <3>3. req'[r].phase = req[r].phase /\ req'[r].prompt = req[r].prompt
      BY Zenon, <1>12 DEF Same
    <3> QED BY Zenon, <1>3, <1>4, <1>16, <2>1, <2>2, <2>3, <3>2, <3>3 DEF RequestInv
  <2>4. CASE r \notin Range(batch)
    <3>1. req'[r] = req[r]
      BY ZenonT(30), <1>8, <1>9, <2>4
    <3> QED BY Zenon, <1>3, <2>1, <2>2, <3>1 DEF RequestInv
  <2> QED BY <2>3, <2>4
<1>18. ASSUME NEW r \in Range(stagingQ'), Live(r)' PROVE StagedInv(r)'
  <2>1. r \in Range(batch) /\ r \in Reqs /\ r \notin finished
    BY ZenonT(30), <1>3, <1>4, <1>12, <1>18
  <2>2. /\ row[r] # None /\ req[r].phase \in Staging /\ req[r].fill > 0
    BY ZenonT(30), <1>5, <2>1 DEF StagedInv
  <2>3. req'[r].phase = req[r].phase /\ req'[r].fill = req[r].fill
    BY ZenonT(30), <1>12, <2>1 DEF Same
  <2>4. row'[r] = row[r] /\ StoredLen(r)' = StoredLen(r)
    BY <1>13, <2>1
  <2>5. InStep(req'[r], StoredLen(r)) /\ StoredLen(r) = req'[r].offset + BlockSize
    BY <1>16, <2>1
  <2> QED BY ZenonT(30), <1>3, <2>2, <2>3, <2>4, <2>5 DEF StagedInv
<1>19. LoopInv'
  BY <1>14, <1>15, <1>17, <1>18 DEF LoopInv
<1>20. Contract!Finish({r \in Extended : row'[r] = None})
  <2>1. Extended = Range(batch) /\ Extended' = {} /\ Staged = {}
    BY <1>3 DEF Extended, Staged
  <2>2. Extended # {}
    BY <1>2, <1>4, <2>1, QueueMembers
  <2>3. {r \in Extended : row'[r] = None} = finished
    BY <1>4, <1>9, <1>10, <2>1 DEF PoolFacts
  <2>4. Staged' = Extended \ finished
    <3>1. Staged' = {r \in Range(batch) : Live(r)'}
      BY <1>3, <1>4 DEF Staged
    <3> QED BY Zenon, <1>4, <1>12, <2>1, <3>1
  <2>5. Contract!ReleaseKvCache(finished)
    BY Zenon, <1>3 DEF ReleaseKvCache, Contract!ReleaseKvCache, CellsOf, Contract!CellsOf,
       SlotsOf, Contract!SlotsOf, TokensOf, Contract!TokensOf, None, Contract!None
  <2>6. (pc = "result") /\ (pc = "result")' = FALSE
    BY <1>3
  <2> HIDE DEF finished
  <2>7. Contract!Finish(finished)
    BY <2>1, <2>2, <2>4, <2>5, <2>6 DEF Contract!Finish
  <2> QED BY <2>3, <2>7
<1> QED BY <1>19, <1>20

-----------------------------------------------------------------------------
(* What the invariant implies. *)

\* The positions and the phase of the requests of a batch that has run.
LEMMA BatchIsCurrent ==
  LoopInv /\ PoolFacts => PositionsMatchPrefix /\ PhaseIsCurrent
<1> SUFFICES ASSUME LoopInv, PoolFacts, At("result"), NEW r \in Range(batch)
             PROVE  /\ req[r].offset = PrefixLen[r]
                    /\ StoredLen(r) = PrefixLen[r] + BlockSize
                    /\ req[r].phase \in Prefill <=> NewTokens(r) = 0
  BY DEF PositionsMatchPrefix, PhaseIsCurrent
<1>1. TypeOK /\ QueueFacts /\ pc = "result" /\ crash = "no"
  BY QueueForms DEF LoopInv, At
<1>2. batch = stagingQ /\ r \in Range(dllmQ) /\ Live(r)
  BY <1>1 DEF QueueFacts
<1>3. StagedInv(r)
  BY <1>1, <1>2 DEF LoopInv
<1>4. /\ Admitted(req[r], PrefixLen[r]) /\ req[r].ext = BlockSize
      /\ StoredLen(r) = PrefixLen[r] + req[r].ext
  BY Zenon, <1>1, <1>3 DEF StagedInv
<1>5. r \in Reqs /\ req[r] \in ReqType /\ PrefixLen[r] \in Nat
  <2>1. r \in Reqs
    BY <1>1, QueueMembers DEF TypeOK
  <2> QED BY <1>1, <2>1, Lengths DEF TypeOK
<1>6. req[r].offset = PrefixLen[r]
  BY <1>4 DEF Admitted, AtBlock
<1>7. req[r].phase \in Prefill <=> NewTokens(r) = 0
  BY <1>4, <1>5, BlockTokens
<1> QED BY <1>4, <1>6, <1>7

\* Below the limit of new tokens a row with at most one block more than the tokens known
\* is beyond the limit by less than a block.
LEMMA BelowLimit ==
  ASSUME NEW p \in Nat, NEW o \in Nat, NEW m \in Nat, NEW b \in Nat, NEW l \in Nat,
         o < m, l <= p + o
  PROVE  l < p + m + b /\ l + b < p + m + b
OBVIOUS

\* The number of output tokens at which a request goes on no longer: check_finished looks
\* when there are some, so it is at least one.
Limit(q) == Max({q.maxNew, 1})

LEMMA LimitBounds ==
  ASSUME NEW q \in ReqType
  PROVE  /\ Limit(q) \in Nat
         /\ q.out = 0 \/ q.out < q.maxNew => q.out < Limit(q)
<1>1. q.maxNew \in Nat /\ q.out \in Nat
  BY DEF ReqType
<1>2. q.maxNew \in Int /\ 1 \in Int
  BY <1>1
<1>3. Limit(q) = IF q.maxNew <= 1 THEN 1 ELSE q.maxNew
  BY Zenon, <1>2, MinMax DEF Limit
<1> QED BY <1>1, <1>3

\* What the row of a request holds, between two iterations and at any time.
LEMMA RowsHoldKnownTokens ==
  ASSUME LoopInv, PoolFacts, NEW r \in Reqs, Live(r)
  PROVE  /\ pc = "recv" /\ row[r] # None => InStep(req[r], StoredLen(r))
         /\ req[r].out < Limit(req[r])
         /\ pc # "forward" => StoredLen(r) < req[r].prompt + Limit(req[r]) + BlockSize
<1>1. TypeOK /\ QueueFacts /\ RequestInv(r)
  BY QueueForms DEF LoopInv
<1>2. /\ req[r].prompt \in Nat /\ req[r].out \in Nat /\ Limit(req[r]) \in Nat
      /\ BlockSize \in Nat \ {0} /\ PrefixLen[r] \in Nat /\ StoredLen(r) \in Nat
  <2>1. req[r] \in ReqType
    BY Zenon, <1>1 DEF TypeOK
  <2>2. PrefixLen[r] \in Nat /\ StoredLen(r) \in Nat
    BY Lengths
  <2>3. Limit(req[r]) \in Nat
    BY <2>1, LimitBounds
  <2> QED BY <2>1, <2>2, <2>3, AdderAssumption DEF ReqType
<1>3. /\ req[r].out < Limit(req[r]) /\ PrefixLen[r] <= req[r].prompt + req[r].out
      /\ req[r].phase \notin Staging => row[r] = None
      /\ r \notin Range(stagingQ) /\ req[r].phase \in Staging => Parked(req[r], PrefixLen[r])
  <2>1. req[r] \in ReqType
    BY Zenon, <1>1 DEF TypeOK
  <2>2. req[r].out < Limit(req[r])
    BY Zenon, <1>1, <2>1, LimitBounds DEF RequestInv
  <2> QED BY Zenon, <1>1, <2>2 DEF RequestInv
<1>4. r \notin Extended \cup Staged => StoredLen(r) = PrefixLen[r]
  BY DEF PoolFacts, PrefixLen, StoredLen
<1>5. CASE pc = "recv" /\ r \in Range(stagingQ)
  <2>1. crash = "no"
    BY <1>1, <1>5 DEF QueueFacts
  <2>2. StagedInv(r)
    BY <1>5, <2>1 DEF LoopInv
  <2>3. InStep(req[r], StoredLen(r))
    BY Zenon, <1>5, <2>2 DEF StagedInv
  <2>4. StoredLen(r) <= req[r].prompt + req[r].out
    BY <2>3 DEF InStep
  <2>5. StoredLen(r) < req[r].prompt + Limit(req[r]) + BlockSize
    BY Zenon, <1>2, <1>3, <2>4, BelowLimit
  <2> QED BY Zenon, <1>3, <2>3, <2>5
<1>6. CASE pc = "recv" /\ r \notin Range(stagingQ)
  <2>1. StoredLen(r) = PrefixLen[r]
    BY <1>4, <1>6 DEF Extended, Staged
  <2>2. row[r] # None => InStep(req[r], StoredLen(r))
    BY <1>3, <1>6, <2>1 DEF Parked, AtBlock
  <2>3. StoredLen(r) < req[r].prompt + Limit(req[r]) + BlockSize
    BY Zenon, <1>2, <1>3, <2>1, BelowLimit
  <2> QED BY Zenon, <1>3, <2>2, <2>3
<1>7. CASE pc = "result" /\ r \in Range(stagingQ)
  <2>1. crash = "no"
    BY <1>1, <1>7 DEF QueueFacts
  <2>2. StagedInv(r)
    BY <1>7, <2>1 DEF LoopInv
  <2>3. StoredLen(r) = PrefixLen[r] + req[r].ext /\ req[r].ext = BlockSize
    BY Zenon, <1>7, <2>2 DEF StagedInv
  <2>4. PrefixLen[r] + BlockSize < req[r].prompt + Limit(req[r]) + BlockSize
    BY Zenon, <1>2, <1>3, BelowLimit
  <2>5. pc # "recv"
    BY <1>7
  <2> QED BY Zenon, <1>3, <2>3, <2>4, <2>5
<1>8. CASE pc \notin {"recv", "forward", "result"} \/ (pc = "result" /\ r \notin Range(stagingQ))
  <2>1. r \notin Extended /\ r \notin Staged /\ pc # "recv"
    BY <1>1, <1>8 DEF Extended, Staged, QueueFacts
  <2>2. StoredLen(r) = PrefixLen[r]
    BY <1>4, <2>1
  <2>3. StoredLen(r) < req[r].prompt + Limit(req[r]) + BlockSize
    BY Zenon, <1>2, <1>3, <2>2, BelowLimit
  <2> QED BY Zenon, <1>3, <2>1, <2>3
<1>9. CASE pc = "forward"
  BY <1>3, <1>9
<1> QED BY <1>5, <1>6, <1>7, <1>8, <1>9

=============================================================================

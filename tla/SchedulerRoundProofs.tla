------------------------ MODULE SchedulerRoundProofs ------------------------
(***************************************************************************)
(* What a round of the scheduler computes, for every queue and every       *)
(* budget: the batch that the two loops of get_new_batch_dllm build, the   *)
(* requests they leave, and the KV cells the batch is given; and that the  *)
(* round keeps the invariant of the event loop.  The definitions recurse   *)
(* over the queue; each is shown to satisfy its equation, and what it      *)
(* computes follows by induction over the length of the queue.             *)
(***************************************************************************)
EXTENDS SchedulerStepProofs

-----------------------------------------------------------------------------
(* The budget. *)

AdderFields == {"avail", "offTotal", "offCur", "remInput", "remDllm", "canRun",
                "states", "req", "prefixLen"}

\* What the loops keep of an adder.
IsAdder(a) ==
  /\ DOMAIN a = AdderFields
  /\ a.avail \in Int /\ a.offTotal \in Int /\ a.offCur \in Int
  /\ a.remInput \in Int /\ a.remDllm \in Int
  /\ a.canRun \in Seq(Reqs)
  /\ a.req \in [Reqs -> ReqType]
  /\ a.prefixLen \in [Reqs -> Nat]

\* The request object after an admission with e tokens behind a prefix of len.
ChargedReq(q, len, e) == [q EXCEPT !.ext = e, !.fill = len + e]

\* A charged request object is one.
LEMMA ChargedReqType ==
  ASSUME NEW q \in ReqType, NEW len \in Nat, NEW e \in Nat
  PROVE  ChargedReq(q, len, e) \in ReqType
<1>1. len + e \in Nat
  OBVIOUS
<1> QED BY Zenon, <1>1 DEF ChargedReq, ReqType

\* b is a with request r admitted: it was given e tokens behind a prefix of len.
Charges(a, b, r, len, e) ==
  /\ b.canRun = Append(a.canRun, r)
  /\ b.req = [a.req EXCEPT ![r] = ChargedReq(a.req[r], len, e)]
  /\ b.prefixLen = a.prefixLen
  /\ b.avail = a.avail
  /\ b.remDllm = a.remDllm - e
  /\ b.offTotal >= a.offTotal /\ b.offTotal <= a.offTotal + e + ClipMaxNew + PageSize

\* b is a with, at most, another estimate of what the batch will need.
Rejects(a, b) ==
  /\ b.canRun = a.canRun /\ b.req = a.req /\ b.prefixLen = a.prefixLen
  /\ b.avail = a.avail /\ b.remDllm = a.remDllm /\ b.offTotal = a.offTotal

\* Charge appends the request, sets its block and takes the tokens off the budget.
LEMMA ChargeEffect ==
  ASSUME NEW a, IsAdder(a), NEW r \in Reqs, NEW len \in Nat, NEW e \in Nat,
         NEW new \in Nat, new <= ClipMaxNew
  PROVE  /\ IsAdder(Charge(a, r, len, e, new))
         /\ Charges(a, Charge(a, r, len, e, new), r, len, e)
<1> DEFINE b == Charge(a, r, len, e, new)
<1>0. /\ DOMAIN b = AdderFields
      /\ b.canRun = Append(a.canRun, r)
      /\ b.prefixLen = a.prefixLen
  BY DEF Charge, IsAdder, AdderFields
<1>1. /\ b.avail = a.avail
      /\ b.offTotal = a.offTotal + e + new + PageSize
      /\ b.offCur = a.offCur + e + PageSize
      /\ b.remDllm = a.remDllm - e
      /\ b.remInput = a.remInput - e
  BY DEF Charge, IsAdder, AdderFields
<1>2. b.req = [a.req EXCEPT ![r].ext = e, ![r].fill = len + e]
  BY DEF Charge, IsAdder, AdderFields
<1>3. b.req = [a.req EXCEPT ![r] = ChargedReq(a.req[r], len, e)]
  BY Zenon, <1>2 DEF ChargedReq, IsAdder, ReqType
<1>4. a.req[r] \in ReqType /\ a.req \in [Reqs -> ReqType]
  BY DEF IsAdder
<1>5. ChargedReq(a.req[r], len, e) \in ReqType
  BY <1>4, ChargedReqType
<1>6. b.req \in [Reqs -> ReqType]
  BY <1>3, <1>4, <1>5
<1>7. Append(a.canRun, r) \in Seq(Reqs)
  BY DEF IsAdder
<1>8. /\ b.avail \in Int /\ b.offTotal \in Int /\ b.offCur \in Int
      /\ b.remInput \in Int /\ b.remDllm \in Int
  <2>1. /\ a.avail \in Int /\ a.offTotal \in Int /\ a.offCur \in Int
        /\ a.remInput \in Int /\ a.remDllm \in Int /\ PageSize \in Int
    BY DEF IsAdder, PageSize
  <2> HIDE DEF b
  <2> QED BY <1>1, <2>1
<1> HIDE DEF b
<1>9. IsAdder(b)
  BY Zenon, <1>0, <1>1, <1>6, <1>7, <1>8 DEF IsAdder
<1>10. b.offTotal >= a.offTotal /\ b.offTotal <= a.offTotal + e + ClipMaxNew + PageSize
  <2>1. b.offTotal = a.offTotal + e + new + PageSize /\ a.offTotal \in Int
    BY <1>1 DEF IsAdder
  <2> QED BY <2>1, AdderAssumption DEF PageSize
<1>11. Charges(a, b, r, len, e)
  BY Zenon, <1>0, <1>1, <1>3, <1>10 DEF Charges
<1> QED BY <1>9, <1>11 DEF b

\* The tokens that are left for a staged request are an integer.
LEMMA RemainType ==
  ASSUME NEW a, IsAdder(a)
  PROVE  /\ GetDllmRemainTokens(a) \in Int
         /\ GetDllmRemainTokens(a) <= a.remDllm
<1>1. a.remDllm \in Int /\ RemTotalTokens(a) \in Int /\ BlockSize \in Int
  BY AdderAssumption DEF IsAdder, RemTotalTokens
<1> DEFINE min == Min({a.remDllm, BlockSize, RemTotalTokens(a)})
<1>2. min \in {a.remDllm, BlockSize, RemTotalTokens(a)} /\ min <= a.remDllm
  BY Zenon, <1>1, MinMax
<1>3. GetDllmRemainTokens(a) = IF min <= 0 THEN a.remDllm ELSE min
  BY DEF GetDllmRemainTokens
<1> HIDE DEF min
<1> QED BY <1>1, <1>2, <1>3

\* add_dllm_staging_req admits the request with at least one token, or ends the loop.
LEMMA StagingEffect ==
  ASSUME NEW a, IsAdder(a), NEW r \in Reqs, a.req[r].ext > 0
  PROVE  LET s == AddDllmStagingReq(a, r)
             rem == GetDllmRemainTokens(a)
             e == Min({a.req[r].ext, rem})
         IN  \/ rem <= 0 /\ s = [adder |-> a, res |-> "NO_TOKEN"]
             \/ /\ rem > 0 /\ e \in Nat \ {0}
                /\ IsAdder(s.adder) /\ Charges(a, s.adder, r, a.prefixLen[r], e)
                /\ s.res = IF GetDllmRemainTokens(s.adder) <= 0 THEN "NO_TOKEN" ELSE "CONTINUE"
<1> DEFINE rem == GetDllmRemainTokens(a)
           q == a.req[r]
           e == Min({q.ext, rem})
           new == IF q.ext > rem THEN 0 ELSE Min({q.maxNew, ClipMaxNew})
           b == Charge(a, r, a.prefixLen[r], e, new)
           s == AddDllmStagingReq(a, r)
<1>1. q \in ReqType /\ a.prefixLen[r] \in Nat
  BY DEF IsAdder
<1>2. q.ext \in Nat \ {0} /\ q.maxNew \in Nat /\ ClipMaxNew \in Nat /\ rem \in Int
  BY <1>1, RemainType, AdderAssumption DEF ReqType
<1>3. CASE rem <= 0
  BY <1>3 DEF AddDllmStagingReq
<1>4. CASE rem > 0
  <2> HIDE DEF q, rem
  <2>1. e \in Nat \ {0} /\ new \in Nat /\ new <= ClipMaxNew
    BY <1>2, <1>4, MinMax
  <2> HIDE DEF e, new
  <2>2. IsAdder(b) /\ Charges(a, b, r, a.prefixLen[r], e)
    BY <1>1, <2>1, ChargeEffect
  <2>3. s = [adder |-> b, res |-> IF GetDllmRemainTokens(b) <= 0 THEN "NO_TOKEN" ELSE "CONTINUE"]
    BY <1>2, <1>4 DEF AddDllmStagingReq, q, rem, e, new
  <2> HIDE DEF b, s
  <2>4. s.adder = b /\ s.res = IF GetDllmRemainTokens(b) <= 0 THEN "NO_TOKEN" ELSE "CONTINUE"
    BY <2>3
  <2>5. /\ rem > 0 /\ e \in Nat \ {0}
        /\ IsAdder(s.adder) /\ Charges(a, s.adder, r, a.prefixLen[r], e)
        /\ s.res = IF GetDllmRemainTokens(s.adder) <= 0 THEN "NO_TOKEN" ELSE "CONTINUE"
    BY <1>4, <2>1, <2>2, <2>4
  <2> QED BY <2>5 DEF s, e, q, rem
<1> QED BY <1>2, <1>3, <1>4

\* Another estimate leaves the rest of the adder alone.
LEMMA StatesEffect ==
  ASSUME NEW a, IsAdder(a), NEW st
  PROVE  LET b == [a EXCEPT !.states = st]
         IN  IsAdder(b) /\ Rejects(a, b) /\ b.offCur = a.offCur
<1> DEFINE b == [a EXCEPT !.states = st]
<1>1. /\ DOMAIN b = DOMAIN a
      /\ b.canRun = a.canRun /\ b.req = a.req /\ b.prefixLen = a.prefixLen
      /\ b.avail = a.avail /\ b.remDllm = a.remDllm /\ b.offTotal = a.offTotal
      /\ b.offCur = a.offCur /\ b.remInput = a.remInput
  BY DEF IsAdder, AdderFields
<1> HIDE DEF b
<1>2. IsAdder(b) /\ Rejects(a, b) /\ b.offCur = a.offCur
  BY Zenon, <1>1 DEF IsAdder, Rejects
<1> QED BY <1>2 DEF b

\* _add_dllm_req, after a new estimate: one block, or what the batch has left of it.
LEMMA AddDllmEffect ==
  ASSUME NEW a, IsAdder(a), NEW b, IsAdder(b), Rejects(a, b), NEW r \in Reqs,
         NEW len \in Nat, a.remDllm > 0
  PROVE  LET e == Min({a.remDllm, BlockSize})
         IN  /\ e \in Nat \ {0} /\ e <= BlockSize
             /\ IsAdder(AddDllmReq(b, r, len))
             /\ Charges(a, AddDllmReq(b, r, len), r, len, e)
<1> DEFINE e == Min({a.remDllm, BlockSize})
           c == Charge(b, r, len, e, 0)
<1>1. a.remDllm \in Int /\ BlockSize \in Nat \ {0} /\ ClipMaxNew \in Nat
  BY AdderAssumption DEF IsAdder
<1>2. e \in Nat \ {0} /\ e <= BlockSize
  BY <1>1, MinMax
<1>3. AddDllmReq(b, r, len) = c
  BY DEF AddDllmReq, Rejects
<1> HIDE DEF e
<1>4. IsAdder(c) /\ Charges(b, c, r, len, e)
  BY <1>1, <1>2, ChargeEffect
<1>5. Charges(a, c, r, len, e)
  BY Zenon, <1>4 DEF Charges, Rejects
<1> QED BY <1>2, <1>3, <1>4, <1>5 DEF e

\* add_one_req admits the request with at most a block, or leaves it.
LEMMA OneReqEffect ==
  ASSUME NEW a, IsAdder(a), NEW r \in Reqs, a.prefixLen[r] = 0
  PROVE  LET s == AddOneReq(a, r)
             q == a.req[r]
             e == Min({a.remDllm, BlockSize})
         IN  /\ IsAdder(s.adder)
             /\ \/ Rejects(a, s.adder) /\ s.res # "CONTINUE"
                \/ /\ a.remDllm > 0 /\ e \in Nat \ {0} /\ e <= BlockSize
                   /\ Charges(a, s.adder, r, 0, e)
<1> DEFINE s == AddOneReq(a, r)
           q == a.req[r]
           e == Min({a.remDllm, BlockSize})
           counted == [a EXCEPT !.states = StatesWith(a, r)]
           plain == AddDllmReq(a, r, 0)
           played == AddDllmReq(counted, r, 0)
           Done == /\ IsAdder(s.adder)
                   /\ \/ Rejects(a, s.adder) /\ s.res # "CONTINUE"
                      \/ /\ a.remDllm > 0 /\ e \in Nat \ {0} /\ e <= BlockSize
                         /\ Charges(a, s.adder, r, 0, e)
<1>1. Rejects(a, a) /\ IsAdder(counted) /\ Rejects(a, counted)
  BY StatesEffect DEF Rejects
<1>2. a.remDllm \in Int
  BY DEF IsAdder
<1>3. ASSUME a.remDllm > 0
      PROVE  /\ e \in Nat \ {0} /\ e <= BlockSize
             /\ IsAdder(plain) /\ Charges(a, plain, r, 0, e)
             /\ IsAdder(played) /\ Charges(a, played, r, 0, e)
  BY <1>1, <1>3, AddDllmEffect
<1>4. \/ s = [adder |-> a, res |-> "NO_TOKEN"]
      \/ s = [adder |-> a, res |-> "OTHER"]
      \/ s = [adder |-> counted, res |-> "NO_TOKEN"]
      \/ s = [adder |-> counted, res |-> "OTHER"]
      \/ a.remDllm > 0 /\ s = [adder |-> plain, res |-> BudgetState(plain)]
      \/ a.remDllm > 0 /\ s = [adder |-> played, res |-> BudgetState(played)]
  BY <1>2 DEF AddOneReq, AddOneReqIgnoreEos
<1> SUFFICES Done
  OBVIOUS
<1> HIDE DEF s, e, counted, plain, played
<1>5. CASE s = [adder |-> a, res |-> "NO_TOKEN"] \/ s = [adder |-> a, res |-> "OTHER"]
  BY <1>1, <1>5
<1>6. CASE s = [adder |-> counted, res |-> "NO_TOKEN"] \/ s = [adder |-> counted, res |-> "OTHER"]
  BY <1>1, <1>6
<1>7. CASE a.remDllm > 0 /\ s = [adder |-> plain, res |-> BudgetState(plain)]
  BY <1>3, <1>7
<1>8. CASE a.remDllm > 0 /\ s = [adder |-> played, res |-> BudgetState(played)]
  BY <1>3, <1>8
<1> QED BY <1>4, <1>5, <1>6, <1>7, <1>8

-----------------------------------------------------------------------------
(* The queue of a round. *)

\* A queue that is split after its first k members.
LEMMA SplitQueue ==
  ASSUME NEW A, NEW s \in Seq(A), IsInjective(s), NEW k \in 0 .. Len(s)
  PROVE  LET f == SubSeq(s, 1, k)
             g == SubSeq(s, k + 1, Len(s))
         IN  /\ f \in Seq(A) /\ g \in Seq(A) /\ Len(f) = k
             /\ IsInjective(f) /\ IsInjective(g)
             /\ Range(f) \cup Range(g) = Range(s)
             /\ Range(f) \cap Range(g) = {}
<1> DEFINE n == Len(s)
           f == SubSeq(s, 1, k)
           g == SubSeq(s, k + 1, n)
<1>1. n \in Nat /\ k \in Nat /\ k <= n /\ DOMAIN s = 1 .. n
  OBVIOUS
<1>2. /\ f \in Seq(A) /\ Len(f) = k /\ DOMAIN f = 1 .. k
      /\ \A i \in 1 .. k : f[i] = s[i]
  <2>1. \A i \in 1 .. k : s[i] \in A
    BY <1>1
  <2> QED BY <1>1, <2>1
<1>3. /\ g \in Seq(A) /\ Len(g) = n - k /\ DOMAIN g = 1 .. n - k
      /\ \A i \in 1 .. n - k : g[i] = s[k + i]
  <2>1. \A i \in k + 1 .. n : s[i] \in A
    BY <1>1
  <2>2. Len(g) = IF k + 1 <= n THEN n - (k + 1) + 1 ELSE 0
    BY <1>1
  <2>3. g \in Seq(A)
    BY <1>1, <2>1
  <2>4. \A i \in 1 .. n - (k + 1) + 1 : g[i] = s[i + (k + 1) - 1]
    BY <1>1
  <2> HIDE DEF g, n
  <2>5. Len(g) = n - k
    BY <1>1, <2>2
  <2>6. n - (k + 1) + 1 = n - k /\ \A i \in 1 .. n - k : i + (k + 1) - 1 = k + i
    BY <1>1
  <2>7. \A i \in 1 .. n - k : g[i] = s[k + i]
    BY Zenon, <2>4, <2>6
  <2> QED BY <2>3, <2>5, <2>7
<1> HIDE DEF f, g, n
<1>4. IsInjective(f)
  <2>1. \A i \in 1 .. k : i \in DOMAIN s
    BY <1>1
  <2> QED BY <1>2, <2>1 DEF IsInjective
<1>5. IsInjective(g)
  <2> SUFFICES ASSUME NEW i \in 1 .. n - k, NEW j \in 1 .. n - k, g[i] = g[j] PROVE i = j
    BY <1>3 DEF IsInjective
  <2>1. k + i \in DOMAIN s /\ k + j \in DOMAIN s
    BY <1>1
  <2>2. k + i = k + j
    BY <1>3, <2>1 DEF IsInjective
  <2> QED BY <1>1, <2>2
<1>6. \A x \in Range(f) \cup Range(g) : x \in Range(s)
  <2>1. \A i \in 1 .. k : i \in DOMAIN s
    BY <1>1
  <2>2. \A i \in 1 .. n - k : k + i \in DOMAIN s
    BY <1>1
  <2> QED BY <1>2, <1>3, <2>1, <2>2 DEF Range
<1>7. ASSUME NEW i \in 1 .. n PROVE s[i] \in Range(f) \cup Range(g)
  <2>1. CASE i <= k
    <3>1. i \in 1 .. k
      BY <1>1, <2>1
    <3> QED BY <1>2, <3>1 DEF Range
  <2>2. CASE i > k
    <3>1. i - k \in 1 .. n - k /\ k + (i - k) = i
      BY <1>1, <2>2
    <3>2. g[i - k] = s[i]
      BY <1>3, <3>1
    <3> QED BY <1>3, <3>1, <3>2 DEF Range
  <2> QED BY <1>1, <2>1, <2>2
<1>8. \A x \in Range(s) : x \in Range(f) \cup Range(g)
  <2>1. \A x \in Range(s) : \E i \in 1 .. n : x = s[i]
    BY <1>1 DEF Range
  <2> QED BY <1>7, <2>1
<1>9. ASSUME NEW x \in Range(f), x \in Range(g) PROVE FALSE
  <2>1. PICK i \in 1 .. k : x = s[i]
    BY <1>2 DEF Range
  <2>2. PICK j \in 1 .. n - k : x = s[k + j]
    BY <1>3, <1>9 DEF Range
  <2>3. i \in DOMAIN s /\ k + j \in DOMAIN s
    BY <1>1
  <2>4. i = k + j
    BY Zenon, <2>1, <2>2, <2>3 DEF IsInjective
  <2> QED BY <1>1, <2>4
<1>10. Range(f) \cup Range(g) = Range(s) /\ Range(f) \cap Range(g) = {}
  BY <1>6, <1>8, <1>9
<1> QED BY <1>2, <1>3, <1>4, <1>5, <1>10 DEF f, g, n

-----------------------------------------------------------------------------
(* The KV cells of a batch. *)

\* CellsBefore satisfies the equation it is defined by.
LEMMA CellsBeforeEquation ==
  ASSUME NEW A, NEW list \in Seq(A), NEW ext
  PROVE  LET sum == CellsBefore(list, ext)
         IN  /\ sum[0] = 0
             /\ \A n \in 1 .. Len(list) : sum[n] = sum[n - 1] + ext[list[n]]
<1> DEFINE N == Len(list)
           Def(f, n) == IF n = 0 THEN 0 ELSE f[n - 1] + ext[list[n]]
           sum == CHOOSE f : f = [n \in 0 .. N |-> Def(f, n)]
           Solved == {m \in Nat : \E g : g = [n \in 0 .. m |-> Def(g, n)]}
<1>1. N \in Nat
  OBVIOUS
<1>2. CellsBefore(list, ext) = sum
  BY DEF CellsBefore
<1>3. \A f, g : Def(f, 0) = Def(g, 0)
  OBVIOUS
<1>4. \A f, g : \A n \in Nat \ {0} : f[n - 1] = g[n - 1] => Def(f, n) = Def(g, n)
  OBVIOUS
<1>5. \A f : Def(f, 0) = 0
  OBVIOUS
<1>6. \A f : \A n \in 1 .. N : Def(f, n) = f[n - 1] + ext[list[n]]
  OBVIOUS
<1> HIDE DEF N, Def
<1>7. 0 \in Solved
  <2> DEFINE g == [n \in 0 .. 0 |-> Def(0, n)]
  <2>1. g = [n \in 0 .. 0 |-> Def(g, n)]
    BY <1>3
  <2> QED BY <2>1
<1>8. ASSUME NEW m \in Nat, m \in Solved PROVE m + 1 \in Solved
  <2>1. PICK g : g = [n \in 0 .. m |-> Def(g, n)]
    BY <1>8
  <2> DEFINE h == [n \in 0 .. m + 1 |-> Def(g, n)]
  <2>2. \A n \in 0 .. m : h[n] = g[n]
    BY <2>1
  <2>3. ASSUME NEW n \in 0 .. m + 1 PROVE h[n] = Def(h, n)
    <3>1. h[n] = Def(g, n)
      OBVIOUS
    <3>2. CASE n = 0
      BY <1>3, <3>1, <3>2
    <3>3. CASE n # 0
      <4>1. n - 1 \in 0 .. m
        BY <3>3
      <4>2. h[n - 1] = g[n - 1]
        BY Zenon, <2>2, <4>1
      <4>3. Def(h, n) = Def(g, n)
        BY <1>4, <3>3, <4>2
      <4> QED BY <3>1, <4>3
    <3> QED BY <3>2, <3>3
  <2> HIDE DEF h
  <2>4. h = [n \in 0 .. m + 1 |-> Def(h, n)]
    BY <2>3 DEF h
  <2> QED BY <2>4
<1>9. N \in Solved
  <2> HIDE DEF Solved
  <2> QED BY <1>1, <1>7, <1>8, SetInduction
<1>10. \E g : g = [n \in 0 .. N |-> Def(g, n)]
  BY <1>1, <1>9
<1>11. sum = [n \in 0 .. N |-> Def(sum, n)]
  BY Zenon, <1>10
<1> HIDE DEF sum
<1>12. sum[0] = 0
  BY <1>1, <1>5, <1>11
<1>13. \A n \in 1 .. N : sum[n] = Def(sum, n)
  BY <1>1, <1>11
<1>14. \A n \in 1 .. N : sum[n] = sum[n - 1] + ext[list[n]]
  BY <1>6, <1>13
<1> QED BY <1>2, <1>12, <1>14 DEF N

\* The number of cells before a request grows along the batch.
LEMMA CellsBeforeGrows ==
  ASSUME NEW A, NEW list \in Seq(A), NEW ext \in [Range(list) -> Nat]
  PROVE  LET sum == CellsBefore(list, ext)
         IN  \A n \in 0 .. Len(list) :
               sum[n] \in Nat /\ \A m \in 0 .. n : sum[m] \in Nat /\ sum[m] <= sum[n]
<1> DEFINE N == Len(list)
           sum == CellsBefore(list, ext)
           Good(n) == sum[n] \in Nat /\ \A m \in 0 .. n : sum[m] \in Nat /\ sum[m] <= sum[n]
           GoodSet == {n \in Nat : n <= N => Good(n)}
<1>1. sum[0] = 0 /\ \A n \in 1 .. N : sum[n] = sum[n - 1] + ext[list[n]]
  BY CellsBeforeEquation
<1>2. N \in Nat /\ DOMAIN list = 1 .. N
  OBVIOUS
<1>3. \A n \in 1 .. N : ext[list[n]] \in Nat
  BY <1>2 DEF Range
<1> HIDE DEF sum, N
<1>4. 0 \in GoodSet
  BY <1>1
<1>5. ASSUME NEW n \in Nat, n \in GoodSet PROVE n + 1 \in GoodSet
  <2> SUFFICES ASSUME n + 1 <= N PROVE Good(n + 1)
    OBVIOUS
  <2>1. Good(n)
    BY <1>2, <1>5
  <2>2. n + 1 \in 1 .. N
    BY <1>2
  <2>3. sum[n + 1] = sum[n] + ext[list[n + 1]] /\ ext[list[n + 1]] \in Nat
    BY <1>1, <1>3, <2>2
  <2>4. sum[n + 1] \in Nat /\ sum[n] <= sum[n + 1]
    BY <2>1, <2>3
  <2>5. ASSUME NEW m \in 0 .. n + 1 PROVE sum[m] \in Nat /\ sum[m] <= sum[n + 1]
    <3>1. CASE m = n + 1
      BY <2>4, <3>1
    <3>2. CASE m \in 0 .. n
      BY <2>1, <2>4, <3>2
    <3> QED BY <3>1, <3>2
  <2> QED BY <2>4, <2>5
<1>6. \A n \in 0 .. N : Good(n)
  <2>1. Nat \subseteq GoodSet
    <3> HIDE DEF GoodSet
    <3> QED BY <1>4, <1>5, SetInduction
  <2> QED BY <1>2, <2>1
<1> QED BY <1>6 DEF sum, N

\* The members of F whose ranks in F are from lo to lo + n - 1.
Ranked(F, lo, n) ==
  {c \in F : LET rank == Cardinality({d \in F : d < c}) IN lo <= rank /\ rank < lo + n}

\* The ranks of the members of a finite set of naturals are the numbers below its
\* size, so the members with ranks in an interval are as many as the interval.
LEMMA RanksCount ==
  ASSUME NEW F \in SUBSET Nat, IsFiniteSet(F),
         NEW lo \in Nat, NEW n \in Nat, lo + n <= Cardinality(F)
  PROVE  /\ \A c \in F : Cardinality({d \in F : d < c}) \in Nat
         /\ IsFiniteSet(Ranked(F, lo, n)) /\ Cardinality(Ranked(F, lo, n)) = n
<1> DEFINE Below(c) == {d \in F : d < c}
           Rank(c) == Cardinality(Below(c))
           X == {c \in F : lo <= Rank(c) /\ Rank(c) < lo + n}
           N == Cardinality(F)
           I == 0 .. N - 1
           f == [c \in F |-> Rank(c)]
<1>1. N \in Nat
  BY FS_CardinalityType
<1>2. ASSUME NEW c \in F PROVE Rank(c) \in Nat /\ Rank(c) < N
  <2>1. Below(c) \in SUBSET F /\ Below(c) # F
    <3>1. c \notin Below(c)
      OBVIOUS
    <3> QED BY <3>1
  <2>2. IsFiniteSet(Below(c)) /\ Rank(c) <= N /\ Rank(c) # N
    BY <2>1, FS_Subset
  <2>3. Rank(c) \in Nat
    BY <2>2, FS_CardinalityType
  <2> QED BY <1>1, <2>2, <2>3
<1>3. ASSUME NEW c \in F, NEW d \in F, c < d PROVE Rank(c) # Rank(d)
  <2>1. Below(c) \in SUBSET Below(d) /\ Below(c) # Below(d)
    <3>1. c \in Below(d) /\ c \notin Below(c)
      BY <1>3
    <3>2. \A e \in Below(c) : e \in Below(d)
      BY <1>3
    <3> QED BY Zenon, <3>1, <3>2
  <2>2. Below(d) \in SUBSET F
    OBVIOUS
  <2>3. IsFiniteSet(Below(d))
    BY <2>2, FS_Subset
  <2> HIDE DEF Below
  <2> QED BY <2>1, <2>3, FS_Subset
<1> HIDE DEF Rank, N
<1>4. \A c, d \in F : Rank(c) = Rank(d) => c = d
  <2> SUFFICES ASSUME NEW c \in F, NEW d \in F, Rank(c) = Rank(d), c # d PROVE FALSE
    OBVIOUS
  <2>1. c < d \/ d < c
    OBVIOUS
  <2> QED BY <1>3, <2>1
<1>5. f \in [F -> I] /\ \A c \in F : f[c] = Rank(c)
  BY <1>1, <1>2
<1> HIDE DEF f
<1>6. f \in Injection(F, I)
  BY <1>4, <1>5 DEF Injection, IsInjective
<1>7. IsFiniteSet(I) /\ Cardinality(I) = N
  BY <1>1, FS_Interval
<1>8. f \in Surjection(F, I)
  BY <1>6, <1>7, FS_Injection DEF N
<1> DEFINE J == lo .. lo + n - 1
           g == [c \in X |-> Rank(c)]
<1>9. IsFiniteSet(J) /\ Cardinality(J) = n
  BY FS_Interval
<1>10. g \in Injection(X, J)
  <2>1. \A c \in X : c \in F /\ lo <= Rank(c) /\ Rank(c) < lo + n /\ Rank(c) \in Nat
    BY <1>2
  <2>2. \A c \in X : Rank(c) \in J
    BY <2>1
  <2>3. g \in [X -> J]
    BY <2>2, Zenon
  <2> QED BY <1>4, <2>3 DEF Injection, IsInjective
<1>11. ASSUME NEW k \in J PROVE \E c \in X : g[c] = k
  <2>1. k \in I /\ lo <= k /\ k < lo + n
    BY <1>1 DEF N
  <2>2. PICK c \in F : f[c] = k
    BY <1>8, <2>1 DEF Surjection
  <2>3. c \in X
    BY <1>5, <2>1, <2>2
  <2> QED BY <1>5, <2>2, <2>3
<1>12. g \in Surjection(X, J)
  BY <1>10, <1>11 DEF Surjection, Injection
<1> HIDE DEF X, J, g
<1>13. IsFiniteSet(X) /\ Cardinality(X) = Cardinality(J)
  BY <1>9, <1>10, <1>12, FS_Injection
<1> QED BY <1>2, <1>9, <1>13 DEF X, Rank, Ranked

\* The cells of a batch: every request gets as many as its extend length, and no
\* cell goes to two of them, as long as there are enough.
LEMMA CellsForBatch ==
  ASSUME NEW list \in Seq(Reqs), IsInjective(list), NEW ext \in [Range(list) -> Nat],
         freeCells \in SUBSET Cells,
         CellsBefore(list, ext)[Len(list)] <= Cardinality(freeCells)
  PROVE  LET cells == CellsFor(list, ext)
         IN  /\ cells \in [Range(list) -> SUBSET freeCells]
             /\ \A r \in Range(list) :
                  IsFiniteSet(cells[r]) /\ Cardinality(cells[r]) = ext[r]
             /\ \A r, q \in Range(list) : r # q => cells[r] \cap cells[q] = {}
<1> DEFINE N == Len(list)
           sum == CellsBefore(list, ext)
           Rank(c) == Cardinality({d \in freeCells : d < c})
           pos(r) == CHOOSE i \in DOMAIN list : list[i] = r
           Part(r) == {c \in freeCells : sum[pos(r) - 1] <= Rank(c) /\ Rank(c) < sum[pos(r) - 1] + ext[r]}
           cells == CellsFor(list, ext)
<1>1. N \in Nat /\ DOMAIN list = 1 .. N
  OBVIOUS
<1>2. ASSUME NEW r \in Range(list)
      PROVE  pos(r) \in 1 .. N /\ list[pos(r)] = r /\ pos(r) - 1 \in 0 .. N
  <2>1. \E i \in DOMAIN list : list[i] = r
    BY DEF Range
  <2>2. pos(r) \in DOMAIN list /\ list[pos(r)] = r
    BY <2>1
  <2> HIDE DEF pos
  <2> QED BY <1>1, <2>2
<1>3. /\ \A n \in 1 .. N : sum[n] = sum[n - 1] + ext[list[n]]
      /\ \A n \in 0 .. N : sum[n] \in Nat /\ \A m \in 0 .. n : sum[m] \in Nat /\ sum[m] <= sum[n]
  BY CellsBeforeEquation, CellsBeforeGrows
<1>4. IsFiniteSet(freeCells) /\ freeCells \in SUBSET Nat /\ Cardinality(freeCells) \in Nat
  <2>1. IsFiniteSet(freeCells) /\ freeCells \in SUBSET Nat
    BY Zenon, SchedulerAssumption, FS_Subset
  <2> QED BY <2>1, FS_CardinalityType
<1>5. cells = [r \in Range(list) |-> Part(r)]
  BY DEF CellsFor
<1> HIDE DEF N, sum, pos, cells
<1>6. ASSUME NEW r \in Range(list)
      PROVE  /\ sum[pos(r) - 1] \in Nat /\ ext[r] \in Nat
             /\ sum[pos(r)] = sum[pos(r) - 1] + ext[r]
             /\ sum[pos(r)] <= Cardinality(freeCells)
  <2>1. sum[pos(r)] = sum[pos(r) - 1] + ext[r]
    BY <1>2, <1>3
  <2>2. sum[pos(r)] <= sum[N] /\ sum[N] \in Nat /\ sum[pos(r)] \in Nat /\ sum[pos(r) - 1] \in Nat
    BY <1>1, <1>2, <1>3
  <2> QED BY <1>4, <2>1, <2>2 DEF N, sum
<1>7. ASSUME NEW r \in Range(list)
      PROVE  /\ \A c \in freeCells : Rank(c) \in Nat
             /\ IsFiniteSet(Part(r)) /\ Cardinality(Part(r)) = ext[r]
  <2>1. Part(r) = Ranked(freeCells, sum[pos(r) - 1], ext[r])
    BY DEF Ranked
  <2>2. sum[pos(r) - 1] + ext[r] <= Cardinality(freeCells)
    BY <1>6
  <2> HIDE DEF Part
  <2> QED BY <1>4, <1>6, <2>1, <2>2, RanksCount
<1> HIDE DEF Rank
<1>8. ASSUME NEW r \in Range(list), NEW q \in Range(list), pos(r) < pos(q), NEW c \in Part(r), c \in Part(q)
      PROVE  FALSE
  <2>1. pos(r) \in 0 .. pos(q) - 1 /\ pos(q) - 1 \in 0 .. N
    BY <1>1, <1>2, <1>8
  <2>2. sum[pos(r)] <= sum[pos(q) - 1]
    BY <1>3, <2>1
  <2>3. c \in freeCells /\ Rank(c) < sum[pos(r) - 1] + ext[r] /\ sum[pos(q) - 1] <= Rank(c)
    BY <1>8
  <2>4. Rank(c) < sum[pos(r)] /\ Rank(c) \in Nat
    BY Zenon, <1>6, <1>7, <2>3
  <2>5. sum[pos(r)] \in Nat /\ sum[pos(q) - 1] \in Nat
    BY <1>6
  <2> QED BY <2>2, <2>3, <2>4, <2>5
<1>9. ASSUME NEW r \in Range(list), NEW q \in Range(list), r # q
      PROVE  Part(r) \cap Part(q) = {}
  <2>1. pos(r) # pos(q)
    BY <1>2, <1>9
  <2>2. pos(r) < pos(q) \/ pos(q) < pos(r)
    BY <1>1, <1>2, <2>1
  <2> HIDE DEF Part
  <2> QED BY <1>8, <2>2
<1>10. \A r \in Range(list) : Part(r) \in SUBSET freeCells
  OBVIOUS
<1> HIDE DEF Part
<1> QED BY <1>5, <1>7, <1>9, <1>10 DEF cells

-----------------------------------------------------------------------------
(* The staged requests of a round. *)

\* The loop over the staged requests satisfies the equation it is defined by.
LEMMA StagingEquation ==
  ASSUME NEW a, NEW reqs \in Seq(Reqs)
  PROVE  \E after :
           /\ ProcessStaging(a, reqs) = after[Len(reqs)]
           /\ after[0] = [adder |-> a, res |-> "CONTINUE"]
           /\ \A n \in 1 .. Len(reqs) : after[n] = StagingStep(after[n - 1], reqs[n])
<1> DEFINE N == Len(reqs)
           Def(f, n) == IF n = 0 THEN [adder |-> a, res |-> "CONTINUE"] ELSE StagingStep(f[n - 1], reqs[n])
           after == CHOOSE f : f = [n \in 0 .. N |-> Def(f, n)]
           Solved == {m \in Nat : \E g : g = [n \in 0 .. m |-> Def(g, n)]}
<1>1. N \in Nat
  OBVIOUS
<1>2. ProcessStaging(a, reqs) = after[N]
  BY DEF ProcessStaging
<1>3. \A f, g : Def(f, 0) = Def(g, 0)
  OBVIOUS
<1>4. \A f, g : \A n \in Nat \ {0} : f[n - 1] = g[n - 1] => Def(f, n) = Def(g, n)
  OBVIOUS
<1>5. \A f : Def(f, 0) = [adder |-> a, res |-> "CONTINUE"]
  OBVIOUS
<1>6. \A f : \A n \in 1 .. N : Def(f, n) = StagingStep(f[n - 1], reqs[n])
  OBVIOUS
<1> HIDE DEF N, Def
<1>7. 0 \in Solved
  <2> DEFINE g == [n \in 0 .. 0 |-> Def(0, n)]
  <2>1. g = [n \in 0 .. 0 |-> Def(g, n)]
    BY <1>3
  <2> QED BY <2>1
<1>8. ASSUME NEW m \in Nat, m \in Solved PROVE m + 1 \in Solved
  <2>1. PICK g : g = [n \in 0 .. m |-> Def(g, n)]
    BY <1>8
  <2> DEFINE h == [n \in 0 .. m + 1 |-> Def(g, n)]
  <2>2. \A n \in 0 .. m : h[n] = g[n]
    BY <2>1
  <2>3. ASSUME NEW n \in 0 .. m + 1 PROVE h[n] = Def(h, n)
    <3>1. h[n] = Def(g, n)
      OBVIOUS
    <3>2. CASE n = 0
      BY <1>3, <3>1, <3>2
    <3>3. CASE n # 0
      <4>1. n - 1 \in 0 .. m
        BY <3>3
      <4>2. h[n - 1] = g[n - 1]
        BY Zenon, <2>2, <4>1
      <4>3. Def(h, n) = Def(g, n)
        BY <1>4, <3>3, <4>2
      <4> QED BY <3>1, <4>3
    <3> QED BY <3>2, <3>3
  <2> HIDE DEF h
  <2>4. h = [n \in 0 .. m + 1 |-> Def(h, n)]
    BY <2>3 DEF h
  <2> QED BY <2>4
<1>9. N \in Solved
  <2> HIDE DEF Solved
  <2> QED BY <1>1, <1>7, <1>8, SetInduction
<1>10. \E g : g = [n \in 0 .. N |-> Def(g, n)]
  BY <1>1, <1>9
<1>11. after = [n \in 0 .. N |-> Def(after, n)]
  BY Zenon, <1>10
<1> HIDE DEF after
<1>12. after[0] = [adder |-> a, res |-> "CONTINUE"]
  BY <1>1, <1>5, <1>11
<1>13. \A n \in 1 .. N : after[n] = Def(after, n)
  BY <1>1, <1>11
<1>14. \A n \in 1 .. N : after[n] = StagingStep(after[n - 1], reqs[n])
  BY <1>6, <1>13
<1> QED BY <1>2, <1>12, <1>14 DEF N

\* b is a with some of the staged requests in S admitted, each with a token or more
\* behind its prefix, and all others as they were.
StagesSome(a, b, S) ==
  /\ IsAdder(b)
  /\ b.prefixLen = a.prefixLen
  /\ IsInjective(b.canRun)
  /\ Range(b.canRun) \subseteq S
  /\ \A r \in Reqs : r \notin Range(b.canRun) => b.req[r] = a.req[r]
  /\ \A r \in Range(b.canRun) :
       \E e \in Nat \ {0} : b.req[r] = ChargedReq(a.req[r], a.prefixLen[r], e)

\* process_dllm_staging_reqs, for every list of staged requests that has no
\* duplicates.
LEMMA StagingLoop ==
  ASSUME NEW a, IsAdder(a), a.canRun = <<>>,
         NEW reqs \in Seq(Reqs), IsInjective(reqs),
         \A r \in Range(reqs) : a.req[r].ext > 0
  PROVE  StagesSome(a, ProcessStaging(a, reqs).adder, Range(reqs))
<1>1. PICK after :
        /\ ProcessStaging(a, reqs) = after[Len(reqs)]
        /\ after[0] = [adder |-> a, res |-> "CONTINUE"]
        /\ \A n \in 1 .. Len(reqs) : after[n] = StagingStep(after[n - 1], reqs[n])
  BY StagingEquation
<1> DEFINE N == Len(reqs)
           Firsts(n) == {reqs[i] : i \in 1 .. n}
           Good(n) == StagesSome(a, after[n].adder, Firsts(n))
           GoodSet == {n \in Nat : n <= N => Good(n)}
<1>2. N \in Nat /\ DOMAIN reqs = 1 .. N
  OBVIOUS
<1>3. 0 \in GoodSet
  <2>1. after[0].adder = a
    BY <1>1
  <2>2. Range(a.canRun) = {} /\ IsInjective(a.canRun)
    BY DEF Range, IsInjective
  <2> QED BY <2>1, <2>2 DEF StagesSome
<1>4. ASSUME NEW n \in Nat, n \in GoodSet PROVE n + 1 \in GoodSet
  <2> SUFFICES ASSUME n + 1 <= N PROVE Good(n + 1)
    OBVIOUS
  <2> DEFINE r == reqs[n + 1]
             b == after[n].adder
             c == after[n + 1].adder
  <2>1. StagesSome(a, b, Firsts(n))
    BY <1>2, <1>4
  <2>2. r \in Range(reqs) /\ r \in Reqs /\ n + 1 \in 1 .. N
    BY <1>2 DEF Range
  <2>3. after[n + 1] = IF after[n].res = "NO_TOKEN" THEN after[n] ELSE AddDllmStagingReq(b, r)
    BY <1>1, <2>2 DEF StagingStep
  <2>4. Firsts(n) \subseteq Firsts(n + 1) /\ r \in Firsts(n + 1)
    <3>1. \A i \in 1 .. n : i \in 1 .. n + 1
      OBVIOUS
    <3>2. n + 1 \in 1 .. n + 1
      OBVIOUS
    <3> QED BY <3>1, <3>2
  <2>5. r \notin Firsts(n)
    BY <1>2, <2>2 DEF IsInjective
  <2> HIDE DEF r, b, c, Firsts, N
  <2>6. r \notin Range(b.canRun) /\ b.req[r] = a.req[r] /\ b.req[r].ext > 0
    BY <2>1, <2>2, <2>5 DEF StagesSome
  <2>7. \/ c = b
        \/ \E e \in Nat \ {0} : IsAdder(c) /\ Charges(b, c, r, b.prefixLen[r], e)
    <3>1. IsAdder(b)
      BY <2>1 DEF StagesSome
    <3> DEFINE s == AddDllmStagingReq(b, r)
    <3>2. \/ s = [adder |-> b, res |-> "NO_TOKEN"]
          \/ \E e \in Nat \ {0} : IsAdder(s.adder) /\ Charges(b, s.adder, r, b.prefixLen[r], e)
      BY Zenon, <2>2, <2>6, <3>1, StagingEffect
    <3> HIDE DEF s
    <3>3. after[n + 1] = after[n] \/ after[n + 1] = s
      BY <2>3 DEF s
    <3>4. s = [adder |-> b, res |-> "NO_TOKEN"] => s.adder = b
      OBVIOUS
    <3> QED BY Zenon, <3>2, <3>3, <3>4 DEF b, c
  <2>8. CASE c = b
    BY <2>1, <2>4, <2>8 DEF StagesSome, c
  <2>9. ASSUME NEW e \in Nat \ {0}, IsAdder(c), Charges(b, c, r, b.prefixLen[r], e)
        PROVE  StagesSome(a, c, Firsts(n + 1))
    <3>1. /\ b.canRun \in Seq(Reqs) /\ c.canRun = Append(b.canRun, r)
          /\ c.prefixLen = a.prefixLen /\ b.prefixLen = a.prefixLen
      BY <2>1, <2>9 DEF StagesSome, Charges, IsAdder
    <3>2. Range(c.canRun) = Range(b.canRun) \cup {r} /\ IsInjective(c.canRun)
      BY <2>1, <2>2, <2>6, <3>1, QueueMembers DEF StagesSome
    <3>3. c.req = [b.req EXCEPT ![r] = ChargedReq(a.req[r], a.prefixLen[r], e)] /\ b.req \in [Reqs -> ReqType]
      BY <2>1, <2>6, <2>9, <3>1 DEF StagesSome, Charges, IsAdder
    <3>4. c.req[r] = ChargedReq(a.req[r], a.prefixLen[r], e) /\ \A q \in Reqs : q # r => c.req[q] = b.req[q]
      BY <2>2, <3>3
    <3>5. Range(c.canRun) \subseteq Firsts(n + 1)
      BY <2>1, <2>4, <3>2 DEF StagesSome
    <3>6. \A q \in Reqs : q \notin Range(c.canRun) => c.req[q] = a.req[q]
      BY <2>1, <3>2, <3>4 DEF StagesSome
    <3>7. Range(b.canRun) \subseteq Reqs
      BY <3>1, QueueMembers
    <3>8. ASSUME NEW q \in Range(c.canRun)
          PROVE  \E d \in Nat \ {0} : c.req[q] = ChargedReq(a.req[q], a.prefixLen[q], d)
      <4>1. CASE q = r
        BY <3>4, <4>1
      <4>2. CASE q # r
        BY <2>1, <3>2, <3>4, <3>7, <4>2 DEF StagesSome
      <4> QED BY <4>1, <4>2
    <3> QED BY <2>9, <3>1, <3>2, <3>5, <3>6, <3>8 DEF StagesSome
  <2> QED BY <2>7, <2>8, <2>9 DEF c
<1>5. Good(N)
  <2>1. N \in GoodSet
    <3> HIDE DEF GoodSet
    <3> QED BY <1>2, <1>3, <1>4, SetInduction
  <2>2. N \in Nat /\ N <= N
    BY <1>2
  <2> QED BY Zenon, <2>1, <2>2
<1>6. Firsts(N) = Range(reqs)
  BY <1>2 DEF Range
<1> QED BY Zenon, <1>1, <1>5, <1>6

-----------------------------------------------------------------------------
(* The incoming requests of a round. *)

\* The loop over the incoming requests satisfies the equation it is defined by.
LEMMA IncomingEquation ==
  ASSUME NEW a, NEW full, NEW reqs \in Seq(Reqs)
  PROVE  \E after :
           /\ ProcessIncoming(a, full, reqs) = after[Len(reqs)]
           /\ after[0] = [adder |-> a, full |-> full, stop |-> FALSE]
           /\ \A n \in 1 .. Len(reqs) : after[n] = IncomingStep(after[n - 1], reqs[n])
<1> DEFINE N == Len(reqs)
           Def(f, n) == IF n = 0 THEN [adder |-> a, full |-> full, stop |-> FALSE] ELSE IncomingStep(f[n - 1], reqs[n])
           after == CHOOSE f : f = [n \in 0 .. N |-> Def(f, n)]
           Solved == {m \in Nat : \E g : g = [n \in 0 .. m |-> Def(g, n)]}
<1>1. N \in Nat
  OBVIOUS
<1>2. ProcessIncoming(a, full, reqs) = after[N]
  BY DEF ProcessIncoming
<1>3. \A f, g : Def(f, 0) = Def(g, 0)
  OBVIOUS
<1>4. \A f, g : \A n \in Nat \ {0} : f[n - 1] = g[n - 1] => Def(f, n) = Def(g, n)
  OBVIOUS
<1>5. \A f : Def(f, 0) = [adder |-> a, full |-> full, stop |-> FALSE]
  OBVIOUS
<1>6. \A f : \A n \in 1 .. N : Def(f, n) = IncomingStep(f[n - 1], reqs[n])
  OBVIOUS
<1> HIDE DEF N, Def
<1>7. 0 \in Solved
  <2> DEFINE g == [n \in 0 .. 0 |-> Def(0, n)]
  <2>1. g = [n \in 0 .. 0 |-> Def(g, n)]
    BY <1>3
  <2> QED BY <2>1
<1>8. ASSUME NEW m \in Nat, m \in Solved PROVE m + 1 \in Solved
  <2>1. PICK g : g = [n \in 0 .. m |-> Def(g, n)]
    BY <1>8
  <2> DEFINE h == [n \in 0 .. m + 1 |-> Def(g, n)]
  <2>2. \A n \in 0 .. m : h[n] = g[n]
    BY <2>1
  <2>3. ASSUME NEW n \in 0 .. m + 1 PROVE h[n] = Def(h, n)
    <3>1. h[n] = Def(g, n)
      OBVIOUS
    <3>2. CASE n = 0
      BY <1>3, <3>1, <3>2
    <3>3. CASE n # 0
      <4>1. n - 1 \in 0 .. m
        BY <3>3
      <4>2. h[n - 1] = g[n - 1]
        BY Zenon, <2>2, <4>1
      <4>3. Def(h, n) = Def(g, n)
        BY <1>4, <3>3, <4>2
      <4> QED BY <3>1, <4>3
    <3> QED BY <3>2, <3>3
  <2> HIDE DEF h
  <2>4. h = [n \in 0 .. m + 1 |-> Def(h, n)]
    BY <2>3 DEF h
  <2> QED BY <2>4
<1>9. N \in Solved
  <2> HIDE DEF Solved
  <2> QED BY <1>1, <1>7, <1>8, SetInduction
<1>10. \E g : g = [n \in 0 .. N |-> Def(g, n)]
  BY <1>1, <1>9
<1>11. after = [n \in 0 .. N |-> Def(after, n)]
  BY Zenon, <1>10
<1> HIDE DEF after
<1>12. after[0] = [adder |-> a, full |-> full, stop |-> FALSE]
  BY <1>1, <1>5, <1>11
<1>13. \A n \in 1 .. N : after[n] = Def(after, n)
  BY <1>1, <1>11
<1>14. \A n \in 1 .. N : after[n] = IncomingStep(after[n - 1], reqs[n])
  BY <1>6, <1>13
<1> QED BY <1>2, <1>12, <1>14 DEF N

\* init_next_round_input gives a request object again.
LEMMA InitNextRoundType ==
  ASSUME NEW q \in ReqType, NEW len \in Nat, len <= q.prompt + q.out
  PROVE  /\ InitNextRound(q, len) \in ReqType
         /\ InitNextRound(q, len).phase = IF len + BlockSize <= q.prompt + q.out
                                          THEN "STAGING_PREFILL" ELSE "STAGING_DECODE"
<1> DEFINE known == q.prompt + q.out
           phase == IF len + BlockSize <= known THEN "STAGING_PREFILL" ELSE "STAGING_DECODE"
           offset == NextOffset(q)
<1>0. q.prompt \in Nat /\ q.out \in Nat /\ q.offset \in Nat /\ q.fill \in Nat /\ BlockSize \in Nat
  BY AdderAssumption DEF ReqType
<1>1. known \in Nat /\ known + BlockSize \in Nat /\ known + BlockSize - len \in Nat /\ offset \in Nat
  BY <1>0 DEF NextOffset
<1>2. DeterminePhase(q, known, len) = phase /\ phase \in Phases
  <2>1. ~(known < len)
    BY <1>0
  <2> QED BY <2>1 DEF DeterminePhase, Phases
<1>3. InitNextRound(q, len) = [q EXCEPT !.offset = offset, !.fill = known + BlockSize,
                                        !.phase = phase, !.ext = known + BlockSize - len]
  BY Zenon, <1>2 DEF InitNextRound
<1> HIDE DEF known, phase, offset
<1>4. InitNextRound(q, len) \in ReqType
  BY Zenon, <1>1, <1>2, <1>3 DEF ReqType
<1>5. InitNextRound(q, len).phase = phase
  BY <1>3 DEF ReqType
<1> QED BY <1>4, <1>5 DEF phase, known

\* b is a with some of the incoming requests in S admitted, each with a block at most
\* behind an empty prefix; the others of S are as they were or stand at their first
\* block.
AdmitsSome(a, b, S) ==
  /\ IsAdder(b)
  /\ b.prefixLen = a.prefixLen
  /\ IsInjective(b.canRun)
  /\ Range(a.canRun) \subseteq Range(b.canRun)
  /\ Range(b.canRun) \subseteq Range(a.canRun) \cup S
  /\ \A r \in Reqs : r \notin S => b.req[r] = a.req[r]
  /\ \A r \in S : r \notin Range(b.canRun) => b.req[r] \in {a.req[r], InitNextRound(a.req[r], 0)}
  /\ \A r \in S : r \in Range(b.canRun) =>
       \E e \in Nat \ {0} : b.req[r] = ChargedReq(InitNextRound(a.req[r], 0), 0, e)

\* b is a after a step of the loop for request r.
StepOutcome(a, b, r) ==
  LET q == InitNextRound(a.req[r], 0)
  IN  \/ b = a
      \/ /\ IsAdder(b) /\ b.canRun = a.canRun /\ b.prefixLen = a.prefixLen
         /\ b.req = [a.req EXCEPT ![r] = q]
      \/ \E e \in Nat \ {0} :
           /\ IsAdder(b) /\ b.canRun = Append(a.canRun, r) /\ b.prefixLen = a.prefixLen
           /\ b.req = [a.req EXCEPT ![r] = ChargedReq(q, 0, e)]

\* One request of process_dllm_incoming_reqs: the loop has ended, the request is left
\* at its first block, or it is admitted there.
LEMMA IncomingStepEffect ==
  ASSUME NEW st, IsAdder(st.adder), NEW r \in Reqs, st.adder.prefixLen[r] = 0
  PROVE  StepOutcome(st.adder, IncomingStep(st, r).adder, r)
<1> DEFINE a == st.adder
           q == InitNextRound(a.req[r], 0)
           isFull == st.full \/ Len(a.canRun) >= NumRows
           ready == [a EXCEPT !.req[r] = InitNextRound(@, a.prefixLen[r])]
           added == AddOneReq(ready, r)
           next == IncomingStep(st, r)
           b == next.adder
           Done == \/ b = a
                   \/ /\ IsAdder(b) /\ b.canRun = a.canRun /\ b.prefixLen = a.prefixLen
                      /\ b.req = [a.req EXCEPT ![r] = q]
                   \/ \E e \in Nat \ {0} :
                        /\ IsAdder(b) /\ b.canRun = Append(a.canRun, r) /\ b.prefixLen = a.prefixLen
                        /\ b.req = [a.req EXCEPT ![r] = ChargedReq(q, 0, e)]
<1> SUFFICES Done
  BY Zenon DEF StepOutcome
<1>1. \/ next = st
      \/ next = [st EXCEPT !.full = TRUE, !.stop = TRUE]
      \/ next = [adder |-> added.adder, full |-> added.res = "NO_TOKEN",
                 stop |-> added.res # "CONTINUE"]
  BY DEF IncomingStep
<1>2. b = a \/ b = added.adder
  <2> HIDE DEF next, added, ready
  <2>1. [st EXCEPT !.full = TRUE, !.stop = TRUE].adder = st.adder
    OBVIOUS
  <2>2. [adder |-> added.adder, full |-> added.res = "NO_TOKEN",
         stop |-> added.res # "CONTINUE"].adder = added.adder
    OBVIOUS
  <2>3. CASE next = st
    BY <2>3
  <2>4. CASE next = [st EXCEPT !.full = TRUE, !.stop = TRUE]
    BY <2>1, <2>4
  <2>5. CASE next = [adder |-> added.adder, full |-> added.res = "NO_TOKEN",
                     stop |-> added.res # "CONTINUE"]
    BY <2>2, <2>5
  <2> QED BY <1>1, <2>3, <2>4, <2>5
<1>3. a.req[r] \in ReqType /\ a.req \in [Reqs -> ReqType]
  BY DEF IsAdder
<1>4. q \in ReqType
  <2>1. 0 <= a.req[r].prompt + a.req[r].out
    <3> HIDE DEF a
    <3> QED BY <1>3 DEF ReqType
  <2> QED BY <1>3, <2>1, InitNextRoundType
<1>5. /\ DOMAIN ready = DOMAIN a
      /\ ready.canRun = a.canRun /\ ready.prefixLen = a.prefixLen
      /\ ready.avail = a.avail /\ ready.remDllm = a.remDllm /\ ready.offTotal = a.offTotal
      /\ ready.offCur = a.offCur /\ ready.remInput = a.remInput
  BY DEF IsAdder, AdderFields
<1>6. ready.req = [a.req EXCEPT ![r] = q]
  BY DEF IsAdder, AdderFields
<1> HIDE DEF a, ready, q
<1>7. ready.req \in [Reqs -> ReqType] /\ ready.req[r] = q
  BY <1>3, <1>4, <1>6
<1>8. IsAdder(ready) /\ ready.prefixLen[r] = 0
  BY Zenon, <1>5, <1>7 DEF IsAdder, a
<1>9. /\ IsAdder(added.adder)
      /\ \/ Rejects(ready, added.adder)
         \/ \E e \in Nat \ {0} : Charges(ready, added.adder, r, 0, e)
  BY ZenonT(30), <1>8, OneReqEffect
<1> HIDE DEF added, b
<1>10. CASE b = added.adder /\ Rejects(ready, added.adder)
  BY Zenon, <1>5, <1>6, <1>9, <1>10 DEF Rejects
<1>11. ASSUME b = added.adder, NEW e \in Nat \ {0}, Charges(ready, added.adder, r, 0, e) PROVE Done
  <2>1. b.canRun = Append(a.canRun, r) /\ b.prefixLen = a.prefixLen
    BY <1>5, <1>11 DEF Charges
  <2>2. b.req = [ready.req EXCEPT ![r] = ChargedReq(q, 0, e)]
    BY <1>7, <1>11 DEF Charges
  <2>3. b.req = [a.req EXCEPT ![r] = ChargedReq(q, 0, e)]
    BY <1>3, <1>6, <2>2
  <2> QED BY <1>9, <1>11, <2>1, <2>3
<1> QED BY <1>2, <1>9, <1>10, <1>11

\* process_dllm_incoming_reqs, for every list of incoming requests that has no
\* duplicates and none of which is in the batch or has a prefix.
LEMMA IncomingLoop ==
  ASSUME NEW a, IsAdder(a), IsInjective(a.canRun), NEW full,
         NEW reqs \in Seq(Reqs), IsInjective(reqs), Range(reqs) \cap Range(a.canRun) = {},
         \A r \in Range(reqs) : a.prefixLen[r] = 0
  PROVE  AdmitsSome(a, ProcessIncoming(a, full, reqs).adder, Range(reqs))
<1>1. PICK after :
        /\ ProcessIncoming(a, full, reqs) = after[Len(reqs)]
        /\ after[0] = [adder |-> a, full |-> full, stop |-> FALSE]
        /\ \A n \in 1 .. Len(reqs) : after[n] = IncomingStep(after[n - 1], reqs[n])
  BY IncomingEquation
<1> DEFINE N == Len(reqs)
           Firsts(n) == {reqs[i] : i \in 1 .. n}
           Good(n) == AdmitsSome(a, after[n].adder, Firsts(n))
           GoodSet == {n \in Nat : n <= N => Good(n)}
<1>2. N \in Nat /\ DOMAIN reqs = 1 .. N
  OBVIOUS
<1>3. 0 \in GoodSet
  <2>1. after[0].adder = a
    BY <1>1
  <2>2. Firsts(0) = {}
    OBVIOUS
  <2> QED BY <2>1, <2>2 DEF AdmitsSome
<1>4. ASSUME NEW n \in Nat, n \in GoodSet PROVE n + 1 \in GoodSet
  <2> SUFFICES ASSUME n + 1 <= N PROVE Good(n + 1)
    OBVIOUS
  <2> DEFINE r == reqs[n + 1]
             b == after[n].adder
             c == after[n + 1].adder
             q == InitNextRound(a.req[r], 0)
  <2>1. AdmitsSome(a, b, Firsts(n))
    BY <1>2, <1>4
  <2>2. r \in Range(reqs) /\ r \in Reqs /\ n + 1 \in 1 .. N
    BY <1>2 DEF Range
  <2>3. after[n + 1] = IncomingStep(after[n], r)
    <3>1. after[n + 1] = IncomingStep(after[(n + 1) - 1], reqs[n + 1])
      BY Zenon, <1>1, <2>2
    <3>2. (n + 1) - 1 = n
      OBVIOUS
    <3> QED BY Zenon, <3>1, <3>2
  <2>4. Firsts(n + 1) = Firsts(n) \cup {r}
    <3>1. \A i \in 1 .. n + 1 : i \in 1 .. n \/ i = n + 1
      OBVIOUS
    <3>2. \A i \in 1 .. n : i \in 1 .. n + 1
      OBVIOUS
    <3>3. n + 1 \in 1 .. n + 1
      OBVIOUS
    <3> QED BY <3>1, <3>2, <3>3
  <2>5. r \notin Firsts(n) /\ Firsts(n) \subseteq Reqs
    <3>1. \A i \in 1 .. n : i \in 1 .. N
      BY <1>2
    <3> QED BY <1>2, <2>2, <3>1 DEF IsInjective
  <2> HIDE DEF r, b, c, Firsts, N
  <2>6. r \notin Range(a.canRun) /\ a.prefixLen[r] = 0
    BY <2>2
  <2>7. /\ IsAdder(b) /\ b.prefixLen = a.prefixLen
        /\ r \notin Range(b.canRun) /\ b.req[r] = a.req[r]
        /\ b.canRun \in Seq(Reqs) /\ b.req \in [Reqs -> ReqType]
    BY Zenon, <2>1, <2>2, <2>5, <2>6 DEF AdmitsSome, IsAdder
  <2>8. \/ c = b
        \/ /\ IsAdder(c) /\ c.canRun = b.canRun /\ c.prefixLen = b.prefixLen
           /\ c.req = [b.req EXCEPT ![r] = q]
        \/ \E e \in Nat \ {0} :
             /\ IsAdder(c) /\ c.canRun = Append(b.canRun, r) /\ c.prefixLen = b.prefixLen
             /\ c.req = [b.req EXCEPT ![r] = ChargedReq(q, 0, e)]
    <3>1. IsAdder(after[n].adder) /\ after[n].adder.prefixLen[r] = 0
      BY <2>6, <2>7 DEF b
    <3>2. StepOutcome(b, c, r)
      BY <2>2, <2>3, <3>1, IncomingStepEffect DEF b, c
    <3> QED BY Zenon, <2>7, <3>2 DEF StepOutcome
  <2> HIDE DEF q
  <2>9. CASE c = b
    <3>1. c.req[r] = a.req[r] /\ r \notin Range(c.canRun)
      BY <2>7, <2>9
    <3> QED BY Zenon, <2>1, <2>4, <2>9, <3>1 DEF AdmitsSome, c
  <2>10. CASE /\ IsAdder(c) /\ c.canRun = b.canRun /\ c.prefixLen = b.prefixLen
              /\ c.req = [b.req EXCEPT ![r] = q]
    <3>1. c.req[r] = q /\ \A p \in Reqs : p # r => c.req[p] = b.req[p]
      BY <2>2, <2>7, <2>10
    <3>2. \A p \in Reqs : p \notin Firsts(n + 1) => c.req[p] = a.req[p]
      BY ZenonT(30), <2>1, <2>4, <3>1 DEF AdmitsSome
    <3>3. \A p \in Firsts(n + 1) : p \notin Range(c.canRun) => c.req[p] \in {a.req[p], InitNextRound(a.req[p], 0)}
      BY Zenon, <2>1, <2>4, <2>5, <2>10, <3>1 DEF AdmitsSome, q
    <3>4. \A p \in Firsts(n + 1) : p \in Range(c.canRun) =>
            \E e \in Nat \ {0} : c.req[p] = ChargedReq(InitNextRound(a.req[p], 0), 0, e)
      <4> SUFFICES ASSUME NEW p \in Firsts(n + 1), p \in Range(c.canRun)
                   PROVE  \E e \in Nat \ {0} : c.req[p] = ChargedReq(InitNextRound(a.req[p], 0), 0, e)
        OBVIOUS
      <4>1. p \in Range(b.canRun) /\ p # r
        BY <2>7, <2>10
      <4>2. p \in Firsts(n) /\ p \in Reqs
        BY <2>4, <2>5, <4>1
      <4>3. c.req[p] = b.req[p]
        BY <3>1, <4>1, <4>2
      <4> QED BY Zenon, <2>1, <4>1, <4>2, <4>3 DEF AdmitsSome
    <3> QED BY Zenon, <2>1, <2>4, <2>7, <2>10, <3>2, <3>3, <3>4 DEF AdmitsSome, c
  <2>11. ASSUME NEW e \in Nat \ {0}, IsAdder(c), c.canRun = Append(b.canRun, r),
                c.prefixLen = b.prefixLen, c.req = [b.req EXCEPT ![r] = ChargedReq(q, 0, e)]
         PROVE  AdmitsSome(a, c, Firsts(n + 1))
    <3>1. c.req[r] = ChargedReq(q, 0, e) /\ \A p \in Reqs : p # r => c.req[p] = b.req[p]
      BY ZenonT(30), <2>2, <2>7, <2>11
    <3>2. Range(c.canRun) = Range(b.canRun) \cup {r} /\ IsInjective(c.canRun)
      <4>1. IsInjective(b.canRun) /\ b.canRun \in Seq(Reqs) /\ r \notin Range(b.canRun)
        BY Zenon, <2>1, <2>7 DEF AdmitsSome
      <4>2. /\ Range(Append(b.canRun, r)) = Range(b.canRun) \cup {r}
            /\ IsInjective(Append(b.canRun, r))
        BY <2>2, <4>1, QueueMembers
      <4> QED BY <2>11, <4>2
    <3>3. \A p \in Reqs : p \notin Firsts(n + 1) => c.req[p] = a.req[p]
      BY <2>1, <2>4, <3>1 DEF AdmitsSome
    <3>4. \A p \in Firsts(n + 1) : p \notin Range(c.canRun) => c.req[p] \in {a.req[p], InitNextRound(a.req[p], 0)}
      BY <2>1, <2>4, <2>5, <3>1, <3>2 DEF AdmitsSome
    <3>5. \A p \in Firsts(n + 1) : p \in Range(c.canRun) =>
            \E d \in Nat \ {0} : c.req[p] = ChargedReq(InitNextRound(a.req[p], 0), 0, d)
      <4> SUFFICES ASSUME NEW p \in Firsts(n + 1), p \in Range(c.canRun)
                   PROVE  \E d \in Nat \ {0} : c.req[p] = ChargedReq(InitNextRound(a.req[p], 0), 0, d)
        OBVIOUS
      <4>1. CASE p = r
        BY <3>1, <4>1 DEF q
      <4>2. CASE p # r
        <5>1. p \in Firsts(n) /\ p \in Reqs /\ p \in Range(b.canRun)
          BY <2>4, <2>5, <3>2, <4>2
        <5>2. PICK d \in Nat \ {0} : b.req[p] = ChargedReq(InitNextRound(a.req[p], 0), 0, d)
          BY <2>1, <5>1 DEF AdmitsSome
        <5> QED BY <3>1, <4>2, <5>1, <5>2
      <4> QED BY <4>1, <4>2
    <3>6. /\ Range(a.canRun) \subseteq Range(c.canRun)
          /\ Range(c.canRun) \subseteq Range(a.canRun) \cup Firsts(n + 1)
      BY <2>1, <2>4, <3>2 DEF AdmitsSome
    <3> QED BY Zenon, <2>7, <2>11, <3>2, <3>3, <3>4, <3>5, <3>6 DEF AdmitsSome
  <2> QED BY ZenonT(30), <2>8, <2>9, <2>10, <2>11 DEF c
<1>5. Good(N)
  <2>1. N \in GoodSet
    <3> HIDE DEF GoodSet
    <3> QED BY <1>2, <1>3, <1>4, SetInduction
  <2>2. N <= N
    BY <1>2
  <2> QED BY Zenon, <2>1, <2>2
<1>6. Firsts(N) = Range(reqs)
  BY <1>2 DEF Range
<1> QED BY Zenon, <1>1, <1>5, <1>6

\* batch_is_full stays a flag.
LEMMA IncomingFull ==
  ASSUME NEW a, NEW full \in BOOLEAN, NEW reqs \in Seq(Reqs)
  PROVE  ProcessIncoming(a, full, reqs).full \in BOOLEAN
<1>1. PICK after :
        /\ ProcessIncoming(a, full, reqs) = after[Len(reqs)]
        /\ after[0] = [adder |-> a, full |-> full, stop |-> FALSE]
        /\ \A n \in 1 .. Len(reqs) : after[n] = IncomingStep(after[n - 1], reqs[n])
  BY IncomingEquation
<1> DEFINE N == Len(reqs)
           Good(n) == DOMAIN after[n] = {"adder", "full", "stop"} /\ after[n].full \in BOOLEAN
           GoodSet == {n \in Nat : n <= N => Good(n)}
<1>2. N \in Nat
  OBVIOUS
<1>3. 0 \in GoodSet
  BY <1>1
<1>4. ASSUME NEW n \in Nat, n \in GoodSet PROVE n + 1 \in GoodSet
  <2> SUFFICES ASSUME n + 1 <= N PROVE Good(n + 1)
    OBVIOUS
  <2> DEFINE st == after[n]
             next == after[n + 1]
             b == AddOneReq([st.adder EXCEPT !.req[reqs[n + 1]] = InitNextRound(@, st.adder.prefixLen[reqs[n + 1]])], reqs[n + 1])
  <2>1. DOMAIN st = {"adder", "full", "stop"} /\ st.full \in BOOLEAN
    BY <1>2, <1>4
  <2>2. next = IncomingStep(st, reqs[n + 1])
    BY <1>1, <1>2
  <2>3. \/ next = st
        \/ next = [st EXCEPT !.full = TRUE, !.stop = TRUE]
        \/ next = [adder |-> b.adder, full |-> b.res = "NO_TOKEN", stop |-> b.res # "CONTINUE"]
    BY Zenon, <2>2 DEF IncomingStep
  <2> HIDE DEF st, next, b
  <2>4. DOMAIN next = {"adder", "full", "stop"} /\ next.full \in BOOLEAN
    <3>1. CASE next = st
      BY <2>1, <3>1
    <3>2. CASE next = [st EXCEPT !.full = TRUE, !.stop = TRUE]
      BY <2>1, <3>2
    <3>3. CASE next = [adder |-> b.adder, full |-> b.res = "NO_TOKEN", stop |-> b.res # "CONTINUE"]
      BY <3>3
    <3> QED BY <2>3, <3>1, <3>2, <3>3
  <2> QED BY <2>4 DEF next
<1>5. Good(N)
  <2>1. N \in GoodSet
    <3> HIDE DEF GoodSet
    <3> QED BY <1>2, <1>3, <1>4, SetInduction
  <2>2. N <= N
    BY <1>2
  <2> QED BY Zenon, <2>1, <2>2
<1> QED BY <1>1, <1>5

-----------------------------------------------------------------------------
(* A round. *)

\* b is what a round over the requests in S makes of a: a request that was admitted
\* got a token or more behind its prefix, or at its first block; one that was not is
\* as it was, or stands at its first block.
RoundOutcome(a, b, S) ==
  /\ IsAdder(b)
  /\ b.prefixLen = a.prefixLen
  /\ IsInjective(b.canRun)
  /\ Range(b.canRun) \subseteq S
  /\ \A r \in Reqs \ S : b.req[r] = a.req[r]
  /\ \A r \in S : a.req[r].phase \in Staging =>
       IF r \in Range(b.canRun)
       THEN \E e \in Nat \ {0} : b.req[r] = ChargedReq(a.req[r], a.prefixLen[r], e)
       ELSE b.req[r] = a.req[r]
  /\ \A r \in S : a.req[r].phase \notin Staging =>
       IF r \in Range(b.canRun)
       THEN \E e \in Nat \ {0} : b.req[r] = ChargedReq(InitNextRound(a.req[r], 0), 0, e)
       ELSE b.req[r] \in {a.req[r], InitNextRound(a.req[r], 0)}

\* _process_dllm_batches, for every queue without duplicates.
LEMMA RoundEffect ==
  ASSUME NEW a, IsAdder(a), a.canRun = <<>>,
         NEW queue \in Seq(Reqs), IsInjective(queue), NEW full \in BOOLEAN,
         \A r \in Range(queue) : a.req[r].phase \in Staging => a.req[r].ext > 0,
         \A r \in Range(queue) : a.req[r].phase \notin Staging => a.prefixLen[r] = 0
  PROVE  /\ RoundOutcome(a, ProcessBatches(a, full, queue).adder, Range(queue))
         /\ ProcessBatches(a, full, queue).full \in BOOLEAN
<1> DEFINE InPhase(phases) == {r \in Reqs : a.req[r].phase \in phases}
           prefill == Keep(queue, InPhase(Prefill))
           chosen == IF prefill # <<>> THEN prefill ELSE queue
           old == Keep(chosen, InPhase(Staging))
           new == Keep(chosen, InPhase(Phases \ Staging))
           staged == ProcessStaging(a, old)
           s == staged.adder
           round == ProcessBatches(a, full, queue)
           b == round.adder
<1>1. /\ prefill \in Seq(Reqs) /\ IsInjective(prefill)
      /\ Range(prefill) \subseteq Range(queue)
  <2>1. \A S : /\ Keep(queue, S) \in Seq(Reqs) /\ IsInjective(Keep(queue, S))
               /\ Range(Keep(queue, S)) \subseteq Range(queue)
    BY KeepFilters
  <2> QED BY Zenon, <2>1
<1>2. /\ chosen \in Seq(Reqs) /\ IsInjective(chosen)
      /\ Range(chosen) \subseteq Range(queue)
  BY ZenonT(30), <1>1
<1>3. round = IF staged.res # "CONTINUE"
              THEN [adder |-> s, full |-> full, stop |-> TRUE]
              ELSE ProcessIncoming(s, full, new)
  BY ZenonT(30) DEF ProcessBatches
<1> HIDE DEF chosen
<1>4. /\ old \in Seq(Reqs) /\ IsInjective(old)
      /\ Range(old) = Range(chosen) \cap InPhase(Staging)
      /\ new \in Seq(Reqs) /\ IsInjective(new)
      /\ Range(new) = Range(chosen) \cap InPhase(Phases \ Staging)
  BY ZenonT(30), <1>2, KeepFilters
<1> HIDE DEF old, new
<1>5. /\ \A r \in Range(old) : r \in Range(queue) /\ r \in Reqs /\ a.req[r].phase \in Staging
      /\ \A r \in Range(new) : r \in Range(queue) /\ r \in Reqs /\ a.req[r].phase \notin Staging
  BY <1>2, <1>4
<1>6. StagesSome(a, s, Range(old))
  BY ZenonT(30), <1>4, <1>5, StagingLoop
<1> HIDE DEF staged, round
<1>7. Range(queue) \subseteq Reqs
  BY QueueMembers
<1>8. CASE staged.res # "CONTINUE"
  <2>1. round = [adder |-> s, full |-> full, stop |-> TRUE]
    BY <1>3, <1>8
  <2>2. b = s /\ round.full \in BOOLEAN
    BY <2>1
  <2> HIDE DEF b, s
  <2>3. RoundOutcome(a, s, Range(queue))
    BY ZenonT(30), <1>5, <1>6, <1>7 DEF StagesSome, RoundOutcome
  <2> QED BY <2>2, <2>3 DEF b, round
<1>9. CASE staged.res = "CONTINUE"
  <2>1. round = ProcessIncoming(s, full, new)
    BY <1>3, <1>9
  <2>2. round.full \in BOOLEAN
    BY <1>4, <2>1, IncomingFull
  <2> HIDE DEF s
  <2>3. Range(new) \cap Range(s.canRun) = {} /\ s.prefixLen = a.prefixLen
    BY <1>5, <1>6 DEF StagesSome
  <2>4. AdmitsSome(s, b, Range(new))
    BY ZenonT(30), <1>4, <1>5, <1>6, <2>1, <2>3, IncomingLoop DEF StagesSome
  <2> HIDE DEF b
  <2>5. \A r \in Range(new) : s.req[r] = a.req[r]
    BY ZenonT(30), <1>5, <1>6, <2>3 DEF StagesSome
  <2>6. /\ IsAdder(b) /\ b.prefixLen = a.prefixLen /\ IsInjective(b.canRun)
        /\ Range(b.canRun) \subseteq Range(queue)
    BY ZenonT(30), <1>5, <1>6, <2>4 DEF StagesSome, AdmitsSome
  <2>7. \A r \in Reqs \ Range(queue) : b.req[r] = a.req[r]
    BY ZenonT(30), <1>5, <1>6, <2>4 DEF StagesSome, AdmitsSome
  <2>8. ASSUME NEW r \in Range(queue), a.req[r].phase \in Staging
        PROVE  IF r \in Range(b.canRun)
               THEN \E e \in Nat \ {0} : b.req[r] = ChargedReq(a.req[r], a.prefixLen[r], e)
               ELSE b.req[r] = a.req[r]
    <3>1. r \notin Range(new) /\ r \in Reqs
      BY <1>5, <1>7, <2>8
    <3>2. b.req[r] = s.req[r] /\ (r \in Range(b.canRun) <=> r \in Range(s.canRun))
      BY <2>4, <3>1 DEF AdmitsSome
    <3> QED BY <1>6, <3>1, <3>2 DEF StagesSome
  <2>9. ASSUME NEW r \in Range(queue), a.req[r].phase \notin Staging
        PROVE  IF r \in Range(b.canRun)
               THEN \E e \in Nat \ {0} : b.req[r] = ChargedReq(InitNextRound(a.req[r], 0), 0, e)
               ELSE b.req[r] \in {a.req[r], InitNextRound(a.req[r], 0)}
    <3>1. r \notin Range(old) /\ r \in Reqs /\ r \notin Range(s.canRun)
      BY <1>5, <1>6, <1>7, <2>9 DEF StagesSome
    <3>2. CASE r \in Range(new)
      BY Zenon, <2>4, <2>5, <3>2 DEF AdmitsSome
    <3>3. CASE r \notin Range(new)
      BY Zenon, <1>6, <2>4, <3>1, <3>3 DEF StagesSome, AdmitsSome
    <3> QED BY ZenonT(30), <3>2, <3>3
  <2>10. RoundOutcome(a, b, Range(queue))
    BY Zenon, <2>6, <2>7, <2>8, <2>9 DEF RoundOutcome
  <2> QED BY <2>2, <2>10 DEF b, round
<1> QED BY <1>8, <1>9

-----------------------------------------------------------------------------
(* A round. *)

\* What a round leaves alone in a request.
Static(p, q) ==
  p.status = q.status /\ p.prompt = q.prompt /\ p.maxNew = q.maxNew /\ p.out = q.out

\* init_next_round_input takes a request to the block behind its prefix.
LEMMA NextBlock ==
  ASSUME NEW q \in ReqType, NEW len \in Nat, InStep(q, len), NextOffset(q) = len
  PROVE  LET p == InitNextRound(q, len)
         IN  /\ p \in ReqType /\ Parked(p, len) /\ Static(p, q)
             /\ p.phase \in Staging /\ p.ext > 0 /\ p.fill > 0
<1> DEFINE known == q.prompt + q.out
           phase == IF len + BlockSize <= known THEN "STAGING_PREFILL" ELSE "STAGING_DECODE"
           p == InitNextRound(q, len)
<1>1. /\ q.prompt \in Nat /\ q.out \in Nat /\ BlockSize \in Nat \ {0} /\ known \in Nat
      /\ len <= known /\ (q.out > 0 => len = known)
  <2>1. q.prompt \in Nat /\ q.out \in Nat /\ BlockSize \in Nat \ {0}
    BY AdderAssumption DEF ReqType
  <2> QED BY <2>1 DEF InStep
<1>2. p \in ReqType /\ p.phase = phase
  BY <1>1, InitNextRoundType
<1>3. /\ p.offset = len /\ p.fill = known + BlockSize /\ p.ext = known + BlockSize - len
      /\ Static(p, q)
  BY DEF InitNextRound, Static, ReqType
<1> HIDE DEF p, known
<1>4. p.prompt = q.prompt /\ p.out = q.out
  BY <1>3 DEF Static
<1>5. AtBlock(p, len)
  <2>1. p.prompt + p.out = known
    BY Zenon, <1>4 DEF known
  <2>2. InStep(p, len)
    BY <1>1, <1>4, <2>1 DEF InStep
  <2>3. p.phase = IF len + BlockSize <= p.prompt + p.out
                  THEN "STAGING_PREFILL" ELSE "STAGING_DECODE"
    BY <1>2, <2>1
  <2> QED BY Zenon, <1>3, <2>2, <2>3 DEF AtBlock
<1>6. p.fill = p.prompt + p.out + BlockSize /\ p.ext = p.fill - len
  <2>1. p.prompt + p.out = known
    BY Zenon, <1>4 DEF known
  <2> QED BY <1>1, <1>3, <2>1
<1>7. p.ext > 0 /\ p.fill > 0
  BY <1>1, <1>3
<1>8. p.phase \in Staging
  BY <1>2 DEF Staging
<1>9. Parked(p, len)
  BY <1>5, <1>6 DEF Parked
<1> QED BY <1>2, <1>3, <1>7, <1>8, <1>9 DEF p

\* The admission of a request that stands at its block.
LEMMA ChargedBlock ==
  ASSUME NEW q \in ReqType, NEW len \in Nat, AtBlock(q, len), q.phase \in Staging,
         NEW e \in Nat \ {0}
  PROVE  LET p == ChargedReq(q, len, e)
         IN  /\ Admitted(p, len) /\ Static(p, q) /\ p.phase \in Staging /\ p.fill > 0
<1> DEFINE p == ChargedReq(q, len, e)
<1>1. /\ p.status = q.status /\ p.prompt = q.prompt /\ p.maxNew = q.maxNew /\ p.out = q.out
      /\ p.offset = q.offset /\ p.phase = q.phase /\ p.ext = e /\ p.fill = len + e
  BY DEF ChargedReq, ReqType
<1> HIDE DEF p
<1>2. AtBlock(p, len)
  BY Zenon, <1>1 DEF AtBlock, InStep
<1>3. p.ext > 0 /\ p.fill > 0 /\ p.fill = len + p.ext
  BY <1>1
<1> QED BY <1>1, <1>2, <1>3 DEF Admitted, Static, p

\* The queue of a round, what it makes of the requests and the batch.
Fetched == SubSeq(waitingQ, 1, NumToFetch)
RoundQueue == dllmQ \o Fetched
Start == NewAdder(Cardinality(freeCells), ReqsOfNextRound, PrefixLen)
Round == ProcessBatches(Start, batchFull, RoundQueue)

\* The requests that a round fetches fit into the manager.
LEMMA FetchedFit ==
  ASSUME LoopInv
  PROVE  /\ NumToFetch \in 0 .. Len(waitingQ)
         /\ Len(dllmQ) + NumToFetch <= MaxRunning
<1>1. TypeOK /\ QueueFacts
  BY QueueForms DEF LoopInv
<1> DEFINE w == Len(waitingQ)
           d == Len(dllmQ)
<1>2. w \in Nat /\ d \in Nat /\ d <= MaxRunning /\ MaxRunning \in Nat
  <2>1. waitingQ \in Seq(Reqs) /\ dllmQ \in Seq(Reqs)
    BY Zenon, <1>1 DEF TypeOK
  <2>2. Len(dllmQ) <= MaxRunning
    BY Zenon, <1>1 DEF QueueFacts
  <2> QED BY <2>1, <2>2, AdderAssumption
<1>3. NumToFetch = Max({0, Min({MaxRunning - d, w})})
  BY DEF NumToFetch
<1> HIDE DEF w, d
<1> DEFINE m == Min({MaxRunning - d, w})
<1>4. m = IF MaxRunning - d <= w THEN MaxRunning - d ELSE w
  <2>1. MaxRunning - d \in Int /\ w \in Int
    BY <1>2
  <2> QED BY Zenon, <2>1, MinMax
<1>5. m \in Nat /\ m <= w /\ d + m <= MaxRunning
  BY <1>2, <1>4
<1> HIDE DEF m
<1>6. Max({0, m}) = IF 0 <= m THEN m ELSE 0
  <2>1. 0 \in Int /\ m \in Int
    BY <1>5
  <2> QED BY Zenon, <2>1, MinMax
<1>7. NumToFetch = m
  BY <1>3, <1>5, <1>6 DEF m
<1> QED BY <1>2, <1>5, <1>7 DEF w, d

\* The adder that a round starts with: the staged requests stand at their next block,
\* the parked ones where they were left, the others have no prefix.
LEMMA StartOfRound ==
  ASSUME LoopInv, PoolFacts, At("sched")
  PROVE  /\ IsAdder(Start) /\ Start.canRun = <<>>
         /\ Start.req = ReqsOfNextRound /\ Start.prefixLen = PrefixLen
         /\ \A r \in Range(stagingQ) :
              LET p == ReqsOfNextRound[r]
              IN  /\ Parked(p, PrefixLen[r]) /\ Static(p, req[r])
                  /\ p.phase \in Staging /\ p.ext > 0 /\ p.fill > 0
         /\ \A r \in Reqs : r \notin Range(stagingQ) => ReqsOfNextRound[r] = req[r]
<1> DEFINE N(r) == InitNextRound(req[r], PrefixLen[r])
<1>1. TypeOK /\ QueueFacts /\ pc = "sched" /\ crash = "no"
  BY QueueForms DEF LoopInv, At
<1>2. stagingQ \in Seq(Reqs) /\ Range(stagingQ) \subseteq Reqs /\ req \in [Reqs -> ReqType]
  <2>1. stagingQ \in Seq(Reqs) /\ req \in [Reqs -> ReqType]
    BY <1>1 DEF TypeOK
  <2> QED BY <2>1, QueueMembers
<1>3. \A r \in Reqs : ReqsOfNextRound[r] = IF r \in Range(stagingQ) THEN N(r) ELSE req[r]
  BY <1>2 DEF ReqsOfNextRound
<1>4. ASSUME NEW r \in Range(stagingQ)
      PROVE  /\ N(r) \in ReqType /\ Parked(N(r), PrefixLen[r]) /\ Static(N(r), req[r])
             /\ N(r).phase \in Staging /\ N(r).ext > 0 /\ N(r).fill > 0
  <2>1. r \in Reqs /\ Live(r) /\ req[r] \in ReqType
    BY <1>1, <1>2 DEF QueueFacts
  <2>2. StagedInv(r)
    BY <1>1, <2>1 DEF LoopInv
  <2>3. InStep(req[r], PrefixLen[r]) /\ PrefixLen[r] = req[r].offset + BlockSize /\ req[r].fill > 0
    BY Zenon, <1>1, <2>2 DEF StagedInv
  <2>4. NextOffset(req[r]) = PrefixLen[r]
    BY <2>1, <2>3 DEF NextOffset, ReqType
  <2>5. PrefixLen[r] \in Nat
    BY <2>1, Lengths
  <2> QED BY ZenonT(30), <2>1, <2>3, <2>4, <2>5, NextBlock
<1> HIDE DEF N
<1>5. ReqsOfNextRound \in [Reqs -> ReqType]
  <2>1. \A r \in Reqs : ReqsOfNextRound[r] \in ReqType
    BY Zenon, <1>2, <1>3, <1>4
  <2>2. ReqsOfNextRound = [r \in Reqs |-> ReqsOfNextRound[r]]
    BY DEF ReqsOfNextRound
  <2> QED BY <2>1, <2>2
<1>6. PrefixLen \in [Reqs -> Nat]
  <2>1. \A r \in Reqs : PrefixLen[r] \in Nat
    BY Zenon, Lengths
  <2> QED BY <2>1 DEF PrefixLen
<1>7. Cardinality(freeCells) \in Int
  <2>1. IsFiniteSet(freeCells)
    BY Zenon, SchedulerAssumption, FS_Subset DEF PoolFacts
  <2> QED BY <2>1, FS_CardinalityType
<1>8. MaxRunning * BlockSize \in Int /\ MaxPrefillTokens \in Int
  BY AdderAssumption
<1>9. /\ IsAdder(Start) /\ Start.canRun = <<>>
      /\ Start.req = ReqsOfNextRound /\ Start.prefixLen = PrefixLen
  <2> DEFINE reqs == ReqsOfNextRound
             pl == PrefixLen
             cf == Cardinality(freeCells)
             mb == MaxRunning * BlockSize
  <2>1. Start = [avail |-> cf, offTotal |-> 0, offCur |-> 0,
                 remInput |-> MaxPrefillTokens, remDllm |-> mb,
                 canRun |-> <<>>, states |-> NoStates, req |-> reqs, prefixLen |-> pl]
    BY Zenon DEF Start, NewAdder
  <2>2. cf \in Int /\ mb \in Int /\ reqs \in [Reqs -> ReqType] /\ pl \in [Reqs -> Nat]
    BY <1>5, <1>6, <1>7, <1>8
  <2> HIDE DEF reqs, pl, cf, mb
  <2>3. IsAdder(Start) /\ Start.canRun = <<>> /\ Start.req = reqs /\ Start.prefixLen = pl
    BY SMTT(30), <1>8, <2>1, <2>2 DEF IsAdder, AdderFields
  <2> QED BY <2>3 DEF reqs, pl
<1> QED BY Zenon, <1>2, <1>3, <1>4, <1>9

\* The requests that stay in waiting_queue.
Rest == SubSeq(waitingQ, NumToFetch + 1, Len(waitingQ))

\* A round moves requests from waiting_queue to the manager; none is lost or doubled.
LEMMA QueueOfRound ==
  ASSUME LoopInv
  PROVE  /\ RoundQueue \in Seq(Reqs) /\ IsInjective(RoundQueue) /\ Len(RoundQueue) <= MaxRunning
         /\ Rest \in Seq(Reqs) /\ IsInjective(Rest)
         /\ Range(RoundQueue) \subseteq Reqs /\ Range(Rest) \subseteq Range(waitingQ)
         /\ Range(RoundQueue) \cup Range(Rest) = Range(dllmQ) \cup Range(waitingQ)
         /\ Range(RoundQueue) \cap Range(Rest) = {}
         /\ Range(dllmQ) \subseteq Range(RoundQueue)
<1>1. TypeOK /\ QueueFacts
  BY QueueForms DEF LoopInv
<1>2. waitingQ \in Seq(Reqs) /\ dllmQ \in Seq(Reqs)
  BY Zenon, <1>1 DEF TypeOK
<1>3. /\ IsInjective(waitingQ) /\ IsInjective(dllmQ)
      /\ Range(waitingQ) \cap Range(dllmQ) = {}
  BY Zenon, <1>1 DEF QueueFacts
<1>4. NumToFetch \in 0 .. Len(waitingQ) /\ Len(dllmQ) + NumToFetch <= MaxRunning
  BY FetchedFit
<1>5. /\ Fetched \in Seq(Reqs) /\ Rest \in Seq(Reqs) /\ Len(Fetched) = NumToFetch
      /\ IsInjective(Fetched) /\ IsInjective(Rest)
      /\ Range(Fetched) \cup Range(Rest) = Range(waitingQ)
      /\ Range(Fetched) \cap Range(Rest) = {}
  BY Zenon, <1>2, <1>3, <1>4, SplitQueue DEF Fetched, Rest
<1>6. /\ RoundQueue \in Seq(Reqs)
      /\ Range(RoundQueue) = Range(dllmQ) \cup Range(Fetched)
      /\ IsInjective(RoundQueue) <=>
           IsInjective(dllmQ) /\ IsInjective(Fetched) /\ Range(dllmQ) \cap Range(Fetched) = {}
  BY Zenon, <1>2, <1>5, JoinedQueues DEF RoundQueue
<1>7. IsInjective(RoundQueue)
  BY <1>3, <1>5, <1>6
<1>8. Len(RoundQueue) <= MaxRunning
  <2>1. Len(RoundQueue) = Len(dllmQ) + Len(Fetched)
    BY <1>2, <1>5 DEF RoundQueue
  <2> QED BY <1>4, <1>5, <2>1
<1>9. Range(RoundQueue) \subseteq Reqs
  BY <1>6, QueueMembers
<1> QED BY <1>3, <1>5, <1>6, <1>7, <1>8, <1>9

\* What a round makes of a request of its queue.
RoundOf(r) ==
  LET p == Round.adder.req[r]
  IN  /\ Live(r) /\ Static(p, req[r])
      /\ IF r \in Range(Round.adder.canRun)
         THEN Admitted(p, PrefixLen[r]) /\ p.phase \in Staging /\ p.fill > 0
         ELSE \/ Parked(p, PrefixLen[r]) /\ p.phase \in Staging
              \/ p = req[r] /\ p.phase \notin Staging

\* A round admits some requests of its queue, each at the block behind its prefix, and
\* leaves the others at theirs or as they came.
LEMMA RoundOfRequests ==
  ASSUME LoopInv, PoolFacts, At("sched")
  PROVE  /\ Round.adder.req \in [Reqs -> ReqType] /\ Round.full \in BOOLEAN
         /\ Round.adder.canRun \in Seq(Reqs) /\ IsInjective(Round.adder.canRun)
         /\ Range(Round.adder.canRun) \subseteq Range(RoundQueue)
         /\ \A r \in Reqs \ Range(RoundQueue) : Round.adder.req[r] = req[r]
         /\ \A r \in Range(RoundQueue) : RoundOf(r)
<1> DEFINE Q == Range(RoundQueue)
           start == ReqsOfNextRound
<1>1. TypeOK /\ QueueFacts /\ pc = "sched" /\ crash = "no"
  BY QueueForms DEF LoopInv, At
<1>2. /\ RoundQueue \in Seq(Reqs) /\ IsInjective(RoundQueue)
      /\ Q \subseteq Reqs /\ Range(dllmQ) \subseteq Q
      /\ Q \subseteq Range(dllmQ) \cup Range(waitingQ)
  BY QueueOfRound
<1>3. /\ IsAdder(Start) /\ Start.canRun = <<>> /\ Start.req = start /\ Start.prefixLen = PrefixLen
      /\ \A r \in Range(stagingQ) :
           /\ Parked(start[r], PrefixLen[r]) /\ Static(start[r], req[r])
           /\ start[r].phase \in Staging /\ start[r].ext > 0 /\ start[r].fill > 0
      /\ \A r \in Reqs : r \notin Range(stagingQ) => start[r] = req[r]
  BY StartOfRound
<1>4. /\ start \in [Reqs -> ReqType] /\ PrefixLen \in [Reqs -> Nat] /\ batchFull \in BOOLEAN
      /\ req \in [Reqs -> ReqType]
  BY <1>1, <1>3 DEF IsAdder, TypeOK
<1>5. ASSUME NEW r \in Q
      PROVE  Live(r) /\ RequestInv(r)
  <2>1. Live(r)
    BY <1>1, <1>2 DEF QueueFacts
  <2> QED BY <1>2, <2>1 DEF LoopInv
<1> HIDE DEF start, Q
<1>6. ASSUME NEW r \in Q, start[r].phase \in Staging
      PROVE  /\ Parked(start[r], PrefixLen[r]) /\ Static(start[r], req[r])
             /\ start[r].ext > 0
  <2>1. CASE r \in Range(stagingQ)
    BY <1>3, <2>1
  <2>2. CASE r \notin Range(stagingQ)
    <3>1. start[r] = req[r] /\ r \in Reqs
      BY <1>2, <1>3, <2>2
    <3>2. Parked(req[r], PrefixLen[r])
      BY <1>5, <1>6, <2>2, <3>1 DEF RequestInv
    <3>3. req[r].ext > 0
      <4> DEFINE len == PrefixLen[r]
                 q == req[r]
      <4>1. len \in Nat /\ BlockSize \in Nat \ {0} /\ q.prompt \in Nat /\ q.out \in Nat
        BY <1>4, <3>1, AdderAssumption DEF ReqType
      <4>2. len <= q.prompt + q.out /\ q.fill = q.prompt + q.out + BlockSize /\ q.ext = q.fill - len
        BY <3>2 DEF Parked, AtBlock, InStep
      <4> HIDE DEF len, q
      <4>3. q.ext > 0
        BY <4>1, <4>2
      <4> QED BY <4>3 DEF q
    <3> QED BY <3>1, <3>2, <3>3 DEF Static
  <2> QED BY <2>1, <2>2
<1>7. ASSUME NEW r \in Q, start[r].phase \notin Staging
      PROVE  /\ start[r] = req[r] /\ PrefixLen[r] = 0
             /\ InStep(req[r], 0) /\ NextOffset(req[r]) = 0
  <2>1. r \notin Range(stagingQ) /\ start[r] = req[r] /\ r \in Reqs
    BY ZenonT(30), <1>2, <1>3, <1>7
  <2>2. req[r].fill = 0 /\ row[r] = None /\ req[r].out = 0
    BY <1>5, <1>7, <2>1 DEF RequestInv
  <2>3. prefix[r] = <<>>
    BY <2>1, <2>2 DEF PoolFacts
  <2>4. PrefixLen[r] = 0
    BY <2>1, <2>3, EmptyPrefix DEF PrefixLen
  <2>5. req[r].prompt \in Nat
    BY <1>4, <2>1 DEF ReqType
  <2> QED BY <2>1, <2>2, <2>4, <2>5 DEF InStep, NextOffset
<1>8. /\ RoundOutcome(Start, Round.adder, Q)
      /\ Round.full \in BOOLEAN
  <2>1. /\ \A r \in Q : Start.req[r].phase \in Staging => Start.req[r].ext > 0
        /\ \A r \in Q : Start.req[r].phase \notin Staging => Start.prefixLen[r] = 0
    BY Zenon, <1>3, <1>6, <1>7
  <2> QED BY Zenon, <1>2, <1>3, <1>4, <2>1, RoundEffect DEF Round, Q
<1>9. ASSUME NEW r \in Q PROVE RoundOf(r)
  <2> DEFINE p == Round.adder.req[r]
             list == Range(Round.adder.canRun)
  <2>1. Live(r) /\ r \in Reqs /\ PrefixLen[r] \in Nat /\ req[r] \in ReqType /\ start[r] \in ReqType
    BY <1>2, <1>4, <1>5
  <2>2. CASE start[r].phase \in Staging
    <3>1. /\ Parked(start[r], PrefixLen[r]) /\ Static(start[r], req[r])
          /\ AtBlock(start[r], PrefixLen[r])
      BY <1>6, <2>2 DEF Parked
    <3>2. IF r \in list THEN \E e \in Nat \ {0} : p = ChargedReq(start[r], PrefixLen[r], e)
                        ELSE p = start[r]
      BY Zenon, <1>3, <1>8, <2>2 DEF RoundOutcome
    <3>3. CASE r \in list
      <4>1. PICK e \in Nat \ {0} : p = ChargedReq(start[r], PrefixLen[r], e)
        BY ZenonT(30), <3>2, <3>3
      <4>2. /\ Admitted(p, PrefixLen[r]) /\ Static(p, start[r])
            /\ p.phase \in Staging /\ p.fill > 0
        BY Zenon, <2>1, <2>2, <3>1, <4>1, ChargedBlock
      <4>3. Static(p, req[r])
        BY ZenonT(30), <3>1, <4>2 DEF Static
      <4> HIDE DEF p, list
      <4> QED BY Zenon, <2>1, <3>3, <4>2, <4>3 DEF RoundOf, p, list
    <3>4. CASE r \notin list
      BY Zenon, <2>1, <2>2, <3>1, <3>2, <3>4 DEF RoundOf
    <3> QED BY <3>3, <3>4
  <2>3. CASE start[r].phase \notin Staging
    <3> DEFINE q == InitNextRound(req[r], 0)
    <3>1. /\ start[r] = req[r] /\ PrefixLen[r] = 0
          /\ InStep(req[r], 0) /\ NextOffset(req[r]) = 0
      BY <1>7, <2>3
    <3>2. IF r \in list THEN \E e \in Nat \ {0} : p = ChargedReq(q, 0, e)
                        ELSE p \in {req[r], q}
      BY Zenon, <1>3, <1>8, <2>3, <3>1 DEF RoundOutcome
    <3>3. q \in ReqType /\ Parked(q, 0) /\ Static(q, req[r]) /\ q.phase \in Staging /\ AtBlock(q, 0)
      <4>1. 0 \in Nat
        OBVIOUS
      <4>2. q \in ReqType /\ Parked(q, 0) /\ Static(q, req[r]) /\ q.phase \in Staging
        BY Zenon, <2>1, <3>1, <4>1, NextBlock
      <4> QED BY Zenon, <4>2 DEF Parked
    <3> HIDE DEF q
    <3>4. CASE r \in list
      <4>1. PICK e \in Nat \ {0} : p = ChargedReq(q, 0, e)
        BY Zenon, <3>2, <3>4
      <4>2. /\ Admitted(p, 0) /\ Static(p, q)
            /\ p.phase \in Staging /\ p.fill > 0
        <5>1. 0 \in Nat
          OBVIOUS
        <5> QED BY Zenon, <3>3, <4>1, <5>1, ChargedBlock
      <4>3. Static(p, req[r])
        BY Zenon, <3>3, <4>2 DEF Static
      <4> HIDE DEF p, list
      <4> QED BY Zenon, <2>1, <3>1, <3>4, <4>2, <4>3 DEF RoundOf, p, list
    <3>5. CASE r \notin list /\ p = q
      <4> HIDE DEF p, list
      <4> QED BY Zenon, <2>1, <3>1, <3>3, <3>5 DEF RoundOf, p, list
    <3>6. CASE r \notin list /\ p = req[r]
      <4>1. Static(p, req[r]) /\ p.phase \notin Staging
        BY ZenonT(30), <2>3, <3>1, <3>6 DEF Static
      <4> HIDE DEF p, list
      <4> QED BY Zenon, <2>1, <3>6, <4>1 DEF RoundOf, p, list
    <3> QED BY <3>2, <3>4, <3>5, <3>6
  <2> QED BY <2>2, <2>3
<1>10. ASSUME NEW r \in Reqs \ Q PROVE Round.adder.req[r] = req[r]
  <2>1. r \notin Range(stagingQ)
    BY <1>1, <1>2, <1>10 DEF QueueFacts
  <2>2. Round.adder.req[r] = start[r]
    BY ZenonT(30), <1>3, <1>8 DEF RoundOutcome
  <2> QED BY <1>3, <2>1, <2>2
<1>11. /\ Round.adder.req \in [Reqs -> ReqType]
       /\ Round.adder.canRun \in Seq(Reqs) /\ IsInjective(Round.adder.canRun)
       /\ Range(Round.adder.canRun) \subseteq Q
  BY Zenon, <1>8 DEF RoundOutcome, IsAdder
<1> QED BY Zenon, <1>8, <1>9, <1>10, <1>11 DEF Q

=============================================================================

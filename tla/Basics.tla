------------------------------- MODULE Basics ------------------------------
(***************************************************************************)
(* Facts that the proofs about several components rest on: induction over  *)
(* 0 .. N, division, and that the recursive functions of the models are    *)
(* well defined.                                                           *)
(***************************************************************************)
EXTENDS Naturals, Sequences, WellFoundedInduction, TLAPS

LEMMA LeastOf ==
  ASSUME NEW S, S \subseteq Nat, S # {}
  PROVE  \E m \in S : \A k \in S : m <= k
PROOF
  <1> DEFINE R == {ss \in Nat \X Nat : ss[1] < ss[2]}
  <1>1. IsWellFoundedOn(R, Nat)
    BY NatLessThanWellFounded, Zenon DEF OpToRel
  <1> HIDE DEF R
  <1>2. PICK m \in S : \A k \in S : <<k, m>> \notin R
    BY <1>1, WFMin, Zenon
  <1>3. ASSUME NEW k \in S PROVE m <= k
    <2>1. m \in Nat /\ k \in Nat /\ <<k, m>> \notin R
      BY <1>2
    <2>2. k < m => <<k, m>> \in R
      BY <2>1 DEF R
    <2> QED BY <2>1, <2>2
  <1> QED BY <1>3

(* A set that has 0, and with each number below N the next one, has all of  *)
(* them up to N.                                                            *)
LEMMA Upwards ==
  ASSUME NEW N \in Nat, NEW T, 0 \in T,
         \A i \in 0 .. N : i # N /\ i \in T => i + 1 \in T
  PROVE  \A i \in 0 .. N : i \in T
PROOF
  <1> DEFINE Out == {i \in 0 .. N : i \notin T}
  <1>1. SUFFICES ASSUME Out # {} PROVE FALSE
    OBVIOUS
  <1>2. Out \subseteq Nat
    OBVIOUS
  <1> HIDE DEF Out
  <1>3. PICK m \in Out : \A k \in Out : m <= k
    BY <1>1, <1>2, LeastOf
  <1>4. m \in 0 .. N /\ m \notin T /\ m # 0
    BY <1>3 DEF Out
  <1>5. m - 1 \in 0 .. N /\ m - 1 # N /\ ~(m <= m - 1)
    BY <1>4
  <1>6. m - 1 \in T
    BY <1>3, <1>5 DEF Out
  <1>7. (m - 1) + 1 \in T
    BY <1>5, <1>6
  <1> QED BY <1>4, <1>7

(* The walk through a list from the cell first, up to N links: Pmu, Tasks   *)
(* and TaskList have one each.                                              *)
Trail(N, first, null, succ) ==
  LET at[i \in 0 .. N] ==
        IF i = 0 THEN first
        ELSE IF at[i - 1] = null THEN null ELSE succ[at[i - 1]]
  IN  at

LEMMA TrailSteps ==
  ASSUME NEW N \in Nat, NEW first, NEW null, NEW succ
  PROVE  LET at == Trail(N, first, null, succ) IN
         /\ at[0] = first
         /\ \A i \in 1 .. N : at[i] = IF at[i - 1] = null THEN null ELSE succ[at[i - 1]]
PROOF
  <1> DEFINE Step(x) == IF x = null THEN null ELSE succ[x]
             Walks(f, k) == f[0] = first /\ \A i \in 1 .. k : f[i] = Step(f[i - 1])
             T == {k \in 0 .. N : \E f : Walks(f, k)}
  <1>1. 0 \in T
    <2>1. Walks([i \in {0} |-> first], 0)
      OBVIOUS
    <2>2. \E f : Walks(f, 0)
      BY <2>1, Zenon
    <2>3. 0 \in 0 .. N
      OBVIOUS
    <2> HIDE DEF Walks
    <2> QED BY <2>2, <2>3, Zenon
  <1>2. ASSUME NEW k \in 0 .. N, k # N, k \in T
        PROVE  k + 1 \in T
    <2>1. PICK f : Walks(f, k)
      BY <1>2
    <2> DEFINE g == [i \in 0 .. k + 1 |-> IF i = k + 1 THEN Step(f[k]) ELSE f[i]]
    <2> HIDE DEF Step
    <2>2. g[0] = first
      BY <2>1
    <2>3. \A i \in 1 .. k + 1 : g[i] = Step(g[i - 1])
      BY <2>1
    <2>4. k + 1 \in 0 .. N
      BY <1>2
    <2> HIDE DEF g
    <2> QED BY <2>2, <2>3, <2>4
  <1>3. N \in T
    <2>1. N \in 0 .. N
      OBVIOUS
    <2> HIDE DEF T
    <2> QED BY <1>1, <1>2, <2>1, Upwards
  <1>4. PICK f : Walks(f, N)
    BY <1>3
  <1> DEFINE at == [i \in 0 .. N |-> f[i]]
             Is(g) == g = [i \in 0 .. N |->
                IF i = 0 THEN first ELSE IF g[i - 1] = null THEN null ELSE succ[g[i - 1]]]
             w == Trail(N, first, null, succ)
  <1>5. Is(at)
    BY <1>4
  <1>6. w = CHOOSE g : Is(g)
    BY DEF Trail
  <1>7. Is(w)
    <2> HIDE DEF Is, at, w
    <2> QED BY <1>5, <1>6, Zenon
  <1> HIDE DEF w
  <1>8. w[0] = first /\ \A i \in 1 .. N : w[i] = IF w[i - 1] = null THEN null ELSE succ[w[i - 1]]
    BY <1>7
  <1> QED BY <1>8 DEF w

(* A function on all numbers that is defined by a first value and a step    *)
Orbit(first, succ) ==
  LET at[i \in Nat] == IF i = 0 THEN first ELSE succ[at[i - 1]] IN at

LEMMA OrbitSteps ==
  ASSUME NEW first, NEW succ
  PROVE  /\ Orbit(first, succ)[0] = first
         /\ \A c \in Nat : Orbit(first, succ)[c + 1] = succ[Orbit(first, succ)[c]]
PROOF
  <1> DEFINE Goes(f, k) == f[0] = first /\ \A i \in 1 .. k : f[i] = succ[f[i - 1]]
             Some(k) == CHOOSE f : Goes(f, k)
             at == [k \in Nat |-> Some(k)[k]]
  <1>1. ASSUME NEW N \in Nat PROVE \E f : Goes(f, N)
    <2> DEFINE T == {k \in 0 .. N : \E f : Goes(f, k)}
    <2>1. 0 \in T
      <3>1. Goes([i \in {0} |-> first], 0)
        OBVIOUS
      <3>2. \E f : Goes(f, 0)
        BY <3>1, Zenon
      <3>3. 0 \in 0 .. N
        OBVIOUS
      <3> HIDE DEF Goes
      <3> QED BY <3>2, <3>3, Zenon
    <2>2. ASSUME NEW k \in 0 .. N, k # N, k \in T
          PROVE  k + 1 \in T
      <3>1. PICK f : Goes(f, k)
        BY <2>2
      <3> DEFINE g == [i \in 0 .. k + 1 |-> IF i = k + 1 THEN succ[f[k]] ELSE f[i]]
      <3>2. g[0] = first
        BY <3>1
      <3>3. \A i \in 1 .. k + 1 : g[i] = succ[g[i - 1]]
        BY <3>1
      <3>4. k + 1 \in 0 .. N
        BY <2>2
      <3> HIDE DEF g
      <3> QED BY <3>2, <3>3, <3>4
    <2>3. N \in T
      <3>1. N \in 0 .. N
        OBVIOUS
      <3> HIDE DEF T
      <3> QED BY <2>1, <2>2, <3>1, Upwards
    <2> QED BY <2>3
  <1>2. ASSUME NEW f, NEW g, NEW k \in Nat, Goes(f, k), Goes(g, k + 1)
        PROVE  f[k] = g[k]
    <2> DEFINE T == {i \in 0 .. k : f[i] = g[i]}
    <2>1. 0 \in T
      BY <1>2
    <2>2. ASSUME NEW i \in 0 .. k, i # k, i \in T
          PROVE  i + 1 \in T
      <3>1. i + 1 \in 1 .. k /\ i + 1 \in 1 .. k + 1 /\ (i + 1) - 1 = i /\ f[i] = g[i]
        BY <2>2
      <3>2. f[i + 1] = succ[f[i]] /\ g[i + 1] = succ[g[i]]
        BY <1>2, <3>1
      <3> QED BY <3>1, <3>2
    <2>3. k \in T
      <3>1. k \in 0 .. k
        OBVIOUS
      <3> HIDE DEF T
      <3> QED BY <2>1, <2>2, <3>1, Upwards
    <2> QED BY <2>3
  <1>3. ASSUME NEW k \in Nat PROVE Goes(Some(k), k)
    <2>1. \E f : Goes(f, k)
      BY <1>1
    <2> HIDE DEF Goes
    <2> QED BY <2>1, Zenon
  <1>4. at[0] = first
    BY <1>3
  <1>5. ASSUME NEW k \in Nat PROVE at[k + 1] = succ[at[k]]
    <2>1. k + 1 \in Nat /\ k + 1 \in 1 .. k + 1 /\ (k + 1) - 1 = k
      OBVIOUS
    <2>2. Goes(Some(k), k) /\ Goes(Some(k + 1), k + 1)
      BY <1>3, <2>1
    <2>3. Some(k)[k] = Some(k + 1)[k]
      <3> HIDE DEF Goes, Some
      <3> QED BY <1>2, <2>2
    <2>4. at[k] = Some(k)[k] /\ at[k + 1] = Some(k + 1)[k + 1]
      BY <2>1
    <2> HIDE DEF Some
    <2> QED BY <2>1, <2>2, <2>3, <2>4
  <1>6. DOMAIN at = Nat
    OBVIOUS
  <1> HIDE DEF at
  <1>7. ASSUME NEW i \in Nat
        PROVE  at[i] = IF i = 0 THEN first ELSE succ[at[i - 1]]
    <2>1. CASE i = 0
      BY <1>4, <2>1
    <2>2. CASE i # 0
      <3>1. i - 1 \in Nat /\ (i - 1) + 1 = i
        BY <2>2
      <3>2. at[(i - 1) + 1] = succ[at[i - 1]]
        BY <1>5, <3>1
      <3> QED BY <2>2, <3>1, <3>2
    <2> QED BY <2>1, <2>2
  <1> DEFINE Is(f) == f = [i \in Nat |-> IF i = 0 THEN first ELSE succ[f[i - 1]]]
             w == Orbit(first, succ)
  <1>8. Is(at)
    <2>1. at = [i \in Nat |-> at[i]]
      BY <1>6 DEF at
    <2> QED BY <1>7, <2>1
  <1>9. w = CHOOSE f : Is(f)
    BY DEF Orbit
  <1>10. Is(w)
    <2> HIDE DEF Is, w
    <2> QED BY <1>8, <1>9, Zenon
  <1> HIDE DEF w
  <1>11. w[0] = first
    BY <1>10
  <1>12. ASSUME NEW c \in Nat PROVE w[c + 1] = succ[w[c]]
    <2>1. c + 1 \in Nat /\ c + 1 # 0 /\ (c + 1) - 1 = c
      OBVIOUS
    <2> QED BY <1>10, <2>1
  <1> QED BY <1>11, <1>12 DEF w

(* Functions that are defined by a first value and a step                   *)
Stepping(step, N, D) == step \in [1 .. N -> [D -> D]]
Follows(at, N, D, first, step) ==
  at \in [0 .. N -> D] /\ at[0] = first /\ \A i \in 1 .. N : at[i] = step[i][at[i - 1]]

LEMMA StepsExist ==
  ASSUME NEW N \in Nat, NEW D, NEW first \in D, NEW step, Stepping(step, N, D)
  PROVE  \E at : Follows(at, N, D, first, step)
PROOF
  <1>0. step \in [1 .. N -> [D -> D]]
    BY DEF Stepping
  <1> DEFINE Goes(f, k) == f[0] = first /\ \A i \in 1 .. k : f[i] = step[i][f[i - 1]]
             T == {k \in 0 .. N : \E f \in [0 .. k -> D] : Goes(f, k)}
  <1>1. 0 \in T
    <2>1. Goes([i \in 0 .. 0 |-> first], 0) /\ [i \in 0 .. 0 |-> first] \in [0 .. 0 -> D]
      OBVIOUS
    <2>2. \E f \in [0 .. 0 -> D] : Goes(f, 0)
      BY <2>1, Zenon
    <2>3. 0 \in 0 .. N
      OBVIOUS
    <2> HIDE DEF Goes
    <2> QED BY <2>2, <2>3, Zenon
  <1>2. ASSUME NEW k \in 0 .. N, k # N, k \in T
        PROVE  k + 1 \in T
    <2>1. PICK f \in [0 .. k -> D] : Goes(f, k)
      BY <1>2
    <2> DEFINE g == [i \in 0 .. k + 1 |-> IF i = k + 1 THEN step[k + 1][f[k]] ELSE f[i]]
    <2>2. f[k] \in D /\ step[k + 1][f[k]] \in D
      BY <1>0, <1>2
    <2>3. g[0] = first
      BY <2>1
    <2>4. ASSUME NEW i \in 1 .. k + 1 PROVE g[i] = step[i][g[i - 1]]
      <3>1. i \in 0 .. k + 1 /\ i - 1 \in 0 .. k + 1 /\ i - 1 \in 0 .. k /\ i - 1 # k + 1
        BY <1>2
      <3>2. g[i - 1] = f[i - 1]
        BY <3>1
      <3>3. CASE i = k + 1
        <4>1. i - 1 = k /\ g[i] = step[i][f[k]]
          BY <3>1, <3>3
        <4> QED BY <3>2, <4>1
      <3>4. CASE i # k + 1
        <4>1. i \in 1 .. k /\ g[i] = f[i]
          BY <3>1, <3>4
        <4>2. f[i] = step[i][f[i - 1]]
          BY <2>1, <4>1
        <4> QED BY <3>2, <4>1, <4>2
      <3> QED BY <3>3, <3>4
    <2>5. k + 1 \in 0 .. N /\ g \in [0 .. k + 1 -> D]
      BY <1>2, <2>2
    <2> HIDE DEF g
    <2> QED BY <2>3, <2>4, <2>5
  <1>3. N \in T
    <2>1. N \in 0 .. N
      OBVIOUS
    <2> HIDE DEF T
    <2> QED BY <1>1, <1>2, <2>1, Upwards
  <1> QED BY <1>3 DEF Follows

-----------------------------------------------------------------------------
(* Division with remainder                                                  *)
LEMMA DivMod ==
  ASSUME NEW a \in Nat, NEW m \in Nat, m > 0
  PROVE  /\ a \div m \in Nat /\ a % m \in 0 .. m - 1
         /\ a = m * (a \div m) + (a % m)
OBVIOUS

LEMMA DivIs ==
  ASSUME NEW a \in Nat, NEW q \in Nat, NEW m \in Nat, m > 0, NEW r \in 0 .. m - 1,
         a = m * q + r
  PROVE  a \div m = q /\ a % m = r
OBVIOUS

LEMMA DivLess ==
  ASSUME NEW a \in Nat, NEW m \in Nat, m > 0, a < m
  PROVE  a \div m = 0 /\ a % m = a
OBVIOUS

LEMMA DivOrder ==
  ASSUME NEW a \in Nat, NEW b \in Nat, NEW m \in Nat, m > 0, a <= b
  PROVE  a \div m <= b \div m
OBVIOUS

-----------------------------------------------------------------------------
(***************************************************************************)
(* Sequences that are put together from pieces: what they consist of, and  *)
(* when no element of them repeats.                                        *)
(***************************************************************************)
Elements(q) == {q[i] : i \in 1 .. Len(q)}
Distinct(q) == \A i, j \in 1 .. Len(q) : q[i] = q[j] => i = j

LEMMA HeadAndTail ==
  ASSUME NEW S, NEW q \in Seq(S), q # << >>
  PROVE  /\ Head(q) \in S /\ Tail(q) \in Seq(S)
         /\ Elements(q) = {Head(q)} \cup Elements(Tail(q))
         /\ Distinct(q) => Distinct(Tail(q)) /\ Head(q) \notin Elements(Tail(q))
PROOF
  <1> DEFINE r == Tail(q)
             n == Len(q)
  <1>1. /\ n \in Nat /\ n > 0 /\ r \in Seq(S) /\ Len(r) = n - 1 /\ Head(q) = q[1] /\ q[1] \in S
        /\ \A i \in 1 .. n - 1 : r[i] = q[i + 1]
    OBVIOUS
  <1> HIDE DEF r
  <1>2. \A x \in Elements(r) : \E i \in 1 .. n : i # 1 /\ q[i] = x
    <2>1. SUFFICES ASSUME NEW i \in 1 .. n - 1
                   PROVE  \E k \in 1 .. n : k # 1 /\ q[k] = r[i]
      BY <1>1 DEF Elements
    <2>2. i + 1 \in 1 .. n /\ i + 1 # 1 /\ q[i + 1] = r[i]
      BY <1>1
    <2> QED BY <2>2
  <1>3. \A i \in 1 .. n : i = 1 \/ q[i] \in Elements(r)
    <2>1. SUFFICES ASSUME NEW i \in 1 .. n, i # 1
                   PROVE  q[i] \in Elements(r)
      OBVIOUS
    <2>2. i - 1 \in 1 .. Len(r) /\ r[i - 1] = q[i]
      BY <1>1, <2>1
    <2> QED BY <2>2 DEF Elements
  <1>4. 1 \in 1 .. n
    BY <1>1
  <1>5. Elements(q) = {q[1]} \cup Elements(r)
    BY <1>2, <1>3, <1>4 DEF Elements
  <1>6. ASSUME Distinct(q)
        PROVE  Distinct(r) /\ q[1] \notin Elements(r)
    <2>1. q[1] \notin Elements(r)
      BY <1>2, <1>4, <1>6 DEF Distinct
    <2>2. ASSUME NEW i \in 1 .. Len(r), NEW j \in 1 .. Len(r), r[i] = r[j]
          PROVE  i = j
      <3>1. i + 1 \in 1 .. n /\ j + 1 \in 1 .. n /\ q[i + 1] = q[j + 1]
        BY <1>1, <2>2
      <3>2. i + 1 = j + 1
        BY <1>6, <3>1 DEF Distinct
      <3> QED BY <1>1, <3>2
    <2> QED BY <2>1, <2>2 DEF Distinct
  <1> QED BY <1>1, <1>5, <1>6 DEF r

LEMMA Concatenation ==
  ASSUME NEW S, NEW p \in Seq(S), NEW q \in Seq(S)
  PROVE  /\ p \o q \in Seq(S)
         /\ Elements(p \o q) = Elements(p) \cup Elements(q)
         /\ Distinct(p) /\ Distinct(q) /\ Elements(p) \cap Elements(q) = {} => Distinct(p \o q)
PROOF
  <1> DEFINE r == p \o q
             m == Len(p)
             n == Len(q)
  <1>1. /\ m \in Nat /\ n \in Nat /\ Len(r) = m + n /\ r \in Seq(S)
        /\ \A i \in 1 .. m + n : r[i] = IF i <= m THEN p[i] ELSE q[i - m]
    OBVIOUS
  <1> HIDE DEF r
  <1>2. \A i \in 1 .. m : i \in 1 .. Len(r) /\ r[i] = p[i]
    BY <1>1
  <1>3. ASSUME NEW i \in 1 .. n PROVE i + m \in 1 .. Len(r) /\ r[i + m] = q[i]
    <2>1. i + m \in 1 .. m + n /\ ~(i + m <= m) /\ (i + m) - m = i
      BY <1>1
    <2> QED BY <1>1, <2>1
  <1>4. ASSUME NEW i \in 1 .. Len(r)
        PROVE  \/ i \in 1 .. m /\ r[i] = p[i]
               \/ i - m \in 1 .. n /\ r[i] = q[i - m]
    BY <1>1
  <1> HIDE DEF m, n
  <1>5. Elements(r) = Elements(p) \cup Elements(q)
    <2>1. ASSUME NEW x \in Elements(r) PROVE x \in Elements(p) \cup Elements(q)
      <3>1. PICK i \in 1 .. Len(r) : r[i] = x
        BY DEF Elements
      <3> QED BY <1>4, <3>1 DEF Elements, m, n
    <2>2. ASSUME NEW x \in Elements(p) PROVE x \in Elements(r)
      <3>1. PICK i \in 1 .. m : p[i] = x
        BY DEF Elements, m
      <3> QED BY <1>2, <3>1 DEF Elements
    <2>3. ASSUME NEW x \in Elements(q) PROVE x \in Elements(r)
      <3>1. PICK i \in 1 .. n : q[i] = x
        BY DEF Elements, n
      <3> QED BY <1>3, <3>1 DEF Elements
    <2> QED BY <2>1, <2>2, <2>3
  <1>6. ASSUME Distinct(p), Distinct(q), Elements(p) \cap Elements(q) = {}
        PROVE  Distinct(r)
    <2>1. \A i \in 1 .. m, j \in 1 .. n : p[i] # q[j]
      BY <1>6 DEF Elements, m, n
    <2>2. ASSUME NEW i \in 1 .. Len(r), NEW j \in 1 .. Len(r), r[i] = r[j]
          PROVE  i = j
      <3>1. CASE i \in 1 .. m /\ j \in 1 .. m /\ r[i] = p[i] /\ r[j] = p[j]
        BY <1>6, <2>2, <3>1 DEF Distinct, m
      <3>2. CASE i - m \in 1 .. n /\ j - m \in 1 .. n /\ r[i] = q[i - m] /\ r[j] = q[j - m]
        <4>1. i - m = j - m
          BY <1>6, <2>2, <3>2 DEF Distinct, n
        <4> QED BY <1>1, <4>1
      <3> QED BY <1>4, <2>1, <2>2, <3>1, <3>2
    <2> QED BY <2>2 DEF Distinct
  <1> QED BY <1>1, <1>5, <1>6 DEF r

LEMMA PiecesExist ==
  ASSUME NEW N \in Nat, NEW S, NEW piece \in [1 .. N -> Seq(S)]
  PROVE  \E at : at = [k \in 0 .. N |-> IF k = 0 THEN << >> ELSE at[k - 1] \o piece[k]]
PROOF
  <1> DEFINE step == [k \in 1 .. N |-> [q \in Seq(S) |-> q \o piece[k]]]
  <1>1. ASSUME NEW k \in 1 .. N, NEW q \in Seq(S)
        PROVE  q \o piece[k] \in Seq(S) /\ step[k][q] = q \o piece[k]
    <2>1. piece[k] \in Seq(S)
      OBVIOUS
    <2> QED BY <2>1
  <1>2. Stepping(step, N, Seq(S))
    BY <1>1 DEF Stepping
  <1> HIDE DEF step
  <1>0. PICK at : Follows(at, N, Seq(S), << >>, step)
    <2>1. << >> \in Seq(S)
      OBVIOUS
    <2> QED BY <1>2, <2>1, StepsExist
  <1>3. /\ at \in [0 .. N -> Seq(S)] /\ at[0] = << >>
        /\ \A k \in 1 .. N : at[k] = step[k][at[k - 1]]
    BY <1>0 DEF Follows
  <1>4. ASSUME NEW k \in 0 .. N
        PROVE  at[k] = IF k = 0 THEN << >> ELSE at[k - 1] \o piece[k]
    <2>1. CASE k = 0
      BY <1>3, <2>1
    <2>2. CASE k # 0
      <3>0. k \in 1 .. N /\ k - 1 \in 0 .. N
        BY <2>2
      <3>1. k \in 1 .. N /\ k - 1 \in 0 .. N /\ at[k - 1] \in Seq(S)
        BY <1>3, <3>0, Zenon
      <3>2. at[k] = step[k][at[k - 1]]
        BY <1>3, <3>1
      <3> QED BY <1>1, <2>2, <3>1, <3>2
    <2> QED BY <2>1, <2>2
  <1>5. at = [k \in 0 .. N |-> IF k = 0 THEN << >> ELSE at[k - 1] \o piece[k]]
    BY <1>3, <1>4
  <1> QED BY <1>5

LEMMA PiecesAre ==
  ASSUME NEW N \in Nat, NEW S, NEW piece \in [1 .. N -> Seq(S)],
         NEW at, at = [k \in 0 .. N |-> IF k = 0 THEN << >> ELSE at[k - 1] \o piece[k]]
  PROVE  /\ at[N] \in Seq(S)
         /\ Elements(at[N]) = UNION {Elements(piece[l]) : l \in 1 .. N}
         /\ /\ \A l \in 1 .. N : Distinct(piece[l])
            /\ \A l, m \in 1 .. N : l # m => Elements(piece[l]) \cap Elements(piece[m]) = {}
            => Distinct(at[N])
PROOF
  <1> DEFINE Parts(k) == UNION {Elements(piece[l]) : l \in 1 .. k}
             Apart == /\ \A l \in 1 .. N : Distinct(piece[l])
                      /\ \A l, m \in 1 .. N : l # m => Elements(piece[l]) \cap Elements(piece[m]) = {}
             Good(k) == /\ at[k] \in Seq(S) /\ Elements(at[k]) = Parts(k)
                        /\ Apart => Distinct(at[k])
             T == {k \in 0 .. N : Good(k)}
  <1>1. 0 \in T
    <2>1. at[0] = << >> /\ 0 \in 0 .. N
      OBVIOUS
    <2>2. Elements(<< >>) = {} /\ Distinct(<< >>) /\ << >> \in Seq(S)
      BY DEF Elements, Distinct
    <2>3. Parts(0) = {}
      OBVIOUS
    <2> HIDE DEF Parts, Apart
    <2> QED BY <2>1, <2>2, <2>3
  <1>2. ASSUME NEW k \in 0 .. N, k # N, k \in T
        PROVE  k + 1 \in T
    <2>1. k + 1 \in 1 .. N /\ k + 1 \in 0 .. N /\ (k + 1) - 1 = k /\ k + 1 # 0
      BY <1>2
    <2>2. at[k + 1] = at[k] \o piece[k + 1] /\ piece[k + 1] \in Seq(S)
      BY <2>1
    <2>3. Good(k)
      BY <1>2
    <2>4. Parts(k + 1) = Parts(k) \cup Elements(piece[k + 1])
      <3>1. \A l : l \in 1 .. k + 1 <=> l \in 1 .. k \/ l = k + 1
        BY <2>1
      <3> QED BY <3>1
    <2>5. Apart => Parts(k) \cap Elements(piece[k + 1]) = {}
      <3>1. \A l \in 1 .. k : l \in 1 .. N /\ l # k + 1
        BY <2>1
      <3> QED BY <2>1, <3>1
    <2>6. Apart => Distinct(piece[k + 1])
      BY <2>1
    <2>7. /\ at[k + 1] \in Seq(S)
          /\ Elements(at[k + 1]) = Elements(at[k]) \cup Elements(piece[k + 1])
          /\ /\ Distinct(at[k]) /\ Distinct(piece[k + 1])
             /\ Elements(at[k]) \cap Elements(piece[k + 1]) = {}
             => Distinct(at[k + 1])
      <3> DEFINE p == at[k]
                 q == piece[k + 1]
      <3>1. p \in Seq(S) /\ q \in Seq(S) /\ at[k + 1] = p \o q
        BY <2>2, <2>3
      <3> HIDE DEF p, q
      <3>2. /\ p \o q \in Seq(S)
            /\ Elements(p \o q) = Elements(p) \cup Elements(q)
            /\ Distinct(p) /\ Distinct(q) /\ Elements(p) \cap Elements(q) = {} => Distinct(p \o q)
        BY <3>1, Concatenation
      <3> QED BY <3>1, <3>2 DEF p, q
    <2> HIDE DEF Parts, Apart
    <2> QED BY <2>1, <2>3, <2>4, <2>5, <2>6, <2>7
  <1>3. N \in T
    <2>1. N \in 0 .. N
      OBVIOUS
    <2> HIDE DEF T
    <2> QED BY <1>1, <1>2, <2>1, Upwards
  <1> QED BY <1>3
=============================================================================

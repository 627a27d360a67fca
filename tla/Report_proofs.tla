---------------------------- MODULE Report_proofs ----------------------------
(***************************************************************************)
(* Theorems about the two halves of a report.  The selection of its events *)
(* is fair for every budget, every set of kinds, any number of events and  *)
(* any order of theirs.  Its numbers are the guest's, or marked, for every *)
(* set of manifests, watch lists and rates, any number of guest operations *)
(* and snapshots, wherever the recording ends; and the audit counts its    *)
(* units.                                                                  *)
(***************************************************************************)
EXTENDS EventSelection, ReportAudit, Counting

---------------------------------------------------------------------------
(* Quotas.                                                                  *)

\* Kinds that occur, each at a place of its own.
Placed(S) ==
  /\ IsFiniteSet(S)
  /\ \A k \in S : raw[k] \in Nat \ {0}
  /\ \E n \in Nat : \A k \in S : Place(k) \in 1 .. n
  /\ \A j, k \in S : Place(j) = Place(k) => j = k

\* The totals of the selection are the sums of Counting.
LEMMA TotalIsSum == ASSUME NEW S, NEW f PROVE Total(S, f) = SumOver(f, S)
BY DEF Total, SumOver

\* The kinds before one, by their places.
LEMMA EarlierIsBefore ==
  ASSUME NEW S, NEW k \in S
  PROVE  Earlier(S, k) = Preceding(S, [j \in S |-> Place(j)], k)
BY DEF Earlier, Preceding

\* What a running total gains adds up, for the places of the kinds.
LEMMA KindsTelescope ==
  ASSUME NEW S, Placed(S), NEW f, \A k \in S : f[k] \in Nat,
         NEW H, \A x \in Nat : H[x] \in Int,
         NEW g, \A k \in S : g[k] = H[Total(Earlier(S, k), f) + f[k]] - H[Total(Earlier(S, k), f)]
  PROVE  SumOver(g, S) = H[SumOver(f, S)] - H[0]
<1> DEFINE P == [j \in S |-> Place(j)]
<1>1. PICK n \in Nat : \A k \in S : Place(k) \in 1 .. n
  BY DEF Placed
<1>2. P \in [S -> 1 .. n] /\ \A j, k \in S : P[j] = P[k] => j = k
  BY <1>1 DEF Placed
<1>3. \A k \in S : g[k] = H[SumOver(f, Preceding(S, P, k)) + f[k]] - H[SumOver(f, Preceding(S, P, k))]
  <2> SUFFICES ASSUME NEW k \in S
               PROVE  g[k] = H[SumOver(f, Preceding(S, P, k)) + f[k]] - H[SumOver(f, Preceding(S, P, k))]
    OBVIOUS
  <2>1. Earlier(S, k) = Preceding(S, P, k)
    BY EarlierIsBefore
  <2> HIDE DEF P
  <2>2. Total(Earlier(S, k), f) = SumOver(f, Preceding(S, P, k))
    BY <2>1, TotalIsSum
  <2> QED BY <2>2
<1>4. IsFiniteSet(S)
  BY DEF Placed
<1> HIDE DEF P
<1> QED BY <1>2, <1>3, <1>4, Telescope

\* What the floor leaves of the budget, and of the kinds.
LEMMA FloorFacts ==
  ASSUME SelectionAssumption, NEW S, Placed(S), S # {}, NEW B \in Nat, B <= SumOver(raw, S)
  PROVE  /\ FloorOf(S, B) \in Nat
         /\ FloorOf(S, B) = 0 => B < Cardinality(S)
         /\ \A k \in S : /\ BaseOf(S, B)[k] \in 0 .. raw[k] /\ raw[k] \in Nat
                         /\ ResidualOf(S, B)[k] = raw[k] - BaseOf(S, B)[k]
                         /\ raw[k] <= FloorOf(S, B) => BaseOf(S, B)[k] = raw[k]
         /\ SumOver(BaseOf(S, B), S) \in 0 .. B
         /\ SumOver(ResidualOf(S, B), S) \in Nat
         /\ SumOver(raw, S) = SumOver(BaseOf(S, B), S) + SumOver(ResidualOf(S, B), S)
<1> DEFINE n == Cardinality(S)  F == FloorOf(S, B)  d == B \div n
<1>1. IsFiniteSet(S) /\ n \in Nat /\ n > 0
  BY FS_CardinalityType, FS_EmptySet DEF Placed
<1>2. MinKind \in Nat /\ MinKind > 0
  BY DEF SelectionAssumption
<1>3. d \in Nat /\ B % n \in Nat /\ B % n < n /\ B = n * d + (B % n)
  BY <1>1, DivRem
<1>4. F = IF MinKind <= d THEN MinKind ELSE d
  BY <1>2, <1>3, MinOfTwo DEF FloorOf
<1>5. ASSUME F = 0 PROVE B < n
  <2>1. d = 0
    BY <1>2, <1>4, <1>5
  <2>2. n * d = 0
    BY <1>1, <2>1
  <2> QED BY <1>3, <2>2
<1> HIDE DEF n, d
<1>6. F \in Nat /\ F <= d
  BY <1>2, <1>3, <1>4
<1>7. F * n <= B
  <2>1. F * n <= d * n
    BY <1>1, <1>3, <1>6
  <2>2. d * n = n * d /\ n * d \in Nat /\ F * n \in Nat
    BY <1>1, <1>3, <1>6
  <2> QED BY <1>3, <2>1, <2>2
<1> HIDE DEF F
<1>8. \A k \in S : /\ BaseOf(S, B)[k] \in 0 .. raw[k] /\ raw[k] \in Nat
                   /\ ResidualOf(S, B)[k] = raw[k] - BaseOf(S, B)[k]
                   /\ raw[k] <= F => BaseOf(S, B)[k] = raw[k]
                   /\ BaseOf(S, B)[k] <= F
  <2> SUFFICES ASSUME NEW k \in S
               PROVE  /\ BaseOf(S, B)[k] \in 0 .. raw[k] /\ raw[k] \in Nat
                      /\ ResidualOf(S, B)[k] = raw[k] - BaseOf(S, B)[k]
                      /\ raw[k] <= F => BaseOf(S, B)[k] = raw[k]
                      /\ BaseOf(S, B)[k] <= F
    OBVIOUS
  <2>1. raw[k] \in Nat
    BY DEF Placed
  <2>2. BaseOf(S, B)[k] = IF raw[k] <= F THEN raw[k] ELSE F
    BY <1>6, <2>1, MinOfTwo DEF BaseOf, F
  <2>3. ResidualOf(S, B)[k] = raw[k] - BaseOf(S, B)[k]
    BY DEF ResidualOf
  <2> QED BY <1>6, <2>1, <2>2, <2>3
<1> DEFINE base == BaseOf(S, B)  residual == ResidualOf(S, B)  top == [k \in S |-> F]
<1> HIDE DEF base, residual
<1>9. \A k \in S : /\ base[k] \in Nat /\ residual[k] \in Nat /\ raw[k] = base[k] + residual[k]
                   /\ base[k] \in Int /\ residual[k] \in Int /\ base[k] <= F /\ F \in Int
  BY <1>6, <1>8 DEF base, residual
<1>10. SumOver(base, S) \in Nat /\ SumOver(residual, S) \in Nat
  BY <1>1, <1>9, SumIsNat
<1>11. SumOver(raw, S) = SumOver(base, S) + SumOver(residual, S)
  BY <1>1, <1>9, SumAdd
<1>12. SumOver(base, S) <= B
  <2>1. \A k \in S : top[k] = F /\ top[k] \in Int /\ base[k] <= top[k] /\ base[k] \in Int
    BY <1>6, <1>9
  <2> HIDE DEF top
  <2>2. SumOver(top, S) = F * n
    BY <1>1, <1>6, <2>1, SumConstant DEF n
  <2>3. SumOver(base, S) <= SumOver(top, S)
    BY <1>1, <2>1, SumLeq
  <2>4. F * n \in Int
    BY <1>1, <1>6
  <2> QED BY <1>7, <1>10, <2>2, <2>3, <2>4
<1> QED BY <1>5, <1>6, <1>8, <1>10, <1>11, <1>12 DEF F, n, base, residual

\* Every kind gets at most its events, a rare one all of them, and the quotas
\* use up the budget.
LEMMA Quotas ==
  ASSUME SelectionAssumption, NEW S, Placed(S), NEW B \in Nat, B <= SumOver(raw, S)
  PROVE  /\ \A k \in S : /\ QuotaOf(S, B, k) \in 0 .. raw[k]
                         /\ raw[k] <= FloorOf(S, B) => QuotaOf(S, B, k) = raw[k]
         /\ SumOver([k \in S |-> QuotaOf(S, B, k)], S) = B
<1> DEFINE q == [k \in S |-> QuotaOf(S, B, k)]
<1>1. CASE S = {}
  <2>1. SumOver(q, S) = 0 /\ SumOver(raw, S) = 0
    BY <1>1, SumEmpty
  <2> QED BY <1>1, <2>1
<1>2. CASE S # {}
  <2> DEFINE base == BaseOf(S, B)  residual == ResidualOf(S, B)  F == FloorOf(S, B)
             rest == B - SumOver(base, S)  all == SumOver(residual, S)
             up(k) == Total(Earlier(S, k), residual)
  <2>0. IsFiniteSet(S) /\ \A k \in S : raw[k] \in Nat \ {0}
    BY DEF Placed
  <2>1. /\ F \in Nat /\ F = 0 => B < Cardinality(S)
        /\ \A k \in S : /\ base[k] \in 0 .. raw[k] /\ raw[k] \in Nat
                        /\ residual[k] = raw[k] - base[k]
                        /\ raw[k] <= F => base[k] = raw[k]
        /\ SumOver(base, S) \in 0 .. B /\ all \in Nat
        /\ SumOver(raw, S) = SumOver(base, S) + all
    BY <1>2, FloorFacts
  <2>2. \A k \in S : QuotaOf(S, B, k) =
          IF F = 0 THEN IF Cardinality(Earlier(S, k)) < B THEN 1 ELSE 0
          ELSE IF all = 0 THEN base[k]
          ELSE base[k] + (((up(k) + residual[k]) * rest) \div all) - ((up(k) * rest) \div all)
    BY TotalIsSum DEF QuotaOf
  <2> HIDE DEF base, residual, F
  <2>3. rest \in Nat /\ rest <= all
    BY <2>1
  <2>4. \A k \in S : up(k) \in Nat /\ residual[k] \in Nat
    <3> SUFFICES ASSUME NEW k \in S PROVE up(k) \in Nat /\ residual[k] \in Nat
      OBVIOUS
    <3>1. \A j \in S : residual[j] \in Nat
      BY <2>1
    <3>2. IsFiniteSet(Earlier(S, k)) /\ \A j \in Earlier(S, k) : residual[j] \in Nat
      BY <2>0, <3>1, FS_Subset DEF Earlier
    <3> QED BY <3>1, <3>2, SumIsNat, TotalIsSum
  <2>5. CASE F = 0
    <3>1. \A k \in S : q[k] = IF Cardinality(Earlier(S, k)) < B THEN 1 ELSE 0
      BY <2>2, <2>5
    <3> DEFINE one == [k \in S |-> 1]  H == [x \in Nat |-> IF x < B THEN x ELSE B]
    <3>2. (\A k \in S : one[k] = 1 /\ one[k] \in Nat) /\ (\A x \in Nat : H[x] \in Int) /\ H[0] = 0
      OBVIOUS
    <3>3. \A s \in SUBSET S : SumOver(one, s) = Cardinality(s) /\ Cardinality(s) \in Nat
      <4> SUFFICES ASSUME NEW s \in SUBSET S
                   PROVE  SumOver(one, s) = Cardinality(s) /\ Cardinality(s) \in Nat
        OBVIOUS
      <4>1. IsFiniteSet(s) /\ (\A k \in s : one[k] = 1) /\ Cardinality(s) \in Nat
        BY <2>0, <3>2, FS_Subset, FS_CardinalityType
      <4> HIDE DEF one
      <4>2. SumOver(one, s) = 1 * Cardinality(s)
        BY <4>1, SumConstant
      <4> QED BY <4>1, <4>2
    <3> HIDE DEF q, one
    <3>4. ASSUME NEW k \in S
          PROVE  q[k] = H[Total(Earlier(S, k), one) + one[k]] - H[Total(Earlier(S, k), one)]
      <4>1. Earlier(S, k) \in SUBSET S
        BY DEF Earlier
      <4>2. Total(Earlier(S, k), one) = Cardinality(Earlier(S, k)) /\ Cardinality(Earlier(S, k)) \in Nat
        BY <3>3, <4>1, TotalIsSum
      <4>3. one[k] = 1
        BY <3>2
      <4> DEFINE c == Cardinality(Earlier(S, k))
      <4> HIDE DEF c
      <4>4. c \in Nat /\ c + 1 \in Nat
        BY <4>2 DEF c
      <4>5. H[c + 1] - H[c] = IF c < B THEN 1 ELSE 0
        BY <4>4
      <4> QED BY <3>1, <4>2, <4>3, <4>5 DEF c
    <3>5. SumOver(q, S) = H[SumOver(one, S)] - H[0]
      <4> HIDE DEF H
      <4> QED BY <3>2, <3>4, KindsTelescope
    <3>6. SumOver(one, S) = Cardinality(S) /\ Cardinality(S) \in Nat
      BY <3>3
    <3>7. SumOver(q, S) = B
      BY <2>1, <2>5, <3>2, <3>5, <3>6
    <3>8. \A k \in S : q[k] \in 0 .. raw[k] /\ ~(raw[k] <= F)
      BY <2>0, <2>5, <3>1
    <3>9. \A k \in S : q[k] = QuotaOf(S, B, k)
      BY DEF q
    <3> QED BY <3>7, <3>8, <3>9 DEF F, q
  <2>6. CASE F # 0 /\ all = 0
    <3>1. \A k \in S : q[k] = base[k] /\ base[k] \in Int
      BY <2>1, <2>2, <2>6
    <3> HIDE DEF q
    <3>2. SumOver(q, S) = SumOver(base, S)
      BY <2>0, <3>1, SumSame
    <3>3. SumOver(base, S) = B
      BY <2>1, <2>3, <2>6
    <3>4. \A k \in S : q[k] = QuotaOf(S, B, k)
      BY DEF q
    <3> QED BY <2>1, <3>1, <3>2, <3>3, <3>4 DEF F, q
  <2>7. CASE F # 0 /\ all # 0
    <3> DEFINE H == [x \in Nat |-> (x * rest) \div all]
               g == [k \in S |-> H[up(k) + residual[k]] - H[up(k)]]
    <3>0. all \in Nat /\ all > 0
      BY <2>1, <2>7
    <3> HIDE DEF rest, all, up
    <3>1. \A x \in Nat : H[x] = (x * rest) \div all /\ H[x] \in Nat /\ H[x] \in Int
      <4> SUFFICES ASSUME NEW x \in Nat PROVE (x * rest) \div all \in Nat
        OBVIOUS
      <4>1. x * rest \in Nat
        BY <2>3
      <4> QED BY <3>0, <4>1, DivRem
    <3> HIDE DEF H
    <3>2. ASSUME NEW k \in S
          PROVE  /\ g[k] \in 0 .. residual[k] /\ q[k] = base[k] + g[k]
                 /\ g[k] \in Int /\ base[k] \in Int
      <4>1. up(k) \in Nat /\ residual[k] \in Nat /\ up(k) + residual[k] \in Nat
        BY <2>4
      <4>2. /\ H[up(k)] = (up(k) * rest) \div all
            /\ H[up(k) + residual[k]] = ((up(k) + residual[k]) * rest) \div all
            /\ H[up(k)] \in Int /\ H[up(k) + residual[k]] \in Int
        BY <3>1, <4>1
      <4>3. ((up(k) + residual[k]) * rest) \div all - (up(k) * rest) \div all \in 0 .. residual[k]
        BY <2>3, <3>0, <4>1, ShareGrows
      <4>4. g[k] = H[up(k) + residual[k]] - H[up(k)]
        OBVIOUS
      <4>5. g[k] \in 0 .. residual[k]
        BY <4>2, <4>3, <4>4
      <4>6. q[k] = base[k] + H[up(k) + residual[k]] - H[up(k)]
        BY <2>2, <2>7, <4>2
      <4>7. base[k] \in Int
        BY <2>1
      <4> HIDE DEF g, q
      <4>8. q[k] = base[k] + g[k]
        BY <4>2, <4>4, <4>6, <4>7
      <4> QED BY <4>1, <4>5, <4>7, <4>8
    <3>3. SumOver(g, S) = H[all] - H[0]
      <4>1. \A k \in S : g[k] = H[Total(Earlier(S, k), residual) + residual[k]]
                               - H[Total(Earlier(S, k), residual)]
        BY DEF up
      <4> HIDE DEF g
      <4>2. SumOver(g, S) = H[SumOver(residual, S)] - H[0]
        BY <2>4, <3>1, <4>1, KindsTelescope
      <4> QED BY <4>2 DEF all
    <3> HIDE DEF g, q
    <3>4. H[all] = rest /\ H[0] = 0
      <4>1. all * rest = all * rest + 0 /\ all * rest \in Nat /\ 0 * rest = 0
        BY <2>3, <3>0
      <4>2. (all * rest) \div all = rest
        BY <2>3, <3>0, <4>1, DivUnique
      <4>3. 0 \div all = 0
        BY <3>0
      <4> QED BY <3>0, <3>1, <4>1, <4>2, <4>3
    <3>5. SumOver(q, S) = SumOver(base, S) + SumOver(g, S)
      BY <2>0, <3>2, SumAdd
    <3>6. SumOver(q, S) = B
      BY <2>1, <2>3, <3>3, <3>4, <3>5 DEF rest
    <3>7. ASSUME NEW k \in S
          PROVE  q[k] \in 0 .. raw[k] /\ (raw[k] <= F => q[k] = raw[k]) /\ q[k] = QuotaOf(S, B, k)
      <4>1. /\ base[k] \in 0 .. raw[k] /\ raw[k] \in Nat /\ residual[k] = raw[k] - base[k]
            /\ raw[k] <= F => base[k] = raw[k]
        BY <2>1
      <4>2. g[k] \in 0 .. residual[k] /\ q[k] = base[k] + g[k]
        BY <3>2
      <4>3. q[k] = QuotaOf(S, B, k)
        BY DEF q
      <4> QED BY <4>1, <4>2, <4>3
    <3> QED BY <3>6, <3>7 DEF F, q
  <2> QED BY <2>1, <2>5, <2>6, <2>7
<1> QED BY <1>1, <1>2

---------------------------------------------------------------------------
(* The systematic sample: q of t events, decided one by one.                *)

\* The decision about event n, and what has been chosen of the first m.
Chooses(n, q, t) ==
  IF n = 0 THEN q > 0
  ELSE q > 1 /\ (n * (q - 1)) \div (t - 1) > ((n - 1) * (q - 1)) \div (t - 1)
Chosen(q, t, m) == {n \in 0 .. m - 1 : Chooses(n, q, t)}

\* The running quotient of the sample.
LEMMA SampleStep ==
  ASSUME NEW q \in Nat, NEW t \in Nat, 1 < q, q <= t, NEW n \in Nat \ {0}
  PROVE  /\ (n * (q - 1)) \div (t - 1) \in Nat /\ ((n - 1) * (q - 1)) \div (t - 1) \in Nat
         /\ (n * (q - 1)) \div (t - 1) = ((n - 1) * (q - 1)) \div (t - 1)
                                           + (IF Chooses(n, q, t) THEN 1 ELSE 0)
<1> DEFINE c == q - 1  d == t - 1  m == n - 1
<1>1. c \in Nat /\ d \in Nat /\ d > 0 /\ c <= d /\ m \in Nat /\ n = m + 1 /\ 1 \in Nat
  OBVIOUS
<1>2. Chooses(n, q, t) <=> (n * c) \div d > (m * c) \div d
  BY DEF Chooses
<1> HIDE DEF c, d, m
<1>3. ((m + 1) * c) \div d - (m * c) \div d \in 0 .. 1
  BY <1>1, ShareGrows
<1>4. n * c \in Nat /\ m * c \in Nat
  BY <1>1
<1>5. (n * c) \div d \in Nat /\ (m * c) \div d \in Nat
  BY <1>1, <1>4, DivRem
<1>6. (n * c) \div d - (m * c) \div d \in 0 .. 1
  BY <1>1, <1>3
<1>7. (n * c) \div d = (m * c) \div d + (IF (n * c) \div d > (m * c) \div d THEN 1 ELSE 0)
  BY <1>5, <1>6
<1>8. (n * c) \div d = (m * c) \div d + (IF Chooses(n, q, t) THEN 1 ELSE 0)
  BY <1>2, <1>7
<1> QED BY <1>5, <1>8 DEF c, d, m

\* Another event is chosen or not.
LEMMA ChosenGrows ==
  ASSUME NEW q \in Nat, NEW t \in Nat, NEW m \in Nat
  PROVE  Chosen(q, t, m + 1) = Chosen(q, t, m) \cup (IF Chooses(m, q, t) THEN {m} ELSE {})
<1>1. 0 .. (m + 1) - 1 = (0 .. m - 1) \cup {m}
  OBVIOUS
<1> QED BY <1>1 DEF Chosen

\* How many of the first m are chosen.
LEMMA SampleCount ==
  ASSUME NEW q \in Nat, NEW t \in Nat, 1 < q, q <= t
  PROVE  \A m \in Nat : /\ IsFiniteSet(Chosen(q, t, m + 1))
                        /\ Cardinality(Chosen(q, t, m + 1)) = 1 + (m * (q - 1)) \div (t - 1)
<1> DEFINE c == q - 1  d == t - 1
           G == {m \in Nat : /\ IsFiniteSet(Chosen(q, t, m + 1))
                             /\ Cardinality(Chosen(q, t, m + 1)) = 1 + (m * c) \div d}
<1>0. c \in Nat /\ d \in Nat /\ d > 0
  OBVIOUS
<1>1. 0 \in G
  <2>1. Chosen(q, t, 0 + 1) = {0}
    BY DEF Chosen, Chooses
  <2>2. IsFiniteSet({0}) /\ Cardinality({0}) = 1
    BY FS_Singleton
  <2> HIDE DEF c, d
  <2>3. 0 * c = 0 /\ 0 \div d = 0
    BY <1>0
  <2>4. 1 + (0 * c) \div d = 1
    BY <2>3
  <2>5. /\ IsFiniteSet(Chosen(q, t, 0 + 1))
        /\ Cardinality(Chosen(q, t, 0 + 1)) = 1 + (0 * c) \div d
    BY <2>1, <2>2, <2>4
  <2> QED BY <2>5
<1>2. ASSUME NEW m \in Nat, m \in G PROVE m + 1 \in G
  <2> DEFINE C == Chosen(q, t, m + 1)  n == m + 1
  <2>1. IsFiniteSet(C) /\ Cardinality(C) = 1 + (m * c) \div d
    BY <1>2
  <2>2. Chosen(q, t, n + 1) = C \cup (IF Chooses(n, q, t) THEN {n} ELSE {})
    BY ChosenGrows
  <2>3. n \notin C
    BY DEF Chosen
  <2>4. /\ (n * c) \div d \in Nat /\ (m * c) \div d \in Nat
        /\ (n * c) \div d = (m * c) \div d + (IF Chooses(n, q, t) THEN 1 ELSE 0)
    <3>1. n \in Nat \ {0} /\ n - 1 = m
      OBVIOUS
    <3> HIDE DEF n
    <3>2. /\ (n * (q - 1)) \div (t - 1) \in Nat /\ ((n - 1) * (q - 1)) \div (t - 1) \in Nat
          /\ (n * (q - 1)) \div (t - 1) = ((n - 1) * (q - 1)) \div (t - 1)
                                            + (IF Chooses(n, q, t) THEN 1 ELSE 0)
      BY <3>1, SampleStep
    <3> QED BY <3>1, <3>2
  <2> HIDE DEF C, c, d
  <2>5. IsFiniteSet(C \cup {n}) /\ Cardinality(C \cup {n}) = Cardinality(C) + 1
    BY <2>1, <2>3, FS_AddElement
  <2>8. IsFiniteSet(Chosen(q, t, n + 1)) /\ Cardinality(Chosen(q, t, n + 1)) = 1 + (n * c) \div d
    <3>1. CASE Chooses(n, q, t)
      <4>1. Chosen(q, t, n + 1) = C \cup {n}
        BY <2>2, <3>1
      <4>2. Cardinality(C) + 1 = 1 + (n * c) \div d
        BY <2>1, <2>4, <3>1
      <4> QED BY <2>5, <4>1, <4>2
    <3>2. CASE ~Chooses(n, q, t)
      <4>1. Chosen(q, t, n + 1) = C
        BY <2>2, <3>2
      <4>2. Cardinality(C) = 1 + (n * c) \div d
        BY <2>1, <2>4, <3>2
      <4> QED BY <2>1, <4>1, <4>2
    <3> QED BY <3>1, <3>2
  <2>9. n \in Nat
    OBVIOUS
  <2> HIDE DEF n
  <2>10. n \in G
    BY <2>8, <2>9
  <2> QED BY <2>10 DEF n
<1> HIDE DEF G
<1>3. Nat \subseteq G
  BY <1>1, <1>2, NatSetInduction
<1> QED BY <1>3 DEF G

\* Of t events q are chosen.
LEMMA SampleSize ==
  ASSUME NEW t \in Nat, NEW q \in 0 .. t
  PROVE  IsFiniteSet(Chosen(q, t, t)) /\ Cardinality(Chosen(q, t, t)) = q
<1>1. CASE q = 0
  <2>1. Chosen(q, t, t) = {}
    BY <1>1 DEF Chosen, Chooses
  <2> QED BY <1>1, <2>1, FS_EmptySet
<1>2. CASE q = 1
  <2>1. Chosen(q, t, t) = {0}
    BY <1>2 DEF Chosen, Chooses
  <2> QED BY <1>2, <2>1, FS_Singleton
<1>3. CASE q > 1
  <2> DEFINE d == t - 1  c == q - 1
  <2>1. q \in Nat /\ q <= t /\ d \in Nat /\ d > 0 /\ d + 1 = t /\ c \in Nat /\ 1 + c = q
    BY <1>3
  <2>2. /\ IsFiniteSet(Chosen(q, t, d + 1))
        /\ Cardinality(Chosen(q, t, d + 1)) = 1 + (d * c) \div d
    BY <1>3, <2>1, SampleCount
  <2> HIDE DEF d, c
  <2>3. d * c = d * c + 0 /\ d * c \in Nat
    BY <2>1
  <2>4. (d * c) \div d = c
    BY <2>1, <2>3, DivUnique
  <2> QED BY <2>1, <2>2, <2>4
<1> QED BY <1>1, <1>2, <1>3

\* A sample of two or more has the first and the last event, and no gap longer
\* than q of t events need.
LEMMA SampleIsEven ==
  ASSUME NEW t \in Nat, NEW q \in Nat, 1 < q, q <= t
  PROVE  /\ {0, t - 1} \subseteq Chosen(q, t, t)
         /\ \A n \in Chosen(q, t, t) \ {t - 1} :
              \E x \in Chosen(q, t, t) : n < x /\ (x - n - 1) * (q - 1) < t - 1
<1> DEFINE c == q - 1  d == t - 1  g(n) == (n * c) \div d
<1>0. c \in Nat /\ c > 0 /\ d \in Nat /\ d > 0 /\ c <= d /\ 0 .. t - 1 = 0 .. d
  OBVIOUS
<1>1. \A n \in Nat \ {0} : Chooses(n, q, t) <=> g(n) > g(n - 1)
  BY DEF Chooses
<1>2. 0 \in Chosen(q, t, t)
  BY DEF Chosen, Chooses
<1>3. Chosen(q, t, t) = {n \in 0 .. d : Chooses(n, q, t)}
  BY DEF Chosen
<1> HIDE DEF c, d
<1>4. ASSUME NEW n \in 0 .. d, NEW v \in Nat, n * c < v * d, v <= c, v > 0,
             n * c >= (v - 1) * d
      PROVE  \E x \in Chosen(q, t, t) : n < x /\ (x - n - 1) * c < d
  <2> DEFINE y == v * d  k == y \div c  r == y % c
  <2>1. y \in Nat /\ y <= c * d /\ n * c \in Nat /\ y > 0
    BY <1>0, <1>4
  <2> HIDE DEF y
  <2>2. k \in Nat /\ r \in Nat /\ r < c /\ y = c * k + r
    BY <1>0, <2>1, DivRem
  <2> HIDE DEF k, r
  <2>3. PICK x \in Nat \ {0} : y <= x * c /\ (x - 1) * c < y
    <3>1. CASE r = 0
      <4>1. y = k * c /\ k # 0
        BY <1>0, <2>1, <2>2, <3>1
      <4>2. (k - 1) * c = k * c - c
        BY <1>0, <2>2
      <4>3. k \in Nat \ {0} /\ y <= k * c /\ (k - 1) * c < y
        BY <1>0, <2>1, <2>2, <4>1, <4>2
      <4> QED BY <4>3
    <3>2. CASE r # 0
      <4>1. (k + 1) * c = c * k + c /\ (k + 1) - 1 = k /\ k * c = c * k /\ c * k \in Nat
        BY <1>0, <2>2
      <4>2. k + 1 \in Nat \ {0} /\ y <= (k + 1) * c /\ ((k + 1) - 1) * c < y
        BY <1>0, <2>2, <3>2, <4>1
      <4> QED BY <4>2
    <3> QED BY <3>1, <3>2
  <2>4. x <= d
    <3>1. SUFFICES ASSUME x > d PROVE FALSE
      BY <1>0
    <3>2. x - 1 \in Nat /\ d <= x - 1
      BY <1>0, <3>1
    <3>3. d * c <= (x - 1) * c
      BY <1>0, <3>2
    <3>4. d * c = c * d /\ (x - 1) * c \in Nat /\ c * d \in Nat
      BY <1>0, <3>2
    <3> QED BY <2>1, <2>3, <3>3, <3>4
  <2>5. n < x
    <3>1. SUFFICES ASSUME x <= n PROVE FALSE
      BY <1>4
    <3>2. x * c <= n * c /\ x * c \in Nat
      BY <1>0, <1>4, <3>1
    <3> QED BY <1>4, <2>1, <2>3, <3>2 DEF y
  <2>6. (x - n - 1) * c < d
    <3>1. (x - n - 1) * c = (x - 1) * c - n * c /\ (x - 1) * c \in Nat
      BY <1>0, <1>4, <2>3
    <3>2. (v - 1) * d = y - d
      BY <1>0, <1>4 DEF y
    <3> QED BY <1>0, <1>4, <2>1, <2>3, <3>1, <3>2
  <2>7. Chooses(x, q, t)
    <3>1. x * c \in Nat /\ (x - 1) * c \in Nat
      BY <1>0, <2>3
    <3>2. v <= g(x)
      <4>1. y \div d <= (x * c) \div d
        BY <1>0, <2>1, <2>3, <3>1, DivLeq
      <4>2. y = d * v + 0
        BY <1>0, <1>4 DEF y
      <4>3. y \div d = v
        BY <1>0, <1>4, <2>1, <4>2, DivUnique
      <4> QED BY <4>1, <4>3
    <3>3. g(x - 1) < v
      <4> DEFINE z == (x - 1) * c  u == z \div d
      <4>1. z \in Nat /\ z < y
        BY <2>3, <3>1
      <4> HIDE DEF z
      <4>2. u \in Nat /\ z % d \in Nat /\ z = d * u + (z % d)
        BY <1>0, <4>1, DivRem
      <4> HIDE DEF u
      <4>3. d * u < d * v
        <5>1. d * v = y /\ d * u \in Nat
          BY <1>0, <1>4, <4>2 DEF y
        <5> QED BY <2>1, <4>1, <4>2, <5>1
      <4>4. u < v
        <5>1. SUFFICES ASSUME v <= u PROVE FALSE
          BY <1>4, <4>2
        <5>2. d * v <= d * u /\ d * v \in Nat /\ d * u \in Nat
          BY <1>0, <1>4, <4>2, <5>1
        <5> QED BY <4>3, <5>2
      <4> QED BY <4>4 DEF u, z
    <3>4. g(x) \in Nat /\ g(x - 1) \in Nat
      BY <1>0, <3>1, DivRem
    <3> QED BY <1>1, <1>4, <2>3, <3>2, <3>3, <3>4
  <2>8. x \in Chosen(q, t, t)
    BY <1>3, <2>4, <2>7
  <2> QED BY <2>5, <2>6, <2>8
<1>5. ASSUME NEW n \in 0 .. d, n # d
      PROVE  \E x \in Chosen(q, t, t) : n < x /\ (x - n - 1) * c < d
  <2> DEFINE w == n * c  u == w \div d  v == u + 1
  <2>1. w \in Nat
    BY <1>0
  <2>2. w < d * c
    <3>1. n < d /\ n \in Nat
      BY <1>0, <1>5
    <3>2. n + 1 <= d /\ (n + 1) * c = n * c + c
      BY <1>0, <3>1
    <3>3. (n + 1) * c <= d * c /\ d * c \in Nat
      BY <1>0, <3>1, <3>2
    <3> QED BY <1>0, <2>1, <3>2, <3>3
  <2>3. u \in Nat /\ w % d \in Nat /\ w % d < d /\ w = d * u + (w % d)
    BY <1>0, <2>1, DivRem
  <2> HIDE DEF w, u
  <2>4. d * u \in Nat /\ v * d = d * u + d /\ (v - 1) * d = d * u /\ v \in Nat /\ v > 0
    BY <1>0, <2>3
  <2>5. v <= c
    <3>1. SUFFICES ASSUME c <= u PROVE FALSE
      BY <1>0, <2>3
    <3>2. d * c <= d * u
      BY <1>0, <2>3, <3>1
    <3>3. d * c \in Nat
      BY <1>0
    <3> QED BY <2>1, <2>2, <2>3, <2>4, <3>2, <3>3
  <2>6. w < v * d /\ w >= (v - 1) * d
    BY <1>0, <2>1, <2>3, <2>4
  <2> HIDE DEF v
  <2> QED BY <1>4, <2>4, <2>5, <2>6 DEF w
<1>6. d \in Chosen(q, t, t)
  <2>1. d - 1 \in 0 .. d /\ d - 1 # d
    BY <1>0
  <2>2. PICK x \in Chosen(q, t, t) : d - 1 < x
    BY <1>5, <2>1
  <2>3. x = d
    BY <1>0, <1>3, <2>2
  <2> QED BY <2>2, <2>3
<1>7. \A n \in Chosen(q, t, t) : n \in 0 .. d
  BY <1>3
<1> QED BY <1>2, <1>5, <1>6, <1>7 DEF c, d

---------------------------------------------------------------------------
(* The pass over the events.                                                *)

\* The state of the pass, and where each kind stands in the order.
SelectionTyped ==
  /\ raw \in [Kind -> 0 .. Most] /\ seen \in [Kind -> Nat] /\ kept \in [Kind -> SUBSET Nat]
  /\ \E n \in Nat : DOMAIN order = 1 .. n
  /\ \A k \in Kind : raw[k] > 0 => \E i \in DOMAIN order : order[i] = k

\* What has been kept of the events seen.
SampleInv ==
  \A k \in Kind :
    /\ seen[k] <= raw[k]
    /\ kept[k] = IF Applied THEN Chosen(Quota(k), raw[k], seen[k]) ELSE 0 .. seen[k] - 1

SelectionInv == SelectionTyped /\ SampleInv

\* Constants and the kinds.
LEMMA KindFacts ==
  /\ IsFiniteSet(Kind) /\ IsFiniteSet(Semantic) /\ IsFiniteSet(Diagnostic)
  /\ Kind = Semantic \cup Diagnostic /\ Semantic \cap Diagnostic = {}
  /\ {MaxEvents, MinSpare, MinKind, Most} \subseteq Nat \ {0}
<1>1. IsFiniteSet(Kind) /\ Semantic \subseteq Kind /\ Diagnostic \subseteq Kind
  BY SelectionAssumption DEF SelectionAssumption, Kind
<1> QED BY <1>1, SelectionAssumption, FS_Subset DEF SelectionAssumption, Kind

\* The quotas depend on the counts and the order, which the pass leaves alone.
LEMMA QuotasStay ==
  ASSUME raw' = raw, order' = order
  PROVE  Applied' = Applied /\ \A k : Quota(k)' = Quota(k)
<1>1. PriorityRaw' = PriorityRaw /\ SpareRaw' = SpareRaw
  BY DEF PriorityRaw, SpareRaw
<1>2. PriorityBudget' = PriorityBudget /\ Room' = Room /\ Applied' = Applied
  BY <1>1 DEF PriorityBudget, Room, ReservedSpare, Applied
<1>3. Occurring(Semantic)' = Occurring(Semantic) /\ Occurring(Diagnostic)' = Occurring(Diagnostic)
  BY DEF Occurring
<1>4. \A S, B, k : QuotaOf(S, B, k)' = QuotaOf(S, B, k)
  <2> SUFFICES ASSUME NEW S, NEW B, NEW k PROVE QuotaOf(S, B, k)' = QuotaOf(S, B, k)
    OBVIOUS
  <2>1. \A j : Place(j)' = Place(j)
    BY DEF Place
  <2>2. Earlier(S, k)' = Earlier(S, k)
    BY <2>1 DEF Earlier
  <2>3. FloorOf(S, B)' = FloorOf(S, B) /\ BaseOf(S, B)' = BaseOf(S, B)
    BY DEF FloorOf, BaseOf
  <2>4. ResidualOf(S, B)' = ResidualOf(S, B)
    BY <2>3 DEF ResidualOf
  <2> QED BY <2>2, <2>3, <2>4 DEF QuotaOf
<1> QED BY <1>1, <1>2, <1>3, <1>4 DEF Quota

\* The pass starts with nothing seen and nothing kept.
LEMMA InitSelection == Init => SelectionInv
<1> SUFFICES ASSUME Init PROVE SelectionInv
  OBVIOUS
<1> DEFINE present == {k \in Kind : raw[k] > 0}
<1>1. /\ raw \in [Kind -> 0 .. Most] /\ seen = [k \in Kind |-> 0] /\ kept = [k \in Kind |-> {}]
      /\ order \in [1 .. Cardinality(present) -> present]
      /\ {order[i] : i \in DOMAIN order} = present
  BY DEF Init
<1>2. Cardinality(present) \in Nat
  BY KindFacts, FS_Subset, FS_CardinalityType
<1>3. \A k \in Kind : raw[k] > 0 => \E i \in DOMAIN order : order[i] = k
  BY <1>1
<1> HIDE DEF present
<1>4. SelectionTyped
  BY <1>1, <1>2, <1>3 DEF SelectionTyped
<1>5. \A k \in Kind : Chosen(Quota(k), raw[k], 0) = {} /\ 0 .. 0 - 1 = {} /\ 0 <= raw[k]
  BY <1>1 DEF Chosen
<1>6. SampleInv
  BY <1>1, <1>5 DEF SampleInv
<1> QED BY <1>4, <1>6 DEF SelectionInv

\* Each event is judged as its position in the sample says.
LEMMA EventKeeps ==
  ASSUME SelectionInv, NEW e \in Kind, Event(e)
  PROVE  SelectionInv'
<1>1. /\ raw' = raw /\ order' = order /\ seen[e] < raw[e]
      /\ seen' = [seen EXCEPT ![e] = @ + 1]
      /\ kept' = IF ~Applied \/ Retain(e) THEN [kept EXCEPT ![e] = @ \cup {seen[e]}] ELSE kept
  BY DEF Event
<1>2. /\ raw \in [Kind -> 0 .. Most] /\ seen \in [Kind -> Nat] /\ kept \in [Kind -> SUBSET Nat]
      /\ seen[e] \in Nat /\ raw[e] \in Nat
  BY DEF SelectionInv, SelectionTyped
<1>3. SelectionTyped'
  <2>1. seen' \in [Kind -> Nat] /\ kept' \in [Kind -> SUBSET Nat]
    BY <1>1, <1>2
  <2> QED BY <1>1, <2>1 DEF SelectionInv, SelectionTyped
<1>4. Applied' = Applied /\ \A k : Quota(k)' = Quota(k)
  BY <1>1, QuotasStay
<1>5. ASSUME NEW k \in Kind, k # e
      PROVE  /\ seen'[k] <= raw'[k]
             /\ kept'[k] = IF Applied THEN Chosen(Quota(k), raw[k], seen'[k]) ELSE 0 .. seen'[k] - 1
  <2>1. seen'[k] = seen[k] /\ kept'[k] = kept[k]
    BY <1>1, <1>2, <1>5
  <2> QED BY <1>1, <2>1 DEF SelectionInv, SampleInv
<1>6. /\ seen'[e] <= raw'[e]
      /\ kept'[e] = IF Applied THEN Chosen(Quota(e), raw[e], seen'[e]) ELSE 0 .. seen'[e] - 1
  <2>1. seen'[e] = seen[e] + 1 /\ seen'[e] <= raw'[e]
    BY <1>1, <1>2
  <2>2. kept[e] = IF Applied THEN Chosen(Quota(e), raw[e], seen[e]) ELSE 0 .. seen[e] - 1
    BY DEF SelectionInv, SampleInv
  <2>3. kept'[e] = IF ~Applied \/ Retain(e) THEN kept[e] \cup {seen[e]} ELSE kept[e]
    BY <1>1, <1>2
  <2>4. CASE ~Applied
    <3>1. 0 .. (seen[e] + 1) - 1 = (0 .. seen[e] - 1) \cup {seen[e]}
      BY <1>2
    <3> QED BY <2>1, <2>2, <2>3, <2>4, <3>1
  <2>5. CASE Applied
    <3> DEFINE q == Quota(e)  t == raw[e]  n == seen[e]
    <3>1. Retain(e) <=> Chooses(n, q, t)
      BY DEF Retain, Chooses
    <3> HIDE DEF q, t, n
    <3>2. Chosen(q, t, n + 1) = Chosen(q, t, n) \cup (IF Chooses(n, q, t) THEN {n} ELSE {})
      <4>1. n \in Nat
        BY <1>2 DEF n
      <4>2. 0 .. (n + 1) - 1 = (0 .. n - 1) \cup {n}
        BY <4>1
      <4> QED BY <4>2 DEF Chosen
    <3>3. kept'[e] = IF Chooses(n, q, t) THEN kept[e] \cup {n} ELSE kept[e]
      BY <2>3, <2>5, <3>1 DEF n
    <3>4. kept[e] = Chosen(q, t, n) /\ seen'[e] = n + 1
      BY <2>1, <2>2, <2>5 DEF q, t, n
    <3>5. kept'[e] = Chosen(q, t, n + 1)
      BY <3>2, <3>3, <3>4
    <3> QED BY <2>1, <2>5, <3>4, <3>5 DEF q, t
  <2> QED BY <2>1, <2>4, <2>5
<1>7. SampleInv'
  <2>1. \A k \in Kind : /\ seen'[k] <= raw'[k]
                        /\ kept'[k] = IF Applied' THEN Chosen(Quota(k)', raw'[k], seen'[k])
                                      ELSE 0 .. seen'[k] - 1
    BY <1>1, <1>4, <1>5, <1>6
  <2> QED BY <2>1 DEF SampleInv
<1> QED BY <1>3, <1>7 DEF SelectionInv

\* The invariant of the pass.
THEOREM SelectionInvariant == Spec => []SelectionInv
<1>1. ASSUME SelectionInv, [Next]_vars PROVE SelectionInv'
  <2>1. CASE UNCHANGED vars
    <3>1. raw' = raw /\ order' = order /\ seen' = seen /\ kept' = kept
      BY <2>1 DEF vars
    <3>2. Applied' = Applied /\ \A k : Quota(k)' = Quota(k)
      BY <3>1, QuotasStay
    <3>3. SelectionTyped' <=> SelectionTyped
      BY <3>1 DEF SelectionTyped
    <3>4. SampleInv' <=> SampleInv
      BY <3>1, <3>2 DEF SampleInv
    <3> QED BY <1>1, <3>3, <3>4 DEF SelectionInv
  <2> QED BY <1>1, <2>1, EventKeeps DEF Next
<1> QED BY <1>1, InitSelection, PTL DEF Spec

---------------------------------------------------------------------------
(* What the pass leaves.                                                    *)

\* The kinds of a class that occur are at places of their own.
LEMMA OccurringPlaced ==
  ASSUME SelectionTyped, NEW C \in SUBSET Kind
  PROVE  Placed(Occurring(C)) /\ SumOver(raw, C) = SumOver(raw, Occurring(C)) /\ SumOver(raw, C) \in Nat
<1> DEFINE S == Occurring(C)
<1>1. /\ IsFiniteSet(C) /\ IsFiniteSet(S) /\ S \in SUBSET C
      /\ \A k \in C : raw[k] \in Nat /\ raw[k] \in Int
      /\ \A k \in C \ S : raw[k] = 0
      /\ \A k \in S : raw[k] \in Nat \ {0} /\ k \in Kind
  <2>1. IsFiniteSet(C) /\ S \in SUBSET C
    BY KindFacts, FS_Subset DEF Occurring
  <2>2. \A k \in C : raw[k] \in Nat /\ raw[k] \in Int
    BY DEF SelectionTyped
  <2>3. IsFiniteSet(S)
    BY <2>1, FS_Subset
  <2> QED BY <2>1, <2>2, <2>3 DEF Occurring
<1>2. \A k \in S : Place(k) \in DOMAIN order /\ order[Place(k)] = k
  <2> SUFFICES ASSUME NEW k \in S PROVE Place(k) \in DOMAIN order /\ order[Place(k)] = k
    OBVIOUS
  <2>1. \E i \in DOMAIN order : order[i] = k
    BY <1>1 DEF SelectionTyped, Occurring
  <2> QED BY <2>1 DEF Place
<1>3. \E n \in Nat : \A k \in S : Place(k) \in 1 .. n
  BY <1>2 DEF SelectionTyped
<1>4. \A j, k \in S : Place(j) = Place(k) => j = k
  BY <1>2
<1>5. SumOver(raw, C) = SumOver(raw, S) /\ SumOver(raw, C) \in Nat
  <2> HIDE DEF S
  <2> QED BY <1>1, SumSupport, SumIsNat
<1> QED BY <1>1, <1>3, <1>4, <1>5 DEF Placed

\* The two budgets: what they are and that they cannot exceed what there is.
LEMMA Budgets ==
  ASSUME SelectionTyped
  PROVE  /\ PriorityRaw \in Nat /\ SpareRaw \in Nat /\ PriorityBudget \in Nat /\ Room \in Nat
         /\ PriorityBudget <= PriorityRaw
         /\ Min({Room, SpareRaw}) = IF Room <= SpareRaw THEN Room ELSE SpareRaw
         /\ Applied => PriorityBudget + Min({Room, SpareRaw}) = MaxEvents
         /\ PriorityBudget < PriorityRaw => Room = ReservedSpare /\ ReservedSpare <= SpareRaw
         /\ MaxEvents \in Nat /\ PriorityRaw = SumOver(raw, Semantic) /\ SpareRaw = SumOver(raw, Diagnostic)
<1>1. /\ PriorityRaw = SumOver(raw, Semantic) /\ PriorityRaw \in Nat
      /\ SpareRaw = SumOver(raw, Diagnostic) /\ SpareRaw \in Nat
  <2>1. Semantic \in SUBSET Kind /\ Diagnostic \in SUBSET Kind
    BY KindFacts
  <2> QED BY <2>1, OccurringPlaced, TotalIsSum DEF PriorityRaw, SpareRaw
<1>2. MaxEvents \in Nat /\ MinSpare \in Nat
  BY KindFacts
<1>3. ReservedSpare = IF MinSpare <= SpareRaw /\ MinSpare <= MaxEvents THEN MinSpare
                      ELSE IF SpareRaw <= MaxEvents THEN SpareRaw ELSE MaxEvents
  BY <1>1, <1>2, MinOfThree DEF ReservedSpare
<1>4. ReservedSpare \in Nat /\ ReservedSpare <= SpareRaw /\ ReservedSpare <= MaxEvents
  BY <1>1, <1>2, <1>3
<1>5. PriorityBudget = IF PriorityRaw <= MaxEvents - ReservedSpare THEN PriorityRaw
                       ELSE MaxEvents - ReservedSpare
  BY <1>1, <1>2, <1>4, MinOfTwo DEF PriorityBudget
<1>6. PriorityBudget \in Nat /\ PriorityBudget <= PriorityRaw /\ PriorityBudget <= MaxEvents
  BY <1>1, <1>2, <1>4, <1>5
<1>7. Room = MaxEvents - PriorityBudget /\ Room \in Nat
  BY <1>2, <1>6 DEF Room
<1>8. Min({Room, SpareRaw}) = IF Room <= SpareRaw THEN Room ELSE SpareRaw
  BY <1>1, <1>7, MinOfTwo
<1>9. Applied => PriorityRaw + SpareRaw > MaxEvents
  BY DEF Applied
<1>10. Applied => PriorityBudget + Min({Room, SpareRaw}) = MaxEvents
  BY <1>1, <1>2, <1>4, <1>5, <1>7, <1>8, <1>9
<1>11. PriorityBudget < PriorityRaw => Room = ReservedSpare
  BY <1>1, <1>2, <1>4, <1>5, <1>7
<1> QED BY <1>1, <1>2, <1>4, <1>6, <1>7, <1>8, <1>10, <1>11

\* The quotas of one class, added over all its kinds.
LEMMA ClassQuotas ==
  ASSUME SelectionTyped, NEW C \in SUBSET Kind, NEW B \in Nat, B <= SumOver(raw, C),
         NEW f, \A k \in Occurring(C) : f[k] = QuotaOf(Occurring(C), B, k),
         \A k \in C \ Occurring(C) : f[k] = 0
  PROVE  /\ SumOver(f, C) = B
         /\ \A k \in Occurring(C) : /\ f[k] \in 0 .. raw[k]
                                    /\ raw[k] <= FloorOf(Occurring(C), B) => f[k] = raw[k]
                                    /\ B = SumOver(raw, C) => f[k] = raw[k]
<1> DEFINE S == Occurring(C)  q == [k \in S |-> QuotaOf(S, B, k)]
<1>1. Placed(S) /\ SumOver(raw, C) = SumOver(raw, S)
  BY OccurringPlaced
<1>2. IsFiniteSet(C) /\ IsFiniteSet(S) /\ S \in SUBSET C /\ \A k \in S : raw[k] \in Nat
  BY <1>1, KindFacts, FS_Subset DEF Placed, Occurring
<1> HIDE DEF S
<1>3. /\ \A k \in S : /\ QuotaOf(S, B, k) \in 0 .. raw[k]
                      /\ raw[k] <= FloorOf(S, B) => QuotaOf(S, B, k) = raw[k]
      /\ SumOver(q, S) = B
  BY <1>1, SelectionAssumption, Quotas
<1>4. \A k \in S : q[k] = f[k] /\ f[k] = QuotaOf(S, B, k)
  BY DEF S
<1> HIDE DEF q
<1>5. \A k \in S : f[k] \in 0 .. raw[k] /\ f[k] \in Int /\ q[k] \in Int /\ raw[k] \in Int /\ f[k] <= raw[k]
  BY <1>2, <1>3, <1>4
<1>6. SumOver(f, S) = B
  <2>1. SumOver(q, S) = SumOver(f, S)
    BY <1>2, <1>4, <1>5, SumSame
  <2> QED BY <1>3, <2>1
<1>7. SumOver(f, C) = SumOver(f, S)
  <2>1. (\A k \in C : f[k] \in Int) /\ (\A k \in C \ S : f[k] = 0)
    BY <1>5 DEF S
  <2> QED BY <1>2, <2>1, SumSupport
<1>8. B = SumOver(raw, C) => \A k \in S : f[k] = raw[k]
  BY <1>1, <1>2, <1>5, <1>6, SumLeq
<1> QED BY <1>3, <1>4, <1>5, <1>6, <1>7, <1>8 DEF S

\* When the pass is over, a kind that had to be cut has kept its quota.
LEMMA KeptAtTheEnd ==
  ASSUME SelectionInv, Done
  PROVE  /\ ~Applied => \A k \in Kind : Kept[k] = raw[k] /\ kept[k] = 0 .. raw[k] - 1
         /\ Applied => \A k \in Kind :
              /\ kept[k] = Chosen(Quota(k), raw[k], raw[k])
              /\ raw[k] = 0 => Kept[k] = 0
              /\ Quota(k) \in 0 .. raw[k] => Kept[k] = Quota(k)
<1>1. \A k \in Kind : seen[k] = raw[k] /\ raw[k] \in Nat /\ Kept[k] = Cardinality(kept[k])
  BY DEF Done, SelectionInv, SelectionTyped, Kept
<1>2. \A k \in Kind : kept[k] = IF Applied THEN Chosen(Quota(k), raw[k], raw[k]) ELSE 0 .. raw[k] - 1
  BY <1>1 DEF SelectionInv, SampleInv
<1>3. ASSUME ~Applied, NEW k \in Kind PROVE Kept[k] = raw[k] /\ kept[k] = 0 .. raw[k] - 1
  <2> DEFINE n == raw[k]
  <2>1. n \in Nat /\ kept[k] = 0 .. n - 1 /\ Kept[k] = Cardinality(kept[k])
    BY <1>1, <1>2, <1>3
  <2> HIDE DEF n
  <2>2. Cardinality(0 .. n - 1) = n
    <3>1. 0 \in Int /\ n - 1 \in Int
      BY <2>1
    <3>2. Cardinality(0 .. n - 1) = IF 0 > n - 1 THEN 0 ELSE (n - 1) - 0 + 1
      BY <3>1, FS_Interval
    <3> QED BY <2>1, <3>2
  <2> QED BY <2>1, <2>2 DEF n
<1>4. ASSUME Applied, NEW k \in Kind
      PROVE  /\ kept[k] = Chosen(Quota(k), raw[k], raw[k])
             /\ raw[k] = 0 => Kept[k] = 0
             /\ Quota(k) \in 0 .. raw[k] => Kept[k] = Quota(k)
  <2>1. kept[k] = Chosen(Quota(k), raw[k], raw[k])
    BY <1>2, <1>4
  <2>2. ASSUME raw[k] = 0 PROVE Kept[k] = 0
    <3>1. kept[k] = {}
      BY <2>1, <2>2 DEF Chosen
    <3> QED BY <1>1, <3>1, FS_EmptySet
  <2>3. ASSUME Quota(k) \in 0 .. raw[k] PROVE Kept[k] = Quota(k)
    BY <1>1, <2>1, <2>3, SampleSize
  <2> QED BY <2>1, <2>2, <2>3
<1> QED BY <1>3, <1>4

\* What a cut recording keeps of each class.
LEMMA ClassesKept ==
  ASSUME SelectionInv, Done, Applied
  PROVE  /\ SumOver(Kept, Semantic) = PriorityBudget
         /\ SumOver(Kept, Diagnostic) = Min({Room, SpareRaw})
         /\ \A k \in Kind : Kept[k] \in 0 .. raw[k]
         /\ \A k \in Kind : raw[k] > 0 => Kept[k] = Quota(k)
         /\ \A k \in Occurring(Semantic) :
              raw[k] <= FloorOf(Occurring(Semantic), PriorityBudget) => Kept[k] = raw[k]
         /\ \A k \in Occurring(Diagnostic) :
              /\ raw[k] <= FloorOf(Occurring(Diagnostic), Min({Room, SpareRaw})) => Kept[k] = raw[k]
              /\ Min({Room, SpareRaw}) = SpareRaw => Kept[k] = raw[k]
<1> DEFINE B == PriorityBudget  D == Min({Room, SpareRaw})
           f == [k \in Kind |-> IF raw[k] > 0 THEN Quota(k) ELSE 0]
<1>0. SelectionTyped /\ Semantic \in SUBSET Kind /\ Diagnostic \in SUBSET Kind
  BY KindFacts DEF SelectionInv
<1>1. /\ B \in Nat /\ B <= SumOver(raw, Semantic) /\ D \in Nat /\ D <= SumOver(raw, Diagnostic)
      /\ SpareRaw = SumOver(raw, Diagnostic)
  BY <1>0, Budgets
<1>2. \A k \in Occurring(Semantic) : f[k] = QuotaOf(Occurring(Semantic), B, k)
  BY <1>0 DEF Quota, Occurring
<1>3. \A k \in Occurring(Diagnostic) : f[k] = QuotaOf(Occurring(Diagnostic), D, k)
  BY <1>0, KindFacts DEF Quota, Occurring
<1>4. /\ \A k \in Semantic \ Occurring(Semantic) : f[k] = 0
      /\ \A k \in Diagnostic \ Occurring(Diagnostic) : f[k] = 0
  BY <1>0 DEF Occurring
<1>5. \A k \in Kind : (raw[k] > 0 => f[k] = Quota(k)) /\ (~(raw[k] > 0) => f[k] = 0)
  OBVIOUS
<1> HIDE DEF B, D, f
<1>6. /\ SumOver(f, Semantic) = B
      /\ \A k \in Occurring(Semantic) :
           /\ f[k] \in 0 .. raw[k]
           /\ raw[k] <= FloorOf(Occurring(Semantic), B) => f[k] = raw[k]
  BY <1>0, <1>1, <1>2, <1>4, ClassQuotas
<1>7. /\ SumOver(f, Diagnostic) = D
      /\ \A k \in Occurring(Diagnostic) :
           /\ f[k] \in 0 .. raw[k]
           /\ raw[k] <= FloorOf(Occurring(Diagnostic), D) => f[k] = raw[k]
           /\ D = SumOver(raw, Diagnostic) => f[k] = raw[k]
  BY <1>0, <1>1, <1>3, <1>4, ClassQuotas
<1>8. ASSUME NEW k \in Kind PROVE Kept[k] = f[k] /\ f[k] \in 0 .. raw[k] /\ f[k] \in Int
  <2>1. raw[k] \in Nat
    BY <1>0 DEF SelectionTyped
  <2>2. CASE raw[k] > 0
    <3>1. k \in Occurring(Semantic) \cup Occurring(Diagnostic)
      BY <2>2, KindFacts DEF Occurring
    <3>2. f[k] = Quota(k) /\ f[k] \in 0 .. raw[k]
      BY <1>5, <1>6, <1>7, <2>2, <3>1
    <3> QED BY <2>1, <3>2, KeptAtTheEnd
  <2>3. CASE ~(raw[k] > 0)
    <3>1. raw[k] = 0 /\ f[k] = 0
      BY <1>5, <2>1, <2>3
    <3> QED BY <3>1, KeptAtTheEnd
  <2> QED BY <2>2, <2>3
<1>9. SumOver(Kept, Semantic) = B /\ SumOver(Kept, Diagnostic) = D
  <2>1. /\ \A k \in Semantic : f[k] \in Int /\ Kept[k] = f[k]
        /\ \A k \in Diagnostic : f[k] \in Int /\ Kept[k] = f[k]
    BY <1>0, <1>8
  <2>2. SumOver(Kept, Semantic) = SumOver(f, Semantic) /\ SumOver(Kept, Diagnostic) = SumOver(f, Diagnostic)
    BY <2>1, KindFacts, SumSame
  <2> QED BY <1>6, <1>7, <2>2
<1>10. \A C \in {Semantic, Diagnostic} : \A k \in Occurring(C) : k \in Kind
  BY <1>0 DEF Occurring
<1> QED BY <1>1, <1>5, <1>6, <1>7, <1>8, <1>9, <1>10 DEF B, D

\* All kinds together.
LEMMA AllKept ==
  ASSUME NEW f, \A k \in Kind : f[k] \in Int
  PROVE  Total(Kind, f) = SumOver(f, Semantic) + SumOver(f, Diagnostic)
<1>1. \A k \in Semantic \cup Diagnostic : f[k] \in Int
  BY KindFacts
<1>2. SumOver(f, Semantic \cup Diagnostic) = SumOver(f, Semantic) + SumOver(f, Diagnostic)
  BY <1>1, KindFacts, SumDisjoint
<1> QED BY <1>2, KindFacts, TotalIsSum

\* A finished selection is fair.
LEMMA FairAtTheEnd == ASSUME SelectionInv, Done PROVE SelectionIsFair
<1>0. SelectionTyped /\ \A k \in Kind : raw[k] \in Nat /\ raw[k] \in Int
  BY DEF SelectionInv, SelectionTyped
<1>1. /\ PriorityRaw \in Nat /\ SpareRaw \in Nat /\ PriorityBudget \in Nat /\ Room \in Nat
      /\ Min({Room, SpareRaw}) = IF Room <= SpareRaw THEN Room ELSE SpareRaw
      /\ Applied => PriorityBudget + Min({Room, SpareRaw}) = MaxEvents
      /\ PriorityBudget < PriorityRaw => Room = ReservedSpare /\ ReservedSpare <= SpareRaw
      /\ MaxEvents \in Nat /\ PriorityRaw = SumOver(raw, Semantic) /\ SpareRaw = SumOver(raw, Diagnostic)
  BY <1>0, Budgets
<1>2. Applied <=> PriorityRaw + SpareRaw > MaxEvents
  BY DEF Applied
<1>3. Min({MaxEvents, PriorityRaw + SpareRaw}) = IF Applied THEN MaxEvents ELSE PriorityRaw + SpareRaw
  BY <1>1, <1>2, MinOfTwo
<1>4. CASE ~Applied
  <2>1. \A k \in Kind : Kept[k] = raw[k] /\ kept[k] = 0 .. raw[k] - 1
    BY <1>4, KeptAtTheEnd
  <2>2. AllPlacesUsed
    <3>1. SumOver(Kept, Semantic) = SumOver(raw, Semantic) /\ SumOver(Kept, Diagnostic) = SumOver(raw, Diagnostic)
      <4>1. /\ \A k \in Semantic : raw[k] \in Int /\ Kept[k] = raw[k]
            /\ \A k \in Diagnostic : raw[k] \in Int /\ Kept[k] = raw[k]
        BY <1>0, <2>1, KindFacts
      <4> QED BY <4>1, KindFacts, SumSame
    <3>2. Total(Kind, Kept) = PriorityRaw + SpareRaw
      BY <1>0, <1>1, <2>1, <3>1, AllKept
    <3> QED BY <1>3, <1>4, <3>2 DEF AllPlacesUsed
  <2>3. ASSUME NEW k \in Kind, Kept[k] > 1 PROVE EvenSample(k)
    <3> DEFINE n == raw[k]
    <3>1. n \in Nat /\ n > 1 /\ kept[k] = 0 .. n - 1 /\ Kept[k] = n
      BY <1>0, <2>1, <2>3
    <3> HIDE DEF n
    <3>2. {0, n - 1} \subseteq kept[k]
      BY <3>1
    <3>3. ASSUME NEW v \in kept[k] \ {n - 1}
          PROVE  \E x \in kept[k] : v < x /\ (x - v - 1) * (Kept[k] - 1) < n - 1
      <4>1. v + 1 \in kept[k] /\ v < v + 1 /\ (v + 1) - v - 1 = 0
        BY <3>1
      <4>2. 0 * (n - 1) < n - 1
        BY <3>1
      <4>3. ((v + 1) - v - 1) * (Kept[k] - 1) < n - 1
        BY <3>1, <4>1, <4>2
      <4> QED BY <4>1, <4>3
    <3> QED BY <3>2, <3>3 DEF EvenSample, n
  <2> QED BY <1>4, <2>2, <2>3 DEF SelectionIsFair
<1>5. CASE Applied
  <2>1. /\ SumOver(Kept, Semantic) = PriorityBudget
        /\ SumOver(Kept, Diagnostic) = Min({Room, SpareRaw})
        /\ \A k \in Kind : Kept[k] \in 0 .. raw[k]
        /\ \A k \in Kind : raw[k] > 0 => Kept[k] = Quota(k)
        /\ \A k \in Occurring(Semantic) :
             raw[k] <= FloorOf(Occurring(Semantic), PriorityBudget) => Kept[k] = raw[k]
        /\ \A k \in Occurring(Diagnostic) :
             /\ raw[k] <= FloorOf(Occurring(Diagnostic), Min({Room, SpareRaw})) => Kept[k] = raw[k]
             /\ Min({Room, SpareRaw}) = SpareRaw => Kept[k] = raw[k]
    BY <1>5, ClassesKept
  <2>2. AllPlacesUsed
    <3>1. \A k \in Kind : Kept[k] \in Int
      BY <1>0, <2>1
    <3>2. Total(Kind, Kept) = MaxEvents
      BY <1>1, <1>5, <2>1, <3>1, AllKept
    <3> QED BY <1>3, <1>5, <3>2 DEF AllPlacesUsed
  <2>3. RareKindsWhole
    <3>1. ASSUME NEW k \in Occurring(Diagnostic), raw[k] <= FloorOf(Occurring(Diagnostic), Room)
          PROVE  Kept[k] = raw[k]
      <4>1. CASE Room <= SpareRaw
        BY <1>1, <2>1, <3>1, <4>1
      <4>2. CASE ~(Room <= SpareRaw)
        BY <1>1, <2>1, <4>2
      <4> QED BY <4>1, <4>2
    <3> QED BY <2>1, <3>1 DEF RareKindsWhole
  <2>4. ReserveKept
    <3>1. SUFFICES ASSUME Total(Semantic, Kept) < PriorityRaw
                   PROVE  Total(Diagnostic, Kept) = Min({MinSpare, SpareRaw, MaxEvents})
      BY DEF ReserveKept
    <3>2. PriorityBudget < PriorityRaw
      BY <2>1, <3>1, TotalIsSum
    <3>3. SumOver(Kept, Diagnostic) = ReservedSpare
      BY <1>1, <2>1, <3>2
    <3> QED BY <3>3, TotalIsSum DEF ReservedSpare
  <2>5. ASSUME NEW k \in Kind, Kept[k] > 1 PROVE EvenSample(k)
    <3> DEFINE t == raw[k]  q == Quota(k)
    <3>1. t \in Nat /\ q \in Nat /\ 1 < q /\ q <= t /\ Kept[k] = q /\ kept[k] = Chosen(q, t, t)
      <4>1. t \in Nat /\ Kept[k] \in 0 .. t
        BY <1>0, <2>1
      <4>2. t > 0
        BY <2>5, <4>1
      <4>3. Kept[k] = q
        BY <2>1, <4>2
      <4> QED BY <1>5, <2>5, <4>1, <4>3, KeptAtTheEnd
    <3> HIDE DEF t, q
    <3>2. /\ {0, t - 1} \subseteq Chosen(q, t, t)
          /\ \A n \in Chosen(q, t, t) \ {t - 1} :
               \E x \in Chosen(q, t, t) : n < x /\ (x - n - 1) * (q - 1) < t - 1
      BY <3>1, SampleIsEven
    <3> QED BY <3>1, <3>2 DEF EvenSample, t
  <2> QED BY <2>2, <2>3, <2>4, <2>5 DEF SelectionIsFair
<1> QED BY <1>4, <1>5

\* Whatever the events, their kinds and the order in which these first occur: the
\* places of the report are used up and shared out fairly.
THEOREM SelectionFair == Spec => []SelectionIsFair
<1>1. SelectionInv => SelectionIsFair
  BY FairAtTheEnd DEF SelectionIsFair
<1> QED BY <1>1, SelectionInvariant, PTL

---------------------------------------------------------------------------
(* The numbers of the report and their audit.                               *)

Decoded == [complete : BOOLEAN, phys : BOOLEAN, counters : BOOLEAN,
            procs : {"ok", "no", "bad"}, table : {"ok", "no", "bad"}]

AuditTypeOK ==
  /\ setup \in Setups
  /\ truth \in [Op \cup {"hits"} -> Nat]
  /\ missing \in Nat
  /\ hitCount \in [Op -> Nat]
  /\ events \in [Op -> Nat]
  /\ reads \in Nat
  /\ results \in [hit : Nat, miss : Nat, error : Nat]
  /\ kallocs \in Nat
  /\ drops \in Nat
  /\ states \in Seq(Decoded)
  /\ allocatorStart \in Nat
  /\ ending \in {"recording", "ended", "cut"}

\* What the guest cannot do, it has not done.
NothingImpossible == \A k \in Op \ setup.present : truth[k] = 0

\* Events of kind k come from the KALLOC records, not from a watched entry.
Channel(k) == k = "phys.alloc" /\ setup.kalloc
\* Every operation of kind k makes an event.
Lossless(k) == Channel(k) \/ (Armed(k) /\ ~Limited(k))

\* Nothing is counted without a source; a source without a limit misses nothing
\* while the recording goes on.
EventsAreTrue ==
  \A k \in Op : /\ ~Channel(k) /\ ~Armed(k) => events[k] = 0
                /\ ending # "cut" /\ Lossless(k) => events[k] = truth[k]

\* Records of the channel exist only with the channel.
ChannelIsExact == kallocs > 0 => setup.kalloc

\* The reads are among the disk events.
ReadsAreEvents == reads <= events["disk.io"]

\* The semantic records tell the hits apart.
ResultsAreTrue ==
  ending # "cut" /\ setup.accounting = "semantic" => results.hit = truth["hits"]

\* Where a request is a hit or a disk read, it is one of them or still open.
RequestsAddUp ==
  ending # "cut" /\ setup.accounting = "one_to_one" /\ Lossless("disk.io") =>
    truth["bcache.read"] = truth["hits"] + reads + missing

IInv ==
  /\ AuditTypeOK /\ NothingImpossible /\ EventsAreTrue /\ ChannelIsExact
  /\ ReadsAreEvents /\ ResultsAreTrue /\ RequestsAddUp

---------------------------------------------------------------------------
(* The invariant.                                                           *)

\* What the assumption says of the setup a recording runs with.
LEMMA SetupFacts ==
  ASSUME setup \in Setups
  PROVE  /\ setup.armed \subseteq Op /\ setup.armed \subseteq setup.present
         /\ \A k \in setup.armed : setup.rate[k] \in Nat
         /\ setup.present \subseteq Op /\ setup.declared \subseteq Op \ setup.present
         /\ setup.mapped \subseteq Op
         /\ setup.naChannels \subseteq {"physical_counters", "processes", "resources"}
         /\ setup.kalloc \in BOOLEAN /\ setup.snapshots \in BOOLEAN
BY AuditAssumption

\* A recording begins with nothing.
LEMMA InitIInv == AuditInit => IInv
<1> SUFFICES ASSUME AuditInit PROVE IInv
  OBVIOUS
<1>1. << >> \in Seq(Decoded)
  OBVIOUS
<1>2. AuditTypeOK
  BY <1>1 DEF AuditInit, AuditStart, AuditTypeOK
<1>3. "hits" \in Op \cup {"hits"} /\ Op \subseteq Op \cup {"hits"}
      /\ "disk.io" \in Op /\ "bcache.read" \in Op
  BY DEF Op
<1>4. NothingImpossible /\ EventsAreTrue
  BY <1>3, SetupFacts DEF AuditInit, AuditStart, NothingImpossible, EventsAreTrue
<1>5. ChannelIsExact /\ ReadsAreEvents /\ ResultsAreTrue /\ RequestsAddUp
  BY <1>3 DEF AuditInit, AuditStart, ChannelIsExact, ReadsAreEvents, ResultsAreTrue,
              RequestsAddUp
<1> QED BY <1>2, <1>4, <1>5 DEF IInv

\* One operation of kind k, as far as the invariant is concerned.
Operation(k) ==
  /\ k \in setup.present /\ ending # "ended"
  /\ truth'[k] = truth[k] + 1 /\ \A j \in Op \ {k} : truth'[j] = truth[j]
  /\ \A j \in Op \ {k} : events'[j] = events[j]
  /\ events'[k] \in {events[k], events[k] + 1}
  /\ ~Channel(k) /\ ~Armed(k) => events'[k] = events[k]
  /\ ending # "cut" /\ Lossless(k) => events'[k] = events[k] + 1
  /\ UNCHANGED <<setup, ending>>

\* It keeps what there is to say of each kind.
LEMMA OperationKeeps ==
  ASSUME AuditTypeOK, NothingImpossible, EventsAreTrue, NEW k \in Op, Operation(k)
  PROVE  NothingImpossible' /\ EventsAreTrue'
<1>1. \A j \in Op : truth[j] \in Nat /\ events[j] \in Nat
  BY DEF AuditTypeOK
<1>2. NothingImpossible'
  BY DEF Operation, NothingImpossible
<1>3. \A j \in Op : Channel(j)' = Channel(j) /\ Armed(j)' = Armed(j) /\ Limited(j)' = Limited(j)
                  /\ Lossless(j)' = Lossless(j)
  BY DEF Operation, Channel, Armed, Limited, Lossless
<1>4. EventsAreTrue'
  BY <1>1, <1>3 DEF Operation, EventsAreTrue
<1> QED BY <1>2, <1>4

\* A watched entry counts what it is armed for, and all of it without a limit.
LEMMA CountedEntry ==
  ASSUME AuditTypeOK, NEW k \in Op, Entry(k), events' = Counted(k), ~Channel(k),
         truth'[k] = truth[k] + 1, \A j \in Op \ {k} : truth'[j] = truth[j]
  PROVE  Operation(k) /\ events' \in [Op -> Nat]
<1>1. events' \in [Op -> Nat]
      /\ events'[k] = (IF Keeps(k) THEN events[k] + 1 ELSE events[k])
      /\ \A j \in Op \ {k} : events'[j] = events[j]
  BY DEF Counted, AuditTypeOK
<1>2. ~Armed(k) => ~Keeps(k)
  BY DEF Keeps
<1>3. ending # "cut" /\ Lossless(k) => Keeps(k)
  BY DEF Entry, Lossless, Keeps, Recording, AuditTypeOK
<1>4. k \in setup.present /\ ending # "ended" /\ UNCHANGED <<setup, ending>>
  BY DEF Entry
<1> QED BY <1>1, <1>2, <1>3, <1>4 DEF Operation

\* The counters of an entry keep their types.
LEMMA EntryTypes ==
  ASSUME AuditTypeOK, NEW k \in Op, Entry(k)
  PROVE  /\ hitCount' \in [Op -> Nat] /\ drops' \in Nat
         /\ setup' \in Setups /\ states' \in Seq(Decoded) /\ allocatorStart' \in Nat
         /\ ending' \in {"recording", "ended", "cut"}
BY DEF Entry, AuditTypeOK

\* An allocation.
LEMMA AllocStep ==
  ASSUME IInv, GuestAlloc
  PROVE  IInv'
<1> DEFINE k == "phys.alloc"
<1>1. k \in Op /\ Entry(k) /\ "bcache.read" \in Op \ {k} /\ "disk.io" \in Op \ {k}
      /\ AuditTypeOK /\ NothingImpossible /\ EventsAreTrue
  BY DEF GuestAlloc, IInv, Op
<1>2. /\ truth' \in [Op \cup {"hits"} -> Nat] /\ truth'[k] = truth[k] + 1
      /\ \A j \in Op \ {k} : truth'[j] = truth[j]
      /\ truth'["hits"] = truth["hits"]
  <2>1. truth \in [Op \cup {"hits"} -> Nat] /\ truth' = [truth EXCEPT ![k] = @ + 1]
    BY <1>1 DEF GuestAlloc, AuditTypeOK
  <2>2. "hits" \in (Op \cup {"hits"}) \ {k} /\ k \in Op \cup {"hits"}
    BY <1>1
  <2>3. truth[k] + 1 \in Nat
    BY <2>1, <2>2
  <2> QED BY <2>1, <2>2, <2>3
<1>3. Operation(k) /\ events' \in [Op -> Nat] /\ kallocs' \in Nat
      /\ (kallocs' > 0 => kallocs > 0 \/ setup.kalloc)
  <2>1. CASE setup.kalloc /\ Recording
    <3>1. /\ kallocs' = kallocs + 1 /\ events' = [events EXCEPT !["phys.alloc"] = @ + 1]
          /\ kallocs \in Nat /\ events \in [Op -> Nat]
      BY <1>1, <2>1 DEF GuestAlloc, AuditTypeOK
    <3>2. events'[k] = events[k] + 1 /\ \A j \in Op \ {k} : events'[j] = events[j]
      BY <1>1, <3>1
    <3>3. k \in setup.present /\ ending # "ended" /\ UNCHANGED <<setup, ending>>
      BY <1>1 DEF Entry
    <3>4. Channel(k)
      BY <2>1 DEF Channel
    <3> QED BY <1>1, <1>2, <2>1, <3>1, <3>2, <3>3, <3>4 DEF Operation
  <2>2. CASE ~(setup.kalloc /\ Recording)
    <3>1. kallocs' = kallocs /\ events' = Counted(k)
      BY <2>2 DEF GuestAlloc
    <3>2. CASE ~Channel(k)
      BY <1>1, <1>2, <3>1, <3>2, CountedEntry DEF AuditTypeOK
    <3>3. CASE Channel(k)
      <4>1. ending = "cut" /\ ~Keeps(k)
        BY <1>1, <2>2, <3>3 DEF Channel, Recording, Entry, AuditTypeOK, Keeps
      <4>2. events' \in [Op -> Nat] /\ \A j \in Op : events'[j] = events[j]
        BY <1>1, <3>1, <4>1 DEF Counted, AuditTypeOK
      <4>3. k \in setup.present /\ ending # "ended" /\ UNCHANGED <<setup, ending>>
        BY <1>1 DEF Entry
      <4> QED BY <1>1, <1>2, <3>1, <4>1, <4>2, <4>3 DEF Operation, AuditTypeOK
    <3> QED BY <3>2, <3>3
  <2> QED BY <2>1, <2>2
<1>4. UNCHANGED <<missing, reads, results>>
  BY DEF GuestAlloc
<1>5. AuditTypeOK'
  BY <1>1, <1>2, <1>3, <1>4, EntryTypes DEF AuditTypeOK
<1>6. NothingImpossible' /\ EventsAreTrue'
  BY <1>1, <1>3, OperationKeeps
<1>7. /\ UNCHANGED <<setup, ending>> /\ events'["disk.io"] = events["disk.io"]
      /\ truth'["bcache.read"] = truth["bcache.read"]
  BY <1>1, <1>2, <1>3 DEF Operation
<1>8. ChannelIsExact' /\ ReadsAreEvents' /\ ResultsAreTrue'
  BY <1>2, <1>3, <1>4, <1>7 DEF IInv, ChannelIsExact, ReadsAreEvents, ResultsAreTrue
<1>9. RequestsAddUp'
  BY <1>2, <1>4, <1>7
  DEF IInv, RequestsAddUp, Lossless, Channel, Armed, Limited
<1> QED BY <1>5, <1>6, <1>8, <1>9 DEF IInv

\* A request to the cache.
LEMMA ReadStep ==
  ASSUME IInv, NEW outcome \in {"hit", "miss", "error"}, GuestRead(outcome)
  PROVE  IInv'
<1> DEFINE k == "bcache.read"
<1>1. k \in Op /\ Entry(k) /\ ~Channel(k) /\ "disk.io" \in Op \ {k}
      /\ AuditTypeOK /\ NothingImpossible /\ EventsAreTrue
  BY DEF GuestRead, IInv, Op, Channel
<1>2. /\ truth' \in [Op \cup {"hits"} -> Nat] /\ truth'[k] = truth[k] + 1
      /\ \A j \in Op \ {k} : truth'[j] = truth[j]
      /\ truth'["hits"] = (IF outcome = "hit" THEN truth["hits"] + 1 ELSE truth["hits"])
      /\ truth["hits"] \in Nat /\ truth[k] \in Nat
  <2> DEFINE t == [truth EXCEPT ![k] = @ + 1]
             n == IF outcome = "hit" THEN truth["hits"] + 1 ELSE truth["hits"]
  <2>1. truth \in [Op \cup {"hits"} -> Nat] /\ truth["hits"] \in Nat /\ truth[k] \in Nat
    BY <1>1 DEF AuditTypeOK
  <2>2. /\ t \in [Op \cup {"hits"} -> Nat] /\ t[k] = truth[k] + 1 /\ t["hits"] = truth["hits"]
        /\ \A j \in Op \ {k} : t[j] = truth[j]
    BY <1>1, <2>1 DEF Op
  <2>3. n \in Nat
    BY <2>1
  <2>4. truth' = [t EXCEPT !["hits"] = n]
    BY <1>1, <2>2 DEF GuestRead, Op
  <2>5. "hits" \notin Op
    BY DEF Op
  <2> HIDE DEF t, n
  <2>6. truth' \in [Op \cup {"hits"} -> Nat] /\ truth'["hits"] = n
        /\ \A j \in Op : truth'[j] = t[j]
    BY <2>2, <2>3, <2>4, <2>5
  <2> QED BY <1>1, <2>1, <2>2, <2>6 DEF n
<1>3. Operation(k) /\ events' \in [Op -> Nat]
  BY <1>1, <1>2, CountedEntry DEF GuestRead
<1>4. /\ missing' = (IF outcome = "miss" THEN missing + 1 ELSE missing)
      /\ missing \in Nat /\ reads \in Nat /\ UNCHANGED <<reads, kallocs>>
      /\ outcome = "error" => setup.accounting # "one_to_one"
  BY <1>1 DEF GuestRead, AuditTypeOK
<1>5. /\ results' \in [hit : Nat, miss : Nat, error : Nat]
      /\ setup.accounting = "semantic" /\ Recording =>
           results'.hit = (IF outcome = "hit" THEN results.hit + 1 ELSE results.hit)
  <2>1. results \in [hit : Nat, miss : Nat, error : Nat]
    BY <1>1 DEF AuditTypeOK
  <2>2. CASE setup.accounting = "semantic" /\ Recording
    <3>1. results' = [results EXCEPT ![outcome] = @ + 1]
      BY <2>2 DEF GuestRead
    <3>2. CASE outcome = "hit"
      BY <2>1, <3>1, <3>2
    <3>3. CASE outcome = "miss"
      BY <2>1, <3>1, <3>3
    <3>4. CASE outcome = "error"
      BY <2>1, <3>1, <3>4
    <3> QED BY <3>2, <3>3, <3>4
  <2>3. CASE ~(setup.accounting = "semantic" /\ Recording)
    BY <2>1, <2>3 DEF GuestRead
  <2> QED BY <2>2, <2>3
<1>6. AuditTypeOK'
  <2>1. missing' \in Nat /\ reads' \in Nat /\ kallocs' \in Nat
    BY <1>1, <1>4 DEF AuditTypeOK
  <2> QED BY <1>1, <1>2, <1>3, <1>5, <2>1, EntryTypes DEF AuditTypeOK
<1>7. NothingImpossible' /\ EventsAreTrue'
  BY <1>1, <1>3, OperationKeeps
<1>8. /\ UNCHANGED <<setup, ending>> /\ events'["disk.io"] = events["disk.io"]
      /\ ending # "cut" => Recording
  BY <1>1, <1>3 DEF Operation, Recording, AuditTypeOK
<1>9. ChannelIsExact' /\ ReadsAreEvents'
  BY <1>4, <1>8 DEF IInv, ChannelIsExact, ReadsAreEvents
<1>10. ResultsAreTrue'
  BY <1>2, <1>5, <1>8 DEF IInv, ResultsAreTrue
<1>11. RequestsAddUp'
  <2>1. Lossless("disk.io")' = Lossless("disk.io")
    BY <1>8 DEF Lossless, Channel, Armed, Limited
  <2>2. RequestsAddUp
    BY DEF IInv
  <2> QED BY <1>2, <1>4, <1>8, <2>1, <2>2 DEF RequestsAddUp
<1> QED BY <1>6, <1>7, <1>9, <1>10, <1>11 DEF IInv

\* A disk operation.
LEMMA DiskStep ==
  ASSUME IInv, NEW write \in BOOLEAN, GuestDisk(write)
  PROVE  IInv'
<1> DEFINE k == "disk.io"
<1>1. k \in Op /\ Entry(k) /\ ~Channel(k) /\ "bcache.read" \in Op \ {k}
      /\ AuditTypeOK /\ NothingImpossible /\ EventsAreTrue
  BY DEF GuestDisk, IInv, Op, Channel
<1>2. /\ truth' \in [Op \cup {"hits"} -> Nat] /\ truth'[k] = truth[k] + 1
      /\ \A j \in Op \ {k} : truth'[j] = truth[j]
      /\ truth'["hits"] = truth["hits"] /\ truth["hits"] \in Nat
      /\ truth["bcache.read"] \in Nat
  BY <1>1 DEF GuestDisk, AuditTypeOK, Op
<1>3. Operation(k) /\ events' \in [Op -> Nat]
  BY <1>1, <1>2, CountedEntry DEF GuestDisk
<1>4. /\ missing' = (IF write THEN missing ELSE missing - 1) /\ missing' \in Nat
      /\ missing \in Nat /\ reads \in Nat /\ UNCHANGED <<results, kallocs>>
      /\ reads' = (IF Keeps(k) /\ ~write THEN reads + 1 ELSE reads)
  BY <1>1 DEF GuestDisk, AuditTypeOK
<1>5. AuditTypeOK'
  <2>1. reads' \in Nat /\ kallocs' \in Nat /\ results' \in [hit : Nat, miss : Nat, error : Nat]
    BY <1>1, <1>4 DEF AuditTypeOK
  <2> QED BY <1>1, <1>2, <1>3, <1>4, <2>1, EntryTypes DEF AuditTypeOK
<1>6. NothingImpossible' /\ EventsAreTrue'
  BY <1>1, <1>3, OperationKeeps
<1>7. /\ UNCHANGED <<setup, ending>> /\ truth'["bcache.read"] = truth["bcache.read"]
      /\ ending # "cut" => Recording
  BY <1>1, <1>2, <1>3 DEF Operation, Recording, AuditTypeOK
<1>8. ReadsAreEvents'
  <2>1. events'[k] = (IF Keeps(k) THEN events[k] + 1 ELSE events[k]) /\ events[k] \in Nat
    BY <1>1 DEF GuestDisk, Counted, AuditTypeOK
  <2> QED BY <1>4, <2>1 DEF IInv, ReadsAreEvents
<1>9. ChannelIsExact' /\ ResultsAreTrue'
  BY <1>2, <1>4, <1>7 DEF IInv, ChannelIsExact, ResultsAreTrue
<1>10. RequestsAddUp'
  <2>1. Lossless(k)' = Lossless(k)
    BY <1>7 DEF Lossless, Channel, Armed, Limited
  <2>2. RequestsAddUp
    BY DEF IInv
  <2>3. Lossless(k) /\ ending # "cut" => Keeps(k)
    BY <1>1, <1>7 DEF Lossless, Keeps
  <2> QED BY <1>2, <1>4, <1>7, <2>1, <2>2, <2>3 DEF RequestsAddUp
<1> QED BY <1>5, <1>6, <1>8, <1>9, <1>10 DEF IInv

\* What the rest of the invariant reads does not change in other steps.
Counts == <<setup, truth, missing, hitCount, events, reads, results, kallocs, drops>>

\* A step that counts nothing keeps the invariant; a cut recording stays cut.
LEMMA CountlessStep ==
  ASSUME IInv, UNCHANGED Counts, states' \in Seq(Decoded), allocatorStart' \in Nat,
         ending' \in {"recording", "ended", "cut"}, ending = "cut" => ending' = "cut"
  PROVE  IInv'
<1>1. AuditTypeOK'
  BY DEF IInv, AuditTypeOK, Counts
<1>2. NothingImpossible' /\ ChannelIsExact' /\ ReadsAreEvents' /\ ResultsAreTrue'
  BY DEF IInv, Counts, NothingImpossible, ChannelIsExact, ReadsAreEvents, ResultsAreTrue
<1>3. \A j \in Op : Channel(j)' = Channel(j) /\ Armed(j)' = Armed(j)
                  /\ Lossless(j)' = Lossless(j)
  BY DEF Counts, Channel, Armed, Limited, Lossless
<1>4. EventsAreTrue'
  BY <1>3 DEF IInv, Counts, EventsAreTrue
<1>5. RequestsAddUp'
  BY <1>3 DEF IInv, Counts, RequestsAddUp, Op
<1> QED BY <1>1, <1>2, <1>4, <1>5 DEF IInv

\* Every step keeps the invariant.
LEMMA NextIInv == IInv /\ [AuditNext]_auditVars => IInv'
<1> SUFFICES ASSUME IInv, [AuditNext]_auditVars PROVE IInv'
  OBVIOUS
<1>0. states \in Seq(Decoded) /\ allocatorStart \in Nat
      /\ ending \in {"recording", "ended", "cut"}
  BY DEF IInv, AuditTypeOK
<1>1. CASE GuestAlloc
  BY <1>1, AllocStep
<1>2. ASSUME NEW o \in {"hit", "miss", "error"}, GuestRead(o) PROVE IInv'
  BY <1>2, ReadStep
<1>3. ASSUME NEW w \in BOOLEAN, GuestDisk(w) PROVE IInv'
  BY <1>3, DiskStep
<1>4. CASE Snapshot
  <2>1. PICK d \in Decoded : states' = Append(states, d)
    BY <1>4 DEF Snapshot, Decoded
  <2>2. states' \in Seq(Decoded)
    BY <1>0, <2>1
  <2> QED BY <1>0, <1>4, <2>2, CountlessStep DEF Snapshot, Counts
<1>5. CASE FirstAllocatorRecord
  <2>1. allocatorStart' \in Nat
    BY <1>0, <1>5 DEF FirstAllocatorRecord
  <2> QED BY <1>0, <1>5, <2>1, CountlessStep DEF FirstAllocatorRecord, Counts
<1>6. CASE End
  BY <1>0, <1>6, CountlessStep DEF End, Recording, Counts
<1>7. CASE UNCHANGED auditVars
  BY <1>0, <1>7, CountlessStep DEF auditVars, Counts
<1> QED BY <1>1, <1>2, <1>3, <1>4, <1>5, <1>6, <1>7 DEF AuditNext

\* The invariant holds throughout.
LEMMA Invariant == AuditSpec => []IInv
<1>1. AuditInit => IInv
  BY InitIInv
<1> QED BY <1>1, NextIInv, PTL DEF AuditSpec

---------------------------------------------------------------------------
(* The numbers.                                                             *)

\* What a number can be.
LEMMA ValueFacts ==
  ASSUME IInv, NEW k \in Op
  PROVE  /\ events[k] \in Nat /\ truth[k] \in Nat
         /\ Value(k) # None => Value(k) = events[k] /\ (Armed(k) \/ Channel(k))
         /\ Armed(k) => Value(k) = events[k] /\ Value(k) # None
<1>1. events[k] \in Nat /\ truth[k] \in Nat /\ (~Channel(k) /\ ~Armed(k) => events[k] = 0)
  BY DEF IInv, AuditTypeOK, EventsAreTrue
<1> QED BY <1>1 DEF Value, None

\* The inductive invariant says enough of every number of the report.
LEMMA NumbersFollow == IInv => NumbersAreTrueOrSampled
<1> SUFFICES ASSUME IInv, ending # "cut", NEW k \in Op, k \notin Sampled, Value(k) # None
             PROVE  Value(k) = truth[k]
  BY DEF NumbersAreTrueOrSampled
<1>1. Value(k) = events[k] /\ (Armed(k) \/ Channel(k))
  BY ValueFacts
<1>2. Limited(k) => Channel(k)
  BY DEF IInv, ChannelIsExact, Sampled, Channel, Limited, Armed, AuditTypeOK
<1>3. Lossless(k)
  BY <1>1, <1>2 DEF Lossless
<1> QED BY <1>1, <1>3 DEF IInv, EventsAreTrue

\* For every set of kernels, manifests and rates, and however many operations the
\* guest does: a number of the report is the guest's own or is marked as sampled,
\* at any point where a recording may end properly.
THEOREM NumbersTrue == AuditSpec => []NumbersAreTrueOrSampled
BY Invariant, NumbersFollow, PTL

\* The two kinds the hits are derived from are exact when there is a number.
LEMMA HitsFollow == IInv => HitsErrByOpenRequests
<1> SUFFICES ASSUME IInv, ending # "cut", Hits # None
             PROVE  Hits \in truth.hits .. (truth.hits + missing)
  BY DEF HitsErrByOpenRequests
<1>0. /\ truth["hits"] \in Nat /\ missing \in Nat /\ reads \in Nat
      /\ reads <= events["disk.io"] /\ events["disk.io"] \in Nat
      /\ "disk.io" \in Op /\ "bcache.read" \in Op
  BY DEF IInv, AuditTypeOK, Op, ReadsAreEvents
<1>1. "disk.io" \notin Sampled /\ "bcache.read" \notin Sampled
  BY DEF Hits, DerivedFrom
<1>2. ~Channel("disk.io") /\ ~Channel("bcache.read")
  BY DEF Channel
<1>3. \A k \in {"disk.io", "bcache.read"} : Value(k) # None =>
        Value(k) = events[k] /\ Lossless(k) /\ Value(k) = truth[k]
  <2> SUFFICES ASSUME NEW k \in {"disk.io", "bcache.read"}, Value(k) # None
               PROVE  Value(k) = events[k] /\ Lossless(k) /\ Value(k) = truth[k]
    OBVIOUS
  <2>1. Value(k) = events[k] /\ Armed(k)
    BY <1>0, <1>2, ValueFacts
  <2>2. ~Limited(k)
    BY <1>1, <2>1 DEF Sampled, Armed, Limited
  <2>3. Lossless(k)
    BY <2>1, <2>2 DEF Lossless
  <2> QED BY <1>0, <2>1, <2>3 DEF IInv, EventsAreTrue
<1>4. CASE Semantic1
  <2>1. Hits = results.hit
    BY <1>4 DEF Hits
  <2> QED BY <1>0, <1>4, <2>1 DEF IInv, ResultsAreTrue, Semantic1
<1>5. CASE ~Semantic1
  <2>1. OneToOne /\ Hits = Value("bcache.read") - DiskReads
    BY <1>5 DEF Hits
  <2>2. Value("bcache.read") # None /\ DiskReads # None /\ setup.accounting = "one_to_one"
    BY <2>1 DEF OneToOne
  <2>3. Value("disk.io") # None /\ DiskReads \in {0, reads}
        /\ (DiskReads # reads => Value("disk.io") = 0)
    BY <2>2 DEF DiskReads
  <2>4. DiskReads = reads
    BY <1>0, <1>3, <2>3
  <2>5. truth["bcache.read"] = truth["hits"] + reads + missing
    BY <1>3, <2>2, <2>3 DEF IInv, RequestsAddUp
  <2> QED BY <1>0, <1>3, <2>1, <2>2, <2>4, <2>5
<1> QED BY <1>4, <1>5

\* For every kernel and rate, with any number of requests in flight: derived hits
\* are never too few, and too many only by requests whose disk read had not begun.
THEOREM HitsErrLittle == AuditSpec => []HitsErrByOpenRequests
BY Invariant, HitsFollow, PTL

\* For every manifest and watch list, what the report calls not applicable is
\* something the guest has not done.
THEOREM AbsenceIsReal == AuditSpec => []NotApplicableIsImpossible
<1>1. IInv => NotApplicableIsImpossible
  <2> SUFFICES ASSUME IInv, NEW k \in FeatureAbsent PROVE truth[k] = 0
    BY DEF NotApplicableIsImpossible
  <2>1. k \in Op \ setup.present
    BY SetupFacts DEF FeatureAbsent, IInv, AuditTypeOK
  <2> QED BY <2>1 DEF IInv, NothingImpossible
<1> QED BY <1>1, Invariant, PTL

\* For every setup and any number of operations, a report that calls itself
\* complete was not cut, and its applicable counts are what the guest did.
THEOREM CompleteExact == AuditSpec => []CompleteIsExact
<1>1. IInv => CompleteIsExact
  <2> SUFFICES ASSUME IInv, Complete
               PROVE  /\ ending = "ended"
                      /\ \A k \in Applicable \cap Op : Value(k) = truth[k]
    BY DEF CompleteIsExact
  <2>1. ending = "ended" /\ MissingMetrics = {} /\ SampledMetrics = {}
    BY DEF Complete, TraceOk
  <2>2. ASSUME NEW k \in Applicable \cap Op PROVE Value(k) = truth[k]
    <3>1. k \notin Sampled
      BY <2>1, <2>2 DEF SampledMetrics
    <3>2. k # "hits" /\ k # "rate"
      BY <2>2 DEF Op
    <3>3. Value(k) # None
      BY <2>1, <2>2, <3>2 DEF MissingMetrics
    <3> QED BY <2>1, <2>2, <3>1, <3>3, NumbersFollow DEF NumbersAreTrueOrSampled
  <2> QED BY <2>1, <2>2
<1> QED BY <1>1, Invariant, PTL

---------------------------------------------------------------------------
(* The units of the audit.                                                  *)

\* A layer of units, one kind of check at some snapshots.
Layer(w, T) == [what : {w}, at : T]

\* It has as many units as snapshots.
LEMMA LayerCount ==
  ASSUME NEW w, NEW T, IsFiniteSet(T)
  PROVE  IsFiniteSet(Layer(w, T)) /\ Cardinality(Layer(w, T)) = Cardinality(T)
<1> DEFINE f == [i \in T |-> [what |-> w, at |-> i]]
<1>1. f \in [T -> Layer(w, T)]
  BY DEF Layer
<1>2. \A i, j \in T : f[i] = f[j] => i = j
  OBVIOUS
<1>3. \A u \in Layer(w, T) : \E i \in T : f[i] = u
  <2> SUFFICES ASSUME NEW u \in Layer(w, T) PROVE \E i \in T : f[i] = u
    OBVIOUS
  <2>1. u.at \in T /\ f[u.at] = u
    BY DEF Layer
  <2> QED BY <2>1
<1>4. f \in Bijection(T, Layer(w, T))
  BY <1>1, <1>2, <1>3 DEF Bijection, Injection, Surjection, IsInjective
<1>5. ExistsBijection(T, Layer(w, T))
  BY <1>4 DEF ExistsBijection
<1> QED BY <1>5, FS_Bijection

\* Two sets without a common element.
LEMMA DisjointUnion ==
  ASSUME NEW S, NEW T, IsFiniteSet(S), IsFiniteSet(T), S \cap T = {}
  PROVE  IsFiniteSet(S \cup T) /\ Cardinality(S \cup T) = Cardinality(S) + Cardinality(T)
<1>1. /\ IsFiniteSet(S \cup T)
      /\ Cardinality(S \cup T) = Cardinality(S) + Cardinality(T) - Cardinality(S \cap T)
  BY FS_Union
<1>2. Cardinality(S \cap T) = 0 /\ Cardinality(S) \in Nat /\ Cardinality(T) \in Nat
  BY FS_EmptySet, FS_CardinalityType
<1> QED BY <1>1, <1>2

\* The five kinds of units of a snapshot.
Layers(A, B, C, D, E) ==
  Layer("complete", A) \cup Layer("phys", B) \cup Layer("counters", C)
    \cup Layer("procs", D) \cup Layer("table", E)

\* No unit is in two of them.
LEMMA LayersCount ==
  ASSUME NEW A, NEW B, NEW C, NEW D, NEW E,
         IsFiniteSet(A), IsFiniteSet(B), IsFiniteSet(C), IsFiniteSet(D), IsFiniteSet(E)
  PROVE  /\ IsFiniteSet(Layers(A, B, C, D, E))
         /\ Cardinality(Layers(A, B, C, D, E))
              = Cardinality(A) + Cardinality(B) + Cardinality(C) + Cardinality(D) + Cardinality(E)
<1> DEFINE a == Layer("complete", A)  b == Layer("phys", B)  c == Layer("counters", C)
           d == Layer("procs", D)  e == Layer("table", E)
<1>1. /\ IsFiniteSet(a) /\ Cardinality(a) = Cardinality(A)
      /\ IsFiniteSet(b) /\ Cardinality(b) = Cardinality(B)
      /\ IsFiniteSet(c) /\ Cardinality(c) = Cardinality(C)
      /\ IsFiniteSet(d) /\ Cardinality(d) = Cardinality(D)
      /\ IsFiniteSet(e) /\ Cardinality(e) = Cardinality(E)
  BY LayerCount
<1>2. /\ a \cap b = {} /\ (a \cup b) \cap c = {} /\ (a \cup b \cup c) \cap d = {}
      /\ (a \cup b \cup c \cup d) \cap e = {}
  BY DEF Layer
<1>3. Layers(A, B, C, D, E) = a \cup b \cup c \cup d \cup e
  BY DEF Layers
<1> HIDE DEF a, b, c, d, e
<1>4. IsFiniteSet(a \cup b) /\ Cardinality(a \cup b) = Cardinality(a) + Cardinality(b)
  BY <1>1, <1>2, DisjointUnion
<1>5. /\ IsFiniteSet(a \cup b \cup c)
      /\ Cardinality(a \cup b \cup c) = Cardinality(a \cup b) + Cardinality(c)
  BY <1>1, <1>2, <1>4, DisjointUnion
<1>6. /\ IsFiniteSet(a \cup b \cup c \cup d)
      /\ Cardinality(a \cup b \cup c \cup d) = Cardinality(a \cup b \cup c) + Cardinality(d)
  BY <1>1, <1>2, <1>5, DisjointUnion
<1>7. /\ IsFiniteSet(a \cup b \cup c \cup d \cup e)
      /\ Cardinality(a \cup b \cup c \cup d \cup e)
           = Cardinality(a \cup b \cup c \cup d) + Cardinality(e)
  BY <1>1, <1>2, <1>6, DisjointUnion
<1> QED BY <1>1, <1>3, <1>4, <1>5, <1>6, <1>7

\* The snapshots a channel is asked of.
AskedOf(channel, T) == IF Na(channel) THEN {} ELSE T

\* A channel that is asked of no snapshot contributes nothing.
LEMMA UnlessAsked ==
  ASSUME NEW channel, NEW T, IsFiniteSet(T)
  PROVE  /\ IsFiniteSet(AskedOf(channel, T))
         /\ Unless(channel, Cardinality(T)) = Cardinality(AskedOf(channel, T))
BY FS_EmptySet DEF AskedOf, Unless

Frame == DOMAIN states
UnreadPhysical == {i \in Frame \ PrePhysical : ~PhysOk(i)}
UnreadCounters == {i \in Frame \ PreAllocator : ~states[i].counters}
UnreadProcs    == {i \in Frame \ PreProcess : ~ProcsOk(i)}
UnreadTable    == {i \in Frame \ PreResource : ~TableOk(i)}
Incomplete     == {i \in Frame : ~states[i].complete}

\* The exempt snapshots are snapshots, and there are finitely many of all.
LEMMA FrameFacts ==
  ASSUME AuditTypeOK
  PROVE  /\ IsFiniteSet(Frame) /\ Cardinality(Frame) = Len(states) /\ Len(states) \in Nat
         /\ PrePhysical \subseteq Frame /\ PreAllocator \subseteq Frame
         /\ PreProcess \subseteq Frame /\ PreResource \subseteq Frame
<1>1. Frame = 1 .. Len(states) /\ Len(states) \in Nat
  BY DEF AuditTypeOK, Frame
<1>2. IsFiniteSet(Frame) /\ Cardinality(Frame) = Len(states)
  <2>1. PICK n \in Nat : n = Len(states)
    BY <1>1
  <2>2. IsFiniteSet(1 .. n) /\ Cardinality(1 .. n) = IF 1 > n THEN 0 ELSE n - 1 + 1
    BY FS_Interval
  <2> QED BY <1>1, <2>1, <2>2
<1> QED BY <1>1, <1>2
        DEF Frame, PrePhysical, PreAllocator, PreProcess, PreResource, BeforeFirst

\* Every set of snapshots is finite, and so is what is left of the others.
LEMMA FrameSubset ==
  ASSUME AuditTypeOK, NEW T, T \subseteq Frame
  PROVE  /\ IsFiniteSet(T) /\ Cardinality(T) \in Nat /\ Cardinality(T) <= Len(states)
         /\ IsFiniteSet(Frame \ T) /\ Cardinality(Frame \ T) = Len(states) - Cardinality(T)
<1>1. /\ IsFiniteSet(T) /\ Cardinality(T) \in Nat /\ Cardinality(T) <= Len(states)
      /\ IsFiniteSet(Frame \ T) /\ Cardinality(Frame \ T) \in Nat
  BY FrameFacts, FS_Subset, FS_CardinalityType
<1>2. T \cup (Frame \ T) = Frame /\ T \cap (Frame \ T) = {}
  OBVIOUS
<1>3. Cardinality(Frame) = Cardinality(T) + Cardinality(Frame \ T)
  BY <1>1, <1>2, DisjointUnion
<1> QED BY <1>1, <1>3, FrameFacts

\* The set of units, layer by layer.
LEMMA UnitLayers ==
  SnapshotUnitSet = Layers(Frame, Frame \ PrePhysical,
                           AskedOf("physical_counters", Frame \ PreAllocator),
                           AskedOf("processes", Frame \ PreProcess),
                           AskedOf("resources", Frame \ PreResource))
<1>1. \A w : Layer(w, {}) = {}
  BY DEF Layer
<1> QED BY <1>1 DEF SnapshotUnitSet, Layers, Layer, AskedOf, Frame

\* The units of a layer that fail.
LEMMA LayerFilter ==
  ASSUME NEW w, NEW T, NEW B, B \subseteq T,
         \A i \in T : i \in B <=> ~Holds([what |-> w, at |-> i])
  PROVE  {u \in Layer(w, T) : ~Holds(u)} = Layer(w, B)
<1>1. \A u \in Layer(w, T) : u = [what |-> w, at |-> u.at] /\ u.at \in T
  BY DEF Layer
<1>2. \A i \in B : [what |-> w, at |-> i] \in Layer(w, T)
  BY DEF Layer
<1>3. ASSUME NEW u \in Layer(w, T) PROVE ~Holds(u) <=> u \in Layer(w, B)
  <2>1. ~Holds(u) <=> u.at \in B
    BY <1>1
  <2>2. u \in Layer(w, B) <=> u.at \in B
    BY DEF Layer
  <2> QED BY <2>1, <2>2
<1>4. Layer(w, B) \subseteq Layer(w, T)
  BY DEF Layer
<1> QED BY <1>3, <1>4

\* The units that fail, layer by layer.
LEMMA BadLayers ==
  {u \in SnapshotUnitSet : ~Holds(u)}
    = Layers(Incomplete, UnreadPhysical, AskedOf("physical_counters", UnreadCounters),
             AskedOf("processes", UnreadProcs), AskedOf("resources", UnreadTable))
<1> DEFINE a == Layer("complete", Frame)
           b == Layer("phys", Frame \ PrePhysical)
           c == Layer("counters", AskedOf("physical_counters", Frame \ PreAllocator))
           d == Layer("procs", AskedOf("processes", Frame \ PreProcess))
           e == Layer("table", AskedOf("resources", Frame \ PreResource))
           Bad(S) == {u \in S : ~Holds(u)}
<1>1. Bad(a) = Layer("complete", Incomplete)
  <2>1. Incomplete \subseteq Frame
        /\ \A i \in Frame : i \in Incomplete <=> ~Holds([what |-> "complete", at |-> i])
    BY DEF Incomplete, Holds
  <2> QED BY <2>1, LayerFilter
<1>2. Bad(b) = Layer("phys", UnreadPhysical)
  <2> DEFINE T == Frame \ PrePhysical
  <2>1. UnreadPhysical \subseteq T
        /\ \A i \in T : i \in UnreadPhysical <=> ~Holds([what |-> "phys", at |-> i])
    BY DEF UnreadPhysical, Holds
  <2> QED BY <2>1, LayerFilter
<1>3. Bad(c) = Layer("counters", AskedOf("physical_counters", UnreadCounters))
  <2> DEFINE T == AskedOf("physical_counters", Frame \ PreAllocator)
             B == AskedOf("physical_counters", UnreadCounters)
  <2>1. B \subseteq T /\ \A i \in T : i \in B <=> ~Holds([what |-> "counters", at |-> i])
    BY DEF UnreadCounters, Holds, AskedOf
  <2> QED BY <2>1, LayerFilter
<1>4. Bad(d) = Layer("procs", AskedOf("processes", UnreadProcs))
  <2> DEFINE T == AskedOf("processes", Frame \ PreProcess)
             B == AskedOf("processes", UnreadProcs)
  <2>1. B \subseteq T /\ \A i \in T : i \in B <=> ~Holds([what |-> "procs", at |-> i])
    BY DEF UnreadProcs, Holds, AskedOf
  <2> QED BY <2>1, LayerFilter
<1>5. Bad(e) = Layer("table", AskedOf("resources", UnreadTable))
  <2> DEFINE T == AskedOf("resources", Frame \ PreResource)
             B == AskedOf("resources", UnreadTable)
  <2>1. B \subseteq T /\ \A i \in T : i \in B <=> ~Holds([what |-> "table", at |-> i])
    BY DEF UnreadTable, Holds, AskedOf
  <2> QED BY <2>1, LayerFilter
<1>6. SnapshotUnitSet = a \cup b \cup c \cup d \cup e
  BY UnitLayers DEF Layers
<1> HIDE DEF a, b, c, d, e
<1>7. Bad(SnapshotUnitSet) = Bad(a) \cup Bad(b) \cup Bad(c) \cup Bad(d) \cup Bad(e)
  BY <1>6
<1> QED BY <1>1, <1>2, <1>3, <1>4, <1>5, <1>7 DEF Layers

\* One for a channel that the manifest declares not applicable.
One(channel) == IF Na(channel) THEN 1 ELSE 0

\* The exempt channels, counted.
LEMMA ExemptChannels ==
  ASSUME AuditTypeOK
  PROVE  /\ Cardinality(setup.naChannels)
              = One("physical_counters") + One("processes") + One("resources")
         /\ \A channel : One(channel) \in {0, 1}
<1> DEFINE P(x) == {x} \cap setup.naChannels
<1>1. ASSUME NEW x PROVE IsFiniteSet(P(x)) /\ Cardinality(P(x)) = One(x)
  <2>1. CASE Na(x)
    <3>1. P(x) = {x}
      BY <2>1 DEF Na
    <3> QED BY <2>1, <3>1, FS_Singleton DEF One
  <2>2. CASE ~Na(x)
    <3>1. P(x) = {}
      BY <2>2 DEF Na
    <3> QED BY <2>2, <3>1, FS_EmptySet DEF One
  <2> QED BY <2>1, <2>2
<1>2. setup.naChannels = P("physical_counters") \cup P("processes") \cup P("resources")
  BY SetupFacts DEF AuditTypeOK
<1>3. /\ P("physical_counters") \cap P("processes") = {}
      /\ (P("physical_counters") \cup P("processes")) \cap P("resources") = {}
  OBVIOUS
<1> HIDE DEF P
<1>4. /\ IsFiniteSet(P("physical_counters") \cup P("processes"))
      /\ Cardinality(P("physical_counters") \cup P("processes"))
           = Cardinality(P("physical_counters")) + Cardinality(P("processes"))
  BY <1>1, <1>3, DisjointUnion
<1>5. Cardinality(setup.naChannels)
        = Cardinality(P("physical_counters") \cup P("processes")) + Cardinality(P("resources"))
  BY <1>1, <1>2, <1>3, <1>4, DisjointUnion
<1> QED BY <1>1, <1>4, <1>5 DEF One

\* The denominator counts the units of the snapshots, but for one per snapshot
\* when the manifest declares the resource tables not applicable.
LEMMA UnitsCount ==
  ASSUME AuditTypeOK
  PROVE  /\ IsFiniteSet(SnapshotUnitSet)
         /\ Cardinality(SnapshotUnitSet) = SnapshotUnits + One("resources") * Len(states)
         /\ SnapshotUnits \in Int
<1> DEFINE n == Len(states)
<1>1. /\ IsFiniteSet(Frame) /\ Cardinality(Frame) = n /\ n \in Nat
      /\ \A T \in {PrePhysical, PreAllocator, PreProcess, PreResource} :
           /\ IsFiniteSet(T) /\ Cardinality(T) \in Nat /\ IsFiniteSet(Frame \ T)
           /\ Cardinality(Frame \ T) = n - Cardinality(T)
  BY FrameFacts, FrameSubset
<1>2. \A ch, T : IsFiniteSet(T) => /\ IsFiniteSet(AskedOf(ch, T))
                                  /\ Unless(ch, Cardinality(T)) = Cardinality(AskedOf(ch, T))
  BY UnlessAsked
<1> DEFINE p == Cardinality(PrePhysical)  q == Cardinality(PreAllocator)
           r == Cardinality(PreProcess)   t == Cardinality(PreResource)
<1>3. /\ IsFiniteSet(SnapshotUnitSet)
      /\ Cardinality(SnapshotUnitSet)
           = n + (n - p) + Unless("physical_counters", n - q) + Unless("processes", n - r)
               + Unless("resources", n - t)
  <2> DEFINE A == AskedOf("physical_counters", Frame \ PreAllocator)
             B == AskedOf("processes", Frame \ PreProcess)
             C == AskedOf("resources", Frame \ PreResource)
  <2>1. /\ IsFiniteSet(A) /\ Unless("physical_counters", n - q) = Cardinality(A)
        /\ IsFiniteSet(B) /\ Unless("processes", n - r) = Cardinality(B)
        /\ IsFiniteSet(C) /\ Unless("resources", n - t) = Cardinality(C)
        /\ IsFiniteSet(Frame \ PrePhysical) /\ Cardinality(Frame \ PrePhysical) = n - p
    BY <1>1, <1>2
  <2>2. SnapshotUnitSet = Layers(Frame, Frame \ PrePhysical, A, B, C)
    BY UnitLayers
  <2> HIDE DEF A, B, C
  <2> QED BY <1>1, <2>1, <2>2, LayersCount
<1>4. n \in Nat /\ p \in Nat /\ q \in Nat /\ r \in Nat /\ t \in Nat
  BY <1>1
<1>5. SnapshotUnits = n * (4 - Cardinality(setup.naChannels)) - p
        - Unless("physical_counters", q) - Unless("processes", r) + Unless("resources", n - t)
  BY DEF SnapshotUnits
<1> HIDE DEF n, p, q, r, t
<1> DEFINE x == One("physical_counters")  y == One("processes")  z == One("resources")
<1>6. n * (4 - Cardinality(setup.naChannels)) = 4 * n - x * n - y * n - z * n
      /\ x \in {0, 1} /\ y \in {0, 1} /\ z \in {0, 1}
  <2>1. Cardinality(setup.naChannels) = x + y + z
        /\ x \in {0, 1} /\ y \in {0, 1} /\ z \in {0, 1}
    BY ExemptChannels
  <2> HIDE DEF x, y, z
  <2> QED BY <1>4, <2>1
<1>7. \A ch, m : Unless(ch, m) = IF One(ch) = 1 THEN 0 ELSE m
  BY DEF Unless, One
<1>8. x * n \in {0, n} /\ (x * n = 0 <=> x = 0 \/ n = 0)
      /\ y * n \in {0, n} /\ z * n \in {0, n}
      /\ (x = 1 => x * n = n) /\ (y = 1 => y * n = n) /\ (z = 1 => z * n = n)
      /\ (x # 1 => x * n = 0) /\ (y # 1 => y * n = 0) /\ (z # 1 => z * n = 0)
  <2> HIDE DEF x, y, z
  <2> QED BY <1>4, <1>6
<1>9. SnapshotUnits = 4 * n - x * n - y * n - z * n - p
        - (IF x = 1 THEN 0 ELSE q) - (IF y = 1 THEN 0 ELSE r) + (IF z = 1 THEN 0 ELSE n - t)
  BY <1>5, <1>6, <1>7
<1>10. Cardinality(SnapshotUnitSet) = n + (n - p) + (IF x = 1 THEN 0 ELSE n - q)
         + (IF y = 1 THEN 0 ELSE n - r) + (IF z = 1 THEN 0 ELSE n - t)
  BY <1>3, <1>7
<1> DEFINE xn == x * n  yn == y * n  zn == z * n
<1> HIDE DEF x, y, z, xn, yn, zn
<1>11. /\ xn = (IF x = 1 THEN n ELSE 0) /\ yn = (IF y = 1 THEN n ELSE 0)
       /\ zn = (IF z = 1 THEN n ELSE 0)
       /\ SnapshotUnits = 4 * n - xn - yn - zn - p
            - (IF x = 1 THEN 0 ELSE q) - (IF y = 1 THEN 0 ELSE r) + (IF z = 1 THEN 0 ELSE n - t)
  BY <1>8, <1>9 DEF xn, yn, zn
<1>12. Cardinality(SnapshotUnitSet) = SnapshotUnits + zn /\ SnapshotUnits \in Int
  BY <1>4, <1>10, <1>11
<1> QED BY <1>3, <1>12 DEF n, z, zn

\* The failures are units that fail.
LEMMA BadCount ==
  ASSUME AuditTypeOK
  PROVE  /\ IsFiniteSet({u \in SnapshotUnitSet : ~Holds(u)})
         /\ BadSnapshots = Cardinality({u \in SnapshotUnitSet : ~Holds(u)})
<1>1. \A T \in {Incomplete, UnreadPhysical, UnreadCounters, UnreadProcs, UnreadTable} :
        IsFiniteSet(T)
  BY FrameSubset DEF Incomplete, UnreadPhysical, UnreadCounters, UnreadProcs, UnreadTable
<1> DEFINE A == AskedOf("physical_counters", UnreadCounters)
           B == AskedOf("processes", UnreadProcs)
           C == AskedOf("resources", UnreadTable)
<1>2. /\ IsFiniteSet(A) /\ Unless("physical_counters", Cardinality(UnreadCounters)) = Cardinality(A)
      /\ IsFiniteSet(B) /\ Unless("processes", Cardinality(UnreadProcs)) = Cardinality(B)
      /\ IsFiniteSet(C) /\ Unless("resources", Cardinality(UnreadTable)) = Cardinality(C)
  BY <1>1, UnlessAsked
<1>3. {u \in SnapshotUnitSet : ~Holds(u)} = Layers(Incomplete, UnreadPhysical, A, B, C)
  BY BadLayers
<1>4. BadSnapshots = Cardinality(Incomplete) + Cardinality(UnreadPhysical)
        + Unless("physical_counters", Cardinality(UnreadCounters))
        + Unless("processes", Cardinality(UnreadProcs))
        + Unless("resources", Cardinality(UnreadTable))
  BY DEF BadSnapshots, Incomplete, UnreadPhysical, UnreadCounters, UnreadProcs, UnreadTable, Frame
<1> DEFINE L == Layers(Incomplete, UnreadPhysical, A, B, C)
<1>5. /\ IsFiniteSet(L)
      /\ Cardinality(L) = Cardinality(Incomplete) + Cardinality(UnreadPhysical)
                            + Cardinality(A) + Cardinality(B) + Cardinality(C)
  <2> HIDE DEF A, B, C
  <2> QED BY <1>1, <1>2, LayersCount
<1>6. BadSnapshots = Cardinality(L)
  BY <1>2, <1>4, <1>5
<1> QED BY <1>3, <1>5, <1>6

\* A metric is missing, or sampled, or neither, never both.
LEMMA MetricsCount ==
  ASSUME IInv
  PROVE  /\ IsFiniteSet(Applicable) /\ IsFiniteSet(MissingMetrics) /\ IsFiniteSet(SampledMetrics)
         /\ Cardinality(MissingMetrics) + Cardinality(SampledMetrics) <= Cardinality(Applicable)
<1>1. IsFiniteSet(Op \cup {"hits", "rate"})
  <2>1. IsFiniteSet({"phys.alloc"} \cup {"bcache.read"} \cup {"disk.io"}
                      \cup {"hits"} \cup {"rate"})
    BY FS_Singleton, FS_Union
  <2>2. Op \cup {"hits", "rate"}
          = {"phys.alloc"} \cup {"bcache.read"} \cup {"disk.io"} \cup {"hits"} \cup {"rate"}
    BY DEF Op
  <2> QED BY <2>1, <2>2
<1>2. /\ Applicable \subseteq Op \cup {"hits", "rate"} /\ MissingMetrics \subseteq Applicable
      /\ SampledMetrics \subseteq Applicable
  BY DEF Applicable, MissingMetrics, SampledMetrics
<1>3. MissingMetrics \cap SampledMetrics = {}
  <2> SUFFICES ASSUME NEW m \in MissingMetrics, m \in SampledMetrics PROVE FALSE
    OBVIOUS
  <2>1. m \in Op /\ Armed(m)
    BY SetupFacts DEF SampledMetrics, Sampled, Armed, IInv, AuditTypeOK
  <2>2. m # "hits" /\ m # "rate"
    BY <2>1 DEF Op
  <2>3. Value(m) = None
    BY <2>2 DEF MissingMetrics
  <2> QED BY <2>1, <2>3, ValueFacts
<1>4. /\ IsFiniteSet(Applicable) /\ IsFiniteSet(MissingMetrics) /\ IsFiniteSet(SampledMetrics)
  BY <1>1, <1>2, FS_Subset
<1>5. MissingMetrics \cup SampledMetrics \subseteq Applicable
  BY <1>2
<1>6. Cardinality(MissingMetrics \cup SampledMetrics)
        = Cardinality(MissingMetrics) + Cardinality(SampledMetrics)
  BY <1>3, <1>4, DisjointUnion
<1> QED BY <1>4, <1>5, <1>6, FS_Subset

\* The failures of a report, none exactly when it is complete, and not more than its units.
LEMMA FailuresCount ==
  ASSUME IInv
  PROVE  /\ Failed = 0 <=> Complete
         /\ SnapshotUnits >= BadSnapshots => Failed <= TotalUnits
<1> DEFINE m == Cardinality(MissingMetrics)  s == Cardinality(SampledMetrics)
           t == IF TraceOk THEN 0 ELSE 1     d == IF WatchDrops > 0 THEN 1 ELSE 0
           a == Cardinality(Applicable)
<1>1. /\ m \in Nat /\ s \in Nat /\ a \in Nat /\ m + s <= a
      /\ (m = 0 <=> MissingMetrics = {}) /\ (s = 0 <=> SampledMetrics = {})
  BY MetricsCount, FS_CardinalityType, FS_EmptySet
<1>2. BadSnapshots \in Nat
  BY BadCount, FS_CardinalityType DEF IInv
<1>3. UnknownEvents \in Nat /\ UnknownEvents <= SemanticEvents /\ SemanticEvents \in Nat
  BY DEF UnknownEvents, SemanticEvents, IInv, AuditTypeOK, Op
<1>4. t \in 0 .. 1 /\ (t = 0 <=> TraceOk)
  OBVIOUS
<1>5. d \in 0 .. 1 /\ (d = 0 <=> WatchDrops = 0)
  BY DEF WatchDrops, IInv, AuditTypeOK
<1>6. Failed = m + s + UnknownEvents + BadSnapshots + t + d
  BY DEF Failed
<1>7. Complete <=> m = 0 /\ s = 0 /\ UnknownEvents = 0 /\ BadSnapshots = 0 /\ t = 0 /\ d = 0
  BY <1>1, <1>4, <1>5 DEF Complete
<1>8. TotalUnits = a + SemanticEvents + SnapshotUnits + 6
  BY DEF TotalUnits
<1>9. SnapshotUnits \in Int
  BY UnitsCount DEF IInv
<1> HIDE DEF m, s, t, d, a
<1>10. Failed = 0 <=> Complete
  BY <1>1, <1>2, <1>3, <1>4, <1>5, <1>6, <1>7
<1>11. SnapshotUnits >= BadSnapshots => Failed <= TotalUnits
  BY <1>1, <1>2, <1>3, <1>4, <1>5, <1>6, <1>8, <1>9
<1> QED BY <1>10, <1>11

\* What UnitsAreCounted says, for any manifest: the denominator counts each unit of
\* the snapshots once, except that it misses one per snapshot when the manifest
\* declares the resource tables not applicable (the factor of bundle.py:426 leaves
\* out a channel that its first term does not contain).
UnitsAreCountedButTables ==
  /\ SnapshotUnits = Cardinality(SnapshotUnitSet) - One("resources") * Len(states)
  /\ BadSnapshots = Cardinality({u \in SnapshotUnitSet : ~Holds(u)})
  /\ Failed = 0 <=> Complete

\* For every manifest and any number of snapshots, the denominator is short by exactly
\* one unit per snapshot if the resource tables are declared not applicable, and
\* otherwise exact; the failures are the units that fail.
THEOREM UnitsExceptTables == AuditSpec => []UnitsAreCountedButTables
<1>1. IInv => UnitsAreCountedButTables
  <2> SUFFICES ASSUME IInv PROVE UnitsAreCountedButTables
    OBVIOUS
  <2>1. AuditTypeOK
    BY DEF IInv
  <2>2. Cardinality(SnapshotUnitSet) = SnapshotUnits + One("resources") * Len(states)
        /\ SnapshotUnits \in Int
    BY <2>1, UnitsCount
  <2>3. One("resources") * Len(states) \in Nat
    BY <2>1, ExemptChannels DEF AuditTypeOK
  <2>4. SnapshotUnits = Cardinality(SnapshotUnitSet) - One("resources") * Len(states)
    BY <2>2, <2>3
  <2> QED BY <2>1, <2>4, BadCount, FailuresCount DEF UnitsAreCountedButTables
<1> QED BY <1>1, Invariant, PTL

\* Where no manifest declares the resource tables not applicable, the denominator is
\* the number of units, and the failures are some of them, for any number of
\* snapshots, however many the guest takes before its tables are initialized.
THEOREM UnitsCounted ==
  ASSUME \A s \in Setups : "resources" \notin s.naChannels
  PROVE  AuditSpec => []UnitsAreCounted
<1>1. IInv => UnitsAreCounted
  <2> SUFFICES ASSUME IInv PROVE UnitsAreCounted
    OBVIOUS
  <2>1. AuditTypeOK /\ One("resources") = 0 /\ Len(states) \in Nat
    BY DEF IInv, AuditTypeOK, One, Na
  <2>2. /\ IsFiniteSet(SnapshotUnitSet) /\ SnapshotUnits \in Int
        /\ Cardinality(SnapshotUnitSet) = SnapshotUnits
    BY <2>1, UnitsCount
  <2>3. BadSnapshots = Cardinality({u \in SnapshotUnitSet : ~Holds(u)})
    BY <2>1, BadCount
  <2>4. BadSnapshots <= Cardinality(SnapshotUnitSet)
    BY <2>2, <2>3, FS_Subset
  <2>5. SnapshotUnits >= BadSnapshots
    BY <2>2, <2>4
  <2> QED BY <2>2, <2>3, <2>5, FailuresCount DEF UnitsAreCounted
<1> QED BY <1>1, Invariant, PTL
=============================================================================

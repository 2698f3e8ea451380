------------------------------- MODULE LabProofs -------------------------------
(***************************************************************************)
(* Theorems of Lab for any limits, outcomes and number of days: no stake   *)
(* is of money another trade has not made yet, and the replay of the       *)
(* labels and the report of the days come to the account of the walk.      *)
(*                                                                         *)
(* The proof follows the walk minute by minute. At each the account is the *)
(* capital and the nets of the trades that have ended, every day so far    *)
(* lies under its peak, and the replay of what has happened is where the   *)
(* walk is (WalkInv).                                                      *)
(*                                                                         *)
(* At the end, theorems of Audit for any limits, days and mishaps: what    *)
(* the audit of a day misses and finds beside the gates (AuditInv), the    *)
(* streak it may find (StreakInv) and the drawdown shown.                  *)
(***************************************************************************)
EXTENDS Lab, Audit, FiniteSetTheorems, WellFoundedInduction, TLAPS

-----------------------------------------------------------------------------
(* Numbers, sequences, and functions over the subsets of a finite set.      *)

(* A set of numbers has a least one.                                        *)
LEMMA LeastElement ==
  ASSUME NEW T \in SUBSET Nat, T # {}
  PROVE  \E x \in T : \A y \in T : x <= y
<1> DEFINE Less == {ss \in Nat \X Nat : ss[1] < ss[2]}
<1>1. IsWellFoundedOn(Less, Nat)
  BY NatLessThanWellFounded DEF OpToRel
<1> HIDE DEF Less
<1>2. PICK x \in T : \A y \in T : ~ (<<y, x>> \in Less)
  BY <1>1, WFMin
<1>3. \A y \in T : ~ (y < x)
  BY <1>2 DEF Less
<1> QED
  BY <1>3

LEMMA GreatestElement ==
  ASSUME NEW n \in Nat, NEW T \in SUBSET (0 .. n), T # {}
  PROVE  \E x \in T : \A y \in T : y <= x
<1> DEFINE left == {n - y : y \in T}
<1>1. left \in SUBSET Nat /\ left # {}
  <2>1. \A y \in T : n - y \in Nat
    OBVIOUS
  <2> QED
    BY <2>1
<1> HIDE DEF left
<1>2. PICK least \in left : \A y \in left : least <= y
  BY <1>1, LeastElement
<1> USE DEF left
<1>3. PICK x \in T : least = n - x
  OBVIOUS
<1>4. \A y \in T : n - x <= n - y
  BY <1>2, <1>3
<1> QED
  BY <1>4

LEMMA ProductsGrow ==
  ASSUME NEW a \in Int, NEW b \in Int, NEW c \in Nat, a <= b
  PROVE  a * c <= b * c
OBVIOUS

LEMMA QuotientFits ==
  ASSUME NEW a \in Int, NEW b \in Nat, b > 0
  PROVE  a \div b \in Int /\ (a \div b) * b <= a /\ a < (a \div b) * b + b
OBVIOUS

LEMMA QuotientGrows ==
  ASSUME NEW a \in Int, NEW c \in Int, NEW b \in Nat, b > 0, a <= c
  PROVE  a \div b <= c \div b
<1> DEFINE A == a \div b
<1> DEFINE C == c \div b
<1>1. A \in Int /\ A * b <= a /\ C \in Int /\ c < C * b + b
  BY QuotientFits
<1> HIDE DEF A, C
<1>2. SUFFICES ASSUME A > C PROVE FALSE
  BY <1>1
<1>3. C + 1 <= A /\ C + 1 \in Int
  BY <1>1, <1>2
<1>4. (C + 1) * b <= A * b
  BY <1>1, <1>3, ProductsGrow
<1>5. (C + 1) * b = C * b + b
  BY <1>1
<1> QED
  BY <1>1, <1>4, <1>5

LEMMA AppendIs ==
  ASSUME NEW S, NEW f \in Seq(S), NEW b \in S
  PROVE  /\ Append(f, b) \in Seq(S) /\ Len(Append(f, b)) = Len(f) + 1 /\ Len(f) \in Nat
         /\ Append(f, b)[Len(f) + 1] = b /\ \A i \in 1 .. Len(f) : Append(f, b)[i] = f[i]
OBVIOUS

(* What is said of a finite set when it is said of all that is smaller is   *)
(* said of every one.                                                       *)
LEMMA SmallerSets ==
  ASSUME NEW S, IsFiniteSet(S), NEW good,
         \A T \in SUBSET S : (\A U \in SUBSET T : U # T => U \in good) => T \in good
  PROVE  \A T \in SUBSET S : T \in good
<1> DEFINE bad == {n \in Nat : \E T \in SUBSET S : Cardinality(T) = n /\ T \notin good}
<1>1. \A T \in SUBSET S : IsFiniteSet(T) /\ Cardinality(T) \in Nat
  BY FS_Subset, FS_CardinalityType
<1> SUFFICES ASSUME bad # {} PROVE FALSE
  BY <1>1
<1>2. bad \in SUBSET Nat
  OBVIOUS
<1> HIDE DEF bad
<1>3. PICK n \in bad : \A m \in bad : n <= m
  BY <1>2, LeastElement
<1>4. PICK T \in SUBSET S : Cardinality(T) = n /\ T \notin good
  BY <1>3 DEF bad
<1>5. ASSUME NEW U \in SUBSET T, U # T PROVE U \in good
  <2>1. IsFiniteSet(T) /\ Cardinality(U) \in Nat /\ Cardinality(T) \in Nat
    BY <1>1
  <2>2. Cardinality(U) < Cardinality(T)
    BY <1>5, <2>1, FS_Subset
  <2>3. Cardinality(U) \notin bad
    BY <1>2, <1>3, <1>4, <2>1, <2>2
  <2> QED
    BY <2>1, <2>3 DEF bad
<1> QED
  BY <1>4, <1>5

(* A finite set with an order has a last.                                   *)
LEMMA LastIsThere ==
  ASSUME NEW S, IsFiniteSet(S), NEW R,
         \A x, y \in S : x # y => <<x, y>> \in R \/ <<y, x>> \in R,
         \A x, y, z \in S : <<x, y>> \in R /\ <<y, z>> \in R => <<x, z>> \in R
  PROVE  \A T \in SUBSET S : T # {} => \E x \in T : \A y \in T \ {x} : <<y, x>> \in R
<1> DEFINE good == {T \in SUBSET S : T # {} => \E x \in T : \A y \in T \ {x} : <<y, x>> \in R}
<1>1. ASSUME NEW T \in SUBSET S, \A U \in SUBSET T : U # T => U \in good PROVE T \in good
  <2> SUFFICES ASSUME T # {} PROVE \E x \in T : \A y \in T \ {x} : <<y, x>> \in R
    OBVIOUS
  <2>1. PICK t \in T : TRUE
    OBVIOUS
  <2>2. T \ {t} \in good
    BY <1>1
  <2>3. CASE T \ {t} = {}
    BY <2>3
  <2>4. CASE T \ {t} # {}
    <3>1. PICK x \in T \ {t} : \A y \in (T \ {t}) \ {x} : <<y, x>> \in R
      BY <2>2, <2>4
    <3>2. CASE <<t, x>> \in R
      BY <3>1, <3>2
    <3>3. CASE <<x, t>> \in R
      <4>1. \A y \in T \ {t} : <<y, t>> \in R
        BY <3>1, <3>3
      <4> QED
        BY <4>1
    <3> QED
      BY <3>1, <3>2, <3>3
  <2> QED
    BY <2>3, <2>4
<1> HIDE DEF good
<1>2. \A T \in SUBSET S : T \in good
  BY <1>1, SmallerSets
<1> QED
  BY <1>2 DEF good

(* A run through a set from its first to its last: what the last makes of   *)
(* what the others made. There is one, and it does not depend on what else  *)
(* the run is defined for.                                                  *)
PicksFrom(last, S) == \A T \in SUBSET S : T # {} => last[T] \in T
RunThrough(f, S, start, last, step) ==
  f = [T \in SUBSET S |-> IF T = {} THEN start ELSE step[<<f[T \ {last[T]}], last[T]>>]]

LEMMA RunIsOne ==
  ASSUME NEW S, IsFiniteSet(S), NEW start, NEW last, NEW step, PicksFrom(last, S),
         NEW V \in SUBSET S, NEW f, NEW g, RunThrough(f, S, start, last, step), RunThrough(g, V, start, last, step)
  PROVE  \A T \in SUBSET V : f[T] = g[T]
<1> DEFINE good == {T \in SUBSET V : f[T] = g[T]}
<1> USE DEF PicksFrom
<1>1. IsFiniteSet(V)
  BY FS_Subset
<1>2. ASSUME NEW T \in SUBSET V, \A U \in SUBSET T : U # T => U \in good PROVE T \in good
  <2>1. CASE T = {}
    BY <2>1 DEF RunThrough
  <2>2. CASE T # {}
    <3>1. last[T] \in T
      BY <2>2 DEF PicksFrom
    <3>2. T \ {last[T]} \in good
      BY <1>2, <3>1
    <3>3. f[T] = step[<<f[T \ {last[T]}], last[T]>>]
      BY <2>2 DEF RunThrough
    <3>4. g[T] = step[<<g[T \ {last[T]}], last[T]>>]
      BY <2>2 DEF RunThrough
    <3> QED
      BY <3>2, <3>3, <3>4
  <2> QED
    BY <2>1, <2>2
<1> HIDE DEF good
<1>3. \A T \in SUBSET V : T \in good
  BY <1>1, <1>2, SmallerSets
<1> QED
  BY <1>3 DEF good

LEMMA RunIsThere ==
  ASSUME NEW S, IsFiniteSet(S), NEW start, NEW last, NEW step, PicksFrom(last, S)
  PROVE  \E f : RunThrough(f, S, start, last, step)
<1> DEFINE good == {T \in SUBSET S : \E f : RunThrough(f, T, start, last, step)}
<1>1. ASSUME NEW T \in SUBSET S, \A U \in SUBSET T : U # T => U \in good PROVE T \in good
  <2> DEFINE of(U) == CHOOSE f : RunThrough(f, U, start, last, step)
             rest(U) == U \ {last[U]}
             run == [U \in SUBSET T |-> IF U = {} THEN start ELSE step[<<of(rest(U))[rest(U)], last[U]>>]]
  <2>1. \A U \in SUBSET T : U # T => RunThrough(of(U), U, start, last, step)
    BY <1>1
  <2>2. ASSUME NEW V \in SUBSET T, V # T PROVE run[V] = of(V)[V]
    <3>1. RunThrough(of(V), V, start, last, step)
      BY <2>1, <2>2
    <3>2. CASE V = {}
      BY <3>1, <3>2 DEF RunThrough
    <3>3. CASE V # {}
      <4>1. last[V] \in V /\ rest(V) \in SUBSET V /\ rest(V) # T
        BY <2>2, <3>3 DEF PicksFrom
      <4>2. RunThrough(of(rest(V)), rest(V), start, last, step)
        BY <2>1, <4>1
      <4>3. IsFiniteSet(V) /\ PicksFrom(last, V)
        BY FS_Subset DEF PicksFrom
      <4>4. PICK f, g, W : f = of(V) /\ g = of(rest(V)) /\ W = rest(V)
        OBVIOUS
      <4>5. RunThrough(f, V, start, last, step) /\ RunThrough(g, W, start, last, step) /\ W \in SUBSET V
        BY <3>1, <4>1, <4>2, <4>4
      <4>6. \A U \in SUBSET W : f[U] = g[U]
        BY <4>3, <4>5, RunIsOne
      <4>7. f[W] = g[W]
        BY <4>6
      <4>8. f[V] = step[<<f[W], last[V]>>]
        BY <3>3, <4>4, <4>5 DEF RunThrough
      <4> QED
        BY <3>3, <4>4, <4>7, <4>8
    <3> QED
      BY <3>2, <3>3
  <2>3. ASSUME NEW U \in SUBSET T
        PROVE  run[U] = IF U = {} THEN start ELSE step[<<run[U \ {last[U]}], last[U]>>]
    <3>1. CASE U = {}
      BY <3>1
    <3>2. CASE U # {}
      <4>1. last[U] \in U
        BY <3>2 DEF PicksFrom
      <4>2. rest(U) \in SUBSET T /\ rest(U) # T
        BY <4>1
      <4>3. run[rest(U)] = of(rest(U))[rest(U)]
        BY <2>2, <4>2
      <4> QED
        BY <3>2, <4>3
    <3> QED
      BY <3>1, <3>2
  <2>4. run = [U \in SUBSET T |-> run[U]]
    OBVIOUS
  <2> HIDE DEF run
  <2>5. RunThrough(run, T, start, last, step)
    BY <2>3, <2>4 DEF RunThrough
  <2> QED
    BY <2>5
<1> HIDE DEF good
<1>2. \A T \in SUBSET S : T \in good
  BY <1>1, SmallerSets
<1>3. S \in good
  BY <1>2
<1> QED
  BY <1>3 DEF good

(* What a run holds: what it starts with and what its step keeps.           *)
LEMMA RunStays ==
  ASSUME NEW S, IsFiniteSet(S), NEW X, NEW start \in X, NEW last, PicksFrom(last, S),
         NEW step, \A x \in X, e \in S : step[<<x, e>>] \in X,
         NEW f, RunThrough(f, S, start, last, step)
  PROVE  \A T \in SUBSET S : f[T] \in X
<1> DEFINE good == {T \in SUBSET S : f[T] \in X}
<1>1. ASSUME NEW T \in SUBSET S, \A U \in SUBSET T : U # T => U \in good PROVE T \in good
  <2>1. CASE T = {}
    BY <2>1 DEF RunThrough
  <2>2. CASE T # {}
    <3>1. last[T] \in T
      BY <2>2 DEF PicksFrom
    <3>2. f[T \ {last[T]}] \in X
      BY <1>1, <3>1
    <3>3. f[T] = step[<<f[T \ {last[T]}], last[T]>>]
      BY <2>2 DEF RunThrough
    <3> QED
      BY <3>1, <3>2, <3>3
  <2> QED
    BY <2>1, <2>2
<1> HIDE DEF good
<1>2. \A T \in SUBSET S : T \in good
  BY <1>1, SmallerSets
<1> QED
  BY <1>2 DEF good

-----------------------------------------------------------------------------
(* Days.                                                                    *)
LEMMA LabAssumed ==
  /\ LabDays \in Nat /\ DayLength \in Nat /\ DayLength > 0 /\ LastEntry \in Nat /\ LastEntry < DayLength /\ LastEntry >= 1
  /\ MaxEntries \in Nat /\ Capital \in Nat /\ Capital > 0 /\ LotCap \in Nat /\ DropPct \in 1 .. 100
  /\ MinTrades \in Nat /\ Sharpes \subseteq Int
BY LabAssumption DEF LabAssumption

LEMMA DayIs ==
  ASSUME NEW t \in Nat
  PROVE  /\ DayOf(t) \in Nat /\ DayOf(t) * DayLength <= t /\ t < (DayOf(t) + 1) * DayLength
         /\ t % DayLength \in Nat /\ t % DayLength = t - DayOf(t) * DayLength
<1>1. PICK b \in Nat : b = DayLength /\ b > 0
  BY LabAssumed
<1>2. PICK q \in Int : q = t \div b /\ q * b <= t /\ t < q * b + b
  BY <1>1, QuotientFits
<1>3. (q + 1) * b = q * b + b
  BY <1>1, <1>2
<1>4. q >= 0
  <2>1. SUFFICES ASSUME q + 1 <= 0 PROVE FALSE
    BY <1>2
  <2>2. (q + 1) * b <= 0 * b
    BY <1>1, <1>2, <2>1, ProductsGrow
  <2> QED
    BY <1>1, <1>2, <1>3, <2>2
<1>5. t % b = t - b * (t \div b)
  BY <1>1
<1>6. t % b = t - q * b /\ q * b \in Int
  BY <1>1, <1>2, <1>5
<1> QED
  BY <1>1, <1>2, <1>3, <1>4, <1>6 DEF DayOf

LEMMA DayIsOne ==
  ASSUME NEW t \in Nat, NEW d \in Nat, d * DayLength <= t, t < (d + 1) * DayLength
  PROVE  DayOf(t) = d
<1>1. PICK b \in Nat : b = DayLength /\ b > 0
  BY LabAssumed
<1>2. PICK q \in Nat : q = DayOf(t) /\ q * b <= t /\ t < (q + 1) * b
  <2>1. DayOf(t) \in Nat /\ DayOf(t) * DayLength <= t /\ t < (DayOf(t) + 1) * DayLength
    BY DayIs
  <2> QED
    BY <1>1, <2>1
<1>3. ~ (q < d)
  <2>1. SUFFICES ASSUME q + 1 <= d PROVE FALSE
    BY <1>2
  <2>2. (q + 1) * b <= d * b
    BY <1>1, <1>2, <2>1, ProductsGrow
  <2>3. d * b <= t
    BY <1>1
  <2>4. d * b \in Nat /\ (q + 1) * b \in Nat
    BY <1>1, <1>2
  <2> QED
    BY <1>2, <2>2, <2>3, <2>4
<1>4. ~ (d < q)
  <2>1. SUFFICES ASSUME d + 1 <= q PROVE FALSE
    BY <1>2
  <2>2. (d + 1) * b <= q * b
    BY <1>1, <1>2, <2>1, ProductsGrow
  <2>3. t < (d + 1) * b
    BY <1>1
  <2>4. (d + 1) * b \in Nat /\ q * b \in Nat
    BY <1>1, <1>2
  <2> QED
    BY <1>2, <2>2, <2>3, <2>4
<1>5. q \in Int /\ d \in Int /\ DayOf(t) = q
  BY <1>2
<1> QED
  BY <1>3, <1>4, <1>5

LEMMA DaysGrow ==
  ASSUME NEW t \in Nat, NEW u \in Nat, t <= u
  PROVE  DayOf(t) <= DayOf(u)
BY LabAssumed, QuotientGrows DEF DayOf

-----------------------------------------------------------------------------
(* What trades made together, one by one.                                   *)
SumUpTo(f, ts, some) ==
  f = [k \in 0..Len(ts) |-> IF k = 0 THEN 0 ELSE f[k - 1] + (IF k \in some THEN NetOfTrade(ts[k]) ELSE 0)]
SumOf(ts, some) ==
  LET sum[k \in 0..Len(ts)] == IF k = 0 THEN 0 ELSE sum[k - 1] + (IF k \in some THEN NetOfTrade(ts[k]) ELSE 0)
  IN sum[Len(ts)]

LEMMA NetsAreNumbers ==
  ASSUME NEW ts \in Seq(StrategyTrade)
  PROVE  Len(ts) \in Nat /\ \A k \in 1 .. Len(ts) : ts[k] \in StrategyTrade /\ NetOfTrade(ts[k]) \in Int
<1>1. Len(ts) \in Nat /\ \A k \in 1 .. Len(ts) : ts[k] \in StrategyTrade
  OBVIOUS
<1>2. ASSUME NEW t \in StrategyTrade PROVE NetOfTrade(t) \in Int
  <2>1. t.of.net \in Int /\ t.lots \in Int
    BY LabAssumed DEF StrategyTrade, LabFiring
  <2> QED
    BY <2>1 DEF NetOfTrade
<1> QED
  BY <1>1, <1>2

LEMMA SumIsThere ==
  ASSUME NEW ts \in Seq(StrategyTrade), NEW some
  PROVE  \E f \in [0 .. Len(ts) -> Int] : SumUpTo(f, ts, some)
<1> DEFINE part(f, j) == f = [k \in 0 .. j |-> IF k = 0 THEN 0 ELSE f[k - 1] + (IF k \in some THEN NetOfTrade(ts[k]) ELSE 0)]
           bad == {j \in 0 .. Len(ts) : ~ \E f \in [0 .. j -> Int] : part(f, j)}
<1>1. Len(ts) \in Nat /\ \A k \in 1 .. Len(ts) : NetOfTrade(ts[k]) \in Int
  BY NetsAreNumbers
<1>2. bad = {}
  <2> SUFFICES ASSUME bad # {} PROVE FALSE
    OBVIOUS
  <2>1. bad \in SUBSET Nat
    BY <1>1
  <2> HIDE DEF bad
  <2>2. PICK j \in bad : \A i \in bad : j <= i
    BY <2>1, LeastElement
  <2>3. j \in 0 .. Len(ts) /\ ~ \E f \in [0 .. j -> Int] : part(f, j)
    BY DEF bad
  <2>4. CASE j = 0
    <3>1. [k \in 0 .. 0 |-> 0] \in [0 .. 0 -> Int] /\ part([k \in 0 .. 0 |-> 0], 0)
      OBVIOUS
    <3> QED
      BY <2>3, <2>4, <3>1
  <2>5. CASE j # 0
    <3>1. j - 1 \in 0 .. Len(ts) /\ j - 1 \notin bad /\ NetOfTrade(ts[j]) \in Int
      BY <1>1, <2>2, <2>3, <2>5
    <3>2. PICK f \in [0 .. j - 1 -> Int] : part(f, j - 1)
      BY <3>1 DEF bad
    <3>3. PICK net \in Int : net = (IF j \in some THEN NetOfTrade(ts[j]) ELSE 0)
      BY <3>1
    <3> DEFINE next == [k \in 0 .. j |-> IF k = j THEN f[j - 1] + net ELSE f[k]]
    <3>4. next \in [0 .. j -> Int]
      BY <2>3, <2>5
    <3>5. \A k \in 0 .. j : next[k] = IF k = 0 THEN 0 ELSE next[k - 1] + (IF k \in some THEN NetOfTrade(ts[k]) ELSE 0)
      BY <2>3, <2>5, <3>2, <3>3
    <3>6. part(next, j)
      BY <3>4, <3>5
    <3> QED
      BY <2>3, <3>4, <3>6
  <2> QED
    BY <2>4, <2>5
<1>3. Len(ts) \notin bad
  BY <1>2
<1> QED
  BY <1>1, <1>3 DEF SumUpTo

LEMMA SumIs ==
  ASSUME NEW ts \in Seq(StrategyTrade), NEW some
  PROVE  \E f : SumUpTo(f, ts, some) /\ SumOf(ts, some) = f[Len(ts)] /\ f \in [0 .. Len(ts) -> Int]
<1> DEFINE sum == CHOOSE f : SumUpTo(f, ts, some)
<1>1. PICK f \in [0 .. Len(ts) -> Int] : SumUpTo(f, ts, some)
  BY SumIsThere
<1>2. SumUpTo(sum, ts, some)
  BY <1>1
<1>3. SumOf(ts, some) = sum[Len(ts)]
  BY DEF SumOf, SumUpTo
<1>4. \A k \in 0 .. Len(ts) : sum[k] = f[k]
  <2> DEFINE bad == {k \in 0 .. Len(ts) : sum[k] # f[k]}
  <2> SUFFICES ASSUME bad # {} PROVE FALSE
    OBVIOUS
  <2>1. bad \in SUBSET Nat
    BY NetsAreNumbers
  <2> HIDE DEF bad, sum
  <2>2. PICK k \in bad : \A i \in bad : k <= i
    BY <2>1, LeastElement
  <2>3. k \in 0 .. Len(ts) /\ sum[k] # f[k]
    BY DEF bad
  <2>4. k # 0
    BY <1>1, <1>2, <2>3 DEF SumUpTo
  <2>5. k - 1 \in 0 .. Len(ts) /\ k - 1 \notin bad
    BY <2>2, <2>3, <2>4, NetsAreNumbers
  <2>6. sum[k - 1] = f[k - 1]
    BY <2>5 DEF bad
  <2> QED
    BY <1>1, <1>2, <2>3, <2>4, <2>6 DEF SumUpTo
<1> HIDE DEF sum
<1>5. sum = [k \in 0 .. Len(ts) |-> sum[k]]
  BY <1>2 DEF SumUpTo
<1>6. sum \in [0 .. Len(ts) -> Int]
  BY <1>4, <1>5
<1> QED
  BY <1>2, <1>3, <1>6

LEMMA SumsAgree ==
  ASSUME NEW ts \in Seq(StrategyTrade), NEW us \in Seq(StrategyTrade), Len(ts) <= Len(us), NEW some, NEW others,
         \A k \in 1 .. Len(ts) : ts[k] = us[k] /\ (k \in some <=> k \in others),
         NEW f, NEW g, SumUpTo(f, ts, some), SumUpTo(g, us, others)
  PROVE  \A k \in 0 .. Len(ts) : f[k] = g[k]
<1> DEFINE bad == {k \in 0 .. Len(ts) : f[k] # g[k]}
<1> SUFFICES ASSUME bad # {} PROVE FALSE
  OBVIOUS
<1>1. Len(ts) \in Nat /\ Len(us) \in Nat
  OBVIOUS
<1>2. bad \in SUBSET Nat
  BY <1>1
<1> HIDE DEF bad
<1>3. PICK k \in bad : \A i \in bad : k <= i
  BY <1>2, LeastElement
<1>4. k \in 0 .. Len(ts) /\ k \in 0 .. Len(us) /\ f[k] # g[k]
  BY <1>1 DEF bad
<1>5. k # 0
  BY <1>4 DEF SumUpTo
<1>6. k - 1 \in 0 .. Len(ts) /\ k - 1 \notin bad /\ k \in 1 .. Len(ts)
  BY <1>1, <1>3, <1>4, <1>5
<1>7. f[k - 1] = g[k - 1]
  BY <1>6 DEF bad
<1>8. f[k] = f[k - 1] + (IF k \in some THEN NetOfTrade(ts[k]) ELSE 0)
  BY <1>4, <1>5 DEF SumUpTo
<1>9. g[k] = g[k - 1] + (IF k \in others THEN NetOfTrade(us[k]) ELSE 0)
  BY <1>4, <1>5 DEF SumUpTo
<1>10. ts[k] = us[k] /\ (k \in some <=> k \in others)
  BY <1>6
<1> QED
  BY <1>4, <1>7, <1>8, <1>9, <1>10

LEMMA SumOfSame ==
  ASSUME NEW ts \in Seq(StrategyTrade), NEW some, NEW others, \A k \in 1 .. Len(ts) : k \in some <=> k \in others
  PROVE  SumOf(ts, some) = SumOf(ts, others)
<1>1. PICK f : SumUpTo(f, ts, some) /\ SumOf(ts, some) = f[Len(ts)]
  BY SumIs
<1>2. PICK us \in Seq(StrategyTrade) : us = ts
  OBVIOUS
<1>3. PICK g : SumUpTo(g, us, others) /\ SumOf(us, others) = g[Len(us)]
  BY SumIs
<1>4. Len(ts) \in Nat /\ Len(ts) \in 0 .. Len(ts)
  BY NetsAreNumbers
<1>5. Len(ts) <= Len(us) /\ \A k \in 1 .. Len(ts) : ts[k] = us[k] /\ (k \in some <=> k \in others)
  BY <1>2, <1>4
<1>6. \A k \in 0 .. Len(ts) : f[k] = g[k]
  BY <1>1, <1>3, <1>5, SumsAgree
<1>7. f[Len(ts)] = g[Len(ts)]
  BY <1>4, <1>6
<1> QED
  BY <1>1, <1>2, <1>3, <1>7

LEMMA SumOfAppend ==
  ASSUME NEW ts \in Seq(StrategyTrade), NEW t \in StrategyTrade, NEW some
  PROVE  SumOf(Append(ts, t), some) = SumOf(ts, some) + (IF Len(ts) + 1 \in some THEN NetOfTrade(t) ELSE 0)
<1>1. PICK us \in Seq(StrategyTrade) : us = Append(ts, t)
  BY AppendIs
<1>2. Len(us) = Len(ts) + 1 /\ Len(ts) \in Nat /\ us[Len(us)] = t /\ \A k \in 1 .. Len(ts) : ts[k] = us[k]
  BY <1>1, AppendIs
<1>3. PICK f : SumUpTo(f, ts, some) /\ SumOf(ts, some) = f[Len(ts)]
  BY SumIs
<1>4. PICK g : SumUpTo(g, us, some) /\ SumOf(us, some) = g[Len(us)]
  BY SumIs
<1>5. \A k \in 0 .. Len(ts) : f[k] = g[k]
  <2>1. Len(ts) <= Len(us) /\ \A k \in 1 .. Len(ts) : ts[k] = us[k] /\ (k \in some <=> k \in some)
    BY <1>2
  <2> QED
    BY <1>3, <1>4, <2>1, SumsAgree
<1>6. g[Len(us)] = g[Len(us) - 1] + (IF Len(us) \in some THEN NetOfTrade(us[Len(us)]) ELSE 0)
  <2>1. Len(us) \in 0 .. Len(us) /\ Len(us) # 0
    BY <1>2
  <2> QED
    BY <1>4, <2>1 DEF SumUpTo
<1>7. Len(us) - 1 = Len(ts) /\ Len(ts) \in 0 .. Len(ts)
  BY <1>2
<1>8. g[Len(us) - 1] = SumOf(ts, some)
  BY <1>3, <1>5, <1>7
<1> QED
  BY <1>1, <1>2, <1>4, <1>6, <1>8

LEMMA SumOfType ==
  ASSUME NEW ts \in Seq(StrategyTrade), NEW some
  PROVE  SumOf(ts, some) \in Int
<1>1. PICK f : SumUpTo(f, ts, some) /\ SumOf(ts, some) = f[Len(ts)] /\ f \in [0 .. Len(ts) -> Int]
  BY SumIs
<1>2. Len(ts) \in 0 .. Len(ts)
  BY NetsAreNumbers
<1> QED
  BY <1>1, <1>2

(* Those of two sets without a common trade are added.                      *)
LEMMA SumOfBoth ==
  ASSUME NEW ts \in Seq(StrategyTrade), NEW some, NEW others, \A k \in 1 .. Len(ts) : ~ (k \in some /\ k \in others)
  PROVE  SumOf(ts, some \cup others) = SumOf(ts, some) + SumOf(ts, others)
<1>1. PICK f : SumUpTo(f, ts, some) /\ SumOf(ts, some) = f[Len(ts)] /\ f \in [0 .. Len(ts) -> Int]
  BY SumIs
<1>2. PICK g : SumUpTo(g, ts, others) /\ SumOf(ts, others) = g[Len(ts)] /\ g \in [0 .. Len(ts) -> Int]
  BY SumIs
<1>3. PICK h : SumUpTo(h, ts, some \cup others) /\ SumOf(ts, some \cup others) = h[Len(ts)]
  BY SumIs
<1>4. Len(ts) \in Nat /\ \A k \in 1 .. Len(ts) : NetOfTrade(ts[k]) \in Int
  BY NetsAreNumbers
<1> DEFINE bad == {k \in 0 .. Len(ts) : h[k] # f[k] + g[k]}
<1>5. bad = {}
  <2> SUFFICES ASSUME bad # {} PROVE FALSE
    OBVIOUS
  <2>1. bad \in SUBSET Nat
    BY <1>4
  <2> HIDE DEF bad
  <2>2. PICK k \in bad : \A i \in bad : k <= i
    BY <2>1, LeastElement
  <2>3. k \in 0 .. Len(ts) /\ h[k] # f[k] + g[k]
    BY DEF bad
  <2>4. k # 0
    BY <1>1, <1>2, <1>3, <2>3 DEF SumUpTo
  <2>5. k - 1 \in 0 .. Len(ts) /\ k - 1 \notin bad /\ k \in 1 .. Len(ts)
    BY <1>4, <2>2, <2>3, <2>4
  <2>6. h[k - 1] = f[k - 1] + g[k - 1] /\ f[k - 1] \in Int /\ g[k - 1] \in Int
    BY <1>1, <1>2, <2>5 DEF bad
  <2>7. PICK net \in Int : net = NetOfTrade(ts[k])
    BY <1>4, <2>5
  <2>8. f[k] = f[k - 1] + (IF k \in some THEN net ELSE 0)
    BY <1>1, <2>3, <2>4, <2>7 DEF SumUpTo
  <2>9. g[k] = g[k - 1] + (IF k \in others THEN net ELSE 0)
    BY <1>2, <2>3, <2>4, <2>7 DEF SumUpTo
  <2>10. h[k] = h[k - 1] + (IF k \in some \cup others THEN net ELSE 0)
    BY <1>3, <2>3, <2>4, <2>7 DEF SumUpTo
  <2>11. ~ (k \in some /\ k \in others)
    BY <2>5
  <2> QED
    BY <2>3, <2>6, <2>7, <2>8, <2>9, <2>10, <2>11
<1>6. Len(ts) \in 0 .. Len(ts) /\ Len(ts) \notin bad
  BY <1>4, <1>5
<1> QED
  BY <1>1, <1>2, <1>3, <1>6

LEMMA SumOfNone ==
  ASSUME NEW ts \in Seq(StrategyTrade), NEW some, \A k \in 1 .. Len(ts) : k \notin some
  PROVE  SumOf(ts, some) = 0
<1>1. SumOf(ts, some \cup some) = SumOf(ts, some) + SumOf(ts, some)
  BY SumOfBoth
<1>2. SumOf(ts, some \cup some) = SumOf(ts, some)
  <2>1. some \cup some = some
    OBVIOUS
  <2> QED
    BY <2>1
<1>3. SumOf(ts, some) \in Int
  BY SumOfType
<1> QED
  BY <1>1, <1>2, <1>3

(* The sum of a single trade.                                               *)
LEMMA SumOfOne ==
  ASSUME NEW ts \in Seq(StrategyTrade), NEW i \in 1 .. Len(ts)
  PROVE  SumOf(ts, {i}) = NetOfTrade(ts[i])
<1>1. PICK f : SumUpTo(f, ts, {i}) /\ SumOf(ts, {i}) = f[Len(ts)] /\ f \in [0 .. Len(ts) -> Int]
  BY SumIs
<1>2. Len(ts) \in Nat /\ NetOfTrade(ts[i]) \in Int
  BY NetsAreNumbers
<1> DEFINE bad == {k \in 0 .. Len(ts) : f[k] # IF k < i THEN 0 ELSE NetOfTrade(ts[i])}
<1>3. bad = {}
  <2> SUFFICES ASSUME bad # {} PROVE FALSE
    OBVIOUS
  <2>1. bad \in SUBSET Nat
    BY <1>2
  <2> HIDE DEF bad
  <2>2. PICK k \in bad : \A j \in bad : k <= j
    BY <2>1, LeastElement
  <2>3. k \in 0 .. Len(ts) /\ f[k] # IF k < i THEN 0 ELSE NetOfTrade(ts[i])
    BY DEF bad
  <2>4. k # 0
    BY <1>1, <1>2, <2>3 DEF SumUpTo
  <2>5. k - 1 \in 0 .. Len(ts) /\ k - 1 \notin bad
    BY <1>2, <2>2, <2>3, <2>4
  <2>6. f[k - 1] = IF k - 1 < i THEN 0 ELSE NetOfTrade(ts[i])
    BY <2>5 DEF bad
  <2>7. f[k] = f[k - 1] + (IF k \in {i} THEN NetOfTrade(ts[k]) ELSE 0)
    BY <1>1, <2>3, <2>4 DEF SumUpTo
  <2> QED
    BY <1>2, <2>3, <2>4, <2>6, <2>7
<1>4. Len(ts) \in 0 .. Len(ts) /\ Len(ts) \notin bad
  BY <1>2, <1>3
<1> QED
  BY <1>1, <1>2, <1>4

-----------------------------------------------------------------------------
(* The account: never above its peak, and not further below it than the     *)
(* limit unless it was dropped.                                             *)
Accounts ==
  [equity : Int, peak : Int, dayNet : Int, nets : Seq(Int), dropped : BOOLEAN, halted : BOOLEAN, stood : BOOLEAN,
   haltDays : Nat, standDays : Nat]
SoundAccounts ==
  {a \in Accounts : /\ a.peak >= Capital /\ a.peak >= a.equity
                    /\ ~ a.dropped => 100 * (a.peak - a.equity) < DropPct * a.peak}

LEMMA SessionIs ==
  ASSUME NEW a \in Accounts
  PROVE  NewSession(a) = [equity |-> a.equity, peak |-> a.peak, dayNet |-> 0, nets |-> <<>>, dropped |-> a.dropped,
                          halted |-> FALSE, stood |-> FALSE, haltDays |-> a.haltDays, standDays |-> a.standDays]
<1>1. a = [equity |-> a.equity, peak |-> a.peak, dayNet |-> a.dayNet, nets |-> a.nets, dropped |-> a.dropped,
           halted |-> a.halted, stood |-> a.stood, haltDays |-> a.haltDays, standDays |-> a.standDays]
  BY DEF Accounts
<1>2. PICK b : b = [a EXCEPT !.dayNet = 0]
  OBVIOUS
<1>3. PICK c : c = [b EXCEPT !.nets = <<>>]
  OBVIOUS
<1>4. PICK d : d = [c EXCEPT !.halted = FALSE]
  OBVIOUS
<1>5. PICK e : e = [d EXCEPT !.stood = FALSE]
  OBVIOUS
<1>6. b = [equity |-> a.equity, peak |-> a.peak, dayNet |-> 0, nets |-> a.nets, dropped |-> a.dropped,
           halted |-> a.halted, stood |-> a.stood, haltDays |-> a.haltDays, standDays |-> a.standDays]
  BY <1>1, <1>2
<1>7. c = [equity |-> a.equity, peak |-> a.peak, dayNet |-> 0, nets |-> <<>>, dropped |-> a.dropped,
           halted |-> a.halted, stood |-> a.stood, haltDays |-> a.haltDays, standDays |-> a.standDays]
  BY <1>3, <1>6
<1>8. d = [equity |-> a.equity, peak |-> a.peak, dayNet |-> 0, nets |-> <<>>, dropped |-> a.dropped,
           halted |-> FALSE, stood |-> a.stood, haltDays |-> a.haltDays, standDays |-> a.standDays]
  BY <1>4, <1>7
<1>9. e = [equity |-> a.equity, peak |-> a.peak, dayNet |-> 0, nets |-> <<>>, dropped |-> a.dropped,
           halted |-> FALSE, stood |-> FALSE, haltDays |-> a.haltDays, standDays |-> a.standDays]
  BY <1>5, <1>8
<1>10. NewSession(a) = e
  BY <1>2, <1>3, <1>4, <1>5, Zenon DEF NewSession
<1> QED
  BY <1>9, <1>10

LEMMA StartIsSound == LabStart \in SoundAccounts /\ NewSession(LabStart) = LabStart
<1>1. LabStart \in Accounts
  <2>1. <<>> \in Seq(Int)
    OBVIOUS
  <2> QED
    BY <2>1, LabAssumed DEF LabStart, Accounts
<1>2. 100 * (Capital - Capital) < DropPct * Capital
  <2>1. PICK c \in Nat : c = Capital /\ c > 0
    BY LabAssumed
  <2>2. 1 * c <= DropPct * c
    BY <2>1, LabAssumed, ProductsGrow
  <2>3. DropPct * c \in Int
    BY <2>1, LabAssumed
  <2> QED
    BY <2>1, <2>2, <2>3
<1>3. LabStart.equity = Capital /\ LabStart.peak = Capital
  BY DEF LabStart
<1>4. LabStart \in SoundAccounts
  BY <1>1, <1>2, <1>3, LabAssumed DEF SoundAccounts
<1>5. NewSession(LabStart) = LabStart
  BY <1>1, SessionIs DEF LabStart
<1> QED
  BY <1>4, <1>5

LEMMA SessionIsSound ==
  ASSUME NEW a \in SoundAccounts
  PROVE  /\ NewSession(a) \in SoundAccounts /\ NewSession(NewSession(a)) = NewSession(a)
         /\ NewSession(a).equity = a.equity /\ NewSession(a).peak = a.peak /\ NewSession(a).dropped = a.dropped
         /\ NewSession(a).haltDays = a.haltDays /\ NewSession(a).standDays = a.standDays
<1>1. a \in Accounts
  BY DEF SoundAccounts
<1>2. PICK n : n = NewSession(a)
  OBVIOUS
<1>3. n = [equity |-> a.equity, peak |-> a.peak, dayNet |-> 0, nets |-> <<>>, dropped |-> a.dropped,
           halted |-> FALSE, stood |-> FALSE, haltDays |-> a.haltDays, standDays |-> a.standDays]
  BY <1>1, <1>2, SessionIs
<1>4. n \in Accounts
  <2>1. <<>> \in Seq(Int)
    OBVIOUS
  <2> QED
    BY <1>1, <1>3, <2>1 DEF Accounts
<1>5. n.equity = a.equity /\ n.peak = a.peak /\ n.dropped = a.dropped /\ n.haltDays = a.haltDays /\ n.standDays = a.standDays
  BY <1>3
<1>6. n \in SoundAccounts
  BY <1>4, <1>5 DEF SoundAccounts
<1>7. NewSession(n) = n
  <2>1. NewSession(n) = [equity |-> n.equity, peak |-> n.peak, dayNet |-> 0, nets |-> <<>>, dropped |-> n.dropped,
           halted |-> FALSE, stood |-> FALSE, haltDays |-> n.haltDays, standDays |-> n.standDays]
    BY <1>4, SessionIs
  <2> QED
    BY <1>3, <1>5, <2>1
<1> QED
  BY <1>2, <1>5, <1>6, <1>7

LEMMA GoneIsDropped ==
  ASSUME NEW equity \in Int, NEW peak \in Int, peak > 0, equity <= 0
  PROVE  DropBreached(equity, peak)
<1>1. DropPct * peak <= 100 * peak
  BY LabAssumed, ProductsGrow
<1>2. DropPct * peak \in Int
  BY LabAssumed
<1> QED
  BY <1>1, <1>2 DEF DropBreached

(* A trade that settles moves the account by its net. An account that is    *)
(* gone is dropped in any case.                                             *)
LEMMA CreditIsSound ==
  ASSUME NEW a \in SoundAccounts, NEW net \in Int, NEW wiped \in BOOLEAN
  PROVE  /\ Credit(a, net, wiped) \in SoundAccounts /\ Credit(a, net, wiped) = Credit(a, net, TRUE)
         /\ Credit(a, net, wiped).equity = a.equity + net /\ Credit(a, net, wiped).peak >= a.peak
         /\ ~ Credit(a, net, wiped).dropped => ~ a.dropped
<1>1. a \in Accounts /\ a.equity \in Int /\ a.peak \in Int /\ a.peak >= Capital /\ a.dropped \in BOOLEAN
  BY DEF SoundAccounts, Accounts
<1>2. PICK equity \in Int : equity = a.equity + net
  BY <1>1
<1>3. PICK peak \in Int : peak = (IF equity > a.peak THEN equity ELSE a.peak) /\ peak >= a.peak /\ peak >= equity /\ peak > 0
  BY <1>1, <1>2, LabAssumed
<1>4. PICK gone \in BOOLEAN : gone = (a.dropped \/ DropBreached(equity, peak) \/ (wiped /\ equity <= 0))
  OBVIOUS
<1>5. gone = (a.dropped \/ DropBreached(equity, peak) \/ (TRUE /\ equity <= 0))
  <2>1. equity <= 0 => DropBreached(equity, peak)
    BY <1>2, <1>3, GoneIsDropped
  <2> QED
    BY <1>4, <2>1
<1> DEFINE loss == ~ a.halted /\ LossBreached(a.dayNet + net)
           streak == ~ a.stood /\ StreakBreached(<<net>> \o a.nets)
           of(stop) == [equity |-> equity, peak |-> peak, dayNet |-> a.dayNet + net, nets |-> <<net>> \o a.nets,
                        dropped |-> stop, halted |-> a.halted \/ loss, stood |-> a.stood \/ streak,
                        haltDays |-> a.haltDays + (IF loss THEN 1 ELSE 0),
                        standDays |-> a.standDays + (IF streak THEN 1 ELSE 0)]
<1>6. Credit(a, net, wiped) = of(gone)
  BY <1>2, <1>3, <1>4 DEF Credit
<1>7. Credit(a, net, TRUE) = of(gone)
  BY <1>2, <1>3, <1>5 DEF Credit
<1>8. PICK c \in Accounts : c = of(gone) /\ c.equity = equity /\ c.peak = peak /\ c.dropped = gone
  <2>1. a.dayNet + net \in Int /\ <<net>> \o a.nets \in Seq(Int) /\ a.halted \in BOOLEAN /\ a.stood \in BOOLEAN
        /\ a.haltDays \in Nat /\ a.standDays \in Nat
    <3>1. a.nets \in Seq(Int) /\ <<net>> \in Seq(Int)
      BY <1>1 DEF Accounts
    <3> QED
      BY <1>1, <3>1 DEF Accounts
  <2>2. loss \in BOOLEAN /\ streak \in BOOLEAN
    BY DEF LossBreached, StreakBreached
  <2> HIDE DEF loss, streak
  <2>3. PICK dayNet \in Int, nets \in Seq(Int) : dayNet = a.dayNet + net /\ nets = <<net>> \o a.nets
    BY <2>1
  <2>4. PICK halted \in BOOLEAN, stood \in BOOLEAN : halted = (a.halted \/ loss) /\ stood = (a.stood \/ streak)
    OBVIOUS
  <2>5. PICK haltDays \in Nat, standDays \in Nat :
          haltDays = a.haltDays + (IF loss THEN 1 ELSE 0) /\ standDays = a.standDays + (IF streak THEN 1 ELSE 0)
    BY <2>1
  <2>6. of(gone) = [equity |-> equity, peak |-> peak, dayNet |-> dayNet, nets |-> nets, dropped |-> gone,
                    halted |-> halted, stood |-> stood, haltDays |-> haltDays, standDays |-> standDays]
    BY <2>3, <2>4, <2>5
  <2> HIDE DEF of
  <2> QED
    BY <2>6 DEF Accounts
<1> HIDE DEF of, loss, streak
<1>9. ~ gone => 100 * (peak - equity) < DropPct * peak
  <2>1. DropPct * peak \in Int
    BY <1>3, LabAssumed
  <2>2. ~ gone => ~ DropBreached(equity, peak)
    BY <1>4
  <2> QED
    BY <1>2, <1>3, <2>1, <2>2 DEF DropBreached
<1>10. c \in SoundAccounts
  <2>1. peak >= Capital
    BY <1>1, <1>3, LabAssumed
  <2> QED
    BY <1>3, <1>8, <1>9, <2>1 DEF SoundAccounts
<1> QED
  BY <1>2, <1>3, <1>4, <1>6, <1>7, <1>8, <1>10

-----------------------------------------------------------------------------
(* The trades in the order they resolve.                                    *)
LEMMA TradeEnds ==
  ASSUME trades \in Seq(StrategyTrade)
  PROVE  /\ DOMAIN trades = 1 .. Len(trades) /\ Len(trades) \in Nat /\ IsFiniteSet(DOMAIN trades)
         /\ \A i \in DOMAIN trades : i \in Nat /\ trades[i] \in StrategyTrade /\ EndOf(trades[i]) \in Nat
<1>1. DOMAIN trades = 1 .. Len(trades) /\ Len(trades) \in Nat /\ \A i \in DOMAIN trades : i \in Nat /\ trades[i] \in StrategyTrade
  OBVIOUS
<1>2. IsFiniteSet(1 .. Len(trades))
  BY <1>1, FS_Interval
<1>3. \A t \in StrategyTrade : EndOf(t) \in Nat
  BY DEF StrategyTrade, LabFiring, EndOf
<1> QED
  BY <1>1, <1>2, <1>3

LEMMA TradesAreOrdered ==
  ASSUME trades \in Seq(StrategyTrade)
  PROVE  /\ \A i, j \in DOMAIN trades : i # j => ResolvesBefore(i, j) \/ ResolvesBefore(j, i)
         /\ \A i, j \in DOMAIN trades : ~ (ResolvesBefore(i, j) /\ ResolvesBefore(j, i))
         /\ \A i, j, k \in DOMAIN trades : ResolvesBefore(i, j) /\ ResolvesBefore(j, k) => ResolvesBefore(i, k)
<1>1. \A i \in DOMAIN trades : i \in Nat /\ EndOf(trades[i]) \in Nat
  BY TradeEnds
<1> QED
  BY <1>1 DEF ResolvesBefore

LEMMA LastResolvedIs ==
  ASSUME trades \in Seq(StrategyTrade), NEW T \in SUBSET DOMAIN trades
  PROVE  /\ T # {} => LastResolved(T) \in T
         /\ \A i \in T : (\A j \in T \ {i} : ResolvesBefore(j, i)) => LastResolved(T) = i
<1> DEFINE R == {p \in (DOMAIN trades) \X (DOMAIN trades) : ResolvesBefore(p[1], p[2])}
<1>1. \A i, j \in DOMAIN trades : <<i, j>> \in R <=> ResolvesBefore(i, j)
  OBVIOUS
<1>2. /\ \A i, j \in DOMAIN trades : i # j => <<i, j>> \in R \/ <<j, i>> \in R
      /\ \A i, j, k \in DOMAIN trades : <<i, j>> \in R /\ <<j, k>> \in R => <<i, k>> \in R
  BY <1>1, TradesAreOrdered
<1>3. IsFiniteSet(DOMAIN trades)
  BY TradeEnds
<1> HIDE DEF R
<1>4. ASSUME T # {} PROVE \E i \in T : \A j \in T \ {i} : <<j, i>> \in R
  <2>1. PICK D : D = DOMAIN trades
    OBVIOUS
  <2>2. /\ IsFiniteSet(D) /\ T \in SUBSET D /\ \A i, j \in D : i # j => <<i, j>> \in R \/ <<j, i>> \in R
        /\ \A i, j, k \in D : <<i, j>> \in R /\ <<j, k>> \in R => <<i, k>> \in R
    BY <1>2, <1>3, <2>1
  <2>3. \A U \in SUBSET D : U # {} => \E i \in U : \A j \in U \ {i} : <<j, i>> \in R
    BY <2>2, LastIsThere
  <2> QED
    BY <1>4, <2>2, <2>3
<1>5. T # {} => \E i \in T : \A j \in T \ {i} : ResolvesBefore(j, i)
  BY <1>1, <1>4
<1>6. T # {} => LastResolved(T) \in T /\ \A j \in T \ {LastResolved(T)} : ResolvesBefore(j, LastResolved(T))
  BY <1>5 DEF LastResolved
<1>7. ASSUME NEW i \in T, \A j \in T \ {i} : ResolvesBefore(j, i) PROVE LastResolved(T) = i
  <2>1. SUFFICES ASSUME LastResolved(T) # i PROVE FALSE
    OBVIOUS
  <2>2. LastResolved(T) \in T /\ ResolvesBefore(i, LastResolved(T)) /\ ResolvesBefore(LastResolved(T), i)
    BY <1>6, <1>7, <2>1
  <2>3. i \in DOMAIN trades /\ LastResolved(T) \in DOMAIN trades
    BY <2>2
  <2> QED
    BY <2>2, <2>3, TradesAreOrdered
<1> QED
  BY <1>6, <1>7

(* What some of the trades make of the account.                             *)
Settles(some) ==
  LET after[part \in SUBSET some] ==
        IF part = {} THEN account
        ELSE LET i == LastResolved(part)
             IN Credit(after[part \ {i}], NetOfTrade(trades[i]), compound)
  IN after[some]

LEMMA SettlesIs ==
  ASSUME trades \in Seq(StrategyTrade), account \in SoundAccounts, compound \in BOOLEAN, NEW S \in SUBSET DOMAIN trades
  PROVE  /\ Settles(S) \in SoundAccounts /\ (S = {} => Settles(S) = account)
         /\ S # {} => Settles(S) = Credit(Settles(S \ {LastResolved(S)}), NetOfTrade(trades[LastResolved(S)]), compound)
<1> DEFINE last == [T \in SUBSET DOMAIN trades |-> LastResolved(T)]
           step == [p \in SoundAccounts \X (DOMAIN trades) |-> Credit(p[1], NetOfTrade(trades[p[2]]), compound)]
<1>1. IsFiniteSet(DOMAIN trades) /\ \A i \in DOMAIN trades : NetOfTrade(trades[i]) \in Int
  BY TradeEnds, NetsAreNumbers
<1>2. \A T \in SUBSET DOMAIN trades : last[T] = LastResolved(T) /\ (T # {} => last[T] \in T)
  BY LastResolvedIs
<1>3. \A a \in SoundAccounts, i \in DOMAIN trades :
        step[<<a, i>>] = Credit(a, NetOfTrade(trades[i]), compound) /\ step[<<a, i>>] \in SoundAccounts
  <2> TAKE a \in SoundAccounts, i \in DOMAIN trades
  <2>1. step[<<a, i>>] = Credit(a, NetOfTrade(trades[i]), compound)
    OBVIOUS
  <2> QED
    BY <1>1, <2>1, CreditIsSound
<1> HIDE DEF last, step
<1>4. ASSUME NEW T \in SUBSET DOMAIN trades
      PROVE  \E f : /\ RunThrough(f, T, account, last, step) /\ f[T] = Settles(T)
                    /\ \A U \in SUBSET T : f[U] \in SoundAccounts
  <2>1. IsFiniteSet(T) /\ PicksFrom(last, T)
    BY <1>1, <1>2, FS_Subset DEF PicksFrom
  <2>2. PICK f : RunThrough(f, T, account, last, step)
    BY <2>1, RunIsThere
  <2>3. PICK start : start = account /\ start \in SoundAccounts
    OBVIOUS
  <2>4. \A U \in SUBSET T : f[U] \in SoundAccounts
    <3>1. \A a \in SoundAccounts, i \in T : step[<<a, i>>] \in SoundAccounts
      BY <1>3
    <3>2. RunThrough(f, T, start, last, step)
      BY <2>2, <2>3
    <3> QED
      BY <2>1, <2>3, <3>1, <3>2, RunStays
  <2> DEFINE goes(g) == g = [part \in SUBSET T |->
                        IF part = {} THEN account
                        ELSE Credit(g[part \ {LastResolved(part)}], NetOfTrade(trades[LastResolved(part)]), compound)]
             after == CHOOSE g : goes(g)
  <2>5. goes(f)
    <3>1. ASSUME NEW U \in SUBSET T, U # {}
          PROVE  f[U] = Credit(f[U \ {LastResolved(U)}], NetOfTrade(trades[LastResolved(U)]), compound)
      <4>1. last[U] = LastResolved(U) /\ last[U] \in DOMAIN trades
        BY <1>2, <3>1
      <4>2. f[U] = step[<<f[U \ {last[U]}], last[U]>>]
        BY <2>2, <3>1 DEF RunThrough
      <4>3. f[U \ {last[U]}] \in SoundAccounts
        BY <2>4
      <4> QED
        BY <1>3, <4>1, <4>2, <4>3
    <3>2. f[{}] = account
      BY <2>2 DEF RunThrough
    <3>3. f = [U \in SUBSET T |-> f[U]]
      BY <2>2 DEF RunThrough
    <3> QED
      BY <3>1, <3>2, <3>3
  <2>6. goes(after)
    BY <2>5
  <2>7. Settles(T) = after[T]
    BY DEF Settles
  <2> HIDE DEF after
  <2>8. \A U \in SUBSET T : after[U] = f[U]
    <3> DEFINE good == {U \in SUBSET T : after[U] = f[U]}
    <3>1. ASSUME NEW U \in SUBSET T, \A V \in SUBSET U : V # U => V \in good PROVE U \in good
      <4>1. CASE U = {}
        BY <2>5, <2>6, <4>1
      <4>2. CASE U # {}
        <5>1. LastResolved(U) \in U
          BY <1>2, <4>2
        <5>2. U \ {LastResolved(U)} \in good
          BY <3>1, <5>1
        <5>3. after[U] = Credit(after[U \ {LastResolved(U)}], NetOfTrade(trades[LastResolved(U)]), compound)
          BY <2>6, <4>2
        <5>4. f[U] = Credit(f[U \ {LastResolved(U)}], NetOfTrade(trades[LastResolved(U)]), compound)
          BY <2>5, <4>2
        <5> QED
          BY <5>2, <5>3, <5>4
      <4> QED
        BY <4>1, <4>2
    <3> HIDE DEF good
    <3>2. \A U \in SUBSET T : U \in good
      BY <2>1, <3>1, SmallerSets
    <3> QED
      BY <3>2 DEF good
  <2>9. f[T] = Settles(T)
    BY <2>7, <2>8
  <2> QED
    BY <2>2, <2>4, <2>9
<1>5. PICK f : RunThrough(f, S, account, last, step) /\ f[S] = Settles(S) /\ \A U \in SUBSET S : f[U] \in SoundAccounts
  BY <1>4
<1>6. Settles(S) \in SoundAccounts
  BY <1>5
<1>7. S = {} => Settles(S) = account
  BY <1>5 DEF RunThrough
<1>8. ASSUME S # {}
      PROVE  Settles(S) = Credit(Settles(S \ {LastResolved(S)}), NetOfTrade(trades[LastResolved(S)]), compound)
  <2>1. last[S] = LastResolved(S) /\ LastResolved(S) \in S
    BY <1>2, <1>8
  <2>2. PICK W \in SUBSET S : W = S \ {LastResolved(S)}
    OBVIOUS
  <2>3. PICK g : RunThrough(g, W, account, last, step) /\ g[W] = Settles(W)
    BY <1>4, <2>2
  <2>4. IsFiniteSet(S) /\ PicksFrom(last, S)
    BY <1>1, <1>2, FS_Subset DEF PicksFrom
  <2>5. PICK start : start = account
    OBVIOUS
  <2>6. RunThrough(f, S, start, last, step) /\ RunThrough(g, W, start, last, step) /\ W \in SUBSET S
    BY <1>5, <2>2, <2>3, <2>5
  <2>7. \A T \in SUBSET W : f[T] = g[T]
    BY <2>4, <2>6, RunIsOne
  <2>8. f[W] = Settles(W) /\ f[W] \in SoundAccounts
    BY <1>5, <2>2, <2>3, <2>7
  <2>9. f[S] = step[<<f[W], LastResolved(S)>>]
    BY <1>5, <1>8, <2>1, <2>2 DEF RunThrough
  <2>10. f[S] = Credit(f[W], NetOfTrade(trades[LastResolved(S)]), compound)
    BY <1>3, <2>1, <2>8, <2>9
  <2> QED
    BY <1>5, <2>2, <2>8, <2>10
<1> QED
  BY <1>6, <1>7, <1>8

-----------------------------------------------------------------------------
(* The replay, event by event.                                              *)
LabEvents == [ts : Nat, kind : {0, 1}, index : Nat \ {0}, of : LabFiring]
ReplayStates == [day : Nat, book : SoundAccounts, held : SUBSET StrategyTrade, taken : Nat, unaffordable : Nat]
State(day, acc, held, taken, unaffordable) ==
  [day |-> day, book |-> acc, held |-> held, taken |-> taken, unaffordable |-> unaffordable]

LEMMA LotsAreFew ==
  ASSUME NEW money \in Int, NEW unit \in Nat \ {0}
  PROVE  LotsFor(money, unit) \in 0 .. LotCap
<1>1. PICK q \in Int : q = money \div unit /\ money < q * unit + unit
  BY QuotientFits
<1>2. money > 0 => q >= 0
  <2>1. SUFFICES ASSUME money > 0, q + 1 <= 0 PROVE FALSE
    BY <1>1
  <2>2. (q + 1) * unit <= 0 * unit
    BY <1>1, <2>1, ProductsGrow
  <2>3. (q + 1) * unit = q * unit + unit
    BY <1>1
  <2> QED
    BY <1>1, <2>1, <2>2, <2>3
<1> QED
  BY <1>1, <1>2, LabAssumed DEF LotsFor

LEMMA BookIsSound ==
  ASSUME NEW r \in ReplayStates, NEW day \in Nat
  PROVE  /\ BookOn(r, day) \in SoundAccounts
         /\ BookOn(r, day).equity = r.book.equity /\ BookOn(r, day).dropped = r.book.dropped
         /\ BookOn(r, day).haltDays = r.book.haltDays /\ BookOn(r, day).standDays = r.book.standDays
         /\ NewSession(BookOn(r, day)) = NewSession(r.book)
<1>1. r.book \in SoundAccounts
  BY DEF ReplayStates
<1> QED
  BY <1>1, SessionIsSound DEF BookOn

LEMMA StepBegins ==
  ASSUME NEW r \in ReplayStates, NEW e \in LabEvents, NEW stakes
  PROVE  ReplayStep(r, e, stakes) = LET here == State(DayOf(e.ts), BookOn(r, DayOf(e.ts)), r.held, r.taken, r.unaffordable)
                            IN IF e.kind = 0 THEN TakeEntry(here, e, stakes) ELSE TakeExit(here, e)
<1>1. r = State(r.day, r.book, r.held, r.taken, r.unaffordable)
  BY DEF ReplayStates, State
<1>2. PICK day, acc : day = DayOf(e.ts) /\ acc = BookOn(r, DayOf(e.ts))
  OBVIOUS
<1>3. PICK b : b = [r EXCEPT !.day = day]
  OBVIOUS
<1>4. PICK c : c = [b EXCEPT !.book = acc]
  OBVIOUS
<1>5. b = State(day, r.book, r.held, r.taken, r.unaffordable)
  BY <1>1, <1>3 DEF State
<1>6. c = State(day, acc, r.held, r.taken, r.unaffordable)
  BY <1>4, <1>5 DEF State
<1>7. ReplayStep(r, e, stakes) = IF e.kind = 0 THEN TakeEntry(c, e, stakes) ELSE TakeExit(c, e)
  BY <1>2, <1>3, <1>4, Zenon DEF ReplayStep
<1> QED
  BY <1>2, <1>6, <1>7

LEMMA EntryIs ==
  ASSUME NEW r \in ReplayStates, NEW e \in LabEvents, e.kind = 0,
         NEW stakes, NEW lots, NEW acc, acc = BookOn(r, DayOf(e.ts)), lots = LotsFor(IF stakes THEN acc.equity ELSE Capital, e.of.unit)
  PROVE  ReplayStep(r, e, stakes) =
           IF Gated(acc) THEN State(DayOf(e.ts), acc, r.held, r.taken, r.unaffordable)
           ELSE IF lots = 0 THEN State(DayOf(e.ts), acc, r.held, r.taken, r.unaffordable + 1)
           ELSE State(DayOf(e.ts), acc, r.held \cup {[index |-> e.index, of |-> e.of, lots |-> lots]}, r.taken + 1,
                      r.unaffordable)
<1>1. PICK here : here = State(DayOf(e.ts), acc, r.held, r.taken, r.unaffordable)
  OBVIOUS
<1>2. ReplayStep(r, e, stakes) = TakeEntry(here, e, stakes)
  BY <1>1, StepBegins
<1>3. here.book = acc /\ here.held = r.held /\ here.taken = r.taken /\ here.unaffordable = r.unaffordable
  BY <1>1 DEF State
<1>4. PICK new : new = r.held \cup {[index |-> e.index, of |-> e.of, lots |-> lots]}
  OBVIOUS
<1>5. [here EXCEPT !.unaffordable = @ + 1] = State(DayOf(e.ts), acc, r.held, r.taken, r.unaffordable + 1)
  BY <1>1 DEF State
<1>6. [here EXCEPT !.held = @ \cup {[index |-> e.index, of |-> e.of, lots |-> lots]}, !.taken = @ + 1]
        = State(DayOf(e.ts), acc, new, r.taken + 1, r.unaffordable)
  <2>1. PICK b : b = [here EXCEPT !.held = @ \cup {[index |-> e.index, of |-> e.of, lots |-> lots]}]
    OBVIOUS
  <2>2. b = State(DayOf(e.ts), acc, new, r.taken, r.unaffordable)
    BY <1>1, <1>4, <2>1 DEF State
  <2>3. [b EXCEPT !.taken = @ + 1] = State(DayOf(e.ts), acc, new, r.taken + 1, r.unaffordable)
    BY <2>2 DEF State
  <2> QED
    BY <2>1, <2>3, Zenon
<1>7. TakeEntry(here, e, stakes) = IF Gated(acc) THEN here
                           ELSE IF lots = 0 THEN [here EXCEPT !.unaffordable = @ + 1]
                           ELSE [here EXCEPT !.held = @ \cup {[index |-> e.index, of |-> e.of, lots |-> lots]}, !.taken = @ + 1]
  BY <1>3, Zenon DEF TakeEntry
<1> QED
  BY <1>1, <1>2, <1>4, <1>5, <1>6, <1>7

HeldFor(r, e) == {t \in r.held : t.index = e.index}
LEMMA ExitIs ==
  ASSUME NEW r \in ReplayStates, NEW e \in LabEvents, e.kind = 1, NEW stakes,
         NEW acc, acc = BookOn(r, DayOf(e.ts))
  PROVE  /\ HeldFor(r, e) = {} => ReplayStep(r, e, stakes) = State(DayOf(e.ts), acc, r.held, r.taken, r.unaffordable)
         /\ HeldFor(r, e) # {} => \E t \in HeldFor(r, e) :
              ReplayStep(r, e, stakes)
                = State(DayOf(e.ts), Credit(acc, NetOfTrade(t), TRUE), r.held \ HeldFor(r, e), r.taken, r.unaffordable)
<1> DEFINE mine == HeldFor(r, e)
<1>1. PICK here : here = State(DayOf(e.ts), acc, r.held, r.taken, r.unaffordable)
  OBVIOUS
<1>2. ReplayStep(r, e, stakes) = TakeExit(here, e)
  BY <1>1, StepBegins
<1>3. here.book = acc /\ here.held = r.held
  BY <1>1 DEF State
<1>4. PICK t : t = CHOOSE u \in mine : TRUE
  OBVIOUS
<1>5. PICK net, after : net = NetOfTrade(t) /\ after = Credit(acc, net, TRUE)
  OBVIOUS
<1>6. [here EXCEPT !.held = @ \ mine, !.book = Credit(@, net, TRUE)]
        = State(DayOf(e.ts), after, r.held \ mine, r.taken, r.unaffordable)
  <2>1. PICK b : b = [here EXCEPT !.held = @ \ mine]
    OBVIOUS
  <2>2. PICK left : left = r.held \ mine
    OBVIOUS
  <2>3. b = State(DayOf(e.ts), acc, left, r.taken, r.unaffordable)
    BY <1>1, <2>1, <2>2 DEF State
  <2>4. [b EXCEPT !.book = after] = State(DayOf(e.ts), after, left, r.taken, r.unaffordable)
    BY <2>3 DEF State
  <2>5. [b EXCEPT !.book = Credit(@, net, TRUE)] = [b EXCEPT !.book = after]
    <3>1. b.book = acc
      BY <2>3 DEF State
    <3> QED
      BY <1>5, <3>1
  <2> QED
    BY <2>1, <2>2, <2>4, <2>5, Zenon
<1>7. TakeExit(here, e) = IF mine = {} THEN here ELSE [here EXCEPT !.held = @ \ mine, !.book = Credit(@, net, TRUE)]
  BY <1>3, <1>4, <1>5, Zenon DEF TakeExit, HeldFor
<1>8. mine # {} => t \in mine
  BY <1>4
<1> QED
  BY <1>1, <1>2, <1>5, <1>6, <1>7, <1>8

LEMMA StepStays ==
  ASSUME NEW r \in ReplayStates, NEW e \in LabEvents, NEW stakes \in BOOLEAN
  PROVE  ReplayStep(r, e, stakes) \in ReplayStates
<1>1. /\ r.day \in Nat /\ r.book \in SoundAccounts /\ r.held \in SUBSET StrategyTrade /\ r.taken \in Nat /\ r.unaffordable \in Nat
  BY DEF ReplayStates
<1>2. e.ts \in Nat /\ e.kind \in {0, 1} /\ e.index \in Nat \ {0} /\ e.of \in LabFiring /\ e.of.unit \in Nat \ {0}
  BY DEF LabEvents, LabFiring
<1>3. PICK day \in Nat : day = DayOf(e.ts)
  BY <1>2, DayIs
<1>4. PICK acc \in SoundAccounts : acc = BookOn(r, day)
  BY <1>3, BookIsSound
<1>5. \A n \in Nat, b \in SoundAccounts, h \in SUBSET StrategyTrade, m, u \in Nat : State(n, b, h, m, u) \in ReplayStates
  BY DEF State, ReplayStates
<1>6. CASE e.kind = 0
  <2>1. acc.equity \in Int /\ Capital \in Int
    BY LabAssumed DEF SoundAccounts, Accounts
  <2>2. PICK money \in Int : money = (IF stakes THEN acc.equity ELSE Capital)
    BY <2>1
  <2>3. PICK lots \in 0 .. LotCap : lots = LotsFor(money, e.of.unit)
    BY <1>2, LotsAreFew
  <2>4. PICK trade : trade = [index |-> e.index, of |-> e.of, lots |-> lots]
    OBVIOUS
  <2>5. lots # 0 => trade \in StrategyTrade
    BY <1>2, <2>3, <2>4, LabAssumed DEF StrategyTrade
  <2>6. ReplayStep(r, e, stakes) =
           IF Gated(acc) THEN State(day, acc, r.held, r.taken, r.unaffordable)
           ELSE IF lots = 0 THEN State(day, acc, r.held, r.taken, r.unaffordable + 1)
           ELSE State(day, acc, r.held \cup {trade}, r.taken + 1, r.unaffordable)
    <3>1. acc = BookOn(r, DayOf(e.ts)) /\ lots = LotsFor(IF stakes THEN acc.equity ELSE Capital, e.of.unit)
      BY <1>3, <1>4, <2>2, <2>3
    <3>2. ReplayStep(r, e, stakes) =
            IF Gated(acc) THEN State(DayOf(e.ts), acc, r.held, r.taken, r.unaffordable)
            ELSE IF lots = 0 THEN State(DayOf(e.ts), acc, r.held, r.taken, r.unaffordable + 1)
            ELSE State(DayOf(e.ts), acc, r.held \cup {[index |-> e.index, of |-> e.of, lots |-> lots]}, r.taken + 1,
                       r.unaffordable)
      BY <1>6, <3>1, EntryIs
    <3> QED
      BY <1>3, <2>4, <3>2
  <2>7. CASE Gated(acc)
    BY <1>1, <1>5, <2>6, <2>7
  <2>8. CASE ~ Gated(acc) /\ lots = 0
    BY <1>1, <1>5, <2>6, <2>8
  <2>9. CASE ~ Gated(acc) /\ lots # 0
    <3>1. r.held \cup {trade} \in SUBSET StrategyTrade /\ r.taken + 1 \in Nat
      BY <1>1, <2>5, <2>9
    <3> QED
      BY <1>1, <1>5, <2>6, <2>9, <3>1
  <2> QED
    BY <2>7, <2>8, <2>9
<1>7. CASE e.kind = 1
  <2>1. PICK mine \in SUBSET StrategyTrade : mine = HeldFor(r, e)
    BY <1>1 DEF HeldFor
  <2>2. /\ mine = {} => ReplayStep(r, e, stakes) = State(day, acc, r.held, r.taken, r.unaffordable)
        /\ mine # {} => \E t \in mine :
              ReplayStep(r, e, stakes) = State(day, Credit(acc, NetOfTrade(t), TRUE), r.held \ mine, r.taken, r.unaffordable)
    <3>1. acc = BookOn(r, DayOf(e.ts))
      BY <1>3, <1>4
    <3>2. /\ HeldFor(r, e) = {} => ReplayStep(r, e, stakes) = State(DayOf(e.ts), acc, r.held, r.taken, r.unaffordable)
          /\ HeldFor(r, e) # {} => \E t \in HeldFor(r, e) :
               ReplayStep(r, e, stakes)
                 = State(DayOf(e.ts), Credit(acc, NetOfTrade(t), TRUE), r.held \ HeldFor(r, e), r.taken, r.unaffordable)
      BY <1>7, <3>1, ExitIs
    <3> QED
      BY <1>3, <2>1, <3>2
  <2>3. CASE mine = {}
    BY <1>1, <1>5, <2>2, <2>3
  <2>4. CASE mine # {}
    <3>1. PICK t \in mine :
            ReplayStep(r, e, stakes) = State(day, Credit(acc, NetOfTrade(t), TRUE), r.held \ mine, r.taken, r.unaffordable)
      BY <2>2, <2>4
    <3>2. NetOfTrade(t) \in Int
      <4>1. t.of.net \in Int /\ t.lots \in Int
        BY LabAssumed DEF StrategyTrade, LabFiring
      <4> QED
        BY <4>1 DEF NetOfTrade
    <3>3. Credit(acc, NetOfTrade(t), TRUE) \in SoundAccounts
      BY <3>2, CreditIsSound
    <3>4. r.held \ mine \in SUBSET StrategyTrade
      BY <1>1
    <3> QED
      BY <1>1, <1>5, <3>1, <3>3, <3>4
  <2> QED
    BY <2>3, <2>4
<1> QED
  BY <1>2, <1>6, <1>7

(* Events that are told apart by what they are of.                          *)
ToldApart(E) ==
  /\ IsFiniteSet(E) /\ E \subseteq LabEvents
  /\ \A e, g \in E : e.kind = g.kind /\ e.index = g.index => e = g

LEMMA EventsAreOrdered ==
  ASSUME NEW E, ToldApart(E)
  PROVE  /\ \A e, g \in E : e # g => EventBefore(e, g) \/ EventBefore(g, e)
         /\ \A e, g \in E : ~ (EventBefore(e, g) /\ EventBefore(g, e))
         /\ \A e, g, h \in E : EventBefore(e, g) /\ EventBefore(g, h) => EventBefore(e, h)
<1>1. \A e \in E : e.ts \in Nat /\ e.kind \in Nat /\ e.index \in Nat
  BY DEF ToldApart, LabEvents
<1>2. \A e, g \in E : e # g => e.kind # g.kind \/ e.index # g.index
  BY DEF ToldApart
<1>3. \A e, g \in E : e # g => EventBefore(e, g) \/ EventBefore(g, e)
  BY <1>1, <1>2 DEF EventBefore
<1>4. \A e, g \in E : ~ (EventBefore(e, g) /\ EventBefore(g, e))
  BY <1>1 DEF EventBefore
<1>5. \A e, g, h \in E : EventBefore(e, g) /\ EventBefore(g, h) => EventBefore(e, h)
  BY <1>1 DEF EventBefore
<1> QED
  BY <1>3, <1>4, <1>5

LEMMA LastEventIs ==
  ASSUME NEW E, ToldApart(E), NEW T \in SUBSET E
  PROVE  /\ T # {} => LastEvent(T) \in T /\ \A g \in T \ {LastEvent(T)} : EventBefore(g, LastEvent(T))
         /\ \A e \in T : (\A g \in T \ {e} : EventBefore(g, e)) => LastEvent(T) = e
<1> DEFINE R == {p \in E \X E : EventBefore(p[1], p[2])}
<1>1. \A e, g \in E : <<e, g>> \in R <=> EventBefore(e, g)
  OBVIOUS
<1>2. /\ IsFiniteSet(E) /\ \A e, g \in E : e # g => <<e, g>> \in R \/ <<g, e>> \in R
      /\ \A e, g, h \in E : <<e, g>> \in R /\ <<g, h>> \in R => <<e, h>> \in R
  BY <1>1, EventsAreOrdered DEF ToldApart
<1> HIDE DEF R
<1>3. \A U \in SUBSET E : U # {} => \E e \in U : \A g \in U \ {e} : <<g, e>> \in R
  BY <1>2, LastIsThere
<1>4. T # {} => \E e \in T : \A g \in T \ {e} : EventBefore(g, e)
  BY <1>1, <1>3
<1>5. T # {} => LastEvent(T) \in T /\ \A g \in T \ {LastEvent(T)} : EventBefore(g, LastEvent(T))
  BY <1>4 DEF LastEvent
<1>6. ASSUME NEW e \in T, \A g \in T \ {e} : EventBefore(g, e) PROVE LastEvent(T) = e
  <2>1. SUFFICES ASSUME LastEvent(T) # e PROVE FALSE
    OBVIOUS
  <2>2. LastEvent(T) \in T /\ EventBefore(e, LastEvent(T)) /\ EventBefore(LastEvent(T), e)
    BY <1>5, <1>6, <2>1
  <2>3. e \in E /\ LastEvent(T) \in E
    BY <2>2
  <2> QED
    BY <2>2, <2>3, EventsAreOrdered
<1> QED
  BY <1>5, <1>6

LEMMA ReplayIs ==
  ASSUME NEW E, ToldApart(E), NEW stakes \in BOOLEAN
  PROVE  /\ ReplayOf(E, stakes) \in ReplayStates /\ (E = {} => ReplayOf(E, stakes) = ReplayStart)
         /\ E # {} => ReplayOf(E, stakes) = ReplayStep(ReplayOf(E \ {LastEvent(E)}, stakes), LastEvent(E), stakes)
<1> DEFINE last == [T \in SUBSET E |-> LastEvent(T)]
           step == [p \in ReplayStates \X E |-> ReplayStep(p[1], p[2], stakes)]
<1>1. IsFiniteSet(E) /\ E \subseteq LabEvents
  BY DEF ToldApart
<1>2. \A T \in SUBSET E : last[T] = LastEvent(T) /\ (T # {} => last[T] \in T)
  BY LastEventIs
<1>3. \A r \in ReplayStates, e \in E : step[<<r, e>>] = ReplayStep(r, e, stakes) /\ step[<<r, e>>] \in ReplayStates
  <2> TAKE r \in ReplayStates, e \in E
  <2>1. step[<<r, e>>] = ReplayStep(r, e, stakes)
    OBVIOUS
  <2> QED
    BY <1>1, <2>1, StepStays
<1> HIDE DEF last, step
<1>4. ReplayStart \in ReplayStates
  BY StartIsSound DEF ReplayStart, ReplayStates
<1>5. ASSUME NEW T \in SUBSET E
      PROVE  \E f : /\ RunThrough(f, T, ReplayStart, last, step) /\ f[T] = ReplayOf(T, stakes)
                    /\ \A U \in SUBSET T : f[U] \in ReplayStates
  <2>1. IsFiniteSet(T) /\ PicksFrom(last, T)
    BY <1>1, <1>2, FS_Subset DEF PicksFrom
  <2>2. PICK f : RunThrough(f, T, ReplayStart, last, step)
    BY <2>1, RunIsThere
  <2>3. \A U \in SUBSET T : f[U] \in ReplayStates
    <3>1. \A r \in ReplayStates, e \in T : step[<<r, e>>] \in ReplayStates
      BY <1>3
    <3> QED
      BY <1>4, <2>1, <2>2, <3>1, RunStays
  <2> DEFINE goes(g) == g = [some \in SUBSET T |->
                               IF some = {} THEN ReplayStart ELSE ReplayStep(g[some \ {LastEvent(some)}], LastEvent(some), stakes)]
             after == CHOOSE g : goes(g)
  <2>4. goes(f)
    <3>1. ASSUME NEW U \in SUBSET T, U # {}
          PROVE  f[U] = ReplayStep(f[U \ {LastEvent(U)}], LastEvent(U), stakes)
      <4>1. last[U] = LastEvent(U) /\ last[U] \in E
        BY <1>2, <3>1
      <4>2. f[U] = step[<<f[U \ {last[U]}], last[U]>>]
        BY <2>2, <3>1 DEF RunThrough
      <4>3. f[U \ {last[U]}] \in ReplayStates
        BY <2>3
      <4> QED
        BY <1>3, <4>1, <4>2, <4>3
    <3>2. f[{}] = ReplayStart
      BY <2>2 DEF RunThrough
    <3>3. f = [U \in SUBSET T |-> f[U]]
      BY <2>2 DEF RunThrough
    <3> QED
      BY <3>1, <3>2, <3>3
  <2>5. goes(after)
    BY <2>4
  <2>6. ReplayOf(T, stakes) = after[T]
    BY DEF ReplayOf
  <2> HIDE DEF after
  <2>7. \A U \in SUBSET T : after[U] = f[U]
    <3> DEFINE good == {U \in SUBSET T : after[U] = f[U]}
    <3>1. ASSUME NEW U \in SUBSET T, \A V \in SUBSET U : V # U => V \in good PROVE U \in good
      <4>1. CASE U = {}
        BY <2>4, <2>5, <4>1
      <4>2. CASE U # {}
        <5>1. LastEvent(U) \in U
          BY <1>2, <4>2
        <5>2. U \ {LastEvent(U)} \in good
          BY <3>1, <5>1
        <5>3. after[U] = ReplayStep(after[U \ {LastEvent(U)}], LastEvent(U), stakes)
          BY <2>5, <4>2
        <5>4. f[U] = ReplayStep(f[U \ {LastEvent(U)}], LastEvent(U), stakes)
          BY <2>4, <4>2
        <5> QED
          BY <5>2, <5>3, <5>4
      <4> QED
        BY <4>1, <4>2
    <3> HIDE DEF good
    <3>2. \A U \in SUBSET T : U \in good
      BY <2>1, <3>1, SmallerSets
    <3> QED
      BY <3>2 DEF good
  <2> QED
    BY <2>2, <2>3, <2>6, <2>7
<1>6. PICK f : RunThrough(f, E, ReplayStart, last, step) /\ f[E] = ReplayOf(E, stakes) /\ \A U \in SUBSET E : f[U] \in ReplayStates
  BY <1>5
<1>7. ReplayOf(E, stakes) \in ReplayStates /\ (E = {} => ReplayOf(E, stakes) = ReplayStart)
  BY <1>6 DEF RunThrough
<1>8. ASSUME E # {}
      PROVE  ReplayOf(E, stakes) = ReplayStep(ReplayOf(E \ {LastEvent(E)}, stakes), LastEvent(E), stakes)
  <2>1. last[E] = LastEvent(E) /\ LastEvent(E) \in E
    BY <1>2, <1>8
  <2>2. PICK W \in SUBSET E : W = E \ {LastEvent(E)}
    OBVIOUS
  <2>3. PICK g : RunThrough(g, W, ReplayStart, last, step) /\ g[W] = ReplayOf(W, stakes)
    BY <1>5, <2>2
  <2>4. IsFiniteSet(E) /\ PicksFrom(last, E)
    BY <1>1, <1>2 DEF PicksFrom
  <2>5. RunThrough(f, E, ReplayStart, last, step) /\ RunThrough(g, W, ReplayStart, last, step) /\ W \in SUBSET E
    BY <1>6, <2>2, <2>3
  <2>6. \A T \in SUBSET W : f[T] = g[T]
    BY <2>4, <2>5, RunIsOne
  <2>7. f[W] = ReplayOf(W, stakes) /\ f[W] \in ReplayStates
    BY <1>6, <2>2, <2>3, <2>6
  <2>8. f[E] = step[<<f[W], LastEvent(E)>>]
    BY <1>6, <1>8, <2>1, <2>2 DEF RunThrough
  <2>9. f[E] = ReplayStep(f[W], LastEvent(E), stakes)
    BY <1>3, <2>1, <2>7, <2>8
  <2> QED
    BY <1>6, <2>2, <2>7, <2>9
<1> QED
  BY <1>7, <1>8

-----------------------------------------------------------------------------
(* The inductive invariant of the lab.                                      *)
LabTypes ==
  /\ at \in Nat /\ at >= DayLength /\ at % DayLength <= LastEntry /\ compound \in BOOLEAN
  /\ firings \in Seq(LabFiring) /\ entered \in 0 .. MaxEntries /\ trades \in Seq(StrategyTrade)
  /\ account \in SoundAccounts /\ misses \in [unaffordable : Nat, unlabelled : Nat]

(* A firing is of an earlier minute and ends within its own session.        *)
FiringIsOver(f, when) ==
  f.enters >= DayLength /\ f.enters < when /\ f.enters < f.ends /\ DayOf(f.ends) = DayOf(f.enters) /\ DayOf(f.enters) <= LabDays
FiringsAreOver == \A i \in DOMAIN firings : FiringIsOver(firings[i], at)

(* The trades are labelled firings, in their order.                         *)
TradesAreFirings ==
  /\ \A i \in DOMAIN trades : /\ trades[i].index \in DOMAIN firings /\ trades[i].of = firings[trades[i].index]
                              /\ trades[i].of.labelled
  /\ \A i, j \in DOMAIN trades : i < j => trades[i].index < trades[j].index

(* Pending is what has not ended before this minute; the account is of the  *)
(* rest.                                                                    *)
EndedBefore(ts, when) == {i \in DOMAIN ts : EndOf(ts[i]) < when}
AccountIsOfTheEnded ==
  /\ pending = {i \in DOMAIN trades : EndOf(trades[i]) >= at}
  /\ account.equity = Capital + SumOf(trades, EndedBefore(trades, at))

(* The account at the end of each day: not above the peak, and what fell    *)
(* from one to another not as deep as the limit.                            *)
MadeThrough(ts, day) == SumOf(ts, {i \in DOMAIN ts : DayOf(EndOf(ts[i])) <= day})
DaysStayBelow(ts, acc, day) ==
  \A d \in Nat : d < day =>
    /\ Capital + MadeThrough(ts, d) <= acc.peak
    /\ \A c \in 0 .. d : ~ acc.dropped =>
         100 * (MadeThrough(ts, c) - MadeThrough(ts, d)) < DropPct * acc.peak
DaysStay == DaysStayBelow(trades, account, DayOf(at))

(* The replay of what has happened is where the walk is.                    *)
EventsBefore(when) == {e \in Events : e.ts < when}
Apart == \A e, g \in Events : e.kind = 0 /\ g.kind = 1 => e.ts # g.ts
TradesOf(ts, some) == {ts[i] : i \in some}
IsAt(r, day, acc, held, taken, unaffordable) ==
  r.day <= day /\ BookOn(r, day) = acc /\ r.held = held /\ r.taken = taken /\ r.unaffordable = unaffordable
ReplayFollows ==
  Apart => IsAt(ReplayOf(EventsBefore(at), compound), DayOf(at), account, TradesOf(trades, pending), Len(trades),
                misses.unaffordable)

(* The ledger holds at least the trials of the batch.                       *)
BatchIsInTheLedger ==
  /\ trials \in Seq(Int)
  /\ scored = [recorded |-> scored.recorded, batch |-> scored.batch, bar |-> scored.bar, from |-> scored.from]
  /\ scored.recorded \subseteq Members /\ scored.batch \subseteq scored.recorded /\ scored.from \in Nat
  /\ scored.from + Cardinality(scored.recorded) <= Len(trials)
  /\ JudgedAlike

WalkInv ==
  /\ LabTypes /\ FiringsAreOver /\ TradesAreFirings /\ AccountIsOfTheEnded /\ entered <= FiredToday
  /\ NoMoneyFromTheFuture /\ DaysStay /\ ReplayFollows
LabInv == WalkInv /\ BatchIsInTheLedger

(* What the trades settled together do to the account.                      *)
LEMMA SettlesMoves ==
  ASSUME trades \in Seq(StrategyTrade), account \in SoundAccounts, compound \in BOOLEAN, NEW D \in SUBSET DOMAIN trades
  PROVE  /\ Settles(D).equity = account.equity + SumOf(trades, D) /\ Settles(D).peak >= account.peak
         /\ ~ Settles(D).dropped => ~ account.dropped
<1> DEFINE moved(T) == /\ Settles(T).equity = account.equity + SumOf(trades, T) /\ Settles(T).peak >= account.peak
                       /\ ~ Settles(T).dropped => ~ account.dropped
           good == {T \in SUBSET DOMAIN trades : moved(T)}
<1>1. account.equity \in Int /\ account.peak \in Int
  BY DEF SoundAccounts, Accounts
<1>2. IsFiniteSet(DOMAIN trades) /\ DOMAIN trades = 1 .. Len(trades)
  BY TradeEnds
<1>3. ASSUME NEW T \in SUBSET DOMAIN trades, \A U \in SUBSET T : U # T => U \in good PROVE T \in good
  <2>1. CASE T = {}
    <3>1. Settles(T) = account
      BY <2>1, SettlesIs
    <3>2. SumOf(trades, T) = 0
      BY <2>1, SumOfNone
    <3> QED
      BY <1>1, <3>1, <3>2
  <2>2. CASE T # {}
    <3>1. PICK i \in T : i = LastResolved(T)
      BY <2>2, LastResolvedIs
    <3>2. PICK U \in SUBSET T : U = T \ {i}
      OBVIOUS
    <3>3. moved(U)
      BY <1>3, <3>2
    <3>4. PICK net \in Int : net = NetOfTrade(trades[i])
      BY <1>2, NetsAreNumbers
    <3>5. Settles(T) = Credit(Settles(U), net, compound)
      BY <2>2, <3>1, <3>2, <3>4, SettlesIs
    <3>6. PICK a \in SoundAccounts : a = Settles(U)
      BY SettlesIs
    <3>7. PICK b : b = Credit(a, net, compound)
      OBVIOUS
    <3>8. b.equity = a.equity + net /\ b.peak >= a.peak /\ b \in SoundAccounts /\ (~ b.dropped => ~ a.dropped)
      BY <3>7, CreditIsSound
    <3>9. SumOf(trades, T) = SumOf(trades, U) + net
      <4>1. T = U \cup {i} /\ \A k \in 1 .. Len(trades) : ~ (k \in U /\ k \in {i})
        BY <3>1, <3>2
      <4>2. SumOf(trades, U \cup {i}) = SumOf(trades, U) + SumOf(trades, {i})
        BY <4>1, SumOfBoth
      <4>3. SumOf(trades, {i}) = net
        BY <1>2, <3>4, SumOfOne
      <4> QED
        BY <4>1, <4>2, <4>3
    <3>10. SumOf(trades, U) \in Int
      BY SumOfType
    <3>11. a.equity \in Int /\ a.peak \in Int /\ b.peak \in Int
      BY <3>8 DEF SoundAccounts, Accounts
    <3>12. Settles(T) = b
      BY <3>5, <3>6, <3>7
    <3>13. a.equity = account.equity + SumOf(trades, U) /\ a.peak >= account.peak /\ (~ a.dropped => ~ account.dropped)
      BY <3>3, <3>6
    <3>14. b.equity = account.equity + SumOf(trades, T) /\ b.peak >= account.peak
      BY <1>1, <3>8, <3>9, <3>10, <3>11, <3>13
    <3>15. ~ b.dropped => ~ account.dropped
      BY <3>8, <3>13
    <3> QED
      BY <3>12, <3>14, <3>15
  <2> QED
    BY <2>1, <2>2
<1> HIDE DEF good, moved
<1>4. PICK S : S = DOMAIN trades
  OBVIOUS
<1>5. \A T \in SUBSET S : (\A U \in SUBSET T : U # T => U \in good) => T \in good
  BY <1>3, <1>4
<1>6. IsFiniteSet(S)
  BY <1>2, <1>4
<1>7. \A T \in SUBSET S : T \in good
  BY <1>5, <1>6, SmallerSets
<1> QED
  BY <1>4, <1>7 DEF good, moved

LEMMA SettledIs ==
  ASSUME NEW upto
  PROVE  Settled(upto) = Settles(DueBy(upto))
BY DEF Settled, Settles

-----------------------------------------------------------------------------
(* The events are those of the labelled firings.                            *)
EventIs(e) ==
  /\ e.index \in DOMAIN firings /\ e.of = firings[e.index] /\ e.of.labelled
  /\ (e.kind = 0 /\ e.ts = e.of.enters) \/ (e.kind = 1 /\ e.ts = e.of.ends)
Entry(fs, i) == [ts |-> fs[i].enters, kind |-> 0, index |-> i, of |-> fs[i]]
Exit(fs, i) == [ts |-> fs[i].ends, kind |-> 1, index |-> i, of |-> fs[i]]

LEMMA ImageIsFinite ==
  ASSUME NEW S, IsFiniteSet(S), NEW f, DOMAIN f = S
  PROVE  IsFiniteSet({f[x] : x \in S})
<1> DEFINE T == {f[x] : x \in S}
           g == [x \in S |-> f[x]]
<1>1. g \in Surjection(S, T)
  BY DEF Surjection
<1> HIDE DEF g
<1> QED
  BY <1>1, FS_Surjection

LEMMA EventsAre ==
  ASSUME firings \in Seq(LabFiring)
  PROVE  /\ ToldApart(Events) /\ \A e \in Events : EventIs(e) /\ e \in LabEvents
         /\ \A i \in DOMAIN firings : firings[i].labelled => Entry(firings, i) \in Events /\ Exit(firings, i) \in Events
         /\ \A e \in Events : e = IF e.kind = 0 THEN Entry(firings, e.index) ELSE Exit(firings, e.index)
<1> DEFINE some == {i \in DOMAIN firings : firings[i].labelled}
<1>1. DOMAIN firings = 1 .. Len(firings) /\ Len(firings) \in Nat /\ \A i \in DOMAIN firings : i \in Nat \ {0} /\ firings[i] \in LabFiring
  OBVIOUS
<1>2. Events = {Entry(firings, i) : i \in some} \cup {Exit(firings, i) : i \in some}
  BY DEF Events, Entry, Exit
<1>3. ASSUME NEW i \in some
      PROVE  /\ Entry(firings, i) \in LabEvents /\ EventIs(Entry(firings, i)) /\ Entry(firings, i).index = i
             /\ Entry(firings, i).kind = 0
             /\ Exit(firings, i) \in LabEvents /\ EventIs(Exit(firings, i)) /\ Exit(firings, i).index = i
             /\ Exit(firings, i).kind = 1
  <2>1. PICK f \in LabFiring : f = firings[i] /\ f.labelled
    BY <1>1
  <2>2. f.enters \in Nat /\ f.ends \in Nat /\ i \in Nat \ {0} /\ i \in DOMAIN firings
    BY <1>1, <2>1 DEF LabFiring
  <2>3. PICK e \in LabEvents : e = [ts |-> f.enters, kind |-> 0, index |-> i, of |-> f]
    BY <2>2 DEF LabEvents
  <2>4. PICK x \in LabEvents : x = [ts |-> f.ends, kind |-> 1, index |-> i, of |-> f]
    BY <2>2 DEF LabEvents
  <2>5. Entry(firings, i) = e /\ Exit(firings, i) = x
    BY <2>1, <2>3, <2>4 DEF Entry, Exit
  <2> QED
    BY <2>1, <2>2, <2>3, <2>4, <2>5 DEF EventIs
<1>4. IsFiniteSet(some)
  <2>1. IsFiniteSet(DOMAIN firings)
    BY <1>1, FS_Interval
  <2> QED
    BY <2>1, FS_Subset
<1>5. IsFiniteSet({Entry(firings, i) : i \in some}) /\ IsFiniteSet({Exit(firings, i) : i \in some})
  <2> HIDE DEF some
  <2>1. PICK f, g : f = [i \in some |-> Entry(firings, i)] /\ g = [i \in some |-> Exit(firings, i)]
    OBVIOUS
  <2>2. DOMAIN f = some /\ DOMAIN g = some /\ \A i \in some : f[i] = Entry(firings, i) /\ g[i] = Exit(firings, i)
    BY <2>1
  <2>3. PICK S : S = some
    OBVIOUS
  <2>4. IsFiniteSet({f[i] : i \in S}) /\ IsFiniteSet({g[i] : i \in S})
    BY <1>4, <2>2, <2>3, ImageIsFinite
  <2>5. {f[i] : i \in S} = {Entry(firings, i) : i \in some} /\ {g[i] : i \in S} = {Exit(firings, i) : i \in some}
    BY <2>2, <2>3
  <2> QED
    BY <2>4, <2>5
<1>6. IsFiniteSet(Events)
  BY <1>2, <1>5, FS_Union
<1> HIDE DEF some
<1>7. \A e \in Events : e = IF e.kind = 0 THEN Entry(firings, e.index) ELSE Exit(firings, e.index)
  BY <1>2, <1>3
<1>8. \A e \in Events : EventIs(e) /\ e \in LabEvents
  BY <1>2, <1>3
<1>9. \A e, g \in Events : e.kind = g.kind /\ e.index = g.index => e = g
  BY <1>7
<1>10. \A i \in DOMAIN firings : firings[i].labelled => Entry(firings, i) \in Events /\ Exit(firings, i) \in Events
  BY <1>2 DEF some
<1> QED
  BY <1>6, <1>7, <1>8, <1>9, <1>10 DEF ToldApart

-----------------------------------------------------------------------------
(* The exits that are still to come today, and the trades they settle.      *)
ExitsToCome == {e \in Events : e.kind = 1 /\ e.ts >= at /\ DayOf(e.ts) = DayOf(at)}
DueWith(N) == {i \in pending : \E e \in N : e.index = trades[i].index}

LEMMA TradesAreApart ==
  ASSUME LabTypes, TradesAreFirings
  PROVE  /\ \A i, j \in DOMAIN trades : trades[i].index = trades[j].index => i = j
         /\ \A i, j \in DOMAIN trades : trades[i].index < trades[j].index => i < j
         /\ \A i \in DOMAIN trades : EndOf(trades[i]) = firings[trades[i].index].ends
<1>1. trades \in Seq(StrategyTrade) /\ DOMAIN trades \subseteq Nat
  BY TradeEnds DEF LabTypes
<1>2. \A i \in DOMAIN trades : trades[i].index \in Nat
  <2>1. \A t \in StrategyTrade : t.index \in Nat
    BY DEF StrategyTrade
  <2> QED
    BY <1>1, <2>1, TradeEnds
<1>3. \A i, j \in DOMAIN trades : i < j => trades[i].index < trades[j].index
  BY DEF TradesAreFirings
<1>4. \A i, j \in DOMAIN trades : i = j \/ i < j \/ j < i
  BY <1>1
<1>5. \A i \in DOMAIN trades : EndOf(trades[i]) = firings[trades[i].index].ends
  BY DEF TradesAreFirings, EndOf
<1> QED
  BY <1>2, <1>3, <1>4, <1>5

(* An exit among those to come: the trade it settles, if there is one, is   *)
(* the last that resolves of those that are due with it.                    *)
LEMMA ExitIsOfOne ==
  ASSUME LabTypes, TradesAreFirings, pending \subseteq DOMAIN trades, NEW N \in SUBSET ExitsToCome,
         NEW e \in N, \A g \in N \ {e} : EventBefore(g, e)
  PROVE  /\ \A i \in pending : trades[i].index = e.index =>
              /\ DueWith(N) = DueWith(N \ {e}) \cup {i} /\ i \notin DueWith(N \ {e}) /\ LastResolved(DueWith(N)) = i
         /\ (\A i \in pending : trades[i].index # e.index) => DueWith(N) = DueWith(N \ {e})
<1>1. /\ ToldApart(Events) /\ \A g \in Events : EventIs(g) /\ g \in LabEvents
  BY EventsAre DEF LabTypes
<1>2. \A g \in N : g \in Events /\ g.kind = 1 /\ g.of = firings[g.index] /\ g.ts = firings[g.index].ends /\ g.index \in Nat
                   /\ g.ts \in Nat
  BY <1>1 DEF ExitsToCome, EventIs, LabEvents
<1>3. \A g \in N \ {e} : g.index # e.index
  BY <1>1, <1>2 DEF ToldApart
<1>4. ASSUME NEW i \in pending, trades[i].index = e.index
      PROVE  /\ DueWith(N) = DueWith(N \ {e}) \cup {i} /\ i \notin DueWith(N \ {e}) /\ LastResolved(DueWith(N)) = i
  <2>1. i \notin DueWith(N \ {e})
    BY <1>3, <1>4 DEF DueWith
  <2>2. \A j \in pending : trades[j].index = e.index => j = i
    BY <1>4, TradesAreApart
  <2>3. DueWith(N) = DueWith(N \ {e}) \cup {i}
    BY <1>4, <2>2 DEF DueWith
  <2>4. ASSUME NEW j \in DueWith(N) \ {i} PROVE ResolvesBefore(j, i)
    <3>1. PICK g \in N : g.index = trades[j].index
      BY <2>4 DEF DueWith
    <3>2. j \in DOMAIN trades /\ i \in DOMAIN trades /\ j # i
      BY <2>4 DEF DueWith
    <3>3. g # e
      BY <1>4, <3>1, <3>2, TradesAreApart
    <3>4. EventBefore(g, e)
      BY <3>3
    <3>5. g.ts < e.ts \/ (g.ts = e.ts /\ g.index < e.index)
      BY <1>2, <3>4 DEF EventBefore
    <3>6. EndOf(trades[j]) = g.ts /\ EndOf(trades[i]) = e.ts
      BY <1>2, <1>4, <3>1, <3>2, TradesAreApart
    <3>7. g.index < e.index => j < i
      BY <1>4, <3>1, <3>2, TradesAreApart
    <3> QED
      BY <3>5, <3>6, <3>7 DEF ResolvesBefore
  <2>5. DueWith(N) \in SUBSET DOMAIN trades /\ i \in DueWith(N)
    BY <2>3 DEF DueWith
  <2>6. trades \in Seq(StrategyTrade)
    BY DEF LabTypes
  <2>7. LastResolved(DueWith(N)) = i
    BY <2>4, <2>5, <2>6, LastResolvedIs
  <2> QED
    BY <2>1, <2>3, <2>7
<1>5. (\A i \in pending : trades[i].index # e.index) => DueWith(N) = DueWith(N \ {e})
  BY DEF DueWith
<1> QED
  BY <1>4, <1>5

LEMMA StateIs ==
  ASSUME NEW day, NEW acc, NEW held, NEW taken, NEW unaffordable
  PROVE  /\ State(day, acc, held, taken, unaffordable).day = day /\ State(day, acc, held, taken, unaffordable).book = acc
         /\ State(day, acc, held, taken, unaffordable).held = held /\ State(day, acc, held, taken, unaffordable).taken = taken
         /\ State(day, acc, held, taken, unaffordable).unaffordable = unaffordable
         /\ BookOn(State(day, acc, held, taken, unaffordable), day) = acc
BY DEF State, BookOn

(* The exits to come, or some of them: the replay is where the account is   *)
(* that settles their trades.                                               *)
LEMMA ExitsFollow ==
  ASSUME LabTypes, TradesAreFirings, pending \subseteq DOMAIN trades, NEW taken, NEW unaffordable,
         IsAt(ReplayOf(EventsBefore(at), compound), DayOf(at), account, TradesOf(trades, pending), taken, unaffordable),
         NEW N \in SUBSET ExitsToCome
  PROVE  IsAt(ReplayOf(EventsBefore(at) \cup N, compound), DayOf(at), Settles(DueWith(N)),
              TradesOf(trades, pending \ DueWith(N)), taken, unaffordable)
<1> DEFINE P == EventsBefore(at)
           follows(M) == IsAt(ReplayOf(P \cup M, compound), DayOf(at), Settles(DueWith(M)),
                              TradesOf(trades, pending \ DueWith(M)), taken, unaffordable)
           good == {M \in SUBSET ExitsToCome : follows(M)}
<1>1. /\ trades \in Seq(StrategyTrade) /\ account \in SoundAccounts /\ compound \in BOOLEAN /\ at \in Nat /\ DayOf(at) \in Nat
      /\ ToldApart(Events) /\ \A e \in Events : e \in LabEvents /\ e.ts \in Nat
  BY EventsAre, DayIs DEF LabTypes, LabEvents
<1>2. P \subseteq Events /\ \A e \in P : e.ts < at
  BY DEF EventsBefore
<1>3. \A e \in ExitsToCome : e \in Events /\ e.kind = 1 /\ e.ts >= at /\ DayOf(e.ts) = DayOf(at) /\ e \notin P
  BY <1>1, <1>2 DEF ExitsToCome
<1>4. ASSUME NEW M \in SUBSET ExitsToCome, \A L \in SUBSET M : L # M => L \in good PROVE M \in good
  <2>1. CASE M = {}
    <3>1. DueWith(M) = {} /\ P \cup M = P
      BY <2>1 DEF DueWith
    <3>2. Settles(DueWith(M)) = account
      BY <1>1, <3>1, SettlesIs
    <3>3. pending \ DueWith(M) = pending
      BY <3>1
    <3>4. follows(M)
      BY <3>1, <3>2, <3>3
    <3> QED
      BY <3>4
  <2>2. CASE M # {}
    <3>1. PICK e \in M : \A g \in M \ {e} : EventBefore(g, e)
      BY <1>1, <1>3, <2>2, LastEventIs
    <3>2. PICK L \in SUBSET M : L = M \ {e}
      OBVIOUS
    <3>3. follows(L)
      BY <1>4, <3>2
    <3>4. PICK T \in SUBSET Events : T = P \cup M
      BY <1>2, <1>3
    <3>5. e \in T /\ T \ {e} = P \cup L /\ ToldApart(T)
      <4>1. IsFiniteSet(T)
        BY <1>1, FS_Subset DEF ToldApart
      <4> QED
        BY <1>1, <1>3, <3>2, <3>4, <4>1 DEF ToldApart
    <3>6. LastEvent(T) = e
      <4>1. \A g \in T \ {e} : EventBefore(g, e)
        <5> SUFFICES ASSUME NEW g \in T \ {e} PROVE EventBefore(g, e)
          OBVIOUS
        <5>1. CASE g \in P
          BY <1>1, <1>2, <1>3, <5>1 DEF EventBefore
        <5>2. CASE g \in M
          BY <3>1, <5>2
        <5> QED
          BY <3>4, <5>1, <5>2
      <4> QED
        BY <1>1, <3>5, <4>1, LastEventIs
    <3>7. PICK r \in ReplayStates : r = ReplayOf(P \cup L, compound)
      <4>1. ToldApart(T \ {e})
        BY <1>1, <3>5, FS_Subset DEF ToldApart
      <4> QED
        BY <1>1, <3>5, <4>1, ReplayIs
    <3>8. ReplayOf(T, compound) = ReplayStep(r, e, compound)
      BY <1>1, <3>5, <3>6, <3>7, ReplayIs
    <3>9. e \in LabEvents /\ e.kind = 1 /\ DayOf(e.ts) = DayOf(at)
      BY <1>1, <1>3
    <3>10. PICK acc \in SoundAccounts : acc = Settles(DueWith(L))
      <4>1. DueWith(L) \in SUBSET DOMAIN trades
        BY DEF DueWith
      <4> QED
        BY <1>1, <4>1, SettlesIs
    <3>11. /\ r.day <= DayOf(at) /\ BookOn(r, DayOf(e.ts)) = acc /\ r.held = TradesOf(trades, pending \ DueWith(L))
           /\ r.taken = taken /\ r.unaffordable = unaffordable
      BY <3>3, <3>7, <3>9, <3>10 DEF IsAt
    <3>12. CASE \A i \in pending : trades[i].index # e.index
      <4>1. DueWith(M) = DueWith(L)
        BY <3>1, <3>2, <3>12, ExitIsOfOne
      <4>2. HeldFor(r, e) = {}
        BY <3>11, <3>12 DEF HeldFor, TradesOf
      <4>3. ReplayStep(r, e, compound) = State(DayOf(at), acc, r.held, r.taken, r.unaffordable)
        BY <3>9, <3>11, <4>2, ExitIs
      <4>4. follows(M)
        BY <1>1, <3>4, <3>8, <3>10, <3>11, <4>1, <4>3, StateIs DEF IsAt
      <4> QED
        BY <4>4
    <3>13. ASSUME NEW i \in pending, trades[i].index = e.index PROVE M \in good
      <4>1. DueWith(M) = DueWith(L) \cup {i} /\ i \notin DueWith(L) /\ LastResolved(DueWith(M)) = i
        BY <3>1, <3>2, <3>13, ExitIsOfOne
      <4>2. HeldFor(r, e) = {trades[i]}
        <5>1. \A j \in pending : trades[j].index = e.index => j = i
          BY <3>13, TradesAreApart
        <5> QED
          BY <3>11, <3>13, <4>1, <5>1 DEF HeldFor, TradesOf
      <4>3. PICK net \in Int : net = NetOfTrade(trades[i])
        BY <1>1, NetsAreNumbers
      <4>4. PICK after \in SoundAccounts : after = Credit(acc, net, TRUE) /\ after = Credit(acc, net, compound)
        BY <1>1, CreditIsSound
      <4>5. PICK rest : rest = r.held \ {trades[i]}
        OBVIOUS
      <4>6. ReplayStep(r, e, compound) = State(DayOf(at), after, rest, r.taken, r.unaffordable)
        <5>1. \E t \in HeldFor(r, e) :
                ReplayStep(r, e, compound)
                  = State(DayOf(e.ts), Credit(acc, NetOfTrade(t), TRUE), r.held \ HeldFor(r, e), r.taken, r.unaffordable)
          BY <3>9, <3>11, <4>2, ExitIs
        <5> QED
          BY <3>9, <4>2, <4>3, <4>4, <4>5, <5>1
      <4>7. Settles(DueWith(M)) = after
        <5>1. DueWith(M) \in SUBSET DOMAIN trades /\ DueWith(M) # {} /\ DueWith(M) \ {i} = DueWith(L)
          BY <4>1 DEF DueWith
        <5>2. Settles(DueWith(M)) = Credit(Settles(DueWith(M) \ {i}), NetOfTrade(trades[i]), compound)
          BY <1>1, <4>1, <5>1, SettlesIs
        <5> QED
          BY <3>10, <4>3, <4>4, <5>1, <5>2
      <4>8. rest = TradesOf(trades, pending \ DueWith(M))
        <5>1. \A j \in pending : trades[j] = trades[i] => j = i
          BY TradesAreApart
        <5>2. pending \ DueWith(M) = (pending \ DueWith(L)) \ {i}
          BY <4>1
        <5> QED
          BY <3>11, <4>5, <5>1, <5>2 DEF TradesOf
      <4>9. follows(M)
        BY <1>1, <3>4, <3>8, <3>11, <4>6, <4>7, <4>8, StateIs DEF IsAt
      <4> QED
        BY <4>9
    <3> QED
      BY <3>12, <3>13
  <2> QED
    BY <2>1, <2>2
<1> HIDE DEF good, follows
<1>5. PICK S : S = ExitsToCome
  OBVIOUS
<1>6. IsFiniteSet(S)
  BY <1>1, <1>3, <1>5, FS_Subset DEF ToldApart
<1>7. \A M \in SUBSET S : (\A L \in SUBSET M : L # M => L \in good) => M \in good
  BY <1>4, <1>5
<1>8. \A M \in SUBSET S : M \in good
  BY <1>6, <1>7, SmallerSets
<1> QED
  BY <1>5, <1>8 DEF good, follows

-----------------------------------------------------------------------------
(* The first state.                                                         *)
LEMMA LabBegins == LabInit => LabInv
<1> SUFFICES ASSUME LabInit PROVE LabInv
  OBVIOUS
<1>1. /\ at = DayLength /\ compound \in BOOLEAN /\ firings = <<>> /\ entered = 0 /\ trades = <<>> /\ pending = {}
      /\ account = LabStart /\ misses = [unaffordable |-> 0, unlabelled |-> 0] /\ trials = <<>> /\ scored = NoScore
  BY DEF LabInit
<1>2. DayOf(at) = 1 /\ at % DayLength = 0 /\ at \in Nat /\ at >= DayLength
  <2>1. PICK b \in Nat : b = DayLength /\ b > 0
    BY LabAssumed
  <2>2. b \div b = 1 /\ b % b = 0
    BY <2>1
  <2> QED
    BY <1>1, <2>1, <2>2 DEF DayOf
<1>3. DOMAIN firings = {} /\ DOMAIN trades = {} /\ Len(trades) = 0 /\ Len(trials) = 0
  BY <1>1
<1>4. LabTypes
  <2>1. firings \in Seq(LabFiring) /\ trades \in Seq(StrategyTrade)
    BY <1>1
  <2>2. misses \in [unaffordable : Nat, unlabelled : Nat] /\ account \in SoundAccounts /\ entered \in 0 .. MaxEntries
    BY <1>1, StartIsSound, LabAssumed
  <2>3. at % DayLength <= LastEntry
    BY <1>2, LabAssumed
  <2> QED
    BY <1>1, <1>2, <2>1, <2>2, <2>3 DEF LabTypes
<1>5. FiringsAreOver /\ TradesAreFirings /\ NoMoneyFromTheFuture
  BY <1>3 DEF FiringsAreOver, TradesAreFirings, NoMoneyFromTheFuture
<1>6. \A S : SumOf(trades, S) = 0
  <2> TAKE S
  <2>1. PICK ts \in Seq(StrategyTrade) : ts = trades
    BY <1>4 DEF LabTypes
  <2>2. \A k \in 1 .. Len(ts) : k \notin S
    BY <1>3, <2>1
  <2>3. SumOf(ts, S) = 0
    BY <2>2, SumOfNone
  <2> QED
    BY <2>1, <2>3
<1>7. AccountIsOfTheEnded
  BY <1>1, <1>3, <1>6, LabAssumed DEF AccountIsOfTheEnded, LabStart
<1>8. entered <= FiredToday
  <2>1. {i \in DOMAIN firings : DayOf(firings[i].enters) = DayOf(at)} = {}
    BY <1>3
  <2>2. FiredToday = 0
    BY <2>1, FS_EmptySet DEF FiredToday
  <2> QED
    BY <1>1, <2>2
<1>9. DaysStay
  <2>1. \A d : MadeThrough(trades, d) = 0
    BY <1>6 DEF MadeThrough
  <2>2. account.peak = Capital /\ 0 < DropPct * Capital
    <3>1. 1 * Capital <= DropPct * Capital /\ DropPct * Capital \in Int
      BY LabAssumed, ProductsGrow
    <3> QED
      BY <1>1, <3>1, LabAssumed DEF LabStart
  <2> QED
    BY <2>1, <2>2, LabAssumed DEF DaysStay, DaysStayBelow
<1>10. ReplayFollows
  <2>1. Events = {}
    BY <1>3 DEF Events
  <2>2. PICK E : E = EventsBefore(at) /\ E = {}
    BY <2>1 DEF EventsBefore
  <2>3. ToldApart(E)
    BY <2>2, FS_EmptySet DEF ToldApart
  <2>4. ReplayOf(E, compound) = ReplayStart
    BY <1>1, <2>2, <2>3, ReplayIs
  <2>5. PICK r : r = ReplayStart
    OBVIOUS
  <2>6. r.day = 0 /\ r.book = LabStart /\ r.held = {} /\ r.taken = 0 /\ r.unaffordable = 0
    BY <2>5 DEF ReplayStart
  <2>7. BookOn(r, DayOf(at)) = account
    BY <1>1, <1>2, <2>6, StartIsSound DEF BookOn
  <2>8. TradesOf(trades, pending) = {}
    BY <1>1 DEF TradesOf
  <2>9. misses.unaffordable = 0
    BY <1>1
  <2> QED
    BY <1>2, <1>3, <2>2, <2>4, <2>5, <2>6, <2>7, <2>8, <2>9 DEF ReplayFollows, IsAt
<1>11. BatchIsInTheLedger
  <2>1. scored.recorded = {} /\ scored.batch = {} /\ scored.from = 0
        /\ scored = [recorded |-> scored.recorded, batch |-> scored.batch, bar |-> scored.bar, from |-> scored.from]
    BY <1>1 DEF NoScore
  <2>2. Cardinality(scored.recorded) = 0
    BY <2>1, FS_EmptySet
  <2>3. JudgedAlike
    BY <2>1 DEF JudgedAlike
  <2>4. trials \in Seq(Int)
    BY <1>1
  <2> QED
    BY <1>3, <2>1, <2>2, <2>3, <2>4 DEF BatchIsInTheLedger
<1> QED
  BY <1>4, <1>5, <1>7, <1>8, <1>9, <1>10, <1>11 DEF LabInv, WalkInv

-----------------------------------------------------------------------------
(* The minutes of a session, and the day after it.                          *)
LEMMA MinutePasses ==
  ASSUME NEW t \in Nat, t % DayLength < LastEntry
  PROVE  t + 1 \in Nat /\ DayOf(t + 1) = DayOf(t) /\ (t + 1) % DayLength = (t % DayLength) + 1
<1>1. PICK b \in Nat, d \in Nat : b = DayLength /\ d = DayOf(t) /\ d * b <= t /\ t < (d + 1) * b /\ t % b = t - d * b
  BY LabAssumed, DayIs
<1>2. (d + 1) * b = d * b + b /\ d * b \in Nat
  BY <1>1
<1>3. t + 1 < (d + 1) * b /\ d * b <= t + 1
  BY <1>1, <1>2, LabAssumed
<1>4. DayOf(t + 1) = d
  BY <1>1, <1>3, DayIsOne
<1>5. PICK u \in Nat : u = t + 1
  OBVIOUS
<1>6. u % DayLength = u - DayOf(u) * DayLength
  BY DayIs
<1>7. PICK x \in Nat : x = d * b
  BY <1>1
<1>8. t % DayLength = t - x /\ u % DayLength = u - x
  BY <1>1, <1>4, <1>5, <1>6, <1>7, Zenon
<1>9. PICK m, n : m = t % DayLength /\ n = u % DayLength
  OBVIOUS
<1>10. n = m + 1
  BY <1>5, <1>7, <1>8, <1>9
<1> QED
  BY <1>1, <1>4, <1>5, <1>9, <1>10, Zenon

LEMMA NextDayIs ==
  ASSUME NEW t \in Nat
  PROVE  /\ (DayOf(t) + 1) * DayLength \in Nat /\ DayOf((DayOf(t) + 1) * DayLength) = DayOf(t) + 1
         /\ ((DayOf(t) + 1) * DayLength) % DayLength = 0 /\ t < (DayOf(t) + 1) * DayLength
         /\ (DayOf(t) + 1) * DayLength <= t + DayLength
<1>1. PICK b \in Nat, d \in Nat : b = DayLength /\ b > 0 /\ d = DayOf(t) /\ d * b <= t /\ t < (d + 1) * b
  BY LabAssumed, DayIs
<1>2. PICK u \in Nat : u = (d + 1) * b /\ u = d * b + b
  BY <1>1
<1>3. u < (d + 1 + 1) * b /\ (d + 1) * b <= u
  <2>1. (d + 1 + 1) * b = (d + 1) * b + b
    BY <1>1
  <2> QED
    BY <1>1, <1>2, <2>1
<1>4. DayOf(u) = d + 1
  BY <1>1, <1>3, DayIsOne
<1>5. u % DayLength = u - DayOf(u) * DayLength
  BY DayIs
<1> QED
  BY <1>1, <1>2, <1>4, <1>5

(* A day is over with its last minute.                                      *)
LEMMA ClippedIs ==
  ASSUME NEW t \in Nat, NEW lasts \in Nat \ {0}, t % DayLength < LastEntry
  PROVE  /\ Clipped(t + lasts, DayOf(t)) \in Nat /\ t < Clipped(t + lasts, DayOf(t))
         /\ DayOf(Clipped(t + lasts, DayOf(t))) = DayOf(t)
<1>1. PICK b \in Nat, d \in Nat :
        b = DayLength /\ b > 0 /\ d = DayOf(t) /\ d * b <= t /\ t < (d + 1) * b /\ t % b = t - d * b
  BY LabAssumed, DayIs
<1>2. PICK x \in Nat, y \in Nat : x = d * b /\ y = (d + 1) * b /\ y = x + b
  BY <1>1
<1>3. PICK c \in Nat : c = (IF t + lasts < y THEN t + lasts ELSE y - 1) /\ t < c /\ x <= c /\ c < y
  <2>1. t < y - 1
    BY <1>1, <1>2, LabAssumed
  <2> QED
    BY <1>1, <1>2, <2>1
<1>4. Clipped(t + lasts, DayOf(t)) = c
  BY <1>1, <1>2, <1>3 DEF Clipped
<1>5. DayOf(c) = d
  BY <1>1, <1>2, <1>3, DayIsOne
<1> QED
  BY <1>1, <1>3, <1>4, <1>5

-----------------------------------------------------------------------------
(* What a minute does: what is due settles, and a trade may be entered that *)
(* ends later in the session.                                               *)
Entered(us, t) == us = Append(trades, t) /\ t \in StrategyTrade /\ EndOf(t) > at /\ DayOf(EndOf(t)) = DayOf(at)
Grown(us) == us = trades \/ \E t : Entered(us, t)

LEMMA GrownIs ==
  ASSUME LabTypes, NEW us, Grown(us)
  PROVE  /\ us \in Seq(StrategyTrade) /\ DOMAIN trades \subseteq DOMAIN us /\ \A i \in DOMAIN trades : us[i] = trades[i]
         /\ \A i \in DOMAIN us : i \in DOMAIN trades \/ (i = Len(trades) + 1 /\ EndOf(us[i]) > at /\ DayOf(EndOf(us[i])) = DayOf(at))
         /\ Len(trades) + 1 \notin DOMAIN trades
         /\ \A S \in SUBSET DOMAIN trades : SumOf(us, S) = SumOf(trades, S)
<1>1. PICK ts \in Seq(StrategyTrade) : ts = trades
  BY DEF LabTypes
<1>2. Len(ts) \in Nat /\ DOMAIN ts = 1 .. Len(ts) /\ Len(ts) + 1 \notin DOMAIN ts
  BY <1>1
<1>3. CASE us = ts
  BY <1>1, <1>2, <1>3
<1>4. ASSUME NEW t, Entered(us, t)
      PROVE  /\ us \in Seq(StrategyTrade) /\ DOMAIN ts \subseteq DOMAIN us /\ \A i \in DOMAIN ts : us[i] = ts[i]
             /\ \A i \in DOMAIN us : i \in DOMAIN ts \/ (i = Len(ts) + 1 /\ EndOf(us[i]) > at /\ DayOf(EndOf(us[i])) = DayOf(at))
             /\ \A S \in SUBSET DOMAIN ts : SumOf(us, S) = SumOf(ts, S)
  <2>1. us = Append(ts, t) /\ t \in StrategyTrade /\ EndOf(t) > at /\ DayOf(EndOf(t)) = DayOf(at)
    BY <1>1, <1>4 DEF Entered
  <2>2. us \in Seq(StrategyTrade) /\ Len(us) = Len(ts) + 1 /\ us[Len(ts) + 1] = t /\ \A i \in 1 .. Len(ts) : us[i] = ts[i]
    BY <2>1, AppendIs
  <2>3. DOMAIN us = 1 .. (Len(ts) + 1)
    BY <1>2, <2>2
  <2>4. ASSUME NEW S \in SUBSET DOMAIN ts PROVE SumOf(us, S) = SumOf(ts, S)
    <3>1. Len(ts) + 1 \notin S
      BY <1>2
    <3>2. SumOf(Append(ts, t), S) = SumOf(ts, S) + 0
      BY <2>1, <3>1, SumOfAppend
    <3>3. SumOf(ts, S) \in Int
      BY SumOfType
    <3> QED
      BY <2>1, <3>2, <3>3
  <2>5. \A i \in DOMAIN us : i \in DOMAIN ts \/ i = Len(ts) + 1
    BY <1>2, <2>3
  <2>6. DOMAIN ts \subseteq DOMAIN us
    BY <1>2, <2>3
  <2> QED
    BY <1>2, <2>1, <2>2, <2>4, <2>5, <2>6
<1> QED
  BY <1>1, <1>2, <1>3, <1>4 DEF Grown

(* The account that has settled what is due by an instant.                  *)
LEMMA SettledCounts ==
  ASSUME LabTypes, AccountIsOfTheEnded, NEW upto \in Nat, upto >= at
  PROVE  /\ Settled(upto) \in SoundAccounts /\ Settled(upto).peak >= account.peak
         /\ ~ Settled(upto).dropped => ~ account.dropped
         /\ Settled(upto).equity = Capital + SumOf(trades, EndedBefore(trades, upto + 1))
         /\ StillPending(upto) = {i \in DOMAIN trades : EndOf(trades[i]) >= upto + 1}
<1>1. trades \in Seq(StrategyTrade) /\ account \in SoundAccounts /\ compound \in BOOLEAN /\ at \in Nat
      /\ \A i \in DOMAIN trades : EndOf(trades[i]) \in Nat
  BY TradeEnds DEF LabTypes
<1>2. pending = {i \in DOMAIN trades : EndOf(trades[i]) >= at} /\ account.equity = Capital + SumOf(trades, EndedBefore(trades, at))
  BY DEF AccountIsOfTheEnded
<1>3. DueBy(upto) = {i \in DOMAIN trades : EndOf(trades[i]) >= at /\ EndOf(trades[i]) <= upto}
  BY <1>2 DEF DueBy
<1>4. StillPending(upto) = {i \in DOMAIN trades : EndOf(trades[i]) >= upto + 1}
  BY <1>1, <1>2, <1>3 DEF StillPending
<1>5. EndedBefore(trades, upto + 1) = EndedBefore(trades, at) \cup DueBy(upto)
  BY <1>1, <1>3 DEF EndedBefore
<1>6. \A k \in 1 .. Len(trades) : ~ (k \in EndedBefore(trades, at) /\ k \in DueBy(upto))
  BY <1>1, <1>3 DEF EndedBefore
<1>7. SumOf(trades, EndedBefore(trades, upto + 1)) = SumOf(trades, EndedBefore(trades, at)) + SumOf(trades, DueBy(upto))
  <2>1. PICK before, due : before = EndedBefore(trades, at) /\ due = DueBy(upto)
    OBVIOUS
  <2>2. \A k \in 1 .. Len(trades) : ~ (k \in before /\ k \in due)
    BY <1>6, <2>1
  <2>3. SumOf(trades, before \cup due) = SumOf(trades, before) + SumOf(trades, due)
    BY <1>1, <2>2, SumOfBoth
  <2> QED
    BY <1>5, <2>1, <2>3
<1>8. DueBy(upto) \in SUBSET DOMAIN trades
  BY <1>3
<1>9. PICK b \in SoundAccounts : b = Settled(upto) /\ b.equity = account.equity + SumOf(trades, DueBy(upto))
        /\ b.peak >= account.peak /\ (~ b.dropped => ~ account.dropped)
  BY <1>1, <1>8, SettledIs, SettlesIs, SettlesMoves
<1>10. SumOf(trades, EndedBefore(trades, at)) \in Int /\ SumOf(trades, DueBy(upto)) \in Int
  BY <1>1, SumOfType
<1>11. b.equity = Capital + SumOf(trades, EndedBefore(trades, upto + 1))
  BY <1>2, <1>7, <1>9, <1>10, LabAssumed
<1> QED
  BY <1>4, <1>9, <1>11

(* The days so far are as they were, and under an account that has not      *)
(* fallen further.                                                          *)
LEMMA DaysCarry ==
  ASSUME LabTypes, DaysStay, NEW us, Grown(us), NEW acc \in SoundAccounts, acc.peak >= account.peak,
         ~ acc.dropped => ~ account.dropped
  PROVE  /\ DaysStayBelow(us, acc, DayOf(at))
         /\ \A d \in Nat : d < DayOf(at) => MadeThrough(us, d) = MadeThrough(trades, d) /\ MadeThrough(us, d) \in Int
<1>1. trades \in Seq(StrategyTrade) /\ account \in SoundAccounts /\ at \in Nat /\ DayOf(at) \in Nat
  BY DayIs DEF LabTypes
<1>2. ASSUME NEW d \in Nat, d < DayOf(at) PROVE MadeThrough(us, d) = MadeThrough(trades, d) /\ MadeThrough(us, d) \in Int
  <2>1. PICK S : S = {i \in DOMAIN trades : DayOf(EndOf(trades[i])) <= d}
    OBVIOUS
  <2>2. PICK vs \in Seq(StrategyTrade) : vs = us
    BY GrownIs
  <2>3. {i \in DOMAIN vs : DayOf(EndOf(vs[i])) <= d} = S
    <3>1. \A i \in DOMAIN vs : i \in DOMAIN trades \/ ~ (DayOf(EndOf(vs[i])) <= d)
      <4>1. \A i \in DOMAIN vs : i \in DOMAIN trades \/ DayOf(EndOf(vs[i])) = DayOf(at)
        BY <2>2, GrownIs
      <4> QED
        BY <1>1, <1>2, <4>1
    <3>2. DOMAIN trades \subseteq DOMAIN vs /\ \A i \in DOMAIN trades : vs[i] = trades[i]
      BY <2>2, GrownIs
    <3> QED
      BY <2>1, <3>1, <3>2
  <2>4. SumOf(vs, S) = SumOf(trades, S) /\ SumOf(vs, S) \in Int
    <3>1. S \in SUBSET DOMAIN trades
      BY <2>1
    <3>2. SumOf(vs, S) \in Int
      BY SumOfType
    <3> QED
      BY <2>2, <3>1, <3>2, GrownIs
  <2> QED
    BY <2>1, <2>2, <2>3, <2>4 DEF MadeThrough
<1>3. acc.peak \in Int /\ account.peak \in Int
  BY <1>1 DEF SoundAccounts, Accounts
<1>4. DropPct * account.peak <= DropPct * acc.peak /\ DropPct * account.peak \in Int /\ DropPct * acc.peak \in Int
  <2>1. account.peak * DropPct <= acc.peak * DropPct
    BY <1>3, LabAssumed, ProductsGrow
  <2> QED
    BY <1>3, <2>1, LabAssumed
<1>5. ASSUME NEW d \in Nat, d < DayOf(at)
      PROVE  /\ Capital + MadeThrough(us, d) <= acc.peak
             /\ \A c \in 0 .. d : ~ acc.dropped => 100 * (MadeThrough(us, c) - MadeThrough(us, d)) < DropPct * acc.peak
  <2>1. PICK made \in Int : made = MadeThrough(trades, d) /\ made = MadeThrough(us, d)
    BY <1>2, <1>5
  <2>2. Capital + made <= account.peak
    BY <1>5, <2>1 DEF DaysStay, DaysStayBelow
  <2>3. ASSUME NEW c \in 0 .. d, ~ acc.dropped
        PROVE  100 * (MadeThrough(us, c) - MadeThrough(us, d)) < DropPct * acc.peak
    <3>1. c \in Nat /\ c < DayOf(at)
      BY <1>1, <1>5
    <3>2. PICK before \in Int : before = MadeThrough(trades, c) /\ before = MadeThrough(us, c)
      BY <1>2, <3>1
    <3>3. 100 * (before - made) < DropPct * account.peak
      BY <1>5, <2>1, <2>3, <3>2 DEF DaysStay, DaysStayBelow
    <3> QED
      BY <1>4, <2>1, <3>2, <3>3
  <2> QED
    BY <1>3, <2>1, <2>2, <2>3, LabAssumed
<1> QED
  BY <1>2, <1>5 DEF DaysStayBelow

(* A trade is sized by the capital and what the others had made by its      *)
(* minute, whatever is entered later.                                       *)
StakeIsKnown(ts, i) ==
  ts[i].lots = LotsFor(Capital + SumOf(ts, {j \in DOMAIN ts : j # i /\ EndOf(ts[j]) <= ts[i].of.enters}), ts[i].of.unit)
StakesAreKnown(ts) == \A i \in DOMAIN ts : StakeIsKnown(ts, i)

LEMMA StakesAre == NoMoneyFromTheFuture <=> (compound => StakesAreKnown(trades))
<1>1. \A S : Made(S) = SumOf(trades, S)
  BY DEF Made, SumOf
<1> QED
  BY <1>1 DEF NoMoneyFromTheFuture, StakesAreKnown, StakeIsKnown

LEMMA TradesWereEntered ==
  ASSUME LabTypes, FiringsAreOver, TradesAreFirings
  PROVE  \A i \in DOMAIN trades : trades[i].of.enters \in Nat /\ trades[i].of.enters < at /\ trades[i].of.enters < EndOf(trades[i])
                                  /\ DayOf(EndOf(trades[i])) <= LabDays /\ DayOf(EndOf(trades[i])) >= 1
                                  /\ DayOf(EndOf(trades[i])) = DayOf(trades[i].of.enters)
<1> SUFFICES ASSUME NEW i \in DOMAIN trades
             PROVE  /\ trades[i].of.enters \in Nat /\ trades[i].of.enters < at /\ trades[i].of.enters < EndOf(trades[i])
                    /\ DayOf(EndOf(trades[i])) <= LabDays /\ DayOf(EndOf(trades[i])) >= 1
                    /\ DayOf(EndOf(trades[i])) = DayOf(trades[i].of.enters)
  OBVIOUS
<1>1. PICK k \in DOMAIN firings : k = trades[i].index /\ trades[i].of = firings[k]
  BY DEF TradesAreFirings
<1>2. PICK f \in LabFiring : f = firings[k]
  BY DEF LabTypes
<1>3. f.enters \in Nat /\ f.ends \in Nat
  BY <1>2 DEF LabFiring
<1>4. f.enters >= DayLength /\ f.enters < at /\ f.enters < f.ends /\ DayOf(f.ends) = DayOf(f.enters) /\ DayOf(f.enters) <= LabDays
  BY <1>2 DEF FiringsAreOver, FiringIsOver
<1>5. DayOf(f.enters) >= 1
  <2>1. DayLength \in Nat /\ DayOf(DayLength) <= DayOf(f.enters)
    BY <1>3, <1>4, LabAssumed, DaysGrow
  <2>2. DayOf(DayLength) = 1
    <3>1. PICK b \in Nat : b = DayLength /\ b > 0
      BY LabAssumed
    <3>2. b \div b = 1
      BY <3>1
    <3> QED
      BY <3>1, <3>2 DEF DayOf
  <2> QED
    BY <2>1, <2>2
<1>6. EndOf(trades[i]) = f.ends /\ trades[i].of.enters = f.enters
  BY <1>1, <1>2 DEF EndOf
<1> QED
  BY <1>3, <1>4, <1>5, <1>6

LEMMA StakesCarry ==
  ASSUME LabTypes, FiringsAreOver, TradesAreFirings, StakesAreKnown(trades), NEW us, Grown(us),
         \A t : Entered(us, t) =>
           t.of.enters = at /\ t.lots = LotsFor(Capital + SumOf(trades, EndedBefore(trades, at + 1)), t.of.unit)
  PROVE  StakesAreKnown(us)
<1>1. PICK ts \in Seq(StrategyTrade), vs \in Seq(StrategyTrade) : ts = trades /\ vs = us
  BY GrownIs DEF LabTypes
<1>2. DOMAIN ts \subseteq DOMAIN vs /\ (\A i \in DOMAIN ts : vs[i] = ts[i]) /\ \A S \in SUBSET DOMAIN ts : SumOf(vs, S) = SumOf(ts, S)
  BY <1>1, GrownIs
<1>3. \A i \in DOMAIN vs : i \in DOMAIN ts \/ (i = Len(ts) + 1 /\ EndOf(vs[i]) > at)
  BY <1>1, GrownIs
<1>4. at \in Nat /\ \A i \in DOMAIN ts : EndOf(ts[i]) \in Nat /\ ts[i].of.enters \in Nat /\ ts[i].of.enters < at
  BY <1>1, TradesWereEntered, TradeEnds DEF LabTypes
<1>5. \A i \in DOMAIN vs : EndOf(vs[i]) \in Nat
  <2>1. \A t \in StrategyTrade : EndOf(t) \in Nat
    BY DEF StrategyTrade, LabFiring, EndOf
  <2> QED
    BY <2>1
<1>6. ASSUME NEW i \in DOMAIN ts PROVE StakeIsKnown(vs, i)
  <2>1. PICK S \in SUBSET DOMAIN ts : S = {j \in DOMAIN ts : j # i /\ EndOf(ts[j]) <= ts[i].of.enters}
    OBVIOUS
  <2>2. {j \in DOMAIN vs : j # i /\ EndOf(vs[j]) <= vs[i].of.enters} = S
    <3>1. \A j \in DOMAIN vs : j \in DOMAIN ts \/ ~ (EndOf(vs[j]) <= ts[i].of.enters)
      BY <1>3, <1>4, <1>5
    <3> QED
      BY <1>2, <2>1, <3>1
  <2>3. ts[i].lots = LotsFor(Capital + SumOf(ts, S), ts[i].of.unit)
    BY <1>1, <2>1 DEF StakesAreKnown, StakeIsKnown
  <2>4. vs[i] = ts[i] /\ SumOf(vs, S) = SumOf(ts, S)
    BY <1>2
  <2> QED
    BY <2>2, <2>3, <2>4 DEF StakeIsKnown
<1>7. ASSUME NEW i \in DOMAIN vs, i \notin DOMAIN ts PROVE StakeIsKnown(vs, i)
  <2>1. us # trades
    BY <1>1, <1>7
  <2>2. PICK t : Entered(us, t)
    BY <2>1 DEF Grown
  <2>3. vs = Append(ts, t) /\ t \in StrategyTrade
    BY <1>1, <2>2 DEF Entered
  <2>4. i = Len(ts) + 1 /\ vs[i] = t
    BY <1>3, <1>7, <2>3, AppendIs
  <2>5. PICK S \in SUBSET DOMAIN ts : S = EndedBefore(ts, at + 1)
    BY DEF EndedBefore
  <2>6. t.of.enters = at /\ t.lots = LotsFor(Capital + SumOf(ts, S), t.of.unit)
    BY <1>1, <2>2, <2>5
  <2>7. {j \in DOMAIN vs : j # i /\ EndOf(vs[j]) <= at} = S
    <3>1. \A j \in DOMAIN vs : j # i => j \in DOMAIN ts
      BY <1>3, <2>4
    <3>2. i \notin DOMAIN ts
      BY <1>7
    <3>3. \A j \in DOMAIN ts : EndOf(ts[j]) <= at <=> EndOf(ts[j]) < at + 1
      BY <1>4
    <3> QED
      BY <1>2, <2>5, <3>1, <3>2, <3>3 DEF EndedBefore
  <2>8. SumOf(vs, S) = SumOf(ts, S)
    BY <1>2
  <2> QED
    BY <2>4, <2>6, <2>7, <2>8 DEF StakeIsKnown
<1>8. ASSUME NEW i \in DOMAIN us PROVE StakeIsKnown(us, i)
  BY <1>1, <1>6, <1>7, <1>8
<1> QED
  BY <1>8 DEF StakesAreKnown

(* What ends this minute settles in the walk and in the replay alike.       *)
LEMMA MinuteFollows ==
  ASSUME LabTypes, FiringsAreOver, TradesAreFirings, AccountIsOfTheEnded, ReplayFollows, Apart
  PROVE  IsAt(ReplayOf(EventsBefore(at + 1), compound), DayOf(at), Settled(at), TradesOf(trades, StillPending(at)), Len(trades),
              misses.unaffordable)
<1>1. at \in Nat /\ firings \in Seq(LabFiring)
  BY DEF LabTypes
<1>2. /\ \A e \in Events : EventIs(e) /\ e.ts \in Nat
      /\ \A i \in DOMAIN firings : firings[i].labelled => Exit(firings, i) \in Events
  BY <1>1, EventsAre DEF LabEvents
<1>3. PICK N : N = {e \in Events : e.kind = 1 /\ e.ts = at}
  OBVIOUS
<1>4. N \in SUBSET ExitsToCome
  BY <1>1, <1>3 DEF ExitsToCome
<1>5. EventsBefore(at + 1) = EventsBefore(at) \cup N
  <2>1. \A e \in Events : e.kind # 1 => e.ts < at
    BY <1>2 DEF EventIs, FiringsAreOver, FiringIsOver
  <2>2. \A e \in Events : e.ts < at + 1 <=> (e.ts < at \/ e.ts = at)
    BY <1>1, <1>2
  <2> QED
    BY <1>1, <1>2, <1>3, <2>1, <2>2 DEF EventsBefore
<1>6. pending = {i \in DOMAIN trades : EndOf(trades[i]) >= at} /\ \A i \in DOMAIN trades : EndOf(trades[i]) \in Nat
  BY TradeEnds DEF AccountIsOfTheEnded, LabTypes
<1>7. DueWith(N) = DueBy(at)
  <2>1. ASSUME NEW i \in pending, EndOf(trades[i]) <= at PROVE i \in DueWith(N)
    <3>1. EndOf(trades[i]) = at /\ i \in DOMAIN trades
      BY <1>1, <1>6, <2>1
    <3>2. PICK k \in DOMAIN firings : k = trades[i].index /\ trades[i].of = firings[k] /\ firings[k].labelled
      BY <3>1 DEF TradesAreFirings
    <3>3. Exit(firings, k) \in Events
      BY <1>2, <3>2
    <3>4. Exit(firings, k).kind = 1 /\ Exit(firings, k).ts = at /\ Exit(firings, k).index = k
      BY <3>1, <3>2 DEF Exit, EndOf
    <3>5. Exit(firings, k) \in N
      BY <1>3, <3>3, <3>4
    <3> QED
      BY <2>1, <3>2, <3>4, <3>5 DEF DueWith
  <2>2. ASSUME NEW i \in DueWith(N) PROVE i \in pending /\ EndOf(trades[i]) <= at
    <3>1. PICK e \in N : i \in pending /\ e.index = trades[i].index
      BY <2>2 DEF DueWith
    <3>2. e \in Events /\ e.kind = 1 /\ e.ts = at
      BY <1>3
    <3>3. e.ts = firings[e.index].ends
      BY <1>2, <3>2 DEF EventIs
    <3>4. EndOf(trades[i]) = firings[trades[i].index].ends
      BY <1>6, <3>1, TradesAreApart
    <3> QED
      BY <1>1, <3>1, <3>2, <3>3, <3>4
  <2> QED
    BY <2>1, <2>2 DEF DueBy, DueWith
<1>8. IsAt(ReplayOf(EventsBefore(at), compound), DayOf(at), account, TradesOf(trades, pending), Len(trades), misses.unaffordable)
  BY DEF ReplayFollows
<1>9. pending \subseteq DOMAIN trades
  BY <1>6
<1>10. PICK taken, unaffordable : taken = Len(trades) /\ unaffordable = misses.unaffordable
  OBVIOUS
<1>11. IsAt(ReplayOf(EventsBefore(at) \cup N, compound), DayOf(at), Settles(DueWith(N)),
            TradesOf(trades, pending \ DueWith(N)), taken, unaffordable)
  BY <1>4, <1>8, <1>9, <1>10, ExitsFollow
<1>12. Settled(at) = Settles(DueBy(at)) /\ StillPending(at) = pending \ DueBy(at)
  BY SettledIs DEF StillPending
<1> QED
  BY <1>5, <1>7, <1>10, <1>11, <1>12

-----------------------------------------------------------------------------
(* The steps of the walk.                                                   *)
walkVars == <<at, compound, firings, entered, trades, pending, account, misses>>

LEMMA MinuteKeeps ==
  ASSUME LabTypes, AccountIsOfTheEnded, DaysStay, at % DayLength < LastEntry, at' = at + 1, account' = Settled(at),
         NEW us, us = trades', Grown(us), pending' = {i \in DOMAIN us : EndOf(us[i]) >= at + 1}
  PROVE  /\ at' \in Nat /\ at' >= DayLength /\ at' % DayLength <= LastEntry /\ DayOf(at') = DayOf(at)
         /\ account' \in SoundAccounts /\ trades' \in Seq(StrategyTrade)
         /\ AccountIsOfTheEnded' /\ DaysStay'
<1>1. at \in Nat /\ at >= DayLength
  BY DEF LabTypes
<1>2. PICK u \in Nat : u = at + 1 /\ DayOf(u) = DayOf(at) /\ u % DayLength = (at % DayLength) + 1
  BY <1>1, MinutePasses
<1>3. at' = u /\ u % DayLength <= LastEntry /\ u >= DayLength
  <2>1. at % DayLength \in Nat
    BY <1>1, DayIs
  <2>2. PICK m, n : m = at % DayLength /\ n = u % DayLength /\ m \in Nat
    BY <2>1
  <2>3. n <= LastEntry
    BY <1>2, <2>2, LabAssumed
  <2> QED
    BY <1>1, <1>2, <2>2, <2>3, LabAssumed
<1>4. PICK acc \in SoundAccounts : /\ acc = Settled(at) /\ acc.peak >= account.peak /\ (~ acc.dropped => ~ account.dropped)
                                   /\ acc.equity = Capital + SumOf(trades, EndedBefore(trades, at + 1))
  BY <1>1, SettledCounts
<1>5. us \in Seq(StrategyTrade)
  BY GrownIs
<1>6. EndedBefore(us, u) = EndedBefore(trades, at + 1)
  <2>1. \A i \in DOMAIN us : EndOf(us[i]) \in Nat
    <3>1. \A t \in StrategyTrade : EndOf(t) \in Nat
      BY DEF StrategyTrade, LabFiring, EndOf
    <3> QED
      BY <1>5, <3>1
  <2>2. \A i \in DOMAIN us : i \in DOMAIN trades \/ EndOf(us[i]) > at
    BY GrownIs
  <2>3. \A i \in DOMAIN us : i \in DOMAIN trades \/ ~ (EndOf(us[i]) < u)
    BY <1>1, <1>2, <2>1, <2>2
  <2>4. DOMAIN trades \subseteq DOMAIN us /\ \A i \in DOMAIN trades : us[i] = trades[i]
    BY GrownIs
  <2> QED
    BY <1>2, <2>3, <2>4 DEF EndedBefore
<1>7. SumOf(us, EndedBefore(us, u)) = SumOf(trades, EndedBefore(trades, at + 1))
  <2>1. EndedBefore(trades, at + 1) \in SUBSET DOMAIN trades
    BY DEF EndedBefore
  <2> QED
    BY <1>6, <2>1, GrownIs
<1>8. AccountIsOfTheEnded'
  <2>1. pending' = {i \in DOMAIN us : EndOf(us[i]) >= u}
    BY <1>2
  <2>2. account'.equity = Capital + SumOf(us, EndedBefore(us, u))
    BY <1>4, <1>7
  <2> QED
    BY <1>3, <2>1, <2>2 DEF AccountIsOfTheEnded, EndOf, EndedBefore
<1>9. DaysStayBelow(us, acc, DayOf(at))
  BY <1>4, DaysCarry
<1>10. DaysStay'
  BY <1>2, <1>3, <1>4, <1>9 DEF DaysStay
<1> QED
  BY <1>2, <1>3, <1>4, <1>5, <1>8, <1>10

LEMMA QuietKeeps ==
  ASSUME WalkInv, Quiet
  PROVE  WalkInv'
<1>1. /\ LabTypes /\ FiringsAreOver /\ TradesAreFirings /\ AccountIsOfTheEnded /\ entered <= FiredToday
      /\ NoMoneyFromTheFuture /\ DaysStay /\ ReplayFollows
  BY DEF WalkInv
<1>2. /\ at % DayLength < LastEntry /\ account' = Settled(at) /\ pending' = StillPending(at) /\ at' = at + 1
      /\ compound' = compound /\ firings' = firings /\ entered' = entered /\ trades' = trades /\ misses' = misses
  BY DEF Quiet
<1>3. at \in Nat
  BY <1>1 DEF LabTypes
<1>4. /\ at' \in Nat /\ at' >= DayLength /\ at' % DayLength <= LastEntry /\ DayOf(at') = DayOf(at)
      /\ account' \in SoundAccounts /\ trades' \in Seq(StrategyTrade) /\ AccountIsOfTheEnded' /\ DaysStay'
  <2>1. PICK us : us = trades' /\ us = trades
    BY <1>2
  <2>2. Grown(us)
    BY <2>1 DEF Grown
  <2>3. pending' = {i \in DOMAIN us : EndOf(us[i]) >= at + 1}
    BY <1>1, <1>2, <1>3, <2>1, SettledCounts
  <2> QED
    BY <1>1, <1>2, <2>1, <2>2, <2>3, MinuteKeeps
<1>5. LabTypes'
  BY <1>1, <1>2, <1>4 DEF LabTypes
<1>6. FiringsAreOver'
  <2>1. \A i \in DOMAIN firings : firings[i].enters \in Nat
    <3>1. \A f \in LabFiring : f.enters \in Nat
      BY DEF LabFiring
    <3> QED
      BY <1>1, <3>1 DEF LabTypes
  <2> QED
    BY <1>1, <1>2, <1>3, <2>1 DEF FiringsAreOver, FiringIsOver, DayOf
<1>7. TradesAreFirings'
  BY <1>1, <1>2 DEF TradesAreFirings
<1>8. (entered <= FiredToday)'
  <2>1. FiredToday' = FiredToday
    BY <1>2, <1>4 DEF FiredToday, DayOf
  <2> QED
    BY <1>1, <1>2, <2>1
<1>9. NoMoneyFromTheFuture'
  BY <1>1, <1>2 DEF NoMoneyFromTheFuture, Made, NetOfTrade, EndOf
<1>10. ReplayFollows'
  <2>1. Events' = Events /\ Apart' = Apart
    BY <1>2 DEF Events, Apart
  <2>2. EventsBefore(at)' = EventsBefore(at + 1)
    BY <1>2, <2>1 DEF EventsBefore
  <2>3. Apart => IsAt(ReplayOf(EventsBefore(at + 1), compound), DayOf(at), Settled(at), TradesOf(trades, StillPending(at)),
                      Len(trades), misses.unaffordable)
    BY <1>1, MinuteFollows
  <2>4. PICK day, r, held : /\ day = DayOf(at) /\ r = ReplayOf(EventsBefore(at + 1), compound)
                            /\ held = TradesOf(trades, StillPending(at))
    OBVIOUS
  <2>5. DayOf(at)' = day /\ ReplayOf(EventsBefore(at), compound)' = r /\ TradesOf(trades, pending)' = held
    <3>1. DayOf(at)' = DayOf(at')
      BY DEF DayOf
    <3>2. ReplayOf(EventsBefore(at), compound)' = ReplayOf(EventsBefore(at)', compound')
      BY DEF ReplayOf
    <3> QED
      BY <1>2, <1>4, <2>2, <2>4, <3>1, <3>2 DEF TradesOf
  <2> QED
    BY <1>2, <2>1, <2>3, <2>4, <2>5 DEF ReplayFollows, IsAt
<1> QED
  BY <1>4, <1>5, <1>6, <1>7, <1>8, <1>9, <1>10 DEF WalkInv

(* The replay takes an entry as the walk does.                              *)
LEMMA EntryFollows ==
  ASSUME NEW r \in ReplayStates, NEW day, NEW acc \in SoundAccounts, NEW held, NEW taken, NEW unaffordable,
         IsAt(r, day, acc, held, taken, unaffordable), NEW e \in LabEvents, e.kind = 0, DayOf(e.ts) = day,
         NEW stakes \in BOOLEAN, NEW lots, lots = LotsFor(IF stakes THEN acc.equity ELSE Capital, e.of.unit)
  PROVE  /\ Gated(acc) => IsAt(ReplayStep(r, e, stakes), day, acc, held, taken, unaffordable)
         /\ ~ Gated(acc) /\ lots = 0 => IsAt(ReplayStep(r, e, stakes), day, acc, held, taken, unaffordable + 1)
         /\ ~ Gated(acc) /\ lots # 0 =>
              IsAt(ReplayStep(r, e, stakes), day, acc, held \cup {[index |-> e.index, of |-> e.of, lots |-> lots]}, taken + 1,
                   unaffordable)
<1>1. acc = BookOn(r, DayOf(e.ts)) /\ r.held = held /\ r.taken = taken /\ r.unaffordable = unaffordable
  BY DEF IsAt
<1>2. day \in Nat
  BY DayIs DEF LabEvents
<1>3. PICK more : more = held \cup {[index |-> e.index, of |-> e.of, lots |-> lots]}
  OBVIOUS
<1>4. ReplayStep(r, e, stakes) =
        IF Gated(acc) THEN State(day, acc, held, taken, unaffordable)
        ELSE IF lots = 0 THEN State(day, acc, held, taken, unaffordable + 1)
        ELSE State(day, acc, more, taken + 1, unaffordable)
  <2>1. ReplayStep(r, e, stakes) =
          IF Gated(acc) THEN State(DayOf(e.ts), acc, r.held, r.taken, r.unaffordable)
          ELSE IF lots = 0 THEN State(DayOf(e.ts), acc, r.held, r.taken, r.unaffordable + 1)
          ELSE State(DayOf(e.ts), acc, r.held \cup {[index |-> e.index, of |-> e.of, lots |-> lots]}, r.taken + 1,
                     r.unaffordable)
    BY <1>1, EntryIs
  <2> QED
    BY <1>1, <1>3, <2>1
<1>5. \A h, n, m : IsAt(State(day, acc, h, n, m), day, acc, h, n, m)
  BY <1>2, StateIs DEF IsAt
<1> QED
  BY <1>3, <1>4, <1>5

(* What a firing is, and what the walk makes of it.                         *)
FiringAt(o, found) ==
  [enters |-> at, ends |-> Clipped(at + o.lasts, DayOf(at)), net |-> o.net, unit |-> o.unit, labelled |-> found]

LEMMA FiringIs ==
  ASSUME LabTypes, Walking, at % DayLength < LastEntry, NEW o \in Outcomes, NEW found \in BOOLEAN
  PROVE  /\ FiringAt(o, found) \in LabFiring /\ FiringAt(o, found).enters = at /\ FiringAt(o, found).ends > at
         /\ DayOf(FiringAt(o, found).ends) = DayOf(at) /\ DayOf(at) <= LabDays /\ FiringAt(o, found).unit = o.unit
         /\ FiringAt(o, found).labelled = found
<1>1. at \in Nat /\ o.lasts \in Nat \ {0} /\ o.net \in Int /\ o.unit \in Nat \ {0}
  BY OutcomesAssumption DEF LabTypes
<1>2. PICK ends \in Nat : ends = Clipped(at + o.lasts, DayOf(at)) /\ at < ends /\ DayOf(ends) = DayOf(at)
  BY <1>1, ClippedIs
<1>3. PICK f : f = [enters |-> at, ends |-> ends, net |-> o.net, unit |-> o.unit, labelled |-> found]
  OBVIOUS
<1>4. f \in LabFiring /\ f.enters = at /\ f.ends = ends /\ f.unit = o.unit /\ f.labelled = found
  BY <1>1, <1>2, <1>3 DEF LabFiring
<1>5. FiringAt(o, found) = f
  BY <1>2, <1>3 DEF FiringAt
<1> QED
  BY <1>1, <1>2, <1>4, <1>5 DEF Walking

(* The events with another firing among them.                               *)
LEMMA EventsWith ==
  ASSUME firings \in Seq(LabFiring), NEW f \in LabFiring, firings' = Append(firings, f), NEW n, n = Len(firings) + 1
  PROVE  /\ ~ f.labelled => Events' = Events
         /\ f.labelled => Events' = Events \cup {[ts |-> f.enters, kind |-> 0, index |-> n, of |-> f],
                                                 [ts |-> f.ends, kind |-> 1, index |-> n, of |-> f]}
<1>1. PICK fs \in Seq(LabFiring), gs \in Seq(LabFiring) : fs = firings /\ gs = firings' /\ gs = Append(fs, f)
  BY AppendIs
<1>2. n = Len(fs) + 1 /\ DOMAIN fs = 1 .. Len(fs) /\ DOMAIN gs = 1 .. Len(gs) /\ Len(gs) = n /\ Len(fs) \in Nat
      /\ gs[n] = f /\ \A i \in DOMAIN fs : gs[i] = fs[i]
  BY <1>1, AppendIs
<1> DEFINE of(ss) == LET some == {i \in DOMAIN ss : ss[i].labelled}
                     IN {Entry(ss, i) : i \in some} \cup {Exit(ss, i) : i \in some}
<1>3. Events = of(fs) /\ Events' = of(gs)
  BY <1>1 DEF Events, Entry, Exit
<1>4. DOMAIN gs = DOMAIN fs \cup {n}
  BY <1>2
<1>5. \A i \in DOMAIN fs : Entry(gs, i) = Entry(fs, i) /\ Exit(gs, i) = Exit(fs, i)
  BY <1>2 DEF Entry, Exit
<1>6. Entry(gs, n) = [ts |-> f.enters, kind |-> 0, index |-> n, of |-> f] /\ Exit(gs, n) = [ts |-> f.ends, kind |-> 1, index |-> n, of |-> f]
  BY <1>2 DEF Entry, Exit
<1>7. PICK S, T : S = {i \in DOMAIN fs : fs[i].labelled} /\ T = {i \in DOMAIN gs : gs[i].labelled}
  OBVIOUS
<1>8. /\ ~ f.labelled => T = S
      /\ f.labelled => T = S \cup {n}
  BY <1>2, <1>4, <1>7
<1>9. of(fs) = {Entry(fs, i) : i \in S} \cup {Exit(fs, i) : i \in S} /\ of(gs) = {Entry(gs, i) : i \in T} \cup {Exit(gs, i) : i \in T}
  BY <1>7
<1>10. {Entry(gs, i) : i \in S} = {Entry(fs, i) : i \in S} /\ {Exit(gs, i) : i \in S} = {Exit(fs, i) : i \in S}
  BY <1>5, <1>7
<1> HIDE DEF of
<1>11. CASE ~ f.labelled
  BY <1>3, <1>8, <1>9, <1>10, <1>11
<1>12. CASE f.labelled
  <2>1. {Entry(gs, i) : i \in T} = {Entry(gs, i) : i \in S} \cup {Entry(gs, n)}
        /\ {Exit(gs, i) : i \in T} = {Exit(gs, i) : i \in S} \cup {Exit(gs, n)}
    BY <1>8, <1>12
  <2>2. Events' = Events \cup {Entry(gs, n), Exit(gs, n)}
    BY <1>3, <1>9, <1>10, <2>1
  <2> QED
    BY <1>6, <1>12, <2>2
<1> QED
  BY <1>11, <1>12

Fires(o, found, acc, lots, f) ==
  LET asks == ~ Gated(acc) /\ entered < MaxEntries
      enters == asks /\ found /\ lots > 0
  IN /\ account' = acc
     /\ firings' = Append(firings, f)
     /\ entered' = IF asks THEN entered + 1 ELSE entered
     /\ trades' = IF enters THEN Append(trades, [index |-> Len(firings) + 1, of |-> f, lots |-> lots]) ELSE trades
     /\ pending' = IF enters THEN StillPending(at) \cup {Len(trades) + 1} ELSE StillPending(at)
     /\ misses' = [unaffordable |-> misses.unaffordable + (IF asks /\ found /\ lots = 0 THEN 1 ELSE 0),
                   unlabelled |-> misses.unlabelled + (IF asks /\ ~ found THEN 1 ELSE 0)]

LEMMA FireIs ==
  ASSUME Fire
  PROVE  /\ Walking /\ at % DayLength < LastEntry /\ FiredToday < MaxEntries /\ at' = at + 1 /\ compound' = compound
         /\ \E o \in Outcomes, found \in BOOLEAN : \E acc, lots, f :
              /\ acc = Settled(at) /\ lots = LotsFor(IF compound THEN acc.equity ELSE Capital, o.unit) /\ f = FiringAt(o, found)
              /\ Fires(o, found, acc, lots, f)
<1>1. PICK o \in Outcomes, found \in BOOLEAN :
        Fires(o, found, Settled(at), LotsFor(IF compound THEN Settled(at).equity ELSE Capital, o.unit), FiringAt(o, found))
  BY Zenon DEF Fire, Fires, FiringAt
<1>2. PICK acc, lots, f :
        acc = Settled(at) /\ lots = LotsFor(IF compound THEN acc.equity ELSE Capital, o.unit) /\ f = FiringAt(o, found)
  OBVIOUS
<1>3. Fires(o, found, acc, lots, f)
  BY <1>1, <1>2, Zenon
<1> QED
  BY <1>2, <1>3 DEF Fire

LEMMA FiredIsCounted ==
  ASSUME LabTypes
  PROVE  FiredToday \in Nat /\ IsFiniteSet({i \in DOMAIN firings : DayOf(firings[i].enters) = DayOf(at)})
<1>1. IsFiniteSet(DOMAIN firings)
  <2>1. DOMAIN firings = 1 .. Len(firings) /\ Len(firings) \in Nat
    BY DEF LabTypes
  <2> QED
    BY <2>1, FS_Interval
<1>2. PICK S : S = {i \in DOMAIN firings : DayOf(firings[i].enters) = DayOf(at)}
  OBVIOUS
<1>3. IsFiniteSet(S)
  BY <1>1, <1>2, FS_Subset
<1> QED
  BY <1>2, <1>3, FS_CardinalityType DEF FiredToday

(* A firing is counted, and is over from the next minute on.                *)
LEMMA FiringKeeps ==
  ASSUME LabTypes, FiringsAreOver, NEW f \in LabFiring, firings' = Append(firings, f), at' = at + 1, DayOf(at') = DayOf(at),
         f.enters = at, f.ends > at, DayOf(f.ends) = DayOf(at), DayOf(at) <= LabDays
  PROVE  FiringsAreOver' /\ FiredToday' = FiredToday + 1 /\ firings' \in Seq(LabFiring)
<1>1. PICK n \in Nat : n = Len(firings) + 1 /\ DOMAIN firings = 1 .. n - 1 /\ n \notin DOMAIN firings
  BY DEF LabTypes
<1>2. firings' \in Seq(LabFiring) /\ firings'[n] = f /\ DOMAIN firings' = 1 .. n /\ \A i \in DOMAIN firings : firings'[i] = firings[i]
  <2>1. firings \in Seq(LabFiring)
    BY DEF LabTypes
  <2> QED
    BY <1>1, <2>1, AppendIs
<1>3. DOMAIN firings' = DOMAIN firings \cup {n}
  BY <1>1, <1>2
<1>4. at \in Nat /\ at >= DayLength /\ \A i \in DOMAIN firings : firings[i].enters \in Nat
  <2>1. \A g \in LabFiring : g.enters \in Nat
    BY DEF LabFiring
  <2> QED
    BY <2>1 DEF LabTypes
<1>5. ASSUME NEW i \in DOMAIN firings' PROVE FiringIsOver(firings'[i], at')
  <2>1. CASE i \in DOMAIN firings
    <3>1. firings'[i] = firings[i] /\ FiringIsOver(firings[i], at)
      BY <1>2, <2>1 DEF FiringsAreOver
    <3> QED
      BY <1>4, <2>1, <3>1 DEF FiringIsOver
  <2>2. CASE i = n
    BY <1>2, <1>4, <2>2 DEF FiringIsOver
  <2> QED
    BY <1>3, <2>1, <2>2
<1>6. FiringsAreOver'
  BY <1>5 DEF FiringsAreOver, FiringIsOver, DayOf
<1>7. FiredToday' = FiredToday + 1
  <2>1. PICK S : S = {i \in DOMAIN firings : DayOf(firings[i].enters) = DayOf(at)} /\ IsFiniteSet(S) /\ n \notin S
    BY <1>1, FiredIsCounted
  <2>2. FiredToday' = Cardinality({i \in DOMAIN firings' : DayOf(firings'[i].enters) = DayOf(at')})
    BY DEF FiredToday, DayOf
  <2>3. {i \in DOMAIN firings' : DayOf(firings'[i].enters) = DayOf(at')} = S \cup {n}
    BY <1>2, <1>3, <2>1
  <2>4. Cardinality(S \cup {n}) = Cardinality(S) + 1
    BY <2>1, FS_AddElement
  <2> QED
    BY <2>1, <2>2, <2>3, <2>4 DEF FiredToday
<1> QED
  BY <1>2, <1>6, <1>7

(* The trade of a firing is its last.                                       *)
LEMMA TradeKeeps ==
  ASSUME LabTypes, TradesAreFirings, NEW f \in LabFiring, firings' = Append(firings, f), NEW t \in StrategyTrade,
         trades' = trades \/ (trades' = Append(trades, t) /\ t.of = f /\ t.index = Len(firings) + 1 /\ f.labelled)
  PROVE  TradesAreFirings'
<1>1. PICK n \in Nat : n = Len(firings) + 1 /\ DOMAIN firings = 1 .. n - 1
  BY DEF LabTypes
<1>2. firings'[n] = f /\ DOMAIN firings' = 1 .. n /\ \A i \in DOMAIN firings : firings'[i] = firings[i]
  <2>1. firings \in Seq(LabFiring)
    BY DEF LabTypes
  <2> QED
    BY <1>1, <2>1, AppendIs
<1>3. PICK m \in Nat : m = Len(trades) + 1 /\ DOMAIN trades = 1 .. m - 1
  BY DEF LabTypes
<1>4. \A i \in DOMAIN trades : /\ trades[i].index \in DOMAIN firings' /\ trades[i].of = firings'[trades[i].index]
                               /\ trades[i].of.labelled /\ trades[i].index < n
  BY <1>1, <1>2 DEF TradesAreFirings
<1>5. \A i, j \in DOMAIN trades : i < j => trades[i].index < trades[j].index
  BY DEF TradesAreFirings
<1>6. CASE trades' = trades
  BY <1>4, <1>5, <1>6 DEF TradesAreFirings
<1>7. CASE trades' = Append(trades, t) /\ t.of = f /\ t.index = n /\ f.labelled
  <2>1. trades'[m] = t /\ DOMAIN trades' = 1 .. m /\ \A i \in DOMAIN trades : trades'[i] = trades[i]
    <3>1. PICK ts \in Seq(StrategyTrade), us \in Seq(StrategyTrade) : ts = trades /\ us = Append(ts, t)
      BY AppendIs DEF LabTypes
    <3>2. us \in Seq(StrategyTrade) /\ Len(us) = Len(ts) + 1 /\ us[Len(ts) + 1] = t /\ \A i \in 1 .. Len(ts) : us[i] = ts[i]
      BY <3>1, AppendIs
    <3>3. DOMAIN us = 1 .. m /\ us[m] = t /\ \A i \in DOMAIN ts : us[i] = ts[i]
      BY <1>3, <3>1, <3>2
    <3> QED
      BY <1>7, <3>1, <3>3
  <2>2. \A i \in DOMAIN trades' : i \in DOMAIN trades \/ i = m
    BY <1>3, <2>1
  <2>3. \A i \in DOMAIN trades' : /\ trades'[i].index \in DOMAIN firings' /\ trades'[i].of = firings'[trades'[i].index]
                                  /\ trades'[i].of.labelled
    <3> TAKE i \in DOMAIN trades'
    <3>1. CASE i \in DOMAIN trades
      BY <1>4, <2>1, <3>1
    <3>2. CASE i = m
      BY <1>2, <1>7, <2>1, <3>2
    <3> QED
      BY <2>2, <3>1, <3>2
  <2>4. ASSUME NEW i \in DOMAIN trades', NEW j \in DOMAIN trades', i < j PROVE trades'[i].index < trades'[j].index
    <3>1. i \in DOMAIN trades
      BY <1>3, <2>1, <2>4
    <3>2. CASE j \in DOMAIN trades
      BY <1>5, <2>1, <2>4, <3>1, <3>2
    <3>3. CASE j = m
      BY <1>4, <1>7, <2>1, <3>1, <3>3
    <3> QED
      BY <2>2, <3>2, <3>3
  <2> QED
    BY <2>3, <2>4 DEF TradesAreFirings
<1> QED
  BY <1>1, <1>6, <1>7

(* The replay of a firing is what the walk made of it, unless another's     *)
(* exit shares its minute.                                                  *)
LEMMA FireFollows ==
  ASSUME LabTypes, FiringsAreOver, TradesAreFirings, AccountIsOfTheEnded, ReplayFollows,
         NEW f \in LabFiring, firings' = Append(firings, f), f.enters = at, f.ends > at,
         at' = at + 1, DayOf(at') = DayOf(at), compound' = compound,
         NEW acc \in SoundAccounts, acc = Settled(at), account' = acc,
         NEW lots, lots = LotsFor(IF compound THEN acc.equity ELSE Capital, f.unit),
         ~ f.labelled \/ Gated(acc) =>
           trades' = trades /\ pending' = StillPending(at) /\ misses'.unaffordable = misses.unaffordable,
         f.labelled /\ ~ Gated(acc) /\ lots = 0 =>
           trades' = trades /\ pending' = StillPending(at) /\ misses'.unaffordable = misses.unaffordable + 1,
         f.labelled /\ ~ Gated(acc) /\ lots # 0 =>
           /\ trades' = Append(trades, [index |-> Len(firings) + 1, of |-> f, lots |-> lots])
           /\ [index |-> Len(firings) + 1, of |-> f, lots |-> lots] \in StrategyTrade
           /\ pending' = StillPending(at) \cup {Len(trades) + 1} /\ misses'.unaffordable = misses.unaffordable
  PROVE  ReplayFollows'
<1> SUFFICES ASSUME Apart'
             PROVE  IsAt(ReplayOf(EventsBefore(at), compound), DayOf(at), account, TradesOf(trades, pending), Len(trades),
                         misses.unaffordable)'
  BY DEF ReplayFollows
<1>1. PICK stakes \in BOOLEAN, day \in Nat : stakes = compound /\ stakes = compound' /\ day = DayOf(at) /\ day = DayOf(at')
  BY DayIs DEF LabTypes
<1>2. PICK n \in Nat \ {0} : n = Len(firings) + 1 /\ DOMAIN firings = 1 .. n - 1
  BY DEF LabTypes
<1>3. /\ firings \in Seq(LabFiring) /\ at \in Nat /\ f.enters \in Nat /\ f.ends \in Nat
      /\ ToldApart(Events) /\ \A e \in Events : EventIs(e) /\ e \in LabEvents /\ e.ts \in Nat
  BY EventsAre DEF LabTypes, LabFiring, LabEvents
<1>4. PICK en \in LabEvents : /\ en = [ts |-> f.enters, kind |-> 0, index |-> n, of |-> f]
                              /\ en.ts = at /\ en.kind = 0 /\ en.index = n /\ en.of = f
  <2>1. PICK en : en = [ts |-> f.enters, kind |-> 0, index |-> n, of |-> f]
    OBVIOUS
  <2>2. en \in LabEvents
    BY <1>3, <2>1 DEF LabEvents
  <2> QED
    BY <2>1, <2>2
<1>5. PICK ex : ex = [ts |-> f.ends, kind |-> 1, index |-> n, of |-> f] /\ ex.ts = f.ends
  <2>1. PICK ex : ex = [ts |-> f.ends, kind |-> 1, index |-> n, of |-> f]
    OBVIOUS
  <2>2. ex.ts = f.ends
    BY <2>1
  <2> QED
    BY <2>1, <2>2
<1>6. /\ ~ f.labelled => Events' = Events
      /\ f.labelled => Events' = Events \cup {en, ex}
  <2>1. PICK k : k = n /\ k = Len(firings) + 1
    BY <1>2
  <2>2. /\ ~ f.labelled => Events' = Events
        /\ f.labelled => Events' = Events \cup {[ts |-> f.enters, kind |-> 0, index |-> k, of |-> f],
                                                [ts |-> f.ends, kind |-> 1, index |-> k, of |-> f]}
    BY <1>3, <2>1, EventsWith
  <2> QED
    BY <1>4, <1>5, <2>1, <2>2
<1>7. Events \subseteq Events' /\ \A e, g \in Events' : e.kind = 0 /\ g.kind = 1 => e.ts # g.ts
  BY <1>6 DEF Apart
<1>8. Apart
  BY <1>7 DEF Apart
<1>9. PICK E \in SUBSET Events : E = EventsBefore(at + 1)
  BY DEF EventsBefore
<1>10. IsAt(ReplayOf(E, stakes), day, acc, TradesOf(trades, StillPending(at)), Len(trades), misses.unaffordable)
  BY <1>1, <1>8, <1>9, MinuteFollows
<1>11. ToldApart(E)
  BY <1>3, FS_Subset DEF ToldApart
<1>12. PICK r \in ReplayStates : r = ReplayOf(E, stakes)
  BY <1>11, ReplayIs
<1>13. PICK F : F = EventsBefore(at)' /\ F = {e \in Events' : e.ts < at + 1}
  BY DEF EventsBefore
<1>14. ReplayOf(EventsBefore(at), compound)' = ReplayOf(F, stakes)
  BY <1>1, <1>13 DEF ReplayOf
<1>15. PICK ts \in Seq(StrategyTrade) : ts = trades
  BY DEF LabTypes
<1>16. PICK held, left, m : held = TradesOf(ts, left) /\ left = StillPending(at) /\ m = misses.unaffordable /\ left \subseteq DOMAIN ts
  <2>1. StillPending(at) \subseteq DOMAIN ts
    BY <1>15 DEF StillPending, AccountIsOfTheEnded
  <2>2. PICK left : left = StillPending(at)
    OBVIOUS
  <2>3. PICK held, m : held = TradesOf(ts, left) /\ m = misses.unaffordable
    OBVIOUS
  <2> QED
    BY <2>1, <2>2, <2>3
<1>17. IsAt(r, day, acc, held, Len(ts), m)
  BY <1>10, <1>12, <1>15, <1>16
<1>18. SUFFICES IsAt(ReplayOf(F, stakes), day, acc, TradesOf(trades', pending'), Len(trades'), misses'.unaffordable)
  <2>1. DayOf(at)' = DayOf(at') /\ TradesOf(trades, pending)' = TradesOf(trades', pending')
    BY DEF DayOf, TradesOf
  <2> QED
    BY <1>1, <1>14, <1>18, <2>1 DEF IsAt
<1>19. CASE ~ f.labelled
  <2>1. F = E
    BY <1>6, <1>9, <1>13, <1>19 DEF EventsBefore
  <2>2. trades' = ts /\ pending' = left /\ misses'.unaffordable = m
    BY <1>15, <1>16, <1>19
  <2> QED
    BY <1>12, <1>16, <1>17, <2>1, <2>2
<1>20. CASE f.labelled
  <2>1. \A e \in E : e.ts < at /\ e \in Events /\ e.index # n
    <3> TAKE e \in E
    <3>1. e.ts <= at
      BY <1>3, <1>9 DEF EventsBefore
    <3>2. e.index # n
      BY <1>2, <1>3 DEF EventIs
    <3>3. EventIs(e)
      BY <1>3
    <3>4. CASE e.kind = 0
      <4>1. e.ts = firings[e.index].enters /\ e.index \in DOMAIN firings
        BY <3>3, <3>4 DEF EventIs
      <4>2. firings[e.index].enters < at
        BY <4>1 DEF FiringsAreOver, FiringIsOver
      <4> QED
        BY <3>2, <4>1, <4>2
    <3>5. CASE e.kind = 1
      <4>1. en \in Events' /\ e \in Events'
        BY <1>6, <1>20
      <4>2. en.ts # e.ts
        BY <1>4, <1>7, <3>5, <4>1
      <4> QED
        BY <1>3, <1>4, <3>1, <3>2, <4>2
    <3> QED
      BY <3>3, <3>4, <3>5 DEF EventIs
  <2>2. F = E \cup {en}
    <3>1. E = {e \in Events : e.ts < at + 1}
      BY <1>9 DEF EventsBefore
    <3>2. en.ts < at + 1 /\ ~ (ex.ts < at + 1)
      BY <1>3, <1>4, <1>5
    <3> QED
      BY <1>6, <1>13, <1>20, <3>1, <3>2
  <2>3. en \notin E /\ F \ {en} = E
    BY <1>4, <2>1, <2>2
  <2>4. ToldApart(F)
    <3>1. IsFiniteSet(F) /\ F \subseteq LabEvents
      <4>1. IsFiniteSet(E) /\ E \subseteq LabEvents
        BY <1>11 DEF ToldApart
      <4>2. IsFiniteSet(E \cup {en})
        BY <4>1, FS_AddElement
      <4> QED
        BY <2>2, <4>1, <4>2
    <3>2. \A e, g \in F : e.kind = g.kind /\ e.index = g.index => e = g
      BY <1>4, <1>11, <2>1, <2>2 DEF ToldApart
    <3> QED
      BY <3>1, <3>2 DEF ToldApart
  <2>5. LastEvent(F) = en
    <3>1. en \in F /\ \A e \in F \ {en} : EventBefore(e, en)
      BY <1>4, <2>1, <2>2 DEF EventBefore
    <3> QED
      BY <2>4, <3>1, LastEventIs
  <2>6. ReplayOf(F, stakes) = ReplayStep(r, en, stakes)
    BY <1>12, <2>2, <2>3, <2>4, <2>5, ReplayIs
  <2>7. PICK size : size = Len(ts)
    OBVIOUS
  <2>8. DayOf(en.ts) = day /\ lots = LotsFor(IF stakes THEN acc.equity ELSE Capital, en.of.unit) /\ en.kind = 0
    BY <1>1, <1>4
  <2>9. /\ Gated(acc) => IsAt(ReplayStep(r, en, stakes), day, acc, held, size, m)
        /\ ~ Gated(acc) /\ lots = 0 => IsAt(ReplayStep(r, en, stakes), day, acc, held, size, m + 1)
        /\ ~ Gated(acc) /\ lots # 0 =>
             IsAt(ReplayStep(r, en, stakes), day, acc, held \cup {[index |-> en.index, of |-> en.of, lots |-> lots]}, size + 1, m)
    BY <1>17, <2>7, <2>8, EntryFollows
  <2>10. CASE Gated(acc)
    <3>1. trades' = ts /\ pending' = left /\ misses'.unaffordable = m
      BY <1>15, <1>16, <2>10
    <3> QED
      BY <1>16, <2>6, <2>7, <2>9, <2>10, <3>1
  <2>11. CASE ~ Gated(acc) /\ lots = 0
    <3>1. trades' = ts /\ pending' = left /\ misses'.unaffordable = m + 1
      BY <1>15, <1>16, <1>20, <2>11
    <3> QED
      BY <1>16, <2>6, <2>7, <2>9, <2>11, <3>1
  <2>12. CASE ~ Gated(acc) /\ lots # 0
    <3>1. PICK t \in StrategyTrade : t = [index |-> n, of |-> f, lots |-> lots]
      BY <1>2, <1>20, <2>12
    <3>2. PICK us \in Seq(StrategyTrade) : us = trades' /\ us = Append(ts, t)
      <4>1. trades' = Append(ts, t)
        BY <1>2, <1>15, <1>20, <2>12, <3>1
      <4> QED
        BY <4>1, AppendIs
    <3>3. pending' = left \cup {size + 1} /\ misses'.unaffordable = m
      BY <1>15, <1>16, <1>20, <2>7, <2>12
    <3>4. Len(us) = size + 1 /\ us[size + 1] = t /\ \A i \in 1 .. size : us[i] = ts[i]
      BY <2>7, <3>2, AppendIs
    <3>5. TradesOf(us, left \cup {size + 1}) = held \cup {t}
      <4>1. \A i \in left : us[i] = ts[i]
        BY <1>16, <2>7, <3>4
      <4> QED
        BY <1>16, <3>4, <4>1 DEF TradesOf
    <3>6. IsAt(ReplayStep(r, en, stakes), day, acc, held \cup {t}, size + 1, m)
      BY <1>4, <2>9, <2>12, <3>1
    <3> QED
      BY <2>6, <3>2, <3>3, <3>4, <3>5, <3>6
  <2> QED
    BY <2>10, <2>11, <2>12
<1> QED
  BY <1>19, <1>20

LEMMA FireKeeps ==
  ASSUME WalkInv, Fire
  PROVE  WalkInv'
<1>1. /\ LabTypes /\ FiringsAreOver /\ TradesAreFirings /\ AccountIsOfTheEnded /\ entered <= FiredToday
      /\ NoMoneyFromTheFuture /\ DaysStay /\ ReplayFollows
  BY DEF WalkInv
<1>2. Walking /\ at % DayLength < LastEntry /\ FiredToday < MaxEntries /\ at' = at + 1 /\ compound' = compound
  BY FireIs
<1> DEFINE happens(o, found, acc, lots, f) ==
             /\ acc = Settled(at) /\ lots = LotsFor(IF compound THEN acc.equity ELSE Capital, o.unit) /\ f = FiringAt(o, found)
             /\ Fires(o, found, acc, lots, f)
<1>3. PICK o \in Outcomes, found \in BOOLEAN : \E acc, lots, f : happens(o, found, acc, lots, f)
  BY FireIs
<1>4. PICK acc, lots, f : happens(o, found, acc, lots, f)
  BY <1>3
<1>5. at \in Nat /\ compound \in BOOLEAN /\ firings \in Seq(LabFiring) /\ entered \in 0 .. MaxEntries /\ FiredToday \in Nat
      /\ misses \in [unaffordable : Nat, unlabelled : Nat] /\ trades \in Seq(StrategyTrade)
  BY <1>1, FiredIsCounted DEF LabTypes
<1>6. /\ f \in LabFiring /\ f.enters = at /\ f.ends > at /\ DayOf(f.ends) = DayOf(at) /\ DayOf(at) <= LabDays /\ f.unit = o.unit
      /\ f.labelled = found /\ o.unit \in Nat \ {0}
  BY <1>1, <1>2, <1>4, FiringIs, OutcomesAssumption
<1>7. acc \in SoundAccounts /\ acc.equity = Capital + SumOf(trades, EndedBefore(trades, at + 1))
      /\ StillPending(at) = {i \in DOMAIN trades : EndOf(trades[i]) >= at + 1}
  BY <1>1, <1>4, <1>5, SettledCounts
<1>8. lots \in 0 .. LotCap
  <2>1. PICK money \in Int : money = (IF compound THEN acc.equity ELSE Capital)
    BY <1>7, LabAssumed DEF SoundAccounts, Accounts
  <2> QED
    BY <1>4, <1>6, <2>1, LotsAreFew
<1>9. entered < MaxEntries
  BY <1>1, <1>2, <1>5, LabAssumed
<1>10. PICK t : t = [index |-> Len(firings) + 1, of |-> f, lots |-> lots]
  OBVIOUS
<1>11. t.index = Len(firings) + 1 /\ t.of = f /\ t.lots = lots /\ (lots # 0 => t \in StrategyTrade)
  <2>1. Len(firings) + 1 \in Nat \ {0}
    BY <1>5
  <2>2. lots # 0 => lots \in 1 .. LotCap
    BY <1>8, LabAssumed
  <2> QED
    BY <1>6, <1>10, <2>1, <2>2 DEF StrategyTrade
<1>12. PICK enters \in BOOLEAN : enters = (~ Gated(acc) /\ found /\ lots # 0)
  OBVIOUS
<1>13. /\ account' = acc /\ firings' = Append(firings, f)
       /\ entered' = IF Gated(acc) THEN entered ELSE entered + 1
       /\ trades' = IF enters THEN Append(trades, t) ELSE trades
       /\ pending' = IF enters THEN StillPending(at) \cup {Len(trades) + 1} ELSE StillPending(at)
       /\ misses' = [unaffordable |-> misses.unaffordable + (IF ~ Gated(acc) /\ found /\ lots = 0 THEN 1 ELSE 0),
                     unlabelled |-> misses.unlabelled + (IF ~ Gated(acc) /\ ~ found THEN 1 ELSE 0)]
  <2>1. enters = ((~ Gated(acc) /\ entered < MaxEntries) /\ found /\ lots > 0)
    BY <1>8, <1>9, <1>12, LabAssumed
  <2>2. (~ Gated(acc) /\ entered < MaxEntries) = ~ Gated(acc)
    BY <1>9
  <2> QED
    BY <1>4, <1>10, <2>1, <2>2, Zenon DEF Fires
<1>14. misses' \in [unaffordable : Nat, unlabelled : Nat]
       /\ misses'.unaffordable = misses.unaffordable + (IF ~ Gated(acc) /\ found /\ lots = 0 THEN 1 ELSE 0)
  <2>1. PICK m \in Nat, k \in Nat : m = misses.unaffordable + (IF ~ Gated(acc) /\ found /\ lots = 0 THEN 1 ELSE 0)
                                    /\ k = misses.unlabelled + (IF ~ Gated(acc) /\ ~ found THEN 1 ELSE 0)
    BY <1>5
  <2> QED
    BY <1>13, <2>1
<1>15. PICK us : us = trades'
  OBVIOUS
<1>16. enters => Entered(us, t)
  BY <1>6, <1>11, <1>12, <1>13, <1>15 DEF Entered, EndOf
<1>17. Grown(us)
  BY <1>13, <1>15, <1>16 DEF Grown
<1>18. pending' = {i \in DOMAIN us : EndOf(us[i]) >= at + 1}
  <2>1. CASE ~ enters
    BY <1>7, <1>13, <1>15, <2>1
  <2>2. CASE enters
    <3>1. PICK size \in Nat : size = Len(trades) /\ DOMAIN trades = 1 .. size
      BY <1>5
    <3>2. PICK vs \in Seq(StrategyTrade) : vs = us /\ Len(vs) = size + 1 /\ vs[size + 1] = t /\ \A i \in 1 .. size : vs[i] = trades[i]
      <4>1. PICK ts \in Seq(StrategyTrade) : ts = trades
        BY <1>5
      <4>2. t \in StrategyTrade /\ us = Append(ts, t)
        BY <1>11, <1>12, <1>13, <1>15, <2>2, <4>1
      <4> QED
        BY <3>1, <4>1, <4>2, AppendIs
    <3>3. DOMAIN us = DOMAIN trades \cup {size + 1}
      BY <3>1, <3>2
    <3>4. EndOf(t) >= at + 1
      BY <1>5, <1>6, <1>11 DEF EndOf, LabFiring
    <3>5. pending' = {i \in DOMAIN trades : EndOf(trades[i]) >= at + 1} \cup {size + 1}
      BY <1>7, <1>13, <2>2, <3>1
    <3> QED
      BY <3>1, <3>2, <3>3, <3>4, <3>5
  <2> QED
    BY <2>1, <2>2
<1>19. /\ at' \in Nat /\ at' >= DayLength /\ at' % DayLength <= LastEntry /\ DayOf(at') = DayOf(at)
       /\ account' \in SoundAccounts /\ trades' \in Seq(StrategyTrade) /\ AccountIsOfTheEnded' /\ DaysStay'
  <2>1. account' = Settled(at)
    BY <1>4, <1>13
  <2> QED
    BY <1>1, <1>2, <1>15, <1>17, <1>18, <2>1, MinuteKeeps
<1>20. FiringsAreOver' /\ FiredToday' = FiredToday + 1 /\ firings' \in Seq(LabFiring)
  BY <1>1, <1>2, <1>6, <1>13, <1>19, FiringKeeps
<1>21. entered' \in 0 .. MaxEntries /\ (entered <= FiredToday)'
  BY <1>1, <1>5, <1>9, <1>13, <1>20, LabAssumed
<1>22. LabTypes'
  BY <1>1, <1>2, <1>14, <1>19, <1>20, <1>21 DEF LabTypes
<1>23. TradesAreFirings'
  <2>1. CASE ~ enters
    <3>1. trades' = trades
      BY <1>13, <2>1
    <3>2. CASE trades = <<>>
      BY <3>1, <3>2 DEF TradesAreFirings
    <3>3. CASE trades # <<>>
      <4>1. PICK u \in StrategyTrade : TRUE
        BY <1>5, <3>3
      <4> QED
        BY <1>1, <1>6, <1>13, <3>1, <4>1, TradeKeeps
    <3> QED
      BY <3>2, <3>3
  <2>2. CASE enters
    <3>1. t \in StrategyTrade /\ trades' = Append(trades, t) /\ f.labelled
      BY <1>6, <1>11, <1>12, <1>13, <2>2
    <3> QED
      BY <1>1, <1>6, <1>11, <1>13, <3>1, TradeKeeps
  <2> QED
    BY <2>1, <2>2
<1>24. NoMoneyFromTheFuture'
  <2>1. ASSUME compound PROVE StakesAreKnown(us)
    <3>1. StakesAreKnown(trades)
      BY <1>1, <2>1, StakesAre
    <3>2. \A s : Entered(us, s) =>
            s.of.enters = at /\ s.lots = LotsFor(Capital + SumOf(trades, EndedBefore(trades, at + 1)), s.of.unit)
      <4> SUFFICES ASSUME NEW s, Entered(us, s)
                   PROVE  s.of.enters = at /\ s.lots = LotsFor(Capital + SumOf(trades, EndedBefore(trades, at + 1)), s.of.unit)
        OBVIOUS
      <4>1. s = t
        <5>1. PICK ts \in Seq(StrategyTrade), size \in Nat : ts = trades /\ size = Len(ts)
          BY <1>5
        <5>2. us = Append(ts, s) /\ s \in StrategyTrade
          BY <5>1 DEF Entered
        <5>3. us[size + 1] = s /\ Len(us) = size + 1
          BY <5>1, <5>2, AppendIs
        <5>4. us = trades \/ (us = Append(ts, t) /\ t \in StrategyTrade)
          BY <1>11, <1>12, <1>13, <1>15, <5>1
        <5>5. us # trades
          BY <5>1, <5>3
        <5>6. us[size + 1] = t
          BY <5>1, <5>4, <5>5, AppendIs
        <5> QED
          BY <5>3, <5>6
      <4>2. lots = LotsFor(acc.equity, o.unit)
        BY <1>4, <2>1
      <4> QED
        BY <1>6, <1>7, <1>11, <4>1, <4>2
    <3> QED
      BY <1>1, <1>17, <3>1, <3>2, StakesCarry
  <2>2. compound' => StakesAreKnown(trades')
    BY <1>2, <1>15, <2>1
  <2>3. \A S : Made(S)' = SumOf(trades', S)
    BY DEF Made, SumOf, NetOfTrade
  <2> QED
    BY <2>2, <2>3 DEF NoMoneyFromTheFuture, StakesAreKnown, StakeIsKnown, EndOf
<1>25. ReplayFollows'
  <2>1. ~ f.labelled \/ Gated(acc) =>
          trades' = trades /\ pending' = StillPending(at) /\ misses'.unaffordable = misses.unaffordable
    <3>1. ~ f.labelled \/ Gated(acc) => ~ enters
      BY <1>6, <1>12
    <3>2. ~ f.labelled \/ Gated(acc) => misses'.unaffordable = misses.unaffordable
      <4>1. PICK m \in Nat : m = misses.unaffordable
        BY <1>5
      <4>2. misses'.unaffordable = m + (IF ~ Gated(acc) /\ found /\ lots = 0 THEN 1 ELSE 0)
        BY <1>14, <4>1
      <4>3. ~ f.labelled \/ Gated(acc) => ~ (~ Gated(acc) /\ found /\ lots = 0)
        BY <1>6
      <4> QED
        BY <4>1, <4>2, <4>3
    <3>3. ~ enters => trades' = trades /\ pending' = StillPending(at)
      BY <1>13
    <3> QED
      BY <3>1, <3>2, <3>3
  <2>2. f.labelled /\ ~ Gated(acc) /\ lots = 0 =>
          trades' = trades /\ pending' = StillPending(at) /\ misses'.unaffordable = misses.unaffordable + 1
    BY <1>6, <1>12, <1>13, <1>14
  <2>3. f.labelled /\ ~ Gated(acc) /\ lots # 0 =>
          /\ trades' = Append(trades, [index |-> Len(firings) + 1, of |-> f, lots |-> lots])
          /\ [index |-> Len(firings) + 1, of |-> f, lots |-> lots] \in StrategyTrade
          /\ pending' = StillPending(at) \cup {Len(trades) + 1} /\ misses'.unaffordable = misses.unaffordable
    <3>1. f.labelled /\ ~ Gated(acc) /\ lots # 0 => enters /\ t \in StrategyTrade
      BY <1>6, <1>11, <1>12
    <3>2. lots # 0 => misses'.unaffordable = misses.unaffordable
      <4>1. PICK m \in Nat : m = misses.unaffordable
        BY <1>5
      <4>2. misses'.unaffordable = m + (IF ~ Gated(acc) /\ found /\ lots = 0 THEN 1 ELSE 0)
        BY <1>14, <4>1
      <4> QED
        BY <4>1, <4>2
    <3>3. enters => trades' = Append(trades, t) /\ pending' = StillPending(at) \cup {Len(trades) + 1}
      BY <1>13
    <3> QED
      BY <1>10, <3>1, <3>2, <3>3
  <2>4. lots = LotsFor(IF compound THEN acc.equity ELSE Capital, f.unit) /\ account' = acc
    BY <1>4, <1>6, <1>13
  <2> QED
    BY <1>1, <1>2, <1>4, <1>6, <1>7, <1>13, <1>19, <2>1, <2>2, <2>3, <2>4, FireFollows
<1> QED
  BY <1>19, <1>20, <1>21, <1>22, <1>23, <1>24, <1>25 DEF WalkInv

-----------------------------------------------------------------------------
(* The end of a session: whatever has happened is of this day or an earlier *)
(* one, so nothing is open and every event has been replayed.               *)
LEMMA IsOfTheDay ==
  ASSUME NEW t \in Nat, NEW x \in Nat, NEW y \in Nat, y <= t, DayOf(x) = DayOf(y)
  PROVE  DayOf(x) <= DayOf(t) /\ x < (DayOf(t) + 1) * DayLength /\ x <= t + DayLength
<1>1. PICK b \in Nat, d \in Nat, e \in Nat : b = DayLength /\ d = DayOf(t) /\ e = DayOf(x) /\ e <= d /\ x < (e + 1) * b
  BY DayIs, DaysGrow, LabAssumed
<1>2. (e + 1) * b <= (d + 1) * b /\ (e + 1) * b \in Nat /\ (d + 1) * b \in Nat
  <2>1. e + 1 <= d + 1
    BY <1>1
  <2> QED
    BY <1>1, <2>1, ProductsGrow
<1>3. x < (d + 1) * b
  BY <1>1, <1>2
<1>4. (d + 1) * b <= t + b
  BY <1>1, NextDayIs
<1> QED
  BY <1>1, <1>2, <1>3, <1>4

LEMMA TradesAreOfTheDay ==
  ASSUME LabTypes, FiringsAreOver, TradesAreFirings
  PROVE  \A i \in DOMAIN trades : /\ EndOf(trades[i]) \in Nat /\ DayOf(EndOf(trades[i])) <= DayOf(at)
                                  /\ EndOf(trades[i]) < (DayOf(at) + 1) * DayLength /\ EndOf(trades[i]) <= at + DayLength
<1> SUFFICES ASSUME NEW i \in DOMAIN trades
             PROVE  /\ EndOf(trades[i]) \in Nat /\ DayOf(EndOf(trades[i])) <= DayOf(at)
                    /\ EndOf(trades[i]) < (DayOf(at) + 1) * DayLength /\ EndOf(trades[i]) <= at + DayLength
  OBVIOUS
<1>1. PICK x \in Nat, y \in Nat, t \in Nat : x = EndOf(trades[i]) /\ y = trades[i].of.enters /\ t = at /\ y < t /\ DayOf(x) = DayOf(y)
  BY TradesWereEntered, TradeEnds DEF LabTypes
<1>2. DayOf(x) <= DayOf(t) /\ x < (DayOf(t) + 1) * DayLength /\ x <= t + DayLength
  BY <1>1, IsOfTheDay
<1> QED
  BY <1>1, <1>2

LEMMA SessionFollows ==
  ASSUME LabTypes, FiringsAreOver, TradesAreFirings, AccountIsOfTheEnded, ReplayFollows, Apart
  PROVE  /\ IsAt(ReplayOf(Events, compound), DayOf(at), Settled(at + DayLength), {}, Len(trades), misses.unaffordable)
         /\ \A e \in Events : e.ts < (DayOf(at) + 1) * DayLength
<1>1. at \in Nat /\ firings \in Seq(LabFiring) /\ DayOf(at) \in Nat
  BY DayIs DEF LabTypes
<1>2. /\ \A e \in Events : EventIs(e) /\ e.ts \in Nat
      /\ \A i \in DOMAIN firings : firings[i].labelled => Exit(firings, i) \in Events
  BY <1>1, EventsAre DEF LabEvents
<1>3. ASSUME NEW e \in Events
      PROVE  /\ DayOf(e.ts) <= DayOf(at) /\ e.ts < (DayOf(at) + 1) * DayLength
             /\ e.ts >= at => e.kind = 1 /\ DayOf(e.ts) = DayOf(at)
  <2>1. PICK f \in LabFiring : f = firings[e.index] /\ e.of = f /\ FiringIsOver(f, at)
    BY <1>1, <1>2 DEF EventIs, FiringsAreOver
  <2>2. f.enters \in Nat /\ f.enters < at /\ DayOf(f.ends) = DayOf(f.enters)
    BY <2>1 DEF FiringIsOver, LabFiring
  <2>3. DayOf(e.ts) = DayOf(f.enters) /\ (e.kind # 1 => e.ts = f.enters)
    BY <1>2, <2>1, <2>2 DEF EventIs
  <2>4. PICK x \in Nat, y \in Nat, t \in Nat : x = e.ts /\ y = f.enters /\ t = at
    BY <1>1, <1>2, <2>2
  <2>5. DayOf(x) <= DayOf(t) /\ x < (DayOf(t) + 1) * DayLength
    BY <2>2, <2>3, <2>4, IsOfTheDay
  <2>6. x >= t => DayOf(x) = DayOf(t)
    <3>1. x >= t => DayOf(t) <= DayOf(x)
      BY DaysGrow
    <3>2. DayOf(x) \in Nat /\ DayOf(t) \in Nat
      BY DayIs
    <3> QED
      BY <2>5, <3>1, <3>2
  <2>7. e.ts >= at => e.kind = 1
    BY <1>1, <1>2, <2>2, <2>3
  <2> QED
    BY <2>4, <2>5, <2>6, <2>7
<1>4. Events = EventsBefore(at) \cup ExitsToCome
  BY <1>1, <1>2, <1>3 DEF EventsBefore, ExitsToCome
<1>5. pending = {i \in DOMAIN trades : EndOf(trades[i]) >= at} /\ \A i \in DOMAIN trades : EndOf(trades[i]) \in Nat
  BY TradeEnds DEF AccountIsOfTheEnded, LabTypes
<1>6. DueWith(ExitsToCome) = pending
  <2>1. ASSUME NEW i \in pending PROVE i \in DueWith(ExitsToCome)
    <3>1. EndOf(trades[i]) >= at /\ i \in DOMAIN trades
      BY <1>5
    <3>2. PICK k \in DOMAIN firings : k = trades[i].index /\ trades[i].of = firings[k] /\ firings[k].labelled
      BY <3>1 DEF TradesAreFirings
    <3>3. PICK e \in Events : e = Exit(firings, k)
      BY <1>2, <3>2
    <3>4. e.kind = 1 /\ e.ts = EndOf(trades[i]) /\ e.index = k
      BY <3>2, <3>3 DEF Exit, EndOf
    <3>5. e \in ExitsToCome
      BY <1>3, <3>1, <3>4 DEF ExitsToCome
    <3> QED
      BY <3>2, <3>4, <3>5 DEF DueWith
  <2> QED
    BY <2>1 DEF DueWith
<1>7. DueBy(at + DayLength) = pending
  BY <1>5, TradesAreOfTheDay DEF DueBy
<1>8. IsAt(ReplayOf(EventsBefore(at), compound), DayOf(at), account, TradesOf(trades, pending), Len(trades), misses.unaffordable)
  BY DEF ReplayFollows
<1>9. PICK taken, unaffordable : taken = Len(trades) /\ unaffordable = misses.unaffordable
  OBVIOUS
<1>10. pending \subseteq DOMAIN trades
  BY <1>5
<1>11. IsAt(ReplayOf(EventsBefore(at) \cup ExitsToCome, compound), DayOf(at), Settles(DueWith(ExitsToCome)),
            TradesOf(trades, pending \ DueWith(ExitsToCome)), taken, unaffordable)
  BY <1>8, <1>9, <1>10, ExitsFollow
<1>12. TradesOf(trades, pending \ DueWith(ExitsToCome)) = {}
  BY <1>6 DEF TradesOf
<1>13. Settled(at + DayLength) = Settles(DueWith(ExitsToCome))
  BY <1>6, <1>7, SettledIs
<1> QED
  BY <1>3, <1>4, <1>9, <1>11, <1>12, <1>13

(* A new session begins the book of the replay anew as it does the account. *)
LEMMA SessionBegins ==
  ASSUME NEW r \in ReplayStates, NEW day \in Nat, NEW acc, NEW held, NEW taken, NEW unaffordable,
         IsAt(r, day, acc, held, taken, unaffordable)
  PROVE  IsAt(r, day + 1, NewSession(acc), held, taken, unaffordable)
<1>1. r.day \in Nat /\ r.day <= day /\ BookOn(r, day) = acc
  BY DEF ReplayStates, IsAt
<1>2. r.day # day + 1 /\ r.day <= day + 1
  BY <1>1
<1>3. NewSession(BookOn(r, day)) = NewSession(r.book)
  BY BookIsSound
<1>4. BookOn(r, day + 1) = NewSession(acc)
  BY <1>1, <1>2, <1>3 DEF BookOn
<1> QED
  BY <1>2, <1>4 DEF IsAt

(* The day that ends is one more of those under the account.                *)
LEMMA DayIsCounted ==
  ASSUME LabTypes, FiringsAreOver, TradesAreFirings, AccountIsOfTheEnded, DaysStay, NEW acc, acc = Settled(at + DayLength)
  PROVE  /\ acc \in SoundAccounts /\ StillPending(at + DayLength) = {}
         /\ acc.equity = Capital + SumOf(trades, DOMAIN trades)
         /\ DaysStayBelow(trades, acc, DayOf(at) + 1)
<1>1. PICK t \in Nat, day \in Nat, upto \in Nat : t = at /\ day = DayOf(at) /\ upto = at + DayLength /\ upto >= at
  <2>1. at \in Nat /\ DayOf(at) \in Nat
    BY DayIs DEF LabTypes
  <2>2. at + DayLength \in Nat /\ at + DayLength >= at
    BY <2>1, LabAssumed
  <2> QED
    BY <2>1, <2>2
<1>2. \A i \in DOMAIN trades : /\ EndOf(trades[i]) \in Nat /\ DayOf(EndOf(trades[i])) <= day
                               /\ EndOf(trades[i]) <= upto /\ ~ (EndOf(trades[i]) >= upto + 1) /\ EndOf(trades[i]) < upto + 1
  BY <1>1, TradesAreOfTheDay
<1>3. /\ acc \in SoundAccounts /\ acc.peak >= account.peak /\ (~ acc.dropped => ~ account.dropped)
      /\ acc.equity = Capital + SumOf(trades, EndedBefore(trades, upto + 1))
      /\ StillPending(upto) = {i \in DOMAIN trades : EndOf(trades[i]) >= upto + 1}
  BY <1>1, SettledCounts
<1>4. EndedBefore(trades, upto + 1) = DOMAIN trades
  BY <1>2 DEF EndedBefore
<1>5. StillPending(upto) = {}
  BY <1>2, <1>3
<1>6. {i \in DOMAIN trades : DayOf(EndOf(trades[i])) <= day} = DOMAIN trades
  BY <1>2
<1>7. MadeThrough(trades, day) = SumOf(trades, DOMAIN trades) /\ SumOf(trades, DOMAIN trades) \in Int
  BY <1>6, SumOfType DEF MadeThrough, LabTypes
<1>8. Grown(trades)
  BY DEF Grown
<1>9. /\ DaysStayBelow(trades, acc, day)
      /\ \A d \in Nat : d < day => MadeThrough(trades, d) \in Int
  <2>1. PICK us : us = trades
    OBVIOUS
  <2>2. Grown(us)
    BY <1>8, <2>1
  <2>3. DaysStayBelow(us, acc, DayOf(at)) /\ \A d \in Nat : d < DayOf(at) => MadeThrough(us, d) \in Int
    BY <1>3, <2>2, DaysCarry
  <2> QED
    BY <1>1, <2>1, <2>3
<1>10. PICK equity \in Int, peak \in Int : equity = acc.equity /\ peak = acc.peak /\ equity <= peak
         /\ (~ acc.dropped => 100 * (peak - equity) < DropPct * peak)
  BY <1>3 DEF SoundAccounts, Accounts
<1>11. PICK last \in Int : last = MadeThrough(trades, day) /\ equity = Capital + last
  BY <1>3, <1>4, <1>7, <1>10
<1>12. \A c \in 0 .. day : MadeThrough(trades, c) \in Int /\ Capital + MadeThrough(trades, c) <= peak
  <2> TAKE c \in 0 .. day
  <2>1. CASE c = day
    BY <1>10, <1>11, <2>1
  <2>2. CASE c # day
    <3>1. c \in Nat /\ c < day
      BY <1>1, <2>2
    <3> QED
      BY <1>9, <1>10, <3>1 DEF DaysStayBelow
  <2> QED
    BY <2>1, <2>2
<1>13. DropPct * peak \in Int
  BY <1>10, LabAssumed
<1>14. ASSUME NEW d \in Nat, d < day + 1
       PROVE  /\ Capital + MadeThrough(trades, d) <= acc.peak
              /\ \A c \in 0 .. d : ~ acc.dropped => 100 * (MadeThrough(trades, c) - MadeThrough(trades, d)) < DropPct * acc.peak
  <2>1. CASE d < day
    BY <1>9, <2>1 DEF DaysStayBelow
  <2>2. CASE d = day
    <3>1. ASSUME NEW c \in 0 .. d, ~ acc.dropped
          PROVE  100 * (MadeThrough(trades, c) - MadeThrough(trades, d)) < DropPct * acc.peak
      <4>1. PICK made \in Int : made = MadeThrough(trades, c) /\ Capital + made <= peak
        BY <1>12, <2>2, <3>1
      <4>2. 100 * (peak - equity) < DropPct * peak
        BY <1>10, <3>1
      <4>3. made - last <= peak - equity
        BY <1>11, <4>1, LabAssumed
      <4> QED
        BY <1>10, <1>11, <1>13, <2>2, <4>1, <4>2, <4>3
    <3> QED
      BY <1>10, <1>11, <2>2, <3>1
  <2> QED
    BY <1>14, <2>1, <2>2
<1>15. DaysStayBelow(trades, acc, day + 1)
  BY <1>14 DEF DaysStayBelow
<1> QED
  BY <1>1, <1>3, <1>4, <1>5, <1>15

LEMMA EndSessionKeeps ==
  ASSUME WalkInv, EndSession
  PROVE  WalkInv'
<1>1. /\ LabTypes /\ FiringsAreOver /\ TradesAreFirings /\ AccountIsOfTheEnded /\ entered <= FiredToday
      /\ NoMoneyFromTheFuture /\ DaysStay /\ ReplayFollows
  BY DEF WalkInv
<1>2. /\ account' = NewSession(Settled(at + DayLength)) /\ pending' = {} /\ entered' = 0 /\ at' = (DayOf(at) + 1) * DayLength
      /\ compound' = compound /\ firings' = firings /\ trades' = trades /\ misses' = misses
  BY DEF EndSession
<1>3. PICK t \in Nat, day \in Nat, u \in Nat :
        t = at /\ day = DayOf(at) /\ u = at' /\ DayOf(u) = day + 1 /\ u % DayLength = 0 /\ t < u /\ u >= DayLength
  <2>1. at \in Nat /\ at >= DayLength
    BY <1>1 DEF LabTypes
  <2>2. PICK u \in Nat : u = (DayOf(at) + 1) * DayLength /\ DayOf(u) = DayOf(at) + 1 /\ u % DayLength = 0 /\ at < u
    BY <2>1, NextDayIs
  <2>3. u >= DayLength
    BY <2>1, <2>2, LabAssumed
  <2> QED
    BY <1>2, <2>1, <2>2, <2>3, DayIs
<1>4. PICK acc \in SoundAccounts :
        /\ acc = Settled(at + DayLength) /\ acc.equity = Capital + SumOf(trades, DOMAIN trades)
        /\ DaysStayBelow(trades, acc, day + 1)
  BY <1>1, <1>3, DayIsCounted
<1>5. PICK new \in SoundAccounts : /\ new = NewSession(acc) /\ new = account' /\ new.equity = acc.equity /\ new.peak = acc.peak
                                   /\ new.dropped = acc.dropped
  BY <1>2, <1>4, SessionIsSound
<1>6. \A i \in DOMAIN trades : EndOf(trades[i]) \in Nat /\ EndOf(trades[i]) < u
  BY <1>1, <1>2, <1>3, TradesAreOfTheDay
<1>7. LabTypes'
  <2>1. u % DayLength <= LastEntry /\ 0 \in 0 .. MaxEntries
    <3>1. 0 <= LastEntry /\ 0 \in 0 .. MaxEntries
      BY LabAssumed
    <3> QED
      BY <1>3, <3>1
  <2> QED
    BY <1>1, <1>2, <1>3, <1>5, <2>1 DEF LabTypes
<1>8. FiringsAreOver'
  <2>1. \A i \in DOMAIN firings : firings[i].enters \in Nat
    <3>1. \A f \in LabFiring : f.enters \in Nat
      BY DEF LabFiring
    <3> QED
      BY <1>1, <3>1 DEF LabTypes
  <2>2. \A i \in DOMAIN firings : FiringIsOver(firings[i], u)
    BY <1>1, <1>3, <2>1 DEF FiringsAreOver, FiringIsOver
  <2> QED
    BY <1>2, <1>3, <2>2 DEF FiringsAreOver, FiringIsOver, DayOf
<1>9. TradesAreFirings'
  BY <1>1, <1>2 DEF TradesAreFirings
<1>10. AccountIsOfTheEnded'
  <2>1. EndedBefore(trades, u) = DOMAIN trades /\ {i \in DOMAIN trades : EndOf(trades[i]) >= u} = {}
    BY <1>3, <1>6 DEF EndedBefore
  <2>2. pending' = {i \in DOMAIN trades : EndOf(trades[i]) >= u} /\ account'.equity = Capital + SumOf(trades, EndedBefore(trades, u))
    BY <1>2, <1>4, <1>5, <2>1
  <2> QED
    BY <1>2, <1>3, <2>2 DEF AccountIsOfTheEnded, EndOf, EndedBefore
<1>11. (entered <= FiredToday)'
  <2>1. firings' \in Seq(LabFiring)
    BY <1>1, <1>2 DEF LabTypes
  <2>2. IsFiniteSet(DOMAIN firings')
    <3>1. DOMAIN firings' = 1 .. Len(firings') /\ Len(firings') \in Nat
      BY <2>1
    <3> QED
      BY <3>1, FS_Interval
  <2>3. PICK S, T : S = DOMAIN firings' /\ T = {i \in DOMAIN firings' : DayOf(firings'[i].enters) = DayOf(at')} /\ IsFiniteSet(T)
    BY <2>2, FS_Subset
  <2>4. Cardinality(T) \in Nat
    BY <2>3, FS_CardinalityType
  <2>5. FiredToday' = Cardinality(T)
    BY <2>3 DEF FiredToday, DayOf
  <2> QED
    BY <1>2, <2>4, <2>5
<1>12. NoMoneyFromTheFuture'
  BY <1>1, <1>2 DEF NoMoneyFromTheFuture, Made, NetOfTrade, EndOf
<1>13. DaysStay'
  <2>1. DaysStayBelow(trades, new, day + 1)
    BY <1>4, <1>5 DEF DaysStayBelow
  <2> QED
    BY <1>2, <1>3, <1>5, <2>1 DEF DaysStay
<1>14. ReplayFollows'
  <2>1. Events' = Events /\ Apart' = Apart
    BY <1>2 DEF Events, Apart
  <2>2. SUFFICES ASSUME Apart
                 PROVE  IsAt(ReplayOf(EventsBefore(at), compound), DayOf(at), account, TradesOf(trades, pending), Len(trades),
                             misses.unaffordable)'
    BY <2>1 DEF ReplayFollows
  <2>3. /\ IsAt(ReplayOf(Events, compound), DayOf(at), Settled(at + DayLength), {}, Len(trades), misses.unaffordable)
        /\ \A e \in Events : e.ts < u
    BY <1>1, <1>2, <1>3, <2>2, SessionFollows
  <2>4. EventsBefore(at)' = Events
    BY <1>3, <2>1, <2>3 DEF EventsBefore
  <2>5. PICK r \in ReplayStates : r = ReplayOf(Events, compound)
    BY <1>1, EventsAre, ReplayIs DEF LabTypes
  <2>6. PICK held, taken, unaffordable : held = {} /\ taken = Len(trades) /\ unaffordable = misses.unaffordable
    OBVIOUS
  <2>7. IsAt(r, day, acc, held, taken, unaffordable)
    BY <1>3, <1>4, <2>3, <2>5, <2>6
  <2>8. IsAt(r, day + 1, new, held, taken, unaffordable)
    BY <1>5, <2>7, SessionBegins
  <2>9. DayOf(at)' = day + 1 /\ TradesOf(trades, pending)' = held /\ Len(trades)' = taken /\ misses'.unaffordable = unaffordable
    <3>1. DayOf(at)' = DayOf(at')
      BY DEF DayOf
    <3> QED
      BY <1>2, <1>3, <2>6, <3>1 DEF TradesOf
  <2>10. ReplayOf(EventsBefore(at), compound)' = r
    <3>1. ReplayOf(EventsBefore(at), compound)' = ReplayOf(EventsBefore(at)', compound')
      BY DEF ReplayOf
    <3> QED
      BY <1>2, <2>4, <2>5, <3>1
  <2> QED
    BY <1>5, <2>8, <2>9, <2>10 DEF IsAt
<1> QED
  BY <1>7, <1>8, <1>9, <1>10, <1>11, <1>12, <1>13, <1>14 DEF WalkInv

-----------------------------------------------------------------------------
(* The ledger of the trials.                                                *)
LEMMA WalkRests ==
  ASSUME WalkInv, UNCHANGED walkVars
  PROVE  WalkInv'
<1>1. /\ at' = at /\ compound' = compound /\ firings' = firings /\ entered' = entered /\ trades' = trades
      /\ pending' = pending /\ account' = account /\ misses' = misses
  BY DEF walkVars
<1>2. /\ LabTypes /\ FiringsAreOver /\ TradesAreFirings /\ AccountIsOfTheEnded /\ entered <= FiredToday
      /\ NoMoneyFromTheFuture /\ DaysStay /\ ReplayFollows
  BY DEF WalkInv
<1>3. LabTypes' /\ FiringsAreOver' /\ TradesAreFirings'
  BY <1>1, <1>2 DEF LabTypes, FiringsAreOver, TradesAreFirings
<1>4. AccountIsOfTheEnded'
  BY <1>1, <1>2 DEF AccountIsOfTheEnded
<1>5. (entered <= FiredToday)'
  BY <1>1, <1>2 DEF FiredToday
<1>6. NoMoneyFromTheFuture'
  BY <1>1, <1>2 DEF NoMoneyFromTheFuture, Made
<1>7. DaysStay'
  BY <1>1, <1>2 DEF DaysStay
<1>8. ReplayFollows'
  <2>1. Events' = Events
    BY <1>1 DEF Events
  <2>2. Apart' = Apart /\ EventsBefore(at)' = EventsBefore(at)
    BY <1>1, <2>1 DEF Apart, EventsBefore
  <2>3. ReplayOf(EventsBefore(at), compound)' = ReplayOf(EventsBefore(at), compound)
    <3>1. ReplayOf(EventsBefore(at), compound)' = ReplayOf(EventsBefore(at)', compound')
      BY DEF ReplayOf
    <3> QED
      BY <1>1, <2>2, <3>1
  <2>4. TradesOf(trades, pending)' = TradesOf(trades, pending) /\ DayOf(at)' = DayOf(at)
    BY <1>1 DEF TradesOf, DayOf
  <2> QED
    BY <1>1, <1>2, <2>2, <2>3, <2>4 DEF ReplayFollows
<1> QED
  BY <1>3, <1>4, <1>5, <1>6, <1>7, <1>8 DEF WalkInv

Batch(recorded, batch, bar, from) == [recorded |-> recorded, batch |-> batch, bar |-> bar, from |-> from]
BarsAgree(batch, bar, from) ==
  \A m, n \in batch : /\ bar[m].n = bar[n].n /\ bar[m].mean = bar[n].mean
                      /\ bar[m].n >= from + Cardinality(batch)

LEMMA LedgerIs ==
  BatchIsInTheLedger <=>
    /\ trials \in Seq(Int) /\ scored = Batch(scored.recorded, scored.batch, scored.bar, scored.from)
    /\ scored.recorded \subseteq Members /\ scored.batch \subseteq scored.recorded /\ scored.from \in Nat
    /\ scored.from + Cardinality(scored.recorded) <= Len(trials)
    /\ BarsAgree(scored.batch, scored.bar, scored.from)
<1>1. JudgedAlike <=> BarsAgree(scored.batch, scored.bar, scored.from)
  BY DEF JudgedAlike, BarsAgree
<1> QED
  BY <1>1 DEF BatchIsInTheLedger, Batch

(* What a batch must be for the ledger to hold it.                          *)
LEMMA LedgerHolds ==
  ASSUME NEW ts \in Seq(Int), ts = trials', NEW recorded, NEW batch, NEW bar, NEW from \in Nat, NEW b, b = scored',
         b = Batch(recorded, batch, bar, from), recorded \subseteq Members, batch \subseteq recorded,
         from + Cardinality(recorded) <= Len(ts), BarsAgree(batch, bar, from)
  PROVE  BatchIsInTheLedger'
<1>1. b.recorded = recorded /\ b.batch = batch /\ b.bar = bar /\ b.from = from
  BY DEF Batch
<1>2. scored' = b /\ trials' = ts
  OBVIOUS
<1>3. b = [recorded |-> b.recorded, batch |-> b.batch, bar |-> b.bar, from |-> b.from]
  BY <1>1 DEF Batch
<1>4. JudgedAlike'
  BY <1>1, <1>2 DEF JudgedAlike, BarsAgree
<1>5. b.from + Cardinality(b.recorded) <= Len(ts)
  BY <1>1
<1> QED
  BY <1>1, <1>2, <1>3, <1>4, <1>5 DEF BatchIsInTheLedger, Members

LEMMA LedgerHeld ==
  ASSUME BatchIsInTheLedger
  PROVE  \E recorded, batch, bar, from :
           /\ scored = Batch(recorded, batch, bar, from) /\ recorded \subseteq Members /\ batch \subseteq recorded
           /\ from \in Nat /\ from + Cardinality(recorded) <= Len(trials) /\ BarsAgree(batch, bar, from)
           /\ trials \in Seq(Int) /\ IsFiniteSet(recorded) /\ Cardinality(recorded) \in Nat
           /\ scored.recorded = recorded /\ scored.batch = batch /\ scored.bar = bar /\ scored.from = from
<1>1. IsFiniteSet(Members)
  <2>1. IsFiniteSet({"walked"}) /\ IsFiniteSet({"other"})
    BY FS_Singleton
  <2>2. Members = {"walked"} \cup {"other"}
    BY DEF Members
  <2> QED
    BY <2>1, <2>2, FS_Union
<1>2. scored.recorded \subseteq Members
  BY LedgerIs
<1>3. IsFiniteSet(scored.recorded) /\ Cardinality(scored.recorded) \in Nat
  BY <1>1, <1>2, FS_Subset, FS_CardinalityType
<1> QED
  BY <1>2, <1>3, LedgerIs

LEMMA SharpesAre ==
  ASSUME NEW m \in Members, NEW sharpe \in SharpesOf(m)
  PROVE  sharpe \in Int
<1>1. PICK mean : SharpesOf(m) = IF m = "other" THEN Sharpes ELSE {IF mean > 0 THEN 1 ELSE IF mean < 0 THEN 0 - 1 ELSE 0}
  BY DEF SharpesOf
<1>2. CASE m = "other"
  BY <1>1, <1>2, LabAssumed
<1>3. CASE m # "other"
  BY <1>1, <1>3
<1> QED
  BY <1>2, <1>3

LEMMA RecordTrialKeeps ==
  ASSUME BatchIsInTheLedger, RecordTrial
  PROVE  BatchIsInTheLedger'
<1>1. PICK recorded, batch, bar, from :
        /\ scored = Batch(recorded, batch, bar, from) /\ recorded \subseteq Members /\ batch \subseteq recorded
        /\ from \in Nat /\ from + Cardinality(recorded) <= Len(trials) /\ BarsAgree(batch, bar, from)
        /\ trials \in Seq(Int) /\ IsFiniteSet(recorded) /\ Cardinality(recorded) \in Nat /\ scored.recorded = recorded
  BY LedgerHeld
<1>2. PICK m \in Members : /\ m \notin recorded /\ \E sharpe \in SharpesOf(m) : trials' = Append(trials, sharpe)
                           /\ scored' = IF recorded = {} THEN [Recorded(m) EXCEPT !.from = Len(trials)] ELSE Recorded(m)
  BY <1>1 DEF RecordTrial
<1>3. PICK more : more = recorded \cup {m} /\ more \subseteq Members /\ Cardinality(more) = Cardinality(recorded) + 1
  <2>1. Cardinality(recorded \cup {m}) = Cardinality(recorded) + 1
    BY <1>1, <1>2, FS_AddElement
  <2>2. recorded \cup {m} \subseteq Members
    BY <1>1, <1>2
  <2> QED
    BY <2>1, <2>2
<1>4. PICK ts \in Seq(Int) : ts = trials /\ Len(ts) \in Nat
  BY <1>1
<1>5. PICK us \in Seq(Int) : us = trials' /\ Len(us) = Len(ts) + 1
  <2>1. PICK sharpe \in Int : trials' = Append(ts, sharpe)
    BY <1>2, <1>4, SharpesAre
  <2> QED
    BY <1>4, <2>1, AppendIs
<1>6. Recorded(m) = Batch(more, batch, bar, from)
  <2>1. PICK b : b = [scored EXCEPT !.recorded = more]
    OBVIOUS
  <2>2. b = Batch(more, batch, bar, from)
    BY <1>1, <2>1 DEF Batch
  <2>3. Recorded(m) = b
    BY <1>1, <1>3, <2>1, Zenon DEF Recorded
  <2> QED
    BY <2>2, <2>3
<1>7. CASE recorded = {}
  <2>1. scored' = Batch(more, batch, bar, Len(ts))
    BY <1>2, <1>4, <1>6, <1>7 DEF Batch
  <2>2. batch = {} /\ Cardinality(recorded) = 0
    BY <1>1, <1>7, FS_EmptySet
  <2>3. BarsAgree(batch, bar, Len(ts))
    BY <2>2 DEF BarsAgree
  <2>4. Len(ts) + Cardinality(more) <= Len(us)
    BY <1>3, <1>4, <1>5, <2>2
  <2>5. PICK n \in Nat : n = Len(ts)
    BY <1>4
  <2> QED
    BY <1>3, <1>5, <2>1, <2>2, <2>3, <2>4, <2>5, LedgerHolds
<1>8. CASE recorded # {}
  <2>1. scored' = Batch(more, batch, bar, from)
    BY <1>2, <1>6, <1>8
  <2>2. batch \subseteq more
    BY <1>1, <1>3
  <2>3. from + Cardinality(more) <= Len(us)
    BY <1>1, <1>3, <1>4, <1>5
  <2> QED
    BY <1>1, <1>3, <1>5, <2>1, <2>2, <2>3, LedgerHolds
<1> QED
  BY <1>7, <1>8

(* The bar is for as many trials as there are, and two at least.            *)
LEMMA BarIs ==
  ASSUME trials \in Seq(Int), NEW observations
  PROVE  /\ Deflated(observations, Population).n \in Nat /\ Deflated(observations, Population).n >= Len(trials)
         /\ \A others : /\ Deflated(others, Population).n = Deflated(observations, Population).n
                        /\ Deflated(others, Population).mean = Deflated(observations, Population).mean
<1>1. PICK population : population = Population
  OBVIOUS
<1>2. Len(trials) \in Nat
  OBVIOUS
<1>3. population.n = IF Len(trials) < 2 THEN 1 ELSE Len(trials)
  BY <1>1 DEF Population
<1>4. \A some : /\ Deflated(some, population).n = IF population.n < 2 THEN 2 ELSE population.n
                /\ Deflated(some, population).mean = IF population.mean < 0 THEN 0 ELSE population.mean
  BY DEF Deflated
<1>5. PICK n : n = (IF population.n < 2 THEN 2 ELSE population.n) /\ n \in Nat /\ n >= Len(trials)
  BY <1>2, <1>3
<1>6. \A some : Deflated(some, population).n = n /\ Deflated(some, population).mean = IF population.mean < 0 THEN 0 ELSE population.mean
  BY <1>4, <1>5
<1> QED
  BY <1>1, <1>5, <1>6

LEMMA ScoreBatchKeeps ==
  ASSUME BatchIsInTheLedger, ScoreBatch
  PROVE  BatchIsInTheLedger'
<1>1. PICK recorded, batch, bar, from :
        /\ scored = Batch(recorded, batch, bar, from) /\ recorded \subseteq Members /\ batch \subseteq recorded
        /\ from \in Nat /\ from + Cardinality(recorded) <= Len(trials)
        /\ trials \in Seq(Int) /\ Cardinality(recorded) \in Nat /\ scored.recorded = recorded /\ scored.batch = batch
  BY LedgerHeld
<1>2. PICK bars : bars = [m \in Members |-> IF m \in recorded THEN Deflated(Sample(m), Population) ELSE Unjudged]
  OBVIOUS
<1>3. batch = {} /\ trials' = trials /\ scored' = [scored EXCEPT !.batch = @ \cup recorded, !.bar = bars]
  BY <1>1, <1>2 DEF ScoreBatch
<1>4. scored' = Batch(recorded, recorded, bars, from)
  <2>1. PICK b : b = [scored EXCEPT !.batch = @ \cup recorded]
    OBVIOUS
  <2>2. b = Batch(recorded, recorded, bar, from)
    BY <1>1, <1>3, <2>1 DEF Batch
  <2>3. [b EXCEPT !.bar = bars] = Batch(recorded, recorded, bars, from)
    BY <2>2 DEF Batch
  <2> QED
    BY <1>3, <2>1, <2>3, Zenon
<1>5. PICK ts \in Seq(Int) : ts = trials /\ ts = trials' /\ Len(ts) \in Nat
  BY <1>1, <1>3
<1>6. \A m \in recorded : bars[m] = Deflated(Sample(m), Population)
  BY <1>1, <1>2
<1>7. BarsAgree(recorded, bars, from)
  <2>1. SUFFICES ASSUME NEW m \in recorded, NEW n \in recorded
                 PROVE  bars[m].n = bars[n].n /\ bars[m].mean = bars[n].mean /\ bars[m].n >= from + Cardinality(recorded)
    BY DEF BarsAgree
  <2>2. PICK mine, others : mine = Sample(m) /\ others = Sample(n)
    OBVIOUS
  <2>3. /\ Deflated(mine, Population).n \in Nat /\ Deflated(mine, Population).n >= Len(trials)
        /\ Deflated(others, Population).n = Deflated(mine, Population).n
        /\ Deflated(others, Population).mean = Deflated(mine, Population).mean
    BY <1>1, BarIs
  <2>4. bars[m] = Deflated(mine, Population) /\ bars[n] = Deflated(others, Population)
    BY <1>6, <2>2
  <2>5. PICK c \in Nat, k \in Nat, x \in Nat : c = from + Cardinality(recorded) /\ k = Len(trials) /\ x = bars[m].n /\ x >= k /\ c <= k
    BY <1>1, <2>3, <2>4
  <2>6. x >= c
    BY <2>5
  <2> QED
    BY <2>3, <2>4, <2>5, <2>6
<1>8. from + Cardinality(recorded) <= Len(ts)
  BY <1>1, <1>5
<1> QED
  BY <1>1, <1>4, <1>5, <1>7, <1>8, LedgerHolds

LEMMA ForeignTrialKeeps ==
  ASSUME BatchIsInTheLedger, ForeignTrial
  PROVE  BatchIsInTheLedger'
<1>1. PICK recorded, batch, bar, from :
        /\ scored = Batch(recorded, batch, bar, from) /\ recorded \subseteq Members /\ batch \subseteq recorded
        /\ from \in Nat /\ from + Cardinality(recorded) <= Len(trials) /\ BarsAgree(batch, bar, from)
        /\ trials \in Seq(Int) /\ Cardinality(recorded) \in Nat
  BY LedgerHeld
<1>2. PICK ts \in Seq(Int) : ts = trials /\ Len(ts) \in Nat
  BY <1>1
<1>3. PICK sharpe \in Int : trials' = Append(ts, sharpe) /\ scored' = scored
  BY <1>2, LabAssumed DEF ForeignTrial
<1>4. PICK us \in Seq(Int) : us = trials' /\ Len(us) = Len(ts) + 1
  BY <1>3, AppendIs
<1>5. from + Cardinality(recorded) <= Len(us)
  BY <1>1, <1>2, <1>4
<1> QED
  BY <1>1, <1>3, <1>4, <1>5, LedgerHolds

LEMMA BatchRests ==
  ASSUME BatchIsInTheLedger, UNCHANGED <<trials, scored>>
  PROVE  BatchIsInTheLedger'
BY DEF BatchIsInTheLedger, JudgedAlike

LEMMA LabStep == LabInv /\ [LabNext]_labVars => LabInv'
<1> SUFFICES ASSUME LabInv, [LabNext]_labVars PROVE LabInv'
  OBVIOUS
<1>1. WalkInv /\ BatchIsInTheLedger
  BY DEF LabInv
<1>2. CASE Quiet
  <2>1. UNCHANGED <<trials, scored>>
    BY <1>2 DEF Quiet
  <2> QED
    BY <1>1, <1>2, <2>1, QuietKeeps, BatchRests DEF LabInv
<1>3. CASE Fire
  <2>1. UNCHANGED <<trials, scored>>
    BY <1>3 DEF Fire
  <2> QED
    BY <1>1, <1>3, <2>1, FireKeeps, BatchRests DEF LabInv
<1>4. CASE EndSession
  <2>1. UNCHANGED <<trials, scored>>
    BY <1>4 DEF EndSession
  <2> QED
    BY <1>1, <1>4, <2>1, EndSessionKeeps, BatchRests DEF LabInv
<1>5. CASE RecordTrial
  <2>1. UNCHANGED walkVars
    BY <1>5 DEF RecordTrial, walkVars
  <2> QED
    BY <1>1, <1>5, <2>1, WalkRests, RecordTrialKeeps DEF LabInv
<1>6. CASE ScoreBatch
  <2>1. UNCHANGED walkVars
    BY <1>6 DEF ScoreBatch, walkVars
  <2> QED
    BY <1>1, <1>6, <2>1, WalkRests, ScoreBatchKeeps DEF LabInv
<1>7. CASE ForeignTrial
  <2>1. UNCHANGED walkVars
    BY <1>7 DEF ForeignTrial, walkVars
  <2> QED
    BY <1>1, <1>7, <2>1, WalkRests, ForeignTrialKeeps DEF LabInv
<1>8. CASE UNCHANGED labVars
  <2>1. UNCHANGED walkVars /\ UNCHANGED <<trials, scored>>
    BY <1>8 DEF labVars, walkVars
  <2> QED
    BY <1>1, <2>1, WalkRests, BatchRests DEF LabInv
<1> QED
  BY <1>2, <1>3, <1>4, <1>5, <1>6, <1>7, <1>8 DEF LabNext

-----------------------------------------------------------------------------
(* After the last day the replay has met every event.                       *)
LEMMA ReplayEnds ==
  ASSUME WalkInv
  PROVE  ReplayAgrees
<1> SUFFICES ASSUME ~ Walking, Apart PROVE Sweep = BacktestResult
  BY DEF ReplayAgrees, Apart
<1>1. LabTypes /\ FiringsAreOver /\ ReplayFollows
  BY DEF WalkInv
<1>2. PICK t \in Nat, day \in Nat : t = at /\ day = DayOf(at) /\ day > LabDays
  <2>1. at \in Nat /\ DayOf(at) \in Nat
    BY <1>1, DayIs DEF LabTypes
  <2> QED
    BY <2>1, LabAssumed DEF Walking
<1>3. firings \in Seq(LabFiring) /\ compound \in BOOLEAN /\ account \in SoundAccounts
  BY <1>1 DEF LabTypes
<1>4. ASSUME NEW e \in Events PROVE e.ts < at
  <2>1. EventIs(e) /\ e.ts \in Nat
    BY <1>3, EventsAre DEF LabEvents
  <2>2. PICK f \in LabFiring : f = firings[e.index] /\ e.of = f /\ FiringIsOver(f, at)
    BY <1>1, <1>3, <2>1 DEF EventIs, FiringsAreOver
  <2>3. DayOf(e.ts) <= LabDays
    BY <2>1, <2>2 DEF EventIs, FiringIsOver
  <2>4. PICK x \in Nat : x = e.ts
    BY <2>1
  <2>5. t <= x => DayOf(t) <= DayOf(x)
    BY DaysGrow
  <2>6. DayOf(x) \in Nat
    BY DayIs
  <2>7. ~ (t <= x)
    BY <1>2, <2>3, <2>4, <2>5, <2>6, LabAssumed
  <2> QED
    BY <1>2, <2>4, <2>7
<1>5. EventsBefore(at) = Events
  BY <1>4 DEF EventsBefore
<1>6. PICK r \in ReplayStates : r = ReplayOf(Events, compound)
  BY <1>3, EventsAre, ReplayIs
<1>7. BookOn(r, day) = account /\ r.taken = Len(trades) /\ r.unaffordable = misses.unaffordable
  BY <1>1, <1>2, <1>5, <1>6 DEF ReplayFollows, IsAt
<1>8. /\ account.equity = r.book.equity /\ account.dropped = r.book.dropped
      /\ account.haltDays = r.book.haltDays /\ account.standDays = r.book.standDays
  BY <1>7, BookIsSound
<1> QED
  BY <1>6, <1>7, <1>8 DEF Sweep, SweepCell, BacktestResult

(* A chain of steps over the days.                                          *)
ChainOf(f, n, start, step) == f = [d \in 0 .. n |-> IF d = 0 THEN start ELSE step[<<f[d - 1], d>>]]
LEMMA ChainIsThere ==
  ASSUME NEW n \in Nat, NEW X, NEW start \in X, NEW step, \A x \in X, d \in 1 .. n : step[<<x, d>>] \in X
  PROVE  \E f \in [0 .. n -> X] : ChainOf(f, n, start, step)
<1> DEFINE part(f, j) == f = [d \in 0 .. j |-> IF d = 0 THEN start ELSE step[<<f[d - 1], d>>]]
           bad == {j \in 0 .. n : ~ \E f \in [0 .. j -> X] : part(f, j)}
<1>1. bad = {}
  <2> SUFFICES ASSUME bad # {} PROVE FALSE
    OBVIOUS
  <2>1. bad \in SUBSET Nat
    OBVIOUS
  <2> HIDE DEF bad
  <2>2. PICK j \in bad : \A i \in bad : j <= i
    BY <2>1, LeastElement
  <2>3. j \in 0 .. n /\ ~ \E f \in [0 .. j -> X] : part(f, j)
    BY DEF bad
  <2>4. CASE j = 0
    <3>1. [d \in 0 .. 0 |-> start] \in [0 .. 0 -> X] /\ part([d \in 0 .. 0 |-> start], 0)
      OBVIOUS
    <3> QED
      BY <2>3, <2>4, <3>1
  <2>5. CASE j # 0
    <3>1. j - 1 \in 0 .. n /\ j - 1 \notin bad /\ j \in 1 .. n /\ j - 1 \in 0 .. (j - 1)
      BY <2>2, <2>3, <2>5
    <3>2. PICK f \in [0 .. j - 1 -> X] : part(f, j - 1)
      BY <3>1 DEF bad
    <3>3. PICK x \in X : x = step[<<f[j - 1], j>>]
      BY <3>1, <3>2
    <3> DEFINE next == [d \in 0 .. j |-> IF d = j THEN x ELSE f[d]]
    <3>4. next \in [0 .. j -> X]
      BY <2>3, <2>5
    <3>5. \A d \in 0 .. j : next[d] = IF d = 0 THEN start ELSE step[<<next[d - 1], d>>]
      <4> TAKE d \in 0 .. j
      <4>1. CASE d = j
        <5>1. next[d - 1] = f[j - 1] /\ next[d] = x
          BY <2>3, <2>5, <4>1
        <5> QED
          BY <2>5, <3>3, <4>1, <5>1
      <4>2. CASE d # j /\ d # 0
        <5>1. d \in 0 .. (j - 1) /\ d - 1 \in 0 .. j /\ d - 1 # j
          BY <2>3, <4>2
        <5>2. next[d] = f[d] /\ next[d - 1] = f[d - 1]
          BY <4>2, <5>1
        <5>3. f[d] = step[<<f[d - 1], d>>]
          BY <3>2, <4>2, <5>1
        <5> QED
          BY <4>2, <5>2, <5>3
      <4>3. CASE d # j /\ d = 0
        BY <2>3, <3>1, <3>2, <4>3
      <4> QED
        BY <4>1, <4>2, <4>3
    <3>6. part(next, j)
      BY <3>4, <3>5
    <3> QED
      BY <2>3, <3>4, <3>6
  <2> QED
    BY <2>4, <2>5
<1>2. n \in 0 .. n
  OBVIOUS
<1>3. n \notin bad
  BY <1>1
<1> QED
  BY <1>2, <1>3 DEF ChainOf

(* The curve of the daily report.                                           *)
Points == [total : Int, top : Int, worst : Int]
OneMore(c, d) == IF d \in DOMAIN DailyNet THEN WorstFall(c, DailyNet[d]) ELSE c
CurveIs(curve) ==
  curve = [d \in 0 .. LabDays |-> IF d = 0 THEN [total |-> 0, top |-> 0, worst |-> 0]
                                  ELSE IF d \in DOMAIN DailyNet THEN WorstFall(curve[d - 1], DailyNet[d]) ELSE curve[d - 1]]
ThatCurve == CHOOSE curve : CurveIs(curve)

LEMMA WorstFallIs ==
  ASSUME NEW c \in Points, NEW net \in Int
  PROVE  /\ WorstFall(c, net) \in Points /\ WorstFall(c, net).total = c.total + net
         /\ WorstFall(c, net).top \in {c.top, c.total + net}
         /\ WorstFall(c, net).worst \in {c.worst, WorstFall(c, net).top - WorstFall(c, net).total}
<1>1. c.total \in Int /\ c.top \in Int /\ c.worst \in Int
  BY DEF Points
<1>2. PICK total \in Int : total = c.total + net
  BY <1>1
<1>3. PICK top \in Int : top = (IF total > c.top THEN total ELSE c.top) /\ top \in {c.top, total}
  BY <1>1, <1>2
<1>4. PICK worst \in Int : worst = (IF top - total > c.worst THEN top - total ELSE c.worst) /\ worst \in {c.worst, top - total}
  BY <1>1, <1>2, <1>3
<1>5. WorstFall(c, net) = [total |-> total, top |-> top, worst |-> worst]
  BY <1>2, <1>3, <1>4 DEF WorstFall
<1> QED
  BY <1>2, <1>3, <1>4, <1>5 DEF Points

LEMMA DayNetIs ==
  ASSUME trades \in Seq(StrategyTrade), NEW d
  PROVE  /\ d \in DOMAIN DailyNet => DailyNet[d] = SumOf(trades, ClosedIn(d)) /\ DailyNet[d] \in Int
         /\ d \notin DOMAIN DailyNet => ClosedIn(d) = {}
<1>1. \A S : Made(S) = SumOf(trades, S)
  BY DEF Made, SumOf
<1>2. DOMAIN DailyNet = {DayOf(EndOf(trades[i])) : i \in DOMAIN trades}
  BY DEF DailyNet
<1>3. d \in DOMAIN DailyNet => DailyNet[d] = Made(ClosedIn(d))
  BY DEF DailyNet
<1>4. d \notin DOMAIN DailyNet => ClosedIn(d) = {}
  BY <1>2 DEF ClosedIn
<1>5. SumOf(trades, ClosedIn(d)) \in Int
  BY SumOfType
<1> QED
  BY <1>1, <1>3, <1>4, <1>5

LEMMA CurveIsThere ==
  ASSUME trades \in Seq(StrategyTrade)
  PROVE  CurveIs(ThatCurve)
<1> DEFINE step == [p \in Points \X (1 .. LabDays) |-> OneMore(p[1], p[2])]
<1>1. \A x \in Points, d \in 1 .. LabDays : step[<<x, d>>] = OneMore(x, d) /\ OneMore(x, d) \in Points
  <2> TAKE x \in Points, d \in 1 .. LabDays
  <2>1. step[<<x, d>>] = OneMore(x, d)
    OBVIOUS
  <2>2. d \in DOMAIN DailyNet => DailyNet[d] \in Int
    BY DayNetIs
  <2>3. OneMore(x, d) \in Points
    BY <2>2, WorstFallIs DEF OneMore
  <2> QED
    BY <2>1, <2>3
<1> HIDE DEF step
<1>2. PICK start \in Points : start = [total |-> 0, top |-> 0, worst |-> 0]
  <2>1. [total |-> 0, top |-> 0, worst |-> 0] \in Points
    BY DEF Points
  <2> QED
    BY <2>1
<1>3. PICK f \in [0 .. LabDays -> Points] : f = [d \in 0 .. LabDays |-> IF d = 0 THEN start ELSE step[<<f[d - 1], d>>]]
  <2>1. \A x \in Points, d \in 1 .. LabDays : step[<<x, d>>] \in Points
    BY <1>1
  <2>2. LabDays \in Nat
    BY LabAssumed
  <2>3. PICK X, n, g : X = Points /\ n = LabDays /\ g = step
    OBVIOUS
  <2>4. n \in Nat /\ start \in X /\ \A x \in X, d \in 1 .. n : g[<<x, d>>] \in X
    BY <2>1, <2>2, <2>3
  <2>5. \E f \in [0 .. n -> X] : ChainOf(f, n, start, g)
    BY <2>4, ChainIsThere
  <2> QED
    BY <2>3, <2>5 DEF ChainOf
<1>4. \A d \in 0 .. LabDays : f[d] = IF d = 0 THEN start ELSE OneMore(f[d - 1], d)
  <2> TAKE d \in 0 .. LabDays
  <2>1. f[d] = IF d = 0 THEN start ELSE step[<<f[d - 1], d>>]
    BY <1>3
  <2>2. d # 0 => f[d - 1] \in Points /\ d \in 1 .. LabDays
    BY LabAssumed
  <2> QED
    BY <1>1, <2>1, <2>2
<1>5. f = [d \in 0 .. LabDays |-> IF d = 0 THEN start ELSE OneMore(f[d - 1], d)]
  BY <1>4
<1>6. CurveIs(f)
  BY <1>2, <1>5 DEF CurveIs, OneMore
<1> QED
  BY <1>6 DEF ThatCurve

(* The curve through a day: the total is what the trades made until then,   *)
(* the top what they made until some day before, and the fall is not as     *)
(* deep as the limit of an account that was not dropped.                    *)
PointIs(c, d) ==
  /\ c \in Points /\ c.total = MadeThrough(trades, d) /\ \E b \in 0 .. d : c.top = MadeThrough(trades, b)
  /\ ~ account.dropped => 100 * c.worst < DropPct * account.peak

LEMMA MadeGrows ==
  ASSUME LabTypes, FiringsAreOver, TradesAreFirings, NEW d \in Nat
  PROVE  /\ MadeThrough(trades, d) \in Int /\ MadeThrough(trades, 0) = 0
         /\ d # 0 => MadeThrough(trades, d) = MadeThrough(trades, d - 1) + SumOf(trades, ClosedIn(d))
<1>1. PICK ts \in Seq(StrategyTrade) : ts = trades
  BY DEF LabTypes
<1>2. DOMAIN ts = 1 .. Len(ts) /\ \A i \in DOMAIN ts : DayOf(EndOf(ts[i])) \in Nat /\ DayOf(EndOf(ts[i])) >= 1
  <2>1. \A i \in DOMAIN trades : EndOf(trades[i]) \in Nat
    BY TradeEnds DEF LabTypes
  <2> QED
    BY <1>1, <2>1, DayIs, TradesWereEntered
<1>3. MadeThrough(ts, d) \in Int
  BY SumOfType DEF MadeThrough
<1>4. MadeThrough(ts, 0) = 0
  <2>1. PICK S : S = {i \in DOMAIN ts : DayOf(EndOf(ts[i])) <= 0}
    OBVIOUS
  <2>2. \A k \in 1 .. Len(ts) : k \notin S
    BY <1>2, <2>1
  <2>3. SumOf(ts, S) = 0
    BY <2>2, SumOfNone
  <2> QED
    BY <2>1, <2>3 DEF MadeThrough
<1>5. ASSUME d # 0 PROVE MadeThrough(ts, d) = MadeThrough(ts, d - 1) + SumOf(ts, ClosedIn(d))
  <2>1. PICK S, T : S = {i \in DOMAIN ts : DayOf(EndOf(ts[i])) <= d - 1} /\ T = ClosedIn(d)
    OBVIOUS
  <2>2. T = {i \in DOMAIN ts : DayOf(EndOf(ts[i])) = d}
    BY <1>1, <2>1 DEF ClosedIn
  <2>3. \A k \in 1 .. Len(ts) : ~ (k \in S /\ k \in T)
    BY <1>2, <2>1, <2>2
  <2>4. S \cup T = {i \in DOMAIN ts : DayOf(EndOf(ts[i])) <= d}
    BY <1>2, <1>5, <2>1, <2>2
  <2>5. SumOf(ts, S \cup T) = SumOf(ts, S) + SumOf(ts, T)
    BY <2>3, SumOfBoth
  <2> QED
    BY <2>1, <2>4, <2>5 DEF MadeThrough
<1> QED
  BY <1>1, <1>3, <1>4, <1>5

LEMMA PointFollows ==
  ASSUME LabTypes, FiringsAreOver, TradesAreFirings, DaysStay, NEW d \in Nat, d # 0, d < DayOf(at), NEW c, PointIs(c, d - 1)
  PROVE  PointIs(OneMore(c, d), d)
<1>1. PICK before \in Nat : before = d - 1
  OBVIOUS
<1>2. PICK now \in Int, then \in Int, net \in Int :
        /\ now = MadeThrough(trades, d) /\ then = MadeThrough(trades, before) /\ net = SumOf(trades, ClosedIn(d))
        /\ now = then + net
  <2>1. MadeThrough(trades, d) \in Int /\ MadeThrough(trades, d) = MadeThrough(trades, d - 1) + SumOf(trades, ClosedIn(d))
    BY MadeGrows
  <2>2. MadeThrough(trades, before) \in Int
    BY MadeGrows
  <2>3. SumOf(trades, ClosedIn(d)) \in Int
    BY SumOfType DEF LabTypes
  <2> QED
    BY <1>1, <2>1, <2>2, <2>3
<1>3. /\ c \in Points /\ c.total = then /\ c.top \in Int /\ c.worst \in Int
      /\ ~ account.dropped => 100 * c.worst < DropPct * account.peak
  BY <1>1, <1>2 DEF PointIs, Points
<1>4. PICK b \in 0 .. before : c.top = MadeThrough(trades, b)
  BY <1>1 DEF PointIs
<1>5. b \in 0 .. d /\ d \in 0 .. d
  BY <1>1
<1>6. CASE d \in DOMAIN DailyNet
  <2>1. DailyNet[d] = net
    BY <1>2, <1>6, DayNetIs DEF LabTypes
  <2>2. PICK p \in Points : /\ p = WorstFall(c, net) /\ p = OneMore(c, d) /\ p.total = now /\ p.top \in {c.top, now}
                            /\ p.worst \in {c.worst, p.top - p.total}
    <3>1. OneMore(c, d) = WorstFall(c, net)
      BY <1>6, <2>1 DEF OneMore
    <3>2. c.total + net = now
      BY <1>2, <1>3
    <3>3. /\ WorstFall(c, net) \in Points /\ WorstFall(c, net).total = c.total + net
          /\ WorstFall(c, net).top \in {c.top, c.total + net}
          /\ WorstFall(c, net).worst \in {c.worst, WorstFall(c, net).top - WorstFall(c, net).total}
      BY <1>2, <1>3, WorstFallIs
    <3> QED
      BY <3>1, <3>2, <3>3
  <2>3. PICK e \in 0 .. d : p.top = MadeThrough(trades, e)
    BY <1>2, <1>4, <1>5, <2>2
  <2>4. ~ account.dropped => 100 * (MadeThrough(trades, e) - MadeThrough(trades, d)) < DropPct * account.peak
    BY DEF DaysStay, DaysStayBelow
  <2>5. ~ account.dropped => 100 * p.worst < DropPct * account.peak
    BY <1>2, <1>3, <2>2, <2>3, <2>4
  <2> QED
    BY <1>2, <2>2, <2>3, <2>5 DEF PointIs
<1>7. CASE d \notin DOMAIN DailyNet
  <2>1. ClosedIn(d) = {} /\ OneMore(c, d) = c
    BY <1>7, DayNetIs DEF OneMore, LabTypes
  <2>2. PICK ts \in Seq(StrategyTrade) : ts = trades
    BY DEF LabTypes
  <2>3. PICK none : none = {} /\ \A k \in 1 .. Len(ts) : k \notin none
    OBVIOUS
  <2>4. SumOf(ts, none) = 0
    BY <2>3, SumOfNone
  <2>5. net = 0
    BY <1>2, <2>1, <2>2, <2>3, <2>4
  <2>6. c.total = MadeThrough(trades, d)
    BY <1>2, <1>3, <2>5
  <2> QED
    BY <1>3, <1>4, <1>5, <2>1, <2>6 DEF PointIs
<1> QED
  BY <1>6, <1>7

(* The report of the days is of the same money.                             *)
LEMMA ReportEnds ==
  ASSUME WalkInv
  PROVE  ReportIsOfTheAccount
<1> SUFFICES ASSUME ~ Walking
             PROVE  /\ DailyReport.total = account.equity - Capital
                    /\ ~ account.dropped => 100 * DailyReport.drawdown < DropPct * account.peak
  BY DEF ReportIsOfTheAccount
<1>1. LabTypes /\ FiringsAreOver /\ TradesAreFirings /\ AccountIsOfTheEnded /\ DaysStay
  BY DEF WalkInv
<1>2. PICK t \in Nat, day \in Nat : t = at /\ day = DayOf(at) /\ day > LabDays
  <2>1. at \in Nat /\ DayOf(at) \in Nat
    BY <1>1, DayIs DEF LabTypes
  <2> QED
    BY <2>1, LabAssumed DEF Walking
<1>3. PICK days, curve : days \in Nat /\ days = LabDays /\ curve = ThatCurve
  BY LabAssumed
<1>4. \A d \in 0 .. days : curve[d] = IF d = 0 THEN [total |-> 0, top |-> 0, worst |-> 0] ELSE OneMore(curve[d - 1], d)
  <2>1. CurveIs(curve)
    BY <1>1, <1>3, CurveIsThere DEF LabTypes
  <2> QED
    BY <1>3, <2>1 DEF CurveIs, OneMore
<1> DEFINE bad == {d \in 0 .. days : ~ PointIs(curve[d], d)}
<1>5. bad = {}
  <2> SUFFICES ASSUME bad # {} PROVE FALSE
    OBVIOUS
  <2>1. bad \in SUBSET Nat
    OBVIOUS
  <2> HIDE DEF bad
  <2>2. PICK d \in bad : \A i \in bad : d <= i
    BY <2>1, LeastElement
  <2>3. d \in 0 .. days /\ ~ PointIs(curve[d], d)
    BY DEF bad
  <2>4. CASE d = 0
    <3>1. curve[d] = [total |-> 0, top |-> 0, worst |-> 0]
      BY <1>4, <2>3, <2>4
    <3>2. PICK p \in Points : p = curve[d] /\ p.total = 0 /\ p.top = 0 /\ p.worst = 0
      <4>1. [total |-> 0, top |-> 0, worst |-> 0] \in Points
        BY DEF Points
      <4> QED
        BY <3>1, <4>1
    <3>3. MadeThrough(trades, 0) = 0 /\ 0 \in 0 .. 0
      BY <1>1, MadeGrows
    <3>4. 0 < DropPct * account.peak
      <4>1. PICK peak \in Int : peak = account.peak /\ peak > 0
        BY <1>1, LabAssumed DEF LabTypes, SoundAccounts, Accounts
      <4>2. 1 * peak <= DropPct * peak /\ DropPct * peak \in Int
        BY <4>1, LabAssumed, ProductsGrow
      <4> QED
        BY <4>1, <4>2
    <3>5. PointIs(p, 0)
      BY <3>2, <3>3, <3>4 DEF PointIs
    <3> QED
      BY <2>3, <2>4, <3>2, <3>5
  <2>5. CASE d # 0
    <3>1. d \in Nat /\ d - 1 \in 0 .. days /\ d - 1 \notin bad /\ d < DayOf(at)
      BY <1>2, <1>3, <2>2, <2>3, <2>5
    <3>2. PICK c : c = curve[d - 1] /\ PointIs(c, d - 1)
      BY <3>1 DEF bad
    <3>3. PointIs(OneMore(c, d), d)
      BY <1>1, <2>5, <3>1, <3>2, PointFollows
    <3>4. curve[d] = OneMore(c, d)
      BY <1>4, <2>3, <2>5, <3>2
    <3> QED
      BY <2>3, <3>3, <3>4
  <2> QED
    BY <2>4, <2>5
<1>6. PointIs(curve[days], days)
  <2>1. days \in 0 .. days
    BY <1>3
  <2> QED
    BY <1>5, <2>1
<1> HIDE DEF bad
<1>7. DailyReport.total = curve[LabDays].total /\ DailyReport.drawdown = curve[LabDays].worst
  BY <1>3 DEF DailyReport, ThatCurve, CurveIs
<1>8. MadeThrough(trades, days) = SumOf(trades, EndedBefore(trades, at))
  <2>1. \A i \in DOMAIN trades : /\ EndOf(trades[i]) \in Nat /\ DayOf(EndOf(trades[i])) <= days
    BY <1>1, <1>3, TradesWereEntered, TradeEnds DEF LabTypes
  <2>2. ASSUME NEW i \in DOMAIN trades PROVE EndOf(trades[i]) < at
    <3>1. PICK x \in Nat : x = EndOf(trades[i]) /\ DayOf(x) <= days
      BY <2>1
    <3>2. t <= x => DayOf(t) <= DayOf(x)
      BY DaysGrow
    <3>3. DayOf(x) \in Nat
      BY DayIs
    <3>4. ~ (t <= x)
      BY <1>2, <1>3, <3>1, <3>2, <3>3
    <3> QED
      BY <1>2, <3>1, <3>4
  <2>3. {i \in DOMAIN trades : DayOf(EndOf(trades[i])) <= days} = DOMAIN trades
    BY <2>1
  <2>4. EndedBefore(trades, at) = DOMAIN trades
    BY <2>2 DEF EndedBefore
  <2> QED
    BY <2>3, <2>4 DEF MadeThrough
<1>9. PICK made \in Int : made = MadeThrough(trades, days) /\ account.equity = Capital + made
  <2>1. MadeThrough(trades, days) \in Int
    BY <1>1, <1>3, MadeGrows
  <2> QED
    BY <1>1, <1>8, <2>1 DEF AccountIsOfTheEnded
<1>10. made = account.equity - Capital
  BY <1>9, LabAssumed
<1> QED
  BY <1>3, <1>6, <1>7, <1>9, <1>10 DEF PointIs

(* strategy_lab.py, sweep.py, daily.py, scoring.py: in every state of the   *)
(* lab no stake is of money that another trade has not made yet, the replay *)
(* of the labels and the report of the days come to the account of the      *)
(* walk, and the members of a batch are held to one bar.                    *)
THEOREM LabStaysHonest == LabSpec => []LabIsHonest
<1>1. LabInv => LabIsHonest
  <2> SUFFICES ASSUME LabInv PROVE LabIsHonest
    OBVIOUS
  <2>1. WalkInv /\ BatchIsInTheLedger
    BY DEF LabInv
  <2>2. LabTypes /\ TradesAreFirings /\ AccountIsOfTheEnded /\ NoMoneyFromTheFuture
    BY <2>1 DEF WalkInv
  <2>3. LabTypeOK
    <3>1. pending \subseteq DOMAIN trades
      BY <2>2 DEF AccountIsOfTheEnded
    <3>2. \A i \in DOMAIN trades : trades[i].index \in DOMAIN firings /\ trades[i].of = firings[trades[i].index]
      BY <2>2 DEF TradesAreFirings
    <3>3. entered \in 0 .. MaxEntries /\ firings \in Seq(LabFiring) /\ trades \in Seq(StrategyTrade)
      BY <2>2 DEF LabTypes
    <3>4. trials \in Seq(Int)
      BY <2>1 DEF BatchIsInTheLedger
    <3> QED
      BY <3>1, <3>2, <3>3, <3>4 DEF LabTypeOK
  <2>4. ReplayAgrees /\ ReportIsOfTheAccount
    BY <2>1, ReplayEnds, ReportEnds
  <2> QED
    BY <2>1, <2>2, <2>3, <2>4 DEF LabIsHonest, BatchIsInTheLedger
<1> QED
  BY <1>1, LabBegins, LabStep, PTL DEF LabSpec

-----------------------------------------------------------------------------
(* Audit.                                                                   *)

(* The entries of a day and those of one underlying; every row was opened   *)
(* by now and closed, if at all, between then and now.                      *)
CollectedOf(u, d) == {i \in Collected(d) : book[i].under = u}

Moments == [day : Nat, minute : Nat]
AuditRows == [under : Instruments, opened : Moments, closed : Moments, net : Int]
AuditBook ==
  /\ clock \in Moments /\ clock.day # 0 /\ book \in Seq(AuditRows) /\ fills \in Fills
  /\ entryCycle \in EntryCycle /\ (~ Idle => InSession)

RowsAreOfThePast ==
  \A i \in DOMAIN book :
    /\ book[i].opened.day \in 1 .. clock.day /\ ~ Before(clock, book[i].opened)
    /\ book[i].closed = StillOpen \/ book[i].closed.day \in book[i].opened.day .. clock.day

(* The caps hold with the order in hand counted; the fills are the rows and *)
(* that order, if it filled.                                                *)
InHand == entryCycle.at \in {"gated", "filled", "unfilled"}
Hand == IF InHand THEN 1 ELSE 0
HandOf(u) == IF InHand /\ entryCycle.under = u THEN 1 ELSE 0
FilledInHand == IF entryCycle.at = "filled" THEN 1 ELSE 0
DayIsWithinCaps ==
  /\ Cardinality(Collected(clock.day)) + FilledInHand = fills.made - fills.lost + fills.unfilled
  /\ Cardinality(Collected(clock.day)) + Hand <= MaxTrades
  /\ \A u \in Instruments : Cardinality(CollectedOf(u, clock.day)) + HandOf(u) <= MaxPerUnderlying

(* A cycle past the gates, or a flag that is down, has a reset behind every *)
(* daily-loss halt of the day.                                              *)
HaltsAreCleared ==
  /\ riskEvents \subseteq Moments /\ cleared \subseteq Moments
  /\ \A t \in riskEvents \cup cleared : ~ Before(clock, t)
  /\ dayHalt = "no" \/ ~ Idle => \A t \in riskEvents : \E c \in cleared : ~ Before(c, t)

AuditInv == AuditBook /\ RowsAreOfThePast /\ DayIsWithinCaps /\ HaltsAreCleared /\ AuditMissesNothing /\ GatesPassTheAudit

LEMMA AuditAssumed ==
  /\ MaxTrades \in Nat \ {0} /\ MaxPerUnderlying \in Nat \ {0} /\ MaxPositions \in Nat \ {0} /\ MaxLosses \in Nat \ {0}
  /\ ClosingMinute \in Nat \ {0} /\ LastAuditDay \in Nat \ {0} /\ Nets \subseteq Int
BY AuditAssumption DEF AuditAssumption, AuditLimits, RiskLimitsConfig

LEMMA RowsAreFinite ==
  ASSUME AuditBook, NEW S \in SUBSET DOMAIN book
  PROVE  IsFiniteSet(S) /\ Cardinality(S) \in Nat
<1>1. DOMAIN book = 1 .. Len(book) /\ Len(book) \in Nat
  BY DEF AuditBook
<1>2. IsFiniteSet(1 .. Len(book))
  BY <1>1, FS_Interval
<1>3. IsFiniteSet(S)
  BY <1>1, <1>2, FS_Subset
<1> QED
  BY <1>3, FS_CardinalityType

LEMMA ClosedRow ==
  ASSUME NEW row \in AuditRows, NEW moment \in Moments, NEW net \in Int
  PROVE  \E ended \in AuditRows : /\ ended = [row EXCEPT !.closed = moment, !.net = net]
                                  /\ ended.under = row.under /\ ended.opened = row.opened /\ ended.closed = moment
<1> DEFINE ended == [row EXCEPT !.closed = moment, !.net = net]
<1>1. ended \in AuditRows /\ ended.under = row.under /\ ended.opened = row.opened /\ ended.closed = moment
  BY DEF AuditRows
<1> HIDE DEF ended
<1>2. ended = [row EXCEPT !.closed = moment, !.net = net]
  BY DEF ended
<1> QED
  BY <1>1, <1>2

LEMMA RowAppended ==
  ASSUME NEW dayRows \in Seq(AuditRows), NEW row \in AuditRows
  PROVE  /\ DOMAIN dayRows = 1 .. Len(dayRows) /\ Len(dayRows) \in Nat /\ Len(dayRows) + 1 \notin DOMAIN dayRows
         /\ Append(dayRows, row) \in Seq(AuditRows) /\ DOMAIN Append(dayRows, row) = DOMAIN dayRows \cup {Len(dayRows) + 1}
         /\ Append(dayRows, row)[Len(dayRows) + 1] = row /\ \A i \in DOMAIN dayRows : Append(dayRows, row)[i] = dayRows[i]
OBVIOUS

LEMMA DaysAreWhole ==
  ASSUME AuditBook
  PROVE  clock.day \in Nat \ {0} /\ clock.minute \in Nat
         /\ \A i \in DOMAIN book : book[i] \in AuditRows /\ book[i].opened \in Moments /\ book[i].closed \in Moments
                                   /\ book[i].opened.day \in Nat /\ book[i].opened.minute \in Nat
<1>1. clock.day \in Nat \ {0} /\ clock.minute \in Nat
  BY DEF AuditBook, Moments
<1>2. \A i \in DOMAIN book : book[i] \in AuditRows
  BY DEF AuditBook
<1>3. \A i \in DOMAIN book : book[i].opened \in Moments /\ book[i].closed \in Moments
  BY <1>2 DEF AuditRows
<1>4. \A i \in DOMAIN book : book[i].opened.day \in Nat /\ book[i].opened.minute \in Nat
  BY <1>3 DEF Moments
<1> QED
  BY <1>1, <1>2, <1>3, <1>4

LEMMA EntriesAreCounted ==
  ASSUME AuditBook
  PROVE  /\ fills.made \in Nat /\ fills.lost \in Nat /\ fills.unfilled \in Nat
         /\ Cardinality(Collected(clock.day)) \in Nat /\ Hand \in {0, 1} /\ FilledInHand \in {0, 1}
         /\ \A u : Cardinality(CollectedOf(u, clock.day)) \in Nat /\ HandOf(u) \in {0, 1}
<1>1. Collected(clock.day) \subseteq DOMAIN book /\ \A u : CollectedOf(u, clock.day) \subseteq DOMAIN book
  BY DEF Collected, CollectedOf
<1> QED
  BY <1>1, RowsAreFinite DEF AuditBook, Fills, Hand, HandOf, FilledInHand

(* What is in hand: nothing, or an order on an underlying.                  *)
LEMMA HandIsKnown ==
  ASSUME AuditBook
  PROVE  /\ InHand => entryCycle.under \in Instruments /\ ~ Idle
         /\ entryCycle.at \in {"idle", "entries"} => ~ InHand /\ Hand = 0 /\ FilledInHand = 0 /\ \A u : HandOf(u) = 0
<1>1. entryCycle \in EntryCycle
  BY DEF AuditBook
<1>2. CASE entryCycle \in [at : {"idle", "entries"}]
  BY <1>2 DEF InHand, Idle, Hand, HandOf, FilledInHand
<1>3. CASE entryCycle \in [at : {"gated", "filled", "unfilled"}, under : Instruments]
  BY <1>3 DEF InHand, Idle, Hand, HandOf, FilledInHand
<1> QED
  BY <1>1, <1>2, <1>3 DEF EntryCycle

LEMMA HandFree ==
  ASSUME NEW place \in {"idle", "entries"}, entryCycle' = [at |-> place]
  PROVE  /\ entryCycle' \in EntryCycle /\ entryCycle'.at = place /\ (Idle' <=> place = "idle")
         /\ ~ InHand' /\ Hand' = 0 /\ FilledInHand' = 0 /\ \A u : HandOf(u)' = 0
<1>1. entryCycle'.at = place /\ entryCycle' \in [at : {"idle", "entries"}]
  OBVIOUS
<1> QED
  BY <1>1 DEF EntryCycle, Idle, InHand, Hand, HandOf, FilledInHand

LEMMA HandSent ==
  ASSUME AuditBook, entryCycle.at = "gated", NEW place \in {"filled", "unfilled"}, entryCycle' = [entryCycle EXCEPT !.at = place]
  PROVE  /\ entryCycle' \in EntryCycle /\ entryCycle'.at = place /\ ~ Idle' /\ ~ Idle
         /\ Hand' = Hand /\ \A u : HandOf(u)' = HandOf(u)
<1>1. entryCycle \in [at : {"gated", "filled", "unfilled"}, under : Instruments]
  BY DEF AuditBook, EntryCycle
<1>2. entryCycle'.at = place /\ entryCycle'.under = entryCycle.under
      /\ entryCycle' \in [at : {"gated", "filled", "unfilled"}, under : Instruments]
  BY <1>1
<1> QED
  BY <1>1, <1>2 DEF EntryCycle, Idle, InHand, Hand, HandOf

LEMMA AuditInvInit == AuditInit => AuditInv
<1> SUFFICES ASSUME AuditInit PROVE AuditInv
  OBVIOUS
<1>1. book = <<>> /\ DOMAIN book = {} /\ fills = NoFills /\ riskEvents = {} /\ cleared = {} /\ report = NoReport
      /\ entryCycle = [at |-> "idle"]
  BY DEF AuditInit
<1>2. fills.made = 0 /\ fills.lost = 0 /\ fills.unfilled = 0 /\ fills \in Fills
      /\ report.fills.made = 0 /\ report.fills.lost = 0 /\ report.fills.unfilled = 0 /\ report.entries = 0 /\ report.findings = {}
  BY <1>1 DEF NoFills, NoReport, Fills
<1>3. AuditBook
  <2>1. entryCycle \in EntryCycle /\ Idle
    BY <1>1 DEF EntryCycle, Idle
  <2> QED
    BY <1>1, <1>2, <2>1, AuditAssumed DEF AuditInit, AuditBook, Moments
<1>4. Collected(clock.day) = {} /\ \A u \in Instruments : CollectedOf(u, clock.day) = {}
  BY <1>1 DEF Collected, CollectedOf
<1>5. DayIsWithinCaps
  <2>1. Cardinality({}) = 0
    BY FS_EmptySet
  <2>2. Hand = 0 /\ FilledInHand = 0 /\ \A u : HandOf(u) = 0
    BY <1>1, <1>3, HandIsKnown
  <2> QED
    BY <1>2, <1>4, <2>1, <2>2, AuditAssumed DEF DayIsWithinCaps
<1>6. AuditMissesNothing /\ GatesPassTheAudit
  BY <1>1, <1>2 DEF AuditMissesNothing, GatesPassTheAudit
<1> QED
  BY <1>1, <1>3, <1>5, <1>6 DEF AuditInv, RowsAreOfThePast, HaltsAreCleared

(* What was opened today on an underlying is still open or was closed today, *)
(* so the gate, which counts those, counts no fewer.                        *)
LEMMA GateSeesTheEntries ==
  ASSUME AuditBook, RowsAreOfThePast, NEW u
  PROVE  Cardinality(CollectedOf(u, clock.day)) <= OnUnderlying(u, clock.day)
<1> DEFINE seen == {i \in OpenNow \cup ClosedOn(clock.day) : book[i].under = u}
<1>1. CollectedOf(u, clock.day) \subseteq seen
  <2>1. clock.day \in Nat
    BY DaysAreWhole
  <2> QED
    BY <2>1 DEF CollectedOf, Collected, OpenNow, ClosedOn, RowsAreOfThePast
<1>2. seen \subseteq DOMAIN book
  BY DEF OpenNow, ClosedOn
<1>3. IsFiniteSet(seen)
  BY <1>2, RowsAreFinite
<1> QED
  BY <1>1, <1>3, FS_Subset DEF OnUnderlying

(* A step of the flag alone: a halt, or the operator's reset.               *)
LEMMA FlagKeepsAudit ==
  ASSUME AuditInv, LossHalt \/ OtherHalt \/ OperatorClears
  PROVE  AuditInv'
<1> USE DEF AuditInv
<1>1. /\ UNCHANGED <<clock, book, report, entryCycle, fills>>
      /\ riskEvents \subseteq riskEvents' /\ cleared \subseteq cleared' /\ riskEvents' \subseteq riskEvents \cup {clock}
      /\ cleared' \subseteq cleared \cup {clock}
  BY DEF LossHalt, OtherHalt, OperatorClears
<1>2. clock \in Moments /\ clock.day \in Nat /\ clock.minute \in Nat /\ ~ Before(clock, clock)
  BY DaysAreWhole DEF AuditBook, Before
<1>3. AuditBook' /\ RowsAreOfThePast' /\ DayIsWithinCaps' /\ AuditMissesNothing'
  BY <1>1 DEF AuditBook, Idle, InSession, RowsAreOfThePast, Before, DayIsWithinCaps, Collected, CollectedOf, Hand, HandOf, InHand,
     FilledInHand, AuditMissesNothing
<1>4. HaltsAreCleared'
  <2>1. riskEvents' \subseteq Moments /\ cleared' \subseteq Moments /\ \A t \in riskEvents' \cup cleared' : ~ Before(clock', t)
    BY <1>1, <1>2 DEF HaltsAreCleared, Before
  <2>2. ASSUME (dayHalt = "no" \/ ~ Idle)', NEW t \in riskEvents' PROVE \E c \in cleared' : ~ Before(c, t)
    <3>1. CASE LossHalt
      <4>1. dayHalt' = "daily" /\ Idle'
        BY <3>1 DEF LossHalt, BeginsCycle, Idle
      <4> QED
        BY <2>2, <4>1
    <3>2. CASE OtherHalt
      <4>1. riskEvents' = riskEvents /\ ~ Idle /\ cleared' = cleared
        BY <2>2, <3>2 DEF OtherHalt, Idle
      <4> QED
        BY <2>2, <4>1 DEF HaltsAreCleared
    <3>3. CASE OperatorClears
      <4>1. clock \in cleared' /\ t \in riskEvents
        BY <2>2, <3>3 DEF OperatorClears
      <4> QED
        BY <4>1 DEF HaltsAreCleared
    <3> QED
      BY <3>1, <3>2, <3>3
  <2> QED
    BY <2>1, <2>2 DEF HaltsAreCleared
<1>5. \A i \in Collected(clock.day) : ~ Before(clock, book[i].opened)
  BY DEF Collected, RowsAreOfThePast
<1>6. GatesPassTheAudit'
  BY <1>1, <1>5 DEF GatesPassTheAudit, ClearedBetween, Collected, Before
<1> QED
  BY <1>3, <1>4, <1>6

(* A step of the cycle that leaves the book alone: it keeps what its hand   *)
(* keeps.                                                                   *)
LEMMA HandKeepsAudit ==
  ASSUME AuditInv, UNCHANGED <<clock, book, report, dayHalt, riskEvents, cleared>>,
         fills' \in Fills, entryCycle' \in EntryCycle, ~ Idle' => InSession /\ (~ Idle \/ dayHalt = "no"),
         Cardinality(Collected(clock.day)) + FilledInHand' = fills'.made - fills'.lost + fills'.unfilled,
         Cardinality(Collected(clock.day)) + Hand' <= MaxTrades,
         \A u \in Instruments : Cardinality(CollectedOf(u, clock.day)) + HandOf(u)' <= MaxPerUnderlying
  PROVE  AuditInv'
<1> USE DEF AuditInv
<1>1. AuditBook' /\ RowsAreOfThePast' /\ AuditMissesNothing' /\ HaltsAreCleared'
  BY DEF AuditBook, InSession, RowsAreOfThePast, Before, AuditMissesNothing, HaltsAreCleared
<1>2. Collected(clock.day)' = Collected(clock.day) /\ \A u : CollectedOf(u, clock.day)' = CollectedOf(u, clock.day)
  BY DEF Collected, CollectedOf
<1>3. DayIsWithinCaps'
  BY <1>2 DEF DayIsWithinCaps
<1>4. GatesPassTheAudit'
  BY <1>2 DEF GatesPassTheAudit, ClearedBetween, Before
<1> QED
  BY <1>1, <1>3, <1>4

LEMMA CycleKeepsAudit ==
  ASSUME AuditInv, PassLossGate \/ CycleEnds \/ CycleDies
  PROVE  AuditInv'
<1> USE DEF AuditInv
<1>1. UNCHANGED <<clock, book, report, dayHalt, riskEvents, cleared>>
  BY DEF PassLossGate, CycleEnds, CycleDies
<1>2. PICK place \in {"idle", "entries"} : entryCycle' = [at |-> place]
  BY DEF PassLossGate, CycleEnds, CycleDies
<1>3. ~ Idle' => InSession /\ (~ Idle \/ dayHalt = "no")
  BY HandFree, <1>2 DEF PassLossGate, CycleEnds, CycleDies, BeginsCycle, Idle
<1>4. entryCycle' \in EntryCycle /\ Hand' = 0 /\ FilledInHand' = 0 /\ \A u : HandOf(u)' = 0
  BY <1>2, HandFree
<1>5. fills' \in Fills /\ fills'.made - fills'.lost + fills'.unfilled = fills.made - fills.lost + fills.unfilled - FilledInHand
  <2>1. fills \in Fills /\ fills.made \in Nat /\ fills.lost \in Nat /\ fills.unfilled \in Nat
    BY EntriesAreCounted DEF AuditBook
  <2>2. CASE entryCycle.at = "filled"
    <3>1. fills' = [fills EXCEPT !.lost = @ + 1]
      BY <2>2 DEF PassLossGate, CycleEnds, CycleDies, BeginsCycle, Idle
    <3>2. fills' \in Fills /\ fills'.made = fills.made /\ fills'.lost = fills.lost + 1 /\ fills'.unfilled = fills.unfilled
      BY <2>1, <3>1 DEF Fills
    <3> QED
      BY <2>1, <2>2, <3>2 DEF FilledInHand
  <2>3. CASE entryCycle.at # "filled"
    <3>1. fills' = fills
      BY <2>3 DEF PassLossGate, CycleEnds, CycleDies
    <3> QED
      BY <2>1, <2>3, <3>1 DEF FilledInHand
  <2> QED
    BY <2>2, <2>3
<1>6. Cardinality(Collected(clock.day)) = fills'.made - fills'.lost + fills'.unfilled
  BY <1>5, EntriesAreCounted DEF DayIsWithinCaps
<1>7. /\ Cardinality(Collected(clock.day)) <= MaxTrades
      /\ \A u \in Instruments : Cardinality(CollectedOf(u, clock.day)) <= MaxPerUnderlying
  BY EntriesAreCounted, AuditAssumed DEF DayIsWithinCaps
<1>8. /\ Cardinality(Collected(clock.day)) + FilledInHand' = fills'.made - fills'.lost + fills'.unfilled
      /\ Cardinality(Collected(clock.day)) + Hand' <= MaxTrades
      /\ \A u \in Instruments : Cardinality(CollectedOf(u, clock.day)) + HandOf(u)' <= MaxPerUnderlying
  BY <1>4, <1>6, <1>7, EntriesAreCounted
<1> QED
  BY <1>1, <1>3, <1>4, <1>5, <1>8, HandKeepsAudit

(* The gates: one more is still within every cap.                           *)
LEMMA GatesKeepAudit ==
  ASSUME AuditInv, PassEntryGates
  PROVE  AuditInv'
<1> USE DEF AuditInv
<1>1. PICK u \in Instruments : MayEnter(u, clock.day) /\ entryCycle' = [at |-> "gated", under |-> u]
  BY DEF PassEntryGates
<1>2. UNCHANGED <<clock, book, report, dayHalt, riskEvents, cleared, fills>> /\ entryCycle.at = "entries"
  BY DEF PassEntryGates
<1>3. /\ entryCycle' \in EntryCycle /\ ~ Idle' /\ ~ Idle /\ Hand' = 1 /\ FilledInHand' = 0
      /\ \A v : HandOf(v)' = IF v = u THEN 1 ELSE 0
  BY <1>1, <1>2 DEF EntryCycle, Idle, InHand, Hand, HandOf, FilledInHand
<1>4. FilledInHand = 0 /\ (\A v : HandOf(v) = 0) /\ InSession
  BY <1>2, <1>3, HandIsKnown DEF AuditBook
<1>5. Cardinality(Collected(clock.day)) + 1 <= MaxTrades
  <2>1. Cardinality(Collected(clock.day)) < MaxTrades
    BY <1>1 DEF MayEnter, EntriesToday, Collected
  <2> QED
    BY <2>1, EntriesAreCounted, AuditAssumed
<1>6. Cardinality(CollectedOf(u, clock.day)) + 1 <= MaxPerUnderlying
  <2>1. OnUnderlying(u, clock.day) \in Nat /\ OnUnderlying(u, clock.day) < MaxPerUnderlying
    <3>1. {i \in OpenNow \cup ClosedOn(clock.day) : book[i].under = u} \subseteq DOMAIN book
      BY DEF OpenNow, ClosedOn
    <3> QED
      BY <1>1, <3>1, RowsAreFinite DEF OnUnderlying, MayEnter
  <2> QED
    BY <2>1, GateSeesTheEntries, EntriesAreCounted, AuditAssumed
<1>7. \A v \in Instruments : Cardinality(CollectedOf(v, clock.day)) + HandOf(v)' <= MaxPerUnderlying
  <2> TAKE v \in Instruments
  <2>1. Cardinality(CollectedOf(v, clock.day)) <= MaxPerUnderlying
    BY <1>4, EntriesAreCounted DEF DayIsWithinCaps
  <2> QED
    BY <1>3, <1>6, <2>1, EntriesAreCounted
<1>8. Cardinality(Collected(clock.day)) + FilledInHand' = fills'.made - fills'.lost + fills'.unfilled /\ fills' \in Fills
  BY <1>2, <1>3, <1>4 DEF DayIsWithinCaps, AuditBook
<1>9. Cardinality(Collected(clock.day)) + Hand' <= MaxTrades
  BY <1>3, <1>5
<1> QED
  BY <1>2, <1>3, <1>4, <1>7, <1>8, <1>9, HandKeepsAudit

LEMMA SubmitKeepsAudit ==
  ASSUME AuditInv, Submit
  PROVE  AuditInv'
<1> USE DEF AuditInv
<1>1. UNCHANGED <<clock, book, report, dayHalt, riskEvents, cleared>> /\ entryCycle.at = "gated" /\ ~ Idle /\ InSession
      /\ FilledInHand = 0
  BY DEF Submit, Idle, AuditBook, FilledInHand
<1>2. fills \in Fills /\ fills.made \in Nat /\ fills.lost \in Nat /\ fills.unfilled \in Nat
  BY EntriesAreCounted DEF AuditBook
<1>3. /\ Cardinality(Collected(clock.day)) + Hand <= MaxTrades /\ Cardinality(Collected(clock.day)) <= MaxTrades
      /\ \A u \in Instruments : /\ Cardinality(CollectedOf(u, clock.day)) + HandOf(u) <= MaxPerUnderlying
                                /\ Cardinality(CollectedOf(u, clock.day)) <= MaxPerUnderlying
  BY EntriesAreCounted, AuditAssumed DEF DayIsWithinCaps
<1>4. Cardinality(Collected(clock.day)) = fills.made - fills.lost + fills.unfilled
  BY <1>1, EntriesAreCounted DEF DayIsWithinCaps
<1>5. CASE entryCycle' = [at |-> "idle"] /\ UNCHANGED fills
  <2>1. entryCycle' \in EntryCycle /\ Idle' /\ Hand' = 0 /\ FilledInHand' = 0 /\ \A u : HandOf(u)' = 0
    BY <1>5, HandFree
  <2>2. /\ Cardinality(Collected(clock.day)) + FilledInHand' = fills'.made - fills'.lost + fills'.unfilled
        /\ Cardinality(Collected(clock.day)) + Hand' <= MaxTrades
        /\ \A u \in Instruments : Cardinality(CollectedOf(u, clock.day)) + HandOf(u)' <= MaxPerUnderlying
    BY <1>3, <1>4, <1>5, <2>1, EntriesAreCounted
  <2>3. fills' \in Fills
    BY <1>2, <1>5
  <2> QED
    BY <1>1, <2>1, <2>2, <2>3, HandKeepsAudit
<1>6. CASE entryCycle' = [entryCycle EXCEPT !.at = "filled"] /\ fills' = [fills EXCEPT !.made = @ + 1]
  <2>1. entryCycle' \in EntryCycle /\ entryCycle'.at = "filled" /\ ~ Idle' /\ Hand' = Hand /\ \A u : HandOf(u)' = HandOf(u)
    BY <1>1, <1>6, HandSent
  <2>2. fills' \in Fills /\ fills'.made = fills.made + 1 /\ fills'.lost = fills.lost /\ fills'.unfilled = fills.unfilled
    BY <1>2, <1>6 DEF Fills
  <2>3. FilledInHand' = 1
    BY <2>1 DEF FilledInHand
  <2>4. Cardinality(Collected(clock.day)) + FilledInHand' = fills'.made - fills'.lost + fills'.unfilled
    BY <1>2, <1>4, <2>2, <2>3
  <2>5. /\ Cardinality(Collected(clock.day)) + Hand' <= MaxTrades
        /\ \A u \in Instruments : Cardinality(CollectedOf(u, clock.day)) + HandOf(u)' <= MaxPerUnderlying
    BY <1>3, <2>1
  <2> QED
    BY <1>1, <2>1, <2>2, <2>4, <2>5, HandKeepsAudit
<1>7. CASE entryCycle' = [entryCycle EXCEPT !.at = "unfilled"] /\ UNCHANGED fills
  <2>1. entryCycle' \in EntryCycle /\ entryCycle'.at = "unfilled" /\ ~ Idle' /\ Hand' = Hand /\ \A u : HandOf(u)' = HandOf(u)
    BY <1>1, <1>7, HandSent
  <2>2. fills' \in Fills /\ FilledInHand' = 0
    BY <1>2, <1>7, <2>1 DEF FilledInHand
  <2>3. Cardinality(Collected(clock.day)) + FilledInHand' = fills'.made - fills'.lost + fills'.unfilled
    BY <1>4, <1>7, <2>2, EntriesAreCounted
  <2>4. /\ Cardinality(Collected(clock.day)) + Hand' <= MaxTrades
        /\ \A u \in Instruments : Cardinality(CollectedOf(u, clock.day)) + HandOf(u)' <= MaxPerUnderlying
    BY <1>3, <2>1
  <2> QED
    BY <1>1, <2>1, <2>2, <2>3, <2>4, HandKeepsAudit
<1> QED
  BY <1>5, <1>6, <1>7 DEF Submit

(* The row: it was in hand, so it is in the count already.                  *)
LEMMA RowKeepsAudit ==
  ASSUME AuditInv, WriteRow
  PROVE  AuditInv'
<1> USE DEF AuditInv
<1> DEFINE u == entryCycle.under
           row == [under |-> u, opened |-> clock, closed |-> StillOpen, net |-> 0]
           new == Len(book) + 1
<1>1. /\ book' = Append(book, row) /\ entryCycle' = [at |-> "entries"] /\ entryCycle.at \in {"filled", "unfilled"}
      /\ UNCHANGED <<clock, report, dayHalt, riskEvents, cleared>>
      /\ fills' = IF entryCycle.at = "filled" THEN fills ELSE [fills EXCEPT !.unfilled = @ + 1]
  BY DEF WriteRow
<1>2. u \in Instruments /\ ~ Idle /\ InSession /\ Hand = 1 /\ \A v : HandOf(v) = IF v = u THEN 1 ELSE 0
  BY <1>1, HandIsKnown DEF InHand, Hand, HandOf, AuditBook
<1>3. /\ DOMAIN book = 1 .. Len(book) /\ Len(book) \in Nat /\ DOMAIN book' = DOMAIN book \cup {new} /\ new \notin DOMAIN book
      /\ book'[new] = row /\ (\A i \in DOMAIN book : book'[i] = book[i]) /\ book' \in Seq(AuditRows)
  <2>1. row \in AuditRows /\ book \in Seq(AuditRows)
    BY <1>2 DEF AuditBook, AuditRows, StillOpen, Moments
  <2> HIDE DEF row
  <2> QED
    BY <1>1, <2>1, RowAppended
<1> HIDE DEF new
<1>4. /\ entryCycle' \in EntryCycle /\ ~ Idle' /\ Hand' = 0 /\ FilledInHand' = 0 /\ \A v : HandOf(v)' = 0
  BY <1>1, HandFree
<1>5. fills' \in Fills /\ fills'.made - fills'.lost + fills'.unfilled = fills.made - fills.lost + fills.unfilled + 1 - FilledInHand
  <2>1. fills \in Fills /\ fills.made \in Nat /\ fills.lost \in Nat /\ fills.unfilled \in Nat
    BY EntriesAreCounted DEF AuditBook
  <2>2. CASE entryCycle.at = "filled"
    BY <1>1, <2>1, <2>2 DEF FilledInHand
  <2>3. CASE entryCycle.at # "filled"
    <3>1. fills' = [fills EXCEPT !.unfilled = @ + 1] /\ FilledInHand = 0
      BY <1>1, <2>3 DEF FilledInHand
    <3>2. fills' \in Fills /\ fills'.made = fills.made /\ fills'.lost = fills.lost /\ fills'.unfilled = fills.unfilled + 1
      BY <2>1, <3>1 DEF Fills
    <3> QED
      BY <2>1, <3>1, <3>2
  <2> QED
    BY <2>2, <2>3
<1>6. AuditBook'
  BY <1>1, <1>2, <1>3, <1>4, <1>5 DEF AuditBook, InSession
<1>7. RowsAreOfThePast'
  <2>1. clock.day \in Nat \ {0} /\ clock.minute \in Nat
    BY DaysAreWhole
  <2>2. ~ Before(clock, clock)
    BY <2>1 DEF Before
  <2>3. book'[new].opened = clock /\ book'[new].closed = StillOpen
    BY <1>3
  <2>4. /\ book'[new].opened.day \in 1 .. clock.day /\ ~ Before(clock, book'[new].opened)
        /\ book'[new].closed = StillOpen \/ book'[new].closed.day \in book'[new].opened.day .. clock.day
    BY <2>1, <2>2, <2>3
  <2> QED
    BY <1>1, <1>3, <2>4 DEF RowsAreOfThePast, Before
<1>8. Collected(clock.day)' = Collected(clock.day) \cup {new}
  BY <1>1, <1>3 DEF Collected
<1>9. Cardinality(Collected(clock.day)') = Cardinality(Collected(clock.day)) + 1
  <2>1. IsFiniteSet(Collected(clock.day)) /\ new \notin Collected(clock.day)
    BY <1>3, RowsAreFinite DEF Collected
  <2> QED
    BY <1>8, <2>1, FS_AddElement
<1>10. \A v \in Instruments : Cardinality(CollectedOf(v, clock.day)') = Cardinality(CollectedOf(v, clock.day)) + HandOf(v)
  <2> TAKE v \in Instruments
  <2>1. IsFiniteSet(CollectedOf(v, clock.day)) /\ Cardinality(CollectedOf(v, clock.day)) \in Nat
        /\ new \notin CollectedOf(v, clock.day)
    BY <1>3, RowsAreFinite DEF CollectedOf, Collected
  <2>2. CASE v = u
    <3>1. CollectedOf(v, clock.day)' = CollectedOf(v, clock.day) \cup {new}
      BY <1>1, <1>3, <2>2 DEF CollectedOf, Collected
    <3> QED
      BY <1>2, <2>1, <2>2, <3>1, FS_AddElement
  <2>3. CASE v # u
    <3>1. CollectedOf(v, clock.day)' = CollectedOf(v, clock.day)
      BY <1>1, <1>3, <2>3 DEF CollectedOf, Collected
    <3> QED
      BY <1>2, <2>1, <2>3, <3>1
  <2> QED
    BY <2>2, <2>3
<1>11. DayIsWithinCaps'
  <2>1. Cardinality(Collected(clock.day)') + FilledInHand' = fills'.made - fills'.lost + fills'.unfilled
    BY <1>4, <1>5, <1>9, EntriesAreCounted DEF DayIsWithinCaps
  <2>2. Cardinality(Collected(clock.day)') + Hand' <= MaxTrades
    BY <1>2, <1>4, <1>9, EntriesAreCounted DEF DayIsWithinCaps
  <2>3. \A v \in Instruments : Cardinality(CollectedOf(v, clock.day)') + HandOf(v)' <= MaxPerUnderlying
    BY <1>4, <1>10, EntriesAreCounted DEF DayIsWithinCaps
  <2> QED
    BY <1>1, <2>1, <2>2, <2>3 DEF DayIsWithinCaps
<1>12. HaltsAreCleared' /\ AuditMissesNothing'
  BY <1>1, <1>2 DEF HaltsAreCleared, AuditMissesNothing, Before
<1>13. GatesPassTheAudit'
  <2>1. \A t \in riskEvents : Before(t, book'[new].opened) => \E c \in cleared : ~ Before(c, t) /\ ~ Before(book'[new].opened, c)
    <3>1. book'[new].opened = clock
      BY <1>3
    <3> QED
      BY <1>2, <3>1 DEF HaltsAreCleared
  <2>2. \A i \in Collected(clock.day) : i \in DOMAIN book /\ book'[i] = book[i]
    BY <1>3 DEF Collected
  <2>3. /\ \A t \in riskEvents, i \in Collected(clock.day) : Before(t, book[i].opened) => ClearedBetween(t, book[i].opened)
        /\ report.findings \cap {"max_trades_per_day", "max_entries_per_underlying_per_day"} = {}
        /\ "no_entries_after_halt" \in report.findings =>
             \E t \in riskEvents, i \in Collected(clock.day) : ClearedBetween(t, book[i].opened)
    BY DEF GatesPassTheAudit
  <2>4. \A t \in riskEvents, i \in Collected(clock.day)' : Before(t, book'[i].opened) => \E c \in cleared : ~ Before(c, t) /\ ~ Before(book'[i].opened, c)
    BY <1>8, <2>1, <2>2, <2>3 DEF ClearedBetween
  <2>5. "no_entries_after_halt" \in report.findings =>
           \E t \in riskEvents, i \in Collected(clock.day)' : \E c \in cleared : ~ Before(c, t) /\ ~ Before(book'[i].opened, c)
    BY <1>8, <2>2, <2>3 DEF ClearedBetween
  <2>6. (\A t \in riskEvents, i \in Collected(clock.day) : Before(t, book[i].opened) => ClearedBetween(t, book[i].opened))'
    <3> SUFFICES ASSUME NEW t \in riskEvents', NEW i \in Collected(clock.day)', Before(t, book'[i].opened)
                 PROVE  \E c \in cleared' : ~ Before(c, t) /\ ~ Before(book'[i].opened, c)
      BY DEF ClearedBetween, Before
    <3> QED
      BY <1>1, <2>4
  <2>7. ("no_entries_after_halt" \in report.findings =>
           \E t \in riskEvents, i \in Collected(clock.day) : ClearedBetween(t, book[i].opened))'
    BY <1>1, <2>5 DEF ClearedBetween, Before
  <2> QED
    BY <1>1, <2>3, <2>6, <2>7 DEF GatesPassTheAudit
<1> QED
  BY <1>6, <1>7, <1>11, <1>12, <1>13

LEMMA CloseKeepsAudit ==
  ASSUME AuditInv, CloseOne
  PROVE  AuditInv'
<1> USE DEF AuditInv
<1>1. PICK i \in OpenNow, net \in Nets : book' = [book EXCEPT ![i].closed = clock, ![i].net = net]
  BY DEF CloseOne
<1>2. UNCHANGED <<clock, report, dayHalt, riskEvents, cleared, entryCycle, fills>>
  BY DEF CloseOne
<1>3. i \in DOMAIN book /\ net \in Int /\ clock \in Moments /\ book[i] \in AuditRows
  BY AuditAssumed, DaysAreWhole DEF OpenNow, AuditBook
<1>4. PICK old \in AuditRows, moment \in Moments : old = book[i] /\ moment = clock
  BY <1>3
<1>5. PICK row \in AuditRows : /\ row = [old EXCEPT !.closed = moment, !.net = net]
                               /\ row.under = old.under /\ row.opened = old.opened /\ row.closed = moment
  <2>1. net \in Int
    BY <1>3
  <2> QED
    BY <2>1, ClosedRow
<1>6. DOMAIN book' = DOMAIN book /\ AuditBook'
  <2>1. book' = [book EXCEPT ![i] = row]
    BY <1>1, <1>3, <1>4, <1>5 DEF AuditBook
  <2> QED
    BY <1>2, <1>3, <1>5, <2>1 DEF AuditBook, Idle, InSession
<1>7. \A j \in DOMAIN book : /\ book'[j].under = book[j].under /\ book'[j].opened = book[j].opened
                             /\ book'[j].closed = book[j].closed \/ book'[j].closed = clock
  <2>1. book' = [book EXCEPT ![i] = row]
    BY <1>1, <1>3, <1>4, <1>5 DEF AuditBook
  <2> QED
    BY <1>3, <1>4, <1>5, <2>1
<1>8. RowsAreOfThePast'
  <2>1. clock.day \in Nat
    BY DaysAreWhole
  <2> QED
    BY <1>2, <1>6, <1>7, <2>1 DEF RowsAreOfThePast, Before
<1>9. \A v, d : Collected(d)' = Collected(d) /\ CollectedOf(v, d)' = CollectedOf(v, d)
  BY <1>6, <1>7 DEF Collected, CollectedOf
<1>10. DayIsWithinCaps'
  BY <1>2, <1>9 DEF DayIsWithinCaps, Hand, HandOf, InHand, FilledInHand
<1>11. HaltsAreCleared' /\ AuditMissesNothing' /\ GatesPassTheAudit'
  <2>1. HaltsAreCleared' /\ AuditMissesNothing'
    BY <1>2 DEF HaltsAreCleared, Idle, AuditMissesNothing, Before
  <2>2. Collected(clock.day)' = Collected(clock.day) /\ \A j \in Collected(clock.day) : book'[j].opened = book[j].opened
    BY <1>2, <1>7, <1>9 DEF Collected
  <2>3. GatesPassTheAudit'
    BY <1>2, <2>2 DEF GatesPassTheAudit, ClearedBetween, Before
  <2> QED
    BY <2>1, <2>3
<1> QED
  BY <1>6, <1>8, <1>10, <1>11

LEMMA MinuteKeepsAudit ==
  ASSUME AuditInv, NextMinute
  PROVE  AuditInv'
<1> USE DEF AuditInv
<1>1. clock' = [clock EXCEPT !.minute = @ + 1] /\ UNCHANGED <<book, report, dayHalt, riskEvents, cleared, entryCycle, fills>>
      /\ Idle
  BY DEF NextMinute
<1>2. clock' \in Moments /\ clock'.day = clock.day /\ clock'.minute = clock.minute + 1
  BY <1>1 DEF AuditBook, Moments
<1>3. AuditBook' /\ Idle'
  BY <1>1, <1>2 DEF AuditBook, Idle
<1>4. RowsAreOfThePast'
  BY <1>1, <1>2, DaysAreWhole DEF RowsAreOfThePast, Before
<1>5. HaltsAreCleared'
  <2>1. \A t \in riskEvents' \cup cleared' : ~ Before(clock', t)
    BY <1>1, <1>2, DaysAreWhole DEF HaltsAreCleared, Before, Moments
  <2>2. dayHalt = "no" => \A t \in riskEvents' : \E c \in cleared' : ~ Before(c, t)
    BY <1>1 DEF HaltsAreCleared
  <2> QED
    BY <1>1, <1>3, <2>1, <2>2 DEF HaltsAreCleared
<1>6. Collected(clock.day)' = Collected(clock.day) /\ \A u : CollectedOf(u, clock.day)' = CollectedOf(u, clock.day)
  BY <1>1, <1>2 DEF Collected, CollectedOf
<1>7. DayIsWithinCaps'
  BY <1>1, <1>6 DEF DayIsWithinCaps, Hand, HandOf, InHand, FilledInHand
<1>8. AuditMissesNothing' /\ GatesPassTheAudit'
  BY <1>1, <1>6 DEF AuditMissesNothing, GatesPassTheAudit, ClearedBetween, Before
<1> QED
  BY <1>3, <1>4, <1>5, <1>7, <1>8

LEMMA ReportIsClean ==
  ASSUME AuditInv, RunAudit
  PROVE  AuditMissesNothing' /\ GatesPassTheAudit'
<1> USE DEF AuditInv
<1> DEFINE dayRows == Collected(clock.day)
<1>1. /\ report' = [fills |-> fills, entries |-> AuditOf(clock.day).entries, streak |-> AuditOf(clock.day).streak,
                     findings |-> AuditOf(clock.day).findings]
      /\ UNCHANGED <<clock, book, dayHalt, riskEvents, cleared, entryCycle, fills>> /\ ~ InSession
  BY DEF RunAudit
<1>2. /\ AuditOf(clock.day).entries = Cardinality(dayRows)
      /\ AuditOf(clock.day).findings = OverCaps(dayRows) \cup LeftOpen(dayRows) \cup AfterHalt(dayRows)
  BY DEF AuditOf
<1>3. report'.fills = fills /\ report'.entries = Cardinality(dayRows)
      /\ report'.findings = OverCaps(dayRows) \cup LeftOpen(dayRows) \cup AfterHalt(dayRows)
  BY <1>1, <1>2
<1>4. "max_trades_per_day" \notin OverCaps(dayRows) /\ "max_entries_per_underlying_per_day" \notin OverCaps(dayRows)
      /\ "no_entries_after_halt" \notin OverCaps(dayRows)
  <2>1. ~ (Cardinality(dayRows) > MaxTrades)
    BY EntriesAreCounted, AuditAssumed DEF DayIsWithinCaps
  <2>2. ~ \E u \in Instruments : Cardinality({i \in dayRows : book[i].under = u}) > MaxPerUnderlying
    <3>1. \A u \in Instruments : ~ (Cardinality(CollectedOf(u, clock.day)) > MaxPerUnderlying)
      BY EntriesAreCounted, AuditAssumed DEF DayIsWithinCaps
    <3>2. \A u : CollectedOf(u, clock.day) = {i \in dayRows : book[i].under = u}
      BY DEF CollectedOf
    <3> QED
      BY <3>1, <3>2
  <2> QED
    BY <2>1, <2>2 DEF OverCaps, Found
<1>5. AfterHalt(dayRows) \subseteq {"no_entries_after_halt"}
      /\ (AfterHalt(dayRows) # {} => \E i \in dayRows, t \in riskEvents : Before(t, book[i].opened))
  BY DEF AfterHalt, Found
<1>6. LeftOpen(dayRows) \subseteq {"closed_by_session_end"}
  BY DEF LeftOpen, Found
<1>7. AuditMissesNothing'
  <2>1. entryCycle.at = "idle"
    BY <1>1 DEF AuditBook, Idle
  <2>2. FilledInHand = 0
    BY <2>1, HandIsKnown
  <2> QED
    BY <1>3, <2>2, EntriesAreCounted DEF AuditMissesNothing, DayIsWithinCaps
<1>8. GatesPassTheAudit'
  <2>1. \A t \in riskEvents, i \in dayRows : Before(t, book[i].opened) => ClearedBetween(t, book[i].opened)
    BY DEF GatesPassTheAudit
  <2>2. "no_entries_after_halt" \in report'.findings => \E t \in riskEvents, i \in dayRows : ClearedBetween(t, book[i].opened)
    BY <1>3, <1>4, <1>5, <1>6, <2>1
  <2>3. report'.findings \cap {"max_trades_per_day", "max_entries_per_underlying_per_day"} = {}
    BY <1>3, <1>4, <1>5, <1>6
  <2> QED
    BY <1>1, <2>1, <2>2, <2>3 DEF GatesPassTheAudit, ClearedBetween, Collected, Before
<1> QED
  BY <1>7, <1>8

LEMMA ReportKeepsAudit ==
  ASSUME AuditInv, RunAudit
  PROVE  AuditInv'
<1>1. UNCHANGED <<clock, book, dayHalt, riskEvents, cleared, entryCycle, fills>>
  BY DEF RunAudit
<1>2. AuditBook' /\ RowsAreOfThePast' /\ DayIsWithinCaps' /\ HaltsAreCleared'
  BY <1>1 DEF AuditInv, AuditBook, Idle, InSession, RowsAreOfThePast, DayIsWithinCaps, HaltsAreCleared, Collected, CollectedOf,
     Hand, HandOf, InHand, FilledInHand, Before
<1> QED
  BY <1>2, ReportIsClean DEF AuditInv

LEMMA DayKeepsAudit ==
  ASSUME AuditInv, NewDay
  PROVE  AuditInv'
<1> USE DEF AuditInv
<1>1. /\ clock' = [day |-> clock.day + 1, minute |-> 1] /\ fills' = NoFills /\ report' = NoReport
      /\ riskEvents' = {} /\ cleared' = {} /\ UNCHANGED <<book, entryCycle>> /\ Idle
  BY DEF NewDay, AuditBook
<1>2. clock' \in Moments /\ clock'.day = clock.day + 1 /\ clock'.day # 0
  BY <1>1, DaysAreWhole DEF Moments
<1>3. /\ fills' \in Fills /\ fills'.made = 0 /\ fills'.lost = 0 /\ fills'.unfilled = 0
      /\ report'.fills.made = 0 /\ report'.fills.lost = 0 /\ report'.fills.unfilled = 0
      /\ report'.entries = 0 /\ report'.findings = {}
  BY <1>1 DEF NoFills, NoReport, Fills
<1>4. AuditBook' /\ Idle'
  BY <1>1, <1>2, <1>3 DEF AuditBook, Idle
<1>5. RowsAreOfThePast'
  BY <1>1, <1>2, DaysAreWhole DEF RowsAreOfThePast, Before
<1>6. Collected(clock.day)' = {} /\ \A u \in Instruments : CollectedOf(u, clock.day)' = {}
  BY <1>1, <1>2, DaysAreWhole DEF Collected, CollectedOf, RowsAreOfThePast
<1>7. DayIsWithinCaps'
  <2>1. Cardinality({}) = 0
    BY FS_EmptySet
  <2>2. Hand' = 0 /\ FilledInHand' = 0 /\ \A u : HandOf(u)' = 0
    BY <1>4 DEF Idle, InHand, Hand, HandOf, FilledInHand
  <2> QED
    BY <1>3, <1>6, <2>1, <2>2, AuditAssumed DEF DayIsWithinCaps
<1>8. HaltsAreCleared' /\ AuditMissesNothing' /\ GatesPassTheAudit'
  BY <1>1, <1>3 DEF HaltsAreCleared, AuditMissesNothing, GatesPassTheAudit
<1> QED
  BY <1>4, <1>5, <1>7, <1>8

LEMMA AuditStays == AuditInv /\ UNCHANGED auditVars => AuditInv'
BY DEF auditVars, AuditInv, AuditBook, Idle, InSession, RowsAreOfThePast, DayIsWithinCaps, HaltsAreCleared, Collected, CollectedOf,
   Hand, HandOf, InHand, FilledInHand, AuditMissesNothing, GatesPassTheAudit, ClearedBetween, Before

LEMMA AuditSteps ==
  ASSUME AuditInv, AuditNext
  PROVE  AuditInv'
BY FlagKeepsAudit, CycleKeepsAudit, GatesKeepAudit, SubmitKeepsAudit, RowKeepsAudit, CloseKeepsAudit, MinuteKeepsAudit,
   ReportKeepsAudit, DayKeepsAudit DEF AuditNext

(* session_audit.py, limits.py, paper_trading.py, cycle.py: for any limits, *)
(* book and halts, with orders filled and rows written in steps of their    *)
(* own, the audit counts every entry but the fills whose row was never      *)
(* written; no day has more entries, or more on one underlying, than the    *)
(* caps let through, though gates and audit count by different queries; and *)
(* an entry after a daily-loss halt has an operator's reset between them.   *)
THEOREM GatesAndAuditAgree == AuditSpec => [](AuditMissesNothing /\ GatesPassTheAudit)
<1>1. AuditInv /\ [AuditNext]_auditVars => AuditInv'
  BY AuditStays, AuditSteps
<1>2. AuditInv => AuditMissesNothing /\ GatesPassTheAudit
  BY DEF AuditInv
<1> QED
  BY <1>1, <1>2, AuditInvInit, PTL DEF AuditSpec

(* The order of the closes.                                                 *)
LEMMA ClosesAreOrdered ==
  ASSUME AuditBook, NEW i \in DOMAIN book, NEW j \in DOMAIN book
  PROVE  /\ ~ Sooner(i, i) /\ (i # j => Sooner(i, j) \/ Sooner(j, i)) /\ ~ (Sooner(i, j) /\ Sooner(j, i))
         /\ \A k \in DOMAIN book : Sooner(i, j) /\ Sooner(j, k) => Sooner(i, k)
<1>1. DOMAIN book \subseteq Nat
  BY DEF AuditBook
<1>2. \A k \in DOMAIN book : /\ book[k].closed = [day |-> book[k].closed.day, minute |-> book[k].closed.minute]
                             /\ book[k].closed.day \in Nat /\ book[k].closed.minute \in Nat
  <2> TAKE k \in DOMAIN book
  <2>1. book[k].closed \in Moments
    BY DaysAreWhole
  <2> QED
    BY <2>1 DEF Moments
<1>3. \A k, l \in DOMAIN book : book[k].closed = book[l].closed
        <=> book[k].closed.day = book[l].closed.day /\ book[k].closed.minute = book[l].closed.minute
  BY <1>2
<1>4. \A k, l \in DOMAIN book :
        Sooner(k, l) <=> \/ book[k].closed.day < book[l].closed.day
                         \/ /\ book[k].closed.day = book[l].closed.day
                            /\ \/ book[k].closed.minute < book[l].closed.minute
                               \/ book[k].closed.minute = book[l].closed.minute /\ k < l
  BY <1>3 DEF Sooner, Before
<1>5. \A k \in DOMAIN book : k \in Nat /\ book[k].closed.day \in Nat /\ book[k].closed.minute \in Nat
  BY <1>1, <1>2
<1>6. ~ Sooner(i, i)
  BY <1>4, <1>5
<1>7. (i # j => Sooner(i, j) \/ Sooner(j, i)) /\ ~ (Sooner(i, j) /\ Sooner(j, i))
  BY <1>4, <1>5
<1>8. ASSUME NEW k \in DOMAIN book, Sooner(i, j), Sooner(j, k) PROVE Sooner(i, k)
  <2>1. i \in Nat /\ j \in Nat /\ k \in Nat
    BY <1>5
  <2>2. /\ book[i].closed.day \in Nat /\ book[j].closed.day \in Nat /\ book[k].closed.day \in Nat
        /\ book[i].closed.minute \in Nat /\ book[j].closed.minute \in Nat /\ book[k].closed.minute \in Nat
    BY <1>5
  <2> QED
    BY <1>4, <1>8, <2>1, <2>2
<1> QED
  BY <1>6, <1>7, <1>8

(* Every place in the order has its trade.                                  *)
LEMMA ByCloseIsThere ==
  ASSUME AuditBook, NEW shown \in SUBSET DOMAIN book
  PROVE  ByClose(shown) \in Seq(shown)
<1> DEFINE n == Cardinality(shown)
           Ahead(i) == {j \in shown : Sooner(j, i)}
           place == [i \in shown |-> Cardinality(Ahead(i))]
<1>1. IsFiniteSet(shown) /\ n \in Nat
  BY RowsAreFinite
<1>2. \A i \in shown : IsFiniteSet(Ahead(i)) /\ Cardinality(Ahead(i)) \in Nat /\ Cardinality(Ahead(i)) < n
  <2> TAKE i \in shown
  <2>1. IsFiniteSet(Ahead(i)) /\ Cardinality(Ahead(i)) \in Nat
    BY RowsAreFinite
  <2>2. i \notin Ahead(i)
    BY ClosesAreOrdered
  <2>3. Cardinality(Ahead(i)) <= n /\ Cardinality(Ahead(i)) # n
    BY <1>1, <2>2, FS_Subset
  <2> QED
    BY <1>1, <2>1, <2>3
<1>3. \A i, j \in shown : Sooner(i, j) => Cardinality(Ahead(i)) < Cardinality(Ahead(j))
  <2> TAKE i, j \in shown
  <2> HAVE Sooner(i, j)
  <2>1. Ahead(i) \subseteq Ahead(j) /\ i \in Ahead(j) /\ i \notin Ahead(i)
    BY ClosesAreOrdered
  <2>2. Cardinality(Ahead(i)) <= Cardinality(Ahead(j)) /\ Cardinality(Ahead(i)) # Cardinality(Ahead(j))
    BY <1>2, <2>1, FS_Subset
  <2> QED
    BY <1>2, <2>2
<1>4. place \in Injection(shown, 0 .. n - 1)
  <2>1. place \in [shown -> 0 .. n - 1]
    BY <1>1, <1>2
  <2>2. \A i, j \in shown : place[i] = place[j] => i = j
    BY <1>2, <1>3, ClosesAreOrdered
  <2> HIDE DEF place
  <2> QED
    BY <2>1, <2>2 DEF Injection, IsInjective
<1>5. IsFiniteSet(0 .. n - 1) /\ Cardinality(0 .. n - 1) = n
  <2>1. 0 \in Int /\ n - 1 \in Int
    BY <1>1
  <2>2. Cardinality(0 .. n - 1) = IF 0 > n - 1 THEN 0 ELSE n - 1 - 0 + 1
    BY <2>1, FS_Interval
  <2> QED
    BY <1>1, <2>1, <2>2, FS_Interval
<1>6. place \in Surjection(shown, 0 .. n - 1)
  BY <1>4, <1>5, FS_Injection
<1>7. \A k \in 1 .. n : \E i \in shown : Cardinality(Ahead(i)) = k - 1
  <2> TAKE k \in 1 .. n
  <2>1. k - 1 \in 0 .. n - 1
    BY <1>1
  <2>2. PICK i \in shown : place[i] = k - 1
    BY <1>6, <2>1 DEF Surjection
  <2> QED
    BY <2>2
<1>8. \A k \in 1 .. n : (CHOOSE i \in shown : Cardinality({j \in shown : Sooner(j, i)}) = k - 1) \in shown
  BY <1>7
<1>9. ByClose(shown) = [k \in 1 .. n |-> CHOOSE i \in shown : Cardinality({j \in shown : Sooner(j, i)}) = k - 1]
  BY DEF ByClose
<1> HIDE DEF n
<1>10. ByClose(shown) \in [1 .. n -> shown]
  BY <1>8, <1>9
<1> QED
  BY <1>1, <1>10

(* A running quantity and the three of the curve.                           *)
Account(total, nets) == total = [k \in 0 .. Len(nets) |-> IF k = 0 THEN 0 ELSE total[k - 1] + nets[k]]
Curve == [total : Int, peak : Int, worst : Int]
After(c, net) ==
  LET total == c.total + net
      peak == IF total > c.peak THEN total ELSE c.peak
  IN [total |-> total, peak |-> peak, worst |-> IF peak - total > c.worst THEN peak - total ELSE c.worst]
AtStart == [total |-> 0, peak |-> 0, worst |-> 0]
IsCurve(curve, nets) == curve = [k \in 0 .. Len(nets) |-> IF k = 0 THEN AtStart ELSE After(curve[k - 1], nets[k])]

LEMMA AfterIsThere ==
  ASSUME NEW c \in Curve, NEW net \in Int
  PROVE  /\ After(c, net) \in Curve /\ After(c, net).total = c.total + net
         /\ After(c, net).peak >= c.peak /\ After(c, net).peak >= After(c, net).total
         /\ After(c, net).peak = c.peak \/ After(c, net).peak = After(c, net).total
         /\ After(c, net).worst >= c.worst /\ After(c, net).worst >= After(c, net).peak - After(c, net).total
         /\ After(c, net).worst = c.worst \/ After(c, net).worst = After(c, net).peak - After(c, net).total
<1>1. c.total \in Int /\ c.peak \in Int /\ c.worst \in Int
  BY DEF Curve
<1> DEFINE total == c.total + net
           peak == IF total > c.peak THEN total ELSE c.peak
           worst == IF peak - total > c.worst THEN peak - total ELSE c.worst
<1>2. After(c, net) = [total |-> total, peak |-> peak, worst |-> worst]
  BY DEF After
<1>3. total \in Int /\ peak \in Int /\ worst \in Int
  BY <1>1
<1>4. /\ peak >= c.peak /\ peak >= total /\ (peak = c.peak \/ peak = total)
      /\ worst >= c.worst /\ worst >= peak - total /\ (worst = c.worst \/ worst = peak - total)
  BY <1>1
<1> HIDE DEF peak, worst, total
<1>5. After(c, net).total = total /\ After(c, net).peak = peak /\ After(c, net).worst = worst /\ After(c, net) \in Curve
  BY <1>2, <1>3 DEF Curve
<1> QED
  BY <1>4, <1>5 DEF total

(* There is such a curve, one and no other: by the least place that has     *)
(* none.                                                                    *)
CurveUpTo(curve, nets, k) == curve = [n \in 0 .. k |-> IF n = 0 THEN AtStart ELSE After(curve[n - 1], nets[n])]
LEMMA FallCurveIsThere ==
  ASSUME NEW nets \in Seq(Int)
  PROVE  \E curve \in [0 .. Len(nets) -> Curve] : IsCurve(curve, nets)
<1> DEFINE bad == {j \in 0 .. Len(nets) : ~ \E curve \in [0 .. j -> Curve] : CurveUpTo(curve, nets, j)}
<1>1. Len(nets) \in Nat /\ \A k \in 1 .. Len(nets) : nets[k] \in Int
  OBVIOUS
<1>2. bad = {}
  <2> SUFFICES ASSUME bad # {} PROVE FALSE
    OBVIOUS
  <2>1. bad \in SUBSET Nat
    OBVIOUS
  <2> HIDE DEF bad
  <2>2. PICK j \in bad : \A i \in bad : j <= i
    BY <2>1, LeastElement
  <2>3. j \in 0 .. Len(nets) /\ ~ \E curve \in [0 .. j -> Curve] : CurveUpTo(curve, nets, j)
    BY DEF bad
  <2>4. CASE j = 0
    <3>1. AtStart \in Curve
      BY DEF AtStart, Curve
    <3>2. [n \in 0 .. 0 |-> AtStart] \in [0 .. 0 -> Curve] /\ CurveUpTo([n \in 0 .. 0 |-> AtStart], nets, 0)
      BY <3>1 DEF CurveUpTo
    <3> QED
      BY <2>3, <2>4, <3>2
  <2>5. CASE j # 0
    <3>1. j - 1 \in 0 .. Len(nets) /\ j - 1 \notin bad /\ nets[j] \in Int
      BY <1>1, <2>2, <2>3, <2>5
    <3>2. PICK curve \in [0 .. j - 1 -> Curve] : CurveUpTo(curve, nets, j - 1)
      BY <3>1 DEF bad
    <3> DEFINE next == [n \in 0 .. j |-> IF n = j THEN After(curve[j - 1], nets[j]) ELSE curve[n]]
    <3>3. After(curve[j - 1], nets[j]) \in Curve
      <4>1. curve[j - 1] \in Curve
        BY <2>3, <2>5, <3>1
      <4> QED
        BY <3>1, <4>1, AfterIsThere
    <3>4. next \in [0 .. j -> Curve]
      BY <2>3, <2>5, <3>3
    <3>5. \A n \in 0 .. j : next[n] = IF n = 0 THEN AtStart ELSE After(next[n - 1], nets[n])
      BY <2>3, <2>5, <3>2 DEF CurveUpTo
    <3>6. CurveUpTo(next, nets, j)
      BY <3>4, <3>5 DEF CurveUpTo
    <3> QED
      BY <2>3, <3>4, <3>6
  <2> QED
    BY <2>4, <2>5
<1>3. Len(nets) \notin bad
  BY <1>2
<1> QED
  BY <1>1, <1>3 DEF CurveUpTo, IsCurve

LEMMA CurveIsOne ==
  ASSUME NEW nets \in Seq(Int), NEW c, NEW d, IsCurve(c, nets), IsCurve(d, nets)
  PROVE  \A k \in 0 .. Len(nets) : c[k] = d[k]
<1> DEFINE bad == {n \in 0 .. Len(nets) : c[n] # d[n]}
<1> SUFFICES ASSUME bad # {} PROVE FALSE
  OBVIOUS
<1>1. bad \in SUBSET Nat
  OBVIOUS
<1> HIDE DEF bad
<1>2. PICK n \in bad : \A i \in bad : n <= i
  BY <1>1, LeastElement
<1>3. n \in 0 .. Len(nets) /\ c[n] # d[n]
  BY DEF bad
<1>4. n # 0
  BY <1>3 DEF IsCurve
<1>5. n - 1 \in 0 .. Len(nets) /\ n - 1 \notin bad
  BY <1>2, <1>3, <1>4
<1>6. c[n - 1] = d[n - 1]
  BY <1>5 DEF bad
<1> QED
  BY <1>3, <1>4, <1>6 DEF IsCurve

(* The three of the curve are the account, its highest and its worst fall.  *)
FallsTo(total, k) == {total[p[1]] - total[p[2]] : p \in {q \in (0 .. k) \X (0 .. k) : q[1] <= q[2]}}
Tells(c, total, k) ==
  /\ c.total = total[k] /\ (\A j \in 0 .. k : total[j] <= c.peak) /\ (\E j \in 0 .. k : c.peak = total[j])
  /\ (\A i, j \in 0 .. k : i <= j => total[i] - total[j] <= c.worst)
  /\ \E i, j \in 0 .. k : i <= j /\ c.worst = total[i] - total[j]

LEMMA CurveTells ==
  ASSUME NEW nets \in Seq(Int), NEW curve \in [0 .. Len(nets) -> Curve], IsCurve(curve, nets),
         NEW total \in [0 .. Len(nets) -> Int], Account(total, nets)
  PROVE  \A k \in 0 .. Len(nets) : Tells(curve[k], total, k)
<1> DEFINE bad == {n \in 0 .. Len(nets) : ~ Tells(curve[n], total, n)}
<1> SUFFICES ASSUME bad # {} PROVE FALSE
  OBVIOUS
<1>1. bad \in SUBSET Nat
  OBVIOUS
<1> HIDE DEF bad
<1>2. PICK n \in bad : \A i \in bad : n <= i
  BY <1>1, LeastElement
<1>3. n \in 0 .. Len(nets) /\ ~ Tells(curve[n], total, n)
  BY DEF bad
<1>4. \A k \in 0 .. Len(nets) : total[k] \in Int /\ curve[k] \in Curve
  OBVIOUS
<1>5. CASE n = 0
  <2>1. curve[0] = AtStart /\ total[0] = 0
    BY <1>3, <1>5 DEF IsCurve, Account
  <2>2. curve[0].total = 0 /\ curve[0].peak = 0 /\ curve[0].worst = 0
    BY <2>1 DEF AtStart
  <2>3. 0 .. 0 = {0}
    OBVIOUS
  <2>4. Tells(curve[0], total, 0)
    BY <2>1, <2>2, <2>3 DEF Tells
  <2> QED
    BY <1>3, <1>5, <2>4
<1>6. CASE n # 0
  <2>1. n - 1 \in 0 .. Len(nets) /\ n - 1 \notin bad /\ n \in 1 .. Len(nets)
    BY <1>2, <1>3, <1>6
  <2>2. Tells(curve[n - 1], total, n - 1)
    BY <2>1 DEF bad
  <2>3. PICK c \in Curve : c = curve[n - 1]
    BY <1>4, <2>1
  <2>4. PICK d \in Curve : d = curve[n]
    BY <1>3, <1>4
  <2>5. nets[n] \in Int /\ d = After(c, nets[n]) /\ total[n] = total[n - 1] + nets[n]
    BY <1>3, <1>6, <2>1, <2>3, <2>4 DEF IsCurve, Account
  <2>6. /\ d.total = c.total + nets[n]
        /\ d.peak >= c.peak /\ d.peak >= d.total /\ (d.peak = c.peak \/ d.peak = d.total)
        /\ d.worst >= c.worst /\ d.worst >= d.peak - d.total /\ (d.worst = c.worst \/ d.worst = d.peak - d.total)
    <3>1. c \in Curve /\ nets[n] \in Int /\ d = After(c, nets[n])
      BY <2>3, <2>5
    <3> QED
      BY <3>1, AfterIsThere
  <2>7. c.peak \in Int /\ c.worst \in Int /\ d.peak \in Int /\ d.worst \in Int /\ d.total \in Int
    BY DEF Curve
  <2>8. c.total = total[n - 1] /\ (\A j \in 0 .. n - 1 : total[j] <= c.peak)
        /\ (\A i, j \in 0 .. n - 1 : i <= j => total[i] - total[j] <= c.worst)
    BY <2>2, <2>3 DEF Tells
  <2>9. PICK top \in 0 .. n - 1 : c.peak = total[top]
    BY <2>2, <2>3 DEF Tells
  <2>10. PICK from \in 0 .. n - 1, to \in 0 .. n - 1 : from <= to /\ c.worst = total[from] - total[to]
    BY <2>2, <2>3 DEF Tells
  <2>11. \A j \in 0 .. n : j \in 0 .. Len(nets) /\ (j = n \/ j \in 0 .. n - 1)
    BY <1>3
  <2>12. d.total = total[n]
    BY <2>5, <2>6, <2>8
  <2>13. \A j \in 0 .. n : total[j] <= d.peak
    <3> TAKE j \in 0 .. n
    <3>1. total[j] \in Int
      BY <1>4, <2>11
    <3>2. CASE j = n
      BY <2>6, <2>12, <3>2
    <3>3. CASE j # n
      <4>1. total[j] <= c.peak
        BY <2>8, <2>11, <3>3
      <4>2. c.peak <= d.peak
        BY <2>6
      <4> QED
        BY <2>7, <3>1, <4>1, <4>2
    <3> QED
      BY <3>2, <3>3
  <2>14. \E j \in 0 .. n : d.peak = total[j]
    BY <1>3, <2>6, <2>9, <2>12
  <2>15. \A i, j \in 0 .. n : i <= j => total[i] - total[j] <= d.worst
    <3> TAKE i, j \in 0 .. n
    <3> HAVE i <= j
    <3>1. total[i] \in Int /\ total[j] \in Int /\ total[n] \in Int
      BY <1>3, <1>4, <2>11
    <3>2. CASE j = n
      BY <2>6, <2>7, <2>12, <2>13, <3>1, <3>2
    <3>3. CASE j # n
      <4>1. i \in 0 .. n - 1 /\ j \in 0 .. n - 1
        BY <1>3, <3>3
      <4>2. total[i] - total[j] <= c.worst
        BY <2>8, <4>1
      <4>3. d.worst >= c.worst
        BY <2>6
      <4>4. total[i] - total[j] \in Int /\ c.worst \in Int /\ d.worst \in Int
        BY <2>7, <3>1
      <4> QED
        BY <4>2, <4>3, <4>4
    <3> QED
      BY <3>2, <3>3
  <2>16. \E i, j \in 0 .. n : i <= j /\ d.worst = total[i] - total[j]
    <3>1. CASE d.worst = c.worst
      BY <1>3, <2>10, <3>1
    <3>2. CASE d.worst = d.peak - d.total
      <4>1. PICK i \in 0 .. n : d.peak = total[i]
        BY <2>14
      <4>2. n \in 0 .. n /\ i <= n
        BY <1>3
      <4> QED
        BY <2>12, <3>2, <4>1, <4>2
    <3> QED
      BY <2>6, <3>1, <3>2
  <2>17. Tells(d, total, n)
    BY <2>12, <2>13, <2>14, <2>15, <2>16 DEF Tells
  <2> QED
    BY <1>3, <2>4, <2>17
<1> QED
  BY <1>5, <1>6

LEMMA AccountIsThere ==
  ASSUME NEW nets \in Seq(Int), NEW curve \in [0 .. Len(nets) -> Curve], IsCurve(curve, nets)
  PROVE  \E total \in [0 .. Len(nets) -> Int] : Account(total, nets)
<1> DEFINE total == [k \in 0 .. Len(nets) |-> curve[k].total]
<1>1. \A k \in 0 .. Len(nets) : curve[k] \in Curve /\ curve[k].total \in Int
  BY DEF Curve
<1>2. total \in [0 .. Len(nets) -> Int]
  BY <1>1
<1>3. \A k \in 0 .. Len(nets) : total[k] = IF k = 0 THEN 0 ELSE total[k - 1] + nets[k]
  <2> TAKE k \in 0 .. Len(nets)
  <2>1. CASE k = 0
    <3>1. curve[0] = AtStart
      BY <2>1 DEF IsCurve
    <3> QED
      BY <2>1, <3>1 DEF AtStart
  <2>2. CASE k # 0
    <3>1. k - 1 \in 0 .. Len(nets) /\ k \in 1 .. Len(nets) /\ Len(nets) \in Nat
      BY <2>2
    <3>2. nets[k] \in Int
      BY <3>1
    <3>3. curve[k] = After(curve[k - 1], nets[k])
      BY <2>2 DEF IsCurve
    <3>4. curve[k - 1] \in Curve
      BY <1>1, <3>1
    <3>5. curve[k].total = curve[k - 1].total + nets[k]
      <4>1. PICK c \in Curve, net \in Int : c = curve[k - 1] /\ net = nets[k]
        BY <3>2, <3>4
      <4>2. After(c, net).total = c.total + net
        BY AfterIsThere
      <4> QED
        BY <3>3, <4>1, <4>2
    <3>6. total[k] = curve[k].total /\ total[k - 1] = curve[k - 1].total
      BY <3>1
    <3>7. total[k] = total[k - 1] + nets[k]
      BY <3>5, <3>6
    <3> HIDE DEF total
    <3> QED
      BY <2>2, <3>7
  <2> QED
    BY <2>1, <2>2
<1> HIDE DEF total
<1>4. Account(total, nets)
  BY <1>2, <1>3 DEF Account
<1> QED
  BY <1>2, <1>4

LEMMA DrawdownIsTheDeepestFall ==
  ASSUME NEW nets \in Seq(Int)
  PROVE  Drawdown(nets) = DeepestFall(nets)
<1>1. PICK curve \in [0 .. Len(nets) -> Curve] : IsCurve(curve, nets)
  BY FallCurveIsThere
<1>2. PICK total \in [0 .. Len(nets) -> Int] : Account(total, nets)
  BY <1>1, AccountIsThere
<1>3. Len(nets) \in Nat /\ Len(nets) \in 0 .. Len(nets)
  OBVIOUS
<1> DEFINE shown == CHOOSE c : IsCurve(c, nets)
           running == CHOOSE t : Account(t, nets)
           falls == FallsTo(running, Len(nets))
<1>4. Drawdown(nets) = shown[Len(nets)].worst
  BY DEF Drawdown, IsCurve, After, AtStart
<1>5. DeepestFall(nets) = CHOOSE f \in falls : \A g \in falls : g <= f
  BY DEF DeepestFall, FallsTo, Account
<1>6. IsCurve(shown, nets) /\ Account(running, nets)
  BY <1>1, <1>2
<1> HIDE DEF shown, running
<1>7. shown[Len(nets)] = curve[Len(nets)]
  BY <1>1, <1>3, <1>6, CurveIsOne
<1>8. \A k \in 0 .. Len(nets) : running[k] = total[k]
  <2> DEFINE bad == {n \in 0 .. Len(nets) : running[n] # total[n]}
  <2> SUFFICES ASSUME bad # {} PROVE FALSE
    OBVIOUS
  <2>1. bad \in SUBSET Nat
    OBVIOUS
  <2> HIDE DEF bad
  <2>2. PICK n \in bad : \A i \in bad : n <= i
    BY <2>1, LeastElement
  <2>3. n \in 0 .. Len(nets) /\ running[n] # total[n]
    BY DEF bad
  <2>4. n # 0
    BY <1>2, <1>6, <2>3 DEF Account
  <2>5. n - 1 \in 0 .. Len(nets) /\ n - 1 \notin bad
    BY <2>2, <2>3, <2>4
  <2>6. running[n - 1] = total[n - 1]
    BY <2>5 DEF bad
  <2> QED
    BY <1>2, <1>6, <2>3, <2>4, <2>6 DEF Account
<1>9. Tells(curve[Len(nets)], total, Len(nets))
  BY <1>1, <1>2, <1>3, CurveTells
<1>10. PICK worst \in Int : worst = curve[Len(nets)].worst
  BY <1>1, <1>3 DEF Curve
<1>11. worst \in falls /\ \A g \in falls : g \in Int /\ g <= worst
  <2>1. falls = FallsTo(total, Len(nets))
    BY <1>8 DEF FallsTo
  <2>2. \A i, j \in 0 .. Len(nets) : i <= j => total[i] - total[j] <= worst
    BY <1>9, <1>10 DEF Tells
  <2>3. PICK i \in 0 .. Len(nets), j \in 0 .. Len(nets) : i <= j /\ worst = total[i] - total[j]
    BY <1>9, <1>10 DEF Tells
  <2>4. worst \in FallsTo(total, Len(nets))
    <3>1. <<i, j>> \in {q \in (0 .. Len(nets)) \X (0 .. Len(nets)) : q[1] <= q[2]}
      BY <2>3
    <3> QED
      BY <2>3, <3>1 DEF FallsTo
  <2>5. \A g \in FallsTo(total, Len(nets)) : g \in Int /\ g <= worst
    <3> TAKE g \in FallsTo(total, Len(nets))
    <3>1. PICK p \in (0 .. Len(nets)) \X (0 .. Len(nets)) : p[1] <= p[2] /\ g = total[p[1]] - total[p[2]]
      BY DEF FallsTo
    <3>2. p[1] \in 0 .. Len(nets) /\ p[2] \in 0 .. Len(nets)
      OBVIOUS
    <3>3. total[p[1]] \in Int /\ total[p[2]] \in Int
      BY <3>2
    <3> QED
      BY <2>2, <3>1, <3>2, <3>3
  <2> QED
    BY <2>1, <2>4, <2>5
<1> HIDE DEF falls
<1>12. (CHOOSE f \in falls : \A g \in falls : g <= f) = worst
  <2>1. PICK deepest \in falls : /\ deepest = CHOOSE f \in falls : \A g \in falls : g <= f
                                 /\ \A g \in falls : g <= deepest
    BY <1>11
  <2>2. deepest <= worst /\ worst <= deepest /\ deepest \in Int
    BY <1>11, <2>1
  <2> QED
    BY <2>1, <2>2
<1> QED
  BY <1>4, <1>5, <1>7, <1>10, <1>12

LEMMA DrawdownOfTheDay == AuditBook => DrawdownIsWorst
<1> SUFFICES ASSUME AuditBook PROVE DrawdownIsWorst
  OBVIOUS
<1> DEFINE order == ByClose(ClosedOn(clock.day))
           nets == [k \in DOMAIN order |-> book[order[k]].net]
<1>1. ClosedOn(clock.day) \subseteq DOMAIN book
  BY DEF ClosedOn
<1>2. order \in Seq(ClosedOn(clock.day))
  BY <1>1, ByCloseIsThere
<1>3. \A i \in DOMAIN book : book[i].net \in Int
  BY DaysAreWhole DEF AuditRows
<1>4. Len(order) \in Nat /\ DOMAIN order = 1 .. Len(order) /\ \A k \in 1 .. Len(order) : order[k] \in ClosedOn(clock.day)
  BY <1>2
<1> HIDE DEF order
<1>5. nets \in [1 .. Len(order) -> Int]
  BY <1>1, <1>3, <1>4
<1>6. nets \in Seq(Int)
  BY <1>4, <1>5
<1>7. Drawdown(nets) = DeepestFall(nets)
  BY <1>6, DrawdownIsTheDeepestFall
<1> QED
  BY <1>7 DEF DrawdownIsWorst, order

(* What the audit says is typed.                                            *)
LEMMA GreatestRun ==
  ASSUME NEW runs \in SUBSET Nat, NEW most \in Nat, runs # {}, \A n \in runs : n <= most
  PROVE  \E n \in runs : \A m \in runs : m <= n
<1>1. runs \in SUBSET (0 .. most)
  OBVIOUS
<1> QED
  BY <1>1, GreatestElement

LEMMA LongestIsThere ==
  ASSUME AuditBook, NEW shown \in SUBSET DOMAIN book, NEW closes,
         closes = {i \in shown : book[i].closed # StillOpen}
  PROVE  /\ LongestStreak(shown) \in Nat
         /\ LongestStreak(shown) = 0 \/ \E i \in closes : LongestStreak(shown) = Cardinality(LossesUpTo(closes, i))
<1> DEFINE runs == {0} \cup {Cardinality(LossesUpTo(closes, i)) : i \in closes}
<1>1. LongestStreak(shown) = CHOOSE n \in runs : \A m \in runs : m <= n
  BY DEF LongestStreak
<1>2. IsFiniteSet(closes) /\ Cardinality(closes) \in Nat
  BY RowsAreFinite
<1>3. \A i \in closes : Cardinality(LossesUpTo(closes, i)) \in Nat /\ Cardinality(LossesUpTo(closes, i)) <= Cardinality(closes)
  <2> TAKE i \in closes
  <2>1. LossesUpTo(closes, i) \subseteq closes
    BY DEF LossesUpTo
  <2>2. LossesUpTo(closes, i) \in SUBSET DOMAIN book
    BY <2>1
  <2>3. Cardinality(LossesUpTo(closes, i)) \in Nat
    BY <2>2, RowsAreFinite
  <2> QED
    BY <1>2, <2>1, <2>3, FS_Subset
<1>4. runs \in SUBSET Nat /\ runs # {} /\ \A n \in runs : n <= Cardinality(closes)
  BY <1>2, <1>3
<1>5. \A n \in runs : n = 0 \/ \E i \in closes : n = Cardinality(LossesUpTo(closes, i))
  OBVIOUS
<1> HIDE DEF runs
<1>6. \E n \in runs : \A m \in runs : m <= n
  BY <1>2, <1>4, GreatestRun
<1>7. LongestStreak(shown) \in runs
  BY <1>1, <1>6
<1> QED
  BY <1>4, <1>5, <1>7

LEMMA AuditStaysTyped ==
  ASSUME AuditInv, AuditTypeOK, AuditNext
  PROVE  AuditTypeOK'
<1>1. /\ clock.day \in 1 .. LastAuditDay /\ clock.minute \in 1 .. (ClosingMinute + 1) /\ clock \in Moments
      /\ book \in Seq(EntryFact) /\ report \in SessionAudit /\ riskEvents \subseteq Instants /\ AuditBook
      /\ dayHalt \in {"no", "daily", "human"}
  BY DEF AuditTypeOK, AuditInv, AuditBook
<1>2. ClosingMinute \in Nat \ {0} /\ LastAuditDay \in Nat \ {0} /\ Nets \subseteq Int
  BY AuditAssumed
<1>3. (InSession => clock \in Instants) /\ fills' \in Fills /\ entryCycle' \in EntryCycle
  BY <1>1, <1>2, AuditSteps DEF InSession, Moments, Instants, AuditInv, AuditBook
<1>4. CASE LossHalt \/ OtherHalt \/ OperatorClears \/ PassLossGate \/ CycleEnds \/ CycleDies \/ PassEntryGates \/ Submit
  <2>1. UNCHANGED <<clock, book, report>> /\ dayHalt' \in {"no", "daily", "human"} /\ riskEvents' \subseteq Instants
    BY <1>1, <1>3, <1>4
       DEF LossHalt, OtherHalt, OperatorClears, PassLossGate, CycleEnds, CycleDies, PassEntryGates, Submit, BeginsCycle
  <2> QED
    BY <1>1, <1>3, <2>1 DEF AuditTypeOK
<1>10. CASE WriteRow
  <2> DEFINE row == [under |-> entryCycle.under, opened |-> clock, closed |-> StillOpen, net |-> 0]
  <2>1. book' = Append(book, row) /\ UNCHANGED <<clock, report, dayHalt, riskEvents>> /\ entryCycle.at \in {"filled", "unfilled"}
    BY <1>10 DEF WriteRow
  <2>2. entryCycle.under \in Instruments /\ clock \in Instants
    BY <1>1, <1>3, <2>1, HandIsKnown DEF InHand, AuditBook
  <2>3. row \in EntryFact
    BY <2>2 DEF EntryFact
  <2>4. book' \in Seq(EntryFact)
    BY <1>1, <2>1, <2>3
  <2> QED
    BY <1>1, <1>3, <2>1, <2>4 DEF AuditTypeOK
<1>5. CASE CloseOne
  <2>1. PICK i \in OpenNow, net \in Nets : book' = [book EXCEPT ![i].closed = clock, ![i].net = net]
    BY <1>5 DEF CloseOne
  <2>2. UNCHANGED <<clock, report, dayHalt, riskEvents>> /\ clock \in Instants
    BY <1>3, <1>5 DEF CloseOne
  <2>3. PICK old \in EntryFact, moment \in Instants : old = book[i] /\ moment = clock
    BY <1>1, <2>2 DEF OpenNow
  <2>4. PICK row : row = [old EXCEPT !.closed = moment, !.net = net]
    OBVIOUS
  <2>5. row \in EntryFact
    BY <2>3, <2>4 DEF EntryFact
  <2>6. book' = [book EXCEPT ![i] = row]
    BY <1>1, <2>1, <2>3, <2>4 DEF OpenNow
  <2>7. book' \in Seq(EntryFact)
    BY <1>1, <2>5, <2>6 DEF OpenNow
  <2> QED
    BY <1>1, <1>3, <2>2, <2>7 DEF AuditTypeOK
<1>7. CASE NextMinute
  <2>1. clock' = [clock EXCEPT !.minute = @ + 1] /\ UNCHANGED <<book, report, dayHalt, riskEvents>> /\ InSession
    BY <1>7 DEF NextMinute
  <2>2. clock'.day = clock.day /\ clock'.minute = clock.minute + 1
    BY <1>1, <2>1 DEF Moments
  <2>3. clock'.minute \in 1 .. (ClosingMinute + 1)
    BY <1>1, <1>2, <2>1, <2>2 DEF InSession
  <2> QED
    BY <1>1, <1>3, <2>1, <2>2, <2>3 DEF AuditTypeOK
<1>8. CASE RunAudit
  <2> DEFINE dayRows == Collected(clock.day)
  <2>1. report' = [fills |-> fills, entries |-> AuditOf(clock.day).entries, streak |-> AuditOf(clock.day).streak,
                   findings |-> AuditOf(clock.day).findings]
        /\ UNCHANGED <<clock, book, dayHalt, riskEvents>>
    BY <1>8 DEF RunAudit
  <2>2. /\ AuditOf(clock.day).entries = Cardinality(dayRows) /\ AuditOf(clock.day).streak = LongestStreak(dayRows)
        /\ AuditOf(clock.day).findings = OverCaps(dayRows) \cup LeftOpen(dayRows) \cup AfterHalt(dayRows)
    BY DEF AuditOf
  <2>3. dayRows \subseteq DOMAIN book
    BY DEF Collected
  <2>4. Cardinality(dayRows) \in Nat /\ LongestStreak(dayRows) \in Nat /\ fills \in Fills
    BY <1>1, <2>3, RowsAreFinite, LongestIsThere DEF AuditBook
  <2>5. \A p \in BOOLEAN, rule \in AuditRules : Found(rule, p) \subseteq AuditRules
    BY DEF Found
  <2>6. OverCaps(dayRows) \subseteq AuditRules /\ LeftOpen(dayRows) \subseteq AuditRules /\ AfterHalt(dayRows) \subseteq AuditRules
    BY DEF OverCaps, LeftOpen, AfterHalt, Found, AuditRules
  <2>7. report' \in SessionAudit
    BY <2>1, <2>2, <2>4, <2>6 DEF SessionAudit
  <2> QED
    BY <1>1, <1>3, <2>1, <2>7 DEF AuditTypeOK
<1>9. CASE NewDay
  <2>1. clock' = [day |-> clock.day + 1, minute |-> 1] /\ report' = NoReport /\ riskEvents' = {} /\ UNCHANGED book
        /\ clock.day < LastAuditDay /\ dayHalt' \in {"no", "daily", "human"}
    BY <1>1, <1>9 DEF NewDay
  <2>2. clock'.day = clock.day + 1 /\ clock'.minute = 1
    BY <2>1
  <2>3. NoReport \in SessionAudit
    BY DEF NoReport, NoFills, Fills, SessionAudit
  <2> QED
    BY <1>1, <1>2, <1>3, <2>1, <2>2, <2>3 DEF AuditTypeOK
<1> QED
  BY <1>4, <1>5, <1>7, <1>8, <1>9, <1>10 DEF AuditNext

(* The streak. While a day's trades close one by one and are its own, the   *)
(* losses the gate sees, the positions still open and the order in hand are *)
(* bounded together: the gates need both below their caps, a row turns the  *)
(* order into a position and a close a position into a loss.                *)
Calm == ClosedOneByOne(clock.day) /\ ClosedOn(clock.day) \subseteq Collected(clock.day)
LossesAhead(d) == {i \in ClosedOn(d) : \A j \in ClosedOn(d) : j = i \/ Newer(j, i) => book[j].net < 0}
StreakCap == MaxLosses + MaxPositions - 1
StreakInv ==
  /\ Cardinality(OpenNow) + Hand <= MaxPositions
  /\ \A i \in DOMAIN book : ~ Before(clock, book[i].closed)
  /\ Calm => /\ StreakNow(clock.day) + Cardinality(OpenNow) + Hand <= StreakCap
             /\ \A i \in ClosedOn(clock.day) : Cardinality(LossesUpTo(ClosedOn(clock.day), i)) <= StreakCap
             /\ report.streak <= StreakCap

LEMMA StreakCounts ==
  ASSUME AuditBook
  PROVE  /\ IsFiniteSet(OpenNow) /\ Cardinality(OpenNow) \in Nat /\ StreakCap \in Nat
         /\ \A d : IsFiniteSet(LossesAhead(d)) /\ StreakNow(d) = Cardinality(LossesAhead(d)) /\ StreakNow(d) \in Nat
         /\ \A d, i : Cardinality(LossesUpTo(ClosedOn(d), i)) \in Nat
<1>1. OpenNow \subseteq DOMAIN book /\ \A d : LossesAhead(d) \in SUBSET DOMAIN book /\ \A i : LossesUpTo(ClosedOn(d), i) \in SUBSET DOMAIN book
  BY DEF OpenNow, LossesAhead, ClosedOn, LossesUpTo
<1>2. StreakCap \in Nat
  BY AuditAssumed DEF StreakCap
<1>3. \A d : StreakNow(d) = Cardinality(LossesAhead(d))
  BY DEF StreakNow, LossesAhead
<1> QED
  BY <1>1, <1>2, <1>3, RowsAreFinite

LEMMA CapsAddUp ==
  /\ \A t, o \in Nat : t < MaxLosses /\ o < MaxPositions => t + (o + 1) <= StreakCap
  /\ \A o \in Int : o <= MaxPositions => o <= StreakCap
BY AuditAssumed DEF StreakCap

LEMMA StreakInvInit == AuditInit => StreakInv
<1> SUFFICES ASSUME AuditInit PROVE StreakInv
  OBVIOUS
<1>1. book = <<>> /\ DOMAIN book = {} /\ report.streak = 0 /\ Hand = 0
  BY DEF AuditInit, NoReport, Hand, InHand
<1>2. OpenNow = {} /\ ClosedOn(clock.day) = {} /\ LossesAhead(clock.day) = {}
  BY <1>1 DEF OpenNow, ClosedOn, LossesAhead
<1>3. Cardinality({}) = 0 /\ StreakCap \in Nat /\ MaxPositions \in Nat
  BY FS_EmptySet, AuditAssumed DEF StreakCap
<1>4. StreakNow(clock.day) = 0
  BY <1>2, <1>3 DEF StreakNow
<1> QED
  BY <1>1, <1>2, <1>3, <1>4 DEF StreakInv

(* A row: what was in hand is open.                                         *)
LEMMA RowKeepsStreak ==
  ASSUME AuditInv, StreakInv, WriteRow
  PROVE  StreakInv'
<1> USE DEF AuditInv
<1> DEFINE row == [under |-> entryCycle.under, opened |-> clock, closed |-> StillOpen, net |-> 0]
           new == Len(book) + 1
           d == clock.day
<1>1. book' = Append(book, row) /\ entryCycle' = [at |-> "entries"] /\ entryCycle.at \in {"filled", "unfilled"}
      /\ UNCHANGED <<clock, report>>
  BY DEF WriteRow
<1>2. entryCycle.under \in Instruments /\ Hand = 1 /\ Hand' = 0
  BY <1>1, HandIsKnown, HandFree DEF InHand, Hand
<1>3. /\ DOMAIN book' = DOMAIN book \cup {new} /\ new \notin DOMAIN book
      /\ book'[new] = row /\ \A i \in DOMAIN book : book'[i] = book[i]
  <2>1. row \in AuditRows /\ book \in Seq(AuditRows)
    BY <1>2 DEF AuditBook, AuditRows, StillOpen, Moments
  <2> HIDE DEF row
  <2> QED
    BY <1>1, <2>1, RowAppended
<1>4. book'[new].closed = StillOpen /\ book'[new].closed.day = 0 /\ book'[new].opened = clock /\ d \in Nat \ {0}
      /\ clock.minute \in Nat
  BY <1>3, DaysAreWhole DEF StillOpen
<1> HIDE DEF new, row
<1>5. OpenNow' = OpenNow \cup {new} /\ new \notin OpenNow
  BY <1>3, <1>4 DEF OpenNow
<1>6. ClosedOn(d)' = ClosedOn(d) /\ new \notin ClosedOn(d) /\ ClosedOn(d) \subseteq DOMAIN book
  BY <1>1, <1>3, <1>4 DEF ClosedOn
<1>7. \A i, j \in ClosedOn(d) : /\ (Newer(i, j)' <=> Newer(i, j)) /\ (Sooner(i, j)' <=> Sooner(i, j))
                                /\ book'[i].net = book[i].net /\ book'[i].closed = book[i].closed
  BY <1>3, <1>6 DEF Newer, Sooner, Before
<1>8. LossesAhead(d)' = LossesAhead(d)
  BY <1>1, <1>6, <1>7 DEF LossesAhead
<1>9. \A i \in ClosedOn(d) : LossesUpTo(ClosedOn(d), i)' = LossesUpTo(ClosedOn(d), i)
  BY <1>1, <1>6, <1>7 DEF LossesUpTo
<1>10. Cardinality(OpenNow') = Cardinality(OpenNow) + 1 /\ Cardinality(OpenNow) \in Nat /\ StreakNow(d) \in Nat
       /\ StreakNow(d) = Cardinality(LossesAhead(d))
  BY <1>5, StreakCounts, FS_AddElement
<1>11. StreakNow(d)' = StreakNow(d)
  <2>1. StreakNow(d)' = Cardinality(LossesAhead(d)')
    BY DEF StreakNow, LossesAhead
  <2> QED
    BY <1>8, <1>10, <2>1
<1>12. Cardinality(OpenNow') + Hand' = Cardinality(OpenNow) + Hand
       /\ StreakNow(d)' + Cardinality(OpenNow') + Hand' = StreakNow(d) + Cardinality(OpenNow) + Hand
  BY <1>2, <1>10, <1>11
<1>13. \A i \in DOMAIN book' : ~ Before(clock', book'[i].closed)
  BY <1>1, <1>3, <1>4 DEF StreakInv, Before
<1>14. Calm' => Calm
  <2>1. Collected(d)' = Collected(d) \cup {new}
    BY <1>1, <1>3, <1>4 DEF Collected
  <2> QED
    BY <1>1, <1>6, <1>7, <2>1 DEF Calm, ClosedOneByOne
<1> QED
  BY <1>1, <1>6, <1>9, <1>12, <1>13, <1>14 DEF StreakInv

(* A close, the newest of its day.                                          *)
LEMMA CloseKeepsStreak ==
  ASSUME AuditInv, StreakInv, CloseOne
  PROVE  StreakInv'
<1> USE DEF AuditInv
<1>1. PICK i \in OpenNow, net \in Nets : book' = [book EXCEPT ![i].closed = clock, ![i].net = net]
  BY DEF CloseOne
<1> DEFINE d == clock.day
<1>2. UNCHANGED <<clock, report, entryCycle>> /\ Hand' = Hand /\ Hand \in {0, 1}
  BY DEF CloseOne, Hand, InHand
<1>3. i \in DOMAIN book /\ net \in Int /\ clock \in Moments /\ book[i] \in AuditRows /\ d \in Nat \ {0} /\ clock.minute \in Nat
  BY AuditAssumed, DaysAreWhole DEF OpenNow, AuditBook
<1>4. PICK old \in AuditRows, moment \in Moments : old = book[i] /\ moment = clock
  BY <1>3
<1>5. PICK row : row = [old EXCEPT !.closed = moment, !.net = net]
  OBVIOUS
<1>6. row \in AuditRows /\ row.opened = old.opened /\ row.closed = moment /\ row.net = net
  BY <1>3, <1>5 DEF AuditRows
<1>7. book' = [book EXCEPT ![i] = row]
  BY <1>1, <1>3, <1>4, <1>5 DEF AuditBook
<1>8. /\ DOMAIN book' = DOMAIN book /\ \A j \in DOMAIN book \ {i} : book'[j] = book[j]
      /\ book'[i].closed = clock /\ book'[i].net = net /\ \A j \in DOMAIN book : book'[j].opened = book[j].opened
  BY <1>3, <1>4, <1>6, <1>7
<1>9. OpenNow' = OpenNow \ {i} /\ i \in OpenNow
  <2>1. clock # StillOpen
    BY <1>3 DEF StillOpen
  <2> QED
    BY <1>3, <1>8, <2>1 DEF OpenNow
<1>10. ClosedOn(d)' = ClosedOn(d) \cup {i} /\ i \notin ClosedOn(d) /\ ClosedOn(d) \subseteq DOMAIN book
  BY <1>2, <1>3, <1>8 DEF ClosedOn, OpenNow, StillOpen
<1>11. \A j \in DOMAIN book' : ~ Before(clock', book'[j].closed)
  BY <1>2, <1>3, <1>8 DEF StreakInv, Before
<1>12. Cardinality(OpenNow') = Cardinality(OpenNow) - 1 /\ Cardinality(OpenNow) \in Nat /\ Cardinality(OpenNow') \in Nat
  <2>1. Cardinality(OpenNow \ {i}) = Cardinality(OpenNow) - 1 /\ IsFiniteSet(OpenNow \ {i})
    BY <1>9, StreakCounts, FS_RemoveElement
  <2> QED
    BY <1>9, <2>1, StreakCounts, FS_CardinalityType
<1>13. ASSUME Calm'
       PROVE  /\ StreakNow(d)' + Cardinality(OpenNow)' + Hand' <= StreakCap
              /\ \A x \in ClosedOn(d)' : Cardinality(LossesUpTo(ClosedOn(d), x)') <= StreakCap
              /\ report'.streak <= StreakCap
  <2>1. ClosedOneByOne(d)' /\ ClosedOn(d)' \subseteq Collected(d)'
    BY <1>2, <1>13 DEF Calm
  <2>2. \A x, y \in ClosedOn(d) : book'[x] = book[x] /\ (book[x].closed = book[y].closed => x = y)
    BY <1>8, <1>10, <2>1 DEF ClosedOneByOne
  <2>3. Calm
    <3>1. Collected(d)' = Collected(d)
      BY <1>2, <1>8 DEF Collected
    <3> QED
      BY <1>10, <2>1, <2>2, <3>1 DEF Calm, ClosedOneByOne
  <2>4. /\ StreakNow(d) + Cardinality(OpenNow) + Hand <= StreakCap /\ report.streak <= StreakCap
        /\ \A x \in ClosedOn(d) : Cardinality(LossesUpTo(ClosedOn(d), x)) <= StreakCap
    BY <2>3 DEF StreakInv
  <2>5. \A x \in ClosedOn(d) : Before(book[x].closed, clock) /\ ~ Before(clock, book[x].closed) /\ book[x].closed # clock
    <3> TAKE x \in ClosedOn(d)
    <3>1. book'[x].closed # book'[i].closed
      BY <1>10, <2>1 DEF ClosedOneByOne
    <3>2. x \in DOMAIN book /\ book[x].closed # clock /\ ~ Before(clock, book[x].closed)
      BY <1>8, <1>10, <2>2, <3>1 DEF StreakInv
    <3>3. book[x].closed \in Moments
      BY <3>2, DaysAreWhole
    <3>4. Before(book[x].closed, clock)
      BY <1>3, <3>2, <3>3 DEF Before, Moments
    <3> QED
      BY <3>2, <3>4
  <2>6. \A x, y \in ClosedOn(d) : (Newer(x, y)' <=> Newer(x, y)) /\ (Sooner(x, y)' <=> Sooner(x, y))
    BY <2>2 DEF Newer, Sooner
  <2>7. \A x \in ClosedOn(d) : Newer(i, x)' /\ ~ Newer(x, i)' /\ Sooner(x, i)' /\ ~ Sooner(i, x)'
    BY <1>8, <2>2, <2>5 DEF Newer, Sooner
  <2>8. ~ Newer(i, i)' /\ ~ Sooner(i, i)'
    BY <1>3, <1>8, DaysAreWhole DEF Newer, Sooner, Before, AuditBook
  <2>9. StreakNow(d)' = Cardinality(LossesAhead(d)')
    BY DEF StreakNow, LossesAhead
  <2>10. StreakNow(d)' + Cardinality(OpenNow)' + Hand' <= StreakCap /\ StreakNow(d)' \in Nat
    <3>1. CASE net < 0
      <4>1. LossesAhead(d)' = LossesAhead(d) \cup {i}
        BY <1>2, <1>8, <1>10, <2>2, <2>6, <2>7, <2>8, <3>1 DEF LossesAhead
      <4>2. i \notin LossesAhead(d)
        BY <1>10 DEF LossesAhead
      <4>3. Cardinality(LossesAhead(d) \cup {i}) = StreakNow(d) + 1 /\ StreakNow(d) \in Nat
        BY <4>2, StreakCounts, FS_AddElement
      <4> QED
        BY <1>2, <1>12, <2>4, <2>9, <4>1, <4>3, StreakCounts
    <3>2. CASE ~ (net < 0)
      <4>1. LossesAhead(d)' = {}
        BY <1>2, <1>8, <1>10, <2>7, <3>2 DEF LossesAhead
      <4>2. StreakNow(d)' = 0
        BY <2>9, <4>1, FS_EmptySet
      <4>3. Cardinality(OpenNow) + Hand <= MaxPositions
        BY DEF StreakInv
      <4>4. Cardinality(OpenNow') + Hand' \in Int /\ Cardinality(OpenNow') + Hand' <= MaxPositions
        BY <1>2, <1>12, <4>3, AuditAssumed
      <4>5. Cardinality(OpenNow') + Hand' <= StreakCap
        BY <4>4, CapsAddUp
      <4> QED
        BY <1>2, <1>12, <4>2, <4>5
    <3> QED
      BY <3>1, <3>2
  <2>11. \A x \in ClosedOn(d) : LossesUpTo(ClosedOn(d), x)' = LossesUpTo(ClosedOn(d), x)
    BY <1>2, <1>10, <2>2, <2>6, <2>7 DEF LossesUpTo
  <2>12. LossesUpTo(ClosedOn(d), i)' = LossesAhead(d)'
    <3>1. \A x, y \in ClosedOn(d) : ~ Sooner(x, y) <=> x = y \/ Newer(x, y)
      <4> TAKE x, y \in ClosedOn(d)
      <4>1. x \in DOMAIN book /\ y \in DOMAIN book /\ (book[x].closed = book[y].closed => x = y)
        BY <1>10, <2>2
      <4>2. ~ Sooner(x, x)
        BY <4>1, ClosesAreOrdered
      <4>3. x # y => (Sooner(x, y) \/ Sooner(y, x)) /\ ~ (Sooner(x, y) /\ Sooner(y, x))
        BY <4>1, ClosesAreOrdered
      <4>4. x # y => (Newer(x, y) <=> Sooner(y, x))
        BY <4>1 DEF Newer, Sooner
      <4> QED
        BY <4>2, <4>3, <4>4, <4>1 DEF Newer
    <3>2. \A x, y \in ClosedOn(d)' : ~ Sooner(x, y)' <=> x = y \/ Newer(x, y)'
      BY <1>10, <2>6, <2>7, <2>8, <3>1
    <3>3. \A y \in ClosedOn(d)' : ~ Sooner(i, y)'
      BY <1>10, <2>7, <2>8
    <3> QED
      BY <1>2, <3>2, <3>3 DEF LossesUpTo, LossesAhead
  <2>13. Cardinality(LossesUpTo(ClosedOn(d), i)') <= StreakCap
    BY <1>2, <1>12, <2>9, <2>10, <2>12, StreakCounts
  <2>14. \A x \in ClosedOn(d)' : Cardinality(LossesUpTo(ClosedOn(d), x)') <= StreakCap
    <3>1. \A x \in ClosedOn(d) : Cardinality(LossesUpTo(ClosedOn(d), x)') <= StreakCap
      BY <2>4, <2>11
    <3> QED
      BY <1>10, <2>13, <3>1
  <2> QED
    BY <1>2, <2>4, <2>10, <2>14
<1>14. Cardinality(OpenNow)' + Hand' <= MaxPositions
  BY <1>2, <1>12, AuditAssumed DEF StreakInv
<1> QED
  BY <1>2, <1>11, <1>13, <1>14 DEF StreakInv

(* What every other step leaves of the streak.                              *)
LEMMA OthersKeepStreak ==
  ASSUME AuditInv, StreakInv, UNCHANGED <<book, report>>, clock'.day = clock.day, Hand' \in {0, 1}, Hand' <= Hand,
         \A i \in DOMAIN book : ~ Before(clock', book[i].closed)
  PROVE  StreakInv'
<1> DEFINE d == clock.day
<1>1. OpenNow' = OpenNow /\ ClosedOn(d)' = ClosedOn(d) /\ StreakNow(d)' = StreakNow(d) /\ Calm' = Calm
      /\ \A i : LossesUpTo(ClosedOn(d), i)' = LossesUpTo(ClosedOn(d), i)
  <2>1. OpenNow' = OpenNow /\ ClosedOn(d)' = ClosedOn(d) /\ Collected(d)' = Collected(d)
    BY DEF OpenNow, ClosedOn, Collected
  <2>2. StreakNow(d)' = StreakNow(d)
    BY <2>1 DEF StreakNow, Newer, Before
  <2>3. \A i : LossesUpTo(ClosedOn(d), i)' = LossesUpTo(ClosedOn(d), i)
    BY <2>1 DEF LossesUpTo, Sooner, Before
  <2>4. Calm' = Calm
    BY <2>1 DEF Calm, ClosedOneByOne
  <2> QED
    BY <2>1, <2>2, <2>3, <2>4
<1>2. \A i \in DOMAIN book' : ~ Before(clock', book'[i].closed)
  OBVIOUS
<1>3. /\ Cardinality(OpenNow) \in Nat /\ StreakNow(d) \in Nat /\ StreakCap \in Nat /\ Hand \in {0, 1} /\ MaxPositions \in Nat
      /\ Cardinality(OpenNow') = Cardinality(OpenNow)
  BY <1>1, StreakCounts, AuditAssumed DEF AuditInv, Hand
<1>4. /\ Cardinality(OpenNow') + Hand' <= MaxPositions
      /\ Calm => StreakNow(d)' + Cardinality(OpenNow') + Hand' <= StreakCap
  BY <1>1, <1>3 DEF StreakInv
<1> QED
  BY <1>1, <1>2, <1>4 DEF StreakInv

(* A step that takes nothing in hand.                                       *)
LEMMA FlagKeepsStreak ==
  ASSUME AuditInv, StreakInv, UNCHANGED <<clock, book, report>>, Hand' \in {0, 1}, Hand' <= Hand
  PROVE  StreakInv'
<1>1. \A i \in DOMAIN book : ~ Before(clock', book[i].closed)
  BY DEF StreakInv, Before
<1> QED
  BY <1>1, OthersKeepStreak

LEMMA CycleKeepsStreak ==
  ASSUME AuditInv, StreakInv,
         LossHalt \/ OtherHalt \/ OperatorClears \/ PassLossGate \/ CycleEnds \/ CycleDies \/ Submit
  PROVE  StreakInv'
<1> USE DEF AuditInv
<1>1. UNCHANGED <<clock, book, report>>
  BY DEF LossHalt, OtherHalt, OperatorClears, PassLossGate, CycleEnds, CycleDies, Submit
<1>2. Hand \in {0, 1}
  BY DEF Hand
<1>3. CASE UNCHANGED entryCycle
  BY <1>1, <1>2, <1>3, FlagKeepsStreak DEF Hand, InHand
<1>4. CASE \E place \in {"idle", "entries"} : entryCycle' = [at |-> place]
  <2>1. Hand' = 0
    BY <1>4, HandFree
  <2> QED
    BY <1>1, <1>2, <2>1, FlagKeepsStreak
<1>5. CASE entryCycle.at = "gated" /\ \E place \in {"filled", "unfilled"} : entryCycle' = [entryCycle EXCEPT !.at = place]
  <2>1. Hand' = Hand
    BY <1>5, HandSent
  <2> QED
    BY <1>1, <1>2, <2>1, FlagKeepsStreak
<1> QED
  BY <1>3, <1>4, <1>5 DEF LossHalt, OtherHalt, OperatorClears, PassLossGate, CycleEnds, CycleDies, Submit

(* The gates saw the losses of the day and the positions open.              *)
LEMMA GatesKeepStreak ==
  ASSUME AuditInv, StreakInv, PassEntryGates
  PROVE  StreakInv'
<1> USE DEF AuditInv
<1> DEFINE d == clock.day
<1>1. PICK u \in Instruments : MayEnter(u, d) /\ entryCycle' = [at |-> "gated", under |-> u]
  BY DEF PassEntryGates
<1>2. UNCHANGED <<clock, book, report>> /\ Hand' = 1
  BY <1>1 DEF PassEntryGates, Hand, InHand
<1>3. OpenNow' = OpenNow /\ ClosedOn(d)' = ClosedOn(d) /\ StreakNow(d)' = StreakNow(d) /\ Calm' = Calm
      /\ \A i : LossesUpTo(ClosedOn(d), i)' = LossesUpTo(ClosedOn(d), i)
  <2>1. OpenNow' = OpenNow /\ ClosedOn(d)' = ClosedOn(d) /\ Collected(d)' = Collected(d)
    BY <1>2 DEF OpenNow, ClosedOn, Collected
  <2> QED
    BY <1>2, <2>1 DEF StreakNow, Newer, Before, LossesUpTo, Sooner, Calm, ClosedOneByOne
<1>4. StreakNow(d) < MaxLosses /\ Cardinality(OpenNow) < MaxPositions
  BY <1>1 DEF MayEnter
<1>5. PICK t \in Nat, o \in Nat : t = StreakNow(d) /\ o = Cardinality(OpenNow)
  BY StreakCounts
<1>6. t + (o + 1) <= StreakCap /\ o + 1 <= MaxPositions /\ StreakCap \in Nat
  BY <1>4, <1>5, CapsAddUp, StreakCounts, AuditAssumed
<1>7. Cardinality(OpenNow)' + Hand' <= MaxPositions /\ StreakNow(d)' + Cardinality(OpenNow)' + Hand' <= StreakCap
  <2>1. Cardinality(OpenNow)' = o /\ StreakNow(d)' = t
    BY <1>3, <1>5
  <2> QED
    BY <1>2, <1>5, <1>6, <2>1
<1>8. \A i \in DOMAIN book' : ~ Before(clock', book'[i].closed)
  BY <1>2 DEF StreakInv, Before
<1> QED
  BY <1>2, <1>3, <1>7, <1>8 DEF StreakInv

LEMMA MinuteKeepsStreak ==
  ASSUME AuditInv, StreakInv, NextMinute
  PROVE  StreakInv'
<1>1. clock' = [clock EXCEPT !.minute = @ + 1] /\ UNCHANGED <<book, report>> /\ Hand' \in {0, 1} /\ Hand' <= Hand
  BY DEF NextMinute, Hand, InHand
<1>2. clock'.day = clock.day /\ clock'.minute = clock.minute + 1
  BY <1>1 DEF AuditInv, AuditBook, Moments
<1>3. \A i \in DOMAIN book : ~ Before(clock', book[i].closed)
  <2> TAKE i \in DOMAIN book
  <2>1. ~ Before(clock, book[i].closed) /\ book[i].closed \in Moments /\ clock.day \in Nat /\ clock.minute \in Nat
    BY DaysAreWhole DEF StreakInv, AuditInv
  <2> QED
    BY <1>2, <2>1 DEF Before, Moments
<1> QED
  BY <1>1, <1>2, <1>3, OthersKeepStreak

(* The audit: on a calm day its trades are those the gates counted.         *)
LEMMA ReportKeepsStreak ==
  ASSUME AuditInv, StreakInv, RunAudit
  PROVE  StreakInv'
<1> USE DEF AuditInv
<1> DEFINE d == clock.day
           closes == {i \in Collected(d) : book[i].closed # StillOpen}
<1>1. UNCHANGED <<clock, book, entryCycle>> /\ Hand' = Hand
  BY DEF RunAudit, Hand, InHand
<1>2. report'.streak = LongestStreak(Collected(d))
  <2>1. report' = [fills |-> fills, entries |-> AuditOf(d).entries, streak |-> AuditOf(d).streak, findings |-> AuditOf(d).findings]
    BY DEF RunAudit
  <2>2. AuditOf(d).streak = LongestStreak(Collected(d))
    BY DEF AuditOf
  <2> QED
    BY <2>1, <2>2
<1>3. ASSUME Calm PROVE report'.streak <= StreakCap
  <2>1. Collected(d) \in SUBSET DOMAIN book /\ ClosedOn(d) \subseteq Collected(d)
    BY <1>3 DEF Collected, Calm
  <2>2. d # 0 /\ \A i \in DOMAIN book : book[i].closed.day \in Nat
    BY DaysAreWhole DEF Moments
  <2>3. \A i \in closes : i \in ClosedOn(d)
    <3> TAKE i \in closes
    <3>1. i \in DOMAIN book /\ book[i].opened.day = d /\ book[i].closed # StillOpen
      BY DEF Collected
    <3>2. book[i].closed.day = d
      BY <3>1, DaysAreWhole DEF RowsAreOfThePast, StreakInv, Before, Moments
    <3> QED
      BY <3>1, <3>2 DEF ClosedOn
  <2>4. \A i \in ClosedOn(d) : i \in closes
    BY <2>1, <2>2 DEF ClosedOn, StillOpen
  <2>5. closes = ClosedOn(d)
    BY <2>3, <2>4
  <2> HIDE DEF closes
  <2>6. LongestStreak(Collected(d)) = 0 \/ \E i \in ClosedOn(d) : LongestStreak(Collected(d)) = Cardinality(LossesUpTo(ClosedOn(d), i))
    <3>1. closes = {i \in Collected(d) : book[i].closed # StillOpen}
      BY DEF closes
    <3> QED
      BY <2>1, <2>5, <3>1, LongestIsThere
  <2>7. \A i \in ClosedOn(d) : Cardinality(LossesUpTo(ClosedOn(d), i)) <= StreakCap
    BY <1>3 DEF StreakInv
  <2>8. StreakCap \in Nat
    BY StreakCounts
  <2> QED
    BY <1>2, <2>6, <2>7, <2>8
<1>4. OpenNow' = OpenNow /\ ClosedOn(d)' = ClosedOn(d) /\ StreakNow(d)' = StreakNow(d) /\ Calm' = Calm
      /\ \A i : LossesUpTo(ClosedOn(d), i)' = LossesUpTo(ClosedOn(d), i)
  <2>1. OpenNow' = OpenNow /\ ClosedOn(d)' = ClosedOn(d) /\ Collected(d)' = Collected(d)
    BY <1>1 DEF OpenNow, ClosedOn, Collected
  <2>2. StreakNow(d)' = StreakNow(d)
    BY <1>1, <2>1 DEF StreakNow, Newer, Before
  <2>3. \A i : LossesUpTo(ClosedOn(d), i)' = LossesUpTo(ClosedOn(d), i)
    BY <1>1, <2>1 DEF LossesUpTo, Sooner, Before
  <2>4. Calm' = Calm
    BY <1>1, <2>1 DEF Calm, ClosedOneByOne
  <2> QED
    BY <2>1, <2>2, <2>3, <2>4
<1>5. \A i \in DOMAIN book' : ~ Before(clock', book'[i].closed)
  BY <1>1 DEF StreakInv, Before
<1> QED
  BY <1>1, <1>3, <1>4, <1>5 DEF StreakInv

(* The next day nothing is closed yet.                                      *)
LEMMA DayKeepsStreak ==
  ASSUME AuditInv, StreakInv, NewDay
  PROVE  StreakInv'
<1> USE DEF AuditInv
<1>1. clock' = [day |-> clock.day + 1, minute |-> 1] /\ report' = NoReport /\ book' = book /\ Hand' = 0 /\ Hand = 0
  BY HandIsKnown DEF NewDay, AuditBook, Idle, Hand, InHand
<1>2. clock'.day = clock.day + 1 /\ clock'.minute = 1 /\ report'.streak = 0
  BY <1>1 DEF NoReport
<1>3. \A i \in DOMAIN book : book[i].closed.day \in Nat /\ book[i].closed.day <= clock.day
  BY DaysAreWhole DEF StreakInv, Before, Moments
<1>4. OpenNow' = OpenNow /\ ClosedOn(clock.day)' = {}
  <2>1. \A i \in DOMAIN book : book[i].closed.day # clock.day + 1
    BY <1>3, DaysAreWhole
  <2> QED
    BY <1>1, <1>2, <2>1 DEF OpenNow, ClosedOn
<1>5. StreakNow(clock.day)' = 0
  <2>1. LossesAhead(clock.day)' = {}
    BY <1>4 DEF LossesAhead
  <2>2. StreakNow(clock.day)' = Cardinality(LossesAhead(clock.day)')
    BY DEF StreakNow, LossesAhead
  <2> QED
    BY <2>1, <2>2, FS_EmptySet
<1>6. \A i \in DOMAIN book' : ~ Before(clock', book'[i].closed)
  BY <1>1, <1>2, <1>3, DaysAreWhole DEF Before
<1>7. Cardinality(OpenNow)' + Hand' <= MaxPositions /\ StreakCap \in Nat
  BY <1>1, <1>4, StreakCounts DEF StreakInv
<1>8. StreakNow(clock.day)' + Cardinality(OpenNow)' + Hand' <= StreakCap
  <2>1. PICK o \in Nat : o = Cardinality(OpenNow)
    BY StreakCounts
  <2>2. o <= StreakCap
    BY <1>1, <2>1, CapsAddUp DEF StreakInv
  <2>3. Cardinality(OpenNow)' = o
    BY <1>4, <2>1
  <2> QED
    BY <1>1, <1>5, <2>2, <2>3
<1> QED
  BY <1>2, <1>4, <1>6, <1>7, <1>8 DEF StreakInv

(* session_audit.py, limits.py, paper_trading.py, cycle.py, trade_stats.py: *)
(* for any caps, book, trades and halts, with the order, its fill and its   *)
(* row in steps of their own, the audit misses the fills whose row was      *)
(* never written and no others; no day is over the caps on entries, and an  *)
(* entry after a daily-loss halt has an operator's reset between the two;   *)
(* on a day whose trades close one by one and are its own the losses in a   *)
(* row stay within the cap and the positions that may be open; and the      *)
(* drawdown is the deepest fall of the account.                             *)
THEOREM AuditStaysIndependent == AuditSpec => []AuditIsIndependent
<1> DEFINE DayInv == AuditInv /\ AuditTypeOK /\ StreakInv
<1>1. AuditInit => DayInv
  <2> SUFFICES ASSUME AuditInit PROVE AuditTypeOK
    BY AuditInvInit, StreakInvInit
  <2>1. clock = [day |-> 1, minute |-> ClosingMinute] /\ book = <<>> /\ riskEvents = {} /\ report = NoReport /\ dayHalt = "no"
        /\ fills = NoFills /\ entryCycle = [at |-> "idle"]
    BY DEF AuditInit
  <2>2. clock.day \in 1..LastAuditDay /\ clock.minute \in 1..(ClosingMinute + 1)
    BY <2>1, AuditAssumed
  <2>3. NoReport \in SessionAudit /\ NoFills \in Fills /\ entryCycle \in EntryCycle
    BY <2>1 DEF NoReport, NoFills, Fills, SessionAudit, EntryCycle
  <2> QED
    BY <2>1, <2>2, <2>3 DEF AuditTypeOK
<1>2. DayInv /\ [AuditNext]_auditVars => DayInv'
  <2> SUFFICES ASSUME DayInv, [AuditNext]_auditVars PROVE DayInv'
    OBVIOUS
  <2>1. CASE UNCHANGED auditVars
    <3>1. AuditInv'
      BY <2>1, AuditStays
    <3>2. AuditTypeOK'
      BY <2>1 DEF auditVars, AuditTypeOK
    <3>3. StreakInv'
      <4>1. UNCHANGED <<clock, book, report>> /\ Hand' = Hand /\ Hand \in {0, 1}
        BY <2>1 DEF auditVars, Hand, InHand
      <4> QED
        BY <4>1, FlagKeepsStreak
    <3> QED
      BY <3>1, <3>2, <3>3
  <2>2. CASE AuditNext
    <3>1. AuditInv'
      BY <2>2, AuditSteps
    <3>2. AuditTypeOK'
      BY <2>2, AuditStaysTyped
    <3>3. StreakInv'
      BY <2>2, CycleKeepsStreak, GatesKeepStreak, RowKeepsStreak, CloseKeepsStreak, MinuteKeepsStreak, ReportKeepsStreak,
         DayKeepsStreak DEF AuditNext
    <3> QED
      BY <3>1, <3>2, <3>3
  <2> QED
    BY <2>1, <2>2
<1>3. DayInv => AuditIsIndependent
  <2> SUFFICES ASSUME DayInv PROVE AuditIsIndependent
    OBVIOUS
  <2>1. StreakIsBounded
    BY DEF StreakInv, StreakIsBounded, Calm, StreakCap
  <2>2. DrawdownIsWorst
    BY DrawdownOfTheDay DEF AuditInv
  <2> QED
    BY <2>1, <2>2 DEF AuditInv, AuditIsIndependent
<1> QED
  BY <1>1, <1>2, <1>3, PTL DEF AuditSpec
=================================================================================

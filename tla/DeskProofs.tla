------------------------------- MODULE DeskProofs -------------------------------
(***************************************************************************)
(* Proofs about the components around the trading loop: the account and    *)
(* its drawdown breaker, the approvals, the switch into live mode, the     *)
(* order rate limiter, the monitors' chart and halts, the scheduled jobs,  *)
(* the marks of a cycle, and the bar recorder, for every tape and with any *)
(* number of replays and restarts.                                         *)
(***************************************************************************)
EXTENDS Account, Approvals, LiveGate, RateLimit, Monitors, Jobs, CycleMarks, BarRecorder,
        FiniteSetTheorems, WellFoundedInduction, TLAPS

-----------------------------------------------------------------------------
(* Induction and running sums.                                              *)

(* A set of numbers has a least one.                                        *)
LEMMA LeastElement ==
  ASSUME NEW T \in SUBSET Nat, T # {}
  PROVE  \E x \in T : \A y \in T : x <= y
<1> DEFINE Before == {ss \in Nat \X Nat : ss[1] < ss[2]}
<1>1. IsWellFoundedOn(Before, Nat)
  BY NatLessThanWellFounded DEF OpToRel
<1> HIDE DEF Before
<1>2. PICK x \in T : \A y \in T : ~ (<<y, x>> \in Before)
  BY <1>1, WFMin
<1>3. \A y \in T : ~ (y < x)
  BY <1>2 DEF Before
<1> QED
  BY <1>3

(* Induction over the natural numbers, as a fact about sets of them.        *)
LEMMA SetInduction ==
  ASSUME NEW S, 0 \in S, \A n \in Nat : n \in S => n + 1 \in S
  PROVE  Nat \subseteq S
<1> SUFFICES ASSUME Nat \ S # {} PROVE FALSE
  OBVIOUS
<1>1. PICK x \in Nat \ S : \A y \in Nat \ S : x <= y
  BY LeastElement
<1>2. x # 0 /\ x - 1 \in Nat
  BY <1>1
<1>3. x - 1 \in S
  BY <1>1, <1>2
<1> QED
  BY <1>1, <1>2, <1>3

(* The running sums of w from the m-th on.                                  *)
IsSums(f, K, m, w) == \A i \in 0 .. K : f[i] = IF i <= m THEN 0 ELSE f[i - 1] + w[i]

(* Two lists that are the same up to K, and a function with numbers up to K. *)
AgreeUpTo(K, w, v) == \A i \in 1 .. K : w[i] = v[i]
Whole(f, K) == \A i \in 0 .. K : f[i] \in Int

(* There are running sums of any finite list of numbers.                    *)
LEMMA SumsExist ==
  ASSUME NEW K \in Nat, NEW m \in Nat, NEW w, \A i \in 1 .. K : w[i] \in Int
  PROVE  \E f \in [0 .. K -> Int] : IsSums(f, K, m, w)
<1> DEFINE S == {n \in Nat : n <= K => \E f \in [0 .. n -> Int] : IsSums(f, n, m, w)}
<1>1. 0 \in S
  <2> DEFINE f == [i \in 0 .. 0 |-> 0]
  <2>1. f \in [0 .. 0 -> Int] /\ IsSums(f, 0, m, w)
    BY DEF IsSums
  <2> QED
    BY <2>1
<1>2. ASSUME NEW n \in Nat, n \in S PROVE n + 1 \in S
  <2> SUFFICES ASSUME n + 1 <= K
               PROVE  \E g \in [0 .. n + 1 -> Int] : IsSums(g, n + 1, m, w)
    OBVIOUS
  <2>1. PICK f \in [0 .. n -> Int] : IsSums(f, n, m, w)
    BY <1>2
  <2> DEFINE v == IF n + 1 <= m THEN 0 ELSE f[n] + w[n + 1]
             g == [i \in 0 .. n + 1 |-> IF i = n + 1 THEN v ELSE f[i]]
  <2>2. v \in Int
    BY <2>1
  <2>3. g \in [0 .. n + 1 -> Int]
    <3> HIDE DEF v
    <3> QED
      BY <2>2
  <2>4. \A i \in 0 .. n : g[i] = f[i] /\ g[n + 1] = v
    <3> HIDE DEF v
    <3> QED
      OBVIOUS
  <2>5. ASSUME NEW i \in 0 .. n + 1 PROVE g[i] = IF i <= m THEN 0 ELSE g[i - 1] + w[i]
    <3> HIDE DEF g
    <3>1. CASE i = n + 1
      BY <3>1, <2>4
    <3>2. CASE i # n + 1
      <4>1. i \in 0 .. n /\ (~(i <= m) => i - 1 \in 0 .. n)
        BY <3>2
      <4>2. f[i] = IF i <= m THEN 0 ELSE f[i - 1] + w[i]
        BY <4>1, <2>1 DEF IsSums
      <4> QED
        BY <2>4, <4>1, <4>2
    <3> QED
      BY <3>1, <3>2
  <2>6. IsSums(g, n + 1, m, w)
    BY <2>5 DEF IsSums
  <2> QED
    BY <2>3, <2>6
<1>3. Nat \subseteq S
  <2> HIDE DEF S
  <2> QED
    BY <1>1, <1>2, SetInduction
<1> QED
  BY <1>3

(* And they are the same up to where the lists are.                         *)
LEMMA SumsAgree ==
  ASSUME NEW K \in Nat, NEW M \in Nat, NEW m \in Nat, NEW w, NEW v, NEW f, NEW g,
         IsSums(f, K, m, w), IsSums(g, M, m, v),
         K <= M, AgreeUpTo(K, w, v)
  PROVE  f[K] = g[K]
<1> DEFINE S == {n \in Nat : n <= K => f[n] = g[n]}
<1>1. 0 \in S
  BY DEF IsSums
<1>2. ASSUME NEW n \in Nat, n \in S PROVE n + 1 \in S
  <2> SUFFICES ASSUME n + 1 <= K PROVE f[n + 1] = g[n + 1]
    OBVIOUS
  <2>1. f[n + 1] = IF n + 1 <= m THEN 0 ELSE f[n] + w[n + 1]
    BY DEF IsSums
  <2>2. g[n + 1] = IF n + 1 <= m THEN 0 ELSE g[n] + v[n + 1]
    BY DEF IsSums
  <2>3. w[n + 1] = v[n + 1]
    BY DEF AgreeUpTo
  <2> QED
    BY <1>2, <2>1, <2>2, <2>3
<1>3. Nat \subseteq S
  <2> HIDE DEF S
  <2> QED
    BY <1>1, <1>2, SetInduction
<1> QED
  BY <1>3

-----------------------------------------------------------------------------
(* The account.                                                             *)

(* SumFrom is the last of the running sums.                                 *)
LEMMA SumFromIsSums ==
  ASSUME NEW s \in Seq(Int), NEW m \in Nat
  PROVE  \E f : Whole(f, Len(s)) /\ IsSums(f, Len(s), m, s) /\ SumFrom(s, m) = f[Len(s)]
<1> DEFINE P(f) == f = [i \in 0 .. Len(s) |-> IF i <= m THEN 0 ELSE f[i - 1] + s[i]]
<1>0. Len(s) \in Nat /\ \A i \in 1 .. Len(s) : s[i] \in Int
  OBVIOUS
<1>1. PICK f \in [0 .. Len(s) -> Int] : IsSums(f, Len(s), m, s)
  BY <1>0, SumsExist
<1>2. P(f)
  BY <1>1 DEF IsSums
<1> DEFINE c == CHOOSE h : P(h)
<1>3. P(c)
  <2> HIDE DEF P
  <2> QED
    BY <1>2
<1>4. SumFrom(s, m) = c[Len(s)]
  BY DEF SumFrom
<1> HIDE DEF c
<1>5. IsSums(c, Len(s), m, s) /\ DOMAIN c = 0 .. Len(s)
  BY <1>3 DEF IsSums
<1>6. ASSUME NEW n \in 0 .. Len(s) PROVE c[n] = f[n]
  <2>1. IsSums(c, n, m, s) /\ AgreeUpTo(n, s, s) /\ n \in Nat /\ n <= Len(s)
    BY <1>0, <1>5 DEF IsSums, AgreeUpTo
  <2> QED
    BY <1>0, <1>1, <2>1, SumsAgree
<1>7. Whole(c, Len(s))
  BY <1>1, <1>6 DEF Whole
<1> QED
  BY <1>4, <1>5, <1>7

(* One trade more adds its own result.                                      *)
LEMMA SumFromAppend ==
  ASSUME NEW s \in Seq(Int), NEW x \in Int, NEW m \in 0 .. Len(s)
  PROVE  SumFrom(s, m) \in Int /\ SumFrom(Append(s, x), m) = SumFrom(s, m) + x
<1> DEFINE t == Append(s, x)
<1>1. /\ t \in Seq(Int) /\ Len(t) = Len(s) + 1 /\ t[Len(s) + 1] = x
      /\ m \in Nat /\ Len(s) \in Nat /\ \A i \in 1 .. Len(s) : s[i] = t[i]
  OBVIOUS
<1> HIDE DEF t
<1>2. PICK f : Whole(f, Len(s)) /\ IsSums(f, Len(s), m, s) /\ SumFrom(s, m) = f[Len(s)]
  BY <1>1, SumFromIsSums
<1>3. PICK g : Whole(g, Len(t)) /\ IsSums(g, Len(t), m, t) /\ SumFrom(t, m) = g[Len(t)]
  BY <1>1, SumFromIsSums
<1>4. f[Len(s)] = g[Len(s)]
  <2>1. /\ Len(s) \in Nat /\ Len(t) \in Nat /\ Len(s) <= Len(t) /\ m \in Nat
        /\ AgreeUpTo(Len(s), s, t)
    BY <1>1 DEF AgreeUpTo
  <2> QED
    BY <1>2, <1>3, <2>1, SumsAgree
<1>5. g[Len(s) + 1] = g[Len(s)] + x
  <2>1. Len(s) + 1 \in 0 .. Len(t) /\ ~(Len(s) + 1 <= m) /\ (Len(s) + 1) - 1 = Len(s)
    BY <1>1
  <2>2. g[Len(s) + 1] = g[(Len(s) + 1) - 1] + t[Len(s) + 1]
    BY <1>3, <2>1 DEF IsSums
  <2> QED
    BY <1>1, <2>1, <2>2
<1>6. SumFrom(s, m) \in Int /\ SumFrom(t, m) = SumFrom(s, m) + x
  BY <1>1, <1>2, <1>3, <1>4, <1>5 DEF Whole
<1> QED
  BY <1>6 DEF t

LEMMA SumFromEmpty == SumFrom(<<>>, 0) = 0
<1>1. <<>> \in Seq(Int) /\ Len(<<>>) = 0
  OBVIOUS
<1>2. PICK h : Whole(h, 0) /\ IsSums(h, 0, 0, <<>>) /\ SumFrom(<<>>, 0) = h[0]
  BY <1>1, SumFromIsSums
<1> QED
  BY <1>2 DEF IsSums

-----------------------------------------------------------------------------
(* What the drawdown breaker rests on: unless the watermark may be of        *)
(* another account, it is no higher than the account has been, and a cycle   *)
(* under way gates on the capital and the anchor that are stored.            *)
WatermarkIsReached ==
  ~excused =>
    /\ peak # NoValue => peak <= top
    /\ cycle # NoCycle => cycle.capital = stored.capital /\ cycle.since = since
AccountInv == AccountTypeOK /\ stored.capital > 0 /\ Equity <= top /\ WatermarkIsReached

LEMMA AccountInvInit == AccountInit => AccountInv
<1> SUFFICES ASSUME AccountInit PROVE AccountInv
  OBVIOUS
<1>1. /\ stored \in [saved : BOOLEAN, capital : Nat, loss : Nat] /\ stored.capital > 0
      /\ stored.capital = SeedCapital
  BY AccountAssumption DEF AccountInit
<1>2. AccountTypeOK
  <2>1. trades \in Seq(Int) /\ Len(trades) = 0 /\ SeedCapital \in Int
    BY AccountAssumption DEF AccountInit
  <2>2. cycle \in [capital : Int, loss : Int, since : Nat]
    BY DEF AccountInit, NoCycle, NoValue
  <2>3. excused \in BOOLEAN
    BY Zenon DEF AccountInit
  <2> QED
    BY <1>1, <2>1, <2>2, <2>3, AccountBoundsAssumption
       DEF AccountInit, AccountTypeOK, AccountBounds, NoValue
<1>3. Equity = SeedCapital
  BY <1>1, SumFromEmpty, AccountAssumption DEF AccountInit, Equity, Realized
<1>4. WatermarkIsReached
  BY DEF AccountInit, WatermarkIsReached
<1> QED
  BY <1>1, <1>2, <1>3, <1>4, AccountAssumption DEF AccountInit, AccountInv

(* The sums the account is made of are numbers.                             *)
LEMMA EquityType ==
  ASSUME AccountTypeOK
  PROVE  /\ Equity \in Int /\ CycleEquity \in Int /\ Today \in Int
         /\ \A m \in 0 .. Len(trades) : SumFrom(trades, m) \in Int
<1>1. \A m \in Nat : SumFrom(trades, m) \in Int
  <2> TAKE m \in Nat
  <2>1. trades \in Seq(Int) /\ Len(trades) \in Nat
    BY DEF AccountTypeOK
  <2>2. PICK f : Whole(f, Len(trades)) /\ SumFrom(trades, m) = f[Len(trades)]
    BY <2>1, SumFromIsSums
  <2> QED
    BY <2>1, <2>2 DEF Whole
<1>2. /\ since \in Nat /\ today \in Nat /\ unrealized \in Int /\ stored.capital \in Int
      /\ cycle.since \in Nat /\ cycle.capital \in Int
  BY DEF AccountTypeOK
<1>3. Equity = stored.capital + SumFrom(trades, since) + unrealized
  BY DEF Equity, Realized
<1>4. CycleEquity = cycle.capital + SumFrom(trades, cycle.since) + unrealized
  BY DEF CycleEquity, Realized
<1>5. SumFrom(trades, since) \in Int /\ SumFrom(trades, cycle.since) \in Int
  BY <1>1, <1>2
<1>6. Equity \in Int /\ CycleEquity \in Int
  BY <1>2, <1>3, <1>4, <1>5
<1>7. Today \in Int
  BY <1>1, <1>2 DEF Today
<1>8. \A m \in 0 .. Len(trades) : SumFrom(trades, m) \in Int
  <2>1. Len(trades) \in Nat
    BY DEF AccountTypeOK
  <2> QED
    BY <1>1, <2>1
<1> QED
  BY <1>6, <1>7, <1>8

LEMMA AccountInvNext == AccountInv /\ [AccountNext]_accountVars => AccountInv'
<1> SUFFICES ASSUME AccountInv, [AccountNext]_accountVars PROVE AccountInv'
  OBVIOUS
<1>0. /\ AccountTypeOK /\ stored.capital > 0 /\ Equity <= top /\ WatermarkIsReached
      /\ Equity \in Int /\ CycleEquity \in Int
      /\ \A m \in 0 .. Len(trades) : SumFrom(trades, m) \in Int
      /\ unrealized \in Int /\ top \in Int /\ peak \in Int /\ since \in 0 .. Len(trades)
      /\ trades \in Seq(Int) /\ Len(trades) \in Nat
  BY EquityType DEF AccountInv, AccountTypeOK
<1>1. ASSUME NEW c \in Capitals, NEW l \in LossLimits, Save(c, l) PROVE AccountInv'
  <2>1. CASE ~Accepted(c, l)
    <3>1. UNCHANGED <<stored, since, peak, top, excused, trades, unrealized, today, halt, cycle>>
      BY <1>1, <2>1 DEF Save
    <3>2. saves' \in 0 .. MaxSaves
      BY <1>0, <1>1, AccountBoundsAssumption DEF Save, AccountTypeOK, AccountBounds
    <3> QED
      BY <1>0, <3>1, <3>2, Zenon
         DEF AccountInv, AccountTypeOK, Equity, Realized, WatermarkIsReached
  <2>2. CASE Accepted(c, l)
    <3>0. c \in Nat \ {0} /\ l \in Nat
      BY AccountAssumption
    <3>1. /\ stored' = [saved |-> TRUE, capital |-> c, loss |-> l]
          /\ UNCHANGED <<trades, unrealized, today, halt, cycle>>
          /\ top' = IF c # stored.capital THEN c + SumFrom(trades, since') + unrealized ELSE top
          /\ excused' = IF c = stored.capital THEN excused
                        ELSE cycle # NoCycle \/ (~stored.saved /\ peak # NoValue)
          /\ IF Rebases(c) THEN since' = Len(trades) /\ peak' = NoValue ELSE UNCHANGED <<since, peak>>
      BY <1>1, <2>2, Zenon DEF Save, Forgotten
    <3>2. since' \in 0 .. Len(trades) /\ peak' \in Int
      BY <1>0, <3>1 DEF NoValue
    <3>3. SumFrom(trades, since') \in Int
      BY <1>0, <3>2
    <3>4. top' \in Int /\ Equity' <= top'
      <4>1. Equity' = c + SumFrom(trades, since') + unrealized
        BY <3>1 DEF Equity, Realized
      <4>2. CASE c # stored.capital
        BY <1>0, <3>0, <3>1, <3>3, <4>1, <4>2
      <4>3. CASE c = stored.capital
        <5>1. since' = since
          BY <3>1, <4>3 DEF Rebases
        <5>2. Equity' = Equity
          BY <4>1, <4>3, <5>1 DEF Equity, Realized
        <5> QED
          BY <1>0, <3>1, <4>3, <5>2
      <4> QED
        BY <4>2, <4>3
    <3>5. AccountTypeOK'
      <4>1. saves' \in 0 .. MaxSaves
        BY <1>0, <1>1, AccountBoundsAssumption DEF Save, AccountTypeOK, AccountBounds
      <4>2. excused' \in BOOLEAN
        BY <1>0, <3>1, Zenon DEF AccountTypeOK
      <4>3. stored' \in [saved : BOOLEAN, capital : Nat, loss : Nat]
        BY <3>0, <3>1
      <4> QED
        BY <1>0, <3>1, <3>2, <3>4, <4>1, <4>2, <4>3 DEF AccountTypeOK
    <3>6. WatermarkIsReached'
      <4>1. CASE c = stored.capital
        <5>1. UNCHANGED <<since, peak, top, excused>> /\ stored'.capital = stored.capital
          BY <3>1, <4>1 DEF Rebases
        <5> QED
          BY <1>0, <3>1, <5>1 DEF WatermarkIsReached
      <4>2. CASE c # stored.capital
        <5>1. ~excused' => cycle' = NoCycle /\ peak' = NoValue
          BY <3>1, <4>2, Zenon DEF Rebases
        <5> QED
          BY <5>1, Zenon DEF WatermarkIsReached
      <4> QED
        BY <4>1, <4>2
    <3>7. stored'.capital > 0
      BY <3>0, <3>1
    <3> QED
      BY <3>4, <3>5, <3>6, <3>7 DEF AccountInv
  <2> QED
    BY <2>1, <2>2
<1>2. CASE CycleReads
  <2>0. /\ cycle' = [capital |-> stored.capital, loss |-> Clamped(stored.loss, stored.capital),
                     since |-> since]
        /\ UNCHANGED <<stored, since, peak, trades, unrealized, today, halt, top, excused, saves>>
    BY <1>2, Zenon DEF CycleReads, account
  <2>1. cycle' \in [capital : Int, loss : Int, since : Nat]
    BY <1>0, <2>0 DEF AccountTypeOK, Clamped, Lower, LossCeiling
  <2>2. AccountTypeOK'
    BY <1>0, <2>0, <2>1, Zenon DEF AccountTypeOK
  <2>3. WatermarkIsReached' /\ Equity' = Equity
    BY <1>0, <2>0 DEF WatermarkIsReached, Equity, Realized
  <2> QED
    BY <1>0, <2>0, <2>2, <2>3, Zenon DEF AccountInv
<1>3. CASE CycleGates
  <2>1. /\ cycle' = NoCycle /\ cycle # NoCycle
        /\ UNCHANGED <<stored, since, trades, unrealized, today, top, excused, saves>>
        /\ peak' = peak \/ peak' = Ratchet(CycleEquity)
        /\ halt' = halt \/ halt' = "daily" \/ halt' = "human"
    BY <1>3, Zenon DEF CycleGates
  <2>2. peak' \in Int
    BY <1>0, <2>1 DEF Ratchet, Higher
  <2>3. AccountTypeOK'
    BY <1>0, <2>1, <2>2 DEF AccountTypeOK, NoCycle, NoValue
  <2>4. WatermarkIsReached'
    <3>1. ~excused => CycleEquity = Equity
      BY <1>0, <2>1, Zenon DEF WatermarkIsReached, Equity, CycleEquity, Realized
    <3>2. ~excused /\ peak' = Ratchet(CycleEquity) => peak' <= top
      BY <1>0, <3>1 DEF WatermarkIsReached, Ratchet, Higher
    <3> QED
      BY <1>0, <2>1, <3>2, Zenon DEF WatermarkIsReached
  <2> QED
    BY <1>0, <2>1, <2>3, <2>4, Zenon DEF AccountInv, Equity, Realized
<1>4. ASSUME NEW u \in Marks, MarkMoves(u) PROVE AccountInv'
  <2>0. u \in Int
    BY AccountAssumption
  <2>1. /\ unrealized' = u /\ top' = Higher(top, Equity - unrealized + u)
        /\ UNCHANGED <<stored, since, peak, trades, today, halt, cycle, excused, saves>>
    BY <1>4, Zenon DEF MarkMoves, account
  <2>2. Equity' = Equity - unrealized + u
    <3>1. SumFrom(trades, since) \in Int /\ stored.capital \in Int
      BY <1>0 DEF AccountTypeOK
    <3>2. Equity' = stored.capital + SumFrom(trades, since) + u
      BY <2>1, Zenon DEF Equity, Realized
    <3>3. Equity = stored.capital + SumFrom(trades, since) + unrealized
      BY DEF Equity, Realized
    <3>4. unrealized \in Int
      BY <1>0
    <3> QED
      BY <2>0, <3>1, <3>2, <3>3, <3>4
  <2>3. top' \in Int /\ Equity' <= top' /\ top <= top'
    BY <1>0, <2>0, <2>1, <2>2 DEF Higher
  <2>4. AccountTypeOK'
    BY <1>0, <2>0, <2>1, <2>3 DEF AccountTypeOK
  <2>5. WatermarkIsReached'
    BY <1>0, <2>1, <2>3 DEF WatermarkIsReached
  <2> QED
    BY <1>0, <2>1, <2>3, <2>4, <2>5, Zenon DEF AccountInv
<1>5. ASSUME NEW n \in Nets, CloseTrade(n) PROVE AccountInv'
  <2>0. n \in Int
    BY AccountAssumption
  <2>1. /\ unrealized' = 0 /\ top' = Higher(top, Equity - unrealized + n)
        /\ trades' = Append(trades, n) /\ Len(trades) < MaxTrades
        /\ UNCHANGED <<stored, since, peak, today, halt, cycle, excused, saves>>
    BY <1>5, Zenon DEF CloseTrade, account
  <2>2. Equity' = Equity - unrealized + n
    <3>1. SumFrom(trades', since) = SumFrom(trades, since) + n
      BY <1>0, <2>0, <2>1, SumFromAppend
    <3>2. SumFrom(trades, since) \in Int /\ stored.capital \in Int
      BY <1>0 DEF AccountTypeOK
    <3>3. Equity' = stored.capital + (SumFrom(trades, since) + n) + 0
      BY <2>1, <3>1, Zenon DEF Equity, Realized
    <3>4. Equity = stored.capital + SumFrom(trades, since) + unrealized
      BY DEF Equity, Realized
    <3>5. unrealized \in Int
      BY <1>0
    <3> QED
      BY <2>0, <3>2, <3>3, <3>4, <3>5
  <2>3. top' \in Int /\ Equity' <= top' /\ top <= top'
    BY <1>0, <2>0, <2>1, <2>2 DEF Higher
  <2>4. AccountTypeOK'
    <3>1. trades' \in Seq(Int) /\ Len(trades') = Len(trades) + 1
      BY <1>0, <2>0, <2>1
    <3>2. Len(trades') <= MaxTrades
      BY <1>0, <2>1, <3>1, AccountBoundsAssumption DEF AccountBounds
    <3>3. {since, today} \subseteq 0 .. Len(trades')
      <4>1. {since, today} \subseteq 0 .. Len(trades)
        BY <1>0 DEF AccountTypeOK
      <4> QED
        BY <1>0, <3>1, <4>1
    <3> QED
      BY <1>0, <2>1, <2>3, <3>1, <3>2, <3>3 DEF AccountTypeOK
  <2>5. WatermarkIsReached'
    BY <1>0, <2>1, <2>3 DEF WatermarkIsReached
  <2> QED
    BY <1>0, <2>1, <2>3, <2>4, <2>5, Zenon DEF AccountInv
<1>6. CASE NewDay \/ OperatorResets \/ UNCHANGED accountVars
  <2>1. /\ UNCHANGED <<stored, since, peak, trades, unrealized, cycle, top, excused, saves>>
        /\ today' = today \/ today' = Len(trades)
        /\ halt' = halt \/ halt' = "none"
    BY <1>6 DEF NewDay, OperatorResets, accountVars, account
  <2>2. AccountTypeOK'
    BY <1>0, <2>1 DEF AccountTypeOK
  <2> QED
    BY <1>0, <2>1, <2>2, Zenon DEF AccountInv, Equity, Realized, WatermarkIsReached
<1> QED
  BY <1>1, <1>2, <1>3, <1>4, <1>5, <1>6 DEF AccountNext

(* The inductive invariant of the account.                                  *)
THEOREM AccountInvariant == AccountSpec => []AccountInv
BY AccountInvInit, AccountInvNext, PTL DEF AccountSpec

(* A breach measured from a lower watermark is one from a higher one.       *)
LEMMA BreachFromBelow ==
  ASSUME NEW e \in Int, NEW p \in Int, NEW t \in Int, p <= t, DrawdownBreached(e, p)
  PROVE  DrawdownBreached(e, t)
<1> DEFINE pct == DrawdownPct
<1>1. pct \in 1 .. 20
  BY AccountAssumption
<1>2. p > 0 /\ (p - e) * 100 >= pct * p
  BY DEF DrawdownBreached
<1> HIDE DEF pct
<1>3. pct * (t - p) <= 100 * (t - p)
  BY <1>1
<1>4. pct * t = pct * p + pct * (t - p)
  BY <1>1
<1>5. (t - e) * 100 >= pct * t
  <2>1. pct * p \in Int /\ pct * (t - p) \in Int
    BY <1>1
  <2> QED
    BY <1>2, <1>3, <1>4, <2>1
<1> QED
  BY <1>2, <1>5 DEF DrawdownBreached, pct

(* The breaker (check_max_drawdown) halts an account for a loss it has made *)
(* since its capital was last changed: for any capitals, results, limits    *)
(* and order of saves, cycles and quotes.                                   *)
THEOREM DrawdownIsReal == AccountSpec => NoFalseDrawdown
<1>1. AccountInv /\ [AccountNext]_accountVars =>
        [halt # "human" /\ halt' = "human" => excused \/ DrawdownBreached(Equity, top)]_accountVars
  <2> SUFFICES ASSUME AccountInv, AccountNext, halt # "human", halt' = "human", ~excused
               PROVE  DrawdownBreached(Equity, top)
    BY Zenon
  <2>1. CycleGates
    BY DEF AccountNext, Save, CycleReads, MarkMoves, CloseTrade, NewDay, OperatorResets
  <2>2. cycle # NoCycle /\ peak' = Ratchet(CycleEquity) /\ DrawdownBreached(CycleEquity, peak')
    BY <2>1 DEF CycleGates
  <2>3. CycleEquity = Equity
    BY <2>2, Zenon DEF AccountInv, WatermarkIsReached, Equity, CycleEquity, Realized
  <2>4. AccountTypeOK
    BY DEF AccountInv
  <2>5. Equity \in Int /\ peak \in Int /\ top \in Int
    BY <2>4, EquityType DEF AccountTypeOK
  <2>6. peak' \in Int /\ peak' <= top
    BY <2>2, <2>3, <2>5 DEF AccountInv, WatermarkIsReached, Ratchet, Higher
  <2> QED
    BY <2>2, <2>3, <2>5, <2>6, BreachFromBelow
<1> QED
  BY <1>1, AccountInvariant, PTL DEF AccountSpec, NoFalseDrawdown

-----------------------------------------------------------------------------
(* Approvals.                                                               *)

Write == [id : Ids, to : Final]
Begun == [at : {"begun"}, now : Nat]
Reading == [at : {"read"}, now : Nat, writes : SUBSET Write]

(* What a request has read as pending is pending until some request commits *)
(* it; from then on the row counts as crossed for whoever still holds it.   *)
ApprovalInv ==
  /\ status \in [Ids -> Statuses] /\ expires \in [Ids -> Nat] /\ clock \in 0 .. MaxTime
  /\ handler \in [Requests -> {Idle} \cup Begun \cup Reading]
  /\ crossed \subseteq Ids
  /\ \A r \in Requests : handler[r].at = "read" =>
       \A w \in handler[r].writes : status[w.id] = "pending" \/ w.id \in crossed

LEMMA ApprovalInvInit == ApprovalInit => ApprovalInv
BY ApprovalAssumption DEF ApprovalInit, ApprovalInv, Idle, Statuses

(* Reading rows as pending keeps the invariant.                             *)
LEMMA ReadsKeepsInv ==
  ASSUME ApprovalInv, NEW r \in Requests, handler[r].at = "begun", NEW writes,
         \A w \in writes : w \in [id : Ids, to : Statuses],
         \A w \in writes : w.to # status[w.id] => w.to \in Final /\ status[w.id] = "pending",
         Reads(r, writes)
  PROVE  ApprovalInv'
<1> DEFINE kept == {w \in writes : w.to # status[w.id]}
<1>1. kept \in SUBSET Write
  BY DEF Write
<1>2. handler[r].now \in Nat
  BY DEF ApprovalInv, Begun, Reading, Idle
<1>3. [at |-> "read", now |-> handler[r].now, writes |-> kept] \in Reading
  BY <1>1, <1>2 DEF Reading
<1>4. handler' \in [Requests -> {Idle} \cup Begun \cup Reading]
  BY <1>3 DEF Reads, ApprovalInv
<1>5. \A s \in Requests : handler'[s].at = "read" =>
        \A w \in handler'[s].writes : status[w.id] = "pending" \/ w.id \in crossed
  BY DEF Reads, ApprovalInv
<1> QED
  BY <1>4, <1>5 DEF Reads, ApprovalInv

(* One commit: whoever else had read a row this one writes finds it crossed. *)
LEMMA CommitKeepsInv ==
  ASSUME ApprovalInv, NEW r \in Requests, Commit(r)
  PROVE  ApprovalInv'
<1>1. handler[r] \in Reading
  BY DEF Commit, ApprovalInv, Begun, Reading, Idle
<1>2. \A i \in WrittenBy(r) : (CHOOSE w \in handler[r].writes : w.id = i).to \in Final
  <2> SUFFICES ASSUME NEW i \in WrittenBy(r)
               PROVE  (CHOOSE w \in handler[r].writes : w.id = i).to \in Final
    OBVIOUS
  <2>1. \E w \in handler[r].writes : w.id = i
    BY DEF WrittenBy
  <2>2. (CHOOSE w \in handler[r].writes : w.id = i) \in handler[r].writes
    BY <2>1
  <2> QED
    BY <1>1, <2>2 DEF Reading, Write
<1>3. status' \in [Ids -> Statuses]
  BY <1>2 DEF Commit, ApprovalInv, Statuses
<1>4. handler' \in [Requests -> {Idle} \cup Begun \cup Reading]
  BY DEF Commit, ApprovalInv
<1>5. crossed \subseteq crossed' /\ crossed' \subseteq Ids
  BY <1>1 DEF Commit, ApprovalInv, WrittenBy, Reading, Write
<1>6. ASSUME NEW s \in Requests, handler'[s].at = "read", NEW w \in handler'[s].writes
      PROVE  status'[w.id] = "pending" \/ w.id \in crossed'
  <2>1. s # r /\ handler'[s] = handler[s]
    BY <1>6 DEF Commit, ApprovalInv, Idle
  <2>2. handler[s].at = "read" /\ w \in handler[s].writes
    BY <2>1, <1>6
  <2>3. w.id \in Ids /\ w.id \in WrittenBy(s)
    BY <2>2 DEF ApprovalInv, Reading, Begun, Idle, Write, WrittenBy
  <2>4. CASE w.id \in WrittenBy(r)
    BY <2>1, <2>2, <2>3, <2>4 DEF Commit
  <2>5. CASE w.id \notin WrittenBy(r)
    <3>1. status'[w.id] = status[w.id]
      BY <2>3, <2>5 DEF Commit
    <3> QED
      BY <2>2, <3>1, <1>5 DEF ApprovalInv
  <2> QED
    BY <2>4, <2>5
<1> QED
  BY <1>3, <1>4, <1>5, <1>6 DEF Commit, ApprovalInv

LEMMA ApprovalInvNext == ApprovalInv /\ [ApprovalNext]_approvalVars => ApprovalInv'
<1> SUFFICES ASSUME ApprovalInv, [ApprovalNext]_approvalVars PROVE ApprovalInv'
  OBVIOUS
<1>1. ASSUME NEW i \in Ids, Create(i) PROVE ApprovalInv'
  <2>1. expires' \in [Ids -> Nat]
    BY <1>1, ApprovalAssumption DEF Create, ApprovalInv
  <2>2. status' \in [Ids -> Statuses]
    BY <1>1 DEF Create, ApprovalInv, Statuses
  <2>3. \A j \in Ids : status[j] = "pending" => status'[j] = "pending"
    BY <1>1 DEF Create, ApprovalInv
  <2>4. \A s \in Requests : handler[s].at = "read" => \A w \in handler[s].writes : w.id \in Ids
    BY DEF ApprovalInv, Reading, Begun, Idle, Write
  <2> QED
    BY <1>1, <2>1, <2>2, <2>3, <2>4 DEF Create, ApprovalInv
<1>2. ASSUME NEW r \in Requests, Arrives(r) PROVE ApprovalInv'
  <2>1. [at |-> "begun", now |-> clock] \in Begun
    BY DEF ApprovalInv, Begun
  <2>2. handler' \in [Requests -> {Idle} \cup Begun \cup Reading]
    BY <1>2, <2>1 DEF Arrives, ApprovalInv
  <2> QED
    BY <1>2, <2>2 DEF Arrives, ApprovalInv
<1>3. ASSUME NEW r \in Requests, List(r) PROVE ApprovalInv'
  <2> DEFINE W == {[id |-> i, to |-> "expired"] :
                    i \in {j \in Ids : status[j] = "pending" /\ Overdue(j, handler[r].now)}}
  <2>1. \A w \in W : w \in [id : Ids, to : Statuses] /\ w.to \in Final /\ status[w.id] = "pending"
    BY DEF Statuses, Final
  <2> HIDE DEF W
  <2> QED
    BY <1>3, <2>1, ReadsKeepsInv DEF List, W
<1>4. ASSUME NEW r \in Requests, NEW i \in Ids, NEW d \in DOMAIN Decisions, Decide(r, i, d)
      PROVE  ApprovalInv'
  <2>1. Decisions[d] \in Final
    BY DEF Decisions, Final
  <2>2. Decided(i, d, handler[r].now) \in Statuses
    BY <2>1 DEF Decided, ApprovalInv, Statuses, Final
  <2>3. Decided(i, d, handler[r].now) # status[i]
          => Decided(i, d, handler[r].now) \in Final /\ status[i] = "pending"
    BY <2>1 DEF Decided, Final
  <2> QED
    BY <1>4, <2>2, <2>3, ReadsKeepsInv DEF Decide
<1>5. ASSUME Passes PROVE ApprovalInv'
  BY <1>5, ApprovalAssumption DEF Passes, ApprovalInv
<1>6. ASSUME UNCHANGED approvalVars PROVE ApprovalInv'
  BY <1>6 DEF approvalVars, ApprovalInv
<1> QED
  BY <1>1, <1>2, <1>3, <1>4, <1>5, <1>6, CommitKeepsInv DEF ApprovalNext

(* The inductive invariant of the approvals.                                *)
THEOREM ApprovalInvariant == ApprovalSpec => []ApprovalInv
BY ApprovalInvInit, ApprovalInvNext, PTL DEF ApprovalSpec

(* The types of the approvals (engine/approvals.py).                        *)
THEOREM ApprovalTypes == ApprovalSpec => []ApprovalTypeOK
<1>1. ApprovalInv => ApprovalTypeOK
  BY DEF ApprovalInv, ApprovalTypeOK, Idle, Begun, Reading
<1> QED
  BY <1>1, ApprovalInvariant, PTL

(* A final decision (decide, expire_stale_approvals) is never changed again *)
(* on a row that no two requests had read as pending at once: for any rows, *)
(* any number of concurrent requests and any lifetime of an approval.       *)
THEOREM DecisionStands == ApprovalSpec => DecisionIsFinal
<1> DEFINE Stands == \A i \in Ids : status[i] \in Final => status'[i] = status[i] \/ i \in crossed'
<1>1. ApprovalInv /\ [ApprovalNext]_approvalVars => [Stands]_approvalVars
  <2> SUFFICES ASSUME ApprovalInv, ApprovalNext, NEW i \in Ids, status[i] \in Final
               PROVE  status'[i] = status[i] \/ i \in crossed'
    OBVIOUS
  <2>1. ASSUME NEW j \in Ids, Create(j) PROVE status'[i] = status[i]
    BY <2>1 DEF Create, ApprovalInv, Final
  <2>2. ASSUME NEW r \in Requests, Commit(r) PROVE status'[i] = status[i] \/ i \in crossed'
    <3>1. CASE i \in WrittenBy(r)
      <4>1. PICK w \in handler[r].writes : w.id = i
        BY <3>1 DEF WrittenBy
      <4>2. i \in crossed
        BY <4>1, <2>2 DEF ApprovalInv, Commit, Final
      <4> QED
        BY <4>2, <2>2 DEF Commit
    <3>2. CASE i \notin WrittenBy(r)
      BY <3>2, <2>2 DEF Commit
    <3> QED
      BY <3>1, <3>2
  <2> QED
    BY <2>1, <2>2 DEF ApprovalNext, Arrives, List, Decide, Reads, Passes
<1> QED
  BY <1>1, ApprovalInvariant, PTL DEF ApprovalSpec, DecisionIsFinal

-----------------------------------------------------------------------------
(* The switch into live mode.                                               *)

(* An undisturbed request holds what it has read so far, and a stage of     *)
(* "gating" has lasted for every day since it was last promoted.            *)
StageLasts ==
  stage = "gating" => gatingSince # Never /\ \A d \in DaysSince(gatingSince) : days[d].gating
ReadIsTrue ==
  /\ request.at \in {"stage", "rest", "switch"} /\ request.ok => record = "strong"
  /\ request.at \in {"rest", "switch"} => request.stage = stage
  /\ request.at = "switch" => request.ok /\ Ready
GateInv == GateTypeOK /\ StageLasts /\ (~disturbed => ReadIsTrue)

LEMMA GateInvInit == GateInit => GateInv
<1> SUFFICES ASSUME GateInit PROVE GateInv
  OBVIOUS
<1>1. days \in Seq([net : Int, gating : BOOLEAN]) /\ Len(days) = 0
  BY DEF GateInit
<1>2. request \in [at : {"none", "record", "stage", "rest", "switch"}, ok : BOOLEAN, stage : Stages]
  BY DEF GateInit, NoRequest, Stages
<1>3. GateTypeOK
  <2>1. mode \in {"dry-run", "live"} /\ record \in Records /\ stage \in Stages /\ slippage \in Slippages
    BY DEF GateInit, Stages, Records, Slippages
  <2>2. Len(days) <= MaxGateDays
    BY <1>1, GateAssumption
  <2>3. {frozenAt, gatingSince} \subseteq Never .. Len(days)
    BY <1>1 DEF GateInit, Never
  <2>4. disturbed \in BOOLEAN
    BY DEF GateInit
  <2> QED
    BY <1>1, <1>2, <2>1, <2>2, <2>3, <2>4 DEF GateTypeOK
<1>4. StageLasts /\ ReadIsTrue
  BY DEF GateInit, StageLasts, ReadIsTrue, NoRequest
<1> QED
  BY <1>3, <1>4 DEF GateInv

(* Every step of the request reads what is there.                           *)
LEMMA RequestKeepsInv ==
  ASSUME GateInv, Asks \/ ReadsRecord \/ ReadsStage \/ ReadsRest \/ SwitchesLive \/ SwitchesBack
  PROVE  GateInv'
<1> USE DEF GateInv, GateTypeOK, StageLasts, ReadIsTrue, NoRequest, DaysSince, Stages, evidence
<1>1. CASE Asks
  BY <1>1 DEF Asks
<1>2. CASE ReadsRecord
  BY <1>2 DEF ReadsRecord
<1>3. CASE ReadsStage
  BY <1>3 DEF ReadsStage
<1>4. CASE ReadsRest
  BY <1>4 DEF ReadsRest, Ready, PositiveSessions, GatingSessions
<1>5. CASE SwitchesLive
  BY <1>5 DEF SwitchesLive
<1>6. CASE SwitchesBack
  BY <1>6 DEF SwitchesBack, Ready, PositiveSessions, GatingSessions
<1> QED
  BY <1>1, <1>2, <1>3, <1>4, <1>5, <1>6

(* Whatever changes under a request disturbs it.                            *)
LEMMA EvidenceKeepsInv ==
  ASSUME GateInv,
         \/ \E n \in {-1, 1} : DayEnds(n)
         \/ \E r \in Records : Trains(r)
         \/ \E s \in Stages : Promotes(s)
         \/ Freezes
         \/ \E s \in Slippages : Slips(s)
  PROVE  GateInv'
<1>1. disturbed' = (request.at # "none") /\ request' = request /\ mode' = mode
  BY DEF DayEnds, Trains, Promotes, Freezes, Slips, Disturbs
<1>2. ~disturbed' => ReadIsTrue'
  BY <1>1 DEF ReadIsTrue
<1>3. GateTypeOK' /\ StageLasts'
  <2> USE DEF GateInv, GateTypeOK, StageLasts, DaysSince, Never
  <2>1. ASSUME NEW n \in {-1, 1}, DayEnds(n) PROVE GateTypeOK' /\ StageLasts'
    <3> DEFINE day == [net |-> n, gating |-> stage = "gating"]
    <3>1. day \in [net : Int, gating : BOOLEAN]
      OBVIOUS
    <3>2. days' = Append(days, day) /\ Len(days) < MaxGateDays
      BY <2>1 DEF DayEnds
    <3>3. days' \in Seq([net : Int, gating : BOOLEAN]) /\ Len(days') = Len(days) + 1
      BY <3>1, <3>2
    <3>4. \A d \in 1 .. Len(days) : days'[d] = days[d]
      BY <3>1, <3>2
    <3>5. days'[Len(days) + 1] = day
      BY <3>1, <3>2
    <3>6. GateTypeOK'
      BY <1>1, <2>1, <3>2, <3>3, GateAssumption DEF DayEnds
    <3>7. StageLasts'
      <4>0. stage' = stage /\ gatingSince' = gatingSince
        BY <2>1 DEF DayEnds
      <4> SUFFICES ASSUME stage = "gating"
                   PROVE  /\ gatingSince # Never
                          /\ \A d \in (gatingSince + 1) .. (Len(days) + 1) : days'[d].gating
        BY <4>0, <3>3
      <4> SUFFICES ASSUME NEW d \in (gatingSince + 1) .. (Len(days) + 1)
                   PROVE  days'[d].gating
        OBVIOUS
      <4>3. gatingSince \in Nat /\ Len(days) \in Nat
        OBVIOUS
      <4>1. CASE d = Len(days) + 1
        <5>1. day.gating = (stage = "gating")
          BY Zenon
        <5> QED
          BY <4>1, <3>5, <5>1, Zenon
      <4>2. CASE d # Len(days) + 1
        BY <4>2, <4>3, <3>4
      <4> QED
        BY <4>1, <4>2
    <3> QED
      BY <3>6, <3>7
  <2>2. ASSUME NEW r \in Records, Trains(r) PROVE GateTypeOK' /\ StageLasts'
    BY <1>1, <2>2 DEF Trains
  <2>3. ASSUME NEW s \in Stages, Promotes(s) PROVE GateTypeOK' /\ StageLasts'
    BY <1>1, <2>3 DEF Promotes
  <2>4. ASSUME Freezes PROVE GateTypeOK' /\ StageLasts'
    BY <1>1, <2>4 DEF Freezes
  <2>5. ASSUME NEW s \in Slippages, Slips(s) PROVE GateTypeOK' /\ StageLasts'
    BY <1>1, <2>5 DEF Slips
  <2> QED
    BY <2>1, <2>2, <2>3, <2>4, <2>5
<1> QED
  BY <1>2, <1>3 DEF GateInv

LEMMA GateInvNext == GateInv /\ [GateNext]_gateVars => GateInv'
<1>1. GateInv /\ GateNext => GateInv'
  BY RequestKeepsInv, EvidenceKeepsInv DEF GateNext
<1>2. GateInv /\ UNCHANGED gateVars => GateInv'
  BY DEF gateVars, evidence, GateInv, GateTypeOK, StageLasts, ReadIsTrue, DaysSince, Ready,
     PositiveSessions, GatingSessions
<1> QED
  BY <1>1, <1>2

(* The inductive invariant of mode and gate.                                *)
THEOREM GateInvariant == GateSpec => []GateInv
BY GateInvInit, GateInvNext, PTL DEF GateSpec

(* What the check counted is the last days, all of them at gating.          *)
LEMMA ReadyIsEarned ==
  ASSUME GateTypeOK, StageLasts, record = "strong", request.stage = stage, Ready
  PROVE  Earned
<1>1. stage = "gating" /\ slippage = "clean" /\ frozenAt # Never
  BY DEF Ready
<1>2. gatingSince \in 0 .. Len(days) /\ Len(days) \in Nat /\ NeedGating \in Nat
  BY <1>1, GateAssumption DEF GateTypeOK, StageLasts, Never
<1>3. Cardinality((gatingSince + 1) .. Len(days)) =
        IF gatingSince + 1 > Len(days) THEN 0 ELSE Len(days) - (gatingSince + 1) + 1
  <2>1. gatingSince + 1 \in Int /\ Len(days) \in Int
    BY <1>2
  <2> QED
    BY <2>1, FS_Interval, Zenon
<1>4. NeedGating <= Len(days) - gatingSince
  BY <1>2, <1>3 DEF Ready, GatingSessions, DaysSince
<1>5. \A d \in LastDays(NeedGating) : d > 0 /\ days[d].gating
  BY <1>1, <1>2, <1>4 DEF LastDays, StageLasts, DaysSince
<1>6. \E D \in SUBSET DaysSince(frozenAt) :
        Cardinality(D) >= NeedPositive /\ \A d \in D : days[d].net > 0
  <2> WITNESS {d \in DaysSince(frozenAt) : days[d].net > 0} \in SUBSET DaysSince(frozenAt)
  <2> QED
    BY DEF Ready, PositiveSessions
<1> QED
  BY <1>1, <1>5, <1>6 DEF Earned

(* POST /api/mode never switches on live trading (LiveUnlockGate.check)     *)
(* that is not earned, unless what it reads changes under it: for any       *)
(* number of days asked for.                                                *)
THEOREM LiveHasToBeEarned == GateSpec => LiveIsEarned
<1>1. GateInv /\ [GateNext]_gateVars => [mode # "live" /\ mode' = "live" => Earned \/ disturbed]_gateVars
  <2> SUFFICES ASSUME GateInv, GateNext, mode # "live", mode' = "live", ~disturbed
               PROVE  Earned
    OBVIOUS
  <2>1. SwitchesLive
    BY DEF GateNext, Asks, ReadsRecord, ReadsStage, ReadsRest, SwitchesBack, DayEnds, Trains, Promotes,
       Freezes, Slips, Disturbs
  <2> QED
    BY <2>1, ReadyIsEarned DEF SwitchesLive, GateInv, ReadIsTrue
<1> QED
  BY <1>1, GateInvariant, PTL DEF GateSpec, LiveIsEarned

-----------------------------------------------------------------------------
(* The monitors' halts.                                                     *)

(* What CusumMonitor and DrawdownEnvelope halt (killswitch.trip) stays with *)
(* the operator: no daily gate, morning reset or restart lifts it or turns  *)
(* it into the day's own halt.                                              *)
THEOREM TripStays == MonitorSpec => []TripIsKept
<1>1. MonitorInit => TripIsKept
  BY DEF MonitorInit, TripIsKept
<1>2. TripIsKept /\ [MonitorNext]_monitorVars => TripIsKept'
  <2> SUFFICES ASSUME TripIsKept, [MonitorNext]_monitorVars PROVE TripIsKept'
    OBVIOUS
  <2> USE DEF TripIsKept, Refuses
  <2>1. Trip => TripIsKept'
    BY DEF Trip
  <2>2. Throttle \/ UNCHANGED switch => TripIsKept'
    BY DEF Throttle, switch
  <2>3. ASSUME NEW x \in Results, DayCloses(x) PROVE TripIsKept'
    BY <2>1, <2>2, <2>3 DEF DayCloses
  <2>4. ASSUME NEW d \in Divergences, Observe(d) PROVE TripIsKept'
    BY <2>2, <2>4 DEF Observe
  <2>5. ASSUME NEW dd \in Drawdowns, Check(dd) PROVE TripIsKept'
    BY <2>1, <2>5 DEF Check
  <2>6. CASE DailyGate
    BY <2>6 DEF DailyGate
  <2>7. CASE MorningReset
    BY <2>7 DEF MorningReset
  <2>8. CASE OperatorClears
    BY <2>8 DEF OperatorClears
  <2>9. CASE Reboot
    BY <2>9 DEF Reboot
  <2>10. CASE UNCHANGED monitorVars
    BY <2>10 DEF monitorVars
  <2> QED
    BY <2>3, <2>4, <2>5, <2>6, <2>7, <2>8, <2>9, <2>10 DEF MonitorNext
<1> QED
  BY <1>1, <1>2, PTL DEF MonitorSpec

-----------------------------------------------------------------------------
(* The monitors' chart.                                                     *)

(* SumOf is the last of the running sums.                                   *)
LEMMA SumOfIsSums ==
  ASSUME NEW s \in Seq(Int)
  PROVE  \E f : Whole(f, Len(s)) /\ IsSums(f, Len(s), 0, s) /\ SumOf(s) = f[Len(s)]
<1> DEFINE P(f) == f = [i \in 0 .. Len(s) |-> IF i = 0 THEN 0 ELSE f[i - 1] + s[i]]
<1>0. Len(s) \in Nat /\ \A i \in 1 .. Len(s) : s[i] \in Int
  OBVIOUS
<1>1. PICK f \in [0 .. Len(s) -> Int] : IsSums(f, Len(s), 0, s)
  BY <1>0, SumsExist
<1>2. P(f)
  BY <1>1 DEF IsSums
<1> DEFINE c == CHOOSE h : P(h)
<1>3. P(c)
  <2> HIDE DEF P
  <2> QED
    BY <1>2
<1>4. SumOf(s) = c[Len(s)]
  BY DEF SumOf
<1> HIDE DEF c
<1>5. IsSums(c, Len(s), 0, s) /\ DOMAIN c = 0 .. Len(s)
  <2>1. /\ DOMAIN c = 0 .. Len(s)
        /\ \A i \in 0 .. Len(s) : c[i] = IF i = 0 THEN 0 ELSE c[i - 1] + s[i]
    BY <1>3
  <2>2. \A i \in 0 .. Len(s) : i = 0 <=> i <= 0
    BY <1>0
  <2> QED
    BY <2>1, <2>2 DEF IsSums
<1>6. ASSUME NEW n \in 0 .. Len(s) PROVE c[n] = f[n]
  <2>1. IsSums(c, n, 0, s) /\ AgreeUpTo(n, s, s) /\ n \in Nat /\ n <= Len(s)
    BY <1>0, <1>5 DEF IsSums, AgreeUpTo
  <2> QED
    BY <1>0, <1>1, <2>1, SumsAgree
<1>7. Whole(c, Len(s))
  BY <1>1, <1>6 DEF Whole
<1> QED
  BY <1>4, <1>5, <1>7

(* One more number in front adds just that number.                          *)
Prepended(K, d, w, v) ==
  d \in Int /\ v[1] = d /\ \A i \in 1 .. K : w[i] \in Int /\ v[i + 1] = w[i]

LEMMA SumsPrepend ==
  ASSUME NEW K \in Nat, NEW M, NEW d, NEW w, NEW v, NEW f, NEW g, Whole(f, K),
         IsSums(f, K, 0, w), IsSums(g, M, 0, v), M = K + 1, Prepended(K, d, w, v)
  PROVE  g[M] = d + f[K]
<1> DEFINE S == {n \in Nat : n <= K => g[n + 1] = d + f[n]}
<1>0. d \in Int /\ v[1] = d
  BY DEF Prepended
<1>1. 0 \in S
  <2>1. f[0] = 0 /\ g[0] = 0 /\ g[1] = g[0] + v[1]
    BY DEF IsSums
  <2> QED
    BY <1>0, <2>1
<1>2. ASSUME NEW n \in Nat, n \in S PROVE n + 1 \in S
  <2> SUFFICES ASSUME n + 1 <= K PROVE g[(n + 1) + 1] = d + f[n + 1]
    OBVIOUS
  <2>1. f[n + 1] = f[n] + w[n + 1] /\ f[n] \in Int
    BY DEF IsSums, Whole
  <2>2. g[(n + 1) + 1] = g[n + 1] + v[(n + 1) + 1]
    BY DEF IsSums
  <2>3. v[(n + 1) + 1] = w[n + 1] /\ w[n + 1] \in Int
    BY DEF Prepended
  <2>4. g[n + 1] = d + f[n]
    BY <1>2
  <2> HIDE DEF S
  <2> QED
    BY <1>0, <2>1, <2>2, <2>3, <2>4
<1>3. Nat \subseteq S
  <2> HIDE DEF S
  <2> QED
    BY <1>1, <1>2, SetInduction
<1> QED
  BY <1>3

LEMMA SumOfPrepend ==
  ASSUME NEW s \in Seq(Int), NEW t \in Seq(Int), NEW d, Len(t) = Len(s) + 1,
         Prepended(Len(s), d, s, t)
  PROVE  SumOf(s) \in Int /\ SumOf(t) = d + SumOf(s)
<1>1. PICK f : Whole(f, Len(s)) /\ IsSums(f, Len(s), 0, s) /\ SumOf(s) = f[Len(s)]
  BY SumOfIsSums
<1>2. PICK g : Whole(g, Len(t)) /\ IsSums(g, Len(t), 0, t) /\ SumOf(t) = g[Len(t)]
  BY SumOfIsSums
<1>3. Len(s) \in Nat /\ Whole(f, Len(s))
  BY <1>1 DEF Whole
<1>4. g[Len(t)] = d + f[Len(s)]
  BY <1>1, <1>2, <1>3, SumsPrepend
<1> QED
  BY <1>1, <1>2, <1>3, <1>4 DEF Whole

LEMMA SumOfEmpty == ASSUME NEW s \in Seq(Int), Len(s) = 0 PROVE SumOf(s) = 0
<1>1. PICK f : Whole(f, Len(s)) /\ IsSums(f, Len(s), 0, s) /\ SumOf(s) = f[Len(s)]
  BY SumOfIsSums
<1> QED
  BY <1>1 DEF IsSums

-----------------------------------------------------------------------------
(* The excesses of the last n days of r over the drift and the slack, the    *)
(* latest first.                                                             *)
Excess(x, sign) == sign * (x - Drift) - Slack
Excesses(r, n, sign) == [i \in 1 .. n |-> sign * (r[Len(r) - i + 1] - Drift) - Slack]
Runs(r, sign) == {0} \cup {SumOf(Excesses(r, n, sign)) : n \in 1 .. Len(r)}

LEMMA ExcessesType ==
  ASSUME NEW r \in Seq(Int), NEW n \in 0 .. Len(r), NEW sign \in {-1, 1}
  PROVE  /\ Excesses(r, n, sign) \in Seq(Int)
         /\ Len(Excesses(r, n, sign)) = n
         /\ SumOf(Excesses(r, n, sign)) \in Int
<1> DEFINE e == Excesses(r, n, sign)
<1>0. Drift \in Int /\ Slack \in Int
  BY MonitorAssumption
<1>1. \A i \in 1 .. n : r[Len(r) - i + 1] \in Int
  OBVIOUS
<1>2. \A i \in 1 .. n : sign * (r[Len(r) - i + 1] - Drift) - Slack \in Int
  BY <1>0, <1>1
<1>3. e \in Seq(Int) /\ Len(e) = n
  BY <1>2 DEF Excesses
<1>4. PICK f : Whole(f, Len(e)) /\ SumOf(e) = f[Len(e)]
  BY <1>3, SumOfIsSums
<1> QED
  BY <1>3, <1>4 DEF Whole

(* A day adds its own excess to every run that ends on the day before.      *)
LEMMA RunGrows ==
  ASSUME NEW r \in Seq(Int), NEW x \in Int, NEW n \in 0 .. Len(r), NEW sign \in {-1, 1}
  PROVE  SumOf(Excesses(Append(r, x), n + 1, sign)) = Excess(x, sign) + SumOf(Excesses(r, n, sign))
<1> DEFINE q == Append(r, x)
           s == Excesses(r, n, sign)
           t == Excesses(q, n + 1, sign)
<1>1. /\ q \in Seq(Int) /\ Len(q) = Len(r) + 1 /\ q[Len(r) + 1] = x
      /\ \A i \in 1 .. Len(r) : q[i] = r[i]
  OBVIOUS
<1>2. s \in Seq(Int) /\ Len(s) = n
  BY ExcessesType
<1>3. t \in Seq(Int) /\ Len(t) = n + 1
  <2> HIDE DEF q
  <2>1. n + 1 \in 0 .. Len(q)
    BY <1>1
  <2> QED
    BY <1>1, <2>1, ExcessesType
<1>4. t[1] = Excess(x, sign)
  <2> HIDE DEF q
  <2>1. 1 \in 1 .. (n + 1) /\ Len(q) - 1 + 1 = Len(r) + 1
    BY <1>1
  <2> QED
    BY <1>1, <2>1 DEF Excesses, Excess
<1>5. ASSUME NEW i \in 1 .. Len(s) PROVE t[i + 1] = s[i] /\ s[i] \in Int
  <2> HIDE DEF q
  <2>0. s[i] \in Int
    BY <1>2
  <2>1. /\ i \in 1 .. n /\ i + 1 \in 1 .. (n + 1)
        /\ Len(q) - (i + 1) + 1 = Len(r) - i + 1 /\ Len(r) - i + 1 \in 1 .. Len(r)
    BY <1>1, <1>2
  <2> QED
    BY <1>1, <2>0, <2>1 DEF Excesses
<1> HIDE DEF s, t
<1>6. Prepended(Len(s), Excess(x, sign), s, t)
  <2>1. Excess(x, sign) \in Int
    BY MonitorAssumption DEF Excess
  <2> QED
    BY <1>4, <1>5, <2>1 DEF Prepended
<1>7. SumOf(t) = Excess(x, sign) + SumOf(s)
  BY <1>2, <1>3, <1>6, SumOfPrepend
<1> QED
  BY <1>7 DEF s, t, q

(* The largest run of the days so far makes the largest run of one day more. *)
IsLargest(m, S) == m \in S /\ \A y \in S : m >= y

LEMMA LargestGrows ==
  ASSUME NEW r \in Seq(Int), NEW x \in Int, NEW sign \in {-1, 1}, NEW m, IsLargest(m, Runs(r, sign))
  PROVE  m \in Nat /\ IsLargest(AtLeastZero(m + Excess(x, sign)), Runs(Append(r, x), sign))
<1> DEFINE q == Append(r, x)
           v == m + Excess(x, sign)
<1>1. q \in Seq(Int) /\ Len(q) = Len(r) + 1 /\ Len(r) \in Nat
  OBVIOUS
<1>2. Excess(x, sign) \in Int
  BY MonitorAssumption DEF Excess
<1>3. \A n \in 0 .. Len(r) : SumOf(Excesses(r, n, sign)) \in Int
  BY ExcessesType
<1>4. SumOf(Excesses(r, 0, sign)) = 0
  <2>1. Excesses(r, 0, sign) \in Seq(Int) /\ Len(Excesses(r, 0, sign)) = 0
    BY <1>1, ExcessesType
  <2> QED
    BY <2>1, SumOfEmpty
<1>5. /\ Runs(r, sign) = {SumOf(Excesses(r, n, sign)) : n \in 0 .. Len(r)}
      /\ Runs(r, sign) \subseteq Int
  BY <1>1, <1>3, <1>4 DEF Runs
<1>6. m \in Nat
  <2>1. m \in Int /\ 0 \in Runs(r, sign)
    BY <1>5 DEF IsLargest, Runs
  <2> QED
    BY <2>1 DEF IsLargest
<1>7. \A k \in 1 .. Len(q) :
        SumOf(Excesses(q, k, sign)) = Excess(x, sign) + SumOf(Excesses(r, k - 1, sign))
  <2> TAKE k \in 1 .. Len(q)
  <2>1. k - 1 \in 0 .. Len(r) /\ (k - 1) + 1 = k
    BY <1>1
  <2>2. SumOf(Excesses(q, (k - 1) + 1, sign)) = Excess(x, sign) + SumOf(Excesses(r, k - 1, sign))
    <3> HIDE DEF q
    <3> QED
      BY <2>1, RunGrows DEF q
  <2> QED
    BY <2>1, <2>2
<1> HIDE DEF q
<1>8. \A y \in Runs(q, sign) : y = 0 \/ y <= v
  <2> SUFFICES ASSUME NEW k \in 1 .. Len(q) PROVE SumOf(Excesses(q, k, sign)) <= v
    BY DEF Runs
  <2>1. k - 1 \in 0 .. Len(r)
    BY <1>1
  <2>2. SumOf(Excesses(r, k - 1, sign)) \in Int /\ m >= SumOf(Excesses(r, k - 1, sign))
    BY <1>3, <1>5, <2>1 DEF IsLargest
  <2> QED
    BY <1>2, <1>6, <1>7, <2>2
<1>9. v \in Runs(q, sign)
  <2>1. PICK n \in 0 .. Len(r) : m = SumOf(Excesses(r, n, sign))
    BY <1>5 DEF IsLargest
  <2>2. n + 1 \in 1 .. Len(q) /\ (n + 1) - 1 = n
    BY <1>1
  <2>3. SumOf(Excesses(q, n + 1, sign)) = Excess(x, sign) + m
    BY <1>7, <2>1, <2>2
  <2>4. v = SumOf(Excesses(q, n + 1, sign))
    BY <1>2, <1>6, <2>3
  <2> QED
    BY <2>2, <2>4 DEF Runs
<1>10. IsLargest(AtLeastZero(v), Runs(q, sign))
  <2>1. 0 \in Runs(q, sign) /\ v \in Int
    BY <1>2, <1>6 DEF Runs
  <2> HIDE DEF v
  <2>2. AtLeastZero(v) \in Runs(q, sign) /\ AtLeastZero(v) >= 0 /\ AtLeastZero(v) >= v
        /\ AtLeastZero(v) \in Int
    BY <1>9, <2>1 DEF AtLeastZero
  <2>3. \A y \in Runs(q, sign) : AtLeastZero(v) >= y
    <3> TAKE y \in Runs(q, sign)
    <3>1. y = 0 \/ y <= v
      BY <1>8
    <3>2. y \in Int
      <4>1. \A k \in 1 .. Len(q) : SumOf(Excesses(q, k, sign)) \in Int
        <5> TAKE k \in 1 .. Len(q)
        <5>1. k \in 0 .. Len(q)
          BY <1>1
        <5> QED
          BY <1>1, <5>1, ExcessesType
      <4> QED
        BY <4>1 DEF Runs
    <3> QED
      BY <2>1, <2>2, <3>1, <3>2
  <2> QED
    BY <2>2, <2>3 DEF IsLargest
<1> QED
  BY <1>6, <1>10 DEF q

(* What makes the chart inductive: both sums are the largest of their runs. *)
ChartInv ==
  /\ results \in Seq(Int)
  /\ IsLargest(up, Runs(results, 1)) /\ IsLargest(down, Runs(results, -1))

LEMMA LargestIsMax ==
  ASSUME NEW S \in SUBSET Int, NEW m, IsLargest(m, S)
  PROVE  Max(S) = m
<1>1. m \in S /\ \A y \in S : m >= y
  BY DEF IsLargest
<1>2. Max(S) \in S /\ \A y \in S : Max(S) >= y
  BY <1>1 DEF Max
<1>3. m \in Int /\ Max(S) \in Int /\ m >= Max(S) /\ Max(S) >= m
  BY <1>1, <1>2
<1> HIDE DEF Max
<1> QED
  BY <1>3

LEMMA ChartIsLargest == ChartInv => ChartIsOfTheDays
<1> SUFFICES ASSUME ChartInv PROVE ChartIsOfTheDays
  OBVIOUS
<1>1. ASSUME NEW sign \in {-1, 1} PROVE Runs(results, sign) \subseteq Int
  <2>1. results \in Seq(Int) /\ Len(results) \in Nat
    BY DEF ChartInv
  <2>2. \A n \in 1 .. Len(results) : SumOf(Excesses(results, n, sign)) \in Int
    <3> TAKE n \in 1 .. Len(results)
    <3>1. n \in 0 .. Len(results)
      BY <2>1
    <3> QED
      BY <2>1, <3>1, ExcessesType
  <2> QED
    BY <2>2 DEF Runs
<1>2. \A sign \in {-1, 1} : LargestRun(sign) = Max(Runs(results, sign))
  BY DEF LargestRun, RunOf, Runs, Excesses
<1>3. up = Max(Runs(results, 1)) /\ down = Max(Runs(results, -1))
  BY <1>1, LargestIsMax DEF ChartInv
<1> QED
  BY <1>2, <1>3 DEF ChartIsOfTheDays

LEMMA ChartInvNext == ChartInv /\ [MonitorNext]_monitorVars => ChartInv'
<1> SUFFICES ASSUME ChartInv, [MonitorNext]_monitorVars PROVE ChartInv'
  OBVIOUS
<1>1. ASSUME NEW x \in Results, DayCloses(x) PROVE ChartInv'
  <2>1. /\ results' = Append(results, x)
        /\ up' = AtLeastZero(up + (x - Drift - Slack))
        /\ down' = AtLeastZero(down - (x - Drift + Slack))
    BY <1>1, Zenon DEF DayCloses, Update
  <2>2. x \in Int /\ Drift \in Int /\ Slack \in Int
    BY MonitorAssumption
  <2>3. up \in Nat /\ IsLargest(AtLeastZero(up + Excess(x, 1)), Runs(Append(results, x), 1))
    BY <2>2, LargestGrows DEF ChartInv
  <2>4. down \in Nat /\ IsLargest(AtLeastZero(down + Excess(x, -1)), Runs(Append(results, x), -1))
    BY <2>2, LargestGrows DEF ChartInv
  <2>5. up + Excess(x, 1) = up + (x - Drift - Slack)
    BY <2>2, <2>3 DEF Excess
  <2>6. down + Excess(x, -1) = down - (x - Drift + Slack)
    BY <2>2, <2>4 DEF Excess
  <2>7. results' \in Seq(Int)
    BY <2>1, <2>2 DEF ChartInv
  <2> QED
    BY <2>1, <2>3, <2>4, <2>5, <2>6, <2>7 DEF ChartInv
<1>2. UNCHANGED <<results, up, down>> => ChartInv'
  BY DEF ChartInv
<1> QED
  BY <1>1, <1>2, Zenon
     DEF MonitorNext, monitorVars, Observe, Check, DailyGate, MorningReset, OperatorClears, Reboot

LEMMA ChartInvInit == MonitorInit => ChartInv
<1> SUFFICES ASSUME MonitorInit PROVE ChartInv
  OBVIOUS
<1>1. results \in Seq(Int) /\ Len(results) = 0 /\ up = 0 /\ down = 0
  BY DEF MonitorInit
<1>2. \A sign \in {-1, 1} : Runs(results, sign) = {0}
  BY <1>1 DEF Runs
<1> QED
  BY <1>1, <1>2 DEF ChartInv, IsLargest

(* risk/monitors.py:208-237: for any drift, slack and results, over any      *)
(* number of days and restarts, the chart's two sums are the largest excess  *)
(* and the largest shortfall of any run of days that ends today.             *)
THEOREM ChartHolds == MonitorSpec => []ChartIsOfTheDays
BY ChartInvInit, ChartInvNext, ChartIsLargest, PTL DEF MonitorSpec

(* The chart is of all the days, and what a monitor has halted stays halted. *)
THEOREM MonitorsLast == MonitorSpec => []MonitorsOutlive
BY ChartHolds, TripStays, PTL DEF MonitorsOutlive

-----------------------------------------------------------------------------
(* The order rate limiter.                                                  *)

(* The orders of q that a stack of S sent from one time to another.         *)
Orders(q, S, from, to) == {i \in DOMAIN q : q[i].by \in S /\ q[i].at \in from .. to}

LEMMA OrdersFinite ==
  ASSUME NEW X, NEW q \in Seq(X), NEW S, NEW from, NEW to
  PROVE  /\ IsFiniteSet(Orders(q, S, from, to))
         /\ Cardinality(Orders(q, S, from, to)) \in Nat
<1>1. DOMAIN q = 1 .. Len(q) /\ Len(q) \in Int /\ 1 \in Int
  OBVIOUS
<1>2. IsFiniteSet(DOMAIN q)
  BY <1>1, FS_Interval
<1>3. Orders(q, S, from, to) \in SUBSET DOMAIN q
  BY DEF Orders
<1>4. IsFiniteSet(Orders(q, S, from, to))
  BY <1>2, <1>3, FS_Subset
<1> QED
  BY <1>4, FS_CardinalityType

(* One order more is one more of its stack's, at its time.                  *)
LEMMA OrderAdds ==
  ASSUME NEW X, NEW q \in Seq(X), NEW o \in X, NEW S, NEW from \in Int, NEW to \in Int
  PROVE  Cardinality(Orders(Append(q, o), S, from, to)) =
           Cardinality(Orders(q, S, from, to)) + (IF o.by \in S /\ o.at \in from .. to THEN 1 ELSE 0)
<1> DEFINE A == Orders(q, S, from, to)
           B == Orders(Append(q, o), S, from, to)
           last == Len(q) + 1
<1>1. IsFiniteSet(A) /\ Cardinality(A) \in Nat
  BY OrdersFinite
<1>2. last \notin A
  BY DEF Orders
<1>3. B = IF o.by \in S /\ o.at \in from .. to THEN A \cup {last} ELSE A
  <2>1. /\ DOMAIN Append(q, o) = (DOMAIN q) \cup {last} /\ last \notin DOMAIN q
        /\ Append(q, o)[last] = o /\ \A i \in DOMAIN q : Append(q, o)[i] = q[i]
    OBVIOUS
  <2> DEFINE r == Append(q, o)
  <2>2. /\ DOMAIN r = (DOMAIN q) \cup {last} /\ last \notin DOMAIN q
        /\ r[last] = o /\ \A i \in DOMAIN q : r[i] = q[i]
    BY <2>1
  <2> HIDE DEF r, last
  <2>3. Orders(r, S, from, to) =
          IF o.by \in S /\ o.at \in from .. to THEN Orders(q, S, from, to) \cup {last}
          ELSE Orders(q, S, from, to)
    BY <2>2, Zenon DEF Orders
  <2> QED
    BY <2>3 DEF r
<1> HIDE DEF A, B, last
<1>4. CASE o.by \in S /\ o.at \in from .. to
  BY <1>1, <1>2, <1>3, <1>4, FS_AddElement DEF A, B
<1>5. CASE ~(o.by \in S /\ o.at \in from .. to)
  BY <1>1, <1>3, <1>5 DEF A, B
<1> QED
  BY <1>4, <1>5

-----------------------------------------------------------------------------
Sent(s, from, to) == Cardinality(Orders(sent, {s}, from, to))
Since(from, last) == IF last > from THEN last - from ELSE 0

(* What the bound rests on: a stack's orders up to now, and what its bucket *)
(* still holds, are what it began with and what was refilled since.         *)
LimitInv ==
  /\ now \in Nat /\ IsFiniteSet(DOMAIN bucket)
  /\ bucket \in [DOMAIN bucket -> [tokens : 0 .. Full, last : 0 .. now]]
  /\ sent \in Seq([by : Stacks, at : Nat])
  /\ \A i \in DOMAIN sent : sent[i].by \in DOMAIN bucket /\ sent[i].at <= bucket[sent[i].by].last
  /\ \A s \in DOMAIN bucket, from \in Nat :
       PollsPerToken * Sent(s, from, now) + bucket[s].tokens <= Full + Since(from, bucket[s].last)
  /\ \A s \in DOMAIN bucket, to \in 0 .. now : \A from \in 0 .. to :
       PollsPerToken * Sent(s, from, to) <= Full + (to - from)

LEMMA FullType == Full \in Nat /\ PollsPerToken \in Nat \ {0} /\ Capacity \in Nat \ {0} /\ PollsPerToken <= Full
<1>1. PollsPerToken \in Nat \ {0} /\ Capacity \in Nat \ {0}
  BY LimitAssumption
<1>2. Capacity * PollsPerToken \in Nat /\ PollsPerToken <= Capacity * PollsPerToken
  BY <1>1
<1> QED
  BY <1>1, <1>2 DEF Full

LEMMA SentType ==
  ASSUME LimitInv, NEW s, NEW from, NEW to
  PROVE  Sent(s, from, to) \in Nat
BY OrdersFinite DEF Sent, LimitInv

LEMMA SeqMembers == ASSUME NEW R, NEW q \in Seq(R) PROVE \A i \in DOMAIN q : q[i] \in R
OBVIOUS

LEMMA AppendMembers ==
  ASSUME NEW R, NEW q \in Seq(R), NEW o, NEW i \in DOMAIN Append(q, o)
  PROVE  (i \in DOMAIN q /\ Append(q, o)[i] = q[i]) \/ Append(q, o)[i] = o
OBVIOUS

LEMMA SentShape ==
  ASSUME LimitInv, NEW i \in DOMAIN sent
  PROVE  sent[i].by \in DOMAIN bucket /\ sent[i].at \in 0 .. now
<1>1. sent[i] \in [by : Stacks, at : Nat]
  BY SeqMembers DEF LimitInv
<1>2. sent[i].by \in DOMAIN bucket /\ sent[i].at <= bucket[sent[i].by].last
  BY DEF LimitInv
<1>3. bucket[sent[i].by].last \in 0 .. now /\ now \in Nat
  BY <1>2 DEF LimitInv
<1> QED
  BY <1>1, <1>2, <1>3

(* Nothing is sent after a stack's last refill.                             *)
LEMMA NothingAfter ==
  ASSUME LimitInv, NEW s \in DOMAIN bucket, NEW from \in Nat, from > bucket[s].last, NEW to \in Nat
  PROVE  Sent(s, from, to) = 0
<1>1. ASSUME NEW i \in Orders(sent, {s}, from, to) PROVE FALSE
  <2>1. i \in DOMAIN sent /\ sent[i].by = s /\ sent[i].at \in from .. to
    BY DEF Orders
  <2>2. sent[i].at <= bucket[s].last /\ bucket[s].last \in Nat
    BY <2>1 DEF LimitInv
  <2> QED
    BY <2>1, <2>2
<1>2. Orders(sent, {s}, from, to) = {}
  BY <1>1
<1> QED
  BY <1>2, FS_EmptySet DEF Sent

LEMMA LimitInvInit == LimitInit => LimitInv
<1> SUFFICES ASSUME LimitInit PROVE LimitInv
  OBVIOUS
<1>1. now = 0 /\ bucket = <<>> /\ DOMAIN bucket = {} /\ sent = <<>> /\ DOMAIN sent = {}
  BY DEF LimitInit
<1>2. IsFiniteSet(DOMAIN bucket)
  BY <1>1, FS_EmptySet
<1>3. bucket \in [DOMAIN bucket -> [tokens : 0 .. Full, last : 0 .. now]]
  BY <1>1
<1>4. sent \in Seq([by : Stacks, at : Nat])
  BY <1>1
<1> QED
  BY <1>1, <1>2, <1>3, <1>4 DEF LimitInv

LEMMA PollKeepsInv == LimitInv /\ Poll => LimitInv'
<1> SUFFICES ASSUME LimitInv, Poll PROVE LimitInv'
  OBVIOUS
<1>1. now' = now + 1 /\ bucket' = bucket /\ sent' = sent /\ now \in Nat
  BY DEF Poll, LimitInv
<1>2. bucket' \in [DOMAIN bucket' -> [tokens : 0 .. Full, last : 0 .. now']]
  BY <1>1 DEF LimitInv
<1>3. /\ sent' \in Seq([by : Stacks, at : Nat])
      /\ \A i \in DOMAIN sent' : sent'[i].by \in DOMAIN bucket' /\ sent'[i].at <= bucket'[sent'[i].by].last
  BY <1>1 DEF LimitInv
<1>4. \A s, from, to : Sent(s, from, to)' = Sent(s, from, to)
  BY <1>1 DEF Sent
<1>5. ASSUME NEW s \in DOMAIN bucket, NEW from \in Nat
      PROVE  Sent(s, from, now + 1) = Sent(s, from, now)
  <2>1. \A n \in 0 .. now : n \in from .. now <=> n \in from .. (now + 1)
    BY <1>1
  <2>2. \A i \in DOMAIN sent : sent[i].at \in from .. now <=> sent[i].at \in from .. (now + 1)
    BY <2>1, SentShape, Zenon
  <2>3. Orders(sent, {s}, from, now + 1) = Orders(sent, {s}, from, now)
    BY <2>2, Zenon DEF Orders
  <2> QED
    BY <2>3 DEF Sent
<1>6. ASSUME NEW s \in DOMAIN bucket, NEW from \in Nat
      PROVE  PollsPerToken * Sent(s, from, now') + bucket[s].tokens <= Full + Since(from, bucket[s].last)
  <2>1. Sent(s, from, now') = Sent(s, from, now)
    BY <1>1, <1>5
  <2> QED
    BY <2>1, Zenon DEF LimitInv
<1>7. ASSUME NEW s \in DOMAIN bucket, NEW to \in 0 .. (now + 1), NEW from \in 0 .. to
      PROVE  PollsPerToken * Sent(s, from, to) <= Full + (to - from)
  <2>1. CASE to \in 0 .. now
    BY <2>1 DEF LimitInv
  <2>2. CASE to = now + 1
    <3>1. bucket[s].tokens \in Nat /\ bucket[s].last \in 0 .. now
      BY FullType DEF LimitInv
    <3>2. PollsPerToken * Sent(s, from, to) + bucket[s].tokens <= Full + Since(from, bucket[s].last)
      BY <1>1, <1>6, <2>2
    <3>3. PollsPerToken * Sent(s, from, to) \in Nat
      BY SentType, FullType
    <3> QED
      BY <1>1, <2>2, <3>1, <3>2, <3>3, FullType DEF Since
  <2> QED
    BY <1>1, <2>1, <2>2
<1>8. IsFiniteSet(DOMAIN bucket') /\ now' \in Nat
  BY <1>1 DEF LimitInv
<1> QED
  BY <1>1, <1>2, <1>3, <1>4, <1>6, <1>7, <1>8 DEF LimitInv

LEMMA NewStackKeepsInv ==
  ASSUME LimitInv, NEW s \in Stacks, NewStack(s)
  PROVE  LimitInv'
<1>1. /\ s \notin DOMAIN bucket /\ now' = now /\ sent' = sent /\ now \in Nat
      /\ bucket' = [t \in DOMAIN bucket \cup {s} |->
                      IF t = s THEN [tokens |-> Full, last |-> now] ELSE bucket[t]]
  BY DEF NewStack, LimitInv
<1>2. /\ DOMAIN bucket' = DOMAIN bucket \cup {s} /\ bucket'[s] = [tokens |-> Full, last |-> now]
      /\ \A t \in DOMAIN bucket : bucket'[t] = bucket[t]
  BY <1>1
<1>3. IsFiniteSet(DOMAIN bucket')
  <2> DEFINE D == DOMAIN bucket
  <2>1. IsFiniteSet(D)
    BY DEF LimitInv
  <2> HIDE DEF D
  <2>2. IsFiniteSet(D \cup {s})
    BY <2>1, FS_AddElement
  <2> QED
    BY <1>2, <2>2, Zenon DEF D
<1>4. bucket' \in [DOMAIN bucket' -> [tokens : 0 .. Full, last : 0 .. now']]
  <2>1. [tokens |-> Full, last |-> now] \in [tokens : 0 .. Full, last : 0 .. now]
    BY <1>1, FullType
  <2> QED
    BY <1>1, <2>1 DEF LimitInv
<1>5. \A i \in DOMAIN sent : sent[i].by \in DOMAIN bucket' /\ sent[i].at <= bucket'[sent[i].by].last
  BY <1>2 DEF LimitInv
<1>6. \A t, from, to : Sent(t, from, to)' = Sent(t, from, to)
  BY <1>1 DEF Sent
<1>7. \A from, to : Sent(s, from, to) = 0
  <2> TAKE from, to
  <2>1. Orders(sent, {s}, from, to) = {}
    BY <1>1, SentShape DEF Orders
  <2> QED
    BY <2>1, FS_EmptySet DEF Sent
<1>8. ASSUME NEW t \in DOMAIN bucket', NEW from \in Nat
      PROVE  PollsPerToken * Sent(t, from, now) + bucket'[t].tokens <= Full + Since(from, bucket'[t].last)
  <2>1. CASE t = s
    <3>1. Sent(t, from, now) = 0
      BY <1>7, <2>1
    <3>2. Since(from, now) \in Nat
      BY <1>1 DEF Since
    <3> QED
      BY <1>2, <2>1, <3>1, <3>2, FullType
  <2>2. CASE t # s
    BY <1>2, <2>2, Zenon DEF LimitInv
  <2> QED
    BY <2>1, <2>2
<1>9. ASSUME NEW t \in DOMAIN bucket', NEW to \in 0 .. now, NEW from \in 0 .. to
      PROVE  PollsPerToken * Sent(t, from, to) <= Full + (to - from)
  <2>1. CASE t = s
    BY <1>1, <1>7, <2>1, FullType
  <2>2. CASE t # s
    BY <1>2, <2>2, Zenon DEF LimitInv
  <2> QED
    BY <2>1, <2>2
<1> QED
  BY <1>1, <1>3, <1>4, <1>5, <1>6, <1>8, <1>9 DEF LimitInv

(* A poll refills, and an order takes its token.                            *)
LEMMA AcquireKeepsInv ==
  ASSUME LimitInv, NEW s \in Stacks, TryAcquire(s)
  PROVE  LimitInv'
<1> DEFINE b == Refilled(bucket[s])
           sends == b.tokens >= PollsPerToken
           left == IF sends THEN b.tokens - PollsPerToken ELSE b.tokens
<1>0. /\ s \in DOMAIN bucket /\ now' = now /\ now \in Nat
      /\ bucket[s].tokens \in 0 .. Full /\ bucket[s].last \in 0 .. now
  BY DEF TryAcquire, LimitInv
<1>1. /\ b = [tokens |-> b.tokens, last |-> now] /\ b.last = now
      /\ b.tokens = Least(Full, bucket[s].tokens + (now - bucket[s].last))
  BY DEF Refilled
<1>2. b.tokens \in 0 .. Full /\ b.tokens <= bucket[s].tokens + (now - bucket[s].last) /\ b.tokens <= Full
  BY <1>0, <1>1, FullType DEF Least
<1>3. left \in 0 .. Full
  <2> HIDE DEF b
  <2> QED
    BY <1>2, FullType
<1>4. /\ bucket' = [bucket EXCEPT ![s] = [tokens |-> left, last |-> now]]
      /\ sent' = IF sends THEN Append(sent, [by |-> s, at |-> now]) ELSE sent
  <2>1. CASE sends
    <3>1. /\ bucket' = [bucket EXCEPT ![s] = [b EXCEPT !.tokens = b.tokens - PollsPerToken]]
          /\ sent' = Append(sent, [by |-> s, at |-> now])
      BY <2>1, Zenon DEF TryAcquire
    <3>2. [b EXCEPT !.tokens = b.tokens - PollsPerToken] = [tokens |-> left, last |-> now]
      BY <2>1 DEF Refilled
    <3> QED
      BY <2>1, <3>1, <3>2, Zenon
  <2>2. CASE ~sends
    <3>1. bucket' = [bucket EXCEPT ![s] = b] /\ sent' = sent
      BY <2>2, Zenon DEF TryAcquire
    <3>2. b = [tokens |-> left, last |-> now]
      BY <2>2 DEF Refilled
    <3> QED
      BY <2>2, <3>1, <3>2, Zenon
  <2> QED
    BY <2>1, <2>2
<1> HIDE DEF b, left
<1>5. /\ DOMAIN bucket' = DOMAIN bucket
      /\ bucket'[s].tokens = left /\ bucket'[s].last = now
      /\ \A t \in DOMAIN bucket : t # s => bucket'[t] = bucket[t]
      /\ bucket' \in [DOMAIN bucket' -> [tokens : 0 .. Full, last : 0 .. now']]
  BY <1>0, <1>3, <1>4 DEF LimitInv
<1>6. sent \in Seq([by : Stacks, at : Nat])
  BY DEF LimitInv
<1>7. sent' \in Seq([by : Stacks, at : Nat])
  <2>1. [by |-> s, at |-> now] \in [by : Stacks, at : Nat]
    BY <1>0
  <2>2. CASE sends
    <3> DEFINE R == [by : Stacks, at : Nat]
               o == [by |-> s, at |-> now]
    <3>1. sent \in Seq(R) /\ o \in R
      BY <1>6, <2>1
    <3> HIDE DEF R, o
    <3>2. Append(sent, o) \in Seq(R)
      BY <3>1
    <3> QED
      BY <1>4, <2>2, <3>2 DEF R, o
  <2>3. CASE ~sends
    BY <1>4, <1>6, <2>3
  <2> QED
    BY <2>2, <2>3
<1>8. ASSUME NEW i \in DOMAIN sent'
      PROVE  sent'[i].by \in DOMAIN bucket' /\ sent'[i].at <= bucket'[sent'[i].by].last
  <2>1. CASE i \in DOMAIN sent /\ sent'[i] = sent[i]
    <3>1. /\ sent[i].by \in DOMAIN bucket /\ sent[i].at \in 0 .. now
          /\ sent[i].at <= bucket[sent[i].by].last
      BY <2>1, SentShape DEF LimitInv
    <3> QED
      BY <1>0, <1>5, <2>1, <3>1
  <2>2. CASE sent'[i] = [by |-> s, at |-> now]
    BY <1>0, <1>5, <2>2
  <2>3. (i \in DOMAIN sent /\ sent'[i] = sent[i]) \/ sent'[i] = [by |-> s, at |-> now]
    <3>1. CASE sends
      <4>1. sent' = Append(sent, [by |-> s, at |-> now])
        BY <1>4, <3>1
      <4> QED
        BY <1>6, <4>1, AppendMembers
    <3>2. CASE ~sends
      BY <1>4, <3>2
    <3> QED
      BY <3>1, <3>2
  <2> QED
    BY <2>1, <2>2, <2>3
<1>9. ASSUME NEW t, NEW from \in Nat, NEW to \in Nat
      PROVE  Sent(t, from, to)' =
               Sent(t, from, to) + (IF sends /\ t = s /\ now \in from .. to THEN 1 ELSE 0)
  <2>1. sent \in Seq([by : Stacks, at : Nat]) /\ [by |-> s, at |-> now] \in [by : Stacks, at : Nat]
    BY <1>0 DEF LimitInv
  <2>2. CASE sends
    <3>1. Cardinality(Orders(Append(sent, [by |-> s, at |-> now]), {t}, from, to)) =
            Cardinality(Orders(sent, {t}, from, to))
              + (IF [by |-> s, at |-> now].by \in {t} /\ [by |-> s, at |-> now].at \in from .. to THEN 1 ELSE 0)
      <4> DEFINE R == [by : Stacks, at : Nat]
                 o == [by |-> s, at |-> now]
      <4>1. from \in Int /\ to \in Int /\ sent \in Seq(R) /\ o \in R
        BY <2>1
      <4> HIDE DEF R, o
      <4>2. Cardinality(Orders(Append(sent, o), {t}, from, to)) =
              Cardinality(Orders(sent, {t}, from, to)) + (IF o.by \in {t} /\ o.at \in from .. to THEN 1 ELSE 0)
        BY <4>1, OrderAdds
      <4> QED
        BY <4>2 DEF o
    <3>2. sent' = Append(sent, [by |-> s, at |-> now])
      BY <1>4, <2>2
    <3>3. Sent(t, from, to)' = Cardinality(Orders(Append(sent, [by |-> s, at |-> now]), {t}, from, to))
      BY <3>2 DEF Sent
    <3>4. [by |-> s, at |-> now].by = s /\ [by |-> s, at |-> now].at = now
      OBVIOUS
    <3> QED
      BY <2>2, <3>1, <3>3, <3>4 DEF Sent
  <2>3. CASE ~sends
    <3>1. Sent(t, from, to)' = Sent(t, from, to) /\ Sent(t, from, to) \in Nat
      <4>1. sent' = sent
        BY <1>4, <2>3
      <4> QED
        BY <4>1, SentType DEF Sent
    <3> QED
      BY <2>3, <3>1
  <2> QED
    BY <2>2, <2>3
<1>10. ASSUME NEW t \in DOMAIN bucket, NEW from \in Nat
      PROVE  PollsPerToken * Sent(t, from, now)' + bucket'[t].tokens <= Full + Since(from, bucket'[t].last)
  <2>0. PollsPerToken * Sent(t, from, now) + bucket[t].tokens <= Full + Since(from, bucket[t].last)
    BY DEF LimitInv
  <2>1. CASE t # s
    <3>1. Sent(t, from, now)' = Sent(t, from, now)
      BY <1>0, <1>9, <2>1, SentType
    <3> QED
      BY <1>5, <2>0, <2>1, <3>1
  <2>2. CASE t = s
    <3>1. Sent(s, from, now) \in Nat
      BY SentType
    <3>2. PollsPerToken * Sent(s, from, now) + b.tokens <= Full + Since(from, now)
      <4>1. CASE from > bucket[s].last
        <5>1. Sent(s, from, now) = 0
          BY <1>0, <4>1, NothingAfter
        <5> QED
          BY <1>0, <1>2, <5>1, FullType DEF Since
      <4>2. CASE ~(from > bucket[s].last)
        <5>1. PollsPerToken * Sent(s, from, now) \in Nat
          BY <3>1, FullType
        <5> QED
          BY <1>0, <1>2, <2>0, <2>2, <4>2, <5>1, FullType DEF Since
      <4> QED
        BY <4>1, <4>2
    <3>3. CASE sends /\ now \in from .. now
      <4>1. Sent(s, from, now)' = Sent(s, from, now) + 1
        BY <1>0, <1>9, <3>3
      <4>2. left = b.tokens - PollsPerToken
        BY <3>3 DEF left
      <4>3. PollsPerToken * (Sent(s, from, now) + 1) = PollsPerToken * Sent(s, from, now) + PollsPerToken
        BY <3>1, FullType
      <4>4. PollsPerToken * Sent(s, from, now) \in Nat /\ Since(from, now) \in Nat
        BY <1>0, <3>1, FullType DEF Since
      <4> QED
        BY <1>2, <1>5, <2>2, <3>2, <4>1, <4>2, <4>3, <4>4, FullType
    <3>4. CASE ~(sends /\ now \in from .. now)
      <4>1. Sent(s, from, now)' = Sent(s, from, now)
        BY <1>0, <1>9, <3>1, <3>4
      <4>2. left <= b.tokens /\ left \in Nat
        BY <1>2, <1>3, FullType DEF left
      <4>3. PollsPerToken * Sent(s, from, now) \in Nat /\ Since(from, now) \in Nat
        BY <1>0, <3>1, FullType DEF Since
      <4> QED
        BY <1>2, <1>5, <2>2, <3>2, <4>1, <4>2, <4>3, FullType
    <3> QED
      BY <3>3, <3>4
  <2> QED
    BY <2>1, <2>2
<1>11. ASSUME NEW t \in DOMAIN bucket, NEW to \in 0 .. now, NEW from \in 0 .. to
       PROVE  PollsPerToken * Sent(t, from, to)' <= Full + (to - from)
  <2>1. CASE to = now
    <3>1. PollsPerToken * Sent(t, from, now)' + bucket'[t].tokens <= Full + Since(from, bucket'[t].last)
      BY <1>10
    <3>2. bucket'[t].tokens \in Nat /\ bucket'[t].last \in 0 .. now
      BY <1>0, <1>5, FullType
    <3>3. PollsPerToken * Sent(t, from, now)' \in Nat
      <4>1. Sent(t, from, now)' \in Nat
        BY <1>0, <1>9, SentType
      <4> QED
        BY <4>1, FullType
    <3> QED
      BY <1>0, <2>1, <3>1, <3>2, <3>3, FullType DEF Since
  <2>2. CASE to # now
    <3>1. Sent(t, from, to)' = Sent(t, from, to)
      BY <1>0, <1>9, <2>2, SentType
    <3> QED
      BY <3>1 DEF LimitInv
  <2> QED
    BY <2>1, <2>2
<1>12. IsFiniteSet(DOMAIN bucket') /\ now' \in Nat
  BY <1>0, <1>5 DEF LimitInv
<1> QED
  BY <1>0, <1>5, <1>7, <1>8, <1>10, <1>11, <1>12 DEF LimitInv

(* The inductive invariant of the buckets.                                  *)
THEOREM LimitInvariant == LimitSpec => []LimitInv
<1>1. LimitInv /\ [LimitNext]_limitVars => LimitInv'
  <2>1. LimitInv /\ UNCHANGED limitVars => LimitInv'
    BY DEF LimitInv, limitVars, Sent
  <2> QED
    BY <2>1, PollKeepsInv, NewStackKeepsInv, AcquireKeepsInv DEF LimitNext
<1> QED
  BY <1>1, LimitInvInit, PTL DEF LimitSpec

(* What one stack sends in a stretch of time.                               *)
LEMMA StackBound ==
  ASSUME LimitInv, NEW s \in DOMAIN bucket, NEW to \in 0 .. now, NEW from \in 0 .. to
  PROVE  /\ Sent(s, from, to) <= Capacity + ((to - from) \div PollsPerToken)
         /\ Capacity + ((to - from) \div PollsPerToken) \in Nat
<1> DEFINE p == PollsPerToken
           d == to - from
           n == Sent(s, from, to)
<1>1. p \in Nat \ {0} /\ Capacity \in Nat /\ d \in Nat /\ n \in Nat /\ Full = Capacity * p
  <2>1. now \in Nat
    BY DEF LimitInv
  <2>2. d \in Nat
    BY <2>1
  <2>3. n \in Nat
    BY SentType, Zenon
  <2> QED
    BY <2>2, <2>3, FullType DEF Full
<1>2. p * n <= Capacity * p + d
  BY <1>1 DEF LimitInv
<1> HIDE DEF p, d, n
<1>3. d \div p \in Nat /\ d < p * (d \div p) + p
  BY <1>1
<1>4. p * n < p * (Capacity + (d \div p) + 1)
  <2>1. p * (Capacity + (d \div p) + 1) = Capacity * p + p * (d \div p) + p
    BY <1>1, <1>3
  <2>2. p * n \in Int /\ Capacity * p \in Int /\ p * (d \div p) \in Int
    BY <1>1, <1>3
  <2> QED
    BY <1>1, <1>2, <1>3, <2>1, <2>2
<1>5. n < Capacity + (d \div p) + 1
  <2> DEFINE k == Capacity + (d \div p) + 1
  <2>1. k \in Nat /\ p * n < p * k
    BY <1>1, <1>3, <1>4
  <2> HIDE DEF k
  <2>2. n < k
    BY <1>1, <2>1
  <2> QED
    BY <2>2 DEF k
<1> QED
  BY <1>1, <1>3, <1>5 DEF p, d, n

(* No more than a bound each is no more than that many times the bound.     *)
LEMMA TogetherBound ==
  ASSUME LimitInv, NEW from, NEW to, NEW k \in Nat,
         \A s \in DOMAIN bucket : Sent(s, from, to) <= k
  PROVE  \A S \in SUBSET DOMAIN bucket : SentBy(S, from, to) <= Cardinality(S) * k
<1> DEFINE Good(n) == \A S \in SUBSET DOMAIN bucket :
                        Cardinality(S) = n => SentBy(S, from, to) <= n * k
           Known == {n \in Nat : Good(n)}
<1>0. \A S \in SUBSET DOMAIN bucket : IsFiniteSet(S) /\ Cardinality(S) \in Nat
  BY FS_Subset, FS_CardinalityType DEF LimitInv
<1>1. \A S : SentBy(S, from, to) = Cardinality(Orders(sent, S, from, to))
  BY DEF SentBy, Orders
<1>2. \A S : IsFiniteSet(Orders(sent, S, from, to)) /\ Cardinality(Orders(sent, S, from, to)) \in Nat
  BY OrdersFinite DEF LimitInv
<1>3. 0 \in Known
  <2> SUFFICES ASSUME NEW S \in SUBSET DOMAIN bucket, Cardinality(S) = 0
               PROVE  SentBy(S, from, to) <= 0 * k
    OBVIOUS
  <2>1. S = {}
    BY <1>0, FS_EmptySet
  <2>2. Orders(sent, S, from, to) = {}
    BY <2>1 DEF Orders
  <2> QED
    BY <1>1, <2>2, FS_EmptySet
<1>4. ASSUME NEW n \in Nat, n \in Known PROVE n + 1 \in Known
  <2> SUFFICES ASSUME NEW S \in SUBSET DOMAIN bucket, Cardinality(S) = n + 1
               PROVE  SentBy(S, from, to) <= (n + 1) * k
    OBVIOUS
  <2>0. IsFiniteSet(S) /\ S # {}
    BY <1>0, FS_EmptySet
  <2>1. PICK s : s \in S
    BY <2>0
  <2> DEFINE R == S \ {s}
  <2>2. R \in SUBSET DOMAIN bucket /\ Cardinality(R) = n
    <3>1. Cardinality(R) = Cardinality(S) - 1
      BY <2>0, <2>1, FS_RemoveElement
    <3> QED
      BY <3>1
  <2>3. SentBy(R, from, to) <= n * k
    BY <1>4, <2>2
  <2> DEFINE A == Orders(sent, R, from, to)
             B == Orders(sent, {s}, from, to)
  <2>4. Orders(sent, S, from, to) = A \cup B
    BY <2>1 DEF Orders
  <2>5. Cardinality(A \cup B) <= Cardinality(A) + Cardinality(B)
    <3>1. IsFiniteSet(A) /\ IsFiniteSet(B) /\ Cardinality(A) \in Nat /\ Cardinality(B) \in Nat
      BY <1>2
    <3>2. Cardinality(A \cap B) \in Nat
      <4>1. IsFiniteSet(A \cap B)
        BY <3>1, FS_Subset
      <4> QED
        BY <4>1, FS_CardinalityType
    <3> HIDE DEF A, B
    <3>3. Cardinality(A \cup B) = Cardinality(A) + Cardinality(B) - Cardinality(A \cap B)
      BY <3>1, FS_Union
    <3> QED
      BY <3>1, <3>2, <3>3
  <2>6. Cardinality(B) <= k /\ Cardinality(B) \in Nat
    BY <1>2, <2>1 DEF Sent
  <2>7. Cardinality(A) <= n * k /\ Cardinality(A) \in Nat
    BY <1>1, <1>2, <2>3
  <2>8. Cardinality(A \cup B) \in Nat /\ SentBy(S, from, to) = Cardinality(A \cup B)
    BY <1>1, <1>2, <2>4
  <2>9. (n + 1) * k = n * k + k /\ n * k \in Nat
    OBVIOUS
  <2> HIDE DEF A, B
  <2> QED
    BY <2>5, <2>6, <2>7, <2>8, <2>9
<1> HIDE DEF Known
<1>5. Nat \subseteq Known
  BY <1>3, <1>4, SetInduction
<1> QED
  BY <1>0, <1>5 DEF Known

(* ratelimit.py:18-53: one stack sends no more than a full bucket and what  *)
(* is refilled meanwhile, and several no more than that many times their    *)
(* number: for any capacity, refill rate, number of stacks and run length.  *)
THEOREM BurstsAreBounded == LimitSpec => []BurstBound
<1>1. LimitInv => BurstBound
  <2> SUFFICES ASSUME LimitInv, NEW S \in SUBSET DOMAIN bucket, NEW to \in 0 .. now, NEW from \in 0 .. to
               PROVE  SentBy(S, from, to) <= Cardinality(S) * (Capacity + ((to - from) \div PollsPerToken))
    BY DEF BurstBound
  <2> DEFINE k == Capacity + ((to - from) \div PollsPerToken)
  <2>1. k \in Nat /\ \A s \in DOMAIN bucket : Sent(s, from, to) <= k
    <3>1. CASE DOMAIN bucket = {}
      <4>1. PollsPerToken \in Nat \ {0} /\ Capacity \in Nat /\ to - from \in Nat
        BY FullType DEF LimitInv
      <4>2. (to - from) \div PollsPerToken \in Nat
        BY <4>1
      <4> QED
        BY <3>1, <4>1, <4>2
    <3>2. CASE DOMAIN bucket # {}
      BY <3>2, StackBound
    <3> QED
      BY <3>1, <3>2
  <2> HIDE DEF k
  <2> QED
    BY <2>1, TogetherBound DEF k
<1> QED
  BY <1>1, LimitInvariant, PTL

-----------------------------------------------------------------------------
(* The login and the recorder.                                              *)

(* A stamp is of a login that succeeded; a list is only fetched before the  *)
(* hour of the login; and in the session's hours the recorder runs whether  *)
(* or not a login is under way.                                             *)
LoginInv ==
  /\ date \in Dates /\ slot \in 1 .. Len(Slots) /\ stamp \in 0 .. date
  /\ stamp = date => loggedIn = date
  /\ refreshing # <<>> => slot = Early
  /\ CaughtUp
  /\ alive /\ IsTradingDay(calendar, date) /\ (date \in Weekdays \/ catchUpAt) /\ slot = SessionAt => recorder

LEMMA DatesAreNat == Dates \subseteq Nat \ {0} /\ 1 \in Dates
<1>1. PICK n \in Dates : Dates = 1 .. n
  BY JobAssumption
<1> QED
  BY <1>1

LEMMA SlotNumbers == Len(Slots) = 5 /\ Early = 1 /\ LoginAt = 2 /\ SessionAt = 3 /\ EveningAt = 4
BY DEF Slots, Early, LoginAt, SessionAt, EveningAt

LEMMA LoginInvInit == JobInit => LoginInv
BY DatesAreNat, SlotNumbers DEF JobInit, LoginInv, CaughtUp, NoDate

LEMMA TickKeepsLogin == LoginInv /\ Tick => LoginInv'
<1> SUFFICES ASSUME LoginInv, Tick PROVE LoginInv'
  OBVIOUS
<1>1. /\ date \in Nat /\ date > 0 /\ slot \in 1 .. 5 /\ stamp \in 0 .. date
      /\ ~loginUnderWay /\ refreshing = <<>>
      /\ catchUpAt' = FALSE /\ alive' = alive /\ calendar' = calendar /\ stamp' = stamp /\ loggedIn' = loggedIn
  BY DatesAreNat, SlotNumbers DEF Tick, LoginInv
<1>2. \/ slot' = slot + 1 /\ date' = date /\ answered' = answered /\ slot < 5
      \/ date' = date + 1 /\ date + 1 \in Dates /\ slot' = 1
  BY SlotNumbers DEF Tick
<1>3. alive => Fires(date', slot')
  BY DEF Tick
<1>4. ~alive => Idles
  BY DEF Tick
<1>5. date' \in Dates /\ slot' \in 1 .. Len(Slots) /\ stamp' \in 0 .. date'
  BY <1>1, <1>2, SlotNumbers DEF LoginInv
<1>6. stamp' = date' => loggedIn' = date'
  BY <1>1, <1>2 DEF LoginInv
<1>7. refreshing' # <<>> => slot' = Early
  BY <1>1, <1>3, <1>4 DEF Fires, Idles
<1>8. alive' /\ IsTradingDay(calendar, date)' /\ (date' \in Weekdays \/ catchUpAt') /\ slot' = SessionAt => recorder'
  BY <1>1, <1>3 DEF Fires
<1>9. ASSUME alive', ~loginUnderWay', IsTradingDay(calendar, date)', date' \in Weekdays \/ catchUpAt',
             slot' \in {LoginAt, SessionAt}
      PROVE  loggedIn' = date' \/ answered'
  <2>1. alive /\ date' \in Weekdays /\ Fires(date', slot')
    BY <1>1, <1>3, <1>9
  <2>2. slot' # LoginAt
    BY <1>9, <2>1 DEF Fires
  <2>3. slot' = slot + 1 /\ date' = date /\ answered' = answered /\ slot = LoginAt
    BY <1>1, <1>2, <1>9, <2>2, SlotNumbers
  <2> QED
    BY <1>1, <1>9, <2>1, <2>3 DEF LoginInv, CaughtUp, IsTradingDay
<1> QED
  BY <1>5, <1>6, <1>7, <1>8, <1>9 DEF LoginInv, CaughtUp

LEMMA LoginInvNext == LoginInv /\ [JobNext]_jobVars => LoginInv'
<1> SUFFICES ASSUME LoginInv, [JobNext]_jobVars PROVE LoginInv'
  OBVIOUS
<1>1. CASE Tick
  BY <1>1, TickKeepsLogin
<1>2. CASE Boot
  BY <1>2 DEF LoginInv, Boot, CaughtUp, IsTradingDay, LoginOverdue, ShouldRecord, StampedOn, calendarVars
<1>3. CASE Crash
  BY <1>3 DEF LoginInv, Crash, CaughtUp
<1>4. CASE BrokerAccepts
  BY <1>4 DEF LoginInv, BrokerAccepts, CaughtUp, IsTradingDay, clockVars, calendarVars
<1>5. CASE LoginEnds
  <2>1. stamp' \in 0 .. date /\ (stamp' = date => loggedIn = date)
    BY <1>5, DatesAreNat DEF LoginInv, LoginEnds, Stamps
  <2> QED
    BY <1>5, <2>1 DEF LoginInv, LoginEnds, CaughtUp, IsTradingDay, clockVars, calendarVars
<1>6. CASE RefreshStep
  <2>1. slot = Early
    BY <1>6 DEF LoginInv, RefreshStep
  <2> QED
    BY <1>6, <2>1, SlotNumbers DEF LoginInv, RefreshStep, CaughtUp, clockVars, loginVars
<1>7. CASE Skip \/ Fetch \/ Record \/ UNCHANGED jobVars
  <2>1. UNCHANGED <<clockVars, calendarVars, loginVars>>
    BY <1>7 DEF Skip, Fetch, Record, jobVars, clockVars, calendarVars, loginVars
  <2> QED
    BY <2>1 DEF LoginInv, CaughtUp, IsTradingDay, clockVars, calendarVars, loginVars
<1> QED
  BY <1>1, <1>2, <1>3, <1>4, <1>5, <1>6, <1>7 DEF JobNext

-----------------------------------------------------------------------------
(* The calendar.                                                            *)

CalendarInv ==
  /\ refreshing \in Seq(Years)
  /\ fetched \in [Years -> Calendars]
  /\ CalendarIsLatest

LEMMA YearsToRefreshType == \A d \in Dates : YearsToRefresh(d) \in Seq(Years)
<1> SUFFICES ASSUME NEW d \in Dates PROVE YearsToRefresh(d) \in Seq(Years)
  OBVIOUS
<1>1. YearOf[d] \in Years /\ (d \in December => YearOf[d] + 1 \in Years)
  BY DEF Years
<1> HIDE DEF Years
<1>2. CASE d \in December
  BY <1>1, <1>2 DEF YearsToRefresh
<1>3. CASE d \notin December
  BY <1>1, <1>3 DEF YearsToRefresh
<1> QED
  BY <1>2, <1>3

LEMMA CalendarInvInit == JobInit => CalendarInv
BY DEF JobInit, CalendarInv, CalendarIsLatest, Unknown, Calendars

(* A list fetched replaces what was stored of its year, and only that.      *)
LEMMA RefreshKeepsCalendar ==
  ASSUME CalendarInv, refreshing # <<>>, NEW fresh \in Lists(Head(refreshing)), Refresh(fresh)
  PROVE  fetched' \in [Years -> Calendars] /\ CalendarIsLatest'
<1> DEFINE y == Head(refreshing)
<1>1. y \in Years
  BY DEF CalendarInv
<1>2. /\ fresh \in Calendars /\ fresh.known
      /\ fresh.closed \subseteq OfYear(y) /\ fresh.special \subseteq OfYear(y)
  BY DEF Lists, Calendars, OfYear
<1>3. fetched' = [fetched EXCEPT ![y] = fresh]
  BY DEF Refresh
<1>4. calendar' = IF calendar.known THEN Merged(calendar, fresh, y) ELSE fresh
  BY DEF Refresh
<1> HIDE DEF y
<1>5. fetched' \in [Years -> Calendars] /\ fetched'[y] = fresh /\ \A z \in Years : z # y => fetched'[z] = fetched[z]
  BY <1>1, <1>2, <1>3 DEF CalendarInv
<1>6. calendar'.known
  BY <1>2, <1>4 DEF Merged
<1>7. ASSUME NEW z \in Years, fetched'[z].known
      PROVE  calendar'.closed \cap OfYear(z) = fetched'[z].closed /\ calendar'.special \cap OfYear(z) = fetched'[z].special
  <2>1. CASE z = y
    BY <1>2, <1>4, <1>5, <2>1 DEF Merged
  <2>2. CASE z # y
    <3>1. fetched[z].known /\ fetched'[z] = fetched[z]
      BY <1>5, <1>7, <2>2
    <3>2. /\ calendar.known /\ calendar.closed \cap OfYear(z) = fetched[z].closed
          /\ calendar.special \cap OfYear(z) = fetched[z].special
      BY <3>1 DEF CalendarInv, CalendarIsLatest
    <3>3. OfYear(z) \cap OfYear(y) = {}
      BY <2>2 DEF OfYear
    <3> QED
      BY <1>2, <1>4, <3>1, <3>2, <3>3 DEF Merged
  <2> QED
    BY <2>1, <2>2
<1> QED
  BY <1>5, <1>6, <1>7 DEF CalendarIsLatest, OfYear

LEMMA CalendarInvNext == CalendarInv /\ date \in Dates /\ date' \in Dates /\ [JobNext]_jobVars => CalendarInv'
<1> SUFFICES ASSUME CalendarInv, date' \in Dates, [JobNext]_jobVars PROVE CalendarInv'
  OBVIOUS
<1>1. CASE Tick
  <2>1. refreshing' \in {refreshing, YearsToRefresh(date')}
    BY <1>1 DEF Tick, Fires, Idles
  <2>2. refreshing' \in Seq(Years)
    BY <2>1, YearsToRefreshType DEF CalendarInv
  <2> QED
    BY <1>1, <2>2 DEF Tick, CalendarInv, CalendarIsLatest
<1>2. CASE Crash
  BY <1>2 DEF Crash, CalendarInv, CalendarIsLatest
<1>3. CASE RefreshStep
  <2>1. refreshing' \in Seq(Years) /\ refreshing # <<>>
    BY <1>3 DEF RefreshStep, CalendarInv
  <2>2. CASE \E fresh \in Lists(Head(refreshing)) : Refresh(fresh)
    BY <2>1, <2>2, RefreshKeepsCalendar DEF CalendarInv
  <2>3. CASE UNCHANGED <<calendar, fetched>>
    BY <2>1, <2>3 DEF CalendarInv, CalendarIsLatest
  <2> QED
    BY <1>3, <2>2, <2>3 DEF RefreshStep
<1>4. CASE Boot \/ BrokerAccepts \/ LoginEnds \/ Skip \/ Fetch \/ Record \/ UNCHANGED jobVars
  <2>1. UNCHANGED calendarVars
    BY <1>4 DEF Boot, BrokerAccepts, LoginEnds, Skip, Fetch, Record, jobVars, calendarVars
  <2> QED
    BY <2>1 DEF CalendarInv, CalendarIsLatest, calendarVars
<1> QED
  BY <1>1, <1>2, <1>3, <1>4 DEF JobNext

-----------------------------------------------------------------------------
(* The ingest.                                                              *)

(* Rows that are committed and not yet logged are stored once.              *)
IngestInv ==
  /\ queue \in Seq(Exchanges) /\ target \in Dates \cup {NoDate}
  /\ queue # <<>> => target \in Dates
  /\ copies \in [Exchanges -> [Dates -> Nat]] /\ done \in [Exchanges -> SUBSET Dates]
  /\ unlogged # Nobody =>
       unlogged \in Exchanges /\ queue # <<>> /\ copies[unlogged][target] = 1
  /\ DoneIsStoredOnce

LEMMA FunctionIsSeq == ASSUME NEW S, NEW n \in Nat, NEW f \in [1 .. n -> S] PROVE f \in Seq(S)
OBVIOUS

LEMMA InSomeOrderType == InSomeOrder \in Seq(Exchanges) /\ InSomeOrder # <<>>
<1>1. PICK nse, bse \in Exchanges : Exchanges = {nse, bse}
  BY JobAssumption
<1>2. \E s \in [1 .. 2 -> Exchanges] : {s[1], s[2]} = Exchanges
  <2> DEFINE s == [i \in 1 .. 2 |-> IF i = 1 THEN nse ELSE bse]
  <2>1. s \in [1 .. 2 -> Exchanges] /\ s[1] = nse /\ s[2] = bse
    BY <1>1
  <2> QED
    BY <1>1, <2>1
<1>3. InSomeOrder \in [1 .. 2 -> Exchanges]
  BY <1>2, Zenon DEF InSomeOrder
<1> HIDE DEF InSomeOrder
<1>4. InSomeOrder \in Seq(Exchanges)
  BY <1>3, FunctionIsSeq
<1>5. InSomeOrder # <<>>
  <2>1. 1 \in DOMAIN InSomeOrder /\ 1 \notin DOMAIN <<>>
    BY <1>3
  <2> QED
    BY <2>1, Zenon
<1> QED
  BY <1>4, <1>5

LEMMA IngestInvInit == JobInit => IngestInv
BY DEF JobInit, IngestInv, DoneIsStoredOnce

LEMMA IngestInvNext == IngestInv /\ date' \in Dates /\ [JobNext]_jobVars => IngestInv'
<1> SUFFICES ASSUME IngestInv, date' \in Dates, [JobNext]_jobVars PROVE IngestInv'
  OBVIOUS
<1>1. CASE Tick
  <2>1. queue = <<>> /\ unlogged = Nobody /\ unlogged' = unlogged /\ copies' = copies /\ done' = done
    BY <1>1 DEF Tick, IngestInv
  <2>2. (queue' = queue /\ target' = target) \/ (queue' = InSomeOrder /\ target' = date')
    BY <1>1 DEF Tick, Fires, Idles
  <2> QED
    BY <2>1, <2>2, InSomeOrderType DEF IngestInv, DoneIsStoredOnce
<1>2. CASE Crash
  BY <1>2 DEF Crash, IngestInv, DoneIsStoredOnce
<1>3. CASE Skip
  BY <1>3 DEF Skip, IngestInv, DoneIsStoredOnce
<1>4. CASE Fetch
  <2>1. /\ Head(queue) \in Exchanges /\ target \in Dates /\ queue # <<>> /\ unlogged = Nobody
        /\ target' = target /\ done' = done
    BY <1>4 DEF Fetch, IngestInv
  <2>2. CASE copies' = [copies EXCEPT ![Head(queue)][target] = Upserted(@)] /\ unlogged' = Head(queue) /\ UNCHANGED queue
    <3>1. /\ copies' \in [Exchanges -> [Dates -> Nat]] /\ copies'[Head(queue)][target] = 1
          /\ \A x \in Exchanges, d \in Dates :
               copies'[x][d] = IF x = Head(queue) /\ d = target THEN 1 ELSE copies[x][d]
      BY <2>1, <2>2 DEF IngestInv, Upserted
    <3> QED
      BY <2>1, <2>2, <3>1 DEF IngestInv, DoneIsStoredOnce
  <2>3. CASE queue' = Tail(queue) /\ UNCHANGED <<copies, unlogged>>
    BY <2>1, <2>3 DEF IngestInv, DoneIsStoredOnce
  <2> QED
    BY <1>4, <2>2, <2>3 DEF Fetch
<1>5. CASE Record
  <2>1. /\ unlogged \in Exchanges /\ queue # <<>> /\ target \in Dates /\ copies[unlogged][target] = 1
        /\ unlogged' = Nobody /\ queue' = Tail(queue) /\ target' = target /\ copies' = copies
    BY <1>5 DEF Record, IngestInv
  <2>2. /\ done' \in [Exchanges -> SUBSET Dates]
        /\ \A x \in Exchanges : \A d \in done'[x] : d \in done[x] \/ (x = unlogged /\ d = target)
    BY <1>5, <2>1 DEF Record, IngestInv
  <2> QED
    BY <2>1, <2>2 DEF IngestInv, DoneIsStoredOnce
<1>6. CASE Boot \/ BrokerAccepts \/ LoginEnds \/ RefreshStep \/ UNCHANGED jobVars
  <2>1. UNCHANGED ingestVars
    BY <1>6 DEF Boot, BrokerAccepts, LoginEnds, RefreshStep, jobVars, ingestVars
  <2> QED
    BY <2>1 DEF IngestInv, DoneIsStoredOnce, ingestVars
<1> QED
  BY <1>1, <1>2, <1>3, <1>4, <1>5, <1>6 DEF JobNext

(* engine/scheduler.py: for any dates, holidays, special sessions, failures *)
(* and restarts, the day's login, recorder, calendar and ingest are caught  *)
(* up with.                                                                 *)
THEOREM DayIsCaughtUp == JobSpec => []JobsCatchUp
<1> DEFINE I == LoginInv /\ CalendarInv /\ IngestInv
<1>1. JobInit => I
  BY LoginInvInit, CalendarInvInit, IngestInvInit
<1>2. I /\ [JobNext]_jobVars => I'
  <2>1. LoginInv => date \in Dates
    BY DEF LoginInv
  <2>2. LoginInv' => date' \in Dates
    BY DEF LoginInv
  <2> QED
    BY <2>1, <2>2, LoginInvNext, CalendarInvNext, IngestInvNext
<1>3. I => JobsCatchUp
  BY DEF LoginInv, CalendarInv, IngestInv, JobsCatchUp
<1> QED
  BY <1>1, <1>2, <1>3, PTL DEF JobSpec

-----------------------------------------------------------------------------
(* The marks of a cycle.                                                    *)

(* What a row is worth when its contract's price is q.                      *)
Worth(c, q) ==
  IF q # NoMark THEN Checked(c, q) ELSE IF marks[c].last # NoMark THEN marks[c].last ELSE EntryPrice

(* A row the gates have valued has its contract's price in the memo, and,   *)
(* until the exits come to it, is still worth what the gates took it for.   *)
MarksInv ==
  /\ MarksTypeOK
  /\ {asked, gateMark, exitMark} \subseteq [Held -> Int]
  /\ \A c \in Held : gateMark[c] # NotAsked => asked[c] # NotAsked /\ (step = "gates" => c \in held)
  /\ \A c \in Held : step = "gates" \/ (step = "exits" /\ c \in todo) =>
       /\ exitMark[c] = NotAsked
       /\ gateMark[c] # NotAsked => gateMark[c] = Worth(c, asked[c])
  /\ OneMarkPerCycle

LEMMA MarksInvInit == MarksInit => MarksInv
BY MarksAssumption DEF MarksInit, MarksInv, MarksTypeOK, OneMarkPerCycle, Fresh, Nowhere, NoMark, NotAsked

LEMMA PossibleMarksType == PossibleMarks \subseteq Nat
BY MarksAssumption DEF PossibleMarks

(* The memo only ever grows, and says the same price again.                 *)
LEMMA SaysOnce ==
  ASSUME MarksInv, NEW c \in Held, NEW q \in Nat, Says(c, q)
  PROVE  /\ asked' \in [Held -> Int]
         /\ asked'[c] = q
         /\ \A d \in Held \ {c} : asked'[d] = asked[d]
         /\ asked[c] # NotAsked => q = asked[c]
BY DEF Says, Remembered, MarksInv, NotAsked

LEMMA WorthType ==
  ASSUME MarksTypeOK, NEW c \in Held, NEW q \in Nat
  PROVE  Worth(c, q) \in Nat /\ Checked(c, q) \in Nat
BY MarksAssumption DEF Worth, Checked, MarksTypeOK

LEMMA MarksInvNext == MarksInv /\ [MarksNext]_marksVars => MarksInv'
<1> SUFFICES ASSUME MarksInv, [MarksNext]_marksVars PROVE MarksInv'
  OBVIOUS
<1>1. CASE CycleBegins
  BY <1>1, MarksAssumption DEF CycleBegins, MarksInv, MarksTypeOK, OneMarkPerCycle, Nowhere, NotAsked
<1>2. ASSUME NEW c \in Held, Gates(c) PROVE MarksInv'
  <2>1. PICK q \in PossibleMarks :
          Says(c, q) /\ gateMark' = [gateMark EXCEPT ![c] = Worth(c, q)]
    BY <1>2 DEF Gates, Worth
  <2>2. q \in Nat
    BY PossibleMarksType
  <2>3. /\ asked' \in [Held -> Int] /\ asked'[c] = q
        /\ \A d \in Held \ {c} : asked'[d] = asked[d]
    BY <2>1, <2>2, SaysOnce
  <2>4. gateMark' \in [Held -> Int] /\ gateMark'[c] = Worth(c, q)
        /\ \A d \in Held \ {c} : gateMark'[d] = gateMark[d]
    BY <2>1, <2>2, WorthType DEF MarksInv
  <2>5. /\ step = "gates" /\ c \in held /\ todo' = todo \ {c}
        /\ UNCHANGED <<marks, held, step, exitMark, managed, cycles>>
    BY <1>2 DEF Gates, MarksInv, MarksTypeOK
  <2>6. \A d \in Held : \A p : Worth(d, p)' = Worth(d, p)
    BY <2>5 DEF Worth, Checked, Trusted, Around
  <2>7. MarksTypeOK'
    BY <2>5 DEF MarksInv, MarksTypeOK
  <2>8. q # NotAsked
    BY <2>2 DEF NotAsked
  <2> QED
    BY <2>3, <2>4, <2>5, <2>6, <2>7, <2>8 DEF MarksInv, OneMarkPerCycle
<1>3. ASSUME NEW c \in Held, GatesRaise(c) PROVE MarksInv'
  BY <1>3 DEF GatesRaise, Breaks, lastSaid, MarksInv, MarksTypeOK, OneMarkPerCycle
<1>4. ASSUME NEW c \in Held, EntersRow(c) PROVE MarksInv'
  <2>1. gateMark[c] = NotAsked
    BY <1>4 DEF EntersRow, MarksInv
  <2>2. \A d \in Held \ {c} : \A p : Worth(d, p)' = Worth(d, p)
    BY <1>4 DEF EntersRow, Worth, Checked, Trusted, Around, MarksInv, MarksTypeOK
  <2>3. MarksTypeOK'
    BY <1>4 DEF EntersRow, Fresh, NoMark, MarksInv, MarksTypeOK
  <2> QED
    BY <1>4, <2>1, <2>2, <2>3 DEF EntersRow, lastSaid, MarksInv, OneMarkPerCycle
<1>5. CASE EntriesEnd
  <2>1. \A d \in Held : \A p : Worth(d, p)' = Worth(d, p)
    BY <1>5 DEF EntriesEnd, Worth, Checked, Trusted, Around
  <2> QED
    BY <1>5, <2>1 DEF EntriesEnd, lastSaid, MarksInv, MarksTypeOK, OneMarkPerCycle
<1>6. ASSUME NEW c \in Held, ExitPrices(c) \/ ExitUnpriced(c) PROVE MarksInv'
  <2>1. /\ step = "exits" /\ c \in todo /\ todo' = todo \ {c} /\ managed' = managed \cup {c}
        /\ UNCHANGED <<step, gateMark, cycles>> /\ held' \in {held, held \ {c}}
    BY <1>6 DEF ExitPrices, ExitUnpriced, Looked, Closes
  <2>2. /\ asked' \in [Held -> Int]
        /\ \A d \in Held \ {c} : asked'[d] = asked[d]
        /\ asked[c] # NotAsked => asked'[c] # NotAsked
    <3>1. CASE ExitPrices(c)
      BY <3>1, SaysOnce, PossibleMarksType DEF ExitPrices, NotAsked
    <3>2. CASE ExitUnpriced(c)
      BY <3>2, SaysOnce DEF ExitUnpriced, Breaks, MarksInv, NotAsked, NoMark
    <3> QED
      BY <1>6, <3>1, <3>2
  <2>3. /\ exitMark' \in [Held -> Int]
        /\ \A d \in Held \ {c} : exitMark'[d] = exitMark[d]
        /\ gateMark[c] # NotAsked /\ exitMark'[c] # NotAsked => exitMark'[c] = gateMark[c]
    <3>1. CASE ExitPrices(c)
      <4>1. PICK q \in PossibleMarks \ {NoMark} :
              Says(c, q) /\ exitMark' = [exitMark EXCEPT ![c] = Checked(c, q)]
        BY <3>1 DEF ExitPrices
      <4>2. q \in Nat /\ Checked(c, q) \in Nat /\ Worth(c, q) = Checked(c, q)
        BY PossibleMarksType, WorthType DEF MarksInv, Worth
      <4>3. asked[c] # NotAsked => q = asked[c]
        BY <4>1, <4>2, SaysOnce
      <4> QED
        BY <2>1, <4>1, <4>2, <4>3 DEF MarksInv
    <3>2. CASE ExitUnpriced(c)
      <4>1. asked[c] # NotAsked => asked[c] = NoMark
        BY <3>2, SaysOnce DEF ExitUnpriced, Breaks, NoMark
      <4>2. marks[c].last \in Nat
        BY DEF MarksInv, MarksTypeOK
      <4>3. marks[c].last # NoMark => Worth(c, NoMark) = marks[c].last
        BY DEF Worth
      <4> QED
        BY <2>1, <3>2, <4>1, <4>2, <4>3 DEF ExitUnpriced, MarksInv
    <3> QED
      BY <1>6, <3>1, <3>2
  <2>4. /\ marks' \in [Held -> [last : Nat, pend : Nat]]
        /\ \A d \in Held \ {c} : marks'[d] = marks[d]
    <3>1. CASE ExitPrices(c)
      BY <3>1, PossibleMarksType DEF ExitPrices, MarksInv, MarksTypeOK, NoMark
    <3>2. CASE ExitUnpriced(c)
      BY <3>2 DEF ExitUnpriced, MarksInv, MarksTypeOK
    <3> QED
      BY <1>6, <3>1, <3>2
  <2>5. \A d \in Held \ {c} : \A p : Worth(d, p)' = Worth(d, p)
    BY <2>4 DEF Worth, Checked, Trusted, Around
  <2>6. MarksTypeOK'
    BY <2>1, <2>4 DEF MarksInv, MarksTypeOK
  <2> QED
    BY <2>1, <2>2, <2>3, <2>5, <2>6 DEF MarksInv, OneMarkPerCycle
<1>7. CASE CycleEnds
  BY <1>7 DEF CycleEnds, lastSaid, MarksInv, MarksTypeOK, OneMarkPerCycle
<1>8. CASE UNCHANGED marksVars
  BY <1>8 DEF marksVars, MarksInv, MarksTypeOK, OneMarkPerCycle, Worth, Checked, Trusted, Around
<1> QED
  BY <1>1, <1>2, <1>3, <1>4, <1>5, <1>6, <1>7, <1>8 DEF MarksNext

(* scheduler.py:1181-1184: within a cycle the gates and the exits never see *)
(* different marks of a position, whatever the broker answers when asked    *)
(* again and whatever the filter on jumps is set to.                        *)
THEOREM MarksAgree == MarksSpec => []OneMarkPerCycle
<1>1. MarksSpec => []MarksInv
  BY MarksInvInit, MarksInvNext, PTL DEF MarksSpec
<1>2. MarksInv => OneMarkPerCycle
  BY DEF MarksInv
<1> QED
  BY <1>1, <1>2, PTL

-----------------------------------------------------------------------------
(* The bar recorder.                                                        *)

(* What a bar's volume is, whichever way the broker's count went.           *)
LEMMA VolumeType ==
  ASSUME NEW b, b.start \in Ticks, b.last \in Ticks
  PROVE  BarVolume(b) \in Nat
<1>1. /\ Total[b.start] \in Nat /\ Total[b.last] \in Nat
      /\ Base[b.start] \in Nat /\ Base[b.last] \in Nat
      /\ Base[b.last] <= Total[b.last]
  BY TapeAssumption DEF TapeAssumption, Ticks
<1>2. Reported(b.last) \in Nat /\ Reported(b.start) \in Int
  BY <1>1 DEF Reported
<1> QED
  BY <1>2 DEF BarVolume

LEMMA WrittenType ==
  ASSUME TypeOK, NEW F, F \subseteq bars, Written(F)
  PROVE  store' \subseteq Row /\ flushed' \subseteq Nat
<1>1. ASSUME NEW b \in F PROVE RowOf(b) \in Row /\ b.minute \in Nat
  <2>1. b \in Bar
    BY DEF TypeOK
  <2>2. /\ b.minute \in Nat /\ b.start \in Ticks /\ b.last \in Ticks
    BY <2>1 DEF Bar
  <2>3. BarVolume(b) \in Nat
    BY <2>2, VolumeType
  <2>4. life \in Nat
    BY BoundsAssumption DEF BoundsAssumption, TypeOK
  <2> QED
    BY <2>2, <2>3, <2>4 DEF RowOf, Row
<1> QED
  BY <1>1 DEF TypeOK, Written, MinutesOf

(* The open bars after a tick was taken: its own, new or brought up to it,  *)
(* and those of later minutes as they were.                                 *)
LEMMA TakenBars ==
  ASSUME NEW i, Take(i), NEW c \in bars'
  PROVE  \/ c = Opened(i) /\ Minute[i] \notin MinutesOf(bars)
         \/ \E b \in Kept(i) : b.minute = Minute[i] /\ c = [b EXCEPT !.last = i]
         \/ c \in Kept(i) /\ c.minute # Minute[i]
<1>1. CASE Minute[i] \in MinutesOf(bars)
  <2>1. bars' = {IF b.minute = Minute[i] THEN [b EXCEPT !.last = i] ELSE b : b \in Kept(i)}
    BY <1>1 DEF Take
  <2>2. PICK b \in Kept(i) : c = IF b.minute = Minute[i] THEN [b EXCEPT !.last = i] ELSE b
    BY <2>1
  <2> QED
    BY <2>2
<1>2. CASE Minute[i] \notin MinutesOf(bars)
  <2>1. bars' = Kept(i) \cup {Opened(i)}
    BY <1>2 DEF Take
  <2>2. ASSUME c \in Kept(i) PROVE c.minute # Minute[i]
    BY <1>2, <2>2 DEF Kept, MinutesOf
  <2> QED
    BY <1>2, <2>1, <2>2
<1> QED
  BY <1>1, <1>2

LEMMA TakeType ==
  ASSUME TypeOK, NEW i \in Ticks, Take(i)
  PROVE  bars' \subseteq Bar /\ latest' \in 0 .. N
<1>1. Minute[i] \in Nat /\ N \in Nat /\ i \in 0 .. N
  BY TapeAssumption DEF TapeAssumption, Ticks
<1>2. Opened(i) \in Bar
  BY <1>1 DEF Opened, Bar, TypeOK, Ticks
<1>3. ASSUME NEW b \in Kept(i) PROVE b \in Bar /\ [b EXCEPT !.last = i] \in Bar
  BY DEF Kept, TypeOK, Bar
<1>4. ASSUME NEW c \in bars' PROVE c \in Bar
  BY <1>2, <1>3, TakenBars
<1>5. latest' = i
  BY DEF Take
<1> QED
  BY <1>1, <1>4, <1>5

LEMMA TypeInit == Init => TypeOK
<1> SUFFICES ASSUME Init PROVE TypeOK
  OBVIOUS
<1>1. 0 \in 0 .. N /\ 0 \in 0 .. MaxReplays /\ 0 \in 0 .. MaxRestarts
  BY TapeAssumption, BoundsAssumption DEF TapeAssumption, BoundsAssumption
<1>2. late \in BOOLEAN /\ bars \subseteq Bar /\ flushed \subseteq Nat /\ store \subseteq Row
  BY Zenon DEF Init
<1> QED
  BY <1>1, <1>2 DEF Init, TypeOK

LEMMA TypeStep == TypeOK /\ [Next]_vars => TypeOK'
<1> SUFFICES ASSUME TypeOK, [Next]_vars PROVE TypeOK'
  OBVIOUS
<1> USE TapeAssumption, BoundsAssumption DEF TapeAssumption, BoundsAssumption
<1>1. CASE Deliver
  <2> DEFINE i == pos + 1
  <2>1. i \in Ticks /\ pos' \in 0 .. N /\ high' \in 0 .. N /\ Later(gap, i) \in 0 .. N
    BY <1>1 DEF Deliver, TypeOK, Ticks, Later
  <2>2. late' \in BOOLEAN /\ replays' \in 0 .. MaxReplays /\ life' \in 0 .. MaxRestarts
    BY <1>1 DEF Deliver, TypeOK
  <2>3. Stale(i) \subseteq bars /\ Kept(i) \subseteq bars
    BY DEF Stale, Kept
  <2> HIDE DEF i
  <2>4. CASE OnTick(i)
    <3>1. store' \subseteq Row /\ flushed' \subseteq Nat
      BY <2>3, <2>4, WrittenType DEF OnTick
    <3>2. bars' \subseteq Bar /\ latest' \in 0 .. N
      BY <2>1, <2>3, <2>4, TakeType DEF OnTick, TakeNew, TypeOK
    <3> QED
      BY <2>1, <2>2, <2>4, <3>1, <3>2 DEF OnTick, TypeOK
  <2>5. CASE OnTickRaises(i)
    <3>1. PICK F \in SUBSET Stale(i) : Written(F) /\ bars' = bars \ F
      BY <2>5 DEF OnTickRaises, Raises
    <3>2. store' \subseteq Row /\ flushed' \subseteq Nat
      BY <2>3, <3>1, WrittenType
    <3> QED
      BY <2>1, <2>2, <2>5, <3>1, <3>2 DEF OnTickRaises, TypeOK
  <2> QED
    BY <1>1, <2>4, <2>5 DEF Deliver, i
<1>2. CASE Lose
  BY <1>2 DEF Lose, TypeOK, Later
<1>3. ASSUME NEW k \in 0 .. N, Replay(k) PROVE TypeOK'
  BY <1>3 DEF Replay, TypeOK
<1>4. CASE FlushAll
  <2>1. PICK F \in SUBSET bars : Written(F) /\ bars' = bars \ F
    <3>1. CASE Written(bars) /\ bars' = {}
      BY <3>1
    <3>2. CASE Raises(bars)
      BY <3>2 DEF Raises
    <3> QED
      BY <1>4, <3>1, <3>2 DEF FlushAll
  <2>2. store' \subseteq Row /\ flushed' \subseteq Nat
    BY <2>1, WrittenType
  <2> QED
    BY <1>4, <2>1, <2>2 DEF FlushAll, feed, TypeOK
<1>5. CASE Restart
  BY <1>5 DEF Restart, feed, TypeOK
<1>6. CASE UNCHANGED vars
  BY <1>6 DEF vars, feed, TypeOK
<1> QED
  BY <1>1, <1>2, <1>3, <1>4, <1>5, <1>6 DEF Next

(* The recorder keeps its types.                                            *)
THEOREM RecorderTypeCorrect == Spec => []TypeOK
BY TypeInit, TypeStep, PTL DEF Spec

-----------------------------------------------------------------------------
(* What makes OneRowPerMinute inductive: _flushed_keys holds the minutes    *)
(* this process has written, and no open bar is one of them.                *)

OpenBarsAreUnwritten ==
  /\ \A b \in bars : b.minute \notin flushed
  /\ \A b, c \in bars : b.minute = c.minute => b = c
RowsAreFlushed ==
  \A r \in store : r.life <= life /\ (r.life = life => r.minute \in flushed)

KeysInv == TypeOK /\ OpenBarsAreUnwritten /\ RowsAreFlushed /\ OneRowPerMinute

LEMMA KeysWritten ==
  ASSUME KeysInv, NEW F, F \subseteq bars, Written(F), life' = life
  PROVE  /\ RowsAreFlushed' /\ OneRowPerMinute'
         /\ \A b \in bars \ F : b.minute \notin flushed'
<1>1. ASSUME NEW b \in F
      PROVE  RowOf(b).life = life /\ RowOf(b).minute = b.minute /\ b.minute \in flushed'
  BY <1>1 DEF RowOf, Written, MinutesOf
<1>2. ASSUME NEW r \in store' PROVE r \in store \/ \E b \in F : r = RowOf(b)
  BY DEF Written
<1>3. life \in Nat
  BY BoundsAssumption DEF BoundsAssumption, KeysInv, TypeOK
<1>4. RowsAreFlushed'
  <2> SUFFICES ASSUME NEW r \in store'
               PROVE  r.life <= life /\ (r.life = life => r.minute \in flushed')
    BY DEF RowsAreFlushed
  <2>1. CASE r \in store
    BY <2>1 DEF KeysInv, RowsAreFlushed, Written
  <2>2. CASE \E b \in F : r = RowOf(b)
    BY <2>2, <1>1, <1>3
  <2> QED
    BY <1>2, <2>1, <2>2
<1>5. ASSUME NEW r \in store, NEW b \in F PROVE ~(r.life = life /\ r.minute = b.minute)
  BY DEF KeysInv, OpenBarsAreUnwritten, RowsAreFlushed
<1>6. ASSUME NEW b \in F, NEW c \in F, b.minute = c.minute PROVE RowOf(b) = RowOf(c)
  BY <1>6 DEF KeysInv, OpenBarsAreUnwritten
<1>7. OneRowPerMinute'
  <2> SUFFICES ASSUME NEW r \in store', NEW t \in store', r.life = t.life, r.minute = t.minute
               PROVE  r = t
    BY DEF OneRowPerMinute
  <2>1. CASE r \in store /\ t \in store
    BY <2>1 DEF KeysInv, OneRowPerMinute
  <2>2. ASSUME NEW b \in F, r = RowOf(b) PROVE r = t
    BY <1>1, <1>2, <1>5, <1>6, <2>2
  <2>3. ASSUME NEW b \in F, t = RowOf(b) PROVE r = t
    BY <1>1, <1>2, <1>5, <1>6, <2>3
  <2> QED
    BY <1>2, <2>1, <2>2, <2>3
<1>8. \A b \in bars \ F : b.minute \notin flushed'
  BY DEF Written, MinutesOf, KeysInv, OpenBarsAreUnwritten
<1> QED
  BY <1>4, <1>7, <1>8

(* Flushing some bars and keeping the others.                               *)
LEMMA KeysFlushed ==
  ASSUME KeysInv, NEW F, F \subseteq bars, Written(F), bars' = bars \ F, life' = life
  PROVE  OpenBarsAreUnwritten' /\ RowsAreFlushed' /\ OneRowPerMinute'
<1>1. RowsAreFlushed' /\ OneRowPerMinute' /\ \A b \in bars \ F : b.minute \notin flushed'
  BY KeysWritten
<1> QED
  BY <1>1 DEF KeysInv, OpenBarsAreUnwritten

LEMMA KeysOnTick ==
  ASSUME KeysInv, NEW i \in Ticks, OnTick(i), life' = life
  PROVE  OpenBarsAreUnwritten' /\ RowsAreFlushed' /\ OneRowPerMinute'
<1>1. Stale(i) \subseteq bars /\ Kept(i) \subseteq bars \ Stale(i)
  <2>1. \A b \in bars : b.minute \in Nat
    BY DEF KeysInv, TypeOK, Bar
  <2>2. Minute[i] \in Nat
    BY TapeAssumption DEF TapeAssumption, Ticks
  <2> QED
    BY <2>1, <2>2 DEF Stale, Kept
<1>2. /\ RowsAreFlushed' /\ OneRowPerMinute'
      /\ \A b \in Kept(i) : b.minute \notin flushed'
  BY <1>1, KeysWritten DEF OnTick
<1>3. CASE Minute[i] \in flushed
  BY <1>1, <1>2, <1>3 DEF OnTick, TakeNew, KeysInv, OpenBarsAreUnwritten
<1>4. CASE Minute[i] \notin flushed
  <2>1. Take(i)
    BY <1>4 DEF OnTick, TakeNew
  <2>2. Minute[i] \notin flushed'
    <3>1. \A b \in Stale(i) : b.minute # Minute[i]
      BY DEF Stale, KeysInv, TypeOK, Bar
    <3> QED
      BY <1>4, <3>1 DEF OnTick, Written, MinutesOf
  <2>3. Opened(i).minute = Minute[i]
    BY DEF Opened
  <2>4. ASSUME NEW b \in Kept(i) PROVE [b EXCEPT !.last = i].minute = b.minute
    BY <1>1 DEF KeysInv, TypeOK, Bar
  <2>5. ASSUME NEW c \in bars' PROVE c.minute \notin flushed'
    BY <1>2, <2>1, <2>2, <2>3, <2>4, TakenBars
  <2>6. ASSUME NEW c \in bars', NEW d \in bars', c.minute = d.minute PROVE c = d
    <3>1. CASE c.minute = Minute[i] /\ Minute[i] \notin MinutesOf(bars)
      <4>1. \A b \in Kept(i) : b.minute # Minute[i]
        BY <1>1, <3>1 DEF MinutesOf
      <4> QED
        BY <2>1, <2>6, <3>1, <4>1, TakenBars
    <3>2. CASE c.minute = Minute[i] /\ Minute[i] \in MinutesOf(bars)
      <4>1. PICK b \in Kept(i) : b.minute = Minute[i] /\ c = [b EXCEPT !.last = i]
        BY <2>1, <3>2, TakenBars
      <4>2. PICK e \in Kept(i) : e.minute = Minute[i] /\ d = [e EXCEPT !.last = i]
        BY <2>1, <2>6, <3>2, TakenBars
      <4>3. b = e
        BY <1>1, <4>1, <4>2 DEF KeysInv, OpenBarsAreUnwritten
      <4> QED
        BY <4>1, <4>2, <4>3
    <3>3. CASE c.minute # Minute[i]
      <4>1. c \in Kept(i) /\ d \in Kept(i)
        BY <2>1, <2>3, <2>4, <2>6, <3>3, TakenBars
      <4> QED
        BY <1>1, <2>6, <4>1 DEF KeysInv, OpenBarsAreUnwritten
    <3> QED
      BY <3>1, <3>2, <3>3
  <2> QED
    BY <1>2, <2>5, <2>6 DEF OpenBarsAreUnwritten
<1> QED
  BY <1>3, <1>4

LEMMA KeysStep == KeysInv /\ [Next]_vars => KeysInv'
<1> SUFFICES ASSUME KeysInv, [Next]_vars PROVE KeysInv'
  OBVIOUS
<1>0. TypeOK'
  BY TypeStep DEF KeysInv
<1>1. CASE Deliver
  <2>1. pos + 1 \in Ticks /\ life' = life
    BY <1>1, TapeAssumption DEF TapeAssumption, Deliver, KeysInv, TypeOK, Ticks
  <2>2. CASE OnTick(pos + 1)
    BY <1>0, <2>1, <2>2, KeysOnTick DEF KeysInv
  <2>3. CASE OnTickRaises(pos + 1)
    <3>1. PICK F \in SUBSET Stale(pos + 1) : Written(F) /\ bars' = bars \ F
      BY <2>3 DEF OnTickRaises, Raises
    <3>2. F \subseteq bars
      BY DEF Stale
    <3> QED
      BY <1>0, <2>1, <3>1, <3>2, KeysFlushed DEF KeysInv
  <2> QED
    BY <1>1, <2>2, <2>3 DEF Deliver
<1>2. CASE Lose \/ (\E k \in 0 .. N : Replay(k)) \/ UNCHANGED vars
  BY <1>0, <1>2 DEF Lose, Replay, vars, feed, KeysInv, OpenBarsAreUnwritten, RowsAreFlushed,
     OneRowPerMinute
<1>3. CASE FlushAll
  <2>1. CASE Written(bars) /\ bars' = {}
    BY <1>0, <1>3, <2>1, KeysFlushed DEF FlushAll, KeysInv
  <2>2. CASE Raises(bars)
    BY <1>0, <1>3, <2>2, KeysFlushed DEF FlushAll, Raises, KeysInv
  <2> QED
    BY <1>3, <2>1, <2>2 DEF FlushAll
<1>4. CASE Restart
  <2>1. \A r \in store : r.life \in Nat /\ r.life <= life /\ life \in Nat
    BY BoundsAssumption DEF BoundsAssumption, KeysInv, TypeOK, Row, RowsAreFlushed
  <2> QED
    BY <1>0, <1>4, <2>1 DEF Restart, KeysInv, OpenBarsAreUnwritten, RowsAreFlushed,
       OneRowPerMinute
<1> QED
  BY <1>1, <1>2, <1>3, <1>4 DEF Next

(* Whatever comes again, however late, and whatever write fails: a process  *)
(* writes a minute at most once.                                            *)
LEMMA MinutesAreWrittenOnce == Spec => []OneRowPerMinute
<1>1. Init => KeysInv
  BY TypeInit DEF Init, KeysInv, OpenBarsAreUnwritten, RowsAreFlushed, OneRowPerMinute
<1>2. KeysInv => OneRowPerMinute
  BY DEF KeysInv
<1> QED
  BY <1>1, <1>2, KeysStep, PTL DEF Spec

-----------------------------------------------------------------------------
(* No step of a process takes a bar out of memory but into the store.       *)

LEMMA TickKeepsBars ==
  ASSUME TypeOK, NEW i \in Ticks, OnTick(i), NEW b \in bars
  PROVE  b.minute \in MinutesOf(bars') \/ RowOf(b) \in store'
<1>1. CASE b \in Stale(i)
  BY <1>1 DEF OnTick, Written
<1>2. CASE b \notin Stale(i)
  <2>1. b.minute \in Nat /\ Minute[i] \in Nat
    BY TapeAssumption DEF TapeAssumption, TypeOK, Bar, Ticks
  <2>2. b \in Kept(i)
    BY <1>2, <2>1 DEF Stale, Kept
  <2>3. CASE Take(i)
    <3>1. CASE Minute[i] \in MinutesOf(bars)
      <4>1. (IF b.minute = Minute[i] THEN [b EXCEPT !.last = i] ELSE b) \in bars'
        BY <2>2, <2>3, <3>1 DEF Take
      <4>2. [b EXCEPT !.last = i].minute = b.minute
        BY DEF TypeOK, Bar
      <4> QED
        BY <4>1, <4>2 DEF MinutesOf
    <3>2. CASE Minute[i] \notin MinutesOf(bars)
      BY <2>2, <2>3, <3>2 DEF Take, MinutesOf
    <3> QED
      BY <3>1, <3>2
  <2>4. CASE bars' = Kept(i)
    BY <2>2, <2>4 DEF MinutesOf
  <2> QED
    BY <2>3, <2>4 DEF OnTick, TakeNew
<1> QED
  BY <1>1, <1>2

THEOREM BarsAreKept == Spec => FailedFlushKeepsBar
<1> DEFINE KeepsBars ==
      life' = life => \A b \in bars : b.minute \in MinutesOf(bars') \/ RowOf(b) \in store'
<1>1. ASSUME NEW B \in SUBSET bars, Raises(B), NEW b \in bars
      PROVE  b.minute \in MinutesOf(bars') \/ RowOf(b) \in store'
  BY <1>1 DEF Raises, Written, MinutesOf
<1>2. TypeOK /\ [Next]_vars => KeepsBars \/ UNCHANGED vars
  <2> SUFFICES ASSUME TypeOK, Next, life' = life, NEW b \in bars
               PROVE  b.minute \in MinutesOf(bars') \/ RowOf(b) \in store'
    OBVIOUS
  <2>1. CASE Deliver
    <3>1. pos + 1 \in Ticks
      BY <2>1, TapeAssumption DEF TapeAssumption, Deliver, TypeOK, Ticks
    <3>2. Stale(pos + 1) \in SUBSET bars
      BY DEF Stale
    <3> QED
      BY <2>1, <3>1, <3>2, <1>1, TickKeepsBars DEF Deliver, OnTickRaises
  <2>2. CASE Lose \/ \E k \in 0 .. N : Replay(k)
    BY <2>2 DEF Lose, Replay, MinutesOf
  <2>3. CASE FlushAll
    BY <2>3, <1>1 DEF FlushAll, Written
  <2>4. CASE Restart
    <3>1. life \in Nat
      BY BoundsAssumption DEF BoundsAssumption, TypeOK
    <3> QED
      BY <2>4, <3>1 DEF Restart
  <2> QED
    BY <2>1, <2>2, <2>3, <2>4 DEF Next
<1>3. TypeOK /\ [Next]_vars => [KeepsBars]_vars
  BY <1>2
<1> QED
  BY <1>3, RecorderTypeCorrect, PTL DEF Spec, FailedFlushKeepsBar

-----------------------------------------------------------------------------
(* No trade in two bars, as long as no lost tick has arrived after all.     *)
(* Behind the last loss every tick has been taken; so a tick that opens a   *)
(* bar is ahead of all others, at most one bar is open, and the bars follow *)
(* one another on the tape.                                                 *)

TakenMinutes == flushed \cup MinutesOf(bars)

FeedIsAhead == gap <= pos /\ pos <= high /\ latest <= high
NothingTakenYet == latest = 0 => bars = {} /\ flushed = {} /\ high = gap
AllTakenSinceLoss ==
  /\ \A i \in Ticks : gap < i /\ i <= high => Minute[i] \in TakenMinutes
  /\ latest # 0 => Minute[latest] \in TakenMinutes
OpenBarIsLatest ==
  \A b \in bars :
    /\ b.last = latest /\ b.minute = Minute[latest] /\ b.start <= latest
    /\ Minute[b.start] < b.minute \/ b.start <= gap + 1
RowsAreBehind ==
  \A r \in store :
    /\ r.start <= r.last /\ r.volume <= Total[r.last] - Total[r.start]
    /\ \A b \in bars : r.last <= b.start
    /\ r.last <= IF latest = 0 THEN gap ELSE latest
RowsAreApart == \A r, s \in store : r = s \/ r.last <= s.start \/ s.last <= r.start

TapeInv ==
  /\ FeedIsAhead /\ NothingTakenYet /\ AllTakenSinceLoss
  /\ OpenBarIsLatest /\ RowsAreBehind /\ RowsAreApart

(* The broker's count is right but for a rollover, which only hides trades. *)
LEMMA VolumeWasTraded ==
  ASSUME NEW b, b.start \in Ticks, b.last \in Ticks, b.start <= b.last
  PROVE  BarVolume(b) <= Total[b.last] - Total[b.start]
<1>1. /\ Total[b.start] \in Nat /\ Total[b.last] \in Nat
      /\ Base[b.start] \in Nat /\ Base[b.last] \in Nat
      /\ Base[b.start] <= Base[b.last] /\ Total[b.start] <= Total[b.last]
      /\ Base[b.start] # Base[b.last] => Total[b.start] <= Base[b.last]
  BY TapeAssumption DEF TapeAssumption, Ticks
<1> QED
  BY <1>1 DEF BarVolume, Reported

LEMMA RowsWritten ==
  ASSUME KeysInv, TapeInv, NEW F, F \subseteq bars, Written(F)
  PROVE  /\ \A r \in store' :
              /\ r.start <= r.last /\ r.volume <= Total[r.last] - Total[r.start]
              /\ \A b \in bars \ F : r.last <= b.start
              /\ r.last <= IF latest = 0 THEN gap ELSE latest
         /\ RowsAreApart'
<1>1. ASSUME NEW b \in bars, NEW c \in bars PROVE b = c
  BY DEF KeysInv, OpenBarsAreUnwritten, TapeInv, OpenBarIsLatest
<1>2. ASSUME NEW b \in bars
      PROVE  /\ b.start \in Ticks /\ b.last \in Ticks /\ b.start <= b.last
             /\ b.last = latest /\ latest # 0
  <2>1. b.start \in Ticks /\ b.last \in Ticks
    BY DEF KeysInv, TypeOK, Bar
  <2> QED
    BY <2>1 DEF TapeInv, OpenBarIsLatest, Ticks
<1>3. ASSUME NEW r \in store' PROVE r \in store \/ \E b \in F : r = RowOf(b)
  BY DEF Written
<1>4. ASSUME NEW b \in F
      PROVE  /\ RowOf(b).start = b.start /\ RowOf(b).last = b.last
             /\ RowOf(b).volume <= Total[b.last] - Total[b.start]
  BY <1>2, VolumeWasTraded DEF RowOf
<1>5. ASSUME NEW r \in store'
      PROVE  /\ r.start <= r.last /\ r.volume <= Total[r.last] - Total[r.start]
             /\ \A b \in bars \ F : r.last <= b.start
             /\ r.last <= IF latest = 0 THEN gap ELSE latest
  <2>1. CASE r \in store
    BY <2>1 DEF TapeInv, RowsAreBehind
  <2>2. ASSUME NEW b \in F, r = RowOf(b)
        PROVE  /\ r.start <= r.last /\ r.volume <= Total[r.last] - Total[r.start]
               /\ \A c \in bars \ F : r.last <= c.start
               /\ r.last <= IF latest = 0 THEN gap ELSE latest
    <3>1. \A c \in bars \ F : FALSE
      BY <1>1, <2>2
    <3>2. b \in bars /\ latest \in Int
      BY TapeAssumption, <2>2 DEF TapeAssumption, KeysInv, TypeOK
    <3> QED
      BY <1>2, <1>4, <2>2, <3>1, <3>2
  <2> QED
    BY <1>3, <2>1, <2>2
<1>6. RowsAreApart'
  <2> SUFFICES ASSUME NEW r \in store', NEW t \in store'
               PROVE  r = t \/ r.last <= t.start \/ t.last <= r.start
    BY DEF RowsAreApart
  <2>1. CASE r \in store /\ t \in store
    BY <2>1 DEF TapeInv, RowsAreApart
  <2>2. ASSUME NEW b \in F, r = RowOf(b), t \in store PROVE t.last <= r.start
    BY <1>4, <2>2 DEF TapeInv, RowsAreBehind
  <2>3. ASSUME NEW b \in F, t = RowOf(b), r \in store PROVE r.last <= t.start
    BY <1>4, <2>3 DEF TapeInv, RowsAreBehind
  <2>4. ASSUME NEW b \in F, NEW c \in F, r = RowOf(b), t = RowOf(c) PROVE r = t
    BY <1>1, <2>4
  <2> QED
    BY <1>3, <2>1, <2>2, <2>3, <2>4
<1> QED
  BY <1>5, <1>6

(* Nothing but the rows and some bars change: the tape is followed.         *)
LEMMA TapeFlushed ==
  ASSUME KeysInv, TapeInv, NEW F, F \subseteq bars, Written(F), bars' = bars \ F,
         latest' = latest, gap' >= gap, gap' \in Int, high' >= high,
         FeedIsAhead', NothingTakenYet',
         \A i \in Ticks : gap' < i /\ i <= high' => gap < i /\ i <= high
  PROVE  TapeInv'
<1>1. TakenMinutes \subseteq TakenMinutes'
  BY DEF TakenMinutes, Written, MinutesOf
<1>2. AllTakenSinceLoss'
  BY <1>1 DEF TapeInv, AllTakenSinceLoss
<1>3. gap \in Int /\ latest \in Int /\ \A b \in bars : b.start \in Int
  BY TapeAssumption DEF TapeAssumption, KeysInv, TypeOK, Bar, Ticks
<1>4. OpenBarIsLatest'
  BY <1>3 DEF TapeInv, OpenBarIsLatest
<1>5. RowsAreBehind' /\ RowsAreApart'
  <2>1. \A r \in store' : r.last <= IF latest = 0 THEN gap ELSE latest
    BY RowsWritten
  <2>2. \A r \in store' : r.last \in Int
    <3>1. \A r \in store : r.last \in Int
      BY TapeAssumption DEF TapeAssumption, KeysInv, TypeOK, Row, Ticks
    <3>2. \A b \in F : RowOf(b).last \in Int
      BY TapeAssumption DEF TapeAssumption, KeysInv, TypeOK, Bar, Ticks, RowOf
    <3> QED
      BY <3>1, <3>2 DEF Written
  <2>3. \A r \in store' : r.last <= IF latest' = 0 THEN gap' ELSE latest'
    BY <1>3, <2>1, <2>2
  <2>4. /\ \A r \in store' :
             /\ r.start <= r.last /\ r.volume <= Total[r.last] - Total[r.start]
             /\ \A b \in bars' : r.last <= b.start
        /\ RowsAreApart'
    BY RowsWritten
  <2> QED
    BY <2>3, <2>4 DEF RowsAreBehind
<1> QED
  BY <1>2, <1>4, <1>5 DEF TapeInv

(* A tick of a minute that is written, of an open bar, or of a new one.      *)
LEMMA TapeOnTick ==
  ASSUME KeysInv, TapeInv, NEW i \in Ticks, i = pos + 1, OnTick(i),
         pos' = i, high' = Later(high, i)
  PROVE  TapeInv'
<1>1. /\ gap \in Nat /\ pos \in Nat /\ high \in Nat /\ latest \in Nat /\ i \in Nat
      /\ latest # 0 => latest \in Ticks
      /\ gap' = gap /\ gap < i /\ i <= high' /\ latest <= high /\ pos <= high
      /\ high < i => high' = i
      /\ i <= high => high' = high
  BY TapeAssumption DEF TapeAssumption, OnTick, TapeInv, FeedIsAhead, KeysInv, TypeOK, Ticks, Later
<1>2. \A j \in Ticks : j <= high' => j <= high \/ j = i
  BY <1>1 DEF Ticks
<1>3. \A j, k \in Ticks : Minute[j] \in Nat /\ (j <= k => Minute[j] <= Minute[k])
  BY TapeAssumption DEF TapeAssumption, Ticks
<1>4. ASSUME NEW b \in bars
      PROVE  /\ b.minute \in Nat /\ b.start \in Ticks /\ b.last \in Ticks
             /\ b \in Stale(i) \/ b \in Kept(i)
             /\ b \notin Stale(i) \/ b \notin Kept(i)
  BY <1>3 DEF KeysInv, TypeOK, Bar, Stale, Kept
<1>0. \A j \in Ticks : j \in Int /\ j # 0
  BY TapeAssumption DEF TapeAssumption, Ticks
<1>5. Stale(i) \subseteq bars /\ Kept(i) \subseteq bars \ Stale(i)
  BY <1>4 DEF Stale, Kept
<1>6. /\ \A r \in store' :
           /\ r.start <= r.last /\ r.volume <= Total[r.last] - Total[r.start]
           /\ \A b \in Kept(i) : r.last <= b.start
           /\ r.last <= IF latest = 0 THEN gap ELSE latest
      /\ RowsAreApart'
  BY <1>5, RowsWritten DEF OnTick
<1>7. ASSUME NEW r \in store' PROVE r.last \in Int
  <2>1. Written(Stale(i))
    BY DEF OnTick
  <2>2. ASSUME NEW b \in Stale(i) PROVE RowOf(b).last \in Int
    <3>1. b.last \in Ticks
      BY <1>4, <1>5
    <3> QED
      BY <1>0, <3>1 DEF RowOf
  <2>3. r \in store => r.last \in Int
    BY DEF KeysInv, TypeOK, Row, Ticks
  <2> QED
    BY <2>1, <2>2, <2>3 DEF Written
<1>8. ASSUME NEW b \in bars, NEW c \in bars PROVE b = c
  BY DEF KeysInv, OpenBarsAreUnwritten, TapeInv, OpenBarIsLatest
<1>9. CASE Minute[i] \in flushed
  <2>1. Minute[i] \notin flushed => FALSE
    BY <1>9
  <2>2. bars' = Kept(i) /\ latest' = latest
    BY <2>1 DEF OnTick, TakeNew
  <2>3. latest # 0
    BY <1>9 DEF TapeInv, NothingTakenYet
  <2>4. TakenMinutes \subseteq TakenMinutes' /\ Minute[i] \in TakenMinutes'
    BY <1>4, <1>9, <2>2 DEF OnTick, Written, TakenMinutes, MinutesOf
  <2>5. AllTakenSinceLoss'
    BY <1>1, <1>2, <2>2, <2>4 DEF TapeInv, AllTakenSinceLoss
  <2>6. FeedIsAhead' /\ NothingTakenYet' /\ OpenBarIsLatest'
    BY <1>1, <1>5, <2>2, <2>3 DEF TapeInv, FeedIsAhead, NothingTakenYet, OpenBarIsLatest
  <2>7. RowsAreBehind'
    BY <1>6, <2>2, <2>3 DEF RowsAreBehind
  <2> QED
    BY <1>6, <2>5, <2>6, <2>7 DEF TapeInv
<1>10. CASE Minute[i] \notin flushed /\ Minute[i] \in MinutesOf(bars)
  <2>1. Take(i) /\ latest' = i
    BY <1>10 DEF OnTick, TakeNew, Take
  <2>2. PICK b \in bars : b.minute = Minute[i]
    BY <1>10 DEF MinutesOf
  <2>3. b \in Kept(i) /\ Stale(i) = {}
    BY <1>3, <1>4, <1>5, <1>8, <2>2 DEF Stale, Kept
  <2> DEFINE c == [b EXCEPT !.last = i]
  <2>0. c.minute = b.minute /\ c.start = b.start /\ c.last = i
    BY DEF KeysInv, TypeOK, Bar
  <2>4. bars' = {c}
    <3>1. Kept(i) = {b}
      BY <1>5, <1>8, <2>3
    <3>2. bars' = {IF d.minute = Minute[i] THEN [d EXCEPT !.last = i] ELSE d : d \in Kept(i)}
      BY <1>10, <2>1 DEF Take
    <3> QED
      BY <2>2, <3>1, <3>2
  <2>5. b.start <= i /\ (Minute[b.start] < b.minute \/ b.start <= gap + 1)
    <3>1. Minute[b.start] < b.minute \/ b.start <= gap + 1
      BY DEF TapeInv, OpenBarIsLatest
    <3>2. b.start \in Ticks
      BY <1>4
    <3>3. Minute[b.start] < Minute[i] => b.start <= i
      BY <1>3, <3>2 DEF Ticks
    <3>4. b.start <= gap + 1 => b.start <= i
      BY <1>1, <3>2 DEF Ticks
    <3> QED
      BY <2>2, <3>1, <3>3, <3>4
  <2>6. TakenMinutes \subseteq TakenMinutes' /\ Minute[i] \in TakenMinutes'
    <3>1. MinutesOf(bars') = {Minute[i]} /\ MinutesOf(bars) = {Minute[i]}
      <4>1. bars = {b}
        BY <1>8
      <4> HIDE DEF c
      <4> QED
        BY <2>0, <2>2, <2>4, <4>1 DEF MinutesOf
    <3> QED
      BY <3>1 DEF OnTick, Written, TakenMinutes
  <2>7. AllTakenSinceLoss'
    BY <1>1, <1>2, <2>1, <2>6 DEF TapeInv, AllTakenSinceLoss
  <2>8. FeedIsAhead' /\ NothingTakenYet' /\ OpenBarIsLatest'
    <3> HIDE DEF c
    <3> QED
      BY <1>0, <1>1, <2>0, <2>1, <2>2, <2>4, <2>5
         DEF FeedIsAhead, NothingTakenYet, OpenBarIsLatest
  <2>9. RowsAreBehind'
    <3>1. ASSUME NEW r \in store' PROVE r.last <= b.start /\ r.last <= i
      <4>1. r.last <= b.start /\ r.last \in Int /\ b.start \in Int
        <5>1. b.start \in Ticks
          BY <1>4
        <5> QED
          BY <1>0, <1>6, <1>7, <2>3, <5>1
      <4> QED
        BY <1>1, <2>5, <4>1
    <3>2. \A d \in bars' : d.start = b.start
      BY <2>0, <2>4
    <3>3. i # 0
      BY DEF Ticks
    <3> QED
      BY <1>6, <2>1, <3>1, <3>2, <3>3 DEF RowsAreBehind
  <2> QED
    BY <1>6, <2>7, <2>8, <2>9 DEF TapeInv
<1>11. CASE Minute[i] \notin flushed /\ Minute[i] \notin MinutesOf(bars)
  <2>1. Take(i) /\ latest' = i /\ i # 0
    BY <1>11 DEF OnTick, TakeNew, Take, Ticks
  <2>2. Minute[i] \notin TakenMinutes
    BY <1>11 DEF TakenMinutes
  <2>3. high < i /\ high' = i /\ latest < i
    BY <1>1, <2>2 DEF TapeInv, AllTakenSinceLoss
  <2>4. latest # 0 => Minute[latest] < Minute[i]
    <3>1. latest # 0 => Minute[latest] # Minute[i]
      BY <2>2 DEF TapeInv, AllTakenSinceLoss
    <3> QED
      BY <1>1, <1>3, <2>3, <3>1
  <2>5. Kept(i) = {}
    <3>1. ASSUME NEW b \in bars PROVE b.minute < Minute[i]
      <4>1. latest # 0 /\ b.minute = Minute[latest]
        BY <3>1 DEF TapeInv, NothingTakenYet, OpenBarIsLatest
      <4> QED
        BY <2>4, <4>1
    <3> QED
      BY <1>3, <1>4, <3>1 DEF Kept
  <2>6. bars' = {Opened(i)}
    BY <1>11, <2>1, <2>5 DEF Take
  <2> DEFINE start == IF latest = 0 THEN i ELSE latest
  <2>7. /\ Opened(i).minute = Minute[i] /\ Opened(i).last = i /\ Opened(i).start = start
    BY DEF Opened
  <2>8. start <= i /\ (Minute[start] < Minute[i] \/ start <= gap + 1)
    BY <1>1, <2>3, <2>4 DEF TapeInv, NothingTakenYet
  <2>9. TakenMinutes \subseteq TakenMinutes' /\ Minute[i] \in TakenMinutes'
    <3>1. Minute[i] \in MinutesOf(bars')
      BY <2>6, <2>7 DEF MinutesOf
    <3>2. flushed' = flushed \cup MinutesOf(bars)
      <4>1. Stale(i) = bars
        BY <1>4, <1>5, <2>5
      <4> QED
        BY <4>1 DEF OnTick, Written
    <3> QED
      BY <3>1, <3>2 DEF TakenMinutes
  <2>10. AllTakenSinceLoss'
    BY <1>1, <1>2, <2>1, <2>9 DEF TapeInv, AllTakenSinceLoss
  <2>11. FeedIsAhead' /\ NothingTakenYet' /\ OpenBarIsLatest'
    BY <1>1, <2>1, <2>6, <2>7, <2>8 DEF FeedIsAhead, NothingTakenYet, OpenBarIsLatest
  <2>12. RowsAreBehind'
    <3>1. ASSUME NEW r \in store' PROVE r.last <= start /\ r.last <= i
      BY <1>1, <1>6, <1>7, <2>3
    <3> QED
      BY <1>6, <2>1, <2>6, <2>7, <3>1 DEF RowsAreBehind
  <2> QED
    BY <1>6, <2>10, <2>11, <2>12 DEF TapeInv
<1> QED
  BY <1>9, <1>10, <1>11

(* A tick that opens no bar because the append raised is lost like any other. *)
LEMMA TapeOnRaise ==
  ASSUME KeysInv, TapeInv, NEW i \in Ticks, i = pos + 1, OnTickRaises(i),
         pos' = i, high' = Later(high, i)
  PROVE  TapeInv'
<1>1. /\ gap \in Nat /\ pos \in Nat /\ high \in Nat /\ latest \in Nat /\ i \in Nat
      /\ gap' = i /\ gap <= i /\ i <= high' /\ high <= high' /\ latest <= high /\ pos <= high
      /\ high' = high \/ high' = i
      /\ latest' = latest
  BY TapeAssumption
     DEF TapeAssumption, OnTickRaises, TapeInv, FeedIsAhead, KeysInv, TypeOK, Ticks, Later
<1>2. PICK F \in SUBSET Stale(i) : F # Stale(i) /\ Written(F) /\ bars' = bars \ F
  BY DEF OnTickRaises, Raises
<1>3. F \subseteq bars
  BY DEF Stale
<1>4. latest # 0
  BY <1>2 DEF TapeInv, NothingTakenYet, Stale
<1>5. FeedIsAhead' /\ NothingTakenYet'
  BY <1>1, <1>4 DEF FeedIsAhead, NothingTakenYet
<1>6. \A j \in Ticks : gap' < j /\ j <= high' => gap < j /\ j <= high
  BY <1>1 DEF Ticks
<1> QED
  BY <1>1, <1>2, <1>3, <1>5, <1>6, TapeFlushed

(* No step breaks TapeInv but the delivery of a tick that had been lost.    *)
LEMMA TapeStep ==
  ASSUME KeysInv, TapeInv, [Next]_vars, ~late'
  PROVE  TapeInv'
<1>1. /\ gap \in Nat /\ pos \in Nat /\ high \in Nat /\ latest \in Nat /\ N \in Nat
      /\ gap <= pos /\ pos <= high /\ latest <= high
      /\ latest = 0 => bars = {} /\ flushed = {} /\ high = gap
  BY TapeAssumption DEF TapeAssumption, TapeInv, FeedIsAhead, NothingTakenYet, KeysInv, TypeOK
<1>2. CASE Deliver
  <2>1. /\ pos + 1 \in Ticks /\ pos' = pos + 1 /\ high' = Later(high, pos + 1)
    BY <1>1, <1>2 DEF Deliver, Ticks
  <2> QED
    BY <1>2, <2>1, TapeOnTick, TapeOnRaise DEF Deliver
<1>3. CASE Lose
  <2>1. /\ gap' = pos + 1 /\ pos' = pos + 1 /\ high' = Later(high, pos + 1)
        /\ UNCHANGED <<bars, flushed, latest, store>>
    BY <1>1, <1>3 DEF Lose, Later
  <2>2. FeedIsAhead' /\ NothingTakenYet'
    BY <1>1, <2>1 DEF FeedIsAhead, NothingTakenYet, Later
  <2>3. Written({}) /\ bars' = bars \ {}
    BY <2>1 DEF Written, MinutesOf
  <2>4. gap' >= gap /\ gap' \in Int /\ high' >= high
    BY <1>1, <2>1 DEF Later
  <2>5. \A j \in Ticks : gap' < j /\ j <= high' => gap < j /\ j <= high
    BY <1>1, <2>1 DEF Ticks, Later
  <2> QED
    BY <2>1, <2>2, <2>3, <2>4, <2>5, TapeFlushed
<1>4. ASSUME NEW k \in 0 .. N, Replay(k) PROVE TapeInv'
  <2>1. ~(k < gap)
    BY <1>4, Zenon DEF Replay
  <2>2. gap <= k /\ pos' = k /\ k < pos
    BY <1>1, <1>4, <2>1 DEF Replay
  <2>3. UNCHANGED <<bars, flushed, latest, store, high, gap, life>>
    BY <1>4 DEF Replay
  <2>4. FeedIsAhead'
    BY <1>1, <2>2, <2>3 DEF FeedIsAhead
  <2> QED
    BY <2>3, <2>4 DEF TapeInv, NothingTakenYet, AllTakenSinceLoss, TakenMinutes, MinutesOf,
       OpenBarIsLatest, RowsAreBehind, RowsAreApart
<1>5. CASE FlushAll
  <2>1. PICK F \in SUBSET bars : Written(F) /\ bars' = bars \ F
    <3>1. CASE Written(bars) /\ bars' = {}
      BY <3>1
    <3>2. CASE Raises(bars)
      BY <3>2 DEF Raises
    <3> QED
      BY <1>5, <3>1, <3>2 DEF FlushAll
  <2>2. UNCHANGED <<latest, pos, gap, high>> /\ latest # 0
    BY <1>1, <1>5 DEF FlushAll, feed
  <2>3. FeedIsAhead' /\ NothingTakenYet'
    BY <1>1, <2>2 DEF FeedIsAhead, NothingTakenYet
  <2> QED
    BY <1>1, <2>1, <2>2, <2>3, TapeFlushed
<1>6. CASE Restart
  <2>1. /\ bars' = {} /\ flushed' = {} /\ latest' = 0 /\ pos' = high /\ gap' = high
        /\ high' = high /\ store' = store
    BY <1>6 DEF Restart, feed
  <2>2. FeedIsAhead' /\ NothingTakenYet' /\ AllTakenSinceLoss' /\ OpenBarIsLatest'
    BY <1>1, <2>1 DEF FeedIsAhead, NothingTakenYet, AllTakenSinceLoss, OpenBarIsLatest, Ticks
  <2>3. RowsAreBehind'
    <3>1. \A r \in store : r.last \in Int
      BY <1>1 DEF KeysInv, TypeOK, Row, Ticks
    <3>2. \A r \in store : r.last <= high
      BY <1>1, <3>1 DEF TapeInv, RowsAreBehind
    <3> QED
      BY <2>1, <3>2 DEF TapeInv, RowsAreBehind
  <2>4. RowsAreApart'
    BY <2>1 DEF TapeInv, RowsAreApart
  <2> QED
    BY <2>2, <2>3, <2>4 DEF TapeInv
<1>7. CASE UNCHANGED vars
  BY <1>7 DEF vars, feed, TapeInv, FeedIsAhead, NothingTakenYet, AllTakenSinceLoss,
     TakenMinutes, MinutesOf, OpenBarIsLatest, RowsAreBehind, RowsAreApart
<1> QED
  BY <1>2, <1>3, <1>4, <1>5, <1>6, <1>7 DEF Next

LEMMA LateStaysLate == [Next]_vars /\ late => late'
BY Zenon DEF Next, Deliver, Lose, Replay, FlushAll, Restart, vars, feed

UntilLate == ~late => TapeInv

(* Whatever the tape, and however many rollovers it has: until a lost tick  *)
(* arrives after all, no trade is in two bars of the store.                 *)
LEMMA TradesAreCountedOnce == Spec => []NoTradeCountedTwice
<1>1. Init => KeysInv /\ UntilLate
  <2> SUFFICES ASSUME Init PROVE KeysInv /\ UntilLate
    OBVIOUS
  <2>1. KeysInv
    BY TypeInit DEF Init, KeysInv, OpenBarsAreUnwritten, RowsAreFlushed, OneRowPerMinute
  <2>2. TapeInv
    BY TapeAssumption DEF TapeAssumption, Init, TapeInv, FeedIsAhead, NothingTakenYet,
       AllTakenSinceLoss, OpenBarIsLatest, RowsAreBehind, RowsAreApart, Ticks
  <2> QED
    BY <2>1, <2>2 DEF UntilLate
<1>2. KeysInv /\ UntilLate /\ [Next]_vars => KeysInv' /\ UntilLate'
  BY KeysStep, TapeStep, LateStaysLate, Zenon DEF UntilLate
<1>3. UntilLate => NoTradeCountedTwice
  BY Zenon DEF UntilLate, TapeInv, RowsAreBehind, RowsAreApart, NoTradeCountedTwice
<1> QED
  BY <1>1, <1>2, <1>3, PTL DEF Spec

(* For any tape, redelivery, failure and restart a process writes a minute  *)
(* at most once and, until a lost tick comes after all, no trade is in two  *)
(* bars.                                                                    *)
THEOREM StoreIsCountedOnce == Spec => []StoreCountsOnce
BY MinutesAreWrittenOnce, TradesAreCountedOnce, PTL DEF StoreCountsOnce
=================================================================================

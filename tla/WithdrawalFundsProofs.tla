------------------------- MODULE WithdrawalFundsProofs -------------------------
(***************************************************************************)
(* Where the lamports are, for every instance of module Withdrawals: the   *)
(* main account holds the tracked balance plus what is credited late, what *)
(* created and submitted transactions still have to pay, and what failed   *)
(* ones did not; a round has reserved no more than the balance leaves above*)
(* the rent (FundsInv). It is inductive only together with IInv of module  *)
(* WithdrawalsProofs, as a transaction must not land twice or be paid for  *)
(* twice.                                                                  *)
(***************************************************************************)
EXTENDS WithdrawalsProofs, DataTheorems

\* Only finitely many transactions exist.
FiniteOK ==
  /\ IsFiniteSet(created) /\ IsFiniteSet(submitted)
  /\ IsFiniteSet(landed) /\ IsFiniteSet(reserved)

\* Lamports come in whole sweeps.
CountsOK ==
  /\ balance \in Nat /\ main \in Nat
  /\ \E k \in Nat : uncredited = k * SweepAmount

\* The sums of BalanceAccounted, with the amounts as a parameter.
CostOf(am, t)     == Total(am, t.burns) + Fee
CostsOf(am, S)    == SumFunction([t \in S |-> CostOf(am, t)])
RefusedOf(am, ls) == SumFunction([l \in ls |-> Total(am, l.tx.burns)])

Accounted ==
  main = balance + uncredited + CostsOf(amount, created)
         + CostsOf(amount, Unlanded) + RefusedOf(amount, Failures)

\* Whoever spends leaves the rent.
RentOK == created \cup submitted # {} => balance >= Rent

ReservedBurns == UNION {r.burns : r \in reserved}

\* The batches of a round do not overlap, and the balance pays all of them.
RoundFunded ==
  /\ \A r \in reserved : /\ r.account \notin bound
                         /\ \A b \in r.burns : status[b] = "pending"
  /\ \A r, s \in reserved :
       r # s => r.account # s.account /\ r.burns \cap s.burns = {}
  /\ reserved # {} =>
       Total(amount, ReservedBurns) + Fee * Cardinality(reserved) + Rent <= balance

FundsInv == FiniteOK /\ CountsOK /\ Accounted /\ RentOK /\ RoundFunded

(***************************************************************************)
(* Batches                                                                 *)
(***************************************************************************)

\* Positions count the elements of the set from 1, in their order.
LEMMA RankOrder ==
  ASSUME NEW S, S \subseteq Nat, IsFiniteSet(S), NEW a \in S, NEW b \in S
  PROVE  /\ Rank(S, a) \in Nat \ {0}
         /\ a <= b => Rank(S, a) <= Rank(S, b)
         /\ a < b => Rank(S, a) < Rank(S, b)
<1>. DEFINE L(x) == {c \in S : c <= x}
<1>1. \A x \in S : L(x) \subseteq S /\ x \in L(x)
  OBVIOUS
<1>2. \A x \in S : IsFiniteSet(L(x))
  BY <1>1, FS_Subset, Zenon
<1>3. \A x \in S : Cardinality(L(x)) \in Nat /\ L(x) # {}
  BY <1>1, <1>2, FS_CardinalityType, Zenon
<1>4. \A x \in S : Cardinality(L(x)) # 0
  BY <1>2, <1>3, FS_EmptySet, Zenon
<1>5. ASSUME a <= b PROVE L(a) \subseteq L(b)
  <2>1. \A c \in Nat : c <= a => c <= b
    BY <1>5
  <2>. QED  BY <2>1, Zenon
<1>6. ASSUME a < b PROVE b \notin L(a)
  BY <1>6
<1>7. a <= b => Cardinality(L(a)) <= Cardinality(L(b))
  BY <1>2, <1>5, FS_Subset, Zenon
<1>8. ASSUME a < b PROVE Cardinality(L(a)) < Cardinality(L(b))
  BY <1>1, <1>5, <1>6, <1>8, <1>2, FS_Subset, <1>3
<1>9. Rank(S, a) = Cardinality(L(a)) /\ Rank(S, b) = Cardinality(L(b))
  BY Zenon DEF Rank
<1>. HIDE DEF L
<1>. QED  BY <1>3, <1>4, <1>7, <1>8, <1>9, Zenon

\* A later position is in no earlier batch; batches count from 1.
LEMMA BatchOrder ==
  ASSUME NEW m \in Nat \ {0}, NEW n \in Nat \ {0}, m <= n
  PROVE  /\ BatchNumber(m) \in Nat \ {0}
         /\ BatchNumber(m) <= BatchNumber(n)
BY BatchAssumption DEF BatchNumber

\* The batches that a round reserves are on distinct free accounts, hold
\* distinct pending requests, and are all paid by the balance less the rent:
\* together they cost no more than serving the latest of their requests.
LEMMA BatchesFunded ==
  ASSUME TypeOK, balance \in Nat
  PROVE  /\ IsFiniteSet(ReservedBatches)
         /\ \A r \in ReservedBatches :
              r.account \notin bound /\ r.burns \subseteq Pending
         /\ \A r, s \in ReservedBatches :
              r # s => r.account # s.account /\ r.burns \cap s.burns = {}
         /\ ReservedBatches # {} =>
              Total(amount, UNION {r.burns : r \in ReservedBatches})
                + Fee * Cardinality(ReservedBatches) + Rent <= balance
<1>. DEFINE R == ReservedBatches
            P == Pending
            F == FreeAccounts
            B == Affordable(P, amount, balance)
            k(a) == Rank(F, a)
            n(b) == BatchNumber(Rank(P, b))
<1>1. /\ F \subseteq Nat /\ IsFiniteSet(F) /\ F \cap bound = {}
      /\ P \subseteq Nat /\ IsFiniteSet(P) /\ P \subseteq Burn
  <2>1. F \subseteq Account /\ P \subseteq Burn
    BY Zenon DEF TypeOK, FreeAccounts, Pending
  <2>. QED  BY <2>1, WithdrawalsAssumption, FS_Subset, Zenon DEF FreeAccounts
<1>2. \A a : BatchFor(a) = {b \in B : n(b) = k(a)}
  BY Zenon DEF BatchFor, Batch
<1>3. B \subseteq P
  BY Zenon DEF Affordable
<1>4. ASSUME NEW r \in R
      PROVE  /\ r.account \in F /\ r.burns = BatchFor(r.account) /\ r.burns # {}
             /\ r = [account |-> r.account, burns |-> BatchFor(r.account)]
  BY DEF ReservedBatches
<1>. HIDE DEF R, P, F, B
<1>5. ASSUME NEW r \in R, NEW s \in R, r # s
      PROVE  r.account # s.account /\ k(r.account) # k(s.account)
  <2>1. r.account \in F /\ s.account \in F /\ r.account \in Nat /\ s.account \in Nat
    BY <1>1, <1>4, Zenon
  <2>2. ASSUME NEW x \in F, NEW y \in F, x < y PROVE k(x) # k(y)
    <3>1. Rank(F, x) \in Nat /\ Rank(F, y) \in Nat /\ Rank(F, x) < Rank(F, y)
      BY <1>1, <2>2, RankOrder, Zenon
    <3>. QED  BY <3>1
  <2>. QED  BY <2>1, <2>2, <1>4, <1>5
<1>6. ASSUME NEW r \in R, NEW s \in R, r # s
      PROVE  r.burns \cap s.burns = {}
  <2>1. k(r.account) # k(s.account)
    BY <1>5, <1>6, Zenon
  <2>. HIDE DEF n, k
  <2>. QED  BY <2>1, <1>2, <1>4
<1>7. \A r \in R : r.burns \subseteq B
  BY <1>2, <1>4, Zenon
<1>. DEFINE U == UNION {r.burns : r \in R}
<1>8. U \subseteq B /\ U \subseteq P /\ U \subseteq Nat /\ IsFiniteSet(U)
  <2>1. U \subseteq B
    BY <1>7, Zenon
  <2>. HIDE DEF U
  <2>. QED  BY <1>1, <1>3, <2>1, FS_Subset, Zenon
<1>9. \A b, c \in P : c <= b => n(b) \in Nat \ {0} /\ n(c) \in Nat \ {0} /\ n(c) <= n(b)
  <2>. SUFFICES ASSUME NEW b \in P, NEW c \in P, c <= b
                PROVE  n(b) \in Nat \ {0} /\ n(c) \in Nat \ {0} /\ n(c) <= n(b)
    BY Zenon
  <2>1. /\ Rank(P, b) \in Nat \ {0} /\ Rank(P, c) \in Nat \ {0}
        /\ Rank(P, c) <= Rank(P, b)
    BY <1>1, RankOrder, Zenon
  <2>. QED  BY <2>1, BatchOrder
<1>10. CASE R = {}
  BY <1>10, FS_EmptySet, Zenon DEF R
<1>11. CASE R # {}
  <2>1. U # {}
    BY <1>4, <1>11
  <2>2. PICK b \in U : \A c \in U : c <= b
    <3>. HIDE DEF U
    <3>. QED  BY <1>8, <2>1, Largest, Zenon
  <2>3. b \in P /\ n(b) \in Nat \ {0} /\ CostUpTo(P, amount, b) <= AvailableBalance(balance)
    BY <1>1, <1>8, <1>9 DEF B, Affordable
  <2>. DEFINE g == [r \in R |-> k(r.account)]
  <2>4. ASSUME NEW r \in R PROVE k(r.account) \in 1..n(b)
    <3>1. PICK c \in r.burns : TRUE
      BY <1>4, Zenon
    <3>2. c \in P /\ c <= b
      BY <1>3, <2>2, <1>2, <1>4, <3>1, Zenon
    <3>. HIDE DEF n, k
    <3>. QED  BY <2>3, <1>2, <1>4, <3>1, <1>9, <3>2
  <2>5. g \in Injection(R, 1..n(b))
    <3>1. g \in [R -> 1..n(b)]
      BY <2>4, Zenon
    <3>2. \A r, s \in R : g[r] = g[s] => r = s
      BY <1>5, Zenon
    <3>. HIDE DEF g
    <3>. QED  BY <3>1, <3>2, Zenon DEF Injection, IsInjective
  <2>6. IsFiniteSet(1..n(b)) /\ Cardinality(1..n(b)) = n(b)
    <3>. HIDE DEF n
    <3>. QED  BY <2>3, FS_Interval
  <2>7. IsFiniteSet(R) /\ Cardinality(R) <= Cardinality(1..n(b))
    <3>. HIDE DEF g, n
    <3>. QED  BY <2>5, <2>6, FS_Injection, Zenon
  <2>8. Cardinality(R) \in Nat /\ Cardinality(R) <= n(b)
    BY <2>6, <2>7, FS_CardinalityType, Zenon
  <2>9. \A c \in P : amount[c] \in Nat
    BY <1>1, Zenon DEF TypeOK
  <2>. DEFINE V == {c \in P : c <= b}
  <2>10. U \subseteq V /\ V \subseteq P /\ IsFiniteSet(V)
    BY <1>8, <2>2, <1>1, FS_Subset, Zenon
  <2>11. Total(amount, U) <= Total(amount, V) /\ Total(amount, U) \in Nat
         /\ Total(amount, V) \in Nat
    <3>. HIDE DEF U, V
    <3>1. \A c \in V : amount[c] \in Nat
      BY <2>9, <2>10, Zenon
    <3>2. \A c \in U : amount[c] \in Nat
      BY <2>10, <3>1, Zenon
    <3>3. SumFunctionOnSet(amount, U) <= SumFunctionOnSet(amount, V)
      BY <2>10, <3>1, SumSubset, Zenon
    <3>4. SumFunctionOnSet(amount, U) \in Nat /\ SumFunctionOnSet(amount, V) \in Nat
      BY <1>8, <2>10, <3>1, <3>2, SumNat, Zenon
    <3>. QED  BY <3>3, <3>4, Zenon DEF Total
  <2>12. CostUpTo(P, amount, b) = Total(amount, V) + Fee * n(b)
    BY Zenon DEF CostUpTo
  <2>13. /\ Fee * Cardinality(R) \in Nat /\ Fee * n(b) \in Nat
         /\ Fee * Cardinality(R) <= Fee * n(b) /\ Fee * n(b) > 0
    <3>. HIDE DEF n
    <3>1. \A x \in Nat : Fee * x \in Nat
      BY BatchAssumption
    <3>2. \A x \in Nat \ {0} : Fee * x > 0
      BY BatchAssumption
    <3>. QED  BY <2>3, <2>8, <3>1, <3>2, BatchAssumption
  <2>14. Total(amount, U) + Fee * Cardinality(R) + Rent <= balance
    <3>. HIDE DEF n, U, V
    <3>1. Total(amount, U) + Fee * Cardinality(R) <= AvailableBalance(balance)
      BY <2>3, <2>11, <2>12, <2>13, BatchAssumption DEF AvailableBalance
    <3>2. AvailableBalance(balance) > 0
      BY <2>3, <2>11, <2>12, <2>13, BatchAssumption DEF AvailableBalance
    <3>. QED  BY <2>11, <2>13, <3>1, BatchAssumption, <3>2 DEF AvailableBalance
  <2>. QED
    <3>1. \A r \in R : r.account \notin bound /\ r.burns \subseteq P
      BY <1>1, <1>3, <1>4, <1>7, Zenon
    <3>. HIDE DEF k, n
    <3>. QED  BY <1>5, <1>6, <2>7, <2>14, <3>1, Zenon DEF R, P
<1>. QED  BY <1>10, <1>11, Zenon

(***************************************************************************)
(* Sums over the transactions of the minter                                *)
(***************************************************************************)

\* The amounts of a set of requests add up to a natural number, which only
\* depends on the amounts of these requests.
LEMMA TotalFacts ==
  ASSUME NEW am \in [Burn -> Nat], NEW burns \in SUBSET Burn
  PROVE  /\ IsFiniteSet(burns)
         /\ Total(am, burns) \in Nat
         /\ \A an : (\A b \in burns : an[b] = am[b]) => Total(an, burns) = Total(am, burns)
<1>1. IsFiniteSet(burns)
  BY WithdrawalsAssumption, FS_Subset, Zenon
<1>2. \A b \in burns : am[b] \in Nat /\ am[b] \in Int
  OBVIOUS
<1>3. Total(am, burns) \in Nat
  BY <1>1, <1>2, SumNat, Zenon DEF Total
<1>4. ASSUME NEW an, \A b \in burns : an[b] = am[b]
      PROVE  Total(an, burns) = Total(am, burns)
  BY <1>1, <1>2, <1>4, SumEq, Zenon DEF Total
<1>. QED  BY <1>1, <1>3, <1>4, Zenon

Costed(S)  == IsFiniteSet(S) /\ \A t \in S : t.burns \in SUBSET Burn
Charged(S) == IsFiniteSet(S) /\ \A l \in S : l.tx.burns \in SUBSET Burn

\* What a set of transactions costs, with one transaction more.
LEMMA CostsAdd ==
  ASSUME NEW am \in [Burn -> Nat], NEW S, Costed(S),
         NEW x, x \notin S, x.burns \in SUBSET Burn
  PROVE  /\ CostsOf(am, S) \in Nat /\ CostOf(am, x) \in Nat
         /\ CostsOf(am, S \cup {x}) = CostsOf(am, S) + CostOf(am, x)
<1>. DEFINE T == S \cup {x}
            f == [t \in T |-> CostOf(am, t)]
            g == [t \in S |-> CostOf(am, t)]
<1>1. \A t \in T : f[t] \in Nat /\ f[t] \in Int
  BY TotalFacts, BatchAssumption DEF CostOf, Costed
<1>2. \A t \in S : g[t] = f[t]
  BY Zenon
<1>3. SumFunctionOnSet(f, T) = SumFunctionOnSet(f, S) + f[x]
  <2>. HIDE DEF f
  <2>. QED  BY <1>1, SumAdd, Zenon DEF Costed
<1>4. SumFunctionOnSet(g, S) = SumFunctionOnSet(f, S)
  <2>. HIDE DEF f, g
  <2>. QED  BY <1>1, <1>2, SumEq, Zenon DEF Costed
<1>5. SumFunctionOnSet(f, S) \in Nat
  <2>. HIDE DEF f
  <2>. QED  BY <1>1, SumNat, Zenon DEF Costed
<1>6. CostsOf(am, S) = SumFunctionOnSet(g, S) /\ CostsOf(am, T) = SumFunctionOnSet(f, T)
  BY Zenon DEF CostsOf, SumFunction
<1>7. f[x] = CostOf(am, x) /\ f[x] \in Nat
  BY <1>1, Zenon
<1>. HIDE DEF f, g, T
<1>8. CostsOf(am, S) \in Nat /\ CostsOf(am, T) = CostsOf(am, S) + CostOf(am, x)
  BY <1>3, <1>4, <1>5, <1>6, <1>7, Zenon
<1>. QED  BY <1>7, <1>8, Zenon DEF T

\* The same with one transaction less.
LEMMA CostsRemove ==
  ASSUME NEW am \in [Burn -> Nat], NEW S, Costed(S), NEW x \in S
  PROVE  /\ CostsOf(am, S \ {x}) \in Nat /\ CostOf(am, x) \in Nat
         /\ CostsOf(am, S) = CostsOf(am, S \ {x}) + CostOf(am, x)
<1>. DEFINE T == S \ {x}
<1>1. Costed(T) /\ x \notin T
  BY FS_Subset, Zenon DEF Costed
<1>2. S = T \cup {x} /\ x.burns \in SUBSET Burn
  BY Zenon DEF Costed
<1>. HIDE DEF T
<1>3. CostsOf(am, T) \in Nat /\ CostOf(am, x) \in Nat
      /\ CostsOf(am, T \cup {x}) = CostsOf(am, T) + CostOf(am, x)
  BY <1>1, <1>2, CostsAdd, Zenon
<1>4. CostsOf(am, S) = CostsOf(am, T) + CostOf(am, x)
  BY <1>2, <1>3, Zenon
<1>. QED  BY <1>3, <1>4, Zenon DEF T

\* Costs are natural numbers and depend on the amounts of the requests in the
\* transactions only.
LEMMA CostsFacts ==
  ASSUME NEW am \in [Burn -> Nat], NEW S, Costed(S)
  PROVE  /\ CostsOf(am, S) \in Nat
         /\ \A an : (\A t \in S : \A b \in t.burns : an[b] = am[b])
                      => CostsOf(an, S) = CostsOf(am, S)
<1>. DEFINE g == [t \in S |-> CostOf(am, t)]
<1>1. \A t \in S : g[t] \in Nat /\ g[t] \in Int
  BY TotalFacts, BatchAssumption DEF CostOf, Costed
<1>2. SumFunctionOnSet(g, S) \in Nat
  <2>. HIDE DEF g
  <2>. QED  BY <1>1, SumNat, Zenon DEF Costed
<1>3. ASSUME NEW an, \A t \in S : \A b \in t.burns : an[b] = am[b]
      PROVE  CostsOf(an, S) = CostsOf(am, S)
  BY <1>3, TotalFacts, Zenon DEF CostOf, Costed, CostsOf
<1>. QED  BY <1>2, <1>3, Zenon DEF CostsOf, SumFunction

\* The transfers that Solana refused, with one refusal more.
LEMMA RefusedAdd ==
  ASSUME NEW am \in [Burn -> Nat], NEW S, Charged(S),
         NEW x, x \notin S, x.tx.burns \in SUBSET Burn
  PROVE  /\ RefusedOf(am, S) \in Nat /\ Total(am, x.tx.burns) \in Nat
         /\ RefusedOf(am, S \cup {x}) = RefusedOf(am, S) + Total(am, x.tx.burns)
<1>. DEFINE T == S \cup {x}
            f == [l \in T |-> Total(am, l.tx.burns)]
            g == [l \in S |-> Total(am, l.tx.burns)]
<1>1. \A t \in T : f[t] \in Nat /\ f[t] \in Int
  BY TotalFacts DEF Charged
<1>2. \A t \in S : g[t] = f[t]
  BY Zenon
<1>3. SumFunctionOnSet(f, T) = SumFunctionOnSet(f, S) + f[x]
  <2>. HIDE DEF f
  <2>. QED  BY <1>1, SumAdd, Zenon DEF Charged
<1>4. SumFunctionOnSet(g, S) = SumFunctionOnSet(f, S)
  <2>. HIDE DEF f, g
  <2>. QED  BY <1>1, <1>2, SumEq, Zenon DEF Charged
<1>5. SumFunctionOnSet(f, S) \in Nat
  <2>. HIDE DEF f
  <2>. QED  BY <1>1, SumNat, Zenon DEF Charged
<1>6. RefusedOf(am, S) = SumFunctionOnSet(g, S) /\ RefusedOf(am, T) = SumFunctionOnSet(f, T)
  BY Zenon DEF RefusedOf, SumFunction
<1>7. f[x] = Total(am, x.tx.burns) /\ f[x] \in Nat
  BY <1>1, Zenon
<1>. HIDE DEF f, g, T
<1>8. RefusedOf(am, S) \in Nat /\ RefusedOf(am, T) = RefusedOf(am, S) + Total(am, x.tx.burns)
  BY <1>3, <1>4, <1>5, <1>6, <1>7, Zenon
<1>. QED  BY <1>7, <1>8, Zenon DEF T

\* Refused transfers add up to a natural number and depend on the amounts of
\* the requests concerned only.
LEMMA RefusedFacts ==
  ASSUME NEW am \in [Burn -> Nat], NEW S, Charged(S)
  PROVE  /\ RefusedOf(am, S) \in Nat
         /\ \A an : (\A l \in S : \A b \in l.tx.burns : an[b] = am[b])
                      => RefusedOf(an, S) = RefusedOf(am, S)
<1>. DEFINE g == [l \in S |-> Total(am, l.tx.burns)]
<1>1. \A t \in S : g[t] \in Nat /\ g[t] \in Int
  BY TotalFacts DEF Charged
<1>2. SumFunctionOnSet(g, S) \in Nat
  <2>. HIDE DEF g
  <2>. QED  BY <1>1, SumNat, Zenon DEF Charged
<1>3. ASSUME NEW an, \A t \in S : \A b \in t.tx.burns : an[b] = am[b]
      PROVE  RefusedOf(an, S) = RefusedOf(am, S)
  BY <1>3, TotalFacts, Zenon DEF Charged, RefusedOf
<1>. QED  BY <1>2, <1>3, Zenon DEF RefusedOf, SumFunction

(***************************************************************************)
(* The steps                                                               *)
(***************************************************************************)

\* The sums range over finitely many transactions with known requests.
LEMMA Summable ==
  ASSUME TypeOK, FiniteOK
  PROVE  /\ Costed(created) /\ Costed(submitted) /\ Costed(Unlanded)
         /\ Charged(Failures) /\ amount \in [Burn -> Nat]
<1>. QED  BY FS_Subset, Zenon DEF Costed, Charged, FiniteOK, TypeOK, Message, Transaction,
   Unlanded, Failures

\* The batches in flight stay funded while requests stay pending, accounts
\* stay free and the balance does not shrink.
LEMMA RoundKept ==
  ASSUME TypeOK, TypeOK', FiniteOK, CountsOK, RoundFunded,
         reserved' \subseteq reserved, bound' \subseteq bound,
         balance' \in Nat, balance' >= balance,
         \A b \in Burn : status[b] = "pending" =>
           status'[b] = "pending" /\ amount'[b] = amount[b]
  PROVE  RoundFunded' /\ IsFiniteSet(reserved')
<1>. DEFINE U == ReservedBurns
            V == UNION {r.burns : r \in reserved'}
<1>1. IsFiniteSet(reserved) /\ IsFiniteSet(reserved') /\ Cardinality(reserved) \in Nat
      /\ Cardinality(reserved') \in Nat /\ Cardinality(reserved') <= Cardinality(reserved)
  BY FS_Subset, FS_CardinalityType, Zenon DEF FiniteOK
<1>2. /\ \A r \in reserved' : /\ r.account \notin bound'
                              /\ \A b \in r.burns : status'[b] = "pending"
      /\ \A r, s \in reserved' :
           r # s => r.account # s.account /\ r.burns \cap s.burns = {}
  BY Zenon DEF RoundFunded, TypeOK
<1>3. ASSUME reserved' # {}
      PROVE  Total(amount', V) + Fee * Cardinality(reserved') + Rent <= balance'
  <2>1. U \in SUBSET Burn /\ V \in SUBSET Burn /\ V \subseteq U
        /\ \A b \in U : status[b] = "pending"
    BY DEF ReservedBurns, TypeOK, RoundFunded
  <2>2. amount \in [Burn -> Nat] /\ \A b \in V : amount'[b] = amount[b]
    BY <2>1, Zenon DEF TypeOK
  <2>. HIDE DEF U, V
  <2>3. Total(amount', V) = Total(amount, V) /\ Total(amount, V) \in Nat
        /\ Total(amount, U) \in Nat /\ IsFiniteSet(U)
    BY <2>1, <2>2, TotalFacts, Zenon
  <2>4. Total(amount, V) <= Total(amount, U)
    <3>1. \A b \in U : amount[b] \in Nat
      BY <2>1, <2>2, Zenon
    <3>. QED  BY <2>1, <2>3, <3>1, SumSubset, Zenon DEF Total
  <2>5. Total(amount, U) + Fee * Cardinality(reserved) + Rent <= balance
    BY <1>3, Zenon DEF RoundFunded, U
  <2>6. /\ Fee * Cardinality(reserved') <= Fee * Cardinality(reserved)
        /\ Fee * Cardinality(reserved') \in Nat /\ Fee * Cardinality(reserved) \in Nat
    BY BatchAssumption, <1>1
  <2>7. balance \in Nat /\ Rent \in Nat
    BY BatchAssumption, Zenon DEF CountsOK
  <2>. QED  BY <2>3, <2>4, <2>5, <2>6, <2>7
<1>. QED  BY <1>1, <1>2, <1>3, Zenon DEF RoundFunded, ReservedBurns

\* A step that spends, earns, binds, signs, lands and settles nothing.
LEMMA FundsIdle ==
  ASSUME IInv, TypeInv', FundsInv,
         UNCHANGED <<amount, balance, created, submitted, landed, main, uncredited>>,
         reserved' \subseteq reserved, bound' \subseteq bound,
         \A b \in Burn : status[b] = "pending" => status'[b] = "pending"
  PROVE  FundsInv'
<1>1. TypeOK /\ TypeOK'
  BY Zenon DEF IInv, TypeInv
<1>2. FiniteOK /\ CountsOK /\ Accounted /\ RentOK /\ RoundFunded
  BY Zenon DEF FundsInv
<1>3. RoundFunded' /\ IsFiniteSet(reserved')
  <2>. QED  BY <1>1, <1>2, RoundKept DEF CountsOK
<1>4. FiniteOK' /\ CountsOK' /\ RentOK'
  BY <1>2, <1>3, Zenon DEF FiniteOK, CountsOK, RentOK
<1>. QED  BY <1>3, <1>4, <1>2, Zenon DEF FundsInv, Accounted, Unlanded, Failures, LandedSigs

\* The burn of a request that is not in use yet changes no sum.
LEMMA LedgerBurnFunds ==
  ASSUME IInv, TypeInv', FundsInv, NEW x \in Amounts, LedgerBurn(x)
  PROVE  FundsInv'
<1>1. TypeOK /\ TypeOK'
  BY Zenon DEF IInv, TypeInv
<1>2. FiniteOK /\ CountsOK /\ Accounted /\ RentOK /\ RoundFunded
  BY Zenon DEF FundsInv
<1>3. UNCHANGED <<balance, created, submitted, landed, main, uncredited, reserved, bound>>
  BY Zenon DEF LedgerBurn, poolVars, txVars, roundVars, chainVars
<1>4. PICK c \in Burn : /\ status[c] = "none"
                        /\ status' = [status EXCEPT ![c] = "burned"]
                        /\ amount' = [amount EXCEPT ![c] = x]
  BY Zenon DEF LedgerBurn
<1>5. \A b \in Burn : status[b] # "none" => status'[b] = status[b] /\ amount'[b] = amount[b]
  BY <1>1, <1>4, Zenon DEF TypeOK
<1>6. /\ \A t \in created \cup submitted : \A b \in t.burns : b \in Burn /\ status[b] # "none"
      /\ \A l \in landed : \A b \in l.tx.burns : b \in Burn /\ status[b] # "none"
  <2>1. BurnsOK /\ ChainOK
    BY Zenon DEF IInv
  <2>2. \A t \in created \cup submitted : \A b \in t.burns : b \in Burn /\ status[b] # "none"
    BY <1>1, <2>1, Zenon DEF BurnsOK, TypeOK, Message, Transaction
  <2>3. \A l \in landed : \A b \in l.tx.burns : b \in Burn /\ status[b] # "none"
    BY <1>1, <2>1, <2>2, Zenon DEF ChainOK, OutcomeStatus, TypeOK, Transaction
  <2>. QED  BY <2>2, <2>3, Zenon
<1>7. RoundFunded' /\ IsFiniteSet(reserved')
  <2>1. balance' \in Nat /\ balance' >= balance
    BY <1>2, <1>3 DEF CountsOK
  <2>. QED  BY <1>1, <1>2, <1>3, <1>5, <2>1, RoundKept, Zenon
<1>8. FiniteOK' /\ CountsOK' /\ RentOK'
  BY <1>2, <1>3, <1>7, Zenon DEF FiniteOK, CountsOK, RentOK
<1>9. /\ CostsOf(amount', created) = CostsOf(amount, created)
      /\ CostsOf(amount', Unlanded) = CostsOf(amount, Unlanded)
      /\ RefusedOf(amount', Failures) = RefusedOf(amount, Failures)
  <2>1. /\ \A t \in created : \A b \in t.burns : amount'[b] = amount[b]
        /\ \A t \in Unlanded : \A b \in t.burns : amount'[b] = amount[b]
        /\ \A l \in Failures : \A b \in l.tx.burns : amount'[b] = amount[b]
    BY <1>5, <1>6, Zenon DEF Unlanded, Failures
  <2>. QED  BY <1>1, <1>2, <2>1, Summable, CostsFacts, RefusedFacts, Zenon
<1>10. Accounted'
  BY <1>2, <1>3, <1>9, Zenon DEF Accounted, Unlanded, Failures, LandedSigs
<1>. QED  BY <1>7, <1>8, <1>10, Zenon DEF FundsInv

\* A round reserves what the balance pays for.
LEMMA StartRoundFunds ==
  ASSUME IInv, TypeInv', FundsInv, StartRound
  PROVE  FundsInv'
<1>1. TypeOK /\ TypeOK'
  BY Zenon DEF IInv, TypeInv
<1>2. FiniteOK /\ CountsOK /\ Accounted /\ RentOK
  BY Zenon DEF FundsInv
<1>3. /\ UNCHANGED <<balance, amount, status, created, submitted, landed, main,
                     uncredited, bound>>
      /\ reserved' = ReservedBatches
  BY Zenon DEF StartRound, ledgerVars, poolVars, txVars, chainVars
<1>4. balance \in Nat
  BY <1>2, Zenon DEF CountsOK
<1>5. RoundFunded' /\ IsFiniteSet(reserved')
  BY <1>1, <1>3, <1>4, BatchesFunded, Zenon DEF RoundFunded, ReservedBurns, Pending
<1>6. FiniteOK' /\ CountsOK' /\ RentOK'
  BY <1>2, <1>3, <1>5, Zenon DEF FiniteOK, CountsOK, RentOK
<1>. QED  BY <1>5, <1>6, <1>2, <1>3, Zenon DEF FundsInv, Accounted, Unlanded, Failures, LandedSigs

\* What is taken from the balance for one batch leaves enough for the others
\* and for the rent.
LEMMA ReservedPays ==
  ASSUME TypeOK, FiniteOK, CountsOK, RoundFunded, NEW r \in reserved
  PROVE  /\ CostOf(amount, r) \in Nat
         /\ balance >= CostOf(amount, r) + Rent
         /\ LET rest == reserved \ {r}
            IN  Total(amount, UNION {s.burns : s \in rest}) + Fee * Cardinality(rest) + Rent
                  <= balance - CostOf(amount, r)
<1>. DEFINE rest == reserved \ {r}
            V == UNION {s.burns : s \in rest}
<1>1. /\ IsFiniteSet(rest) /\ Cardinality(rest) \in Nat
      /\ Cardinality(reserved) = Cardinality(rest) + 1
  <2>1. IsFiniteSet(reserved) /\ Cardinality(reserved) \in Nat
    BY FS_CardinalityType, Zenon DEF FiniteOK
  <2>2. IsFiniteSet(rest) /\ Cardinality(rest) = Cardinality(reserved) - 1
    BY <2>1, FS_RemoveElement, Zenon
  <2>. QED  BY <2>1, <2>2, FS_CardinalityType
<1>2. /\ V \in SUBSET Burn /\ r.burns \in SUBSET Burn
      /\ ReservedBurns = V \cup r.burns /\ V \cap r.burns = {}
  BY DEF TypeOK, ReservedBurns, RoundFunded
<1>. HIDE DEF V, rest
<1>3. amount \in [Burn -> Nat]
  BY Zenon DEF TypeOK
<1>4. /\ Total(amount, V) \in Nat /\ Total(amount, r.burns) \in Nat
      /\ IsFiniteSet(V) /\ IsFiniteSet(r.burns)
  BY <1>2, <1>3, TotalFacts, Zenon
<1>5. Total(amount, ReservedBurns) = Total(amount, V) + Total(amount, r.burns)
  BY <1>2, <1>3, <1>4, SumUnion DEF Total
<1>6. Total(amount, ReservedBurns) + Fee * Cardinality(reserved) + Rent <= balance
  BY Zenon DEF RoundFunded
<1>7. Fee * Cardinality(reserved) = Fee * Cardinality(rest) + Fee
      /\ Fee * Cardinality(rest) \in Nat
  BY BatchAssumption, <1>1
<1>8. /\ CostOf(amount, r) \in Nat
      /\ balance >= CostOf(amount, r) + Rent
      /\ Total(amount, V) + Fee * Cardinality(rest) + Rent <= balance - CostOf(amount, r)
  BY <1>4, <1>5, <1>6, <1>7, BatchAssumption DEF CountsOK, CostOf
<1>. QED  BY <1>8, Zenon DEF V, rest

\* create_transaction moves the cost of a batch from the balance to the
\* bindings.
LEMMA CreateFunds ==
  ASSUME IInv, TypeInv', FundsInv, NEW r \in reserved, NEW v \in 0..nonce[r.account],
         CreateTransaction(r, v)
  PROVE  FundsInv'
<1>. DEFINE c == [account |-> r.account, nonce |-> v, burns |-> r.burns]
            rest == reserved \ {r}
<1>1. TypeOK /\ TypeOK'
  BY Zenon DEF IInv, TypeInv
<1>2. FiniteOK /\ CountsOK /\ Accounted /\ RentOK /\ RoundFunded
  BY Zenon DEF FundsInv
<1>3. /\ UNCHANGED <<amount, submitted, landed, main, uncredited>>
      /\ created' = created \cup {c}
      /\ bound' = bound \cup {r.account}
      /\ status' = [b \in Burn |-> IF b \in r.burns THEN "created" ELSE status[b]]
      /\ balance' = balance - CostOf(amount, r)
      /\ reserved' = rest
  BY Zenon DEF CreateTransaction, Marked, chainVars, CostOf, Cost
<1>4. /\ CostOf(amount, r) \in Nat
      /\ balance >= CostOf(amount, r) + Rent
      /\ Total(amount, UNION {s.burns : s \in rest}) + Fee * Cardinality(rest) + Rent
                  <= balance - CostOf(amount, r)
  BY <1>1, <1>2, ReservedPays, Zenon
<1>5. c \notin created /\ c.burns \in SUBSET Burn /\ CostOf(amount, c) = CostOf(amount, r)
  <2>1. \A d \in created : d.account \in bound
    BY Zenon DEF IInv, SeenOK
  <2>2. r.account \notin bound /\ r.burns \in SUBSET Burn
    BY <1>1, <1>2, Zenon DEF RoundFunded, TypeOK
  <2>. QED  BY <2>1, <2>2, Zenon DEF CostOf
<1>. HIDE DEF c
<1>6. RoundFunded'
  <2>1. \A s \in rest : /\ s.account \notin bound'
                        /\ \A b \in s.burns : status'[b] = "pending"
    BY <1>1, <1>2, <1>3, Zenon DEF RoundFunded, TypeOK
  <2>2. \A s, q \in rest :
           s # q => s.account # q.account /\ s.burns \cap q.burns = {}
    BY <1>2, Zenon DEF RoundFunded
  <2>. QED  BY <1>3, <1>4, <2>1, <2>2, Zenon DEF RoundFunded, ReservedBurns
<1>7. FiniteOK'
  <2>1. IsFiniteSet(created \cup {c}) /\ IsFiniteSet(rest)
    BY <1>2, FS_AddElement, FS_RemoveElement, Zenon DEF FiniteOK
  <2>. QED  BY <1>2, <1>3, <2>1, Zenon DEF FiniteOK
<1>8. CountsOK' /\ RentOK'
  BY <1>2, <1>3, <1>4, BatchAssumption DEF CountsOK, RentOK
<1>9. /\ CostsOf(amount, created) \in Nat
      /\ CostsOf(amount, created \cup {c}) = CostsOf(amount, created) + CostOf(amount, r)
  <2>1. Costed(created) /\ amount \in [Burn -> Nat]
    BY <1>1, <1>2, Summable, Zenon
  <2>. QED  BY <1>5, <2>1, CostsAdd
<1>10. /\ CostsOf(amount, Unlanded) \in Nat /\ RefusedOf(amount, Failures) \in Nat
       /\ uncredited \in Nat
  BY WithdrawalsAssumption, <1>1, <1>2, Summable, CostsFacts, RefusedFacts DEF CountsOK
<1>11. Accounted'
  BY <1>3, <1>9, <1>2, <1>4, <1>10 DEF Accounted, CountsOK, Unlanded, Failures, LandedSigs
<1>. QED  BY <1>6, <1>7, <1>8, <1>11, Zenon DEF FundsInv

\* A signature moves the cost of a binding to the submitted transactions.
LEMMA SignFunds ==
  ASSUME IInv, TypeInv', FundsInv, NEW m \in toSign, SignTransaction(m)
  PROVE  FundsInv'
<1>. DEFINE t == [account |-> m.account, nonce |-> m.nonce,
                  burns |-> m.burns, sig |-> signatures + 1]
<1>1. TypeOK /\ TypeOK'
  BY Zenon DEF IInv, TypeInv
<1>2. FiniteOK /\ CountsOK /\ Accounted /\ RentOK /\ RoundFunded
  BY Zenon DEF FundsInv
<1>3. /\ UNCHANGED <<amount, balance, bound, reserved, landed, main, uncredited>>
      /\ m \in created
      /\ submitted' = submitted \cup {t}
      /\ created' = created \ {m}
      /\ status' = [b \in Burn |-> IF b \in m.burns THEN "sent" ELSE status[b]]
      /\ \A b \in m.burns : status[b] = "created"
  BY Zenon DEF SignTransaction, CanSubmit, Marked, chainVars, poolVars
<1>4. t \notin submitted /\ t.sig \notin LandedSigs /\ t.burns \in SUBSET Burn
      /\ CostOf(amount, t) = CostOf(amount, m)
  <2>1. \A n \in Nat : n <= signatures => n # signatures + 1
    BY <1>1 DEF TypeOK
  <2>2. \A u \in submitted : u.sig \in Nat /\ u.sig <= signatures
    BY <1>1, Zenon DEF IInv, SignaturesOK, TypeOK, Transaction
  <2>3. \A l \in landed : l.tx.sig \in Nat /\ l.tx.sig <= signatures
    BY <1>1, Zenon DEF IInv, SignaturesOK, TypeOK, Transaction
  <2>4. t.sig = signatures + 1 /\ t.burns = m.burns
    BY Zenon
  <2>5. m.burns \in SUBSET Burn
    BY <1>1, <1>3, Zenon DEF TypeOK, Message
  <2>. HIDE DEF t
  <2>. QED  BY <2>1, <2>2, <2>3, <2>4, <2>5, Zenon DEF LandedSigs, CostOf
<1>. HIDE DEF t
<1>5. RoundFunded' /\ IsFiniteSet(reserved')
  <2>1. balance' \in Nat /\ balance' >= balance
    BY <1>2, <1>3 DEF CountsOK
  <2>2. \A b \in Burn : status[b] = "pending" =>
           status'[b] = "pending" /\ amount'[b] = amount[b]
    BY <1>3, Zenon
  <2>. QED  BY <1>1, <1>2, <1>3, <2>1, <2>2, RoundKept, Zenon
<1>6. FiniteOK'
  <2>1. IsFiniteSet(submitted \cup {t}) /\ IsFiniteSet(created \ {m})
    BY <1>2, FS_AddElement, FS_RemoveElement, Zenon DEF FiniteOK
  <2>. QED  BY <1>2, <1>3, <1>5, <2>1, Zenon DEF FiniteOK
<1>7. CountsOK' /\ RentOK'
  BY <1>2, <1>3, Zenon DEF CountsOK, RentOK
<1>8. /\ Unlanded' = Unlanded \cup {t} /\ Failures' = Failures /\ t \notin Unlanded
  BY <1>3, <1>4, Zenon DEF Unlanded, Failures, LandedSigs
<1>9. /\ Costed(created) /\ Costed(Unlanded) /\ amount \in [Burn -> Nat]
  BY <1>1, <1>2, Summable, Zenon
<1>10. /\ CostsOf(amount, created \ {m}) \in Nat /\ CostOf(amount, m) \in Nat
       /\ CostsOf(amount, created) = CostsOf(amount, created \ {m}) + CostOf(amount, m)
  BY <1>3, <1>9, CostsRemove, Zenon
<1>11. /\ CostsOf(amount, Unlanded) \in Nat
       /\ CostsOf(amount, Unlanded \cup {t}) = CostsOf(amount, Unlanded) + CostOf(amount, m)
  BY <1>4, <1>8, <1>9, CostsAdd, Zenon
<1>12. RefusedOf(amount, Failures) \in Nat /\ uncredited \in Nat
  BY WithdrawalsAssumption, <1>1, <1>2, Summable, RefusedFacts DEF CountsOK
<1>13. Accounted'
  BY <1>3, <1>8, <1>11, <1>2, <1>10, <1>12 DEF Accounted, CountsOK
<1>. QED  BY <1>5, <1>6, <1>7, <1>13, Zenon DEF FundsInv

\* What lands is paid from the main address: the whole cost, or the fee alone
\* when Solana refuses the transfers, which then stay on the address.
LEMMA LandFunds ==
  ASSUME IInv, TypeInv', FundsInv, NEW t \in network, NEW ok \in BOOLEAN, Land(t, ok)
  PROVE  FundsInv'
<1>. DEFINE e == [tx |-> t, ok |-> ok]
<1>1. TypeOK /\ TypeOK'
  BY Zenon DEF IInv, TypeInv
<1>2. FiniteOK /\ CountsOK /\ Accounted /\ RentOK /\ RoundFunded
  BY Zenon DEF FundsInv
<1>3. /\ UNCHANGED <<amount, status, balance, bound, reserved, created, submitted, uncredited>>
      /\ landed' = landed \cup {e}
      /\ t.nonce = nonce[t.account]
      /\ main >= Fee /\ (ok => main >= CostOf(amount, t) + Rent)
      /\ main' = main - (IF ok THEN CostOf(amount, t) ELSE Fee)
  BY Zenon DEF Land, ledgerVars, poolVars, txVars, roundVars, CostOf, Cost
<1>4. /\ t \in Transaction /\ t \in submitted
      /\ \A l \in landed : l.tx.sig # t.sig
      /\ \A u \in submitted : u.sig = t.sig => u = t
  <2>1. t \in Transaction /\ t.nonce \in Nat
    BY <1>1, Zenon DEF TypeOK, Transaction
  <2>2. t \in submitted
    BY <1>3, <2>1 DEF IInv, ChainOK
  <2>3. \A l \in landed : l.tx.nonce < nonce[l.tx.account]
    BY Zenon DEF IInv, ChainOK
  <2>4. \A l \in landed : l.tx # t
    BY <1>3, <2>1, <2>3
  <2>. QED  BY <2>1, <2>2, <2>4, Zenon DEF IInv, SignaturesOK
<1>5. e.tx = t /\ e.ok = ok /\ e \notin landed /\ t.burns \in SUBSET Burn
  BY <1>4, Zenon DEF Transaction
<1>. HIDE DEF e
<1>6. RoundFunded' /\ IsFiniteSet(reserved')
  <2>1. balance' \in Nat /\ balance' >= balance
    BY <1>2, <1>3 DEF CountsOK
  <2>. QED  BY <1>1, <1>2, <1>3, <2>1, RoundKept, Zenon
<1>7. FiniteOK'
  <2>1. IsFiniteSet(landed \cup {e})
    BY <1>2, FS_AddElement, Zenon DEF FiniteOK
  <2>. QED  BY <1>2, <1>3, <1>6, <2>1, Zenon DEF FiniteOK
<1>8. t \in Unlanded /\ Unlanded' = Unlanded \ {t}
  <2>1. LandedSigs' = LandedSigs \cup {t.sig} /\ t.sig \notin LandedSigs
    BY <1>3, <1>4, <1>5, Zenon DEF LandedSigs
  <2>. QED  BY <1>3, <1>4, <2>1, Zenon DEF Unlanded
<1>9. /\ Costed(created) /\ Costed(Unlanded) /\ Charged(Failures) /\ amount \in [Burn -> Nat]
  BY <1>1, <1>2, Summable, Zenon
<1>10. /\ CostsOf(amount, Unlanded \ {t}) \in Nat /\ CostOf(amount, t) \in Nat
       /\ CostsOf(amount, Unlanded) = CostsOf(amount, Unlanded \ {t}) + CostOf(amount, t)
  BY <1>8, <1>9, CostsRemove, Zenon
<1>11. /\ CostsOf(amount, created) \in Nat /\ uncredited \in Nat /\ balance \in Nat
       /\ main \in Nat /\ RefusedOf(amount, Failures) \in Nat
       /\ Total(amount, t.burns) \in Nat /\ CostOf(amount, t) = Total(amount, t.burns) + Fee
       /\ Fee \in Nat /\ Rent \in Nat
  <2>1. \A k \in Nat : k * SweepAmount \in Nat
    BY WithdrawalsAssumption
  <2>. QED
    BY <1>2, <1>5, <1>9, <2>1, CostsFacts, RefusedFacts, TotalFacts, BatchAssumption, Zenon
       DEF CountsOK, CostOf
<1>12. main' \in Nat
  BY <1>3, <1>10, <1>11
<1>13. CountsOK' /\ RentOK'
  BY <1>2, <1>3, <1>12, Zenon DEF CountsOK, RentOK
<1>14. Accounted'
  <2>1. main = balance + uncredited + CostsOf(amount, created)
               + CostsOf(amount, Unlanded) + RefusedOf(amount, Failures)
    BY <1>2, Zenon DEF Accounted
  <2>2. /\ CostsOf(amount', created') = CostsOf(amount, created)
        /\ CostsOf(amount', Unlanded') = CostsOf(amount, Unlanded \ {t})
    BY <1>3, <1>8, Zenon
  <2>3. CASE ok
    <3>1. Failures' = Failures
      BY <1>3, <1>5, <2>3, Zenon DEF Failures
    <3>2. RefusedOf(amount', Failures') = RefusedOf(amount, Failures)
      BY <1>3, <3>1, Zenon
    <3>3. main' = balance' + uncredited' + CostsOf(amount', created')
                  + CostsOf(amount', Unlanded') + RefusedOf(amount', Failures')
      BY <1>3, <1>10, <1>11, <2>1, <2>2, <2>3, <3>2
    <3>. QED  BY <3>3, Zenon DEF Accounted
  <2>4. CASE ~ok
    <3>1. Failures' = Failures \cup {e} /\ e \notin Failures
      BY <1>3, <1>5, <2>4, Zenon DEF Failures
    <3>2. RefusedOf(amount, Failures \cup {e}) = RefusedOf(amount, Failures) + Total(amount, t.burns)
      BY <1>5, <1>9, <3>1, RefusedAdd, Zenon
    <3>3. RefusedOf(amount', Failures') = RefusedOf(amount, Failures) + Total(amount, t.burns)
      BY <1>3, <3>1, <3>2, Zenon
    <3>4. main' = balance' + uncredited' + CostsOf(amount', created')
                  + CostsOf(amount', Unlanded') + RefusedOf(amount', Failures')
      BY <1>3, <1>10, <1>11, <2>1, <2>2, <2>4, <3>3
    <3>. QED  BY <3>4, Zenon DEF Accounted
  <2>. QED  BY <2>3, <2>4, Zenon
<1>. QED  BY <1>6, <1>7, <1>13, <1>14, Zenon DEF FundsInv

\* A transaction that is settled has landed: it left the sums before.
LEMMA FinalizeFunds ==
  ASSUME IInv, TypeInv', FundsInv, NEW t \in advanced, NEW ok \in BOOLEAN,
         FinalizeLanded(t, ok)
  PROVE  FundsInv'
<1>1. TypeOK /\ TypeOK'
  BY Zenon DEF IInv, TypeInv
<1>2. FiniteOK /\ CountsOK /\ Accounted /\ RentOK /\ RoundFunded
  BY Zenon DEF FundsInv
<1>3. /\ UNCHANGED <<amount, balance, reserved, created, landed, main, uncredited>>
      /\ submitted' = submitted \ {t} /\ bound' \subseteq bound
      /\ status' = [b \in Burn |-> IF b \in t.burns THEN OutcomeStatus(ok) ELSE status[b]]
      /\ t.sig \in LandedSigs /\ t \in submitted
  BY Zenon DEF FinalizeLanded, CanFinalize, Marked, LandedSigs, roundVars, chainVars
<1>4. \A b \in Burn : status[b] = "pending" =>
           status'[b] = "pending" /\ amount'[b] = amount[b]
  BY <1>3, Zenon DEF IInv, BurnsOK
<1>5. RoundFunded' /\ IsFiniteSet(reserved')
  <2>1. balance' \in Nat /\ balance' >= balance
    BY <1>2, <1>3 DEF CountsOK
  <2>. QED  BY <1>1, <1>2, <1>3, <1>4, <2>1, RoundKept, Zenon
<1>6. FiniteOK'
  <2>1. IsFiniteSet(submitted \ {t})
    BY <1>2, FS_RemoveElement, Zenon DEF FiniteOK
  <2>. QED  BY <1>2, <1>3, <1>5, <2>1, Zenon DEF FiniteOK
<1>7. CountsOK' /\ RentOK'
  BY <1>2, <1>3, Zenon DEF CountsOK, RentOK
<1>8. Unlanded' = Unlanded /\ Failures' = Failures
  BY <1>3, Zenon DEF Unlanded, Failures, LandedSigs
<1>9. Accounted'
  BY <1>2, <1>3, <1>8, Zenon DEF Accounted
<1>. QED  BY <1>5, <1>6, <1>7, <1>9, Zenon DEF FundsInv

\* Deposit sweeps bring lamports, which the minter credits afterwards.
LEMMA SweepFunds ==
  ASSUME IInv, TypeInv', FundsInv, SweepLands \/ CreditSweep
  PROVE  FundsInv'
<1>1. TypeOK /\ TypeOK'
  BY Zenon DEF IInv, TypeInv
<1>2. FiniteOK /\ CountsOK /\ Accounted /\ RentOK /\ RoundFunded
  BY Zenon DEF FundsInv
<1>3. UNCHANGED <<amount, status, bound, reserved, created, submitted, landed>>
  BY Zenon DEF SweepLands, CreditSweep, ledgerVars, poolVars, roundVars, txVars
<1>4. SweepAmount \in Nat /\ balance \in Nat /\ main \in Nat
  BY <1>2, WithdrawalsAssumption, Zenon DEF CountsOK
<1>5. PICK k \in Nat : uncredited = k * SweepAmount
  BY <1>2, Zenon DEF CountsOK
<1>6. uncredited \in Nat /\ uncredited + SweepAmount = (k + 1) * SweepAmount
  BY <1>4, <1>5
<1>7. /\ balance' \in Nat /\ main' \in Nat /\ balance' >= balance
      /\ \E n \in Nat : uncredited' = n * SweepAmount
      /\ main' - balance' - uncredited' = main - balance - uncredited
  <2>1. CASE SweepLands
    <3>1. balance' = balance /\ main' = main + SweepAmount
          /\ uncredited' = uncredited + SweepAmount
      BY <2>1, Zenon DEF SweepLands
    <3>2. k + 1 \in Nat
      OBVIOUS
    <3>3. \E n \in Nat : uncredited' = n * SweepAmount
      BY <1>6, <3>1, <3>2, Zenon
    <3>4. /\ balance' \in Nat /\ main' \in Nat /\ balance' >= balance
          /\ main' - balance' - uncredited' = main - balance - uncredited
      BY <1>4, <1>6, <3>1
    <3>. QED  BY <3>3, <3>4, Zenon
  <2>2. CASE CreditSweep
    BY <2>2, <1>4, <1>5, <1>6 DEF CreditSweep
  <2>. QED  BY <2>1, <2>2, Zenon
<1>8. RoundFunded' /\ IsFiniteSet(reserved')
  BY <1>1, <1>2, <1>3, <1>7, RoundKept, Zenon
<1>9. FiniteOK' /\ CountsOK' /\ RentOK'
  BY <1>2, <1>3, <1>4, <1>7, BatchAssumption DEF FiniteOK, CountsOK, RentOK
<1>10. /\ CostsOf(amount, created) \in Nat /\ CostsOf(amount, Unlanded) \in Nat
       /\ RefusedOf(amount, Failures) \in Nat
  BY <1>1, <1>2, Summable, CostsFacts, RefusedFacts, Zenon
<1>11. Accounted'
  <2>1. /\ CostsOf(amount', created') = CostsOf(amount, created)
        /\ CostsOf(amount', Unlanded') = CostsOf(amount, Unlanded)
        /\ RefusedOf(amount', Failures') = RefusedOf(amount, Failures)
    BY <1>3, Zenon DEF Unlanded, Failures, LandedSigs
  <2>2. main = balance + uncredited + CostsOf(amount, created)
               + CostsOf(amount, Unlanded) + RefusedOf(amount, Failures)
    BY <1>2, Zenon DEF Accounted
  <2>3. uncredited' \in Nat
    BY <1>4, <1>7
  <2>4. /\ main' - balance' - uncredited' = main - balance - uncredited
        /\ main' \in Nat /\ balance' \in Nat /\ uncredited \in Nat
    BY <1>6, <1>7, Zenon
  <2>5. main' = balance' + uncredited' + CostsOf(amount', created')
                + CostsOf(amount', Unlanded') + RefusedOf(amount', Failures')
    <3>1. \A m, b, u, n, c, w, x, y, z \in Nat :
            n - c - w = m - b - u /\ m = b + u + x + y + z => n = c + w + x + y + z
      OBVIOUS
    <3>2. main' = balance' + uncredited' + CostsOf(amount, created)
                + CostsOf(amount, Unlanded) + RefusedOf(amount, Failures)
      BY <1>4, <1>10, <2>2, <2>3, <2>4, <3>1
    <3>. QED  BY <2>1, <3>2, Zenon
  <2>. QED  BY <2>5, Zenon DEF Accounted
<1>. QED  BY <1>8, <1>9, <1>11, Zenon DEF FundsInv

\* The funds invariant holds initially.
LEMMA FundsInit == Init => FundsInv
<1>. SUFFICES ASSUME Init PROVE FundsInv
  BY Zenon
<1>1. /\ created = {} /\ submitted = {} /\ landed = {} /\ reserved = {}
      /\ balance = 0 /\ main = 0 /\ uncredited = 0
  BY Zenon DEF Init
<1>2. FiniteOK /\ RentOK /\ RoundFunded
  BY <1>1, FS_EmptySet, Zenon DEF FiniteOK, RentOK, RoundFunded
<1>3. CountsOK
  BY WithdrawalsAssumption, <1>1 DEF CountsOK
<1>4. Accounted
  BY <1>1, SumEmpty DEF Accounted, Unlanded, Failures, CostsOf, RefusedOf, SumFunction
<1>. QED  BY <1>2, <1>3, <1>4, Zenon DEF FundsInv

\* Every step keeps the funds invariant.
LEMMA FundsStep == IInv /\ FundsInv /\ [Next]_vars => FundsInv'
<1>. SUFFICES ASSUME IInv, FundsInv, [Next]_vars PROVE FundsInv'
  BY Zenon
<1>1. TypeInv /\ TypeInv'
  BY TypeStep, Zenon DEF IInv
<1>. USE DEF ledgerVars, poolVars, txVars, roundVars, monitorVars, chainVars
<1>. DEFINE Idle ==
       /\ UNCHANGED <<amount, balance, created, submitted, landed, main, uncredited>>
       /\ reserved' \subseteq reserved /\ bound' \subseteq bound
       /\ \A b \in Burn : status[b] = "pending" => status'[b] = "pending"
<1>i. Idle => FundsInv'
  BY <1>1, FundsIdle, Zenon
<1>2. ASSUME NEW x \in Amounts, LedgerBurn(x) PROVE FundsInv'
  BY <1>1, <1>2, LedgerBurnFunds, Zenon
<1>3. ASSUME NEW b \in Burn, WithdrawAccepted(b) PROVE FundsInv'
  <2>1. Idle
    BY <1>1, <1>3, Zenon DEF WithdrawAccepted, TypeInv, TypeOK
  <2>. QED  BY <1>i, <2>1, Zenon
<1>4. CASE StartRound
  BY <1>1, <1>4, StartRoundFunds, Zenon
<1>5. ASSUME NEW r \in reserved, SkipBatch(r) PROVE FundsInv'
  BY <1>5, <1>i, Zenon DEF SkipBatch
<1>6. ASSUME NEW r \in reserved, NEW v \in 0..nonce[r.account], CreateTransaction(r, v)
      PROVE  FundsInv'
  BY <1>1, <1>6, CreateFunds, Zenon
<1>7. ASSUME NEW m \in toSign, SignFails(m) PROVE FundsInv'
  BY <1>7, <1>i, Zenon DEF SignFails
<1>8. ASSUME NEW m \in toSign, SignTransaction(m) PROVE FundsInv'
  BY <1>1, <1>8, SignFunds, Zenon
<1>9. ASSUME NEW t \in toSend, SendTransaction(t) PROVE FundsInv'
  BY <1>9, <1>i, Zenon DEF SendTransaction
<1>10. CASE StartMonitor
  BY <1>10, <1>i, Zenon DEF StartMonitor
<1>11. ASSUME NEW t \in toRead, ReadFails(t) PROVE FundsInv'
  <2>1. Idle
    BY <1>11, Zenon DEF ReadFails
  <2>. QED  BY <1>i, <2>1, Zenon
<1>12. ASSUME NEW t \in toRead, NEW v \in 0..nonce[t.account], ReadNonce(t, v)
       PROVE  FundsInv'
  <2>1. Idle
    BY <1>12, Zenon DEF ReadNonce
  <2>. QED  BY <1>i, <2>1, Zenon
<1>20. ASSUME NEW t \in unchanged, Rebroadcast(t) PROVE FundsInv'
  BY <1>20, <1>i, Zenon DEF Rebroadcast
<1>14. ASSUME NEW t \in advanced, OutcomeUnresolved(t) PROVE FundsInv'
  BY <1>14, <1>i, Zenon DEF OutcomeUnresolved
<1>15. ASSUME NEW t \in advanced, NEW ok \in BOOLEAN, FinalizeLanded(t, ok)
       PROVE  FundsInv'
  BY <1>1, <1>15, FinalizeFunds, Zenon
<1>16. ASSUME NEW t \in network, NEW ok \in BOOLEAN, Land(t, ok) PROVE FundsInv'
  BY <1>1, <1>16, LandFunds, Zenon
<1>17. CASE SweepLands \/ CreditSweep
  BY <1>1, <1>17, SweepFunds, Zenon
<1>18. ASSUME NEW added \in SUBSET (Account \ pool), Upgrade(added) PROVE FundsInv'
  BY <1>18, <1>i, Zenon DEF Upgrade
<1>19. CASE UNCHANGED vars
  BY <1>19, <1>i, Zenon DEF vars
<1>. HIDE DEF Idle
<1>. QED
  BY <1>2, <1>3, <1>4, <1>5, <1>6, <1>7, <1>8, <1>9, <1>10, <1>11, <1>12,
     <1>20, <1>14, <1>15, <1>16, <1>17, <1>18, <1>19, Zenon DEF Next

\* The funds invariant holds in every reachable state.
LEMMA FundsInvariance == Spec => [](IInv /\ FundsInv)
BY InvInit, InvStep, FundsInit, FundsStep, PTL DEF Spec

(***************************************************************************)
(* The theorems                                                            *)
(***************************************************************************)

\* No assertion on a state transition of the withdrawal side can fail.
THEOREM AssertionsHold == Spec => []NoAssertionFails
<1>1. IInv /\ FundsInv => NoAssertionFails
  <2>. SUFFICES ASSUME IInv, FundsInv PROVE NoAssertionFails
    BY Zenon
  <2>1. TypeOK /\ FiniteOK /\ CountsOK /\ RoundFunded
    BY Zenon DEF IInv, TypeInv, FundsInv
  <2>2. ASSUME NEW r \in reserved PROVE CanCreate(r)
    <3>1. /\ CostOf(amount, r) \in Nat
          /\ balance >= CostOf(amount, r) + Rent
      BY <2>1, ReservedPays, Zenon
    <3>2. CostOf(amount, r) = Cost(r) /\ balance >= CostOf(amount, r)
      BY <2>1, <3>1, BatchAssumption DEF CostOf, Cost, CountsOK
    <3>3. \A c \in created : c.account \in bound
      BY Zenon DEF IInv, SeenOK
    <3>. QED  BY <2>1, <3>2, <3>3, Zenon DEF CanCreate, RoundFunded
  <2>3. \A m \in toSign : CanSubmit(m)
    BY Zenon DEF CanSubmit, IInv, RoundsOK, BurnsOK
  <2>. QED  BY <2>2, <2>3, Zenon DEF NoAssertionFails, CanFinalize, IInv, RoundsOK, SeenOK
<1>. QED  BY <1>1, FundsInvariance, PTL

\* The lamports on the main address are those the minter accounts for.
THEOREM LamportsAccounted == Spec => []BalanceAccounted
<1>1. FundsInv => BalanceAccounted
  BY WithdrawalsAssumption DEF Costs, CostsOf, Cost, CostOf, Refused, RefusedOf, FundsInv,
     CountsOK, Accounted, BalanceAccounted
<1>. QED  BY <1>1, FundsInvariance, PTL

\* A transaction that can land finds the funds it needs.
THEOREM LandingsAreFunded == Spec => []LandingIsFunded
<1>1. IInv /\ FundsInv => LandingIsFunded
  <2>. SUFFICES ASSUME IInv, FundsInv, NEW t \in network, t.nonce = nonce[t.account]
                PROVE  main >= Cost(t) + Rent
    BY Zenon DEF LandingIsFunded
  <2>1. TypeOK /\ FiniteOK /\ CountsOK /\ Accounted /\ RentOK
    BY Zenon DEF IInv, TypeInv, FundsInv
  <2>2. t \in Unlanded
    BY <2>1 DEF IInv, ChainOK, TypeOK, Transaction, SignaturesOK, LandedSigs, Unlanded
  <2>3. /\ CostsOf(amount, Unlanded \ {t}) \in Nat /\ CostOf(amount, t) \in Nat
        /\ CostsOf(amount, Unlanded) = CostsOf(amount, Unlanded \ {t}) + CostOf(amount, t)
        /\ CostsOf(amount, created) \in Nat /\ RefusedOf(amount, Failures) \in Nat
    BY <2>1, <2>2, Summable, CostsRemove, CostsFacts, RefusedFacts, Zenon
  <2>4. balance \in Nat /\ uncredited \in Nat /\ Rent \in Nat /\ balance >= Rent
    BY WithdrawalsAssumption, <2>1, BatchAssumption DEF CountsOK, RentOK, IInv, ChainOK,
       TypeOK, Transaction
  <2>5. main = balance + uncredited + CostsOf(amount, created)
               + CostsOf(amount, Unlanded) + RefusedOf(amount, Failures)
    BY <2>1, Zenon DEF Accounted
  <2>6. Cost(t) = CostOf(amount, t)
    BY Zenon DEF Cost, CostOf
  <2>. QED  BY <2>3, <2>4, <2>5, <2>6
<1>. QED  BY <1>1, FundsInvariance, PTL

================================================================================

-------------------------- MODULE CommitteeProofs --------------------------
(***************************************************************************)
(* What the stake of a set of authorities is (StakeSum), and what the      *)
(* thresholds of the committee guarantee for every distribution of stake:  *)
(* quorums meet in an honest authority, and f+1 meets every quorum.        *)
(***************************************************************************)
EXTENDS Committee, FiniteSetTheorems, WellFoundedInduction, TLAPS

(* The member that the sum of a set takes first.                           *)
Any(s) == CHOOSE x \in s : TRUE

(* f is the recursive function behind StakeOf, on the subsets of U.        *)
Sums(f, U) ==
    f = [s \in SUBSET U |-> IF s = {} THEN 0
                            ELSE Stake[Any(s)] + f[s \ {Any(s)}]]

(* StakeOf is the community sum: it applies a recursive function, chosen   *)
(* for the summed set, to that set.                                        *)
LEMMA StakeUnfolds == ASSUME NEW S PROVE StakeOf(S) = (CHOOSE f : Sums(f, S))[S]
BY DEF StakeOf, SumFunctionOnSet, FoldFunctionOnSet, MapThenFoldSet, Any, Sums

(* A set that is not empty contains the member it is summed from.          *)
LEMMA AnyIn == ASSUME NEW s, s # {} PROVE Any(s) \in s
BY DEF Any

(* A family of sets of authorities that is not empty has a smallest        *)
(* member: the committee is finite.  The proofs below take a smallest      *)
(* counterexample where a paper proof would use induction.                 *)
LEMMA SmallestSet ==
    ASSUME NEW F \in SUBSET SUBSET Authority, F # {}
    PROVE  \E S \in F : \A T \in F : T \subseteq S => T = S
<1>1. F \subseteq FiniteSubsetsOf(Authority)
  BY CommitteeAssumption, FS_Subset DEF FiniteSubsetsOf
<1>2. \E S \in F : \A T \in F : ~(<<T, S>> \in StrictSubsetOrdering(Authority))
  BY <1>1, FS_StrictSubsetOrderingWellFounded, WFMin
<1>3. QED
  BY <1>2 DEF StrictSubsetOrdering

(* Two such functions agree wherever both are defined, on natural numbers. *)
LEMMA SumsUnique ==
    ASSUME NEW U \in SUBSET Authority, NEW V \in SUBSET Authority, NEW f, NEW g,
           Sums(f, U), Sums(g, V), NEW s, s \in SUBSET (U \cap V)
    PROVE  f[s] = g[s] /\ f[s] \in Nat
<1> DEFINE Bad == {t \in SUBSET (U \cap V) : ~(f[t] = g[t] /\ f[t] \in Nat)}
<1>1. SUFFICES Bad = {}
  OBVIOUS
<1>2. SUFFICES ASSUME Bad # {} PROVE FALSE
  OBVIOUS
<1>3. PICK t \in Bad : \A r \in Bad : r \subseteq t => r = t
  <2>1. Bad \in SUBSET SUBSET Authority
    OBVIOUS
  <2> HIDE DEF Bad
  <2>2. QED
    BY <1>2, <2>1, SmallestSet
<1>4. /\ f[t] = IF t = {} THEN 0 ELSE Stake[Any(t)] + f[t \ {Any(t)}]
      /\ g[t] = IF t = {} THEN 0 ELSE Stake[Any(t)] + g[t \ {Any(t)}]
  BY DEF Sums
<1>5. t # {}
  BY <1>4
<1>6. Any(t) \in t /\ Stake[Any(t)] \in Nat
  BY <1>5, AnyIn, CommitteeAssumption
<1>7. t \ {Any(t)} \notin Bad /\ t \ {Any(t)} \in SUBSET (U \cap V)
  BY <1>3, <1>6
<1>8. QED
  BY <1>4, <1>5, <1>6, <1>7

(* The recursion has a solution on the subsets of any set of authorities.  *)
LEMMA SumsExist ==
    ASSUME NEW U \in SUBSET Authority
    PROVE  \E f : Sums(f, U)
<1> DEFINE Bad == {V \in SUBSET Authority : ~\E f : Sums(f, V)}
<1>1. SUFFICES ASSUME Bad # {} PROVE FALSE
  OBVIOUS
<1>2. PICK V \in Bad : \A W \in Bad : W \subseteq V => W = V
  <2>1. Bad \in SUBSET SUBSET Authority
    OBVIOUS
  <2> HIDE DEF Bad
  <2>2. QED
    BY <1>1, <2>1, SmallestSet
<1> DEFINE Of(W) == CHOOSE f : Sums(f, W)
           g == [s \in SUBSET V |->
                   IF s = V
                   THEN IF V = {} THEN 0 ELSE Stake[Any(V)] + Of(V \ {Any(V)})[V \ {Any(V)}]
                   ELSE Of(s)[s]]
<1>3. \A W \in SUBSET V : W # V => Sums(Of(W), W)
  <2>1. TAKE W \in SUBSET V
  <2>2. HAVE W # V
  <2>3. W \notin Bad /\ W \in SUBSET Authority
    BY <1>2, <2>2
  <2>4. \E f : Sums(f, W)
    BY <2>3
  <2>5. QED
    BY <2>4
<1> HIDE DEF Of
<1>4. ASSUME NEW s \in SUBSET V
      PROVE  g[s] = IF s = {} THEN 0 ELSE Stake[Any(s)] + g[s \ {Any(s)}]
  <2>1. CASE s = V
    <3>1. V # {} => V \ {Any(V)} # V /\ V \ {Any(V)} \in SUBSET V
      BY AnyIn
    <3>2. QED
      BY <2>1, <3>1
  <2>2. CASE s # V
    <3>1. g[s] = Of(s)[s] /\ Sums(Of(s), s)
      BY <1>3, <2>2
    <3>2. Of(s)[s] = IF s = {} THEN 0 ELSE Stake[Any(s)] + Of(s)[s \ {Any(s)}]
      BY <3>1 DEF Sums
    <3>3. ASSUME s # {}
          PROVE  Of(s)[s \ {Any(s)}] = g[s \ {Any(s)}]
      <4> DEFINE r == s \ {Any(s)}
      <4>1. r \in SUBSET s /\ r # V /\ r \in SUBSET V /\ s \in SUBSET Authority
            /\ r \in SUBSET Authority /\ r \in SUBSET (s \cap r)
        BY <2>2
      <4> HIDE DEF r
      <4>2. Sums(Of(r), r) /\ g[r] = Of(r)[r]
        BY <1>3, <4>1
      <4> HIDE DEF g
      <4>3. Of(s)[r] = Of(r)[r]
        BY ONLY <3>1, <4>1, <4>2, SumsUnique
      <4>4. QED
        BY <4>2, <4>3 DEF r
    <3>4. QED
      BY <3>1, <3>2, <3>3
  <2>3. QED
    BY <2>1, <2>2
<1>5. g = [s \in SUBSET V |-> IF s = {} THEN 0 ELSE Stake[Any(s)] + g[s \ {Any(s)}]]
  <2>1. DOMAIN g = SUBSET V /\ g = [s \in SUBSET V |-> g[s]]
    OBVIOUS
  <2> HIDE DEF g
  <2>2. QED
    BY <1>4, <2>1
<1>6. Sums(g, V)
  BY <1>5 DEF Sums
<1>7. QED
  BY <1>2, <1>6

(* The stake of a set is that of one member and that of the others.        *)
LEMMA StakeStep ==
    /\ StakeOf({}) = 0
    /\ \A S \in SUBSET Authority : StakeOf(S) \in Nat
    /\ \A S \in SUBSET Authority :
          S # {} => StakeOf(S) = Stake[Any(S)] + StakeOf(S \ {Any(S)})
<1> DEFINE Of(W) == CHOOSE f : Sums(f, W)
<1>1. ASSUME NEW S \in SUBSET Authority
      PROVE  Sums(Of(S), S) /\ StakeOf(S) = Of(S)[S] /\ StakeOf(S) \in Nat
  <2>1. Sums(Of(S), S)
    BY SumsExist
  <2>2. StakeOf(S) = Of(S)[S]
    BY StakeUnfolds
  <2> HIDE DEF Of
  <2>3. Of(S)[S] \in Nat
    BY <2>1, SumsUnique
  <2>4. QED
    BY <2>1, <2>2, <2>3
<1> HIDE DEF Of
<1>2. ASSUME NEW S \in SUBSET Authority, S # {}
      PROVE  StakeOf(S) = Stake[Any(S)] + StakeOf(S \ {Any(S)})
  <2>1. Of(S)[S] = Stake[Any(S)] + Of(S)[S \ {Any(S)}]
    BY <1>1, <1>2 DEF Sums
  <2> DEFINE r == S \ {Any(S)}
  <2>2. r \in SUBSET Authority /\ r \in SUBSET (S \cap r)
    OBVIOUS
  <2> HIDE DEF r
  <2>3. Of(S)[r] = Of(r)[r]
    BY <1>1, <2>2, SumsUnique
  <2>4. StakeOf(S) = Of(S)[S] /\ StakeOf(r) = Of(r)[r]
    BY <1>1, <2>2
  <2>5. QED
    BY <2>1, <2>3, <2>4 DEF r
<1>3. StakeOf({}) = 0
  <2>1. {} \in SUBSET Authority
    OBVIOUS
  <2>2. Sums(Of({}), {}) /\ StakeOf({}) = Of({})[{}]
    BY <1>1, <2>1
  <2>3. Of({})[{}] = 0
    BY <2>2 DEF Sums
  <2>4. QED
    BY <2>2, <2>3
<1>4. QED
  BY <1>1, <1>2, <1>3

(* Which member is taken out first does not matter.                        *)
LEMMA StakeRemove ==
    ASSUME NEW S \in SUBSET Authority, NEW x \in S
    PROVE  StakeOf(S) = Stake[x] + StakeOf(S \ {x})
<1> DEFINE Bad == {R \in SUBSET Authority :
                     \E y \in R : StakeOf(R) # Stake[y] + StakeOf(R \ {y})}
<1>1. SUFFICES ASSUME Bad # {} PROVE FALSE
  OBVIOUS
<1>2. PICK R \in Bad : \A Q \in Bad : Q \subseteq R => Q = R
  <2>1. Bad \in SUBSET SUBSET Authority
    OBVIOUS
  <2> HIDE DEF Bad
  <2>2. QED
    BY <1>1, <2>1, SmallestSet
<1>3. PICK y \in R : StakeOf(R) # Stake[y] + StakeOf(R \ {y})
  OBVIOUS
<1> DEFINE p == Any(R)
<1>4. p \in R /\ R \in SUBSET Authority
  BY AnyIn
<1> HIDE DEF p
<1>5. StakeOf(R) = Stake[p] + StakeOf(R \ {p})
  BY <1>4, StakeStep DEF p
<1>6. y # p
  BY <1>3, <1>5
<1>7. ASSUME NEW a \in R, NEW b \in R, a # b
      PROVE  StakeOf(R \ {a}) = Stake[b] + StakeOf(R \ {a, b})
  <2>1. R \ {a} \in SUBSET Authority /\ R \ {a} \subseteq R /\ R \ {a} # R /\ b \in R \ {a}
    BY <1>7
  <2>2. R \ {a} \notin Bad
    BY <1>2, <2>1
  <2>3. StakeOf(R \ {a}) = Stake[b] + StakeOf((R \ {a}) \ {b})
    BY <2>1, <2>2
  <2>4. (R \ {a}) \ {b} = R \ {a, b}
    OBVIOUS
  <2>5. QED
    BY <2>3, <2>4
<1> HIDE DEF Bad
<1>8. /\ StakeOf(R \ {p}) = Stake[y] + StakeOf(R \ {p, y})
      /\ StakeOf(R \ {y}) = Stake[p] + StakeOf(R \ {y, p})
  BY <1>4, <1>6, <1>7
<1>9. R \ {p, y} = R \ {y, p}
  OBVIOUS
<1>10. /\ Stake[p] \in Nat /\ Stake[y] \in Nat /\ StakeOf(R \ {p, y}) \in Nat
  <2>1. R \ {p, y} \in SUBSET Authority /\ y \in Authority /\ p \in Authority
    BY <1>4
  <2>2. QED
    BY <2>1, StakeStep, CommitteeAssumption
<1> DEFINE k == StakeOf(R \ {p, y})  sp == Stake[p]  sy == Stake[y]
           m == StakeOf(R)  n == StakeOf(R \ {y})  o == StakeOf(R \ {p})
<1>11. /\ m = sp + o /\ o = sy + k /\ n = sp + k /\ m # sy + n
       /\ k \in Nat /\ sp \in Nat /\ sy \in Nat
  BY <1>3, <1>5, <1>8, <1>9, <1>10
<1> HIDE DEF k, sp, sy, m, n, o
<1>12. QED
  BY <1>11

(* What total_stake and the aggregators rely on when they add up stakes in *)
(* whatever order authorities arrive: the stake of a set is a natural      *)
(* number, zero for the empty set, the authority's own for one authority,  *)
(* and modular on unions and intersections.                                *)
THEOREM StakeSum ==
    /\ StakeOf({}) = 0
    /\ \A S \in SUBSET Authority : StakeOf(S) \in Nat
    /\ \A a \in Authority : StakeOf({a}) = Stake[a]
    /\ \A S, T \in SUBSET Authority :
          StakeOf(S \cup T) + StakeOf(S \cap T) = StakeOf(S) + StakeOf(T)
<1>1. StakeOf({}) = 0 /\ \A S \in SUBSET Authority : StakeOf(S) \in Nat
  BY StakeStep
<1>2. ASSUME NEW a \in Authority PROVE StakeOf({a}) = Stake[a]
  <2>1. StakeOf({a}) = Stake[a] + StakeOf({a} \ {a})
    BY StakeRemove
  <2>2. {a} \ {a} = {} /\ Stake[a] \in Nat
    BY CommitteeAssumption
  <2>3. QED
    BY <1>1, <2>1, <2>2
<1>3. ASSUME NEW T \in SUBSET Authority
      PROVE  \A S \in SUBSET Authority :
                StakeOf(S \cup T) + StakeOf(S \cap T) = StakeOf(S) + StakeOf(T)
  <2> DEFINE Bad == {S \in SUBSET Authority :
                StakeOf(S \cup T) + StakeOf(S \cap T) # StakeOf(S) + StakeOf(T)}
  <2>1. SUFFICES ASSUME Bad # {} PROVE FALSE
    OBVIOUS
  <2>2. PICK S \in Bad : \A R \in Bad : R \subseteq S => R = S
    <3>1. Bad \in SUBSET SUBSET Authority
      OBVIOUS
    <3> HIDE DEF Bad
    <3>2. QED
      BY <2>1, <3>1, SmallestSet
  <2>3. S # {}
    <3>1. {} \cup T = T /\ {} \cap T = {}
      OBVIOUS
    <3>2. StakeOf(T) + 0 = 0 + StakeOf(T)
      BY <1>1
    <3>3. QED
      BY <1>1, <3>1, <3>2
  <2>4. PICK x \in S : TRUE
    BY <2>3
  <2> DEFINE R == S \ {x}
  <2>5. R \in SUBSET Authority /\ x \in Authority /\ x \notin R
        /\ R \cup T \in SUBSET Authority /\ S \cup T \in SUBSET Authority
        /\ R \cap T \in SUBSET Authority /\ S \cap T \in SUBSET Authority
    OBVIOUS
  <2>6. StakeOf(R \cup T) + StakeOf(R \cap T) = StakeOf(R) + StakeOf(T)
    <3>1. R \notin Bad
      BY <2>2
    <3>2. QED
      BY <2>5, <3>1
  <2>7. StakeOf(S) = Stake[x] + StakeOf(R)
    BY StakeRemove
  <2>8. StakeOf(S \cup T) + StakeOf(S \cap T) # StakeOf(S) + StakeOf(T)
    OBVIOUS
  <2> HIDE DEF Bad
  <2>9. CASE x \in T
    <3>1. S \cup T = R \cup T /\ (S \cap T) \ {x} = R \cap T /\ x \in S \cap T
      BY <2>9
    <3>2. StakeOf(S \cap T) = Stake[x] + StakeOf(R \cap T)
      BY <2>5, <3>1, StakeRemove
    <3>3. StakeOf(S \cup T) = StakeOf(R \cup T)
      BY <3>1
    <3> HIDE DEF R
    <3>4. /\ StakeOf(R \cup T) \in Nat /\ StakeOf(R \cap T) \in Nat /\ StakeOf(R) \in Nat
          /\ StakeOf(T) \in Nat /\ Stake[x] \in Nat
      BY <1>1, <2>5, CommitteeAssumption
    <3> DEFINE u == StakeOf(R \cup T)  i == StakeOf(R \cap T)  r == StakeOf(R)
               t == StakeOf(T)  s == Stake[x]  v == StakeOf(S \cup T)
               j == StakeOf(S \cap T)  q == StakeOf(S)
    <3>5. /\ u + i = r + t /\ q = s + r /\ v + j # q + t /\ j = s + i /\ v = u
          /\ u \in Nat /\ i \in Nat /\ r \in Nat /\ t \in Nat /\ s \in Nat
      BY <2>6, <2>7, <2>8, <3>2, <3>3, <3>4
    <3> HIDE DEF u, i, r, t, s, v, j, q
    <3>6. QED
      BY <3>5
  <2>10. CASE x \notin T
    <3>1. S \cap T = R \cap T /\ (S \cup T) \ {x} = R \cup T /\ x \in S \cup T
      BY <2>10
    <3>2. StakeOf(S \cup T) = Stake[x] + StakeOf(R \cup T)
      BY <2>5, <3>1, StakeRemove
    <3>3. StakeOf(S \cap T) = StakeOf(R \cap T)
      BY <3>1
    <3> HIDE DEF R
    <3>4. /\ StakeOf(R \cup T) \in Nat /\ StakeOf(R \cap T) \in Nat /\ StakeOf(R) \in Nat
          /\ StakeOf(T) \in Nat /\ Stake[x] \in Nat
      BY <1>1, <2>5, CommitteeAssumption
    <3> DEFINE u == StakeOf(R \cup T)  i == StakeOf(R \cap T)  r == StakeOf(R)
               t == StakeOf(T)  s == Stake[x]  v == StakeOf(S \cup T)
               j == StakeOf(S \cap T)  q == StakeOf(S)
    <3>5. /\ u + i = r + t /\ q = s + r /\ v + j # q + t /\ v = s + u /\ j = i
          /\ u \in Nat /\ i \in Nat /\ r \in Nat /\ t \in Nat /\ s \in Nat
      BY <2>6, <2>7, <2>8, <3>2, <3>3, <3>4
    <3> HIDE DEF u, i, r, t, s, v, j, q
    <3>6. QED
      BY <3>5
  <2>11. QED
    BY <2>9, <2>10
<1>4. QED
  BY <1>1, <1>2, <1>3

(* A vote that arrives adds its authority's stake.                         *)
LEMMA StakeAdd ==
    ASSUME NEW S \in SUBSET Authority, NEW v \in Authority \ S
    PROVE  StakeOf(S \cup {v}) = StakeOf(S) + Stake[v]
<1>1. S \cup {v} \in SUBSET Authority /\ v \in S \cup {v} /\ (S \cup {v}) \ {v} = S
  OBVIOUS
<1>2. StakeOf(S \cup {v}) = Stake[v] + StakeOf(S)
  BY <1>1, StakeRemove
<1>3. StakeOf(S) \in Nat /\ Stake[v] \in Nat
  BY StakeSum, CommitteeAssumption
<1>4. QED
  BY <1>2, <1>3

(* Votes that are dropped take exactly their authorities' stake with them. *)
LEMMA StakeDrop ==
    ASSUME NEW S \in SUBSET Authority, NEW R \in SUBSET S
    PROVE  StakeOf(S \ R) = StakeOf(S) - StakeOf(R)
<1>1. R \in SUBSET Authority /\ S \ R \in SUBSET Authority
      /\ (S \ R) \cup R = S /\ (S \ R) \cap R = {}
  OBVIOUS
<1>2. StakeOf((S \ R) \cup R) + StakeOf((S \ R) \cap R) = StakeOf(S \ R) + StakeOf(R)
  BY <1>1, StakeSum
<1>3. StakeOf(S) + StakeOf({}) = StakeOf(S \ R) + StakeOf(R)
  BY <1>1, <1>2
<1>4. /\ StakeOf({}) = 0 /\ StakeOf(S) \in Nat /\ StakeOf(R) \in Nat
      /\ StakeOf(S \ R) \in Nat
  BY <1>1, StakeSum
<1>5. QED
  BY <1>3, <1>4

(* A larger set of authorities has at least as much stake.                 *)
LEMMA StakeMonotone ==
    ASSUME NEW S \in SUBSET Authority, NEW T \in SUBSET Authority, S \subseteq T
    PROVE  StakeOf(S) <= StakeOf(T)
<1>1. T \ S \in SUBSET Authority
  OBVIOUS
<1>2. S \cup (T \ S) = T /\ S \cap (T \ S) = {}
  OBVIOUS
<1>3. StakeOf(S \cup (T \ S)) + StakeOf(S \cap (T \ S))
        = StakeOf(S) + StakeOf(T \ S)
  BY <1>1, StakeSum
<1>4. /\ StakeOf(S) \in Nat /\ StakeOf(T) \in Nat /\ StakeOf(T \ S) \in Nat
      /\ StakeOf({}) = 0
  BY <1>1, StakeSum
<1>5. StakeOf(T) + 0 = StakeOf(S) + StakeOf(T \ S)
  BY <1>2, <1>3, <1>4, Zenon
<1>6. QED
  BY <1>4, <1>5

(* Any two quorums (calculate_quorum_threshold, reached_quorum) have an    *)
(* honest authority in common.                                             *)
THEOREM QuorumIntersection ==
    ASSUME NEW S \in SUBSET Authority, NEW T \in SUBSET Authority,
           ReachedQuorum(S), ReachedQuorum(T)
    PROVE  \E v \in S \cap T : v \notin Byzantine
<1>1. StakeOf(S \cup T) + StakeOf(S \cap T) = StakeOf(S) + StakeOf(T)
  BY StakeSum
<1>2. /\ StakeOf(S) \in Nat /\ StakeOf(T) \in Nat
      /\ StakeOf(S \cup T) \in Nat /\ StakeOf(S \cap T) \in Nat
      /\ StakeOf(Byzantine) \in Nat /\ TotalStake \in Nat
  BY StakeSum, CommitteeAssumption, S \cup T \in SUBSET Authority,
     S \cap T \in SUBSET Authority DEF TotalStake
<1>3. StakeOf(S \cup T) <= TotalStake
  BY StakeMonotone DEF TotalStake
<1>4. /\ StakeOf(S) >= QuorumThreshold
      /\ StakeOf(T) >= QuorumThreshold
  BY DEF ReachedQuorum
<1>5. 3 * QuorumThreshold >= 2 * TotalStake + 1
  BY <1>2 DEF QuorumThreshold
<1>6. StakeOf(S \cap T) > StakeOf(Byzantine)
  <2> DEFINE st == StakeOf(S)  tt == StakeOf(T)  u == StakeOf(S \cup T)
             i == StakeOf(S \cap T)  z == StakeOf(Byzantine)
             n == TotalStake  q == QuorumThreshold
  <2>1. q \in Int
    BY <1>2 DEF QuorumThreshold
  <2>2. /\ st \in Nat /\ tt \in Nat /\ u \in Nat /\ i \in Nat /\ z \in Nat
        /\ n \in Nat /\ u + i = st + tt /\ u <= n /\ st >= q /\ tt >= q
        /\ 3 * q >= 2 * n + 1 /\ 3 * z < n
    BY <1>1, <1>2, <1>3, <1>4, <1>5, FaultAssumption
  <2> HIDE DEF st, tt, u, i, z, n, q
  <2>3. i > z
    BY <2>1, <2>2
  <2>4. QED
    BY <2>3 DEF i, z
<1>7. CASE S \cap T \subseteq Byzantine
  <2>1. StakeOf(S \cap T) <= StakeOf(Byzantine)
    BY <1>7, StakeMonotone, CommitteeAssumption
  <2> HIDE DEF StakeOf
  <2>2. QED
    BY <1>2, <1>6, <2>1
<1>8. QED
  BY <1>7

(* Authorities that reach the validity threshold (f+1) have a member in    *)
(* every quorum: a leader with f+1 support is linked to by every quorum of *)
(* the next round (the commit rule of bullshark.rs).                       *)
THEOREM ValidityMeetsQuorum ==
    ASSUME NEW S \in SUBSET Authority, NEW T \in SUBSET Authority,
           ReachedValidity(S), ReachedQuorum(T)
    PROVE  S \cap T # {}
<1> DEFINE st == StakeOf(S)  tt == StakeOf(T)  u == StakeOf(S \cup T)
           n == TotalStake
<1>1. /\ st \in Nat /\ tt \in Nat /\ u \in Nat /\ n \in Nat
  BY StakeSum, S \cup T \in SUBSET Authority DEF TotalStake
<1>2. u <= n
  BY StakeMonotone DEF TotalStake
<1>3. st >= (n + 2) \div 3 /\ tt >= ((2 * n) \div 3) + 1
  BY DEF ReachedValidity, ReachedQuorum, ValidityThreshold, QuorumThreshold
<1>4. CASE S \cap T = {}
  <2>1. u + 0 = st + tt
    BY <1>4, StakeSum
  <2> HIDE DEF st, tt, u, n
  <2>2. FALSE
    BY <1>1, <1>2, <1>3, <2>1
  <2>3. QED
    BY <2>2
<1>5. QED
  BY <1>4

(* More authorities than a quorum are a quorum.                            *)
LEMMA QuorumMonotone ==
    ASSUME NEW S \in SUBSET Authority, NEW T \in SUBSET Authority, S \subseteq T,
           ReachedQuorum(S)
    PROVE  ReachedQuorum(T)
<1> DEFINE m == StakeOf(S)  n == StakeOf(T)  q == QuorumThreshold
<1>1. m <= n /\ m >= q
  BY StakeMonotone DEF ReachedQuorum
<1>2. m \in Int /\ n \in Int /\ TotalStake \in Int
  BY StakeSum DEF TotalStake
<1>3. q \in Int
  BY <1>2 DEF QuorumThreshold
<1> HIDE DEF m, n, q
<1>4. n >= q
  BY <1>1, <1>2, <1>3
<1>5. QED
  BY <1>4 DEF n, q, ReachedQuorum
=============================================================================

---------------------------- MODULE NamingProofs ----------------------------
(***************************************************************************)
(* How a name becomes a connection, for any range of addresses, any names,  *)
(* rules, settings and number of applications: the rules decide as the      *)
(* screen promises; an answer of the pool leads to its name, in the pool by *)
(* itself and in the whole way of a name; and what the pool and the node's  *)
(* cache know about real addresses is not another's and not long gone.      *)
(***************************************************************************)
EXTENDS Naming, WellFoundedInduction, SequenceTheorems, TLAPS

(***************************************************************************)
(* The rules.  Both walks over a list are recursive functions; what they    *)
(* compute is shown by the well-foundedness of the numbers.                 *)
(***************************************************************************)

\* A set that holds 0 and the successor of each of its numbers below n holds them all.
LEMMA CountUp ==
    ASSUME NEW n \in Nat, NEW T, 0 \in T, \A i \in 1..n : i - 1 \in T => i \in T
    PROVE  \A i \in 0..n : i \in T
  <1> DEFINE out == {i \in 0..n : i \notin T}
  <1> SUFFICES ASSUME out # {} PROVE FALSE
    OBVIOUS
  <1>1. out \subseteq Nat
    OBVIOUS
  <1>2. PICK x \in out : \A y \in out : ~(<<y, x>> \in OpToRel(<, Nat))
    BY <1>1, NatLessThanWellFounded, WFMin
  <1>3. x \in 1..n /\ x - 1 \in 0..n
    OBVIOUS
  <1>4. x - 1 \in out
    BY <1>3
  <1>5. <<x - 1, x>> \in OpToRel(<, Nat)
    BY <1>3 DEF OpToRel
  <1> QED BY <1>2, <1>4, <1>5

\* g holds what a walk has after 0, 1, ..., n steps.
Walked(g, n, s, step) == g[0] = s /\ \A i \in 1..n : g[i] = step[i][g[i - 1]]

\* A walk of n steps exists, whatever a step does.
LEMMA WalkExists ==
    ASSUME NEW n \in Nat, NEW S, NEW s \in S, NEW step \in [1..n -> [S -> S]]
    PROVE  \E g \in [0..n -> S] : Walked(g, n, s, step)
  <1> USE DEF Walked
  <1> DEFINE Walk(g, m) == Walked(g, m, s, step)
             T == {m \in 0..n : \E g \in [0..m -> S] : Walk(g, m)}
  <1>1. 0 \in T
    <2> DEFINE g == [i \in 0..0 |-> s]
    <2>1. g \in [0..0 -> S]
      OBVIOUS
    <2>2. Walk(g, 0)
      OBVIOUS
    <2> HIDE DEF g, Walk
    <2> QED BY <2>1, <2>2
  <1>2. ASSUME NEW m \in 1..n, m - 1 \in T PROVE m \in T
    <2>1. PICK g \in [0..(m - 1) -> S] : Walk(g, m - 1)
      BY <1>2
    <2> DEFINE h == [i \in 0..m |-> IF i = m THEN step[m][g[m - 1]] ELSE g[i]]
    <2>2. step[m][g[m - 1]] \in S
      OBVIOUS
    <2>3. h \in [0..m -> S]
      BY <2>2
    <2>4. h[0] = s
      BY <2>1
    <2>5. ASSUME NEW i \in 1..m PROVE h[i] = step[i][h[i - 1]]
      <3>1. i - 1 \in 0..(m - 1) /\ h[i - 1] = g[i - 1]
        OBVIOUS
      <3>2. CASE i = m
        BY <3>1, <3>2
      <3>3. CASE i # m
        <4>1. i \in 1..(m - 1) /\ h[i] = g[i]
          BY <3>3
        <4> QED BY <2>1, <3>1, <4>1
      <3> QED BY <3>2, <3>3
    <2>6. Walk(h, m)
      BY <2>4, <2>5
    <2> HIDE DEF h, Walk
    <2> QED BY <2>3, <2>6
  <1> HIDE DEF T
  <1>3. n \in T
    <2>1. \A i \in 1..n : i - 1 \in T => i \in T
      BY <1>2
    <2>2. \A i \in 0..n : i \in T
      BY <1>1, <2>1, CountUp
    <2> QED BY <2>2
  <1> QED BY <1>3 DEF T

(***************************************************************************)
(* What Compile leaves of a list: the rules stand in the order of their     *)
(* numbers in it.                                                           *)
(***************************************************************************)
InOrder(rules) ==
    /\ Len(rules) \in Nat /\ DOMAIN rules = 1..Len(rules)
    /\ \A i \in 1..Len(rules) : rules[i].number \in Nat \ {0}
    /\ \A i, j \in 1..Len(rules) : i < j => rules[i].number < rules[j].number

\* A compiled list stands in order.
LEMMA CompileKeepsTheOrder ==
    ASSUME NEW list, Len(list) \in Nat
    PROVE  InOrder(Compile(list))
  <1> DEFINE n == Len(list)
             rec(i) == [rule |-> list[i], number |-> i]
             S == Seq({rec(i) : i \in 1..n})
             Rhs(k) == [i \in 0..n |->
                            IF i = 0 THEN << >>
                            ELSE IF list[i].off THEN k[i - 1]
                            ELSE Append(k[i - 1], rec(i))]
             W(k) == k = Rhs(k)
             b == CHOOSE k : W(k)
  <1>0. n \in Nat
    OBVIOUS
  <1>1. Compile(list) = b[n]
    BY DEF Compile
  <1>2. \E k : W(k)
    <2> DEFINE step == [i \in 1..n |-> [s \in S |->
                            IF list[i].off THEN s ELSE Append(s, rec(i))]]
               s0 == << >>
    <2>1. step \in [1..n -> [S -> S]]
      <3> SUFFICES ASSUME NEW i \in 1..n, NEW s \in S PROVE Append(s, rec(i)) \in S
        OBVIOUS
      <3>1. rec(i) \in {rec(j) : j \in 1..n}
        OBVIOUS
      <3> HIDE DEF rec
      <3> QED BY <3>1, AppendProperties
    <2>2. s0 \in S
      OBVIOUS
    <2> HIDE DEF S, n
    <2>3. PICK g \in [0..n -> S] : Walked(g, n, s0, step)
      <3> HIDE DEF step, s0
      <3> QED BY <1>0, <2>1, <2>2, WalkExists
    <2>4. \A i \in 1..n : g[i] = IF list[i].off THEN g[i - 1] ELSE Append(g[i - 1], rec(i))
      <3> HIDE DEF rec
      <3> SUFFICES ASSUME NEW i \in 1..n
                   PROVE  g[i] = IF list[i].off THEN g[i - 1] ELSE Append(g[i - 1], rec(i))
        OBVIOUS
      <3>1. g[i - 1] \in S
        BY <1>0, <2>3
      <3> QED BY <2>3, <3>1 DEF Walked
    <2> HIDE DEF rec, step
    <2>5. W(g)
      <3>1. \A i \in 0..n : Rhs(g)[i] = g[i]
        <4>1. Rhs(g)[0] = g[0]
          BY <1>0, <2>3 DEF Walked
        <4>2. \A i \in 1..n : Rhs(g)[i] = g[i]
          BY <1>0, <2>4
        <4> HIDE DEF Rhs
        <4> QED BY <1>0, <4>1, <4>2
      <3>2. Rhs(g) = [i \in 0..n |-> Rhs(g)[i]]
        OBVIOUS
      <3> HIDE DEF Rhs
      <3>3. g = [i \in 0..n |-> g[i]]
        BY <2>3
      <3> QED BY <3>1, <3>2, <3>3
    <2> HIDE DEF W
    <2> QED BY <2>5
  <1>3. W(b)
    <2> HIDE DEF W
    <2> QED BY <1>2
  <1> HIDE DEF b
  <1>4. /\ b[0] = << >>
        /\ \A i \in 1..n : b[i] = IF list[i].off THEN b[i - 1] ELSE Append(b[i - 1], rec(i))
    <2>1. \A i \in 0..n : Rhs(b)[i] = IF i = 0 THEN << >>
                                       ELSE IF list[i].off THEN b[i - 1]
                                       ELSE Append(b[i - 1], rec(i))
      <3> HIDE DEF rec
      <3> QED OBVIOUS
    <2> HIDE DEF rec, Rhs
    <2>2. b = Rhs(b)
      BY <1>3
    <2>3. \A i \in 0..n : b[i] = Rhs(b)[i]
      BY <2>2
    <2> QED BY <1>0, <2>1, <2>3
  <1> DEFINE Good(i) == /\ b[i] \in S
                        /\ InOrder(b[i])
                        /\ \A j \in 1..Len(b[i]) : b[i][j].number <= i
             T == {i \in 0..n : Good(i)}
  <1>5. 0 \in T
    <2>1. b[0] \in S /\ Len(b[0]) = 0 /\ DOMAIN b[0] = {}
      BY <1>4
    <2> HIDE DEF S
    <2> QED BY <1>0, <2>1 DEF InOrder
  <1>6. ASSUME NEW i \in 1..n, i - 1 \in T PROVE i \in T
    <2> DEFINE s == b[i - 1]
    <2>1. s \in S /\ InOrder(s) /\ \A j \in 1..Len(s) : s[j].number <= i - 1
      BY <1>6
    <2>2. CASE list[i].off
      <3>1. b[i] = s
        BY <1>4, <2>2
      <3>2. \A j \in 1..Len(s) : s[j].number <= i
        BY <2>1 DEF InOrder
      <3> HIDE DEF s, S
      <3>3. Good(i)
        BY <2>1, <3>1, <3>2
      <3> QED BY <3>3
    <2>3. CASE ~list[i].off
      <3> DEFINE t == Append(s, rec(i))
                 R == {rec(j) : j \in 1..n}
      <3>1. b[i] = t
        BY <1>4, <2>3
      <3>2. rec(i) \in R /\ rec(i).number = i
        OBVIOUS
      <3>3. s \in Seq(R)
        BY <2>1
      <3> HIDE DEF rec, R, s
      <3>4. /\ t \in Seq(R) /\ Len(t) = Len(s) + 1 /\ Len(s) \in Nat
            /\ \A j \in 1..Len(s) : t[j] = s[j]
            /\ t[Len(s) + 1] = rec(i)
            /\ DOMAIN t = 1..Len(t)
        BY <3>2, <3>3, AppendProperties, LenProperties
      <3> HIDE DEF t
      <3>5. \A j \in 1..Len(t) : /\ t[j].number \in Nat \ {0} /\ t[j].number <= i
                                 /\ j \in 1..Len(s) \/ (j = Len(s) + 1 /\ t[j].number = i)
        BY <2>1, <3>2, <3>4 DEF InOrder
      <3>6. ASSUME NEW j \in 1..Len(t), NEW k \in 1..Len(t), j < k
            PROVE  t[j].number < t[k].number
        <4>1. j \in 1..Len(s) /\ t[j].number = s[j].number /\ s[j].number \in Nat
          BY <2>1, <3>4, <3>6 DEF InOrder
        <4>2. CASE k \in 1..Len(s)
          BY <2>1, <3>4, <3>6, <4>1, <4>2 DEF InOrder
        <4>3. CASE k = Len(s) + 1
          <5>1. t[k].number = i
            BY <3>2, <3>4, <4>3
          <5>2. s[j].number <= i - 1
            BY <2>1, <4>1
          <5> QED BY <4>1, <5>1, <5>2
        <4> QED BY <3>4, <4>2, <4>3
      <3>7. InOrder(t)
        BY <3>4, <3>5, <3>6 DEF InOrder
      <3>8. Good(i)
        BY <3>1, <3>4, <3>5, <3>7 DEF R
      <3> HIDE DEF Good
      <3> QED BY <3>8
    <2> QED BY <2>2, <2>3
  <1> HIDE DEF T
  <1>7. n \in T
    <2>1. \A i \in 1..n : i - 1 \in T => i \in T
      BY <1>6
    <2>2. \A i \in 0..n : i \in T
      BY <1>5, <2>1, CountUp
    <2> QED BY <2>2
  <1> QED BY <1>1, <1>7 DEF T

\* The strength of a rule for a stream is a class, and the weakest when nothing matches.
LEMMA StrengthIsAClass ==
    ASSUME NEW r, NEW f, NEW sets
    PROVE  /\ Strength(r, f, sets) \in 0..4
           /\ Strength(r, f, sets) < ClassNone <=> \E m \in r.match : Matches(m, f, sets)
  <1> USE DEF ClassForce, ClassDomain, ClassAddr, ClassProcess, ClassNone
  <1> DEFINE hits == {m \in r.match : Matches(m, f, sets)}
             Least(c) == c \in {Class(m) : m \in hits} /\ \A m \in hits : c <= Class(m)
  <1>1. \A m \in hits : Class(m) \in 1..3
    BY DEF Matches, Class
  <1>2. CASE hits = {}
    BY <1>2 DEF Strength
  <1>3. CASE hits # {}
    <2>1. \E c : Least(c)
      <3> HIDE DEF hits
      <3>1. CASE \E m \in hits : Class(m) = 1
        BY <1>1, <3>1
      <3>2. CASE ~(\E m \in hits : Class(m) = 1) /\ \E m \in hits : Class(m) = 2
        BY <1>1, <3>2
      <3>3. CASE ~(\E m \in hits : Class(m) = 1) /\ ~(\E m \in hits : Class(m) = 2)
        BY <1>1, <1>3, <3>3
      <3> QED BY <3>1, <3>2, <3>3
    <2> DEFINE c == CHOOSE k \in {Class(m) : m \in hits} : \A m \in hits : k <= Class(m)
    <2>2. c \in {Class(m) : m \in hits}
      BY <2>1
    <2>3. c \in 1..3
      BY <1>1, <2>2
    <2>4. Strength(r, f, sets) = IF r.force THEN ClassForce ELSE c
      BY <1>3 DEF Strength
    <2> HIDE DEF c
    <2>5. Strength(r, f, sets) \in 0..3
      BY <2>3, <2>4
    <2> QED BY <1>3, <2>5
  <1> QED BY <1>2, <1>3

\* best holds what Decide has after 0, 1, ... rules.
IsWalk(best, eng, f) ==
    /\ best[0] = NoRule(eng)
    /\ \A i \in 1..Len(eng.rules) :
          LET c == Strength(eng.rules[i].rule, f, eng.sets)
          IN  best[i] = IF c < best[i - 1].class THEN Taking(eng.rules[i], c) ELSE best[i - 1]

\* Decide is the end of its walk.
LEMMA DecideWalks ==
    ASSUME NEW eng, NEW f, Len(eng.rules) \in Nat
    PROVE  \E best : Decide(eng, f) = best[Len(eng.rules)] /\ IsWalk(best, eng, f)
  <1> DEFINE n == Len(eng.rules)
             c(i) == Strength(eng.rules[i].rule, f, eng.sets)
             take(i) == Taking(eng.rules[i], c(i))
             Rhs(g) == [i \in 0..n |->
                            IF i = 0 THEN NoRule(eng)
                            ELSE IF c(i) < g[i - 1].class THEN take(i) ELSE g[i - 1]]
             W(g) == g = Rhs(g)
             b == CHOOSE g : W(g)
  <1>0. n \in Nat
    OBVIOUS
  <1>1. Decide(eng, f) = b[n]
    BY DEF Decide
  <1>2. \E g : W(g)
    <2> HIDE DEF c, take
    <2> DEFINE S == {NoRule(eng)} \cup {take(i) : i \in 1..n}
               step == [i \in 1..n |-> [s \in S |-> IF c(i) < s.class THEN take(i) ELSE s]]
               s0 == NoRule(eng)
    <2>1. step \in [1..n -> [S -> S]]
      OBVIOUS
    <2>2. s0 \in S
      OBVIOUS
    <2> HIDE DEF S, n
    <2>3. PICK g \in [0..n -> S] : Walked(g, n, s0, step)
      <3> HIDE DEF step, s0
      <3> QED BY <1>0, <2>1, <2>2, WalkExists
    <2>4. \A i \in 1..n : g[i] = IF c(i) < g[i - 1].class THEN take(i) ELSE g[i - 1]
      <3> SUFFICES ASSUME NEW i \in 1..n
                   PROVE  g[i] = IF c(i) < g[i - 1].class THEN take(i) ELSE g[i - 1]
        OBVIOUS
      <3>1. g[i - 1] \in S
        BY <1>0, <2>3
      <3> QED BY <2>3, <3>1 DEF Walked
    <2> HIDE DEF step
    <2>5. W(g)
      <3>1. \A i \in 0..n : Rhs(g)[i] = g[i]
        <4>1. Rhs(g)[0] = g[0]
          BY <1>0, <2>3 DEF Walked
        <4>2. \A i \in 1..n : Rhs(g)[i] = g[i]
          BY <1>0, <2>4
        <4> HIDE DEF Rhs
        <4> QED BY <1>0, <4>1, <4>2
      <3>2. Rhs(g) = [i \in 0..n |-> Rhs(g)[i]]
        OBVIOUS
      <3> HIDE DEF Rhs
      <3>3. g = [i \in 0..n |-> g[i]]
        BY <2>3
      <3> QED BY <3>1, <3>2, <3>3
    <2> HIDE DEF W
    <2> QED BY <2>5
  <1>3. W(b)
    <2> HIDE DEF W
    <2> QED BY <1>2
  <1> HIDE DEF b
  <1>4. /\ b[0] = NoRule(eng)
        /\ \A i \in 1..n : b[i] = IF c(i) < b[i - 1].class THEN take(i) ELSE b[i - 1]
    <2> HIDE DEF c, take
    <2>1. \A i \in 0..n : Rhs(b)[i] = IF i = 0 THEN NoRule(eng)
                                       ELSE IF c(i) < b[i - 1].class THEN take(i)
                                       ELSE b[i - 1]
      OBVIOUS
    <2> HIDE DEF Rhs
    <2>2. b = Rhs(b)
      BY <1>3
    <2>3. \A i \in 0..n : b[i] = Rhs(b)[i]
      BY <2>2
    <2> QED BY <1>0, <2>1, <2>3
  <1>5. IsWalk(b, eng, f)
    BY <1>4 DEF IsWalk
  <1> QED BY <1>1, <1>5

(***************************************************************************)
(* What the walk holds after i rules: nothing, when none of them matches,   *)
(* or the rule that no other of them beats.                                 *)
(***************************************************************************)
Strongest(eng, f, i, b) ==
    LET c(k) == Strength(eng.rules[k].rule, f, eng.sets)
    IN  \/ b = NoRule(eng) /\ \A k \in 1..i : c(k) = ClassNone
        \/ \E j \in 1..i :
              /\ b = Taking(eng.rules[j], c(j)) /\ c(j) < ClassNone
              /\ \A k \in 1..i : c(j) <= c(k) /\ (k < j => c(j) < c(k))

\* Decide holds the strongest of all the rules in the end.
LEMMA DecideFindsTheStrongest ==
    ASSUME NEW eng, NEW f, Len(eng.rules) \in Nat
    PROVE  Strongest(eng, f, Len(eng.rules), Decide(eng, f))
  <1> DEFINE n == Len(eng.rules)
             c(k) == Strength(eng.rules[k].rule, f, eng.sets)
  <1>0. PICK best : Decide(eng, f) = best[n] /\ IsWalk(best, eng, f)
    BY DecideWalks
  <1>1. /\ Decide(eng, f) = best[n]
        /\ best[0] = NoRule(eng)
        /\ \A i \in 1..n :
              best[i] = IF c(i) < best[i - 1].class THEN Taking(eng.rules[i], c(i))
                        ELSE best[i - 1]
    BY <1>0 DEF IsWalk
  <1>2. \A k : c(k) \in 0..4
    BY StrengthIsAClass
  <1> HIDE DEF c
  <1> DEFINE Ahead(i) ==
                 \/ best[i] = NoRule(eng) /\ \A k \in 1..i : c(k) = ClassNone
                 \/ \E j \in 1..i :
                       /\ best[i] = Taking(eng.rules[j], c(j)) /\ c(j) < ClassNone
                       /\ \A k \in 1..i : c(j) <= c(k) /\ (k < j => c(j) < c(k))
             T == {i \in 0..n : Ahead(i)}
  <1>3. 0 \in T
    BY <1>1
  <1>4. ASSUME NEW i \in 1..n, i - 1 \in T PROVE i \in T
    <2>1. Ahead(i - 1)
      BY <1>4
    <2>2. c(i) \in 0..4 /\ ClassNone = 4
      BY <1>2 DEF ClassNone
    <2>3. CASE best[i - 1] = NoRule(eng) /\ \A k \in 1..(i - 1) : c(k) = ClassNone
      <3>1. best[i - 1].class = ClassNone
        BY <2>3 DEF NoRule
      <3>2. CASE c(i) < ClassNone
        <4>1. best[i] = Taking(eng.rules[i], c(i))
          BY <1>1, <3>1, <3>2
        <4>2. \A k \in 1..i : c(i) <= c(k) /\ (k < i => c(i) < c(k))
          BY <2>2, <2>3, <3>2
        <4> QED BY <3>2, <4>1, <4>2
      <3>3. CASE ~(c(i) < ClassNone)
        <4>1. best[i] = NoRule(eng)
          BY <1>1, <2>3, <3>1, <3>3
        <4>2. \A k \in 1..i : c(k) = ClassNone
          BY <2>2, <2>3, <3>3
        <4> QED BY <4>1, <4>2
      <3> QED BY <3>2, <3>3
    <2>4. ASSUME NEW j \in 1..(i - 1),
                 best[i - 1] = Taking(eng.rules[j], c(j)), c(j) < ClassNone,
                 \A k \in 1..(i - 1) : c(j) <= c(k) /\ (k < j => c(j) < c(k))
          PROVE  i \in T
      <3>1. best[i - 1].class = c(j) /\ c(j) \in 0..4
        BY <1>2, <2>4 DEF Taking
      <3>2. CASE c(i) < c(j)
        <4>1. best[i] = Taking(eng.rules[i], c(i))
          BY <1>1, <3>1, <3>2
        <4>2. ASSUME NEW k \in 1..i PROVE c(i) <= c(k) /\ (k < i => c(i) < c(k))
          <5>1. k = i \/ k \in 1..(i - 1)
            OBVIOUS
          <5>2. c(k) \in 0..4
            BY <1>2
          <5> QED BY <2>2, <2>4, <3>1, <3>2, <5>1, <5>2
        <4>3. c(i) < ClassNone
          BY <2>2, <3>1, <3>2
        <4> QED BY <4>1, <4>2, <4>3
      <3>3. CASE ~(c(i) < c(j))
        <4>1. best[i] = Taking(eng.rules[j], c(j))
          BY <1>1, <2>4, <3>1, <3>3
        <4>2. ASSUME NEW k \in 1..i PROVE c(j) <= c(k) /\ (k < j => c(j) < c(k))
          <5>1. k = i \/ k \in 1..(i - 1)
            OBVIOUS
          <5> QED BY <2>2, <2>4, <3>1, <3>3, <5>1
        <4>3. j \in 1..i
          OBVIOUS
        <4> QED BY <2>4, <4>1, <4>2, <4>3
      <3> QED BY <3>2, <3>3
    <2> QED BY <2>1, <2>3, <2>4
  <1> HIDE DEF T
  <1>5. n \in T
    <2>1. \A i \in 1..n : i - 1 \in T => i \in T
      BY <1>4
    <2>2. \A i \in 0..n : i \in T
      BY <1>3, <2>1, CountUp
    <2> QED BY <2>2
  <1>6. Ahead(n)
    BY <1>5 DEF T
  <1> QED BY <1>1, <1>6 DEF Strongest, c

(***************************************************************************)
(* The walk over the list finds what the screen promises without one.       *)
(***************************************************************************)
LEMMA DecideIsPromised ==
    ASSUME NEW eng, NEW f, InOrder(eng.rules)
    PROVE  [action |-> Decide(eng, f).action, number |-> Decide(eng, f).number]
               = Promised(eng, f)
  <1> DEFINE n == Len(eng.rules)
             c(k) == Strength(eng.rules[k].rule, f, eng.sets)
             d == Decide(eng, f)
             about == {eng.rules[i] : i \in DOMAIN eng.rules}
             hits == {r \in about : \E m \in r.rule.match : Matches(m, f, eng.sets)}
  <1>1. Strongest(eng, f, n, d) /\ n \in Nat
    BY DecideFindsTheStrongest DEF InOrder
  <1>2. \A k \in 1..n : c(k) \in 0..4 /\ (c(k) < ClassNone <=> eng.rules[k] \in hits)
    BY StrengthIsAClass DEF InOrder
  <1>3. \A r \in hits : \E k \in 1..n : r = eng.rules[k] /\ c(k) < ClassNone
    BY <1>2 DEF InOrder
  <1>4. CASE d = NoRule(eng) /\ \A k \in 1..n : c(k) = ClassNone
    <2>1. hits = {}
      BY <1>3, <1>4 DEF ClassNone
    <2>2. Promised(eng, f) = [action |-> eng.fallback, number |-> 0]
      BY <2>1 DEF Promised
    <2>3. d.action = eng.fallback /\ d.number = 0
      <3> HIDE DEF d
      <3> QED BY <1>4 DEF NoRule
    <2> QED BY <2>2, <2>3
  <1>5. ASSUME NEW j \in 1..n,
               d = Taking(eng.rules[j], c(j)), c(j) < ClassNone,
               \A k \in 1..n : c(j) <= c(k) /\ (k < j => c(j) < c(k))
        PROVE  [action |-> d.action, number |-> d.number] = Promised(eng, f)
    <2> DEFINE Best(r) == \A q \in hits \ {r} : Beats(r, q, f, eng.sets)
               w == eng.rules[j]
    <2>1. w \in hits
      BY <1>2, <1>5
    <2>2. ASSUME NEW q \in hits \ {w} PROVE Beats(w, q, f, eng.sets) /\ ~Beats(q, w, f, eng.sets)
      <3>1. PICK k \in 1..n : q = eng.rules[k]
        BY <1>3
      <3>2. k # j
        BY <3>1
      <3>3. /\ w.number \in Nat /\ q.number \in Nat
            /\ j < k => w.number < q.number
            /\ k < j => c(j) < c(k)
            /\ c(j) \in 0..4 /\ c(k) \in 0..4 /\ c(j) <= c(k)
        BY <1>2, <1>5, <3>1 DEF InOrder
      <3> HIDE DEF hits
      <3>4. CASE k < j
        BY <3>1, <3>3, <3>4 DEF Beats
      <3>5. CASE j < k
        BY <3>1, <3>3, <3>5 DEF Beats
      <3> QED BY <3>2, <3>4, <3>5
    <2>3. Best(w)
      BY <2>2
    <2>4. \A r \in hits : Best(r) => r = w
      BY <2>1, <2>2
    <2> HIDE DEF Best, hits, w
    <2>5. (CHOOSE r \in hits : Best(r)) = w
      BY <2>1, <2>3, <2>4
    <2>6. Promised(eng, f) = [action |-> w.rule.action, number |-> w.number]
      BY <2>1, <2>5 DEF Promised, hits, Best
    <2> HIDE DEF d
    <2> QED BY <1>5, <2>6 DEF Taking, w
  <1> QED BY <1>1, <1>4, <1>5 DEF Strongest

(***************************************************************************)
(* The pool of substitute addresses by itself.                              *)
(***************************************************************************)

(***************************************************************************)
(* Why an answer stays good: the lease behind it was used no longer ago     *)
(* than the answer was given, and a lease is taken only after more silence  *)
(* than an answer may last.                                                 *)
(***************************************************************************)
AnswersAreRecent ==
    \A a \in Apps :
        holds[a].addr # NoAddr /\ holds[a].age <= FakeTTL
            => /\ addrOf[holds[a].name] = holds[a].addr
               /\ seen[holds[a].name] <= holds[a].age

PoolInv == FakeTypeOK /\ OneToOne /\ AnswersAreRecent

\* An application that has not asked holds no address.
LEMMA UnaskedHoldsNothing == Unasked.addr = NoAddr /\ Unasked.age = 0
  BY DEF Unasked

\* Growing older stays within the bound.
LEMMA OlderType ==
    ASSUME NEW cap \in Nat, NEW age \in 0..cap
    PROVE  Older(age, cap) \in 0..cap /\ Older(age, cap) >= age /\ Older(age, cap) <= age + 1
  BY DEF Older

\* The pool begins empty.
LEMMA InitOk == FakeInit => PoolInv
  <1> SUFFICES ASSUME FakeInit PROVE PoolInv
    OBVIOUS
  <1> USE LeaseOutlivesTheAnswer
  <1>1. FakeTypeOK
    BY DEF FakeInit, FakeTypeOK, Answers, Unasked
  <1>2. OneToOne
    BY DEF FakeInit, OneToOne, Leased
  <1>3. AnswersAreRecent
    BY DEF FakeInit, AnswersAreRecent, Unasked
  <1> QED BY <1>1, <1>2, <1>3 DEF PoolInv

(* The types survive a step. *)
LEMMA TypeStep == FakeTypeOK /\ [FakeNext]_fakeVars => FakeTypeOK'
  <1> SUFFICES ASSUME FakeTypeOK, [FakeNext]_fakeVars PROVE FakeTypeOK'
    OBVIOUS
  <1> USE LeaseOutlivesTheAnswer DEF FakeTypeOK
  <1>1. ASSUME NEW a \in Apps, NEW n \in Names, NEW x \in Fakes, Answer(a, n, x)
        PROVE  FakeTypeOK'
    <2>1. holds' \in [Apps -> Answers \cup {Unasked}]
      BY <1>1 DEF Answer, Answers
    <2>2. CASE Again(n, x)
      BY <2>1, <2>2 DEF Again
    <2>3. CASE Fresh(n, x)
      BY <2>1, <2>3 DEF Fresh
    <2>4. ASSUME NEW o \in Names, Taken(n, x, o) PROVE FakeTypeOK'
      BY <2>1, <2>4 DEF Taken
    <2> QED BY <1>1, <2>2, <2>3, <2>4 DEF Answer, Assign
  <1>2. ASSUME NEW a \in Apps, NEW n \in Names, Packet(a, n) PROVE FakeTypeOK'
    BY <1>2 DEF Packet, Lookup
  <1>3. ASSUME NEW n \in Names, NEW p \in Places, Learn(n, p) PROVE FakeTypeOK'
    BY <1>3 DEF Learn, SetReal
  <1>4. CASE FakeTick
    <2>1. seen' \in [Names -> 0..Lease]
      BY <1>4, OlderType DEF FakeTick
    <2>2. holds' \in [Apps -> Answers \cup {Unasked}]
      <3> SUFFICES ASSUME NEW a \in Apps, holds[a] # Unasked
                   PROVE  [holds[a] EXCEPT !.age = Older(@, FakeTTL + 1)] \in Answers
        BY <1>4 DEF FakeTick
      <3>1. holds[a] \in Answers
        OBVIOUS
      <3>2. Older(holds[a].age, FakeTTL + 1) \in 0..(FakeTTL + 1)
        BY <3>1, OlderType DEF Answers
      <3> QED BY <3>1, <3>2 DEF Answers
    <2> QED BY <1>4, <2>1, <2>2 DEF FakeTick
  <1>5. CASE UNCHANGED fakeVars
    BY <1>5 DEF fakeVars
  <1> QED BY <1>1, <1>2, <1>3, <1>4, <1>5 DEF FakeNext

(* So does the one-to-one relation of names and addresses. *)
LEMMA OneToOneStep == FakeTypeOK /\ OneToOne /\ [FakeNext]_fakeVars => OneToOne'
  <1> SUFFICES ASSUME FakeTypeOK, OneToOne, [FakeNext]_fakeVars PROVE OneToOne'
    OBVIOUS
  <1> USE LeaseOutlivesTheAnswer DEF FakeTypeOK, OneToOne, Leased
  <1>1. ASSUME NEW a \in Apps, NEW n \in Names, NEW x \in Fakes, Answer(a, n, x)
        PROVE  OneToOne'
    <2>1. CASE Again(n, x)
      BY <2>1 DEF Again
    <2>2. CASE Fresh(n, x)
      BY <2>2 DEF Fresh
    <2>3. ASSUME NEW o \in Names, Taken(n, x, o) PROVE OneToOne'
      BY <2>3 DEF Taken, Oldest
    <2> QED BY <1>1, <2>1, <2>2, <2>3 DEF Answer, Assign
  <1>2. ASSUME NEW a \in Apps, NEW n \in Names, Packet(a, n) PROVE OneToOne'
    BY <1>2 DEF Packet, Lookup
  <1>3. ASSUME NEW n \in Names, NEW p \in Places, Learn(n, p) PROVE OneToOne'
    BY <1>3 DEF Learn
  <1>4. CASE FakeTick
    BY <1>4 DEF FakeTick
  <1>5. CASE UNCHANGED fakeVars
    BY <1>5 DEF fakeVars
  <1> QED BY <1>1, <1>2, <1>3, <1>4, <1>5 DEF FakeNext

(* And the freshness of answers, which rests on the other two. *)
LEMMA RecentStep == PoolInv /\ [FakeNext]_fakeVars => AnswersAreRecent'
  <1> SUFFICES ASSUME PoolInv, [FakeNext]_fakeVars,
                      NEW b \in Apps, holds'[b].addr # NoAddr, holds'[b].age <= FakeTTL
               PROVE  /\ addrOf'[holds'[b].name] = holds'[b].addr
                      /\ seen'[holds'[b].name] <= holds'[b].age
    BY DEF AnswersAreRecent
  <1> USE LeaseOutlivesTheAnswer DEF PoolInv, FakeTypeOK
  <1>0. ASSUME holds[b].addr # NoAddr
        PROVE  holds[b] \in Answers
    BY <1>0, UnaskedHoldsNothing
  <1>1. ASSUME NEW a \in Apps, NEW n \in Names, NEW x \in Fakes, Answer(a, n, x)
        PROVE  /\ addrOf'[holds'[b].name] = holds'[b].addr
               /\ seen'[holds'[b].name] <= holds'[b].age
    <2>1. addrOf'[n] = x /\ seen'[n] = 0
      <3>1. CASE Again(n, x)
        BY <3>1 DEF Again
      <3>2. CASE Fresh(n, x)
        BY <3>2 DEF Fresh
      <3>3. ASSUME NEW o \in Names, Taken(n, x, o) PROVE addrOf'[n] = x /\ seen'[n] = 0
        BY <3>3 DEF Taken
      <3> QED BY <1>1, <3>1, <3>2, <3>3 DEF Answer, Assign
    <2>2. CASE b = a
      BY <1>1, <2>1, <2>2 DEF Answer
    <2>3. CASE b # a
      <3>1. holds'[b] = holds[b]
        BY <1>1, <2>3 DEF Answer
      <3>2. /\ holds[b] \in Answers
            /\ addrOf[holds[b].name] = holds[b].addr
            /\ seen[holds[b].name] <= holds[b].age
        BY <1>0, <3>1 DEF AnswersAreRecent
      <3>3. holds[b].name \in Names /\ holds[b].age \in Nat /\ seen[holds[b].name] < Lease
        BY <3>1, <3>2 DEF Answers
      <3>4. CASE Again(n, x)
        BY <3>1, <3>2, <3>3, <3>4 DEF Again
      <3>5. CASE Fresh(n, x)
        BY <3>1, <3>2, <3>3, <3>5 DEF Fresh
      <3>6. ASSUME NEW o \in Names, Taken(n, x, o)
            PROVE  /\ addrOf'[holds'[b].name] = holds'[b].addr
                   /\ seen'[holds'[b].name] <= holds'[b].age
        <4>1. holds[b].name # o
          BY <3>3, <3>6 DEF Taken
        <4>2. holds[b].name # n
          BY <3>1, <3>2, <3>6 DEF Taken
        <4> QED BY <3>1, <3>2, <3>3, <3>6, <4>1, <4>2 DEF Taken
      <3> QED BY <1>1, <3>4, <3>5, <3>6 DEF Answer, Assign
    <2> QED BY <2>2, <2>3
  <1>2. ASSUME NEW a \in Apps, NEW n \in Names, Packet(a, n)
        PROVE  /\ addrOf'[holds'[b].name] = holds'[b].addr
               /\ seen'[holds'[b].name] <= holds'[b].age
    <2>1. holds' = holds /\ addrOf' = addrOf
      BY <1>2 DEF Packet, Lookup
    <2>2. /\ holds[b] \in Answers
          /\ addrOf[holds[b].name] = holds[b].addr
          /\ seen[holds[b].name] <= holds[b].age
      BY <1>0, <2>1 DEF AnswersAreRecent
    <2> QED BY <1>2, <2>1, <2>2 DEF Packet, Lookup, Answers
  <1>3. ASSUME NEW n \in Names, NEW p \in Places, Learn(n, p)
        PROVE  /\ addrOf'[holds'[b].name] = holds'[b].addr
               /\ seen'[holds'[b].name] <= holds'[b].age
    BY <1>3 DEF Learn, AnswersAreRecent
  <1>4. CASE FakeTick
    <2>1. holds[b] # Unasked
      BY <1>4, UnaskedHoldsNothing DEF FakeTick
    <2>2. holds[b] \in Answers
      BY <2>1
    <2>3. holds'[b] = [holds[b] EXCEPT !.age = Older(@, FakeTTL + 1)]
      BY <1>4, <2>1 DEF FakeTick
    <2>4. /\ holds'[b].name = holds[b].name
          /\ holds'[b].addr = holds[b].addr
          /\ holds'[b].age = Older(holds[b].age, FakeTTL + 1)
      BY <2>2, <2>3 DEF Answers
    <2>5. holds[b].age <= FakeTTL /\ holds'[b].age = holds[b].age + 1
      BY <2>2, <2>4 DEF Answers, Older
    <2>6. /\ addrOf[holds[b].name] = holds[b].addr
          /\ seen[holds[b].name] <= holds[b].age
      BY <2>4, <2>5 DEF AnswersAreRecent
    <2>7. /\ seen'[holds[b].name] = Older(seen[holds[b].name], Lease)
          /\ addrOf' = addrOf
      BY <1>4, <2>2, <2>4, <2>6 DEF FakeTick, Answers
    <2>8. seen'[holds[b].name] <= seen[holds[b].name] + 1
      BY <2>2, <2>7, OlderType DEF Answers
    <2> QED BY <2>2, <2>4, <2>5, <2>6, <2>7, <2>8, OlderType DEF Answers
  <1>5. CASE UNCHANGED fakeVars
    BY <1>5 DEF fakeVars, AnswersAreRecent
  <1> QED BY <1>1, <1>2, <1>3, <1>4, <1>5 DEF FakeNext

\* Every step keeps the three parts together.
LEMMA PoolStep == PoolInv /\ [FakeNext]_fakeVars => PoolInv'
  BY TypeStep, OneToOneStep, RecentStep DEF PoolInv

(***************************************************************************)
(* An address is never two names' at once (the two maps of the pool agree). *)
(***************************************************************************)
THEOREM PoolOneToOne == FakeSpec => []OneToOne
  <1>1. PoolInv => OneToOne
    BY DEF PoolInv
  <1> QED BY <1>1, InitOk, PoolStep, PTL DEF FakeSpec

(***************************************************************************)
(* An answer leads to its name for as long as an application may keep it.   *)
(***************************************************************************)
THEOREM AnswerLeadsToItsName == FakeSpec => []LeadsToItsName
  <1>1. PoolInv => LeadsToItsName
    BY DEF PoolInv, AnswersAreRecent, LeadsToItsName
  <1> QED BY <1>1, InitOk, PoolStep, PTL DEF FakeSpec

(***************************************************************************)
(* The way of a name.  A step of it moves the pool like a packet, like an   *)
(* answer or like time, or takes an answer out of an application's hands.   *)
(***************************************************************************)

\* Who reads the name behind an address leaves the pool as sound as it was, whether the
\* application keeps what it was answered or not.
LEMMA LookKeeps ==
    ASSUME PoolInv, NEW t, NEW n, Behind(t, n),
           \/ UNCHANGED holds
           \/ \E a \in Apps, h \in Answers \cup {Unasked} :
                  h.addr = NoAddr /\ holds' = [holds EXCEPT ![a] = h]
    PROVE  PoolInv'
  <1> USE LeaseOutlivesTheAnswer DEF PoolInv, FakeTypeOK
  <1>1. holds' \in [Apps -> Answers \cup {Unasked}]
    OBVIOUS
  <1>2. \A a \in Apps : holds'[a] = holds[a] \/ holds'[a].addr = NoAddr
    OBVIOUS
  <1>3. addrOf' = addrOf /\ real' = real /\ fresh' = fresh
    BY DEF Behind, Lookup, pool
  <1>4. seen' \in [Names -> 0..Lease] /\ \A m \in Names : seen'[m] <= seen[m]
    BY DEF Behind, Lookup, Leased, pool
  <1>5. FakeTypeOK'
    BY <1>1, <1>3, <1>4
  <1>6. OneToOne'
    BY <1>3 DEF OneToOne, Leased
  <1>7. AnswersAreRecent'
    <2> SUFFICES ASSUME NEW a \in Apps, holds'[a].addr # NoAddr, holds'[a].age <= FakeTTL
                 PROVE  /\ addrOf'[holds'[a].name] = holds'[a].addr
                        /\ seen'[holds'[a].name] <= holds'[a].age
      BY DEF AnswersAreRecent
    <2>1. holds'[a] = holds[a]
      BY <1>2
    <2>2. holds[a] \in Answers
      BY <2>1, UnaskedHoldsNothing
    <2>3. /\ addrOf[holds[a].name] = holds[a].addr
          /\ seen[holds[a].name] <= holds[a].age
      BY <2>1 DEF AnswersAreRecent
    <2>4. /\ holds[a].name \in Names /\ holds[a].age \in Nat
      BY <2>2 DEF Answers
    <2>5. /\ seen[holds[a].name] \in Nat /\ seen'[holds[a].name] \in Nat
          /\ seen'[holds[a].name] <= seen[holds[a].name]
      BY <2>4, <1>4
    <2> QED BY <1>3, <2>1, <2>3, <2>4, <2>5
  <1> QED BY <1>5, <1>6, <1>7

(***************************************************************************)
(* The invariant of the way of a name: the pool's, the types of the flows   *)
(* and of the resolver, and what is known of real addresses.                *)
(***************************************************************************)
Flows ==
    [at : Stages, target : Fakes \cup Numeric \cup {NoAddr}, port : Ports \cup {0},
     name : Names \cup {NoAddr}]

FlowTyped ==
    /\ flow \in [Apps -> Flows]
    /\ \A a \in Apps : flow[a].at = "learns" => flow[a].name \in Names

TruthTyped ==
    /\ truth \in [Names -> [Families -> Places \cup {NoAddr}]]
    /\ \A n \in Names, f \in Families : truth[n][f] \in PlacesOf[n][f]

WayInv == PoolInv /\ FlowTyped /\ TruthTyped /\ RealIsOwn

\* An unused flow is a flow, in whatever stage it is put.
LEMMA NewFlow ==
    ASSUME NEW at \in Stages, NEW n \in Names \cup {NoAddr},
           NEW t \in Fakes \cup Numeric \cup {NoAddr}, NEW p \in Ports \cup {0}
    PROVE  [at |-> at, target |-> t, port |-> p, name |-> n] \in Flows
  BY DEF Flows

\* What a flow becomes when it ends, when it opens, when it is let through.
LEMMA FlowForms ==
    /\ Over \in Flows /\ Over.at = "over"
    /\ Up \in Flows /\ Up.at = "up"
    /\ NoFlow \in Flows /\ NoFlow.at = "none"
    /\ \A n \in Names \cup {NoAddr} :
          /\ [NoFlow EXCEPT !.at = "opens", !.name = n] \in Flows
          /\ [NoFlow EXCEPT !.at = "opens", !.name = n].at = "opens"
    /\ \A t \in Fakes \cup Numeric, p \in Ports :
          /\ [NoFlow EXCEPT !.at = "allowed", !.port = p, !.target = t] \in Flows
          /\ [NoFlow EXCEPT !.at = "allowed", !.port = p, !.target = t].at = "allowed"
  BY DEF Flows, Over, Up, NoFlow, Stages

\* A flow put in a stage that is not the waiting for an address keeps the types.
LEMMA FlowSet ==
    ASSUME FlowTyped, NEW a \in Apps, NEW w \in Flows,
           w.at = "learns" => w.name \in Names,
           flow' = [flow EXCEPT ![a] = w]
    PROVE  FlowTyped'
  BY DEF FlowTyped

\* The pool at the start, with nobody's flow and no real address known.
LEMMA WayInit == Init => WayInv
  <1> SUFFICES ASSUME Init PROVE WayInv
    OBVIOUS
  <1>1. PoolInv
    BY InitOk DEF Init
  <1>2. FlowTyped
    BY FlowForms DEF Init, FlowTyped
  <1>3. TruthTyped
    BY DEF Init, ResInit, TruthTyped
  <1>4. RealIsOwn
    BY DEF Init, FakeInit, RealIsOwn
  <1> QED BY <1>1, <1>2, <1>3, <1>4 DEF WayInv

\* What is known of real addresses stays right when the pool forgets some of it.
LEMMA RealStays ==
    ASSUME RealIsOwn, \A n \in Names : real'[n] = real[n] \/ real'[n] = NoAddr
    PROVE  RealIsOwn'
  BY DEF RealIsOwn

\* A question of an application.
LEMMA AskKeeps ==
    ASSUME WayInv, NEW a \in Apps, NEW n \in Names, Ask(a, n)
    PROVE  WayInv'
  <1> USE DEF WayInv
  <1>1. FlowTyped' /\ TruthTyped'
    BY DEF Ask, nodeVars, FlowTyped, TruthTyped
  <1>2. CASE /\ holds' = [holds EXCEPT ![a] = [name |-> n, addr |-> NoAddr, age |-> 0]]
             /\ UNCHANGED pool
    <2> DEFINE h == [name |-> n, addr |-> NoAddr, age |-> 0]
    <2>1. h \in Answers /\ h.addr = NoAddr
      BY LeaseOutlivesTheAnswer DEF Answers
    <2>2. PoolInv'
      <3> USE LeaseOutlivesTheAnswer DEF PoolInv, FakeTypeOK
      <3>1. pool' = pool /\ holds' = [holds EXCEPT ![a] = h]
        BY <1>2
      <3>2. FakeTypeOK'
        BY <2>1, <3>1 DEF pool
      <3>3. OneToOne'
        BY <3>1 DEF pool, OneToOne, Leased
      <3>4. AnswersAreRecent'
        BY <2>1, <3>1 DEF pool, AnswersAreRecent
      <3> QED BY <3>2, <3>3, <3>4
    <2>3. RealIsOwn'
      BY <1>2 DEF pool, RealIsOwn
    <2> QED BY <1>1, <2>2, <2>3
  <1>3. ASSUME NEW x \in Fakes, Answer(a, n, x) PROVE WayInv'
    <2>1. PoolInv'
      BY <1>3, PoolStep DEF FakeNext
    <2>2. \A m \in Names : real'[m] = real[m] \/ real'[m] = NoAddr
      BY <1>3 DEF Answer, Assign, Again, Fresh, Taken, PoolInv, FakeTypeOK
    <2> QED BY <1>1, <2>1, <2>2, RealStays
  <1> QED BY <1>2, <1>3 DEF Ask

\* The name behind an address is one of the names, and the look changes no address.
LEMMA LookFinds ==
    ASSUME NEW t, NEW n, Behind(t, n)
    PROVE  /\ UNCHANGED real
           /\ t \in Fakes => n \in Names
  BY DEF Behind, Lookup, Leased, pool

\* A pool that is left alone and an application that keeps its answer.
LEMMA PoolRests ==
    ASSUME PoolInv, UNCHANGED pool, UNCHANGED holds
    PROVE  PoolInv'
  <1>1. UNCHANGED fakeVars
    BY DEF pool, fakeVars
  <1> QED BY <1>1, PoolStep

\* A pool that is left alone and an application that forgets its answer.
LEMMA PoolForgets ==
    ASSUME PoolInv, UNCHANGED pool, NEW a \in Apps,
           holds' = [holds EXCEPT ![a] = Unasked]
    PROVE  PoolInv'
  <1> USE LeaseOutlivesTheAnswer DEF PoolInv, FakeTypeOK
  <1>1. FakeTypeOK'
    BY DEF pool
  <1>2. OneToOne'
    BY DEF pool, OneToOne, Leased
  <1>3. AnswersAreRecent'
    BY UnaskedHoldsNothing DEF pool, AnswersAreRecent
  <1> QED BY <1>1, <1>2, <1>3

\* The first packet of a connection.
LEMMA StartsKeeps ==
    ASSUME WayInv, NEW a \in Apps, NEW t \in Fakes \cup Numeric, NEW p \in Ports,
           Starts(a, t, p)
    PROVE  WayInv'
  <1> USE DEF WayInv
  <1>1. UNCHANGED holds /\ TruthTyped'
    BY DEF Starts, nodeVars, TruthTyped
  <1>2. CASE flow' = [flow EXCEPT ![a] = Over] /\ UNCHANGED pool
    <2>1. FlowTyped'
      BY <1>2, FlowForms, FlowSet
    <2>2. PoolInv'
      BY <1>1, <1>2, PoolRests
    <2>3. RealIsOwn'
      BY <1>2 DEF pool, RealIsOwn
    <2> QED BY <1>1, <2>1, <2>2, <2>3
  <1>3. ASSUME NEW n \in Names \cup {NoAddr}, Behind(t, n),
               flow' = [flow EXCEPT ![a] =
                       IF Decision(p, n, Known(t, n)) = "block" THEN Over
                       ELSE [NoFlow EXCEPT !.at = "allowed", !.port = p, !.target = t]]
        PROVE  WayInv'
    <2> DEFINE w == IF Decision(p, n, Known(t, n)) = "block" THEN Over
                    ELSE [NoFlow EXCEPT !.at = "allowed", !.port = p, !.target = t]
    <2>1. w \in Flows /\ w.at # "learns"
      BY FlowForms
    <2>2. flow' = [flow EXCEPT ![a] = w]
      BY <1>3
    <2> HIDE DEF w
    <2>3. FlowTyped'
      BY <2>1, <2>2, FlowSet
    <2>4. PoolInv'
      BY <1>1, <1>3, LookKeeps
    <2>5. RealIsOwn'
      BY <1>3, LookFinds, RealStays
    <2> QED BY <1>1, <2>3, <2>4, <2>5
  <1> QED BY <1>2, <1>3 DEF Starts

\* A flow opened towards a name or refused.
LEMMA OpensKeeps ==
    ASSUME FlowTyped, NEW a \in Apps, NEW n \in Names \cup {NoAddr}, NEW x, Opens(a, n, x)
    PROVE  FlowTyped'
  <1> DEFINE w == IF Decision(flow[a].port, n, x) = "block" THEN Over
                  ELSE [NoFlow EXCEPT !.at = "opens", !.name = n]
  <1>1. w \in Flows /\ w.at # "learns"
    BY FlowForms
  <1>2. flow' = [flow EXCEPT ![a] = w]
    BY DEF Opens
  <1> HIDE DEF w
  <1> QED BY <1>1, <1>2, FlowSet

\* The connection is taken up.
LEMMA HandlesKeeps ==
    ASSUME WayInv, NEW a \in Apps, Handles(a)
    PROVE  WayInv'
  <1> USE DEF WayInv
  <1> DEFINE t == flow[a].target
  <1>1. holds' = [holds EXCEPT ![a] = Unasked] /\ TruthTyped'
    BY DEF Handles, nodeVars, TruthTyped
  <1>2. CASE flow' = [flow EXCEPT ![a] = Over] /\ UNCHANGED pool
    <2>1. FlowTyped'
      BY <1>2, FlowForms, FlowSet
    <2>2. PoolInv'
      BY <1>1, <1>2, PoolForgets
    <2>3. RealIsOwn'
      BY <1>2 DEF pool, RealIsOwn
    <2> QED BY <1>1, <2>1, <2>2, <2>3
  <1>3. ASSUME NEW n \in Names \cup {NoAddr}, Behind(t, n),
               IF t \in Fakes /\ NeedsAddr(engine) /\ real[n] = NoAddr
               THEN flow' = [flow EXCEPT ![a].at = "learns", ![a].name = n]
               ELSE Opens(a, n, Known(t, n))
        PROVE  WayInv'
    <2>1. FlowTyped'
      <3>1. CASE t \in Fakes /\ flow' = [flow EXCEPT ![a].at = "learns", ![a].name = n]
        <4>1. n \in Names
          BY <1>3, <3>1, LookFinds
        <4>2. flow[a] \in Flows /\ flow \in [Apps -> Flows]
          BY DEF FlowTyped
        <4> DEFINE w == [flow[a] EXCEPT !.at = "learns", !.name = n]
        <4>3. w \in Flows /\ w.name = n
          BY <4>1, <4>2 DEF Flows, Stages
        <4>4. flow' = [flow EXCEPT ![a] = w]
          BY <3>1, <4>2
        <4> HIDE DEF w
        <4> QED BY <4>1, <4>3, <4>4, FlowSet
      <3>2. CASE Opens(a, n, Known(t, n))
        BY <3>2, OpensKeeps
      <3> QED BY <1>3, <3>1, <3>2
    <2>2. PoolInv'
      <3>1. Unasked \in Answers \cup {Unasked} /\ Unasked.addr = NoAddr
        BY UnaskedHoldsNothing
      <3> QED BY <1>1, <1>3, <3>1, LookKeeps
    <2>3. RealIsOwn'
      BY <1>3, LookFinds, RealStays
    <2> QED BY <1>1, <2>1, <2>2, <2>3
  <1> QED BY <1>2, <1>3 DEF Handles

\* The awaited address comes: it is kept for the name it was asked for.
LEMMA LearnsKeeps ==
    ASSUME WayInv, NEW a \in Apps, Learned(a)
    PROVE  WayInv'
  <1> USE DEF WayInv
  <1>1. flow[a].at = "learns" /\ flow[a].name \in Names
    BY DEF Learned, Learns, FlowTyped
  <1>2. PICK x : /\ Learns(a, x)
                 /\ x = NoAddr \/ x = truth[flow[a].name]["ip4"]
    BY DEF Learned
  <1>3. x \in Places \cup {NoAddr} /\ (x # NoAddr => x \in PlacesOf[flow[a].name]["ip4"])
    BY <1>1, <1>2, TheWorldIsKnown DEF TruthTyped
  <1>4. TruthTyped' /\ UNCHANGED holds
    BY <1>2 DEF Learns, nodeVars, TruthTyped
  <1>5. FlowTyped'
    BY <1>1, <1>2, OpensKeeps DEF Learns
  <1>6. CASE UNCHANGED real
    <2>1. UNCHANGED pool
      BY <1>2, <1>6 DEF Learns, pool
    <2> QED BY <1>4, <1>5, <1>6, <2>1, PoolRests DEF RealIsOwn
  <1>7. CASE x # NoAddr /\ SetReal(flow[a].name, x)
    <2>1. Learn(flow[a].name, x)
      BY <1>2, <1>7 DEF Learns, Learn
    <2>2. PoolInv'
      BY <1>1, <1>3, <1>7, <2>1, PoolStep DEF FakeNext
    <2>3. RealIsOwn'
      BY <1>1, <1>3, <1>7, TheWorldIsKnown
      DEF RealIsOwn, SetReal, PoolInv, FakeTypeOK
    <2> QED BY <1>4, <1>5, <2>2, <2>3
  <1> QED BY <1>2, <1>6, <1>7 DEF Learns

\* A step that leaves the pool, the answers and the truth alone.
LEMMA ElsewhereKeeps ==
    ASSUME WayInv, UNCHANGED pool, UNCHANGED holds, UNCHANGED truth, FlowTyped'
    PROVE  WayInv'
  <1>1. PoolInv'
    BY PoolRests DEF WayInv
  <1>2. TruthTyped' /\ RealIsOwn'
    BY DEF WayInv, TruthTyped, RealIsOwn, pool
  <1> QED BY <1>1, <1>2 DEF WayInv

\* Closing the open streams keeps the types.
LEMMA ClosedTyped ==
    ASSUME FlowTyped, flow' = Closed
    PROVE  FlowTyped'
  BY FlowForms DEF FlowTyped, Closed

\* Every step of the way of a name keeps its invariant.
LEMMA WayStep == WayInv /\ [Next]_vars => WayInv'
  <1> SUFFICES ASSUME WayInv, [Next]_vars PROVE WayInv'
    OBVIOUS
  <1> USE DEF WayInv
  <1>1. ASSUME NEW a \in Apps, NEW n \in Names, Ask(a, n) PROVE WayInv'
    BY <1>1, AskKeeps
  <1>2. ASSUME NEW a \in Apps, NEW t \in Fakes \cup Numeric, NEW p \in Ports, Starts(a, t, p)
        PROVE  WayInv'
    BY <1>2, StartsKeeps
  <1>3. ASSUME NEW a \in Apps, Handles(a) PROVE WayInv'
    BY <1>3, HandlesKeeps
  <1>4. ASSUME NEW a \in Apps, Learned(a) PROVE WayInv'
    BY <1>4, LearnsKeeps
  <1>5. ASSUME NEW a \in Apps, NEW n \in Names, NEW q \in Processes, Socks(a, n, q)
        PROVE  WayInv'
    <2> DEFINE d == Decide(engine, [domain |-> n, addr |-> NoAddr, port |-> 443, process |-> q])
               w == IF d.action = "block" THEN Over
                    ELSE [NoFlow EXCEPT !.at = "opens", !.name = n]
    <2>1. w \in Flows /\ w.at # "learns"
      BY FlowForms
    <2>2. flow' = [flow EXCEPT ![a] = w]
      BY <1>5 DEF Socks
    <2> HIDE DEF w
    <2>3. FlowTyped'
      BY <2>1, <2>2, FlowSet
    <2> QED BY <1>5, <2>3, ElsewhereKeeps DEF Socks, nodeVars
  <1>6. ASSUME NEW a \in Apps, Resolves(a) PROVE WayInv'
    BY <1>6, ElsewhereKeeps DEF Resolves, clientVars, pool, FlowTyped
  <1>7. ASSUME NEW a \in Apps, Waits(a) PROVE WayInv'
    BY <1>7, ElsewhereKeeps
    DEF Waits, Hit, Miss, GoesOn, ServerAnswers, Replies, clientVars, pool, FlowTyped
  <1>8. ASSUME NEW a \in Apps, Dials(a) PROVE WayInv'
    <2>1. PICK end \in {Up, Over} : flow' = [flow EXCEPT ![a] = end]
      BY <1>8 DEF Dials
    <2>2. end \in Flows /\ end.at # "learns"
      BY FlowForms
    <2>3. FlowTyped'
      BY <2>1, <2>2, FlowSet
    <2> QED BY <1>8, <2>3, ElsewhereKeeps DEF Dials
  <1>9. ASSUME NEW l \in RuleLists, SetRules(l) PROVE WayInv'
    BY <1>9, ClosedTyped, ElsewhereKeeps DEF SetRules, nodeVars
  <1>10. ASSUME NEW s \in BaseSets, SetSets(s) PROVE WayInv'
    BY <1>10, ElsewhereKeeps DEF SetSets, nodeVars, FlowTyped
  <1>11. ASSUME NEW b \in {"direct", "egress"}, SetFallback(b) PROVE WayInv'
    BY <1>11, ClosedTyped, ElsewhereKeeps DEF SetFallback, nodeVars
  <1>12. CASE WatchDNS
    BY <1>12, ElsewhereKeeps DEF WatchDNS, Configure, Flush, ConfigureCache, FlowTyped
  <1>13. CASE World
    <2>1. PICK n \in Names, f \in Families : \E x \in PlacesOf[n][f] : Moves(n, f, x)
      BY <1>13 DEF World
    <2>2. PICK x \in PlacesOf[n][f] : Moves(n, f, x)
      BY <2>1
    <2>3. x \in Places \cup {NoAddr}
      BY TheWorldIsKnown
    <2>4. TruthTyped'
      BY <2>2, <2>3 DEF Moves, TruthTyped
    <2>5. UNCHANGED pool /\ UNCHANGED holds /\ UNCHANGED flow
      BY <1>13 DEF World
    <2>6. PoolInv'
      BY <2>5, PoolRests
    <2>7. FlowTyped' /\ RealIsOwn'
      BY <2>5 DEF FlowTyped, RealIsOwn, pool
    <2> QED BY <2>4, <2>6, <2>7
  <1>14. CASE Tick
    <2>1. PoolInv'
      BY <1>14, PoolStep DEF Tick, FakeNext
    <2>2. FlowTyped' /\ TruthTyped' /\ RealIsOwn'
      BY <1>14 DEF Tick, FakeTick, ResTick, FlowTyped, TruthTyped, RealIsOwn
    <2> QED BY <2>1, <2>2
  <1>15. CASE UNCHANGED vars
    BY <1>15, ElsewhereKeeps DEF vars, pool, FlowTyped
  <1> QED BY <1>1, <1>2, <1>3, <1>4, <1>5, <1>6, <1>7, <1>8, <1>9, <1>10, <1>11, <1>12,
             <1>13, <1>14, <1>15 DEF Next

(***************************************************************************)
(* An answer leads to its name in the whole way of a name as well: with     *)
(* packets, rules and the proxy between the questions.                      *)
(***************************************************************************)
THEOREM AnswersHoldOnTheWay == Spec => []LeadsToItsName
  <1>1. WayInv => LeadsToItsName
    BY DEF WayInv, PoolInv, AnswersAreRecent, LeadsToItsName
  <1> QED BY <1>1, WayInit, WayStep, PTL DEF Spec

(***************************************************************************)
(* The real address kept beside a lease is one the name of the lease has    *)
(* had, whatever became of the lease while the address was awaited.         *)
(***************************************************************************)
THEOREM NobodyElsesAddress == Spec => []RealIsOwn
  <1>1. WayInv => RealIsOwn
    BY DEF WayInv
  <1> QED BY <1>1, WayInit, WayStep, PTL DEF Spec

(***************************************************************************)
(* The node's cache.  Why no address is given out that is too long gone: an *)
(* answer was given when the name had its address, and has not travelled    *)
(* for longer than a server is waited for; it is stored with no more time   *)
(* than the longest, and its time runs no slower than the absence.          *)
(***************************************************************************)
Entries == [name : Names, family : Families, addr : Places, left : Nat]

GoodEntries(h) == {e \in Entries : e.left > 0 => h[e.name][e.addr] + e.left <= Memory}

QueryStages == {"none", "get", "asks", "answered", "has", "fails"}

\* A query is a record of these fields, whatever servers are still to be asked.
QueryLike(q) == q \in [at : QueryStages, todo : {q.todo}, addr : {q.addr}, name : {q.name},
                       waited : {q.waited}]

\* Where the name of a query matters.
Asking == {"get", "asks", "answered"}

Asked ==
    /\ query = [c \in Apps |-> [f \in Families |-> query[c][f]]]
    /\ \A c \in Apps, f \in Families :
          /\ QueryLike(query[c][f])
          /\ query[c][f].at \in Asking => query[c][f].name \in Names

\* An answer on its way has been there no longer than servers are waited for, and
\* the name has had its address since it was given.
Recent(q) ==
    q.at = "answered" => /\ q.addr \in Places /\ q.waited \in Nat /\ q.waited <= Patience
                         /\ had[q.name][q.addr] <= q.waited

OnTheWay == \A c \in Apps, f \in Families : Recent(query[c][f])

CacheTyped ==
    /\ had \in [Names -> [Places -> Nat]]
    /\ conf \in [entries : Nat, min : Nat, max : Nat]
    /\ \E k \in Settings : conf = k.cache
    /\ half \in Settings \cup {NoSetting}

(* What a name has now it has had for no time at all. *)
HasItNow == \A n \in Names, f \in Families : truth[n][f] # NoAddr => had[n][truth[n][f]] = 0

CacheInv ==
    /\ FlowTyped /\ TruthTyped
    /\ CacheTyped /\ HasItNow /\ Asked /\ OnTheWay
    /\ cache \in Seq(GoodEntries(had))

\* The time an answer is kept for is a number, and no longer than the longest.
LEMMA LongestIsLongest ==
    /\ Longest \in Nat
    /\ \A k \in Settings, t \in Ttls :
          Clamp(k.cache, Named(t)) \in Nat /\ Clamp(k.cache, Named(t)) <= Longest
  <1> DEFINE all == {Clamp(k.cache, Named(t)) : k \in Settings, t \in Ttls}
  <1>1. \A k \in Settings, t \in Ttls : Clamp(k.cache, Named(t)) \in Nat
    <2> SUFFICES ASSUME NEW k \in Settings, NEW t \in Ttls
                 PROVE  Clamp(k.cache, Named(t)) \in Nat
      OBVIOUS
    <2>1. Named(t) \in Nat
      BY SettingsAreNumbers DEF Named
    <2>2. k.cache.min \in Nat /\ k.cache.max \in Nat
      BY SettingsAreNumbers
    <2> QED BY <2>1, <2>2 DEF Clamp
  <1>2. \E l \in all : \A m \in all : m <= l
    <2>1. PICK k \in Settings, t \in Ttls :
              \A j \in Settings, u \in Ttls :
                  Clamp(j.cache, Named(u)) <= Clamp(k.cache, Named(t))
      BY TimesAreBounded
    <2>2. Clamp(k.cache, Named(t)) \in all
      OBVIOUS
    <2>3. \A m \in all : m <= Clamp(k.cache, Named(t))
      BY <2>1
    <2> HIDE DEF all
    <2> QED BY <2>2, <2>3
  <1>3. Longest = CHOOSE l \in all : \A m \in all : m <= l
    BY DEF Longest
  <1> HIDE DEF all
  <1>4. Longest \in all /\ \A m \in all : m <= Longest
    BY <1>2, <1>3
  <1> QED BY <1>1, <1>4 DEF all

\* The longest an address is spoken of is a number no less than that.
LEMMA MemoryIsLonger ==
    /\ Longest \in Nat /\ Patience \in Nat /\ Memory \in Nat
    /\ Memory = Longest + Patience
  BY LongestIsLongest, SettingsAreNumbers DEF Memory

\* Dropping the entry of a name, and the tail beyond the bound, leaves good entries.
LEMMA DroppingLeavesGood ==
    ASSUME NEW S, NEW s \in Seq(S)
    PROVE  /\ \A i \in DOMAIN s : RemoveAt(s, i) \in Seq(S)
           /\ \A max \in Nat : Trimmed(s, max) \in Seq(S)
           /\ \A e \in S : <<e>> \o s \in Seq(S)
  <1>1. ASSUME NEW i \in DOMAIN s PROVE RemoveAt(s, i) \in Seq(S)
    <2>1. i \in 1..Len(s) /\ Len(s) \in Nat
      BY LenProperties
    <2>2. SubSeq(s, 1, i - 1) \in Seq(S) /\ SubSeq(s, i + 1, Len(s)) \in Seq(S)
      BY <2>1, SubSeqProperties
    <2> QED BY <2>2, ConcatProperties DEF RemoveAt
  <1>2. ASSUME NEW max \in Nat PROVE Trimmed(s, max) \in Seq(S)
    <2>1. Len(s) \in Nat
      BY LenProperties
    <2> QED BY <2>1, SubSeqProperties DEF Trimmed
  <1>3. ASSUME NEW e \in S PROVE <<e>> \o s \in Seq(S)
    <2>1. <<e>> \in Seq(S)
      OBVIOUS
    <2> QED BY <2>1, ConcatProperties
  <1> QED BY <1>1, <1>2, <1>3

\* What is left without the entry of one name is as good as before.
LEMMA WithoutIsGood ==
    ASSUME NEW S, cache \in Seq(S), NEW n, NEW f
    PROVE  Without(n, f) \in Seq(S)
  BY DroppingLeavesGood DEF Without, Held

\* An entry that has not run out is good.
LEMMA LiveIsGood ==
    ASSUME CacheInv, NEW n, NEW f, NEW i \in Live(n, f)
    PROVE  /\ i \in DOMAIN cache /\ cache[i] \in GoodEntries(had)
           /\ cache[i].name = n /\ cache[i].left > 0
           /\ cache[i].addr \in Places
           /\ had[n][cache[i].addr] <= Memory
  <1>1. /\ i \in DOMAIN cache /\ cache[i].left > 0
        /\ cache[i].name = n /\ cache[i].family = f
    BY DEF Live, Held, IsKey
  <1>2. cache[i] \in GoodEntries(had)
    BY <1>1 DEF CacheInv
  <1>3. /\ cache[i].name \in Names /\ cache[i].addr \in Places /\ cache[i].left \in Nat
        /\ had[cache[i].name][cache[i].addr] + cache[i].left <= Memory
    BY <1>1, <1>2 DEF GoodEntries, Entries
  <1>4. had[cache[i].name][cache[i].addr] \in Nat
    BY <1>3 DEF CacheInv, CacheTyped
  <1> QED BY <1>1, <1>2, <1>3, <1>4, MemoryIsLonger

\* One query set to another record, the rest as they were.
LEMMA QuerySet ==
    ASSUME Asked, OnTheWay, NEW c \in Apps, NEW f \in Families, NEW q, QueryLike(q),
           q.at \in Asking => q.name \in Names, Recent(q), had' = had,
           query' = [query EXCEPT ![c] = [query[c] EXCEPT ![f] = q]]
    PROVE  Asked' /\ OnTheWay' /\ query'[c][f] = q
           /\ \A d \in Apps, g \in Families : d # c \/ g # f => query'[d][g] = query[d][g]
  <1>1. /\ \A d \in Apps, g \in Families :
              query'[d][g] = IF d = c /\ g = f THEN q ELSE query[d][g]
        /\ query' = [d \in Apps |-> [g \in Families |-> query'[d][g]]]
    BY DEF Asked
  <1>2. Asked'
    BY <1>1 DEF Asked
  <1>3. OnTheWay'
    BY <1>1 DEF OnTheWay, Recent
  <1> QED BY <1>1, <1>2, <1>3

\* A query in another stage that is still about the same name.
IsMoved(r, q, s) == QueryLike(r) /\ r.at = s /\ r.name = q.name

\* A query that has its answer.
IsAnswered(r, q, x) == IsMoved(r, q, "has") /\ r.addr = x

\* A query that is given an address, from the cache or by a server.
LEMMA QueryAnswered ==
    ASSUME NEW q, QueryLike(q), NEW x
    PROVE  /\ IsAnswered([q EXCEPT !.at = "has", !.addr = x], q, x)
           /\ IsAnswered([Idle EXCEPT !.at = "has", !.name = q.name, !.addr = x], q, x)
  <1>1. ASSUME NEW r, r = [q EXCEPT !.at = "has", !.addr = x] PROVE IsAnswered(r, q, x)
    <2>1. r = [at |-> "has", todo |-> q.todo, addr |-> x, name |-> q.name, waited |-> q.waited]
      BY <1>1 DEF QueryLike
    <2> QED BY <2>1 DEF IsAnswered, IsMoved, QueryLike, QueryStages
  <1>2. ASSUME NEW r, r = [Idle EXCEPT !.at = "has", !.name = q.name, !.addr = x]
        PROVE  IsAnswered(r, q, x)
    <2>1. r = [at |-> "has", todo |-> << >>, addr |-> x, name |-> q.name, waited |-> 0]
      BY <1>2 DEF Idle
    <2> QED BY <2>1 DEF IsAnswered, IsMoved, QueryLike, QueryStages
  <1> QED BY <1>1, <1>2

\* A query that takes another stage and another list of servers.
LEMMA QueryGoes ==
    ASSUME NEW q, QueryLike(q), NEW s \in QueryStages, NEW todo, NEW r,
           \/ r = [q EXCEPT !.at = s, !.todo = todo]
           \/ r = [Idle EXCEPT !.at = s, !.todo = todo, !.name = q.name]
    PROVE  IsMoved(r, q, s)
  <1>1. CASE r = [q EXCEPT !.at = s, !.todo = todo]
    <2>1. r = [at |-> s, todo |-> todo, addr |-> q.addr, name |-> q.name, waited |-> q.waited]
      BY <1>1 DEF QueryLike
    <2> QED BY <2>1 DEF IsMoved, QueryLike
  <1>2. CASE r = [Idle EXCEPT !.at = s, !.todo = todo, !.name = q.name]
    <2>1. r = [at |-> s, todo |-> todo, addr |-> NoAddr, name |-> q.name, waited |-> 0]
      BY <1>2 DEF Idle
    <2> QED BY <2>1 DEF IsMoved, QueryLike
  <1> QED BY <1>1, <1>2

\* An answer on its way.
IsOnTheWay(r, q, x) == IsMoved(r, q, "answered") /\ r.addr = x /\ r.waited = 0

\* A query a server has answered.
LEMMA QueryTaken ==
    ASSUME NEW q, QueryLike(q), NEW x
    PROVE  IsOnTheWay([q EXCEPT !.at = "answered", !.waited = 0, !.addr = x], q, x)
  <1>1. ASSUME NEW r, r = [q EXCEPT !.at = "answered", !.waited = 0, !.addr = x]
        PROVE  IsOnTheWay(r, q, x)
    <2>1. r = [at |-> "answered", todo |-> q.todo, addr |-> x, name |-> q.name, waited |-> 0]
      BY <1>1 DEF QueryLike
    <2> QED BY <2>1 DEF IsOnTheWay, IsMoved, QueryLike, QueryStages
  <1> QED BY <1>1

\* An address given to a stream is not too long gone.
NotGone(n, x) == had[n][x] <= Memory

(***************************************************************************)
(* What a step gives the streams: an address newly had is not long gone.    *)
(***************************************************************************)
GivesNoOldAddress ==
    \A a \in Apps, f \in Families :
        query'[a][f].at = "has" /\ query[a][f].at # "has"
            => NotGone(query[a][f].name, query'[a][f].addr)

\* At the start nothing is kept and nobody asks.
LEMMA CacheInit == Init => CacheInv
  <1> SUFFICES ASSUME Init PROVE CacheInv
    OBVIOUS
  <1>1. FlowTyped /\ TruthTyped
    BY WayInit DEF WayInv
  <1>2. CacheTyped
    BY MemoryIsLonger, SettingsAreNumbers DEF Init, ResInit, CacheTyped
  <1>3. HasItNow
    <2> SUFFICES ASSUME NEW n \in Names, NEW f \in Families, truth[n][f] # NoAddr
                 PROVE  had[n][truth[n][f]] = 0
      BY DEF HasItNow
    <2>1. truth[n][f] \in Places
      BY <1>1 DEF TruthTyped
    <2> QED BY <2>1 DEF Init, ResInit
  <1>4. Asked /\ OnTheWay
    BY DEF Init, ResInit, Asked, OnTheWay, Recent, Asking, NoQuery, Idle, QueryLike, QueryStages
  <1>5. cache \in Seq(GoodEntries(had))
    BY DEF Init, ResInit
  <1> QED BY <1>1, <1>2, <1>3, <1>4, <1>5 DEF CacheInv

\* Giving out an entry of the cache.
LEMMA HitKeeps ==
    ASSUME CacheInv, NEW c \in Apps, NEW f \in Families, Hit(c, f)
    PROVE  /\ Asked' /\ OnTheWay' /\ cache' \in Seq(GoodEntries(had))
           /\ GivesNoOldAddress
  <1> DEFINE q == query[c][f]
  <1>1. PICK i \in Live(q.name, f) :
            /\ query' = [query EXCEPT ![c][f].at = "has", ![c][f].addr = cache[i].addr]
            /\ cache' = <<cache[i]>> \o Without(q.name, f)
    BY DEF Hit
  <1>2. /\ cache[i] \in GoodEntries(had) /\ cache[i].addr \in Places
        /\ had[q.name][cache[i].addr] <= Memory
    BY LiveIsGood
  <1>3. cache' \in Seq(GoodEntries(had))
    BY <1>1, <1>2, WithoutIsGood, DroppingLeavesGood DEF CacheInv
  <1>4. QueryLike(q) /\ Asked /\ OnTheWay /\ had' = had
    BY DEF CacheInv, Asked, Hit
  <1> DEFINE r == [q EXCEPT !.at = "has", !.addr = cache[i].addr]
  <1>6. IsAnswered(r, q, cache[i].addr)
    <2> HIDE DEF q
    <2> QED BY <1>4, QueryAnswered
  <1>7. query' = [query EXCEPT ![c] = [query[c] EXCEPT ![f] = r]]
    BY <1>1, <1>4 DEF Asked
  <1> HIDE DEF r
  <1>8. /\ Asked' /\ OnTheWay' /\ query'[c][f] = r
        /\ \A d \in Apps, g \in Families : d # c \/ g # f => query'[d][g] = query[d][g]
    BY <1>4, <1>6, <1>7, QuerySet DEF IsMoved, IsAnswered, Recent, Asking
  <1>9. GivesNoOldAddress
    BY <1>2, <1>6, <1>8 DEF GivesNoOldAddress, NotGone, IsMoved, IsAnswered
  <1> QED BY <1>3, <1>8, <1>9

\* Finding nothing that is still good.
LEMMA MissKeeps ==
    ASSUME CacheInv, NEW c \in Apps, NEW f \in Families, Miss(c, f)
    PROVE  /\ Asked' /\ OnTheWay' /\ cache' \in Seq(GoodEntries(had))
           /\ GivesNoOldAddress
  <1> DEFINE q == query[c][f]
             s == IF servers = << >> THEN "fails" ELSE "asks"
             r == [q EXCEPT !.at = s, !.todo = servers]
  <1>1. cache' \in Seq(GoodEntries(had))
    BY WithoutIsGood DEF CacheInv, Miss
  <1>2. QueryLike(q) /\ Asked /\ OnTheWay /\ q.name \in Names /\ had' = had
    BY DEF CacheInv, Asked, Asking, Miss
  <1>3. s \in QueryStages /\ s \notin {"has", "answered"}
    BY DEF QueryStages
  <1>4. query' = [query EXCEPT ![c] = [query[c] EXCEPT ![f] = r]]
    BY <1>2 DEF Miss, Asked
  <1> HIDE DEF s
  <1>5. IsMoved(r, q, s)
    <2> DEFINE todo == servers
    <2>1. r = [q EXCEPT !.at = s, !.todo = todo]
      OBVIOUS
    <2> HIDE DEF r, q, todo
    <2> QED BY <1>2, <1>3, <2>1, QueryGoes
  <1> HIDE DEF r
  <1>6. /\ Asked' /\ OnTheWay' /\ query'[c][f] = r
        /\ \A d \in Apps, g \in Families : d # c \/ g # f => query'[d][g] = query[d][g]
    BY <1>2, <1>3, <1>4, <1>5, QuerySet DEF IsMoved, Recent
  <1>7. GivesNoOldAddress
    BY <1>3, <1>5, <1>6 DEF GivesNoOldAddress, IsMoved
  <1> QED BY <1>1, <1>6, <1>7

\* A server that does not help.
LEMMA GoesOnKeeps ==
    ASSUME CacheInv, NEW c \in Apps, NEW f \in Families, GoesOn(c, f)
    PROVE  Asked' /\ OnTheWay' /\ GivesNoOldAddress
  <1> DEFINE q == query[c][f]
             s == IF Len(q.todo) = 1 THEN "fails" ELSE "asks"
             r == [Idle EXCEPT !.at = s, !.todo = Tail(q.todo), !.name = q.name]
  <1>2. QueryLike(q) /\ Asked /\ OnTheWay /\ q.name \in Names /\ had' = had
    BY DEF CacheInv, Asked, Asking, GoesOn
  <1>3. s \in QueryStages /\ s \notin {"has", "answered"}
    BY DEF QueryStages
  <1>4. query' = [query EXCEPT ![c] = [query[c] EXCEPT ![f] = r]]
    BY <1>2 DEF GoesOn, Asked
  <1> HIDE DEF s
  <1>5. IsMoved(r, q, s)
    <2> DEFINE todo == Tail(q.todo)
    <2>1. r = [Idle EXCEPT !.at = s, !.todo = todo, !.name = q.name]
      OBVIOUS
    <2> HIDE DEF r, q, todo
    <2> QED BY <1>2, <1>3, <2>1, QueryGoes
  <1> HIDE DEF r
  <1>6. /\ Asked' /\ OnTheWay' /\ query'[c][f] = r
        /\ \A d \in Apps, g \in Families : d # c \/ g # f => query'[d][g] = query[d][g]
    BY <1>2, <1>3, <1>4, <1>5, QuerySet DEF IsMoved, Recent
  <1>7. GivesNoOldAddress
    BY <1>3, <1>5, <1>6 DEF GivesNoOldAddress, IsMoved
  <1> QED BY <1>6, <1>7

\* A server answers: the name has the address at that moment.
LEMMA ServerAnswersKeeps ==
    ASSUME CacheInv, NEW c \in Apps, NEW f \in Families, ServerAnswers(c, f)
    PROVE  Asked' /\ OnTheWay' /\ GivesNoOldAddress
  <1> DEFINE q == query[c][f]
             x == truth[q.name][f]
             r == [q EXCEPT !.at = "answered", !.waited = 0, !.addr = x]
  <1>1. QueryLike(q) /\ Asked /\ OnTheWay /\ q.name \in Names /\ had' = had
    BY DEF CacheInv, Asked, Asking, ServerAnswers
  <1>2. x \in Places /\ had[q.name][x] = 0
    BY <1>1 DEF CacheInv, TruthTyped, HasItNow, ServerAnswers
  <1>3. query' = [query EXCEPT ![c] = [query[c] EXCEPT ![f] = r]]
    BY <1>1 DEF ServerAnswers, Asked
  <1> HIDE DEF x
  <1>5. IsOnTheWay(r, q, x)
    <2> HIDE DEF q
    <2> QED BY <1>1, QueryTaken
  <1> HIDE DEF r
  <1>6. Recent(r)
    BY <1>2, <1>5, MemoryIsLonger DEF Recent, IsMoved, IsOnTheWay
  <1>7. /\ Asked' /\ OnTheWay' /\ query'[c][f] = r
        /\ \A d \in Apps, g \in Families : d # c \/ g # f => query'[d][g] = query[d][g]
    BY <1>1, <1>3, <1>5, <1>6, QuerySet DEF IsMoved, IsOnTheWay
  <1>8. GivesNoOldAddress
    BY <1>5, <1>7 DEF GivesNoOldAddress, IsMoved, IsOnTheWay
  <1> QED BY <1>7, <1>8

\* A server's answer, kept and given on.
LEMMA RepliesKeeps ==
    ASSUME CacheInv, NEW c \in Apps, NEW f \in Families, NEW ttl \in Ttls, Replies(c, f, ttl)
    PROVE  /\ Asked' /\ OnTheWay' /\ cache' \in Seq(GoodEntries(had))
           /\ GivesNoOldAddress
  <1> DEFINE q == query[c][f]
             x == q.addr
             e == [name |-> q.name, family |-> f, addr |-> x, left |-> Clamp(conf, Named(ttl))]
             r == [Idle EXCEPT !.at = "has", !.name = q.name, !.addr = x]
  <1>1. QueryLike(q) /\ Asked /\ OnTheWay /\ q.name \in Names /\ had' = had
    BY DEF CacheInv, Asked, Asking, Replies
  <1>2. x \in Places /\ had[q.name][x] \in Nat /\ had[q.name][x] <= Patience
    <2>1. Recent(q) /\ q.at = "answered"
      BY <1>1 DEF OnTheWay, Replies
    <2>2. q.addr \in Places /\ q.waited \in Nat /\ q.waited <= Patience
          /\ had[q.name][q.addr] <= q.waited
      BY <2>1 DEF Recent
    <2>3. had[q.name][q.addr] \in Nat
      BY <1>1, <2>2 DEF CacheInv, CacheTyped
    <2> HIDE DEF q
    <2> QED BY <2>2, <2>3, MemoryIsLonger
  <1>3. Clamp(conf, Named(ttl)) \in Nat /\ Clamp(conf, Named(ttl)) <= Longest
    BY LongestIsLongest DEF CacheInv, CacheTyped
  <1>4. e \in GoodEntries(had)
    <2> HIDE DEF q
    <2>1. e \in Entries
      BY <1>1, <1>2, <1>3 DEF Entries
    <2>2. had[q.name][x] + Clamp(conf, Named(ttl)) <= Memory
      BY <1>2, <1>3, MemoryIsLonger
    <2> QED BY <2>1, <2>2 DEF GoodEntries
  <1>5. Put(q.name, f, x, ttl)
    BY DEF Replies
  <1>6. cache' \in Seq(GoodEntries(had))
    <2>1. cache' = IF conf.entries = 0 THEN cache
                   ELSE Trimmed(<<e>> \o Without(q.name, f), conf.entries)
      BY <1>5 DEF Put
    <2>2. conf.entries \in Nat /\ cache \in Seq(GoodEntries(had))
      BY DEF CacheInv, CacheTyped
    <2> HIDE DEF e, q, x
    <2>3. Without(q.name, f) \in Seq(GoodEntries(had))
      BY <2>2, WithoutIsGood
    <2>4. <<e>> \o Without(q.name, f) \in Seq(GoodEntries(had))
      BY <1>4, <2>3, DroppingLeavesGood
    <2>5. Trimmed(<<e>> \o Without(q.name, f), conf.entries) \in Seq(GoodEntries(had))
      BY <2>2, <2>4, DroppingLeavesGood
    <2> QED BY <2>1, <2>2, <2>5
  <1>8. query' = [query EXCEPT ![c] = [query[c] EXCEPT ![f] = r]]
    BY <1>1 DEF Replies, Asked
  <1> HIDE DEF x
  <1>9. IsAnswered(r, q, x)
    <2> HIDE DEF q
    <2> QED BY <1>1, QueryAnswered
  <1> HIDE DEF r, e
  <1>10. /\ Asked' /\ OnTheWay' /\ query'[c][f] = r
         /\ \A d \in Apps, g \in Families : d # c \/ g # f => query'[d][g] = query[d][g]
    BY <1>1, <1>8, <1>9, QuerySet DEF IsMoved, IsAnswered, Recent, Asking
  <1>11. GivesNoOldAddress
    BY <1>2, <1>9, <1>10, MemoryIsLonger
    DEF GivesNoOldAddress, NotGone, IsMoved, IsAnswered
  <1> QED BY <1>6, <1>10, <1>11

\* Time passes: an entry loses a tick when an absence gains one.
LEMMA TickKeeps ==
    ASSUME CacheInv, ResTick
    PROVE  CacheTyped' /\ HasItNow' /\ Asked' /\ OnTheWay' /\ cache' \in Seq(GoodEntries(had'))
  <1> USE DEF CacheInv
  <1>1. had' \in [Names -> [Places -> Nat]]
    BY MemoryIsLonger DEF ResTick, CacheTyped
  <1>2. \A n \in Names, x \in Places : had'[n][x] <= had[n][x] + 1
    <2> SUFFICES ASSUME NEW n \in Names, NEW x \in Places
                 PROVE  had'[n][x] <= had[n][x] + 1
      OBVIOUS
    <2>1. had[n][x] \in Nat
      BY DEF CacheTyped
    <2> QED BY <2>1 DEF ResTick
  <1>3. HasItNow'
    <2> SUFFICES ASSUME NEW n \in Names, NEW f \in Families, truth'[n][f] # NoAddr
                 PROVE  had'[n][truth'[n][f]] = 0
      BY DEF HasItNow
    <2>1. truth' = truth /\ truth[n][f] \in Places
      BY DEF ResTick, TruthTyped
    <2> QED BY <2>1 DEF ResTick
  <1>4. cache' \in Seq(GoodEntries(had'))
    <2> DEFINE aged(e) == [e EXCEPT !.left = IF e.left > 0 THEN e.left - 1 ELSE 0]
    <2>1. \A e \in GoodEntries(had) : aged(e) \in GoodEntries(had')
      <3> SUFFICES ASSUME NEW e \in GoodEntries(had) PROVE aged(e) \in GoodEntries(had')
        OBVIOUS
      <3>1. e \in Entries /\ (e.left > 0 => had[e.name][e.addr] + e.left <= Memory)
        BY DEF GoodEntries
      <3>2. /\ e.name \in Names /\ e.addr \in Places /\ e.family \in Families /\ e.left \in Nat
            /\ aged(e) = [name |-> e.name, family |-> e.family, addr |-> e.addr,
                          left |-> IF e.left > 0 THEN e.left - 1 ELSE 0]
        BY <3>1 DEF Entries
      <3> DEFINE b == aged(e)
      <3>3. /\ b.name = e.name /\ b.addr = e.addr /\ b \in Entries
            /\ b.left = IF e.left > 0 THEN e.left - 1 ELSE 0
        BY <3>2 DEF Entries
      <3> HIDE DEF b
      <3>4. b.left > 0 => had'[b.name][b.addr] + b.left <= Memory
        <4>1. /\ had[e.name][e.addr] \in Nat /\ had'[e.name][e.addr] \in Nat
              /\ had'[e.name][e.addr] <= had[e.name][e.addr] + 1
          BY <1>1, <1>2, <3>2 DEF CacheTyped
        <4> QED BY <4>1, <3>1, <3>2, <3>3, MemoryIsLonger
      <3>5. b \in GoodEntries(had')
        BY <3>3, <3>4 DEF GoodEntries
      <3> QED BY <3>5 DEF b
    <2>2. cache' = [i \in DOMAIN cache |-> aged(cache[i])]
      BY DEF ResTick
    <2> HIDE DEF aged
    <2>3. /\ Len(cache) \in Nat /\ DOMAIN cache = 1..Len(cache)
          /\ \A i \in 1..Len(cache) : cache[i] \in GoodEntries(had)
      BY LenProperties, ElementOfSeq
    <2>4. cache' \in [1..Len(cache) -> GoodEntries(had')]
      BY <2>1, <2>2, <2>3
    <2> QED BY <2>3, <2>4, SeqDef
  <1>5. CacheTyped'
    BY <1>1 DEF CacheTyped, ResTick
  <1>6. \A c \in Apps, f \in Families :
            IF query[c][f].at = "answered"
            THEN query'[c][f] = [query[c][f] EXCEPT !.waited = query[c][f].waited + 1]
            ELSE query'[c][f] = query[c][f]
    BY DEF ResTick
  <1>7. Asked'
    <2>1. query' = [c \in Apps |-> [f \in Families |-> query'[c][f]]]
      BY DEF ResTick
    <2>2. ASSUME NEW c \in Apps, NEW f \in Families
          PROVE  QueryLike(query'[c][f]) /\ query'[c][f].at = query[c][f].at
                 /\ query'[c][f].name = query[c][f].name
      <3> DEFINE q == query[c][f]
                 r == query'[c][f]
      <3>1. QueryLike(q)
        BY DEF Asked
      <3>2. r = q \/ r = [q EXCEPT !.waited = q.waited + 1]
        BY <1>6
      <3> HIDE DEF q, r
      <3>3. r = q \/ r = [at |-> q.at, todo |-> q.todo, addr |-> q.addr, name |-> q.name,
                          waited |-> q.waited + 1]
        BY <3>1, <3>2 DEF QueryLike
      <3>4. QueryLike(r) /\ r.at = q.at /\ r.name = q.name
        BY <3>1, <3>3 DEF QueryLike
      <3> QED BY <3>4 DEF q, r
    <2> QED BY <2>1, <2>2 DEF Asked
  <1>8. OnTheWay'
    <2> SUFFICES ASSUME NEW c \in Apps, NEW f \in Families, query'[c][f].at = "answered"
                 PROVE  Recent(query[c][f])'
      BY DEF OnTheWay, Recent
    <2> DEFINE q == query[c][f]
               r == query'[c][f]
    <2>1. QueryLike(q) /\ Recent(q)
      BY DEF Asked, OnTheWay
    <2>2. q.at = "answered" /\ r = [q EXCEPT !.waited = q.waited + 1]
      BY <1>6
    <2>3. /\ q.addr \in Places /\ q.waited \in Nat /\ had[q.name][q.addr] <= q.waited
          /\ q.name \in Names
      BY <2>1, <2>2 DEF Recent, Asked, Asking
    <2>4. q.waited < Patience
      BY <2>2 DEF ResTick, InTime
    <2>5. /\ had[q.name][q.addr] \in Nat /\ had'[q.name][q.addr] \in Nat
          /\ had'[q.name][q.addr] <= had[q.name][q.addr] + 1
      BY <1>1, <1>2, <2>3 DEF CacheTyped
    <2> HIDE DEF q
    <2>6. r = [at |-> q.at, todo |-> q.todo, addr |-> q.addr, name |-> q.name,
               waited |-> q.waited + 1]
      BY <2>1, <2>2 DEF QueryLike
    <2> HIDE DEF r
    <2>7. /\ r.addr \in Places /\ r.waited \in Nat /\ r.waited <= Patience
          /\ had'[r.name][r.addr] <= r.waited
      BY <2>3, <2>4, <2>5, <2>6, MemoryIsLonger
    <2> QED BY <2>7 DEF Recent, r
  <1> QED BY <1>3, <1>4, <1>5, <1>7, <1>8

\* A name moves: the address it moves to is had from now on.
LEMMA MovesKeeps ==
    ASSUME CacheInv, NEW n \in Names, NEW f \in Families, NEW x \in Places \cup {NoAddr},
           Moves(n, f, x)
    PROVE  CacheTyped' /\ HasItNow' /\ Asked' /\ OnTheWay' /\ cache' \in Seq(GoodEntries(had'))
  <1> USE DEF CacheInv
  <1>1. /\ had' \in [Names -> [Places -> Nat]]
        /\ \A m \in Names, y \in Places : had'[m][y] <= had[m][y]
    <2>1. had \in [Names -> [Places -> Nat]] /\ had' = [had EXCEPT ![n][x] = 0]
      BY DEF CacheTyped, Moves
    <2>2. [had[n] EXCEPT ![x] = 0] \in [Places -> Nat]
      BY <2>1
    <2>3. had' \in [Names -> [Places -> Nat]]
      BY <2>1, <2>2
    <2>4. ASSUME NEW m \in Names, NEW y \in Places PROVE had'[m][y] <= had[m][y]
      <3>1. had[m][y] \in Nat
        BY <2>1
      <3> QED BY <2>1, <3>1
    <2> QED BY <2>3, <2>4
  <1>2. CacheTyped'
    BY <1>1 DEF CacheTyped, Moves
  <1>3. HasItNow'
    <2> SUFFICES ASSUME NEW m \in Names, NEW g \in Families, truth'[m][g] # NoAddr
                 PROVE  had'[m][truth'[m][g]] = 0
      BY DEF HasItNow
    <2>1. /\ truth \in [Names -> [Families -> Places \cup {NoAddr}]]
          /\ truth' = [truth EXCEPT ![n][f] = x] /\ had' = [had EXCEPT ![n][x] = 0]
          /\ had \in [Names -> [Places -> Nat]]
      BY DEF TruthTyped, CacheTyped, Moves
    <2>2. CASE m = n /\ g = f
      <3>1. truth'[m][g] = x /\ x \in Places
        BY <2>1, <2>2
      <3> QED BY <2>1, <2>2, <3>1
    <2>3. CASE ~(m = n /\ g = f)
      <3>1. truth'[m][g] = truth[m][g] /\ truth[m][g] \in Places
        BY <2>1, <2>3
      <3>2. had[m][truth[m][g]] = 0
        BY <3>1 DEF HasItNow
      <3>3. had'[m][truth[m][g]] \in Nat /\ had'[m][truth[m][g]] <= 0
        BY <1>1, <3>1, <3>2
      <3> QED BY <3>1, <3>3
    <2> QED BY <2>2, <2>3
  <1>4. GoodEntries(had) \subseteq GoodEntries(had')
    <2> SUFFICES ASSUME NEW e \in GoodEntries(had) PROVE e \in GoodEntries(had')
      OBVIOUS
    <2>1. /\ e \in Entries /\ e.name \in Names /\ e.addr \in Places /\ e.left \in Nat
          /\ e.left > 0 => had[e.name][e.addr] + e.left <= Memory
      BY DEF GoodEntries, Entries
    <2>2. /\ had[e.name][e.addr] \in Nat /\ had'[e.name][e.addr] \in Nat
          /\ had'[e.name][e.addr] <= had[e.name][e.addr]
      BY <1>1, <2>1 DEF CacheTyped
    <2> QED BY <2>1, <2>2, MemoryIsLonger DEF GoodEntries
  <1>5. cache' \in Seq(GoodEntries(had'))
    <2>1. cache' = cache /\ cache \in Seq(GoodEntries(had))
      BY DEF Moves
    <2>2. /\ Len(cache) \in Nat /\ DOMAIN cache = 1..Len(cache)
          /\ cache \in [1..Len(cache) -> GoodEntries(had)]
      BY <2>1, LenProperties
    <2>3. cache \in [1..Len(cache) -> GoodEntries(had')]
      BY <1>4, <2>2
    <2> QED BY <2>1, <2>2, <2>3, SeqDef
  <1>6. Asked' /\ query' = query
    BY DEF Asked, Moves
  <1>7. OnTheWay'
    <2> SUFFICES ASSUME NEW c \in Apps, NEW g \in Families, query[c][g].at = "answered"
                 PROVE  Recent(query[c][g])'
      BY <1>6 DEF OnTheWay, Recent
    <2> DEFINE q == query[c][g]
    <2>1. Recent(q) /\ q.name \in Names
      BY DEF Asked, Asking, OnTheWay
    <2>2. q.addr \in Places /\ q.waited \in Nat /\ q.waited <= Patience
          /\ had[q.name][q.addr] <= q.waited
      BY <2>1 DEF Recent
    <2>3. /\ had[q.name][q.addr] \in Nat /\ had'[q.name][q.addr] \in Nat
          /\ had'[q.name][q.addr] <= had[q.name][q.addr]
      BY <1>1, <2>1, <2>2 DEF CacheTyped
    <2>4. query'[c][g] = q
      BY <1>6
    <2> HIDE DEF q
    <2>5. had'[q.name][q.addr] <= q.waited
      BY <2>2, <2>3
    <2> QED BY <2>2, <2>4, <2>5 DEF Recent
  <1> QED BY <1>2, <1>3, <1>5, <1>6, <1>7

\* The settings of the network, in their two halves, and a reset.
LEMMA WatchKeeps ==
    ASSUME CacheInv, WatchDNS
    PROVE  CacheTyped' /\ UNCHANGED <<truth, had, query>> /\ cache' \in Seq(GoodEntries(had))
  <1> USE DEF CacheInv
  <1>1. ASSUME NEW k \in Settings, Configure(k)
        PROVE  CacheTyped' /\ UNCHANGED <<truth, had, query>> /\ cache' \in Seq(GoodEntries(had))
    BY <1>1 DEF Configure, CacheTyped
  <1>2. CASE Flush
    BY <1>2 DEF Flush, CacheTyped
  <1>3. CASE ConfigureCache
    <2>1. half \in Settings /\ half.cache \in [entries : Nat, min : Nat, max : Nat]
      BY <1>3, SettingsAreNumbers DEF ConfigureCache, CacheTyped
    <2>2. CacheTyped'
      BY <1>3, <2>1 DEF ConfigureCache, CacheTyped
    <2>3. cache' \in Seq(GoodEntries(had))
      BY <1>3, <2>1, DroppingLeavesGood DEF ConfigureCache
    <2> QED BY <1>3, <2>2, <2>3 DEF ConfigureCache
  <1> QED BY <1>1, <1>2, <1>3 DEF WatchDNS

\* A step that leaves the node's resolver alone gives nobody an address.
LEMMA ResolverRests ==
    ASSUME CacheInv, UNCHANGED nodeVars, WayInv'
    PROVE  CacheInv' /\ GivesNoOldAddress
  BY DEF CacheInv, WayInv, nodeVars, CacheTyped, HasItNow, Asked, OnTheWay, Recent,
         GivesNoOldAddress

\* Every step keeps the cache's invariant and gives no address too long gone.
LEMMA CacheStep == CacheInv /\ WayInv /\ WayInv' /\ [Next]_vars => CacheInv' /\ GivesNoOldAddress
  <1> SUFFICES ASSUME CacheInv, WayInv, WayInv', [Next]_vars
               PROVE  CacheInv' /\ GivesNoOldAddress
    OBVIOUS
  <1>0. FlowTyped' /\ TruthTyped'
    BY DEF WayInv
  <1>1. ASSUME UNCHANGED nodeVars PROVE CacheInv' /\ GivesNoOldAddress
    BY <1>1, ResolverRests
  <1>2. ASSUME NEW a \in Apps, Resolves(a) PROVE CacheInv' /\ GivesNoOldAddress
    <2>1. Begin(a, flow[a].name) /\ flow[a].name \in Names
      BY <1>2 DEF Resolves, CacheInv, FlowTyped, Flows
    <2> DEFINE n == flow[a].name
               q == [Idle EXCEPT !.at = "get", !.name = n]
    <2>2. QueryLike(q) /\ q.at = "get" /\ q.name = n
      BY DEF QueryLike, Idle, QueryStages
    <2>3. query' = [query EXCEPT ![a] = [f \in Families |-> q]]
      BY <2>1 DEF Begin
    <2> HIDE DEF q
    <2>4. /\ \A c \in Apps, f \in Families :
                query'[c][f] = IF c = a THEN q ELSE query[c][f]
          /\ query' = [c \in Apps |-> [f \in Families |-> query'[c][f]]]
      BY <2>3 DEF CacheInv, Asked
    <2>5. Asked' /\ OnTheWay'
      BY <1>2, <2>1, <2>2, <2>4 DEF CacheInv, Asked, OnTheWay, Recent, Resolves
    <2>6. GivesNoOldAddress
      BY <2>2, <2>4 DEF GivesNoOldAddress
    <2> QED BY <1>0, <1>2, <2>5, <2>6 DEF Resolves, CacheInv, CacheTyped, HasItNow
  <1>3. ASSUME NEW a \in Apps, Waits(a) PROVE CacheInv' /\ GivesNoOldAddress
    <2>1. PICK f \in Families :
              \/ Hit(a, f) \/ Miss(a, f) \/ ServerAnswers(a, f) \/ GoesOn(a, f)
              \/ \E ttl \in Ttls : Replies(a, f, ttl)
      BY <1>3 DEF Waits
    <2>2. UNCHANGED <<truth, had, conf, half>>
      BY <2>1 DEF Hit, Miss, GoesOn, ServerAnswers, Replies
    <2>3. /\ Asked' /\ OnTheWay' /\ cache' \in Seq(GoodEntries(had))
          /\ GivesNoOldAddress
      <3>1. CASE GoesOn(a, f)
        BY <3>1, GoesOnKeeps DEF GoesOn, CacheInv
      <3>2. CASE Hit(a, f)
        BY <3>2, HitKeeps
      <3>3. CASE Miss(a, f)
        BY <3>3, MissKeeps
      <3>4. CASE \E ttl \in Ttls : Replies(a, f, ttl)
        BY <3>4, RepliesKeeps
      <3>5. CASE ServerAnswers(a, f)
        BY <3>5, ServerAnswersKeeps DEF ServerAnswers, CacheInv
      <3> QED BY <2>1, <3>1, <3>2, <3>3, <3>4, <3>5
    <2> QED BY <1>0, <2>2, <2>3 DEF CacheInv, CacheTyped, HasItNow
  <1>4. ASSUME NEW a \in Apps, Dials(a) PROVE CacheInv' /\ GivesNoOldAddress
    <2>1. query' = [query EXCEPT ![a] = NoQuery]
      BY <1>4 DEF Dials, Done
    <2>2. /\ \A c \in Apps, f \in Families :
                query'[c][f] = IF c = a THEN Idle ELSE query[c][f]
          /\ query' = [c \in Apps |-> [f \in Families |-> query'[c][f]]]
      BY <2>1 DEF CacheInv, Asked, NoQuery
    <2>3. QueryLike(Idle) /\ Idle.at = "none"
      BY DEF QueryLike, Idle, QueryStages
    <2>4. Asked' /\ OnTheWay' /\ GivesNoOldAddress
      BY <1>4, <2>2, <2>3
      DEF CacheInv, Asked, Asking, OnTheWay, Recent, GivesNoOldAddress, Dials
    <2> QED BY <1>0, <1>4, <2>4 DEF Dials, CacheInv, CacheTyped, HasItNow
  <1>5. CASE WatchDNS
    <2>1. CacheTyped' /\ UNCHANGED <<truth, had, query>> /\ cache' \in Seq(GoodEntries(had))
      BY <1>5, WatchKeeps
    <2> QED BY <1>0, <2>1 DEF CacheInv, HasItNow, Asked, OnTheWay, Recent, GivesNoOldAddress
  <1>6. CASE World
    <2>1. PICK n \in Names, f \in Families : \E x \in PlacesOf[n][f] : Moves(n, f, x)
      BY <1>6 DEF World
    <2>2. PICK x \in PlacesOf[n][f] : Moves(n, f, x)
      BY <2>1
    <2>3. x \in Places \cup {NoAddr}
      BY TheWorldIsKnown
    <2>4. CacheTyped' /\ HasItNow' /\ Asked' /\ OnTheWay' /\ cache' \in Seq(GoodEntries(had'))
      BY <2>2, <2>3, MovesKeeps
    <2>5. query' = query
      BY <2>2 DEF Moves
    <2> QED BY <1>0, <2>4, <2>5 DEF CacheInv, GivesNoOldAddress
  <1>7. CASE Tick
    <2>1. CacheTyped' /\ HasItNow' /\ Asked' /\ OnTheWay' /\ cache' \in Seq(GoodEntries(had'))
      BY <1>7, TickKeeps DEF Tick
    <2>2. \A a \in Apps, f \in Families : query'[a][f].at = "has" => query[a][f].at = "has"
      <3> SUFFICES ASSUME NEW a \in Apps, NEW f \in Families, query[a][f].at # "has"
                   PROVE  query'[a][f].at # "has"
        OBVIOUS
      <3> DEFINE q == query[a][f]
                 r == query'[a][f]
      <3>1. QueryLike(q) /\ q.at # "has"
        BY DEF CacheInv, Asked
      <3>2. r = q \/ (q.at = "answered" /\ r = [q EXCEPT !.waited = q.waited + 1])
        BY <1>7 DEF Tick, ResTick
      <3> HIDE DEF q, r
      <3>3. r.at # "has"
        BY <3>1, <3>2 DEF QueryLike
      <3> QED BY <3>3 DEF r
    <2> QED BY <1>0, <2>1, <2>2 DEF CacheInv, GivesNoOldAddress
  <1>8. CASE UNCHANGED vars
    BY <1>1, <1>8 DEF vars, nodeVars
  <1> QED BY <1>1, <1>2, <1>3, <1>4, <1>5, <1>6, <1>7, <1>8
          DEF Next, Ask, Starts, Handles, Learned, Learns, Socks, SetRules, SetSets, SetFallback

(***************************************************************************)
(* An address given to a stream is one the name has now, or had not longer  *)
(* ago than an answer may travel and then be kept under any settings of the *)
(* network.                                                                 *)
(***************************************************************************)
THEOREM NoAddressLongGone == Spec => NotLongGone
  <1>1. GivesNoOldAddress
            => \A a \in Apps, f \in Families :
                  query'[a][f].at = "has" /\ query[a][f].at # "has"
                      => had[query[a][f].name][query'[a][f].addr] <= Memory
    BY DEF GivesNoOldAddress, NotGone
  <1>2. Init => WayInv /\ CacheInv
    BY WayInit, CacheInit
  <1>3. WayInv /\ CacheInv /\ [Next]_vars => WayInv' /\ CacheInv' /\ GivesNoOldAddress
    BY WayStep, CacheStep
  <1> QED BY <1>1, <1>2, <1>3, PTL DEF Spec, NotLongGone

(***************************************************************************)
(* The rules in force are a list that was compiled.                         *)
(***************************************************************************)
EngineInv ==
    /\ engine = [rules |-> engine.rules, sets |-> engine.sets, fallback |-> engine.fallback]
    /\ InOrder(engine.rules)

\* The rules of the start.
LEMMA EngineInit == Init => EngineInv
  <1> SUFFICES ASSUME Init PROVE EngineInv
    OBVIOUS
  <1>1. PICK l \in RuleLists :
            engine = [rules |-> Compile(l), sets |-> NoSets, fallback |-> StartsVia]
    BY DEF Init
  <1>2. InOrder(Compile(l))
    BY RulesAreListed, CompileKeepsTheOrder
  <1> QED BY <1>1, <1>2 DEF EngineInv

\* New rules are compiled like the first ones, the rest does not touch them.
LEMMA EngineStep == EngineInv /\ [Next]_vars => EngineInv'
  <1> SUFFICES ASSUME EngineInv, [Next]_vars PROVE EngineInv'
    OBVIOUS
  <1>1. CASE UNCHANGED engine
    BY <1>1 DEF EngineInv
  <1>2. ASSUME NEW l \in RuleLists, SetRules(l) PROVE EngineInv'
    <2>1. InOrder(Compile(l))
      BY RulesAreListed, CompileKeepsTheOrder
    <2>2. engine' = [rules |-> Compile(l), sets |-> engine.sets, fallback |-> engine.fallback]
      BY <1>2 DEF SetRules, EngineInv
    <2> QED BY <2>1, <2>2 DEF EngineInv
  <1>3. ASSUME NEW s, SetSets(s) PROVE EngineInv'
    <2>1. engine' = [rules |-> engine.rules, sets |-> s, fallback |-> engine.fallback]
      BY <1>3 DEF SetSets, EngineInv
    <2> QED BY <2>1 DEF EngineInv
  <1>4. ASSUME NEW b, SetFallback(b) PROVE EngineInv'
    <2>1. engine' = [rules |-> engine.rules, sets |-> engine.sets, fallback |-> b]
      BY <1>4 DEF SetFallback, EngineInv
    <2> QED BY <2>1 DEF EngineInv
  <1> QED BY <1>1, <1>2, <1>3, <1>4
          DEF Next, vars, Ask, Starts, Handles, Learned, Learns, Socks, Resolves, Waits,
              Dials, WatchDNS, World, Tick, engineVars, clientVars

(***************************************************************************)
(* From every change of the rules, the databases or the switch on, the walk *)
(* over the rules gives every flow the way the screen promises, whatever    *)
(* rules there are and in whatever order they were written.                 *)
(***************************************************************************)
THEOREM TheStrongestDecides == Spec => DecidesByTheStrongest
  <1>1. ASSUME EngineInv', NEW f \in EveryFlow
        PROVE  LET d == Decide(engine', f)
               IN  [action |-> d.action, number |-> d.number] = Promised(engine', f)
    <2>1. InOrder(engine'.rules)
      BY <1>1 DEF EngineInv
    <2> QED BY <2>1, DecideIsPromised
  <1>2. EngineInv' => (engine' # engine =>
          \A f \in EveryFlow :
              LET d == Decide(engine', f)
              IN  [action |-> d.action, number |-> d.number] = Promised(engine', f))
    BY <1>1
  <1> QED BY <1>2, EngineInit, EngineStep, PTL DEF Spec, DecidesByTheStrongest
=============================================================================

------------------------- MODULE ReplicationProofs -------------------------
(***************************************************************************)
(* Replication, for any devices, servers, keys and edits, and however      *)
(* often the answer of an adopted node is lost.  That everything said here *)
(* is of the records of one network follows from the genesis, which there  *)
(* is one of.                                                              *)
(***************************************************************************)
EXTENDS Replication, OplogProofs

\* One record more, if it is of R.
Sifted(before, op, R) == IF op \in R THEN Append(before, op) ELSE before

\* f holds the records of R among the first 0, 1, ..., n of s.
Sift(f, n, s, R) ==
    f = [i \in 0..n |-> IF i = 0 THEN <<>> ELSE Sifted(f[i-1], s[i], R)]

\* The steps of Within are well defined.
LEMMA SiftExists ==
    ASSUME NEW s, NEW R, NEW n \in Nat
    PROVE  \E f : Sift(f, n, s, R)
<1> DEFINE T == {k \in Nat : ~ \E f : Sift(f, k, s, R)}
<1> SUFFICES ASSUME T # {} PROVE FALSE
  OBVIOUS
<1>1. PICK m \in T : \A k \in T : m <= k
  <2> HIDE DEF T
  <2>1. T \subseteq Nat
    BY DEF T
  <2> QED
    BY <2>1, LeastNatural
<1>2. m # 0
  <2>1. Sift([i \in 0..0 |-> <<>>], 0, s, R)
    BY DEF Sift
  <2> QED
    BY <1>1, <2>1
<1>3. m - 1 \in Nat /\ m - 1 \notin T
  BY <1>1, <1>2
<1>4. PICK f : Sift(f, m - 1, s, R)
  BY <1>3
<1> DEFINE g == [i \in 0..m |-> IF i = 0 THEN <<>> ELSE Sifted(f[i-1], s[i], R)]
<1>5. \A i \in 0..(m-1) : g[i] = f[i]
  BY <1>3, <1>4 DEF Sift
<1>6. Sift(g, m, s, R)
  <2>1. \A i \in 0..m : i # 0 => g[i-1] = f[i-1]
    <3>1. m \in Nat /\ \A i \in 0..m : i # 0 => i - 1 \in 0..(m-1)
      BY <1>1
    <3> HIDE DEF g
    <3> QED
      BY <1>5, <3>1
  <2> QED
    BY <2>1 DEF Sift
<1> QED
  BY <1>1, <1>6

\* Within makes such steps.
LEMMA WithinIs ==
    ASSUME NEW s, NEW R, Len(s) \in Nat
    PROVE  \E f : Sift(f, Len(s), s, R) /\ Within(s, R) = f[Len(s)]
<1>1. PICK f : Sift(f, Len(s), s, R)
  BY SiftExists
<1>2. Within(s, R) = (CHOOSE g : Sift(g, Len(s), s, R))[Len(s)]
  BY DEF Sift, Sifted, Within
<1> QED
  BY <1>1, <1>2

\* The first n of s and t are the same, and so are those of R and of Q.
Alike(s, t, R, Q, n) == \A i \in 1..n : t[i] = s[i] /\ (s[i] \in R <=> t[i] \in Q)

\* Where the records are the same, so is what is kept of them.
LEMMA SiftSame ==
    ASSUME NEW s, NEW t, NEW R, NEW Q, NEW n \in Nat, NEW m \in Nat, n <= m,
           Alike(s, t, R, Q, n),
           NEW f, NEW g, Sift(f, n, s, R), Sift(g, m, t, Q)
    PROVE  \A i \in 0..n : f[i] = g[i]
<1> DEFINE T == {i \in 0..n : f[i] # g[i]}
<1> SUFFICES ASSUME T # {} PROVE FALSE
  OBVIOUS
<1>1. PICK k \in T : \A i \in T : k <= i
  <2> HIDE DEF T
  <2>1. T \subseteq Nat
    BY DEF T
  <2> QED
    BY <2>1, LeastNatural
<1>2. k \in 0..n /\ k \in 0..m
  BY <1>1
<1>3. k # 0
  BY <1>1, <1>2 DEF Sift
<1>4. f[k-1] = g[k-1]
  BY <1>1, <1>3
<1>5. f[k] = Sifted(f[k-1], s[k], R) /\ g[k] = Sifted(g[k-1], t[k], Q)
  BY <1>2, <1>3 DEF Sift
<1>6. t[k] = s[k] /\ (s[k] \in R <=> t[k] \in Q)
  BY <1>2, <1>3 DEF Alike
<1> QED
  BY <1>1, <1>4, <1>5, <1>6 DEF Sifted

\* Nothing is within an empty sequence,
LEMMA WithinEmpty ==
    ASSUME NEW R
    PROVE  Within(<<>>, R) = <<>>
<1>1. PICK f : Sift(f, Len(<<>>), <<>>, R) /\ Within(<<>>, R) = f[Len(<<>>)]
  BY WithinIs
<1> QED
  BY <1>1 DEF Sift

\* of two sets with the same records of s the same is within,
LEMMA WithinSame ==
    ASSUME NEW S, NEW s \in Seq(S), NEW R, NEW Q,
           \A i \in 1..Len(s) : s[i] \in R <=> s[i] \in Q
    PROVE  Within(s, R) = Within(s, Q)
<1>1. Len(s) \in Nat /\ Len(s) \in 0..Len(s)
  OBVIOUS
<1>2. PICK f : Sift(f, Len(s), s, R) /\ Within(s, R) = f[Len(s)]
  BY <1>1, WithinIs
<1>3. PICK g : Sift(g, Len(s), s, Q) /\ Within(s, Q) = g[Len(s)]
  BY <1>1, WithinIs
<1>4. f[Len(s)] = g[Len(s)]
  <2> DEFINE n == Len(s)
  <2>1. n \in Nat /\ n <= n /\ n \in 0..n
    BY <1>1
  <2>2. Alike(s, s, R, Q, n)
    BY DEF Alike
  <2>3. Sift(f, n, s, R) /\ Sift(g, n, s, Q)
    BY <1>2, <1>3
  <2> HIDE DEF n
  <2>4. \A i \in 0..n : f[i] = g[i]
    BY <2>1, <2>2, <2>3, SiftSame
  <2> QED
    BY <2>1, <2>4 DEF n
<1> QED
  BY <1>2, <1>3, <1>4

\* and a record more is kept at the end or not at all.
LEMMA WithinAppend ==
    ASSUME NEW S, NEW s \in Seq(S), NEW op \in S, NEW R
    PROVE  Within(Append(s, op), R) =
              IF op \in R THEN Append(Within(s, R), op) ELSE Within(s, R)
<1> DEFINE n == Len(s)
           e == Append(s, op)
<1>1. /\ n \in Nat /\ Len(e) = n + 1 /\ e[n + 1] = op
      /\ \A i \in 1..n : e[i] = s[i]
  OBVIOUS
<1> HIDE DEF e
<1>2. PICK f : Sift(f, n, s, R) /\ Within(s, R) = f[n]
  BY <1>1, WithinIs
<1>3. PICK g : Sift(g, n + 1, e, R) /\ Within(e, R) = g[n + 1]
  BY <1>1, WithinIs
<1> HIDE DEF n
<1>4. f[n] = g[n]
  <2>1. n \in Nat /\ n + 1 \in Nat /\ n <= n + 1 /\ n \in 0..n
    BY <1>1
  <2>2. Alike(s, e, R, R, n)
    BY <1>1 DEF Alike
  <2> DEFINE m == n + 1
  <2>3. m \in Nat /\ n <= m /\ Sift(f, n, s, R) /\ Sift(g, m, e, R)
    BY <1>2, <1>3, <2>1
  <2> HIDE DEF m
  <2>4. \A i \in 0..n : f[i] = g[i]
    BY <2>1, <2>2, <2>3, SiftSame
  <2> QED
    BY <2>1, <2>4
<1>5. g[n + 1] = Sifted(g[n], e[n + 1], R)
  <2>1. n + 1 \in 0..(n + 1) /\ n + 1 # 0 /\ (n + 1) - 1 = n
    BY <1>1
  <2> QED
    BY <1>3, <2>1 DEF Sift
<1>6. Within(e, R) = Sifted(Within(s, R), op, R)
  BY <1>1, <1>2, <1>3, <1>4, <1>5
<1> QED
  BY <1>6 DEF e, Sifted

\* What is within s is of s and of R.
LEMMA WithinOnly ==
    ASSUME NEW S, NEW R
    PROVE  \A s \in Seq(S) : /\ Within(s, R) \in Seq(S)
                             /\ RecordsOf(Within(s, R)) \subseteq RecordsOf(s) \cap R
<1> DEFINE Good(s) == /\ Within(s, R) \in Seq(S)
                      /\ RecordsOf(Within(s, R)) \subseteq RecordsOf(s) \cap R
           T == {n \in Nat : \E s \in Seq(S) : Len(s) = n /\ ~Good(s)}
<1> SUFFICES ASSUME NEW c \in Seq(S), ~Good(c) PROVE FALSE
  OBVIOUS
<1> HIDE DEF Good
<1>1. PICK n \in T : \A k \in T : n <= k
  <2>1. Len(c) \in T /\ T \subseteq Nat
    OBVIOUS
  <2> HIDE DEF T
  <2> QED
    BY <2>1, LeastNatural
<1>2. PICK s \in Seq(S) : Len(s) = n /\ ~Good(s)
  BY <1>1
<1>3. s # <<>>
  BY <1>2, WithinEmpty, RecordsGrow DEF Good
<1>4. PICK e \in Seq(S), op \in S : s = Append(e, op)
  BY <1>3, SequenceEmptyOrAppend
<1>5. Len(e) \in Nat /\ Len(e) < n
  BY <1>2, <1>4
<1>6. Good(e)
  <2>1. Len(e) \notin T
    BY <1>1, <1>5
  <2> QED
    BY <1>5, <2>1
<1>7. Within(s, R) = IF op \in R THEN Append(Within(e, R), op) ELSE Within(e, R)
  BY <1>4, WithinAppend
<1>8. RecordsOf(s) = RecordsOf(e) \cup {op}
  BY <1>4, RecordsGrow
<1>9. Within(e, R) \in Seq(S)
  BY <1>6 DEF Good
<1>10. RecordsOf(Append(Within(e, R), op)) = RecordsOf(Within(e, R)) \cup {op}
  BY <1>9, RecordsGrow
<1>11. Good(s)
  BY <1>6, <1>7, <1>8, <1>9, <1>10 DEF Good
<1> QED
  BY <1>2, <1>11

-----------------------------------------------------------------------------
\* A journal and the state beside it.

\* The records of key k in L, in their order.
Own(L, k) == Within(L, SignedBy(RecordsOf(L), k))

\* The n-th record of a key in a journal is the one its key has numbered n.
Numbered(L, s) ==
    /\ \A k \in Keys :
          /\ Len(Own(L, k)) = s.counters[k]
          /\ \A i \in 1..Len(Own(L, k)) :
                /\ Own(L, k)[i] \in SignedBy(RecordsOf(L), k)
                /\ Own(L, k)[i].ctr = i
    /\ \A op \in RecordsOf(L) :
          op.ctr \in 1..Len(Own(L, op.key)) /\ Own(L, op.key)[op.ctr] = op

\* What holds of every journal and its state, wherever they are.
Journaled(L, s) ==
    /\ L \in Seq(Legible) /\ s \in States(Legible) /\ Sound(s)
    /\ Well(RecordsOf(L), Kinds) /\ s = View(RecordsOf(L), Kinds)
    /\ Numbered(L, s)

\* The elements of a sequence are its records.
LEMMA RecordsAre ==
    ASSUME NEW S, NEW L \in Seq(S)
    PROVE  /\ RecordsOf(L) \subseteq S
           /\ \A i \in 1..Len(L) : L[i] \in RecordsOf(L)
           /\ \A op \in RecordsOf(L) : \E i \in 1..Len(L) : L[i] = op
           /\ RecordsOf(L) = {} <=> L = <<>>
<1>1. \A i \in 1..Len(L) : L[i] \in S
  BY ElementOfSeq
<1>2. RecordsOf(L) = {} <=> L = <<>>
  <2>1. L # <<>> => 1 \in 1..Len(L)
    BY EmptySeq
  <2> QED
    BY <2>1, RecordsGrow DEF RecordsOf
<1> QED
  BY <1>1, <1>2 DEF RecordsOf

\* What one record more does to the records of a key.
LEMMA OwnGrows ==
    ASSUME NEW L \in Seq(Legible), NEW op \in Legible, NEW k
    PROVE  Own(Append(L, op), k) =
              IF op.key = k THEN Append(Own(L, k), op) ELSE Own(L, k)
<1> DEFINE R == SignedBy(RecordsOf(L), k)
           Q == SignedBy(RecordsOf(L) \cup {op}, k)
<1>1. RecordsOf(Append(L, op)) = RecordsOf(L) \cup {op}
  BY RecordsGrow
<1>2. \A i \in 1..Len(L) : L[i] \in R <=> L[i] \in Q
  BY RecordsAre DEF SignedBy
<1>3. op \in Q <=> op.key = k
  BY DEF SignedBy
<1>4. Own(L, k) = Within(L, R) /\ Own(Append(L, op), k) = Within(Append(L, op), Q)
  BY <1>1 DEF Own
<1> HIDE DEF R, Q
<1>5. Within(L, R) = Within(L, Q)
  BY <1>2, WithinSame
<1>6. Within(Append(L, op), Q) = IF op \in Q THEN Append(Within(L, Q), op) ELSE Within(L, Q)
  BY WithinAppend
<1> QED
  BY <1>3, <1>4, <1>5, <1>6

\* The records of a key are a sequence.
LEMMA OwnTyped ==
    ASSUME NEW L \in Seq(Legible), NEW k
    PROVE  /\ Own(L, k) \in Seq(Legible)
           /\ RecordsOf(Own(L, k)) \subseteq SignedBy(RecordsOf(L), k)
  BY WithinOnly DEF Own, SignedBy

\* The next record of a key goes where its number says.
LEMMA NumberedGrows ==
    ASSUME NEW L \in Seq(Legible), NEW op \in Legible, NEW s \in States(Legible),
           Numbered(L, s), op.ctr = s.counters[op.key] + 1, NEW t,
           t.counters = [s.counters EXCEPT ![op.key] = op.ctr]
    PROVE  Numbered(Append(L, op), t)
<1> DEFINE e == Append(L, op)
<1>1. op.key \in Keys /\ op.ctr \in Nat /\ s.counters \in [Keys -> Nat]
  BY LegibleIsTyped, RecordNumbers DEF States
<1>2. RecordsOf(e) = RecordsOf(L) \cup {op}
  BY RecordsGrow
<1>3. \A k : Own(e, k) = IF op.key = k THEN Append(Own(L, k), op) ELSE Own(L, k)
  BY OwnGrows
<1>4. \A k : Own(L, k) \in Seq(Legible)
  BY OwnTyped
<1>5. \A k : SignedBy(RecordsOf(L), k) \subseteq SignedBy(RecordsOf(e), k)
  BY <1>2 DEF SignedBy
<1> HIDE DEF e
<1>6. ASSUME NEW k \in Keys
      PROVE  /\ Len(Own(e, k)) = t.counters[k]
             /\ \A i \in 1..Len(Own(e, k)) :
                   Own(e, k)[i] \in SignedBy(RecordsOf(e), k) /\ Own(e, k)[i].ctr = i
  <2>1. /\ Len(Own(L, k)) = s.counters[k]
        /\ \A i \in 1..Len(Own(L, k)) :
              Own(L, k)[i] \in SignedBy(RecordsOf(L), k) /\ Own(L, k)[i].ctr = i
    BY DEF Numbered
  <2>2. CASE k # op.key
    BY <1>1, <1>3, <1>5, <2>1, <2>2
  <2>3. CASE k = op.key
    <3> DEFINE own == Own(L, k)
    <3>1. own \in Seq(Legible) /\ Own(e, k) = Append(own, op)
      BY <1>3, <1>4, <2>3
    <3>2. op \in SignedBy(RecordsOf(e), k)
      BY <1>2, <2>3 DEF SignedBy
    <3>3. Len(own) = s.counters[k] /\ \A i \in 1..Len(own) :
              own[i] \in SignedBy(RecordsOf(L), k) /\ own[i].ctr = i
      BY <2>1
    <3> HIDE DEF own
    <3>4. /\ Len(Own(e, k)) = Len(own) + 1 /\ Own(e, k)[Len(own) + 1] = op
          /\ \A i \in 1..Len(own) : Own(e, k)[i] = own[i]
      BY <3>1
    <3>5. Len(own) + 1 = op.ctr /\ t.counters[k] = op.ctr /\ Len(own) \in Nat
      BY <1>1, <2>3, <3>1, <3>3
    <3>6. \A i \in 1..(Len(own) + 1) : i \in 1..Len(own) \/ i = Len(own) + 1
      BY <3>5
    <3> QED
      BY <1>5, <3>2, <3>3, <3>4, <3>5, <3>6
  <2> QED
    BY <2>2, <2>3
<1>7. ASSUME NEW r \in RecordsOf(e)
      PROVE  r.ctr \in 1..Len(Own(e, r.key)) /\ Own(e, r.key)[r.ctr] = r
  <2> DEFINE own == Own(L, r.key)
  <2>1. own \in Seq(Legible) /\ Len(own) \in Nat
    BY <1>4
  <2>2. CASE r = op
    <3>1. Len(own) + 1 = op.ctr
      BY <1>1, <2>2 DEF Numbered
    <3>2. Own(e, r.key) = Append(own, op)
      BY <1>3, <2>2
    <3> HIDE DEF own
    <3> QED
      BY <2>1, <2>2, <3>1, <3>2
  <2>3. CASE r # op
    <3>1. r.ctr \in 1..Len(own) /\ own[r.ctr] = r
      BY <1>2, <2>3 DEF Numbered
    <3>2. Own(e, r.key) = IF op.key = r.key THEN Append(own, op) ELSE own
      BY <1>3
    <3> HIDE DEF own
    <3> QED
      BY <2>1, <3>1, <3>2
  <2> QED
    BY <2>2, <2>3
<1> QED
  BY <1>6, <1>7 DEF e, Numbered

\* No records, no state.
LEMMA NothingJournaled == Journaled(<<>>, EmptyState)
<1>1. RecordsOf(<<>>) = {}
  BY RecordsGrow
<1>2. View({}, Kinds) = EmptyState /\ Well({}, Kinds)
  BY ViewOfNothing
<1>3. \A k : Own(<<>>, k) = <<>>
  BY WithinEmpty DEF Own
<1>4. \A k \in Keys : EmptyState.counters[k] = 0
  BY DEF EmptyState
<1>5. Numbered(<<>>, EmptyState)
  BY <1>1, <1>3, <1>4 DEF Numbered
<1>6. <<>> \in Seq(Legible) /\ EmptyState \in States(Legible)
  BY EmptyTyped
<1>7. Well(RecordsOf(<<>>), Kinds) /\ EmptyState = View(RecordsOf(<<>>), Kinds)
  BY <1>1, <1>2
<1> QED
  BY <1>5, <1>6, <1>7, EmptySound DEF Journaled

\* A record that passes joins the journal, and Apply keeps the state beside it.
LEMMA JournaledGrows ==
    ASSUME NEW L, NEW s, Journaled(L, s), NEW op \in Legible, Accepts(s, op, Kinds)
    PROVE  Journaled(Append(L, op), After(s, op, Kinds))
<1> DEFINE t == After(s, op, Kinds)
           R == RecordsOf(L)
<1>1. /\ L \in Seq(Legible) /\ s \in States(Legible) /\ Sound(s)
      /\ Well(R, Kinds) /\ s = View(R, Kinds) /\ Numbered(L, s)
  BY DEF Journaled
<1>2. /\ t \in States(Legible) /\ Sound(t)
      /\ op.ctr = s.counters[op.key] + 1
      /\ t.counters = [s.counters EXCEPT ![op.key] = op.ctr]
  <2>1. Legible \subseteq {r \in Record : WellFormed(r)}
    BY DEF Legible
  <2> QED
    BY <1>1, <2>1, AfterSound
<1>3. RecordsOf(Append(L, op)) = R \cup {op}
  BY <1>1, RecordsGrow
<1>4. Well(R \cup {op}, Kinds) /\ t = View(R \cup {op}, Kinds)
  <2> HIDE DEF R
  <2> QED
    BY <1>1, ViewGrows
<1>5. Append(L, op) \in Seq(Legible)
  BY <1>1
<1> HIDE DEF t
<1>6. Numbered(Append(L, op), t)
  <2>1. L \in Seq(Legible) /\ s \in States(Legible) /\ Numbered(L, s)
    BY <1>1
  <2>2. op.ctr = s.counters[op.key] + 1 /\ t.counters = [s.counters EXCEPT ![op.key] = op.ctr]
    BY <1>2
  <2> QED
    BY ONLY <2>1, <2>2, NumberedGrows
<1> QED
  BY <1>2, <1>3, <1>4, <1>5, <1>6 DEF Journaled, t

-----------------------------------------------------------------------------
\* The invariant.

\* What a call of the app can be.
Calls ==
    {NoCall, Edited} \cup {Choosing(u) : u \in SUBSET Servers}
    \cup {Syncing(s, o, u) : s \in Servers, o \in SUBSET Links, u \in SUBSET Servers}
    \cup {Adopting(s, op) : s \in Servers, op \in Legible}

Typed ==
    /\ log \in [Replicas -> Seq(Legible)] /\ st \in [Replicas -> States(Legible)]
    /\ file \in [Devices -> [log : Seq(Legible), st : States(Legible)]]
    /\ call \in [Devices -> Calls]
    /\ sending \in [Links -> Seq(Legible)]
    /\ lost \subseteq Legible

\* Memory and files hold journals.
Journals ==
    /\ \A r \in Replicas : Journaled(log[r], st[r])
    /\ \A d \in Devices : Journaled(file[d].log, file[d].st)

\* The records of key k its device vouches for: a record is in its file before
\* anybody else has it, save one that is in hand for a fresh node, or was.
Vouched(k) == SignedBy(RecordsOf(file[Home[k]].log) \cup Hand(Home[k]) \cup lost, k)

\* An edit that is not saved yet is on its device alone.
Unsaved(r, op) == r = Home[op.key] /\ In(r, "edited") /\ op.kind # "node.add"

\* Wherever a record is, the device of its key vouches for it.
Traced ==
    /\ \A r \in Replicas : \A op \in RecordsAt(r) : op \in Vouched(op.key) \/ Unsaved(r, op)
    /\ \A d \in Devices : \A op \in RecordsOf(file[d].log) :
          op \in RecordsAt(d) /\ op \in Vouched(op.key)
    /\ \A l \in Links : \A op \in RecordsOf(sending[l]) : op \in Vouched(op.key)

\* Nothing is under way but for a call that waits for it.
Calm ==
    \A d \in Devices, s \in Servers :
        /\ sending[<<s, d>>] # <<>> => In(d, "syncing") /\ call[d].with = s
        /\ sending[<<d, s>>] # <<>> =>
              (In(d, "syncing") \/ In(d, "adopting")) /\ call[d].with = s
        /\ In(d, "syncing") => call[d].owed \subseteq Between(d, call[d].with)

\* Record op is somewhere, or under way on another link than l.
Around(op, l) ==
    \/ \E r \in Replicas : op \in RecordsAt(r)
    \/ \E d \in Devices : op \in RecordsOf(file[d].log)
    \/ \E m \in Links : m # l /\ op \in RecordsOf(sending[m])

\* Device d has op in hand for node s: it is the last thing under way to s, or s
\* has it, or has passed it over for a lost one with its number; and it is
\* nowhere else unless s has it, or it was lost before.
Adopts(d, s, op) ==
    LET way == sending[<<d, s>>] IN
    /\ op.kind = "node.add" /\ op.obj = NodeOf[s] /\ Home[op.key] = d
    /\ Accepts(st[d], op, Kinds)
    /\ way # <<>> => /\ way[Len(way)] = op
                     /\ \A i \in 1..(Len(way) - 1) : way[i] \in RecordsAt(d)
    /\ way = <<>> => op \in RecordsAt(s) \/ Doubled(op)
    /\ Around(op, <<d, s>>) => op \in lost \/ (way = <<>> /\ op \in RecordsAt(s))

Adoptions == \A d \in Devices : In(d, "adopting") => Adopts(d, call[d].with, call[d].op)

\* The whole.
Inv == Typed /\ Journals /\ Traced /\ Calm /\ Adoptions

-----------------------------------------------------------------------------
\* What the parts of the state are.

\* Devices and servers are different replicas, and links join one to the other.
LEMMA Ends ==
    /\ \A d \in Devices : d \in Replicas /\ d \notin Servers
    /\ \A s \in Servers : s \in Replicas /\ s \notin Devices
    /\ \A d \in Devices, s \in Servers :
          <<d, s>> \in Links /\ <<s, d>> \in Links /\ Between(d, s) \subseteq Links
    /\ \A l \in Links : \/ l[1] \in Devices /\ l[2] \in Servers /\ l = <<l[1], l[2]>>
                        \/ l[1] \in Servers /\ l[2] \in Devices /\ l = <<l[1], l[2]>>
    /\ \A k \in Keys : Home[k] \in Devices
  BY ReplicationConstants DEF Replicas, Links, Between

\* A call is in one phase, with what belongs to it.
LEMMA CallsAre ==
    \A c \in Calls :
        /\ c.phase = "choosing" => c.untried \in SUBSET Servers
        /\ c.phase = "syncing" =>
              /\ c.with \in Servers /\ c.owed \in SUBSET Links /\ c.untried \in SUBSET Servers
              /\ \A l : [c EXCEPT !.owed = @ \ {l}] = Syncing(c.with, c.owed \ {l}, c.untried)
        /\ c.phase = "adopting" => c.with \in Servers /\ c.op \in Legible
<1> SUFFICES ASSUME NEW c \in Calls
             PROVE  /\ c.phase = "choosing" => c.untried \in SUBSET Servers
                    /\ c.phase = "syncing" =>
                          /\ c.with \in Servers /\ c.owed \in SUBSET Links
                          /\ c.untried \in SUBSET Servers
                          /\ \A l : [c EXCEPT !.owed = @ \ {l}] =
                                        Syncing(c.with, c.owed \ {l}, c.untried)
                    /\ c.phase = "adopting" => c.with \in Servers /\ c.op \in Legible
  OBVIOUS
<1>1. c \in {NoCall, Edited} => c.phase \in {"none", "edited"}
  BY DEF NoCall, Edited
<1>2. \A u : Choosing(u).phase = "choosing" /\ Choosing(u).untried = u
  BY DEF Choosing
<1>3. \A s, o, u :
         /\ Syncing(s, o, u).phase = "syncing" /\ Syncing(s, o, u).with = s
         /\ Syncing(s, o, u).owed = o /\ Syncing(s, o, u).untried = u
  BY DEF Syncing
<1>4. \A s, op : /\ Adopting(s, op).phase = "adopting" /\ Adopting(s, op).with = s
                 /\ Adopting(s, op).op = op
  BY DEF Adopting
<1>5. ASSUME NEW u \in SUBSET Servers, c = Choosing(u)
      PROVE  c.phase = "choosing" /\ c.untried \in SUBSET Servers
  <2>1. c.phase = "choosing" /\ c.untried = u
    BY <1>2, <1>5
  <2> QED
    BY <2>1
<1>6. ASSUME NEW s \in Servers, NEW o \in SUBSET Links, NEW u \in SUBSET Servers,
             c = Syncing(s, o, u)
      PROVE  /\ c.phase = "syncing" /\ c.with \in Servers /\ c.owed \in SUBSET Links
             /\ c.untried \in SUBSET Servers
             /\ \A l : [c EXCEPT !.owed = @ \ {l}] = Syncing(c.with, c.owed \ {l}, c.untried)
  <2>1. c.phase = "syncing" /\ c.with = s /\ c.owed = o /\ c.untried = u
    BY <1>3, <1>6
  <2>2. ASSUME NEW l PROVE [c EXCEPT !.owed = @ \ {l}] = Syncing(s, o \ {l}, u)
    BY <1>6 DEF Syncing
  <2> QED
    BY <2>1, <2>2
<1>7. ASSUME NEW s \in Servers, NEW op \in Legible, c = Adopting(s, op)
      PROVE  c.phase = "adopting" /\ c.with \in Servers /\ c.op \in Legible
  BY <1>4, <1>7
<1>8. \/ c \in {NoCall, Edited}
      \/ \E u \in SUBSET Servers : c = Choosing(u)
      \/ \E s \in Servers, o \in SUBSET Links, u \in SUBSET Servers : c = Syncing(s, o, u)
      \/ \E s \in Servers, op \in Legible : c = Adopting(s, op)
  BY DEF Calls
<1>9. CASE c.phase = "choosing"
  BY <1>1, <1>5, <1>6, <1>7, <1>8, <1>9
<1>10. CASE c.phase = "syncing"
  BY <1>1, <1>5, <1>6, <1>7, <1>8, <1>10
<1>11. CASE c.phase = "adopting"
  BY <1>1, <1>5, <1>6, <1>7, <1>8, <1>11
<1> QED
  BY <1>9, <1>10, <1>11

\* The calls there are.
LEMMA CallsMade ==
    /\ NoCall \in Calls /\ NoCall.phase = "none"
    /\ Edited \in Calls /\ Edited.phase = "edited"
    /\ \A u \in SUBSET Servers :
          Choosing(u) \in Calls /\ Choosing(u).phase = "choosing" /\ Choosing(u).untried = u
    /\ \A s \in Servers, o \in SUBSET Links, u \in SUBSET Servers :
          /\ Syncing(s, o, u) \in Calls /\ Syncing(s, o, u).phase = "syncing"
          /\ Syncing(s, o, u).with = s /\ Syncing(s, o, u).owed = o
    /\ \A s \in Servers, op \in Legible :
          /\ Adopting(s, op) \in Calls /\ Adopting(s, op).phase = "adopting"
          /\ Adopting(s, op).with = s /\ Adopting(s, op).op = op
<1>1. /\ NoCall \in Calls /\ NoCall.phase = "none"
      /\ Edited \in Calls /\ Edited.phase = "edited"
  BY DEF Calls, NoCall, Edited
<1>2. ASSUME NEW u \in SUBSET Servers
      PROVE  Choosing(u) \in Calls /\ Choosing(u).phase = "choosing" /\ Choosing(u).untried = u
  BY DEF Calls, Choosing
<1>3. ASSUME NEW s \in Servers, NEW o \in SUBSET Links, NEW u \in SUBSET Servers
      PROVE  /\ Syncing(s, o, u) \in Calls /\ Syncing(s, o, u).phase = "syncing"
             /\ Syncing(s, o, u).with = s /\ Syncing(s, o, u).owed = o
  <2>1. Syncing(s, o, u) \in Calls
    BY DEF Calls
  <2> QED
    BY <2>1 DEF Syncing
<1>4. ASSUME NEW s \in Servers, NEW op \in Legible
      PROVE  /\ Adopting(s, op) \in Calls /\ Adopting(s, op).phase = "adopting"
             /\ Adopting(s, op).with = s /\ Adopting(s, op).op = op
  <2>1. Adopting(s, op) \in Calls
    BY DEF Calls
  <2> QED
    BY <2>1 DEF Adopting
<1> QED
  BY <1>1, <1>2, <1>3, <1>4

\* Nobody but the caller's call goes on.
LEMMA CallGoes ==
    ASSUME Typed, NEW d \in Devices, NEW to, Goes(d, to)
    PROVE  call' = [call EXCEPT ![d] = to]
           /\ \A e \in Devices : call'[e] = IF e = d THEN to ELSE call[e]
  BY DEF Goes, Typed

\* A record that is taken is one more where it is taken.
LEMMA TakeGives ==
    ASSUME Typed, NEW r \in Replicas, NEW op \in Legible, Take(r, op)
    PROVE  \A q \in Replicas :
              /\ log'[q] = IF q = r THEN Append(log[r], op) ELSE log[q]
              /\ st'[q] = IF q = r THEN After(st[r], op, Kinds) ELSE st[q]
              /\ RecordsAt(q)' = IF q = r THEN RecordsAt(r) \cup {op} ELSE RecordsAt(q)
<1>1. ASSUME NEW q \in Replicas
      PROVE  /\ log'[q] = IF q = r THEN Append(log[r], op) ELSE log[q]
             /\ st'[q] = IF q = r THEN After(st[r], op, Kinds) ELSE st[q]
  BY DEF Take, Typed
<1>2. log[r] \in Seq(Legible)
  BY DEF Typed
<1>3. RecordsOf(Append(log[r], op)) = RecordsOf(log[r]) \cup {op}
  BY <1>2, RecordsGrow
<1> QED
  BY <1>1, <1>3 DEF RecordsAt

\* A record that passes is the next of its key, and new.
LEMMA PassingIsNext ==
    ASSUME NEW L, NEW s, Journaled(L, s), NEW op \in Legible, Accepts(s, op, Kinds)
    PROVE  /\ op.key \in Keys /\ op.ctr = Len(Own(L, op.key)) + 1
           /\ \A p \in RecordsOf(L) : p.key = op.key => p.ctr < op.ctr
           /\ op \notin RecordsOf(L)
<1>1. op.key \in Keys
  BY LegibleIsTyped, RecordNumbers
<1>2. op.ctr = s.counters[op.key] + 1
  <2>1. s \in States(Legible) /\ Sound(s)
    BY DEF Journaled
  <2>2. Legible \subseteq {r \in Record : WellFormed(r)}
    BY DEF Legible
  <2>3. /\ After(s, op, Kinds) \in States(Legible) /\ Sound(After(s, op, Kinds))
        /\ op.key \in Keys /\ op.ctr = s.counters[op.key] + 1
        /\ After(s, op, Kinds).counters = [s.counters EXCEPT ![op.key] = op.ctr]
    BY ONLY <2>1, <2>2, op \in Legible, Accepts(s, op, Kinds), AfterSound
  <2> QED
    BY <2>3
<1>3. op.ctr = Len(Own(L, op.key)) + 1 /\ Len(Own(L, op.key)) \in Nat
  <2>1. Own(L, op.key) \in Seq(Legible)
    BY OwnTyped DEF Journaled
  <2>2. Len(Own(L, op.key)) = s.counters[op.key]
    BY <1>1 DEF Journaled, Numbered
  <2> QED
    BY <1>2, <2>1, <2>2
<1>4. \A p \in RecordsOf(L) : p.key = op.key => p.ctr < op.ctr
  BY <1>3 DEF Journaled, Numbered
<1> QED
  BY <1>1, <1>3, <1>4

\* What is signed with a key on an owner's device has the shape of a record.
LEMMA FreshIsLegible ==
    ASSUME Typed, NEW k \in Keys, NEW kind, NEW obj, NEW time \in 1..MaxTime,
           \/ \E e \in Edits : kind = e[1] /\ obj = e[2]
           \/ kind = "node.add" /\ obj \in Nodes
    PROVE  /\ Fresh(k, kind, obj, time) \in Legible
           /\ Fresh(k, kind, obj, time).key = k
           /\ Fresh(k, kind, obj, time).kind = kind
           /\ Fresh(k, kind, obj, time).obj = obj
<1> DEFINE op == Fresh(k, kind, obj, time)
           n == st[Home[k]].counters[k] + 1
           like == [kind |-> kind, key |-> k, ctr |-> 1, time |-> 1, obj |-> obj,
                    scope |-> Operator, owners |-> {}, flaw |-> "none"]
<1>1. n \in Nat \ {0}
  <2>1. Home[k] \in Replicas
    BY Ends
  <2>2. st[Home[k]].counters[k] \in Nat
    BY <2>1 DEF Typed, States
  <2> QED
    BY <2>2
<1>2. time \in Nat \ {0}
  BY ReplicationConstants
<1>3. op = [kind |-> kind, key |-> k, ctr |-> n, time |-> time, obj |-> obj,
            scope |-> Operator, owners |-> {}, flaw |-> "none"]
  BY DEF Fresh
<1>4. CASE \E e \in Edits : kind = e[1] /\ obj = e[2]
  <2>1. WellFormed(like)
    BY <1>4, EditsAreWellFormed
  <2>2. like \in Record /\ WellFormed(like)
    BY <2>1 DEF WellFormed
  <2> HIDE DEF n
  <2>3. op \in Record
    BY <1>1, <1>2, <1>3, <2>2 DEF Record
  <2> QED
    BY <1>3, <2>2, <2>3 DEF Legible, WellFormed
<1>5. CASE kind = "node.add" /\ obj \in Nodes
  <2> HIDE DEF n
  <2>1. kind \in Kinds /\ obj \in Subjects \cup {Network} /\ Operator \in Viewer..Owner
    BY <1>5 DEF Kinds, NodeKinds, Subjects, Objects, Operator, Viewer, Owner
  <2>2. op \in Record
    BY <1>1, <1>2, <1>3, <2>1 DEF Record
  <2> QED
    BY <1>3, <1>5, <2>2 DEF Legible, WellFormed, AdminKinds, ClientKinds
<1> QED
  BY <1>3, <1>4, <1>5

\* No two records in a journal have one number of one key.
LEMMA OneNumber ==
    ASSUME NEW L, NEW s, Journaled(L, s), NEW p \in RecordsOf(L), NEW q \in RecordsOf(L),
           p.key = q.key, p.ctr = q.ctr
    PROVE  p = q
  BY DEF Journaled, Numbered

\* What the device of key k has of it, in the journal of its call or in hand.
Has(k) == SignedBy(RecordsAt(Home[k]) \cup Hand(Home[k]), k)

\* All that is vouched for or held anywhere is there, unless it is lost,
LEMMA HeldIsKnown ==
    ASSUME Inv
    PROVE  /\ \A k \in Keys : Vouched(k) \subseteq Has(k) \cup lost
           /\ \A r \in Replicas : \A op \in RecordsAt(r) :
                 op.key \in Keys /\ op \in Has(op.key) \cup lost
<1>1. \A k \in Keys : Vouched(k) \subseteq Has(k) \cup lost
  BY Ends DEF Inv, Traced, Vouched, Has, SignedBy
<1>2. ASSUME NEW r \in Replicas, NEW op \in RecordsAt(r)
      PROVE  op.key \in Keys /\ op \in Has(op.key) \cup lost
  <2>1. op \in Legible
    BY RecordsAre DEF Inv, Typed, RecordsAt
  <2>2. op.key \in Keys
    BY <2>1, LegibleIsTyped, RecordNumbers
  <2>3. op \in Vouched(op.key) \/ Unsaved(r, op)
    BY DEF Inv, Traced
  <2> QED
    BY <1>1, <2>2, <2>3 DEF Unsaved, Has, SignedBy
<1> QED
  BY <1>1, <1>2

\* and there is one record to a number.
LEMMA OneRecord ==
    ASSUME Inv, NEW k \in Keys, NEW p \in Has(k), NEW q \in Has(k), p.ctr = q.ctr
    PROVE  p = q
<1> DEFINE d == Home[k]
           L == log[d]
<1>1. d \in Devices /\ d \in Replicas
  BY Ends
<1>2. Journaled(L, st[d])
  BY <1>1 DEF Inv, Journals
<1>3. p.key = k /\ q.key = k
  BY DEF Has, SignedBy
<1>4. CASE p \in RecordsOf(L) /\ q \in RecordsOf(L)
  BY <1>2, <1>3, <1>4, OneNumber
<1>5. CASE ~(p \in RecordsOf(L) /\ q \in RecordsOf(L))
  <2>1. In(d, "adopting") /\ (p = call[d].op \/ q = call[d].op)
        /\ (p \in RecordsOf(L) \/ p = call[d].op) /\ (q \in RecordsOf(L) \/ q = call[d].op)
    BY <1>5 DEF Has, SignedBy, Hand, RecordsAt
  <2>2. call[d].op \in Legible /\ Accepts(st[d], call[d].op, Kinds)
    BY <1>1, <2>1, CallsAre DEF Inv, Typed, In, Adoptions, Adopts
  <2>3. \A r \in RecordsOf(L) : r.key = call[d].op.key => r.ctr < call[d].op.ctr
    BY <1>2, <2>2, PassingIsNext
  <2>4. call[d].op.ctr \in Nat
    BY <2>2, LegibleIsTyped, RecordNumbers
  <2> QED
    BY <1>3, <2>1, <2>3, <2>4
<1> QED
  BY <1>4, <1>5

-----------------------------------------------------------------------------
\* The beginning.

\* The genesis alone is a journal.
LEMMA FoundingJournaled ==
    /\ Founding \in Legible
    /\ Journaled(<<Founding>>, Loaded(<<Founding>>, Kinds).state)
    /\ Journaled(<<>>, Loaded(<<>>, Kinds).state)
<1>1. Founding \in Record
  BY FoundingPasses DEF WellFormed
<1>2. Founding \in Legible
  BY <1>1, FoundingPasses DEF Legible
<1>3. Loaded(<<>>, Kinds).state = EmptyState
  BY LoadedEmpty DEF Begin
<1>4. Loaded(<<Founding>>, Kinds).state = After(EmptyState, Founding, Kinds)
  <2>1. Append(<<>>, Founding) = <<Founding>> /\ <<>> \in Seq(Legible)
    OBVIOUS
  <2>2. Loaded(<<Founding>>, Kinds) = Step(Loaded(<<>>, Kinds), Founding, Kinds)
    BY <1>2, <2>1, LoadedAppend
  <2> QED
    BY <2>2, LoadedEmpty, FoundingPasses DEF Step, Begin
<1>5. Journaled(Append(<<>>, Founding), After(EmptyState, Founding, Kinds))
  BY <1>2, FoundingPasses, NothingJournaled, JournaledGrows
<1> QED
  BY <1>2, <1>3, <1>4, <1>5, NothingJournaled

\* The invariant holds when the network has been created.
LEMMA Begins == Init => Inv
<1> SUFFICES ASSUME Init PROVE Inv
  OBVIOUS
<1>1. /\ \A r \in Replicas : log[r] = IF r = Founder THEN <<Founding>> ELSE <<>>
      /\ \A r \in Replicas : st[r] = Loaded(log[r], Kinds).state
      /\ \A d \in Devices : file[d] = [log |-> log[d], st |-> st[d]]
      /\ \A d \in Devices : call[d] = NoCall
      /\ \A l \in Links : sending[l] = <<>>
      /\ lost = {}
  BY DEF Init
<1>2. \A r \in Replicas : Journaled(log[r], st[r])
  BY <1>1, FoundingJournaled
<1>3. \A d \in Devices : /\ file[d].log = log[d] /\ file[d].st = st[d]
                         /\ Journaled(file[d].log, file[d].st)
  <2> SUFFICES ASSUME NEW d \in Devices
               PROVE  /\ file[d].log = log[d] /\ file[d].st = st[d]
                      /\ Journaled(file[d].log, file[d].st)
    OBVIOUS
  <2>1. file[d] = [log |-> log[d], st |-> st[d]] /\ Journaled(log[d], st[d])
    BY <1>1, <1>2, Ends
  <2> QED
    BY <2>1
<1>4. Typed
  <2>1. \A r \in Replicas : log[r] \in Seq(Legible) /\ st[r] \in States(Legible)
    BY <1>2 DEF Journaled
  <2>2. log \in [Replicas -> Seq(Legible)] /\ st \in [Replicas -> States(Legible)]
    BY <2>1 DEF Init
  <2>3. file \in [Devices -> [log : Seq(Legible), st : States(Legible)]]
    BY <2>1, Ends DEF Init
  <2>4. call \in [Devices -> Calls]
    BY CallsMade DEF Init
  <2>5. sending \in [Links -> Seq(Legible)]
    BY DEF Init
  <2> QED
    BY <1>1, <2>2, <2>3, <2>4, <2>5 DEF Typed
<1>5. \A d \in Devices : ~In(d, "syncing") /\ ~In(d, "adopting") /\ ~In(d, "edited")
  BY <1>1, CallsMade DEF In
<1>6. \A r \in Replicas : RecordsAt(r) = IF r = Founder THEN {Founding} ELSE {}
  <2>1. RecordsOf(<<Founding>>) = {Founding}
    BY RecordsGrow DEF RecordsOf
  <2> QED
    BY <1>1, <2>1, RecordsGrow DEF RecordsAt
<1>7. \A l \in Links : RecordsOf(sending[l]) = {}
  BY <1>1, RecordsGrow
<1>8. Traced
  <2>1. \A d \in Devices : RecordsOf(file[d].log) = RecordsAt(d)
    BY <1>3 DEF RecordsAt
  <2>2. Founder \in Devices /\ Founder \in Replicas
    BY Ends, ReplicationConstants
  <2>3. Founding \in Vouched(Founding.key)
    BY <1>6, <2>1, <2>2, FoundingPasses DEF Vouched, SignedBy
  <2>4. \A r \in Replicas : \A op \in RecordsAt(r) : op \in Vouched(op.key)
    BY <1>6, <2>3
  <2> QED
    BY <1>7, <2>1, <2>4, Ends DEF Traced
<1>9. Calm
  BY <1>1, <1>5, Ends DEF Calm
<1>10. Adoptions
  BY <1>5 DEF Adoptions
<1> QED
  BY <1>2, <1>3, <1>4, <1>8, <1>9, <1>10 DEF Inv, Journals

-----------------------------------------------------------------------------
\* What the steps are made of keeps types and journals.

\* Data is what is typed and is a journal, whatever is under way.
Data ==
    /\ log \in [Replicas -> Seq(Legible)] /\ st \in [Replicas -> States(Legible)]
    /\ file \in [Devices -> [log : Seq(Legible), st : States(Legible)]]
    /\ Journals

\* A record is taken that passes.
LEMMA TakeKeeps ==
    ASSUME Inv, NEW r \in Replicas, NEW op \in Legible, Accepts(st[r], op, Kinds),
           Take(r, op), file' = file
    PROVE  Data'
<1>1. Journaled(Append(log[r], op), After(st[r], op, Kinds))
  BY JournaledGrows DEF Inv, Journals
<1>2. \A q \in Replicas : /\ log'[q] = IF q = r THEN Append(log[r], op) ELSE log[q]
                          /\ st'[q] = IF q = r THEN After(st[r], op, Kinds) ELSE st[q]
  BY TakeGives DEF Inv
<1>3. \A q \in Replicas : Journaled(log'[q], st'[q])
  BY <1>1, <1>2 DEF Inv, Journals
<1>4. \A d \in Devices : Journaled(file'[d].log, file'[d].st)
  BY DEF Inv, Journals
<1>5. \A q \in Replicas : log'[q] \in Seq(Legible) /\ st'[q] \in States(Legible)
  BY <1>3 DEF Journaled
<1>6. log' \in [Replicas -> Seq(Legible)] /\ st' \in [Replicas -> States(Legible)]
  BY <1>5 DEF Take, Inv, Typed
<1> QED
  BY <1>3, <1>4, <1>6 DEF Data, Journals, Inv, Typed

\* A call gives up what it had.
LEMMA FromFileKeeps ==
    ASSUME Inv, NEW d \in Devices, FromFile(d), file' = file
    PROVE  /\ Data'
           /\ \A q \in Replicas : RecordsAt(q)' = IF q = d THEN RecordsOf(file[d].log)
                                                  ELSE RecordsAt(q)
           /\ \A q \in Replicas : q # d => log'[q] = log[q] /\ st'[q] = st[q]
<1>1. \A q \in Replicas : /\ log'[q] = IF q = d THEN file[d].log ELSE log[q]
                          /\ st'[q] = IF q = d THEN file[d].st ELSE st[q]
  BY Ends DEF FromFile, Inv, Typed
<1>2. \A q \in Replicas : Journaled(log'[q], st'[q])
  BY <1>1 DEF Inv, Journals
<1>3. \A e \in Devices : Journaled(file'[e].log, file'[e].st)
  BY DEF Inv, Journals
<1>4. \A q \in Replicas : log'[q] \in Seq(Legible) /\ st'[q] \in States(Legible)
  BY <1>2 DEF Journaled
<1>5. log' \in [Replicas -> Seq(Legible)] /\ st' \in [Replicas -> States(Legible)]
  BY <1>4 DEF FromFile, Inv, Typed
<1> QED
  BY <1>1, <1>2, <1>3, <1>5 DEF Data, Journals, Inv, Typed, RecordsAt

\* A journal is saved.
LEMMA SaveKeeps ==
    ASSUME Inv, NEW d \in Devices, Save(d), log' = log, st' = st
    PROVE  /\ Data'
           /\ \A e \in Devices : RecordsOf(file'[e].log) =
                 IF e = d THEN RecordsAt(d) ELSE RecordsOf(file[e].log)
<1>1. \A e \in Devices : file'[e] = IF e = d THEN [log |-> log[d], st |-> st[d]] ELSE file[e]
  BY DEF Save, Inv, Typed
<1>2. \A e \in Devices : Journaled(file'[e].log, file'[e].st)
  BY <1>1, Ends DEF Inv, Journals
<1>3. \A q \in Replicas : Journaled(log'[q], st'[q])
  BY DEF Inv, Journals
<1>4. file' \in [Devices -> [log : Seq(Legible), st : States(Legible)]]
  BY <1>1, Ends DEF Save, Inv, Typed
<1> QED
  BY <1>1, <1>2, <1>3, <1>4 DEF Data, Journals, Inv, Typed, RecordsAt

\* What is under way goes, on some links.
LEMMA Gone ==
    ASSUME Inv, NEW d \in Devices, NEW s \in Servers
    PROVE  /\ Drop(d, s) \in [Links -> Seq(Legible)]
           /\ \A l \in Links : Drop(d, s)[l] = IF l \in Between(d, s) THEN <<>> ELSE sending[l]
           /\ \A l \in Links : RecordsOf(Drop(d, s)[l]) \subseteq RecordsOf(sending[l])
           /\ \A l \in Links : Drop(d, s)[l] # <<>> => Drop(d, s)[l] = sending[l]
<1>1. \A l \in Links : sending[l] \in Seq(Legible) /\ <<>> \in Seq(Legible)
  BY DEF Inv, Typed
<1> QED
  BY <1>1, RecordsGrow DEF Drop

\* What Since picks is of the journal.
LEMMA SinceIsFromLog ==
    ASSUME Inv, NEW r \in Replicas, NEW have
    PROVE  /\ Since(r, have) \in Seq(Legible)
           /\ RecordsOf(Since(r, have)) \subseteq RecordsAt(r)
<1>1. log[r] \in Seq(Legible)
  BY DEF Inv, Typed
<1> QED
  BY <1>1, WithinOnly DEF Since, RecordsAt

-----------------------------------------------------------------------------
\* What a step leaves alone.

\* Device d's adoption has no part in a step.
Kept(d) ==
    /\ call'[d] = call[d] /\ log'[d] = log[d] /\ st'[d] = st[d]
    /\ sending'[<<d, call[d].with>>] = sending[<<d, call[d].with>>]

\* Nodes lose nothing, what is lost stays so, and beyond N nothing is around
\* that was not, on l apart.
NothingBut(N, l) ==
    /\ lost \subseteq lost'
    /\ \A s \in Servers : RecordsAt(s) \subseteq RecordsAt(s)'
    /\ \A op : Around(op, l)' => Around(op, l) \/ op \in N

\* An adoption goes on as before if it has no part in a step, and the step
\* brings nothing into the world but records of other keys.
LEMMA AdoptionStays ==
    ASSUME Inv, NEW d \in Devices, In(d, "adopting"), Kept(d), NEW N,
           NEW l, l = <<d, call[d].with>>, NothingBut(N, l),
           \A op \in N : Home[op.key] # d
    PROVE  Adopts(d, call[d].with, call[d].op)' /\ In(d, "adopting")'
<1> SUFFICES ASSUME NEW s, NEW op, s = call[d].with, op = call[d].op
             PROVE  Adopts(d, call[d].with, call[d].op)' /\ In(d, "adopting")'
  OBVIOUS
<1>1. s \in Servers /\ op \in Legible /\ s \in Replicas /\ d \in Replicas
  BY CallsAre, Ends DEF Inv, Typed, In
<1>2. Adopts(d, s, op)
  BY DEF Inv, Adoptions
<1>3. call'[d].with = s /\ call'[d].op = op /\ In(d, "adopting")'
  BY DEF Kept, In
<1>4. op \notin N
  BY <1>2 DEF Adopts
<1>5. /\ Around(op, <<d, s>>)' =>
            op \in lost \/ (sending[<<d, s>>] = <<>> /\ op \in RecordsAt(s))
      /\ sending[<<d, s>>] = <<>> => op \in RecordsAt(s) \/ Doubled(op)
  BY <1>2, <1>4 DEF NothingBut, Adopts
<1>6. /\ RecordsAt(s) \subseteq RecordsAt(s)' /\ lost \subseteq lost'
      /\ Doubled(op) => Doubled(op)'
  BY <1>1 DEF NothingBut, Doubled
<1>7. /\ sending'[<<d, s>>] = sending[<<d, s>>] /\ st'[d] = st[d]
      /\ RecordsAt(d)' = RecordsAt(d)
  BY DEF Kept, RecordsAt
<1>8. Adopts(d, s, op)'
  BY <1>2, <1>5, <1>6, <1>7 DEF Adopts
<1> QED
  BY <1>3, <1>8

\* A device whose call is in no phase but this one.
LEMMA OnePhase ==
    ASSUME NEW d, NEW p, NEW q, In(d, p), p # q
    PROVE  ~In(d, q)
  BY DEF In

\* No adoption has a part in a step that adds only records of N.
Bystanders(N) ==
    \A e \in Devices : In(e, "adopting")' =>
        In(e, "adopting") /\ Kept(e) /\ \A op \in N : Home[op.key] # e

\* After such a step the adoptions under way are as they were.
LEMMA AdoptionsStay ==
    ASSUME Inv, NEW N, \A l : NothingBut(N, l), Bystanders(N)
    PROVE  Adoptions'
  BY AdoptionStays DEF Bystanders, Adoptions

\* All records there are, are signed with a key.
LEMMA KeysAre ==
    ASSUME Inv
    PROVE  /\ \A r \in Replicas : \A op \in RecordsAt(r) : op.key \in Keys
           /\ \A d \in Devices : \A op \in RecordsOf(file[d].log) : op.key \in Keys
           /\ \A l \in Links : \A op \in RecordsOf(sending[l]) : op.key \in Keys
<1>1. \A L \in Seq(Legible) : \A op \in RecordsOf(L) : op.key \in Keys
  BY RecordsAre, LegibleIsTyped, RecordNumbers
<1> QED
  BY <1>1 DEF Inv, Typed, RecordsAt

\* A call that is not under way has nothing under way.
LEMMA Idle ==
    ASSUME Inv, NEW d \in Devices, call[d].phase \notin {"syncing", "adopting"}, NEW s \in Servers
    PROVE  sending[<<d, s>>] = <<>> /\ sending[<<s, d>>] = <<>>
  BY DEF Inv, Calm, In

\* Nor has one with another node than its own.
LEMMA OneNode ==
    ASSUME Inv, NEW d \in Devices, NEW s \in Servers, s # call[d].with
    PROVE  sending[<<d, s>>] = <<>> /\ sending[<<s, d>>] = <<>>
  BY DEF Inv, Calm

-----------------------------------------------------------------------------
\* Each step keeps the invariant.

\* A call that is not under way moves on, and nothing else happens.
LEMMA CallMoves ==
    ASSUME Inv, NEW d \in Devices, call[d].phase \in {"none", "choosing"},
           NEW to \in Calls, Goes(d, to), to.phase \in {"none", "choosing", "syncing"},
           to.phase = "syncing" => to.owed \subseteq Between(d, to.with),
           UNCHANGED <<log, st, file, sending, lost>>
    PROVE  Inv'
<1>1. \A e \in Devices : call'[e] = IF e = d THEN to ELSE call[e]
  BY CallGoes DEF Inv
<1>2. \A r \in Replicas : RecordsAt(r)' = RecordsAt(r)
  BY DEF RecordsAt
<1>3. Typed' /\ Journals'
  BY DEF Inv, Typed, Journals, Goes
<1>4. \A e \in Devices : Hand(e)' = Hand(e)
  BY <1>1 DEF Hand, In
<1>5. ASSUME NEW r \in Replicas, NEW op, op.key \in Keys
      PROVE  Unsaved(r, op) => Unsaved(r, op)'
  BY <1>1, <1>5, Ends DEF Unsaved, In
<1>6. Traced'
  <2>1. \A k \in Keys : Vouched(k)' = Vouched(k)
    BY <1>4, Ends DEF Vouched
  <2>2. /\ \A r \in Replicas : \A op \in RecordsAt(r) : op.key \in Keys
        /\ \A e \in Devices : \A op \in RecordsOf(file[e].log) : op.key \in Keys
        /\ \A l \in Links : \A op \in RecordsOf(sending[l]) : op.key \in Keys
    BY KeysAre
  <2>3. ASSUME NEW r \in Replicas, NEW op \in RecordsAt(r)'
        PROVE  op \in Vouched(op.key)' \/ Unsaved(r, op)'
    BY <1>2, <1>5, <2>1, <2>2 DEF Inv, Traced
  <2>4. ASSUME NEW e \in Devices, NEW op \in RecordsOf(file'[e].log)
        PROVE  op \in RecordsAt(e)' /\ op \in Vouched(op.key)'
    BY <1>2, <2>1, <2>2, Ends DEF Inv, Traced
  <2>5. ASSUME NEW l \in Links, NEW op \in RecordsOf(sending'[l])
        PROVE  op \in Vouched(op.key)'
    BY <2>1, <2>2 DEF Inv, Traced
  <2> QED
    BY <2>3, <2>4, <2>5 DEF Traced
<1>7. Calm'
  <2>1. \A s \in Servers : sending[<<d, s>>] = <<>> /\ sending[<<s, d>>] = <<>>
    BY Idle
  <2>2. ASSUME NEW e \in Devices, NEW s \in Servers
        PROVE  /\ sending[<<s, e>>] # <<>> => In(e, "syncing")' /\ call'[e].with = s
               /\ sending[<<e, s>>] # <<>> =>
                     (In(e, "syncing")' \/ In(e, "adopting")') /\ call'[e].with = s
               /\ In(e, "syncing")' => call'[e].owed \subseteq Between(e, call'[e].with)
    <3>1. CASE e = d
      BY <1>1, <2>1, <3>1 DEF In
    <3>2. CASE e # d
      BY <1>1, <3>2 DEF In, Inv, Calm
    <3> QED
      BY <3>1, <3>2
  <2> QED
    BY <2>2 DEF Calm
<1>8. Adoptions'
  <2>1. \A l : NothingBut({}, l)
    <3>1. \A op, l : Around(op, l)' => Around(op, l)
      BY <1>2 DEF Around
    <3> QED
      BY <1>2, <3>1, Ends DEF NothingBut
  <2>2. Bystanders({})
    BY <1>1 DEF Bystanders, In, Kept
  <2> QED
    BY <2>1, <2>2, AdoptionsStay
<1> QED
  BY <1>3, <1>6, <1>7, <1>8 DEF Inv

\* Nothing is under way to or from d any more, and the rest is.
Silent(d) ==
    sending' = [l \in Links |-> IF d \in {l[1], l[2]} THEN <<>> ELSE sending[l]]

\* The ways in which that comes about.
LEMMA SilentIs ==
    ASSUME Inv, NEW d \in Devices
    PROVE  /\ call[d].phase \notin {"syncing", "adopting"} /\ sending' = sending => Silent(d)
           /\ call[d].phase \in {"syncing", "adopting"} =>
                 /\ sending' = Drop(d, call[d].with) => Silent(d)
                 /\ Quiet(d, call[d].with) /\ sending' = sending => Silent(d)
           /\ In(d, "adopting") /\ sending' = [sending EXCEPT ![<<d, call[d].with>>] = <<>>]
                 => Silent(d)
<1> DEFINE s == call[d].with
           mute == [l \in Links |-> IF d \in {l[1], l[2]} THEN <<>> ELSE sending[l]]
<1>1. sending = [l \in Links |-> sending[l]] /\ mute = [l \in Links |-> mute[l]]
  BY DEF Inv, Typed
<1>2. \A l \in Links : d \in {l[1], l[2]} <=> \E t \in Servers : l \in Between(d, t)
  BY Ends DEF Between
<1>3. CASE call[d].phase \notin {"syncing", "adopting"}
  <2>1. \A t \in Servers : \A l \in Between(d, t) : sending[l] = <<>>
    BY <1>3, Idle DEF Between
  <2>2. \A l \in Links : sending[l] = mute[l]
    BY <1>2, <2>1
  <2>3. sending = mute
    BY <1>1, <2>2
  <2> QED
    BY <1>3, <2>3 DEF Silent, In
<1>4. CASE call[d].phase \in {"syncing", "adopting"}
  <2>1. s \in Servers
    BY <1>4, CallsAre DEF Inv, Typed
  <2>2. \A t \in Servers : t # s => \A l \in Between(d, t) : sending[l] = <<>>
    BY OneNode DEF Between
  <2>3. \A l \in Links : l \notin Between(d, s) => sending[l] = mute[l]
    BY <1>2, <2>2
  <2>4. \A l \in Links : l \in Between(d, s) => mute[l] = <<>>
    BY <1>2, <2>1
  <2>5. Drop(d, s) = mute
    <3> DEFINE drop == Drop(d, s)
    <3>1. \A l \in Links : drop[l] = mute[l]
      BY <2>3, <2>4 DEF Drop
    <3>2. drop = [l \in Links |-> drop[l]]
      BY DEF Drop
    <3> HIDE DEF mute, drop
    <3>3. drop = mute
      BY <1>1, <3>1, <3>2
    <3> QED
      BY <3>3 DEF drop
  <2>6. Quiet(d, s) => sending = mute
    <3>1. Quiet(d, s) => \A l \in Links : sending[l] = mute[l]
      BY <2>3, <2>4 DEF Quiet
    <3> HIDE DEF mute
    <3> QED
      BY <1>1, <3>1
  <2>7. In(d, "adopting") => [sending EXCEPT ![<<d, s>>] = <<>>] = mute
    <3> DEFINE cut == [sending EXCEPT ![<<d, s>>] = <<>>]
    <3>1. In(d, "adopting") => sending[<<s, d>>] = <<>>
      BY <2>1, OnePhase DEF Inv, Calm
    <3>2. In(d, "adopting") => \A l \in Links : cut[l] = mute[l]
      <4>1. \A l \in Links : cut[l] = IF l = <<d, s>> THEN <<>> ELSE sending[l]
        BY <1>1
      <4> HIDE DEF mute
      <4> QED
        BY <2>3, <2>4, <3>1, <4>1 DEF Between
    <3>3. cut = [l \in Links |-> cut[l]]
      BY <1>1
    <3> HIDE DEF mute, cut
    <3> QED
      BY <1>1, <3>2, <3>3 DEF cut
  <2> QED
    BY <1>4, <2>5, <2>6, <2>7 DEF Silent, In
<1> QED
  BY <1>3, <1>4

\* What a call leaves behind that ends, or that turns to the next node.
LEMMA CallEnds ==
    ASSUME Inv, NEW d \in Devices, NEW to \in Calls, Goes(d, to),
           to.phase \in {"none", "choosing"}, Silent(d)
    PROVE  /\ call' \in [Devices -> Calls] /\ sending' \in [Links -> Seq(Legible)]
           /\ \A e \in Devices : call'[e] = IF e = d THEN to ELSE call[e]
           /\ \A l \in Links : RecordsOf(sending'[l]) \subseteq RecordsOf(sending[l])
           /\ \A e \in Devices, s \in Servers : e # d => sending'[<<e, s>>] = sending[<<e, s>>]
           /\ Calm'
           /\ \A e \in Devices : Hand(e)' = IF e = d THEN {} ELSE Hand(e)
           /\ \A op : op.key \in Keys /\ Home[op.key] # d =>
                 \A r : Unsaved(r, op) => Unsaved(r, op)'
<1>1. \A e \in Devices : call'[e] = IF e = d THEN to ELSE call[e]
  BY CallGoes DEF Inv
<1>2. \A l \in Links : sending'[l] = IF d \in {l[1], l[2]} THEN <<>> ELSE sending[l]
  BY DEF Silent
<1>3. \A l \in Links : sending'[l] \in Seq(Legible) /\ RecordsOf(sending'[l]) \subseteq RecordsOf(sending[l])
  <2>1. \A l \in Links : sending'[l] = sending[l] \/ sending'[l] = <<>>
    BY <1>2
  <2>2. \A l \in Links : sending[l] \in Seq(Legible)
    BY DEF Inv, Typed
  <2>3. <<>> \in Seq(Legible) /\ RecordsOf(<<>>) = {}
    BY RecordsGrow
  <2> QED
    BY <2>1, <2>2, <2>3
<1>4. sending' \in [Links -> Seq(Legible)]
  BY <1>3 DEF Silent
<1>5. call' \in [Devices -> Calls]
  BY DEF Inv, Typed, Goes
<1>6. \A e \in Devices, s \in Servers :
         /\ sending'[<<e, s>>] = IF e = d THEN <<>> ELSE sending[<<e, s>>]
         /\ sending'[<<s, e>>] = IF e = d THEN <<>> ELSE sending[<<s, e>>]
  BY <1>2, Ends
<1>7. Calm'
  <2> SUFFICES ASSUME NEW e \in Devices, NEW s \in Servers
               PROVE  /\ sending'[<<s, e>>] # <<>> => In(e, "syncing")' /\ call'[e].with = s
                      /\ sending'[<<e, s>>] # <<>> =>
                            (In(e, "syncing")' \/ In(e, "adopting")') /\ call'[e].with = s
                      /\ In(e, "syncing")' => call'[e].owed \subseteq Between(e, call'[e].with)
    BY DEF Calm
  <2>1. CASE e = d
    BY <1>1, <1>6, <2>1 DEF In
  <2>2. CASE e # d
    BY <1>1, <1>6, <2>2 DEF In, Inv, Calm
  <2> QED
    BY <2>1, <2>2
<1>8. \A e \in Devices : Hand(e)' = IF e = d THEN {} ELSE Hand(e)
  BY <1>1 DEF Hand, In
<1>9. ASSUME NEW op, op.key \in Keys, Home[op.key] # d, NEW r, Unsaved(r, op)
      PROVE  Unsaved(r, op)'
  BY <1>1, <1>9, Ends DEF Unsaved, In
<1> QED
  BY <1>1, <1>3, <1>4, <1>5, <1>6, <1>7, <1>8, <1>9

\* Those who adopt while another call ends.
LEMMA CallEndsAside ==
    ASSUME Inv, NEW d \in Devices, NEW to \in Calls, Goes(d, to),
           to.phase \in {"none", "choosing"}, Silent(d),
           \A e \in Devices : e # d => log'[e] = log[e] /\ st'[e] = st[e]
    PROVE  Bystanders({})
<1> SUFFICES ASSUME NEW e \in Devices, In(e, "adopting")'
             PROVE  In(e, "adopting") /\ Kept(e)
  BY DEF Bystanders
<1>1. e # d /\ call'[e] = call[e]
  BY CallEnds DEF In
<1>2. In(e, "adopting")
  BY <1>1 DEF In
<1>3. call[e].with \in Servers
  BY <1>2, CallsAre DEF Inv, Typed, In
<1>4. sending'[<<e, call[e].with>>] = sending[<<e, call[e].with>>]
  BY <1>1, <1>3, CallEnds
<1> QED
  BY <1>1, <1>2, <1>4 DEF Kept

\* The exchange is over, and the call turns to the next node: Break, Refuse.
LEMMA TurnsAway ==
    ASSUME Inv, NEW d \in Devices, In(d, "syncing"), NEW to \in Calls, Goes(d, to),
           to.phase = "choosing", Silent(d), UNCHANGED <<log, st, file, lost>>
    PROVE  Inv'
<1>1. /\ call' \in [Devices -> Calls] /\ sending' \in [Links -> Seq(Legible)]
      /\ \A l \in Links : RecordsOf(sending'[l]) \subseteq RecordsOf(sending[l])
      /\ Calm'
      /\ \A e \in Devices : Hand(e)' = IF e = d THEN {} ELSE Hand(e)
      /\ \A op : op.key \in Keys /\ Home[op.key] # d => \A r : Unsaved(r, op) => Unsaved(r, op)'
  BY CallEnds
<1>2. Typed' /\ Journals'
  BY <1>1 DEF Inv, Typed, Journals
<1>3. \A r \in Replicas : RecordsAt(r)' = RecordsAt(r)
  BY DEF RecordsAt
<1>4. Traced'
  <2>1. Hand(d) = {}
    BY OnePhase DEF Hand
  <2>2. \A k \in Keys : Vouched(k)' = Vouched(k)
    BY <1>1, <2>1, Ends DEF Vouched
  <2>3. \A op : op.key \in Keys => \A r : Unsaved(r, op) => Unsaved(r, op)'
    BY <1>1, OnePhase DEF Unsaved
  <2>4. ASSUME NEW r \in Replicas, NEW op \in RecordsAt(r)'
        PROVE  op \in Vouched(op.key)' \/ Unsaved(r, op)'
    BY <1>3, <2>2, <2>3, KeysAre DEF Inv, Traced
  <2>5. ASSUME NEW e \in Devices, NEW op \in RecordsOf(file'[e].log)
        PROVE  op \in RecordsAt(e)' /\ op \in Vouched(op.key)'
    BY <1>3, <2>2, KeysAre, Ends DEF Inv, Traced
  <2>6. ASSUME NEW l \in Links, NEW op \in RecordsOf(sending'[l])
        PROVE  op \in Vouched(op.key)'
    BY <1>1, <2>2, KeysAre DEF Inv, Traced
  <2> QED
    BY <2>4, <2>5, <2>6 DEF Traced
<1>5. Adoptions'
  <2>1. \A op, l : Around(op, l)' => Around(op, l)
    BY <1>1, <1>3 DEF Around
  <2>2. \A l : NothingBut({}, l)
    BY <1>3, <2>1, Ends DEF NothingBut
  <2>3. Bystanders({})
    BY CallEndsAside
  <2> QED
    BY <2>2, <2>3, AdoptionsStay
<1> QED
  BY <1>1, <1>2, <1>4, <1>5 DEF Inv

\* The call ends without a save: TryNext without a node left, Die.
LEMMA GivesUp ==
    ASSUME Inv, NEW d \in Devices, ~In(d, "adopting"), Goes(d, NoCall), Silent(d),
           FromFile(d), file' = file, lost' = lost
    PROVE  Inv'
<1>1. /\ call' \in [Devices -> Calls] /\ sending' \in [Links -> Seq(Legible)]
      /\ \A l \in Links : RecordsOf(sending'[l]) \subseteq RecordsOf(sending[l])
      /\ Calm'
      /\ \A e \in Devices : Hand(e)' = IF e = d THEN {} ELSE Hand(e)
      /\ \A op : op.key \in Keys /\ Home[op.key] # d => \A r : Unsaved(r, op) => Unsaved(r, op)'
  BY CallsMade, CallEnds
<1>2. /\ Data'
      /\ \A r \in Replicas : RecordsAt(r)' = IF r = d THEN RecordsOf(file[d].log)
                                             ELSE RecordsAt(r)
      /\ \A r \in Replicas : r # d => log'[r] = log[r] /\ st'[r] = st[r]
  BY FromFileKeeps
<1>3. Typed' /\ Journals'
  BY <1>1, <1>2 DEF Inv, Typed, Data
<1>4. Traced'
  <2>1. Hand(d) = {}
    BY DEF Hand
  <2>2. \A k \in Keys : Vouched(k)' = Vouched(k)
    BY <1>1, <2>1, Ends DEF Vouched
  <2>3. ASSUME NEW r \in Replicas, NEW op \in RecordsAt(r)'
        PROVE  op \in Vouched(op.key)' \/ Unsaved(r, op)'
    <3>1. CASE r = d
      BY <1>2, <2>2, <3>1, KeysAre DEF Inv, Traced
    <3>2. CASE r # d
      BY <1>1, <1>2, <2>2, <3>2, KeysAre DEF Inv, Traced, Unsaved
    <3> QED
      BY <3>1, <3>2
  <2>4. ASSUME NEW e \in Devices, NEW op \in RecordsOf(file'[e].log)
        PROVE  op \in RecordsAt(e)' /\ op \in Vouched(op.key)'
    BY <1>2, <2>2, KeysAre, Ends DEF Inv, Traced
  <2>5. ASSUME NEW l \in Links, NEW op \in RecordsOf(sending'[l])
        PROVE  op \in Vouched(op.key)'
    BY <1>1, <2>2, KeysAre DEF Inv, Traced
  <2> QED
    BY <2>3, <2>4, <2>5 DEF Traced
<1>5. Adoptions'
  <2>1. \A op, l : Around(op, l)' => Around(op, l)
    BY <1>1, <1>2 DEF Around
  <2>2. \A l : NothingBut({}, l)
    BY <1>2, <2>1, Ends DEF NothingBut
  <2>3. Bystanders({})
    BY <1>2, CallsMade, CallEndsAside, Ends
  <2> QED
    BY <2>2, <2>3, AdoptionsStay
<1> QED
  BY <1>1, <1>3, <1>4, <1>5 DEF Inv

\* The journal of the call is saved: Finish, Pushed.
LEMMA Saves ==
    ASSUME Inv, NEW d \in Devices, ~In(d, "adopting"), NEW to \in Calls, Goes(d, to),
           to.phase \in {"none", "choosing"}, Silent(d), Save(d), UNCHANGED <<log, st, lost>>
    PROVE  Inv'
<1>1. /\ call' \in [Devices -> Calls] /\ sending' \in [Links -> Seq(Legible)]
      /\ \A l \in Links : RecordsOf(sending'[l]) \subseteq RecordsOf(sending[l])
      /\ Calm'
      /\ \A e \in Devices : Hand(e)' = IF e = d THEN {} ELSE Hand(e)
      /\ \A op : op.key \in Keys /\ Home[op.key] # d => \A r : Unsaved(r, op) => Unsaved(r, op)'
  BY CallEnds
<1>2. /\ Data'
      /\ \A e \in Devices : RecordsOf(file'[e].log) =
            IF e = d THEN RecordsAt(d) ELSE RecordsOf(file[e].log)
  BY SaveKeeps
<1>3. Typed' /\ Journals'
  BY <1>1, <1>2 DEF Inv, Typed, Data
<1>4. \A r \in Replicas : RecordsAt(r)' = RecordsAt(r)
  BY DEF RecordsAt
<1>5. Traced'
  <2>1. Hand(d) = {}
    BY DEF Hand
  <2>2. ASSUME NEW k \in Keys PROVE Vouched(k) \subseteq Vouched(k)'
    <3>1. CASE Home[k] = d
      <4>1. RecordsOf(file[d].log) \subseteq RecordsAt(d)
        BY DEF Inv, Traced
      <4> QED
        BY <1>1, <1>2, <2>1, <3>1, <4>1 DEF Vouched, SignedBy
    <3>2. CASE Home[k] # d
      BY <1>1, <1>2, <3>2, Ends DEF Vouched
    <3> QED
      BY <3>1, <3>2
  <2>3. ASSUME NEW op \in RecordsAt(d), Home[op.key] = d PROVE op \in Vouched(op.key)'
    BY <1>2, <2>3 DEF Vouched, SignedBy
  <2>4. ASSUME NEW r \in Replicas, NEW op \in RecordsAt(r)
        PROVE  op \in Vouched(op.key)' \/ (Unsaved(r, op)' /\ r # d)
    <3>1. op.key \in Keys /\ (op \in Vouched(op.key) \/ Unsaved(r, op))
      BY KeysAre DEF Inv, Traced
    <3>2. CASE op \in Vouched(op.key)
      BY <2>2, <3>1, <3>2
    <3>3. CASE Unsaved(r, op) /\ r = d
      BY <2>3, <3>3 DEF Unsaved
    <3>4. CASE Unsaved(r, op) /\ r # d
      BY <1>1, <3>1, <3>4 DEF Unsaved
    <3> QED
      BY <3>1, <3>2, <3>3, <3>4
  <2>5. ASSUME NEW e \in Devices, NEW op \in RecordsOf(file'[e].log)
        PROVE  op \in RecordsAt(e) /\ op \in Vouched(op.key)'
    <3>1. CASE e = d
      BY <1>2, <2>4, <3>1, Ends
    <3>2. CASE e # d
      BY <1>2, <2>2, <3>2, KeysAre DEF Inv, Traced
    <3> QED
      BY <3>1, <3>2
  <2>6. ASSUME NEW l \in Links, NEW op \in RecordsOf(sending'[l])
        PROVE  op \in Vouched(op.key)'
    BY <1>1, <2>2, KeysAre DEF Inv, Traced
  <2> QED
    BY <1>4, <2>4, <2>5, <2>6, Ends DEF Traced
<1>6. Adoptions'
  <2>1. \A op, l : Around(op, l)' => Around(op, l)
    BY <1>1, <1>2, <1>4, Ends DEF Around
  <2>2. \A l : NothingBut({}, l)
    BY <1>4, <2>1, Ends DEF NothingBut
  <2>3. Bystanders({})
    BY CallEndsAside
  <2> QED
    BY <2>2, <2>3, AdoptionsStay
<1> QED
  BY <1>1, <1>3, <1>5, <1>6 DEF Inv

\* The node has taken a journal with its own record: Adopted.
LEMMA AdoptedKeeps ==
    ASSUME Inv, NEW d \in Devices, Adopted(d)
    PROVE  Inv'
<1> SUFFICES ASSUME NEW s, NEW op, s = call[d].with, op = call[d].op
             PROVE  Inv'
  OBVIOUS
<1>1. /\ In(d, "adopting") /\ Quiet(d, s) /\ Take(d, op) /\ Goes(d, NoCall)
      /\ file' = [file EXCEPT ![d] = [log |-> Append(log[d], op),
                                      st |-> After(st[d], op, Kinds)]]
      /\ sending' = sending /\ lost' = lost
  BY DEF Adopted
<1>2. s \in Servers /\ op \in Legible /\ d \in Replicas /\ s \in Replicas
  BY <1>1, CallsAre, Ends DEF Inv, Typed, In
<1>3. Adopts(d, s, op)
  BY <1>1 DEF Inv, Adoptions
<1>4. Silent(d)
  BY <1>1, SilentIs DEF In
<1>5. /\ call' \in [Devices -> Calls] /\ sending' \in [Links -> Seq(Legible)]
      /\ Calm'
      /\ \A e \in Devices : Hand(e)' = IF e = d THEN {} ELSE Hand(e)
      /\ \A p : p.key \in Keys /\ Home[p.key] # d => \A r : Unsaved(r, p) => Unsaved(r, p)'
  BY <1>1, <1>4, CallsMade, CallEnds
<1>6. Journaled(Append(log[d], op), After(st[d], op, Kinds))
  BY <1>2, <1>3, JournaledGrows DEF Inv, Journals, Adopts
<1>7. \A r \in Replicas :
         /\ log'[r] = IF r = d THEN Append(log[d], op) ELSE log[r]
         /\ st'[r] = IF r = d THEN After(st[d], op, Kinds) ELSE st[r]
         /\ RecordsAt(r)' = IF r = d THEN RecordsAt(d) \cup {op} ELSE RecordsAt(r)
  BY <1>1, <1>2, TakeGives DEF Inv
<1>8. \A e \in Devices : file'[e] = IF e = d THEN [log |-> Append(log[d], op),
                                                   st |-> After(st[d], op, Kinds)]
                                    ELSE file[e]
  BY <1>1 DEF Inv, Typed
<1>9. \A e \in Devices : RecordsOf(file'[e].log) = IF e = d THEN RecordsAt(d) \cup {op}
                                                   ELSE RecordsOf(file[e].log)
  <2>1. RecordsOf(Append(log[d], op)) = RecordsAt(d) \cup {op}
    BY <1>2, RecordsGrow DEF Inv, Typed, RecordsAt
  <2>2. ASSUME NEW e \in Devices, e # d
        PROVE  RecordsOf(file'[e].log) = RecordsOf(file[e].log)
    BY <1>8, <2>2
  <2>3. file'[d].log = Append(log[d], op)
    BY <1>8
  <2> QED
    BY <2>1, <2>2, <2>3
<1>10. Typed' /\ Journals'
  <2>0. lost' \subseteq Legible
    BY <1>1 DEF Inv, Typed
  <2>1. \A r \in Replicas : Journaled(log'[r], st'[r])
    BY <1>6, <1>7 DEF Inv, Journals
  <2>2. ASSUME NEW e \in Devices PROVE Journaled(file'[e].log, file'[e].st)
    <3>1. CASE e = d
      <4>1. file'[d].log = Append(log[d], op) /\ file'[d].st = After(st[d], op, Kinds)
        BY <1>8
      <4> QED
        BY <1>6, <3>1, <4>1
    <3>2. CASE e # d
      BY <1>8, <3>2 DEF Inv, Journals
    <3> QED
      BY <3>1, <3>2
  <2>3. \A r \in Replicas : log'[r] \in Seq(Legible) /\ st'[r] \in States(Legible)
    BY <2>1 DEF Journaled
  <2>4. log' \in [Replicas -> Seq(Legible)] /\ st' \in [Replicas -> States(Legible)]
    BY <1>1, <2>3 DEF Take, Inv, Typed
  <2>5. Append(log[d], op) \in Seq(Legible) /\ After(st[d], op, Kinds) \in States(Legible)
    BY <1>6 DEF Journaled
  <2>6. file' \in [Devices -> [log : Seq(Legible), st : States(Legible)]]
    BY <1>1, <2>5 DEF Inv, Typed
  <2> QED
    BY <1>5, <2>0, <2>1, <2>2, <2>4, <2>6 DEF Typed, Journals
<1>11. Home[op.key] = d /\ op.key \in Keys
  BY <1>2, <1>3, LegibleIsTyped, RecordNumbers DEF Adopts
<1>12. Traced'
  <2>1. ASSUME NEW k \in Keys PROVE Vouched(k) \subseteq Vouched(k)'
    <3>1. CASE Home[k] = d
      <4>1. RecordsOf(file[d].log) \subseteq RecordsAt(d) /\ Hand(d) \subseteq {op}
        BY DEF Inv, Traced, Hand
      <4> QED
        BY <1>1, <1>9, <3>1, <4>1 DEF Vouched, SignedBy
    <3>2. CASE Home[k] # d
      BY <1>1, <1>5, <1>9, <3>2, Ends DEF Vouched
    <3> QED
      BY <3>1, <3>2
  <2>2. op \in Vouched(op.key)'
    BY <1>9, <1>11 DEF Vouched, SignedBy
  <2>3. ASSUME NEW r \in Replicas, NEW p \in RecordsAt(r)
        PROVE  p \in Vouched(p.key)' \/ (Unsaved(r, p)' /\ r # d)
    <3>1. p.key \in Keys /\ (p \in Vouched(p.key) \/ Unsaved(r, p))
      BY KeysAre DEF Inv, Traced
    <3>2. CASE p \in Vouched(p.key)
      BY <2>1, <3>1, <3>2
    <3>3. CASE Unsaved(r, p)
      BY <1>1, <1>5, <3>1, <3>3, OnePhase DEF Unsaved
    <3> QED
      BY <3>1, <3>2, <3>3
  <2>4. ASSUME NEW r \in Replicas, NEW p \in RecordsAt(r)'
        PROVE  p \in Vouched(p.key)' \/ (Unsaved(r, p)' /\ r # d)
    BY <1>7, <2>2, <2>3
  <2>5. ASSUME NEW e \in Devices, NEW p \in RecordsOf(file'[e].log)
        PROVE  p \in RecordsAt(e)' /\ p \in Vouched(p.key)'
    <3>1. CASE e = d
      BY <1>2, <1>7, <1>9, <2>4, <3>1
    <3>2. CASE e # d
      BY <1>7, <1>9, <2>1, <3>2, KeysAre, Ends DEF Inv, Traced
    <3> QED
      BY <3>1, <3>2
  <2>6. ASSUME NEW l \in Links, NEW p \in RecordsOf(sending'[l])
        PROVE  p \in Vouched(p.key)'
    BY <1>1, <2>1, KeysAre DEF Inv, Traced
  <2> QED
    BY <2>4, <2>5, <2>6 DEF Traced
<1>13. Adoptions'
  <2>1. ASSUME NEW p, NEW l, Around(p, l)', p # op PROVE Around(p, l)
    <3>1. \A r \in Replicas : p \in RecordsAt(r)' => p \in RecordsAt(r)
      BY <1>7, <2>1
    <3>2. \A e \in Devices : p \in RecordsOf(file'[e].log) =>
             p \in RecordsOf(file[e].log) \/ p \in RecordsAt(e)
      BY <1>9, <2>1
    <3> QED
      BY <1>1, <2>1, <3>1, <3>2, Ends DEF Around
  <2>2. \A l : NothingBut({op}, l)
    BY <1>1, <1>7, <2>1, Ends DEF NothingBut
  <2>3. Bystanders({})
    BY <1>1, <1>4, <1>7, CallsMade, CallEndsAside, Ends
  <2>4. \A e \in Devices : In(e, "adopting")' => e # d
    BY <1>1, CallGoes, CallsMade DEF In, Inv
  <2>5. Bystanders({op})
    BY <1>11, <2>3, <2>4 DEF Bystanders
  <2> QED
    BY <2>2, <2>5, AdoptionsStay
<1> QED
  BY <1>5, <1>10, <1>12, <1>13 DEF Inv

\* A record in hand is given up: if it is anywhere to be found, it is lost from
\* now on (AdoptionFails, Refuse).
LEMMA AdoptionEnds ==
    ASSUME Inv, NEW d \in Devices, In(d, "adopting"),
           Goes(d, NoCall), Silent(d), UNCHANGED <<log, st, file>>,
           lost \subseteq lost', lost' \subseteq lost \cup {call[d].op},
           Around(call[d].op, <<d, call[d].with>>) => call[d].op \in lost'
    PROVE  Inv'
<1> SUFFICES ASSUME NEW s, NEW op, s = call[d].with, op = call[d].op
             PROVE  Inv'
  OBVIOUS
<1>1. s \in Servers /\ op \in Legible
  BY CallsAre DEF Inv, Typed, In
<1>3. Around(op, <<d, s>>) => op \in lost'
  OBVIOUS
<1>4. /\ call' \in [Devices -> Calls] /\ sending' \in [Links -> Seq(Legible)]
      /\ \A l \in Links : RecordsOf(sending'[l]) \subseteq RecordsOf(sending[l])
      /\ Calm'
      /\ \A e \in Devices : Hand(e)' = IF e = d THEN {} ELSE Hand(e)
      /\ \A p : p.key \in Keys /\ Home[p.key] # d => \A r : Unsaved(r, p) => Unsaved(r, p)'
  BY CallsMade, CallEnds
<1>5. Typed' /\ Journals'
  BY <1>1, <1>4 DEF Inv, Typed, Journals
<1>6. \A r \in Replicas : RecordsAt(r)' = RecordsAt(r)
  BY DEF RecordsAt
<1>7. Traced'
  <2>1. ASSUME NEW p, p.key \in Keys, p \in Vouched(p.key), p # op \/ Around(op, <<d, s>>)
        PROVE  p \in Vouched(p.key)'
    BY <1>3, <1>4, <2>1, Ends DEF Vouched, SignedBy, Hand
  <2>2. ASSUME NEW r \in Replicas, NEW p \in RecordsAt(r)'
        PROVE  p \in Vouched(p.key)' \/ Unsaved(r, p)'
    <3>1. p \in RecordsAt(r) /\ p.key \in Keys /\ (p = op => Around(op, <<d, s>>))
      BY <1>6, KeysAre DEF Around
    <3>2. CASE p \in Vouched(p.key)
      BY <2>1, <3>1, <3>2
    <3>3. CASE Unsaved(r, p)
      BY <1>4, <3>1, <3>3, OnePhase DEF Unsaved
    <3> QED
      BY <3>1, <3>2, <3>3 DEF Inv, Traced
  <2>3. ASSUME NEW e \in Devices, NEW p \in RecordsOf(file'[e].log)
        PROVE  p \in RecordsAt(e)' /\ p \in Vouched(p.key)'
    <3>1. p.key \in Keys /\ (p = op => Around(op, <<d, s>>))
      BY KeysAre DEF Around
    <3> QED
      BY <1>6, <2>1, <3>1, Ends DEF Inv, Traced
  <2>4. ASSUME NEW l \in Links, NEW p \in RecordsOf(sending'[l])
        PROVE  p \in Vouched(p.key)'
    <3>1. sending'[<<d, s>>] = <<>>
      BY <1>1, Ends DEF Silent
    <3>2. l # <<d, s>>
      BY <3>1, RecordsGrow
    <3>3. p \in RecordsOf(sending[l]) /\ p.key \in Keys /\ (p = op => Around(op, <<d, s>>))
      BY <1>4, <3>2, KeysAre DEF Around
    <3> QED
      BY <2>1, <3>3 DEF Inv, Traced
  <2> QED
    BY <2>2, <2>3, <2>4 DEF Traced
<1>8. Adoptions'
  <2>1. \A p, l : Around(p, l)' => Around(p, l)
    BY <1>4, <1>6 DEF Around
  <2>2. \A l : NothingBut({}, l)
    BY <1>6, <2>1, Ends DEF NothingBut
  <2>3. Bystanders({})
    BY CallsMade, CallEndsAside
  <2> QED
    BY <2>2, <2>3, AdoptionsStay
<1> QED
  BY <1>4, <1>5, <1>7, <1>8 DEF Inv

\* An edit is in the journal of the call, and nowhere else yet: Sign.
LEMMA SignKeeps ==
    ASSUME Inv, NEW k \in Keys, NEW e \in Edits, NEW t \in 1..MaxTime, Sign(k, e[1], e[2], t)
    PROVE  Inv'
<1> DEFINE d == Home[k]
<1> SUFFICES ASSUME NEW op, op = Fresh(k, e[1], e[2], t)
             PROVE  Inv'
  OBVIOUS
<1>1. /\ In(d, "none") /\ Accepts(st[d], op, Kinds) /\ Take(d, op) /\ Goes(d, Edited)
      /\ UNCHANGED <<file, sending, lost>>
  BY DEF Sign, MayCall
<1>2. d \in Devices /\ d \in Replicas
  BY Ends
<1>3. op \in Legible /\ op.key = k /\ op.kind # "node.add"
  <2>1. Typed /\ e[1] # "node.add"
    BY EditsAreWellFormed DEF Inv
  <2>2. \E c \in Edits : e[1] = c[1] /\ e[2] = c[2]
    OBVIOUS
  <2> HIDE DEF d
  <2>3. /\ Fresh(k, e[1], e[2], t) \in Legible /\ Fresh(k, e[1], e[2], t).key = k
        /\ Fresh(k, e[1], e[2], t).kind = e[1]
    BY <2>1, <2>2, FreshIsLegible
  <2> QED
    BY <2>1, <2>3
<1> HIDE DEF d
<1>4. Data'
  BY <1>1, <1>2, <1>3, TakeKeeps
<1>5. \A c \in Devices : call'[c] = IF c = d THEN Edited ELSE call[c]
  BY <1>1, <1>2, CallGoes DEF Inv
<1>6. Typed' /\ Journals'
  BY <1>1, <1>4, CallsMade DEF Inv, Typed, Data, Goes
<1>7. \A r \in Replicas :
         /\ RecordsAt(r)' = IF r = d THEN RecordsAt(d) \cup {op} ELSE RecordsAt(r)
         /\ r # d => log'[r] = log[r] /\ st'[r] = st[r]
  BY <1>1, <1>2, <1>3, TakeGives DEF Inv
<1>8. Traced'
  <2>1. \A c \in Devices : Hand(c)' = Hand(c)
    BY <1>1, <1>5, CallsMade DEF Hand, In
  <2>2. \A q \in Keys : Vouched(q)' = Vouched(q)
    BY <1>1, <2>1, Ends DEF Vouched
  <2>3. Home[op.key] = d /\ In(d, "edited")'
    BY <1>2, <1>3, <1>5, CallsMade DEF d, In
  <2>4. Unsaved(d, op)'
    BY <1>3, <2>3 DEF Unsaved
  <2>5. ASSUME NEW r \in Replicas, NEW p, p.key \in Keys, Unsaved(r, p) PROVE Unsaved(r, p)'
    BY <1>1, <1>5, <2>5, CallsMade, Ends DEF Unsaved, In
  <2>6. ASSUME NEW r \in Replicas, NEW p \in RecordsAt(r)'
        PROVE  p \in Vouched(p.key)' \/ Unsaved(r, p)'
    <3>1. CASE p \in RecordsAt(r)
      BY <2>2, <2>5, <3>1, KeysAre DEF Inv, Traced
    <3>2. CASE p \notin RecordsAt(r)
      BY <1>7, <2>4, <3>2
    <3> QED
      BY <3>1, <3>2
  <2>7. ASSUME NEW c \in Devices, NEW p \in RecordsOf(file'[c].log)
        PROVE  p \in RecordsAt(c)' /\ p \in Vouched(p.key)'
    BY <1>1, <1>7, <2>2, KeysAre, Ends DEF Inv, Traced
  <2>8. ASSUME NEW l \in Links, NEW p \in RecordsOf(sending'[l])
        PROVE  p \in Vouched(p.key)'
    BY <1>1, <2>2, KeysAre DEF Inv, Traced
  <2> QED
    BY <2>6, <2>7, <2>8 DEF Traced
<1>9. Calm'
  <2> SUFFICES ASSUME NEW c \in Devices, NEW s \in Servers
               PROVE  /\ sending[<<s, c>>] # <<>> => In(c, "syncing")' /\ call'[c].with = s
                      /\ sending[<<c, s>>] # <<>> =>
                            (In(c, "syncing")' \/ In(c, "adopting")') /\ call'[c].with = s
                      /\ In(c, "syncing")' => call'[c].owed \subseteq Between(c, call'[c].with)
    BY <1>1 DEF Calm
  <2>1. CASE c = d
    BY <1>1, <1>5, <2>1, Idle, CallsMade DEF In
  <2>2. CASE c # d
    BY <1>5, <2>2 DEF In, Inv, Calm
  <2> QED
    BY <2>1, <2>2
<1>10. Adoptions'
  <2>1. ASSUME NEW p, NEW l, Around(p, l)' PROVE Around(p, l) \/ p \in {op}
    BY <1>1, <1>7, <2>1 DEF Around
  <2>2. \A l : NothingBut({op}, l)
    BY <1>1, <1>2, <1>7, <2>1, Ends DEF NothingBut
  <2>3. ASSUME NEW c \in Devices, In(c, "adopting")'
        PROVE  In(c, "adopting") /\ Kept(c) /\ Home[op.key] # c
    <3>1. c # d /\ call'[c] = call[c]
      BY <1>5, <2>3, CallsMade DEF In
    <3> QED
      BY <1>1, <1>3, <1>7, <2>3, <3>1, Ends DEF In, Kept, d
  <2> QED
    BY <2>2, <2>3, AdoptionsStay DEF Bystanders
<1> QED
  BY <1>6, <1>8, <1>9, <1>10 DEF Inv

\* What could be the next record of a key is nowhere in the world, if it is not
\* one that was lost and is signed again.
LEMMA NextIsNew ==
    ASSUME Inv, NEW op \in Legible, NEW d \in Devices, Home[op.key] = d, ~In(d, "adopting"),
           Accepts(st[d], op, Kinds)
    PROVE  \A l : Around(op, l) => op \in lost
<1>1. op.key \in Keys /\ d \in Replicas
  BY LegibleIsTyped, RecordNumbers, Ends
<1>2. op \notin RecordsAt(d)
  BY <1>1, PassingIsNext DEF Inv, Journals, RecordsAt
<1>3. op \notin Has(op.key)
  BY <1>2 DEF Has, Hand, SignedBy
<1>4. \A r \in Replicas : op \in RecordsAt(r) => op \in lost
  BY <1>3, HeldIsKnown
<1>5. op \in Vouched(op.key) => op \in lost
  BY <1>1, <1>3, HeldIsKnown
<1> QED
  BY <1>4, <1>5 DEF Inv, Traced, Around

\* A record is in hand for a fresh node, and on its way there: Adopt.
LEMMA AdoptKeeps ==
    ASSUME Inv, NEW k \in Keys, NEW s \in Servers, NEW t \in 1..MaxTime, Adopt(k, s, t)
    PROVE  Inv'
<1> SUFFICES ASSUME NEW d, d = Home[k], NEW op, op = Fresh(k, "node.add", NodeOf[s], t)
             PROVE  Inv'
  OBVIOUS
<1>1. /\ In(d, "none") /\ log[s] = <<>> /\ Accepts(st[d], op, Kinds) /\ Goes(d, Adopting(s, op))
      /\ sending' = [sending EXCEPT ![<<d, s>>] = Append(log[d], op)]
      /\ UNCHANGED <<log, st, file, lost>>
  BY DEF Adopt, MayCall
<1>2. /\ d \in Devices /\ d \in Replicas /\ s \in Replicas /\ <<d, s>> \in Links
      /\ d # s /\ s \notin Devices
  BY Ends
<1>3. op \in Legible /\ op.key = k /\ op.kind = "node.add" /\ op.obj = NodeOf[s]
  <2>1. Typed /\ NodeOf[s] \in Nodes
    BY ReplicationConstants DEF Inv
  <2>2. /\ Fresh(k, "node.add", NodeOf[s], t) \in Legible
        /\ Fresh(k, "node.add", NodeOf[s], t).key = k
        /\ Fresh(k, "node.add", NodeOf[s], t).kind = "node.add"
        /\ Fresh(k, "node.add", NodeOf[s], t).obj = NodeOf[s]
    BY <2>1, FreshIsLegible
  <2> QED
    BY <2>2
<1>4. \A l : Around(op, l) => op \in lost
  BY <1>1, <1>2, <1>3, OnePhase, NextIsNew
<1>5. /\ Adopting(s, op) \in Calls /\ Adopting(s, op).phase = "adopting"
      /\ Adopting(s, op).with = s /\ Adopting(s, op).op = op
  BY <1>3, CallsMade
<1>6. \A c \in Devices : call'[c] = IF c = d THEN Adopting(s, op) ELSE call[c]
  BY <1>1, <1>2, CallGoes DEF Inv
<1>7. \A l \in Links : sending'[l] = IF l = <<d, s>> THEN Append(log[d], op) ELSE sending[l]
  BY <1>1 DEF Inv, Typed
<1>8. log[d] \in Seq(Legible) /\ RecordsOf(Append(log[d], op)) = RecordsAt(d) \cup {op}
  BY <1>2, <1>3, RecordsGrow DEF Inv, Typed, RecordsAt
<1>9. Typed' /\ Journals'
  <2>1. call' \in [Devices -> Calls]
    BY <1>1, <1>5 DEF Inv, Typed, Goes
  <2>2. sending' \in [Links -> Seq(Legible)]
    <3>1. Append(log[d], op) \in Seq(Legible)
      BY <1>3, <1>8
    <3> QED
      BY <1>1, <1>2, <3>1 DEF Inv, Typed
  <2> QED
    BY <1>1, <2>1, <2>2 DEF Inv, Typed, Journals
<1>10. \A r \in Replicas : RecordsAt(r)' = RecordsAt(r)
  BY <1>1 DEF RecordsAt
<1>11. Traced'
  <2>1. \A c \in Devices : Hand(c) \subseteq Hand(c)'
    BY <1>1, <1>6, OnePhase DEF Hand, In
  <2>2. ASSUME NEW q \in Keys PROVE Vouched(q) \subseteq Vouched(q)'
    BY <1>1, <2>1, Ends DEF Vouched, SignedBy
  <2>3. op \in Vouched(op.key)'
    BY <1>2, <1>3, <1>5, <1>6 DEF Vouched, SignedBy, Hand, In
  <2>4. ASSUME NEW r \in Replicas, NEW p, p.key \in Keys, Unsaved(r, p) PROVE Unsaved(r, p)'
    BY <1>1, <1>6, <2>4, Ends DEF Unsaved, In
  <2>5. ASSUME NEW r \in Replicas, NEW p \in RecordsAt(r)'
        PROVE  p \in Vouched(p.key)' \/ Unsaved(r, p)'
    BY <1>10, <2>2, <2>4, KeysAre DEF Inv, Traced
  <2>6. ASSUME NEW c \in Devices, NEW p \in RecordsOf(file'[c].log)
        PROVE  p \in RecordsAt(c)' /\ p \in Vouched(p.key)'
    BY <1>1, <1>10, <2>2, KeysAre, Ends DEF Inv, Traced
  <2>7. ASSUME NEW p \in RecordsAt(d) PROVE p \in Vouched(p.key)'
    <3>1. ~Unsaved(d, p)
      BY <1>1, OnePhase DEF Unsaved
    <3> QED
      BY <1>2, <2>2, <3>1, KeysAre DEF Inv, Traced
  <2>8. ASSUME NEW l \in Links, NEW p \in RecordsOf(sending'[l])
        PROVE  p \in Vouched(p.key)'
    <3>1. CASE l = <<d, s>>
      BY <1>7, <1>8, <2>3, <2>7, <3>1
    <3>2. CASE l # <<d, s>>
      BY <1>7, <2>2, <3>2, KeysAre DEF Inv, Traced
    <3> QED
      BY <3>1, <3>2
  <2> QED
    BY <2>5, <2>6, <2>8 DEF Traced
<1>12. Calm'
  <2> SUFFICES ASSUME NEW c \in Devices, NEW u \in Servers
               PROVE  /\ sending'[<<u, c>>] # <<>> => In(c, "syncing")' /\ call'[c].with = u
                      /\ sending'[<<c, u>>] # <<>> =>
                            (In(c, "syncing")' \/ In(c, "adopting")') /\ call'[c].with = u
                      /\ In(c, "syncing")' => call'[c].owed \subseteq Between(c, call'[c].with)
    BY DEF Calm
  <2>1. sending'[<<u, c>>] = sending[<<u, c>>]
    BY <1>2, <1>7, Ends
  <2>2. <<c, u>> # <<d, s>> => sending'[<<c, u>>] = sending[<<c, u>>]
    BY <1>7, Ends
  <2>3. CASE c = d
    <3>1. sending[<<u, d>>] = <<>> /\ sending[<<d, u>>] = <<>>
      BY <1>1, <1>2, Idle DEF In
    <3>2. ~In(d, "syncing")' /\ In(d, "adopting")' /\ call'[d].with = s
      BY <1>2, <1>5, <1>6 DEF In
    <3> QED
      BY <2>1, <2>2, <2>3, <3>1, <3>2
  <2>4. CASE c # d
    BY <1>6, <2>1, <2>2, <2>4 DEF In, Inv, Calm
  <2> QED
    BY <2>3, <2>4
<1>13. Adoptions'
  <2>1. ASSUME NEW p, NEW l, Around(p, l)' PROVE Around(p, l) \/ p \in {op}
    <3>1. \A m \in Links : p \in RecordsOf(sending'[m]) =>
             p \in RecordsOf(sending[m]) \/ p \in RecordsAt(d) \/ p = op
      BY <1>7, <1>8
    <3> QED
      BY <1>1, <1>2, <1>10, <2>1, <3>1 DEF Around
  <2>2. \A l : NothingBut({op}, l)
    BY <1>1, <1>10, <2>1, Ends DEF NothingBut
  <2>3. ASSUME NEW c \in Devices, In(c, "adopting")', c # d
        PROVE  Adopts(c, call[c].with, call[c].op)'
    <3>1. call'[c] = call[c] /\ In(c, "adopting")
      BY <1>6, <2>3 DEF In
    <3>2. call[c].with \in Servers
      BY <3>1, CallsAre DEF Inv, Typed, In
    <3>3. Kept(c)
      BY <1>1, <1>7, <2>3, <3>1, <3>2, Ends DEF Kept
    <3>4. \A p \in {op} : Home[p.key] # c
      BY <1>3, <2>3
    <3>5. Adopts(c, call[c].with, call[c].op)'
      <4>1. PICK m : m = <<c, call[c].with>>
        OBVIOUS
      <4>2. NothingBut({op}, m)
        BY <2>2
      <4> QED
        BY <3>1, <3>3, <3>4, <4>1, <4>2, AdoptionStays
    <3> QED
      BY <3>5
  <2>4. Adopts(d, s, op)'
    <3>1. Around(op, <<d, s>>)' => op \in lost'
      <4>1. \A m \in Links : m # <<d, s>> => sending'[m] = sending[m]
        BY <1>7
      <4>2. Around(op, <<d, s>>)' => Around(op, <<d, s>>)
        BY <1>1, <1>10, <4>1 DEF Around
      <4> QED
        BY <1>1, <1>4, <4>2
    <3>3. sending'[<<d, s>>] = Append(log[d], op)
      BY <1>2, <1>7
    <3>4. /\ Append(log[d], op) # <<>>
          /\ Append(log[d], op)[Len(Append(log[d], op))] = op
          /\ \A i \in 1..(Len(Append(log[d], op)) - 1) : Append(log[d], op)[i] \in RecordsAt(d)
      <4>1. Len(Append(log[d], op)) = Len(log[d]) + 1 /\ Len(log[d]) \in Nat
        BY <1>8
      <4>2. \A i \in 1..Len(log[d]) : Append(log[d], op)[i] = log[d][i] /\ log[d][i] \in RecordsAt(d)
        BY <1>8, RecordsAre DEF RecordsAt
      <4>3. Append(log[d], op)[Len(log[d]) + 1] = op
        BY <1>8
      <4> QED
        BY <4>1, <4>2, <4>3
    <3> QED
      BY <1>1, <1>2, <1>3, <1>10, <3>1, <3>3, <3>4 DEF Adopts
  <2>5. call'[d].with = s /\ call'[d].op = op
    BY <1>2, <1>5, <1>6
  <2>6. Adopts(d, call[d].with, call[d].op)'
    BY <2>4, <2>5
  <2>7. ASSUME NEW c \in Devices, In(c, "adopting")' PROVE Adopts(c, call[c].with, call[c].op)'
    BY <2>3, <2>6, <2>7
  <2> QED
    BY <2>7 DEF Adoptions
<1> QED
  BY <1>9, <1>11, <1>12, <1>13 DEF Inv

\* One side's records go on their way: Offer.
LEMMA OfferKeeps ==
    ASSUME Inv, NEW d \in Devices, NEW l \in Links, Offer(d, l)
    PROVE  Inv'
<1>1. /\ In(d, "syncing") /\ l \in call[d].owed
      /\ sending' = [sending EXCEPT ![l] = Since(l[1], st[l[2]].counters)]
      /\ Goes(d, [call[d] EXCEPT !.owed = @ \ {l}])
      /\ UNCHANGED <<log, st, file, lost>>
  BY DEF Offer
<1> DEFINE s == call[d].with
           to == Syncing(s, call[d].owed \ {l}, call[d].untried)
<1>2. /\ s \in Servers /\ call[d].owed \in SUBSET Links /\ call[d].untried \in SUBSET Servers
      /\ [call[d] EXCEPT !.owed = @ \ {l}] = to
  BY <1>1, CallsAre DEF Inv, Typed, In
<1>3. /\ to \in Calls /\ to.phase = "syncing" /\ to.with = s /\ to.owed = call[d].owed \ {l}
  BY <1>2, CallsMade
<1>4. call[d].owed \subseteq Between(d, s)
  BY <1>1, <1>2 DEF Inv, Calm
<1>5. l = <<d, s>> \/ l = <<s, d>>
  BY <1>1, <1>4 DEF Between
<1>6. l[1] \in Replicas /\ (l[1] = d \/ l[1] \notin Devices)
  BY <1>2, <1>5, Ends
<1> HIDE DEF to
<1>7. \A c \in Devices : call'[c] = IF c = d THEN to ELSE call[c]
  BY <1>1, <1>2, CallGoes DEF Inv
<1>8. \A m \in Links : sending'[m] = IF m = l THEN Since(l[1], st[l[2]].counters) ELSE sending[m]
  BY <1>1 DEF Inv, Typed
<1>9. /\ Since(l[1], st[l[2]].counters) \in Seq(Legible)
      /\ RecordsOf(Since(l[1], st[l[2]].counters)) \subseteq RecordsAt(l[1])
  BY <1>6, SinceIsFromLog
<1>10. Typed' /\ Journals'
  <2>1. call' \in [Devices -> Calls]
    BY <1>1, <1>2, <1>3 DEF Inv, Typed, Goes
  <2>2. sending' \in [Links -> Seq(Legible)]
    BY <1>1, <1>9 DEF Inv, Typed
  <2> QED
    BY <1>1, <2>1, <2>2 DEF Inv, Typed, Journals
<1>11. \A r \in Replicas : RecordsAt(r)' = RecordsAt(r)
  BY <1>1 DEF RecordsAt
<1>12. Traced'
  <2>1. \A c \in Devices : Hand(c)' = Hand(c)
    BY <1>1, <1>3, <1>7, OnePhase DEF Hand, In
  <2>2. \A k \in Keys : Vouched(k)' = Vouched(k)
    BY <1>1, <2>1, Ends DEF Vouched
  <2>3. ASSUME NEW r \in Replicas, NEW p, p.key \in Keys, Unsaved(r, p) PROVE Unsaved(r, p)'
    BY <1>1, <1>7, <2>3, Ends DEF Unsaved, In
  <2>4. ASSUME NEW r \in Replicas, NEW p \in RecordsAt(r)'
        PROVE  p \in Vouched(p.key)' \/ Unsaved(r, p)'
    BY <1>11, <2>2, <2>3, KeysAre DEF Inv, Traced
  <2>5. ASSUME NEW c \in Devices, NEW p \in RecordsOf(file'[c].log)
        PROVE  p \in RecordsAt(c)' /\ p \in Vouched(p.key)'
    BY <1>1, <1>11, <2>2, KeysAre, Ends DEF Inv, Traced
  <2>6. ASSUME NEW p \in RecordsAt(l[1]) PROVE p \in Vouched(p.key)'
    <3>1. p.key \in Keys /\ Home[p.key] \in Devices
      BY <1>6, KeysAre, Ends
    <3>2. ~Unsaved(l[1], p)
      BY <1>1, <1>6, <3>1, OnePhase DEF Unsaved
    <3> QED
      BY <1>6, <2>2, <3>1, <3>2 DEF Inv, Traced
  <2>7. ASSUME NEW m \in Links, NEW p \in RecordsOf(sending'[m])
        PROVE  p \in Vouched(p.key)'
    <3>1. CASE m = l
      BY <1>8, <1>9, <2>6, <3>1
    <3>2. CASE m # l
      BY <1>8, <2>2, <3>2, KeysAre DEF Inv, Traced
    <3> QED
      BY <3>1, <3>2
  <2> QED
    BY <2>4, <2>5, <2>7 DEF Traced
<1>13. Calm'
  <2> SUFFICES ASSUME NEW c \in Devices, NEW u \in Servers
               PROVE  /\ sending'[<<u, c>>] # <<>> => In(c, "syncing")' /\ call'[c].with = u
                      /\ sending'[<<c, u>>] # <<>> =>
                            (In(c, "syncing")' \/ In(c, "adopting")') /\ call'[c].with = u
                      /\ In(c, "syncing")' => call'[c].owed \subseteq Between(c, call'[c].with)
    BY DEF Calm
  <2>1. CASE c = d
    <3>1. In(d, "syncing")' /\ call'[d].with = s /\ call'[d].owed \subseteq Between(d, s)
      BY <1>3, <1>4, <1>7 DEF In
    <3>2. ASSUME u # s PROVE sending'[<<u, d>>] = <<>> /\ sending'[<<d, u>>] = <<>>
      <4>1. sending[<<u, d>>] = <<>> /\ sending[<<d, u>>] = <<>>
        BY <3>2, OneNode
      <4>2. <<u, d>> # l /\ <<d, u>> # l
        BY <1>2, <1>5, <3>2, Ends
      <4> QED
        BY <1>8, <4>1, <4>2, Ends
    <3> QED
      BY <2>1, <3>1, <3>2
  <2>2. CASE c # d
    <3>1. <<u, c>> # l /\ <<c, u>> # l
      BY <1>2, <1>5, <2>2, Ends
    <3>2. sending'[<<u, c>>] = sending[<<u, c>>] /\ sending'[<<c, u>>] = sending[<<c, u>>]
      BY <1>8, <3>1, Ends
    <3> QED
      BY <1>7, <2>2, <3>2 DEF In, Inv, Calm
  <2> QED
    BY <2>1, <2>2
<1>14. Adoptions'
  <2>1. ASSUME NEW p, NEW m, Around(p, m)' PROVE Around(p, m)
    <3>1. \A n \in Links : p \in RecordsOf(sending'[n]) =>
             p \in RecordsOf(sending[n]) \/ p \in RecordsAt(l[1])
      BY <1>8, <1>9
    <3> QED
      BY <1>1, <1>6, <1>11, <2>1, <3>1 DEF Around
  <2>2. \A m : NothingBut({}, m)
    BY <1>1, <1>11, <2>1, Ends DEF NothingBut
  <2>3. ASSUME NEW c \in Devices, In(c, "adopting")'
        PROVE  In(c, "adopting") /\ Kept(c)
    <3>1. c # d /\ call'[c] = call[c] /\ In(c, "adopting")
      BY <1>3, <1>7, <2>3 DEF In
    <3>2. call[c].with \in Servers
      BY <3>1, CallsAre DEF Inv, Typed, In
    <3>3. <<c, call[c].with>> # l
      BY <1>2, <1>5, <3>1, <3>2, Ends
    <3> QED
      BY <1>1, <1>8, <3>1, <3>2, <3>3, Ends DEF Kept
  <2> QED
    BY <2>2, <2>3, AdoptionsStay DEF Bystanders
<1> QED
  BY <1>10, <1>12, <1>13, <1>14 DEF Inv

\* A node takes no more of what a device sends, and the exchange goes on: Refuse.
LEMMA RefusedReadsOn ==
    ASSUME Inv, NEW d \in Devices, NEW s \in Servers, In(d, "syncing"),
           sending' = [sending EXCEPT ![<<d, s>>] = <<>>],
           UNCHANGED <<log, st, file, call, lost>>
    PROVE  Inv'
<1>1. \A m \in Links : sending'[m] = IF m = <<d, s>> THEN <<>> ELSE sending[m]
  BY DEF Inv, Typed
<1>2. <<>> \in Seq(Legible) /\ RecordsOf(<<>>) = {}
  BY RecordsGrow
<1>3. \A m \in Links : RecordsOf(sending'[m]) \subseteq RecordsOf(sending[m])
  BY <1>1, <1>2
<1>4. Typed' /\ Journals'
  <2>1. sending' \in [Links -> Seq(Legible)]
    BY <1>2 DEF Inv, Typed
  <2> QED
    BY <2>1 DEF Inv, Typed, Journals
<1>5. \A r \in Replicas : RecordsAt(r)' = RecordsAt(r)
  BY DEF RecordsAt
<1>6. \A p : In(p, "adopting")' <=> In(p, "adopting")
  BY DEF In
<1>7. Traced'
  <2>1. \A k : Vouched(k)' = Vouched(k)
    BY DEF Vouched, Hand, In
  <2>2. \A r, p : Unsaved(r, p)' <=> Unsaved(r, p)
    BY DEF Unsaved, In
  <2>3. ASSUME NEW r \in Replicas, NEW p \in RecordsAt(r)'
        PROVE  p \in Vouched(p.key)' \/ Unsaved(r, p)'
    BY <1>5, <2>1, <2>2 DEF Inv, Traced
  <2>4. ASSUME NEW c \in Devices, NEW p \in RecordsOf(file'[c].log)
        PROVE  p \in RecordsAt(c)' /\ p \in Vouched(p.key)'
    BY <1>5, <2>1, Ends DEF Inv, Traced
  <2>5. ASSUME NEW m \in Links, NEW p \in RecordsOf(sending'[m])
        PROVE  p \in Vouched(p.key)'
    BY <1>3, <2>1 DEF Inv, Traced
  <2> QED
    BY <2>3, <2>4, <2>5 DEF Traced
<1>8. Calm'
  <2>1. \A c \in Devices, u \in Servers :
           /\ sending'[<<u, c>>] # <<>> => sending[<<u, c>>] # <<>>
           /\ sending'[<<c, u>>] # <<>> => sending[<<c, u>>] # <<>>
    BY <1>1, Ends
  <2> QED
    BY <2>1 DEF Inv, Calm, In
<1>9. Adoptions'
  <2>1. ASSUME NEW p, NEW m, Around(p, m)' PROVE Around(p, m)
    BY <1>3, <1>5, <2>1 DEF Around
  <2>2. \A m : NothingBut({}, m)
    BY <1>5, <2>1, Ends DEF NothingBut
  <2>3. ASSUME NEW c \in Devices, In(c, "adopting")'
        PROVE  In(c, "adopting") /\ Kept(c)
    <3>1. c # d /\ In(c, "adopting")
      BY <1>6, <2>3, OnePhase
    <3>2. call[c].with \in Servers
      BY <3>1, CallsAre DEF Inv, Typed, In
    <3> QED
      BY <1>1, <3>1, <3>2, Ends DEF Kept
  <2> QED
    BY <2>2, <2>3, AdoptionsStay DEF Bystanders
<1> QED
  BY <1>4, <1>7, <1>8, <1>9 DEF Inv

\* A record a journal passes over as known, and that founds no network, is
\* there: the journal has one with its number, and there is one of each, or one
\* of the two was lost.
LEMMA KnownIsThere ==
    ASSUME Inv, NEW r \in Replicas, NEW op \in Legible, op.kind # "genesis",
           op \in Has(op.key),
           Refusal(st[r], op, Kinds) \in {"Replay", "DoubleGenesis"}
    PROVE  op \in RecordsAt(r) \/ Doubled(op)
<1>1. op.key \in Keys /\ op.ctr \in Nat \ {0}
  BY LegibleIsTyped DEF Record
<1>2. op.ctr <= st[r].counters[op.key] /\ st[r].counters[op.key] \in Nat
  <2>1. MutateRefusal(st[r], op) \notin {"Replay", "DoubleGenesis"}
    BY DEF MutateRefusal
  <2>2. GenesisRefusal(op) \notin {"Replay", "DoubleGenesis"}
    BY DEF GenesisRefusal
  <2>3. Authorize(st[r], op) \notin {"Replay", "DoubleGenesis"}
    BY DEF Authorize
  <2>4. CheckSequence(st[r], op) = "Replay"
    BY <2>1, <2>2, <2>3 DEF Refusal, CheckSequence
  <2>5. st[r].counters[op.key] \in Nat
    BY <1>1 DEF Inv, Typed, States
  <2> QED
    BY <2>4, <2>5 DEF CheckSequence
<1>3. Journaled(log[r], st[r])
  BY DEF Inv, Journals
<1> DEFINE own == Own(log[r], op.key)
<1>4. op.ctr \in 1..Len(own)
  BY <1>1, <1>2, <1>3 DEF Journaled, Numbered
<1>5. own[op.ctr] \in SignedBy(RecordsAt(r), op.key) /\ own[op.ctr].ctr = op.ctr
  BY <1>1, <1>3, <1>4 DEF Journaled, Numbered, RecordsAt
<1>6. own[op.ctr] \in Has(op.key) \cup lost
  BY <1>5, HeldIsKnown DEF SignedBy
<1> HIDE DEF own
<1>7. own[op.ctr] = op \/ own[op.ctr] \in lost
  BY <1>1, <1>5, <1>6, OneRecord
<1> QED
  BY <1>5, <1>7 DEF SignedBy, Doubled

\* What an import changes, apart from the record.
LEMMA ImportIs ==
    ASSUME Inv, NEW l \in Links, Import(l)
    PROVE  /\ sending[l] # <<>> /\ Head(sending[l]) \in Legible
           /\ Head(sending[l]) \in RecordsOf(sending[l])
           /\ sending' \in [Links -> Seq(Legible)]
           /\ \A m \in Links : sending'[m] = IF m = l THEN Tail(sending[l]) ELSE sending[m]
           /\ \A m \in Links : RecordsOf(sending'[m]) \subseteq RecordsOf(sending[m])
           /\ l[2] \in Replicas /\ UNCHANGED <<file, call, lost>>
           /\ Data'
           /\ \A r \in Replicas : r # l[2] => log'[r] = log[r] /\ st'[r] = st[r]
           /\ \A r \in Replicas : r # l[2] => RecordsAt(r)' = RecordsAt(r)
           /\ \/ /\ Accepts(st[l[2]], Head(sending[l]), Kinds)
                 /\ RecordsAt(l[2])' = RecordsAt(l[2]) \cup {Head(sending[l])}
              \/ /\ Refusal(st[l[2]], Head(sending[l]), Kinds) \in {"Replay", "DoubleGenesis"}
                 /\ RecordsAt(l[2])' = RecordsAt(l[2])
<1>a. PICK op : op = Head(sending[l])
  OBVIOUS
<1>b. PICK way : way = sending[l]
  OBVIOUS
<1>c. PICK r : r = l[2]
  OBVIOUS
<1>1. way \in Seq(Legible) /\ way # <<>> /\ sending' = [sending EXCEPT ![l] = Tail(way)]
      /\ UNCHANGED <<file, call, lost>>
  BY <1>b DEF Import, Inv, Typed
<1>2. op \in Legible /\ op \in RecordsOf(way) /\ Tail(way) \in Seq(Legible)
      /\ RecordsOf(Tail(way)) \subseteq RecordsOf(way)
  <2>1. op = way[1] /\ 1 \in 1..Len(way)
    BY <1>1, <1>a, <1>b
  <2>2. Tail(way) \in Seq(Legible) /\ Len(Tail(way)) = Len(way) - 1 /\ Len(way) \in Nat
    BY <1>1
  <2>3. \A i \in 1..Len(Tail(way)) : Tail(way)[i] = way[i + 1]
    BY <1>1
  <2>4. \A i \in 1..Len(Tail(way)) : i + 1 \in 1..Len(way)
    BY <2>2
  <2>5. \A i \in 1..Len(Tail(way)) : Tail(way)[i] \in RecordsOf(way)
    BY <1>1, <2>3, <2>4, RecordsAre
  <2>6. RecordsOf(Tail(way)) \subseteq RecordsOf(way)
    <3> DEFINE W == RecordsOf(way)
    <3>1. \A i \in 1..Len(Tail(way)) : Tail(way)[i] \in W
      BY <2>5
    <3> HIDE DEF W
    <3>2. RecordsOf(Tail(way)) \subseteq W
      BY <3>1 DEF RecordsOf
    <3> QED
      BY <3>2 DEF W
  <2> QED
    BY <1>1, <2>1, <2>2, <2>6, RecordsAre
<1>3. /\ sending' \in [Links -> Seq(Legible)]
      /\ \A m \in Links : sending'[m] = IF m = l THEN Tail(way) ELSE sending[m]
  BY <1>1, <1>2 DEF Inv, Typed
<1>4. \A m \in Links : RecordsOf(sending'[m]) \subseteq RecordsOf(sending[m])
  BY <1>2, <1>3, <1>b
<1>5. r \in Replicas
  BY <1>c, Ends
<1>6. \/ Refusal(st[r], op, Kinds) = "none" /\ Take(r, op)
      \/ Refusal(st[r], op, Kinds) \in {"Replay", "DoubleGenesis"} /\ UNCHANGED <<log, st>>
  BY <1>a, <1>c DEF Import, Verdict, IsKnown
<1>7. /\ Data'
      /\ \A q \in Replicas : q # r => log'[q] = log[q] /\ st'[q] = st[q]
      /\ \A q \in Replicas : q # r => RecordsAt(q)' = RecordsAt(q)
      /\ \/ Accepts(st[r], op, Kinds) /\ RecordsAt(r)' = RecordsAt(r) \cup {op}
         \/ /\ Refusal(st[r], op, Kinds) \in {"Replay", "DoubleGenesis"}
            /\ RecordsAt(r)' = RecordsAt(r)
  <2>1. CASE Refusal(st[r], op, Kinds) = "none" /\ Take(r, op)
    <3>1. Accepts(st[r], op, Kinds)
      BY <2>1 DEF Accepts
    <3>2. Data'
      BY <1>1, <1>2, <1>5, <2>1, <3>1, TakeKeeps
    <3>3. \A q \in Replicas :
             /\ q # r => log'[q] = log[q] /\ st'[q] = st[q]
             /\ RecordsAt(q)' = IF q = r THEN RecordsAt(r) \cup {op} ELSE RecordsAt(q)
      BY <1>2, <1>5, <2>1, TakeGives DEF Inv
    <3> QED
      BY <1>5, <3>1, <3>2, <3>3
  <2>2. CASE /\ Refusal(st[r], op, Kinds) \in {"Replay", "DoubleGenesis"}
             /\ UNCHANGED <<log, st>>
    <3>1. Data'
      BY <1>1, <2>2 DEF Data, Inv, Typed, Journals
    <3>2. \A q \in Replicas : RecordsAt(q)' = RecordsAt(q)
      BY <2>2 DEF RecordsAt
    <3> QED
      BY <1>5, <2>2, <3>1, <3>2
  <2> QED
    BY <1>6, <2>1, <2>2
<1> QED
  BY <1>1, <1>2, <1>3, <1>4, <1>5, <1>7, <1>a, <1>b, <1>c

\* The first record under way comes to the journal it was sent to: Import.
LEMMA ImportKeeps ==
    ASSUME Inv, NEW l \in Links, Import(l)
    PROVE  Inv'
<1>a. PICK op : op = Head(sending[l])
  OBVIOUS
<1>b. PICK way : way = sending[l]
  OBVIOUS
<1>c. PICK r : r = l[2]
  OBVIOUS
<1>1. /\ way # <<>> /\ op \in Legible /\ op \in RecordsOf(way)
      /\ sending' \in [Links -> Seq(Legible)]
      /\ \A m \in Links : sending'[m] = IF m = l THEN Tail(way) ELSE sending[m]
      /\ \A m \in Links : RecordsOf(sending'[m]) \subseteq RecordsOf(sending[m])
      /\ r \in Replicas /\ UNCHANGED <<file, call, lost>>
      /\ Data'
      /\ \A q \in Replicas : q # r => log'[q] = log[q] /\ st'[q] = st[q]
      /\ \A q \in Replicas : q # r => RecordsAt(q)' = RecordsAt(q)
  BY <1>a, <1>b, <1>c, ImportIs
<1>2. \/ Accepts(st[r], op, Kinds) /\ RecordsAt(r)' = RecordsAt(r) \cup {op}
      \/ /\ Refusal(st[r], op, Kinds) \in {"Replay", "DoubleGenesis"}
         /\ RecordsAt(r)' = RecordsAt(r)
  BY <1>a, <1>c, ImportIs
<1>3. Typed' /\ Journals'
  BY <1>1 DEF Inv, Typed, Data
<1>4. \A q \in Replicas : /\ RecordsAt(q) \subseteq RecordsAt(q)'
                          /\ \A p \in RecordsAt(q)' : p \in RecordsAt(q) \/ (q = r /\ p = op)
  BY <1>1, <1>2
<1>5. Traced'
  <2>1. \A k : Vouched(k)' = Vouched(k)
    BY <1>1 DEF Vouched, Hand, In
  <2>2. \A q, p : Unsaved(q, p)' <=> Unsaved(q, p)
    BY <1>1 DEF Unsaved, In
  <2>3. op \in Vouched(op.key)
    BY <1>1, <1>b DEF Inv, Traced
  <2>4. ASSUME NEW q \in Replicas, NEW p \in RecordsAt(q)'
        PROVE  p \in Vouched(p.key)' \/ Unsaved(q, p)'
    BY <1>4, <2>1, <2>2, <2>3 DEF Inv, Traced
  <2>5. ASSUME NEW c \in Devices, NEW p \in RecordsOf(file'[c].log)
        PROVE  p \in RecordsAt(c)' /\ p \in Vouched(p.key)'
    BY <1>1, <1>4, <2>1, Ends DEF Inv, Traced
  <2>6. ASSUME NEW m \in Links, NEW p \in RecordsOf(sending'[m])
        PROVE  p \in Vouched(p.key)'
    BY <1>1, <2>1 DEF Inv, Traced
  <2> QED
    BY <2>4, <2>5, <2>6 DEF Traced
<1>6. Calm'
  <2>1. \A m \in Links : sending'[m] # <<>> => sending[m] # <<>>
    BY <1>1, <1>b
  <2> SUFFICES ASSUME NEW c \in Devices, NEW u \in Servers
               PROVE  /\ sending'[<<u, c>>] # <<>> => In(c, "syncing")' /\ call'[c].with = u
                      /\ sending'[<<c, u>>] # <<>> =>
                            (In(c, "syncing")' \/ In(c, "adopting")') /\ call'[c].with = u
                      /\ In(c, "syncing")' => call'[c].owed \subseteq Between(c, call'[c].with)
    BY DEF Calm
  <2>2. /\ sending'[<<u, c>>] # <<>> => sending[<<u, c>>] # <<>>
        /\ sending'[<<c, u>>] # <<>> => sending[<<c, u>>] # <<>>
    BY <2>1, Ends
  <2> QED
    BY <1>1, <2>2 DEF Inv, Calm, In
<1>7. Adoptions'
  <2> SUFFICES ASSUME NEW e \in Devices, In(e, "adopting")
               PROVE  Adopts(e, call[e].with, call[e].op)'
    BY <1>1 DEF Adoptions, In
  <2>1. PICK s, own : s = call[e].with /\ own = call[e].op
    OBVIOUS
  <2>2. s \in Servers /\ own \in Legible /\ <<e, s>> \in Links /\ s \in Replicas /\ e \in Replicas
    BY <2>1, CallsAre, Ends DEF Inv, Typed, In
  <2>3. Adopts(e, s, own)
    BY <2>1 DEF Inv, Adoptions
  <2>4. e # r
    <3> SUFFICES ASSUME e = r PROVE FALSE
      OBVIOUS
    <3>1. l[1] \in Servers /\ l = <<l[1], e>>
      BY <1>c, Ends
    <3>2. sending[<<l[1], e>>] # <<>>
      BY <1>1, <1>b, <3>1
    <3>3. In(e, "syncing")
      BY <3>1, <3>2 DEF Inv, Calm
    <3> QED
      BY <3>3, OnePhase
  <2>5. CASE l # <<e, s>>
    <3>1. PICK m : m = <<e, s>>
      OBVIOUS
    <3>2. Around(op, m)
      BY <1>1, <1>b, <2>5, <3>1 DEF Around
    <3>3. \A p : Around(p, m)' => Around(p, m)
      <4> SUFFICES ASSUME NEW p, Around(p, m)', p # op PROVE Around(p, m)
        BY <3>2
      <4> QED
        BY <1>1, <1>4 DEF Around
    <3>4. NothingBut({}, m)
      BY <1>1, <1>4, <3>3, Ends DEF NothingBut
    <3>5. Kept(e)
      BY <1>1, <2>1, <2>2, <2>4, <2>5 DEF Kept
    <3> QED
      BY <2>1, <3>1, <3>4, <3>5, AdoptionStays
  <2>6. CASE l = <<e, s>>
    <3>1. r = s
      BY <1>c, <2>6
    <3>2. way = sending[<<e, s>>] /\ (Around(own, <<e, s>>) => own \in lost)
      BY <1>1, <1>b, <2>3, <2>6 DEF Adopts
    <3>3. /\ way \in Seq(Legible) /\ way[Len(way)] = own
          /\ \A i \in 1..(Len(way) - 1) : way[i] \in RecordsAt(e)
      BY <1>1, <2>2, <2>3, <3>2 DEF Adopts, Inv, Typed
    <3>4. own \notin RecordsAt(e)
      BY <2>2, <2>3, PassingIsNext DEF Adopts, Inv, Journals, RecordsAt
    <3>5. sending'[<<e, s>>] = Tail(way) /\ RecordsAt(e)' = RecordsAt(e) /\ st'[e] = st[e]
      BY <1>1, <2>2, <2>4, <2>6
    <3>6. op = way[1] /\ Len(way) \in Nat \ {0}
      BY <1>1, <1>a, <1>b, <3>3
    <3>7. own.key \in Keys /\ own \in Has(own.key) /\ own.kind = "node.add"
      BY <2>1, <2>2, <2>3, LegibleIsTyped, RecordNumbers DEF Has, Hand, SignedBy, Adopts
    <3>11. /\ own.kind = "node.add" /\ own.obj = NodeOf[s] /\ Home[own.key] = e
           /\ Accepts(st'[e], own, Kinds)
      BY <2>3, <3>5 DEF Adopts
    <3>12. ASSUME \A q \in Replicas : own \in RecordsAt(q)' => own \in RecordsAt(q)
           PROVE  Around(own, <<e, s>>)' => own \in lost'
      <4>1. Around(own, <<e, s>>)' => Around(own, <<e, s>>)
        BY <1>1, <3>12 DEF Around
      <4> QED
        BY <1>1, <3>2, <4>1
    <3>8. ASSUME Len(way) = 1 PROVE Adopts(e, s, own)'
      <4>1. op = own /\ Tail(way) = <<>>
        <5>1. Tail(way) \in Seq(Legible) /\ Len(Tail(way)) = 0
          BY <1>1, <3>3, <3>6, <3>8
        <5> QED
          BY <3>3, <3>6, <3>8, <5>1, EmptySeq
      <4>2. own \in RecordsAt(s)' \/ Doubled(own)'
        <5>1. CASE Refusal(st[s], own, Kinds) \in {"Replay", "DoubleGenesis"}
          <6>1. own \in RecordsAt(s) \/ Doubled(own)
            BY <2>2, <3>7, <5>1, KnownIsThere
          <6> QED
            BY <1>1, <1>4, <2>2, <6>1 DEF Doubled
        <5>2. CASE Refusal(st[s], own, Kinds) \notin {"Replay", "DoubleGenesis"}
          BY <1>2, <3>1, <4>1, <5>2
        <5> QED
          BY <5>1, <5>2
      <4>3. Around(own, <<e, s>>)' => own \in lost' \/ own \in RecordsAt(s)'
        BY <1>4, <3>1, <3>12
      <4>4. sending'[<<e, s>>] = <<>>
        BY <3>5, <4>1
      <4> QED
        BY <3>11, <4>2, <4>3, <4>4 DEF Adopts
    <3>9. ASSUME Len(way) # 1 PROVE Adopts(e, s, own)'
      <4>1. op # own
        <5> DEFINE n == Len(way)
        <5>2. n \in Nat \ {0} /\ n # 1
          BY <3>6, <3>9
        <5> HIDE DEF n
        <5>3. 1 \in 1..(n - 1)
          BY <5>2
        <5>1. 1 \in 1..(Len(way) - 1)
          BY <5>3 DEF n
        <5> QED
          BY <3>3, <3>4, <3>6, <5>1
      <4>3. Around(own, <<e, s>>)' => own \in lost'
        BY <1>4, <3>12, <4>1
      <4>4. /\ Tail(way) # <<>> /\ Tail(way)[Len(Tail(way))] = own
            /\ \A i \in 1..(Len(Tail(way)) - 1) : Tail(way)[i] \in RecordsAt(e)
        <5>1. Len(Tail(way)) = Len(way) - 1 /\ \A i \in 1..Len(Tail(way)) : Tail(way)[i] = way[i + 1]
          BY <3>3, <3>6
        <5>2. Len(Tail(way)) \in 1..Len(way) /\ Len(Tail(way)) + 1 = Len(way)
          BY <3>6, <3>9, <5>1
        <5>3. \A i \in 1..(Len(Tail(way)) - 1) : i + 1 \in 1..(Len(way) - 1) /\ i \in 1..Len(Tail(way))
          BY <5>2
        <5>4. Tail(way) # <<>>
          <6>1. Len(Tail(way)) # 0
            BY <3>6, <5>2
          <6>2. Len(<<>>) = 0
            OBVIOUS
          <6> QED
            BY <6>1, <6>2
        <5>5. Tail(way)[Len(Tail(way))] = own
          BY <3>3, <5>1, <5>2
        <5> QED
          BY <3>3, <5>1, <5>3, <5>4, <5>5
      <4> QED
        BY <3>5, <3>11, <4>3, <4>4 DEF Adopts
    <3>10. Adopts(e, s, own)'
      BY <3>8, <3>9
    <3> QED
      BY <1>1, <2>1, <3>10
  <2> QED
    BY <2>5, <2>6
<1> QED
  BY <1>3, <1>5, <1>6, <1>7 DEF Inv

\* A record is refused: Refuse.
LEMMA RefuseKeeps ==
    ASSUME Inv, NEW l \in Links, Refuse(l)
    PROVE  Inv'
<1>1. sending[l] # <<>> /\ UNCHANGED <<log, st, file, lost>>
  BY DEF Refuse, Refuses
<1>2. CASE l[2] \in Devices
  <2>1. PICK d, s : d = l[2] /\ s = l[1]
    OBVIOUS
  <2>2. d \in Devices /\ s \in Servers /\ l = <<s, d>>
    BY <1>2, <2>1, Ends
  <2>3. In(d, "syncing") /\ call[d].with = s
    BY <1>1, <2>2 DEF Inv, Calm
  <2>4. sending' = Drop(d, s) /\ Goes(d, Choosing(call[d].untried))
    BY <1>2, <2>1 DEF Refuse
  <2>5. Silent(d)
    BY <2>2, <2>3, <2>4, SilentIs DEF In
  <2>6. Choosing(call[d].untried) \in Calls /\ Choosing(call[d].untried).phase = "choosing"
    BY <2>2, <2>3, CallsAre, CallsMade DEF Inv, Typed, In
  <2> QED
    BY <1>1, <2>2, <2>3, <2>4, <2>5, <2>6, TurnsAway
<1>3. CASE l[2] \notin Devices
  <2>1. PICK d, s : d = l[1] /\ s = l[2]
    OBVIOUS
  <2>2. d \in Devices /\ s \in Servers /\ l = <<d, s>>
    BY <1>3, <2>1, Ends
  <2>3. (In(d, "syncing") \/ In(d, "adopting")) /\ call[d].with = s
    BY <1>1, <2>2 DEF Inv, Calm
  <2>4. /\ sending' = [sending EXCEPT ![<<d, s>>] = <<>>]
        /\ IF In(d, "adopting") THEN Goes(d, NoCall) ELSE UNCHANGED call
    BY <1>3, <2>1, <2>2 DEF Refuse
  <2>5. CASE In(d, "adopting")
    <3>1. Silent(d)
      BY <2>2, <2>3, <2>4, <2>5, SilentIs
    <3>2. Around(call[d].op, <<d, s>>) => call[d].op \in lost
      BY <1>1, <2>2, <2>3, <2>5 DEF Inv, Adoptions, Adopts
    <3> QED
      BY <1>1, <2>2, <2>3, <2>4, <2>5, <3>1, <3>2, AdoptionEnds
  <2>6. CASE ~In(d, "adopting")
    BY <1>1, <2>2, <2>3, <2>4, <2>6, RefusedReadsOn
  <2> QED
    BY <2>5, <2>6
<1> QED
  BY <1>2, <1>3

-----------------------------------------------------------------------------
\* The invariant holds throughout.

\* No step breaks it.
LEMMA NextKeeps ==
    ASSUME Inv, [Next]_vars
    PROVE  Inv'
<1>1. ASSUME NEW k \in Keys, NEW t \in 1..MaxTime, NEW e \in Edits, Sign(k, e[1], e[2], t)
      PROVE  Inv'
  BY <1>1, SignKeeps
<1>2. ASSUME NEW k \in Keys, NEW t \in 1..MaxTime, NEW s \in Servers, Adopt(k, s, t)
      PROVE  Inv'
  BY <1>2, AdoptKeeps
<1>3. ASSUME NEW d \in Devices, Finish(d) PROVE Inv'
  <2>1. /\ In(d, "edited") /\ Save(d) /\ Goes(d, Choosing(Known(d)))
        /\ UNCHANGED <<log, st, sending, lost>>
    BY <1>3 DEF Finish
  <2>2. Silent(d)
    BY <2>1, SilentIs DEF In
  <2>3. Choosing(Known(d)) \in Calls /\ Choosing(Known(d)).phase = "choosing"
    BY CallsMade DEF Known
  <2> QED
    BY <2>1, <2>2, <2>3, OnePhase, Saves
<1>4. ASSUME NEW d \in Devices, SyncNetwork(d) PROVE Inv'
  <2>1. In(d, "none") /\ Goes(d, Choosing(Known(d))) /\ UNCHANGED <<log, st, file, sending, lost>>
    BY <1>4 DEF SyncNetwork, MayCall
  <2>2. Choosing(Known(d)) \in Calls /\ Choosing(Known(d)).phase = "choosing"
    BY CallsMade DEF Known
  <2> QED
    BY <2>1, <2>2, CallMoves DEF In
<1>5. ASSUME NEW d \in Devices, Restore(d) PROVE Inv'
  <2>1. In(d, "none") /\ Goes(d, Choosing(LinkNames)) /\ UNCHANGED <<log, st, file, sending, lost>>
    BY <1>5 DEF Restore
  <2>2. Choosing(LinkNames) \in Calls /\ Choosing(LinkNames).phase = "choosing"
    BY CallsMade DEF LinkNames
  <2> QED
    BY <2>1, <2>2, CallMoves DEF In
<1>6. ASSUME NEW d \in Devices, TryNext(d) PROVE Inv'
  <2>1. In(d, "choosing") /\ UNCHANGED <<file, sending, lost>>
    BY <1>6 DEF TryNext
  <2>2. ASSUME NEW s \in call[d].untried,
               Goes(d, Syncing(s, Between(d, s), call[d].untried \ {s})), UNCHANGED <<log, st>>
        PROVE  Inv'
    <3> DEFINE to == Syncing(s, Between(d, s), call[d].untried \ {s})
    <3>1. s \in Servers /\ call[d].untried \ {s} \in SUBSET Servers /\ Between(d, s) \in SUBSET Links
      BY <2>1, CallsAre, Ends DEF Inv, Typed, In
    <3>2. to \in Calls /\ to.phase = "syncing" /\ to.with = s /\ to.owed = Between(d, s)
      BY <3>1, CallsMade
    <3>3. Goes(d, to)
      BY <2>2
    <3> HIDE DEF to
    <3> QED
      BY <2>1, <2>2, <3>2, <3>3, CallMoves DEF In
  <2>3. ASSUME Goes(d, NoCall), FromFile(d) PROVE Inv'
    <3>1. Silent(d)
      BY <2>1, SilentIs DEF In
    <3> QED
      BY <2>1, <2>3, <3>1, OnePhase, GivesUp
  <2> QED
    BY <1>6, <2>2, <2>3 DEF TryNext
<1>7. ASSUME NEW d \in Devices, Pushed(d) PROVE Inv'
  <2>1. /\ In(d, "syncing") /\ Quiet(d, call[d].with) /\ Save(d) /\ Goes(d, NoCall)
        /\ UNCHANGED <<log, st, sending, lost>>
    BY <1>7 DEF Pushed
  <2>2. Silent(d)
    BY <2>1, SilentIs DEF In
  <2> QED
    BY <2>1, <2>2, CallsMade, OnePhase, Saves
<1>8. ASSUME NEW d \in Devices, Break(d) PROVE Inv'
  <2>1. /\ In(d, "syncing") /\ sending' = Drop(d, call[d].with)
        /\ Goes(d, Choosing(call[d].untried)) /\ UNCHANGED <<log, st, file, lost>>
    BY <1>8 DEF Break
  <2>2. Silent(d)
    BY <2>1, SilentIs DEF In
  <2>3. Choosing(call[d].untried) \in Calls /\ Choosing(call[d].untried).phase = "choosing"
    BY <2>1, CallsAre, CallsMade DEF Inv, Typed, In
  <2> QED
    BY <2>1, <2>2, <2>3, TurnsAway
<1>9. ASSUME NEW d \in Devices, Die(d) PROVE Inv'
  <2>1. /\ call[d].phase \in {"edited", "syncing"} /\ FromFile(d) /\ Goes(d, NoCall) /\ file' = file
        /\ lost' = lost
        /\ sending' = IF In(d, "syncing") THEN Drop(d, call[d].with) ELSE sending
    BY <1>9 DEF Die
  <2>2. Silent(d)
    BY <2>1, SilentIs DEF In
  <2> QED
    BY <2>1, <2>2, GivesUp DEF In
<1>10. ASSUME NEW d \in Devices, AdoptionFails(d) PROVE Inv'
  <2>1. PICK s, op : s = call[d].with /\ op = call[d].op
    OBVIOUS
  <2>2. /\ In(d, "adopting") /\ sending' = Drop(d, s) /\ lost' = lost \cup ({op} \cap RecordsAt(s))
        /\ Goes(d, NoCall) /\ UNCHANGED <<log, st, file>>
    BY <1>10, <2>1 DEF AdoptionFails
  <2>3. Silent(d)
    BY <2>1, <2>2, SilentIs DEF In
  <2>4. Around(op, <<d, s>>) => op \in lost'
    BY <2>1, <2>2 DEF Inv, Adoptions, Adopts
  <2> QED
    BY <2>1, <2>2, <2>3, <2>4, AdoptionEnds
<1>11. ASSUME NEW d \in Devices, Adopted(d) PROVE Inv'
  BY <1>11, AdoptedKeeps
<1>12. ASSUME NEW d \in Devices, NEW l \in Links, Offer(d, l) PROVE Inv'
  BY <1>12, OfferKeeps
<1>13. ASSUME NEW l \in Links, Import(l) PROVE Inv'
  BY <1>13, ImportKeeps
<1>14. ASSUME NEW l \in Links, Refuse(l) PROVE Inv'
  BY <1>14, RefuseKeeps
<1>15. ASSUME UNCHANGED vars PROVE Inv'
  <2>1. UNCHANGED <<log, st, file, call, sending, lost>>
    BY <1>15 DEF vars
  <2>2. Typed' /\ Journals'
    BY <2>1 DEF Inv, Typed, Journals
  <2>3. Traced'
    BY <2>1 DEF Inv, Traced, Vouched, Hand, Unsaved, RecordsAt, In
  <2>4. Calm'
    BY <2>1 DEF Inv, Calm, In
  <2>5. Adoptions'
    BY <2>1 DEF Inv, Adoptions, Adopts, Around, Doubled, RecordsAt, In
  <2> QED
    BY <2>2, <2>3, <2>4, <2>5 DEF Inv
<1> QED
  BY <1>1, <1>2, <1>3, <1>4, <1>5, <1>6, <1>7, <1>8, <1>9, <1>10, <1>11, <1>12, <1>13, <1>14,
     <1>15 DEF Next

\* In every state the journals are what Inv says.
LEMMA Always == Spec => []Inv
<1>1. Inv /\ [Next]_vars => Inv'
  BY NextKeeps
<1> QED
  BY <1>1, Begins, PTL DEF Spec

\* A key that is not forked has one record to a number, lost ones included.
LEMMA OneUnforked ==
    ASSUME Inv, NEW k \in Keys, ~Forked(k), NEW p \in Has(k) \cup lost,
           NEW q \in Has(k) \cup lost, p.key = k, q.key = k, p.ctr = q.ctr
    PROVE  p = q
<1>1. CASE p \in Has(k) /\ q \in Has(k)
  BY <1>1, OneRecord
<1>2. CASE p \in lost \/ q \in lost
  <2>1. /\ p \in lost \cup RecordsAt(Home[k]) \cup Hand(Home[k])
        /\ q \in lost \cup RecordsAt(Home[k]) \cup Hand(Home[k])
    BY DEF Has, SignedBy
  <2>2. ~Doubled(p) /\ ~Doubled(q)
    BY <2>1 DEF Forked
  <2> QED
    BY <1>2, <2>2 DEF Doubled
<1> QED
  BY <1>1, <1>2

\* Journals that have got equally far with every key, and alike with those that
\* were forked, have the same records.
LEMMA SameCountersSameRecords ==
    ASSUME Inv, NEW a \in Replicas, NEW b \in Replicas, st[a].counters = st[b].counters,
           \A k \in Keys : Forked(k) => OfKey(a, k) = OfKey(b, k)
    PROVE  RecordsAt(a) \subseteq RecordsAt(b)
<1> SUFFICES ASSUME NEW op \in RecordsAt(a) PROVE op \in RecordsAt(b)
  OBVIOUS
<1>1. op.key \in Keys /\ op \in Has(op.key) \cup lost
  BY HeldIsKnown
<1>2. Journaled(log[a], st[a]) /\ Journaled(log[b], st[b])
  BY DEF Inv, Journals
<1> DEFINE theirs == Own(log[a], op.key)
           own == Own(log[b], op.key)
<1>3. op.ctr \in 1..Len(own) /\ theirs[op.ctr] = op
  BY <1>1, <1>2 DEF Journaled, Numbered, RecordsAt
<1>4. own[op.ctr] \in SignedBy(RecordsAt(b), op.key) /\ own[op.ctr].ctr = op.ctr
  BY <1>1, <1>2, <1>3 DEF Journaled, Numbered, RecordsAt
<1>5. /\ own[op.ctr] \in RecordsAt(b) /\ own[op.ctr].key = op.key
      /\ own[op.ctr] \in Has(op.key) \cup lost
  BY <1>4, HeldIsKnown DEF SignedBy
<1>6. CASE Forked(op.key)
  <2>1. theirs = own
    BY <1>1, <1>6 DEF OfKey, Own, RecordsAt
  <2> HIDE DEF theirs, own
  <2> QED
    BY <1>3, <1>5, <2>1
<1>7. CASE ~Forked(op.key)
  <2> HIDE DEF own
  <2>1. own[op.ctr] = op
    BY <1>1, <1>4, <1>5, <1>7, OneUnforked
  <2> QED
    BY <1>5, <2>1
<1> QED
  BY <1>6, <1>7

-----------------------------------------------------------------------------
\* What becomes of lost records.

\* A call that is not under way, and an adoption, have in memory what is in the file.
Settled == \A d \in Devices : call[d].phase \in {"none", "adopting"} => log[d] = file[d].log

\* A lost record is with the node it names, and was the next one of its key.
Losses ==
    \A op \in lost :
        /\ \E s \in Servers : op.obj = NodeOf[s] /\ op \in RecordsAt(s)
        /\ \/ op.ctr = 1
           \/ \E p \in RecordsOf(file[Home[op.key]].log) :
                 p.key = op.key /\ p.ctr = op.ctr - 1

\* Nodes, files and what is lost only grow.
LEMMA Growing ==
    ASSUME Inv, [Next]_vars
    PROVE  /\ \A s \in Servers : RecordsAt(s) \subseteq RecordsAt(s)'
           /\ \A d \in Devices : RecordsOf(file[d].log) \subseteq RecordsOf(file'[d].log)
           /\ lost' = lost \/ \E d \in Devices : AdoptionFails(d)
           /\ lost \subseteq lost'
<1> DEFINE Grown == /\ \A s \in Servers : RecordsAt(s) \subseteq RecordsAt(s)'
                    /\ \A d \in Devices : RecordsOf(file[d].log) \subseteq RecordsOf(file'[d].log)
<1>1. ASSUME log' = log, file' = file PROVE Grown
  BY <1>1 DEF RecordsAt
<1>2. ASSUME NEW d \in Devices, FromFile(d), file' = file PROVE Grown
  <2>1. \A s \in Servers : log'[s] = log[s]
    BY <1>2, FromFileKeeps, Ends
  <2> QED
    BY <1>2, <2>1 DEF RecordsAt
<1>3. ASSUME NEW d \in Devices, Save(d), log' = log, st' = st PROVE Grown
  <2>1. \A e \in Devices : RecordsOf(file'[e].log) =
            IF e = d THEN RecordsAt(d) ELSE RecordsOf(file[e].log)
    BY <1>3, SaveKeeps
  <2>2. RecordsOf(file[d].log) \subseteq RecordsAt(d)
    BY DEF Inv, Traced
  <2> QED
    BY <1>3, <2>1, <2>2 DEF RecordsAt
<1>4. ASSUME NEW k \in Keys, NEW kind, NEW obj, NEW time, Sign(k, kind, obj, time)
      PROVE  Grown
  <2>1. Take(Home[k], Fresh(k, kind, obj, time)) /\ file' = file
    BY <1>4 DEF Sign
  <2>2. \A s \in Servers : log'[s] = log[s]
    BY <2>1, Ends DEF Take, Inv, Typed
  <2> QED
    BY <2>1, <2>2 DEF RecordsAt
<1>5. ASSUME NEW d \in Devices, Adopted(d) PROVE Grown
  <2>1. PICK op : op = call[d].op
    OBVIOUS
  <2>2. /\ Take(d, op)
        /\ file' = [file EXCEPT ![d] = [log |-> Append(log[d], op),
                                        st |-> After(st[d], op, Kinds)]]
    BY <1>5, <2>1 DEF Adopted
  <2>3. op \in Legible /\ log[d] \in Seq(Legible)
    BY <1>5, <2>1, CallsAre, Ends DEF Inv, Typed, Adopted, In
  <2>4. \A s \in Servers : log'[s] = log[s]
    BY <2>2, Ends DEF Take, Inv, Typed
  <2>5. RecordsOf(Append(log[d], op)) = RecordsAt(d) \cup {op}
    BY <2>3, RecordsGrow DEF RecordsAt
  <2>6. \A e \in Devices : file'[e].log = IF e = d THEN Append(log[d], op) ELSE file[e].log
    BY <2>2 DEF Inv, Typed
  <2>7. RecordsOf(file[d].log) \subseteq RecordsAt(d)
    BY DEF Inv, Traced
  <2>8. ASSUME NEW e \in Devices
        PROVE  RecordsOf(file[e].log) \subseteq RecordsOf(file'[e].log)
    <3>1. CASE e = d
      BY <2>5, <2>6, <2>7, <3>1
    <3>2. CASE e # d
      BY <2>6, <3>2
    <3> QED
      BY <3>1, <3>2
  <2> QED
    BY <2>4, <2>8 DEF RecordsAt
<1>6. ASSUME NEW l \in Links, Import(l) PROVE Grown
  <2>1. \A q \in Replicas : RecordsAt(q) \subseteq RecordsAt(q)'
    BY <1>6, ImportIs
  <2>2. file' = file
    BY <1>6 DEF Import
  <2> QED
    BY <2>1, <2>2, Ends
<1>7. Grown
  <2> HIDE DEF Grown
  <2>1. ASSUME NEW d \in Devices, TryNext(d) PROVE Grown
    BY <1>1, <1>2, <2>1 DEF TryNext
  <2>2. ASSUME NEW d \in Devices, Die(d) PROVE Grown
    BY <1>2, <2>2 DEF Die
  <2>3. ASSUME NEW d \in Devices, Finish(d) \/ Pushed(d) PROVE Grown
    BY <1>3, <2>3 DEF Finish, Pushed
  <2>4. ASSUME NEW d \in Devices,
               \/ SyncNetwork(d) \/ Restore(d) \/ Break(d) \/ AdoptionFails(d)
               \/ \E l \in Links : Offer(d, l)
        PROVE  Grown
    BY <1>1, <2>4 DEF SyncNetwork, Restore, Break, AdoptionFails, Offer
  <2>5. ASSUME NEW k \in Keys, NEW t, NEW s, Adopt(k, s, t) PROVE Grown
    BY <1>1, <2>5 DEF Adopt
  <2>6. ASSUME NEW l \in Links, Refuse(l) PROVE Grown
    BY <1>1, <2>6 DEF Refuse
  <2>7. ASSUME UNCHANGED vars PROVE Grown
    BY <1>1, <2>7 DEF vars
  <2> QED
    BY <1>4, <1>5, <1>6, <2>1, <2>2, <2>3, <2>4, <2>5, <2>6, <2>7 DEF Next
<1>8. lost' = lost \/ \E d \in Devices : AdoptionFails(d)
  BY DEF Next, vars, Sign, Adopt, Finish, SyncNetwork, Restore, TryNext, Pushed, Break, Die,
         Adopted, Offer, Import, Refuse
<1>9. lost \subseteq lost'
  BY <1>8 DEF AdoptionFails
<1> QED
  BY <1>7, <1>8, <1>9

\* What is settled stays so, and what is lost keeps where it belongs.
LEMMA LossesKeep ==
    ASSUME Inv, Settled, Losses, [Next]_vars
    PROVE  Settled' /\ Losses'
<1>1. ASSUME NEW d \in Devices, AdoptionFails(d) PROVE Losses'
  <2>1. PICK s, op : s = call[d].with /\ op = call[d].op
    OBVIOUS
  <2>2. /\ In(d, "adopting") /\ UNCHANGED <<log, file>>
        /\ lost' = lost \cup ({op} \cap RecordsAt(s))
    BY <1>1, <2>1 DEF AdoptionFails
  <2>3. s \in Servers /\ op \in Legible /\ Adopts(d, s, op) /\ d \in Replicas
    BY <2>1, <2>2, CallsAre, Ends DEF Inv, Typed, In, Adoptions
  <2>4. log[d] = file[d].log /\ Home[op.key] = d
    BY <2>2, <2>3 DEF Settled, In, Adopts
  <2>5. op.ctr = 1 \/ \E p \in RecordsOf(file[d].log) : p.key = op.key /\ p.ctr = op.ctr - 1
    <3> DEFINE own == Own(log[d], op.key)
    <3>1. Journaled(log[d], st[d]) /\ Accepts(st[d], op, Kinds)
      BY <2>3 DEF Inv, Journals, Adopts
    <3>2. op.key \in Keys /\ op.ctr = Len(own) + 1
      BY <2>3, <3>1, PassingIsNext
    <3>3. Len(own) \in Nat
      BY <3>1, OwnTyped DEF Journaled
    <3>4. Len(own) # 0 => Len(own) \in 1..Len(own)
      BY <3>3
    <3>5. Len(own) # 0 => /\ own[Len(own)] \in SignedBy(RecordsOf(log[d]), op.key)
                          /\ own[Len(own)].ctr = Len(own)
      BY <3>1, <3>2, <3>4 DEF Journaled, Numbered
    <3> HIDE DEF own
    <3>6. CASE Len(own) = 0
      BY <3>2, <3>6
    <3>7. CASE Len(own) # 0
      <4>1. own[Len(own)] \in RecordsOf(file[d].log) /\ own[Len(own)].key = op.key
        BY <2>4, <3>5, <3>7 DEF SignedBy
      <4>2. own[Len(own)].ctr = op.ctr - 1
        BY <3>2, <3>3, <3>5, <3>7
      <4> QED
        BY <4>1, <4>2
    <3> QED
      BY <3>6, <3>7
  <2>6. \A p \in lost' : p \in lost \/ (p = op /\ op \in RecordsAt(s))
    BY <2>2
  <2>7. /\ \A t \in Servers : RecordsAt(t)' = RecordsAt(t)
        /\ file' = file
    BY <2>2 DEF RecordsAt
  <2>8. op.obj = NodeOf[s]
    BY <2>3 DEF Adopts
  <2> QED
    BY <2>3, <2>4, <2>5, <2>6, <2>7, <2>8 DEF Losses
<1>2. ASSUME lost' = lost PROVE Losses'
  <2>1. ASSUME NEW op \in lost
        PROVE  /\ \E s \in Servers : op.obj = NodeOf[s] /\ op \in RecordsAt(s)'
               /\ \/ op.ctr = 1
                  \/ \E p \in RecordsOf(file'[Home[op.key]].log) :
                        p.key = op.key /\ p.ctr = op.ctr - 1
    <3>1. Home[op.key] \in Devices
      BY LegibleIsTyped, RecordNumbers, Ends DEF Inv, Typed
    <3> QED
      BY <3>1, Growing DEF Losses
  <2> QED
    BY <1>2, <2>1 DEF Losses
<1>3. Losses'
  BY <1>1, <1>2, Growing
<1>4. ASSUME NEW d \in Devices, log'[d] = log[d], file'[d] = file[d],
             call'[d].phase \in {"none", "adopting"} => call[d].phase \in {"none", "adopting"}
      PROVE  call'[d].phase \in {"none", "adopting"} => log'[d] = file'[d].log
  BY <1>4 DEF Settled
<1>5. ASSUME NEW c \in Devices, NEW to, Goes(c, to),
             \A d \in Devices : d # c => log'[d] = log[d] /\ file'[d] = file[d],
             \/ to.phase \notin {"none", "adopting"}
             \/ log'[c] = file'[c].log
             \/ In(c, "none") /\ log' = log /\ file' = file
             \/ In(c, "adopting") /\ log' = log /\ file' = file
      PROVE  Settled'
  <2>1. \A d \in Devices : call'[d] = IF d = c THEN to ELSE call[d]
    BY <1>5, CallGoes DEF Inv
  <2> QED
    BY <1>5, <2>1 DEF Settled, In
<1>6. ASSUME NEW d \in Devices, FromFile(d), Goes(d, NoCall), file' = file PROVE Settled'
  <2>1. \A e \in Replicas : log'[e] = IF e = d THEN file[d].log ELSE log[e]
    BY <1>6 DEF FromFile, Inv, Typed
  <2> QED
    BY <1>5, <1>6, <2>1, Ends
<1>7. ASSUME NEW d \in Devices, Save(d), log' = log, NEW to, Goes(d, to) PROVE Settled'
  <2>1. \A e \in Devices : file'[e] = IF e = d THEN [log |-> log[d], st |-> st[d]] ELSE file[e]
    BY <1>7 DEF Save, Inv, Typed
  <2>2. file'[d].log = log[d]
    BY <2>1
  <2> QED
    BY <1>5, <1>7, <2>1, <2>2
<1>8. ASSUME NEW d \in Devices, Adopted(d) PROVE Settled'
  <2>1. /\ Take(d, call[d].op) /\ Goes(d, NoCall)
        /\ file' = [file EXCEPT ![d] = [log |-> Append(log[d], call[d].op),
                                        st |-> After(st[d], call[d].op, Kinds)]]
    BY <1>8 DEF Adopted
  <2>2. \A e \in Devices : log'[e] = IF e = d THEN Append(log[d], call[d].op) ELSE log[e]
    BY <2>1, Ends DEF Take, Inv, Typed
  <2>3. \A e \in Devices : file'[e].log =
            IF e = d THEN Append(log[d], call[d].op) ELSE file[e].log
    BY <2>1 DEF Inv, Typed
  <2>4. \A e \in Devices : e # d => file'[e] = file[e]
    BY <2>1 DEF Inv, Typed
  <2> QED
    BY <1>5, <2>1, <2>2, <2>3, <2>4
<1>9. ASSUME NEW k \in Keys, NEW kind, NEW obj, NEW time, Sign(k, kind, obj, time)
      PROVE  Settled'
  <2>1. /\ Take(Home[k], Fresh(k, kind, obj, time)) /\ Goes(Home[k], Edited) /\ file' = file
    BY <1>9 DEF Sign
  <2>2. \A e \in Devices : e # Home[k] => log'[e] = log[e]
    BY <2>1, Ends DEF Take, Inv, Typed
  <2>3. Edited.phase \notin {"none", "adopting"}
    BY CallsMade
  <2> QED
    BY <1>5, <2>1, <2>2, <2>3, Ends
<1>10. ASSUME NEW l \in Links, Import(l) PROVE Settled'
  <2>1. /\ sending[l] # <<>> /\ UNCHANGED <<file, call>>
        /\ \A r \in Replicas : r # l[2] => log'[r] = log[r]
    BY <1>10, ImportIs
  <2>2. ASSUME NEW d \in Devices, d = l[2] PROVE In(d, "syncing")
    <3>1. l[1] \in Servers /\ l = <<l[1], d>>
      BY <2>2, Ends
    <3>2. sending[<<l[1], d>>] # <<>>
      BY <2>1, <3>1
    <3> QED
      BY <3>1, <3>2 DEF Inv, Calm
  <2> QED
    BY <2>1, <2>2, Ends DEF Settled, In
<1>11. ASSUME NEW l \in Links, Refuse(l) PROVE Settled'
  <2>1. sending[l] # <<>> /\ UNCHANGED <<log, file>>
    BY <1>11 DEF Refuse, Refuses
  <2>2. CASE l[2] \in Devices
    <3>1. Goes(l[2], Choosing(call[l[2]].untried))
      BY <1>11, <2>2 DEF Refuse
    <3>2. In(l[2], "syncing")
      BY <2>1, <2>2, Ends DEF Inv, Calm
    <3>3. Choosing(call[l[2]].untried).phase = "choosing"
      BY <2>2, <3>2, CallsAre, CallsMade DEF Inv, Typed, In
    <3> QED
      BY <1>5, <2>1, <2>2, <3>1, <3>3
  <2>3. CASE l[2] \notin Devices
    <3>1. IF In(l[1], "adopting") THEN Goes(l[1], NoCall) ELSE call' = call
      BY <1>11, <2>3 DEF Refuse
    <3>2. CASE In(l[1], "adopting")
      BY <1>5, <2>1, <2>3, <3>1, <3>2, Ends
    <3>3. CASE ~In(l[1], "adopting")
      BY <2>1, <3>1, <3>3 DEF Settled
    <3> QED
      BY <3>2, <3>3
  <2> QED
    BY <2>2, <2>3
<1>12. ASSUME NEW d \in Devices, TryNext(d) PROVE Settled'
  <2>1. In(d, "choosing") /\ file' = file
    BY <1>12 DEF TryNext
  <2>2. ASSUME NEW s \in call[d].untried,
               Goes(d, Syncing(s, Between(d, s), call[d].untried \ {s})), UNCHANGED <<log, st>>
        PROVE  Settled'
    <3>1. Syncing(s, Between(d, s), call[d].untried \ {s}).phase = "syncing"
      BY DEF Syncing
    <3> QED
      BY <1>5, <2>1, <2>2, <3>1
  <2> QED
    BY <1>6, <1>12, <2>1, <2>2 DEF TryNext
<1>13. ASSUME NEW d \in Devices, NEW l \in Links, Offer(d, l) PROVE Settled'
  <2>1. /\ In(d, "syncing") /\ UNCHANGED <<log, file>>
        /\ Goes(d, [call[d] EXCEPT !.owed = @ \ {l}])
    BY <1>13 DEF Offer
  <2>2. [call[d] EXCEPT !.owed = @ \ {l}].phase = "syncing"
    BY <2>1, CallsAre DEF Inv, Typed, In, Syncing
  <2> QED
    BY <1>5, <2>1, <2>2
<1>14. ASSUME NEW d \in Devices, AdoptionFails(d) PROVE Settled'
  <2>1. In(d, "adopting") /\ Goes(d, NoCall) /\ UNCHANGED <<log, file>>
    BY <1>14 DEF AdoptionFails
  <2> QED
    BY <1>5, <2>1
<1>15. ASSUME NEW k \in Keys, NEW t, NEW s, Adopt(k, s, t) PROVE Settled'
  <2>1. PICK op : op = Fresh(k, "node.add", NodeOf[s], t)
    OBVIOUS
  <2>2. In(Home[k], "none") /\ Goes(Home[k], Adopting(s, op)) /\ UNCHANGED <<log, file>>
    BY <1>15, <2>1 DEF Adopt, MayCall
  <2> QED
    BY <1>5, <2>2, Ends
<1>16. ASSUME NEW d \in Devices, SyncNetwork(d) \/ Restore(d) \/ Break(d) PROVE Settled'
  <2>1. UNCHANGED <<log, file>> /\ \E u : Goes(d, Choosing(u))
    BY <1>16 DEF SyncNetwork, Restore, Break
  <2>2. \A u : Choosing(u).phase = "choosing"
    BY DEF Choosing
  <2> QED
    BY <1>5, <2>1, <2>2
<1>17. ASSUME NEW d \in Devices, Finish(d) \/ Pushed(d) PROVE Settled'
  BY <1>7, <1>17 DEF Finish, Pushed
<1>18. ASSUME NEW d \in Devices, Die(d) PROVE Settled'
  BY <1>6, <1>18 DEF Die
<1>19. ASSUME UNCHANGED vars PROVE Settled'
  BY <1>19 DEF vars, Settled
<1> QED
  BY <1>3, <1>8, <1>9, <1>10, <1>11, <1>12, <1>13, <1>14, <1>15, <1>16, <1>17, <1>18, <1>19
     DEF Next

\* In every state a lost record is where it belongs.
LEMMA AlwaysLosses == Spec => [](Settled /\ Losses)
<1>1. Init => Settled /\ Losses
  BY Ends DEF Init, Settled, Losses
<1>2. Inv /\ Settled /\ Losses /\ [Next]_vars => Settled' /\ Losses'
  BY LossesKeep
<1> QED
  BY <1>1, <1>2, Always, PTL DEF Spec

\* The n-th record of a key that is not forked is, wherever it is, the n-th its
\* device has signed, or the one it has signed and does not know of.
LEMMA HeldIsSigned ==
    ASSUME Inv, Losses, NEW r \in Replicas, NEW k \in Keys, ~Forked(k)
    PROVE  /\ OfKey(r, k) \in Seq(Legible) /\ OfKey(Home[k], k) \in Seq(Legible)
           /\ \A i \in 1..Len(OfKey(r, k)) :
                 \/ /\ i \in 1..Len(OfKey(Home[k], k))
                    /\ OfKey(r, k)[i] = OfKey(Home[k], k)[i]
                 \/ i = Len(OfKey(Home[k], k)) + 1 /\ OfKey(r, k)[i] \in Ahead(k)
<1> DEFINE d == Home[k]
           mine == Own(log[d], k)
           theirs == Own(log[r], k)
<1>1. d \in Devices /\ d \in Replicas
  BY Ends
<1>2. Journaled(log[d], st[d]) /\ Journaled(log[r], st[r])
  BY <1>1 DEF Inv, Journals
<1>3. /\ mine \in Seq(Legible) /\ theirs \in Seq(Legible)
      /\ OfKey(r, k) = theirs /\ OfKey(d, k) = mine
  BY <1>2, OwnTyped DEF Journaled, OfKey, RecordsAt, Own
<1>4. \A i \in 1..Len(theirs) :
         theirs[i] \in SignedBy(RecordsAt(r), k) /\ theirs[i].ctr = i
  BY <1>2 DEF Journaled, Numbered, RecordsAt
<1>5. /\ \A op \in RecordsAt(d) : op.key = k => op.ctr \in 1..Len(mine) /\ mine[op.ctr] = op
      /\ \A i \in 1..Len(mine) : mine[i] \in RecordsAt(d) /\ mine[i].key = k /\ mine[i].ctr = i
  BY <1>2 DEF Journaled, Numbered, RecordsAt, SignedBy
<1>6. Len(mine) \in Nat
  BY <1>3
<1>7. ASSUME NEW op \in Hand(d), op.key = k PROVE op.ctr = Len(mine) + 1
  <2>1. In(d, "adopting") /\ op = call[d].op
    BY DEF Hand
  <2>2. op \in Legible /\ Accepts(st[d], op, Kinds)
    BY <1>1, <2>1, CallsAre DEF Inv, Typed, In, Adoptions, Adopts
  <2> QED
    BY <1>2, <1>7, <2>2, PassingIsNext
<1>8. ASSUME NEW op \in lost, op.key = k PROVE op.ctr \in 1..(Len(mine) + 1)
  <2>1. CASE op.ctr = 1
    BY <1>6, <2>1
  <2>2. CASE op.ctr # 1
    <3>1. PICK p \in RecordsOf(file[d].log) : p.key = k /\ p.ctr = op.ctr - 1
      BY <1>8, <2>2 DEF Losses
    <3>2. p \in RecordsAt(d)
      BY <1>1, <3>1 DEF Inv, Traced
    <3>3. p.ctr \in 1..Len(mine)
      BY <1>5, <3>1, <3>2
    <3>4. op.ctr \in Nat
      BY LegibleIsTyped, RecordNumbers DEF Inv, Typed
    <3> HIDE DEF mine
    <3> QED
      BY <1>6, <3>1, <3>3, <3>4
  <2> QED
    BY <2>1, <2>2
<1>9. ASSUME NEW i \in 1..Len(theirs)
      PROVE  \/ i \in 1..Len(mine) /\ theirs[i] = mine[i]
             \/ i = Len(mine) + 1 /\ theirs[i] \in Ahead(k)
  <2>1. PICK op : op = theirs[i]
    OBVIOUS
  <2>2. op \in RecordsAt(r) /\ op.key = k /\ op.ctr = i
    BY <1>4, <2>1 DEF SignedBy
  <2>3. op \in Has(k) \cup lost
    BY <2>2, HeldIsKnown
  <2>4. CASE i \in 1..Len(mine)
    <3>1. mine[i] \in Has(k) /\ mine[i].key = k /\ mine[i].ctr = i
      BY <1>5, <2>4 DEF Has, SignedBy
    <3> HIDE DEF mine, theirs
    <3>2. op = mine[i]
      BY <2>2, <2>3, <3>1, OneUnforked
    <3> QED
      BY <2>1, <2>4, <3>2
  <2>5. CASE i \notin 1..Len(mine)
    <3>1. op \notin RecordsAt(d)
      BY <1>5, <2>2, <2>5
    <3>2. op \in Hand(d) \/ op \in lost
      BY <2>3, <3>1 DEF Has, SignedBy
    <3>3. op \in Ahead(k)
      BY <2>2, <3>1, <3>2 DEF Ahead, SignedBy
    <3>4. i \in 1..(Len(mine) + 1)
      BY <1>6, <1>7, <1>8, <2>2, <3>2
    <3> HIDE DEF mine, theirs
    <3>5. i = Len(mine) + 1
      BY <1>6, <2>5, <3>4
    <3> QED
      BY <2>1, <3>3, <3>5
  <2> QED
    BY <2>4, <2>5
<1> QED
  BY <1>3, <1>9

-----------------------------------------------------------------------------
\* What follows of it.

\* Types, and that every journal, in memory or in a file, is beside the state
\* its records make, and goes without a gap through the records of each key
\* (Journal.Open, Journal.Import), whatever answers were lost.
THEOREM JournalsHold == Spec => [](Typed /\ Journals)
<1>1. Inv => Typed /\ Journals
  BY DEF Inv
<1> QED
  BY <1>1, Always, PTL

\* One number per key stands for a journal: who has got equally far with every
\* key, and with a forked one the same way, reads the same state, in whatever
\* order the records came.
THEOREM Counters == Spec => []SameCountersSameState
<1>1. ASSUME Inv PROVE SameCountersSameState
  <2> SUFFICES ASSUME NEW a \in Replicas, NEW b \in Replicas, st[a].counters = st[b].counters,
                      \A k \in Keys : Forked(k) => OfKey(a, k) = OfKey(b, k)
               PROVE  st[a] = st[b]
    BY DEF SameCountersSameState
  <2>1. RecordsAt(a) \subseteq RecordsAt(b) /\ RecordsAt(b) \subseteq RecordsAt(a)
    BY <1>1, SameCountersSameRecords
  <2>2. st[a] = View(RecordsAt(a), Kinds) /\ st[b] = View(RecordsAt(b), Kinds)
    BY <1>1 DEF Inv, Journals, Journaled, RecordsAt
  <2>3. RecordsAt(a) = RecordsAt(b)
    BY <2>1
  <2> QED
    BY <2>2, <2>3
<1> QED
  BY <1>1, Always, PTL

\* Of a key that is not forked nobody holds anything but what its device has
\* signed and still knows, from the first record on, and at most one record more:
\* that of an adoption that is under way or whose answer was lost.
THEOREM Beginnings == Spec => []OnlyWhatWasSigned
<1>1. ASSUME Inv, Losses PROVE OnlyWhatWasSigned
  <2> SUFFICES ASSUME NEW r \in Replicas, NEW k \in Keys, ~Forked(k)
               PROVE  \E tail \in Tails(k) : IsPrefix(OfKey(r, k), OfKey(Home[k], k) \o tail)
    BY DEF OnlyWhatWasSigned
  <2> DEFINE s == OfKey(r, k)
             t == OfKey(Home[k], k)
  <2>1. /\ s \in Seq(Legible) /\ t \in Seq(Legible)
        /\ \A i \in 1..Len(s) : \/ i \in 1..Len(t) /\ s[i] = t[i]
                                \/ i = Len(t) + 1 /\ s[i] \in Ahead(k)
    BY <1>1, HeldIsSigned
  <2>2. <<>> \in Tails(k) /\ \A op \in Ahead(k) : <<op>> \in Tails(k)
    BY DEF Tails
  <2> HIDE DEF s, t
  <2>3. Len(s) \in Nat /\ Len(t) \in Nat
    BY <2>1
  <2>4. CASE Len(s) <= Len(t)
    <3>1. \A i \in 1..Len(s) : s[i] = t[i]
      BY <2>1, <2>3, <2>4
    <3>2. t \o <<>> = t
      BY <2>1
    <3>3. SubSeq(s, 1, Len(s)) = SubSeq(t, 1, Len(s))
      BY <2>1, <2>3, <2>4, <3>1
    <3>4. IsPrefix(s, t \o <<>>)
      BY <2>3, <2>4, <3>2, <3>3 DEF IsPrefix
    <3> QED
      BY <2>2, <3>4 DEF s, t
  <2>5. CASE Len(s) > Len(t)
    <3>1. Len(s) \in 1..Len(s)
      BY <2>3, <2>5
    <3>2. Len(s) = Len(t) + 1 /\ s[Len(s)] \in Ahead(k)
      BY <2>1, <2>3, <2>5, <3>1
    <3>3. PICK op : op = s[Len(s)]
      OBVIOUS
    <3>4. op \in Legible
      BY <2>1, <3>1, <3>3, ElementOfSeq
    <3> DEFINE u == t \o <<op>>
    <3>5. /\ u \in Seq(Legible) /\ Len(u) = Len(t) + 1
          /\ \A i \in 1..Len(t) : u[i] = t[i]
          /\ u[Len(t) + 1] = op
      BY <2>1, <3>4
    <3> HIDE DEF u
    <3>6. \A i \in 1..Len(s) : s[i] = u[i]
      BY <2>1, <2>3, <3>2, <3>3, <3>5
    <3>7. SubSeq(s, 1, Len(s)) = SubSeq(u, 1, Len(s))
      BY <2>1, <2>3, <3>2, <3>5, <3>6
    <3>8. IsPrefix(s, u)
      BY <2>3, <3>2, <3>5, <3>7 DEF IsPrefix
    <3> QED
      BY <2>2, <3>2, <3>3, <3>8 DEF s, t, u
  <2> QED
    BY <2>3, <2>4, <2>5
<1> QED
  BY <1>1, Always, AlwaysLosses, PTL

-----------------------------------------------------------------------------
\* Adopted nodes.

\* No two machines have one node id.
DistinctIds == \A s, t \in Servers : NodeOf[s] = NodeOf[t] => s = t

\* Node s has taken op, if op says that there is such a node, or has passed it
\* over for a lost one.
Took(s, op) ==
    op.kind = "node.add" /\ op.obj = NodeOf[s] => op \in RecordsAt(s) \/ Doubled(op)

\* Whatever a device vouches for, the node that is named in it has taken, unless
\* the record is in hand and under way.
LEMMA VouchedTookIt ==
    ASSUME DistinctIds, Inv, Losses, AdoptedTookIt, NEW k \in Keys, NEW op \in Vouched(k),
           NEW s \in Servers, NEW m, Around(op, m),
           \A d \in Devices : In(d, "adopting") /\ call[d].op = op => m = <<d, call[d].with>>
    PROVE  Took(s, op)
<1> DEFINE d == Home[k]
<1>1. d \in Devices /\ d \in Replicas
  BY Ends
<1>2. CASE op \in RecordsOf(file[d].log)
  BY <1>1, <1>2 DEF Inv, Traced, AdoptedTookIt, Took
<1>3. CASE op \in lost
  BY <1>3 DEF Losses, DistinctIds, Took
<1>4. CASE op \in Hand(d)
  <2>1. In(d, "adopting") /\ op = call[d].op
    BY <1>4 DEF Hand
  <2>2. PICK t : t = call[d].with
    OBVIOUS
  <2>3. t \in Servers /\ Adopts(d, t, op)
    BY <1>1, <2>1, <2>2, CallsAre DEF Inv, Typed, In, Adoptions
  <2>4. m = <<d, t>>
    BY <1>1, <2>1, <2>2
  <2>5. (op \in RecordsAt(t) \/ op \in lost) /\ op.obj = NodeOf[t]
    BY <2>3, <2>4 DEF Adopts
  <2> QED
    BY <1>3, <2>3, <2>5 DEF Took, DistinctIds
<1> QED
  BY <1>2, <1>3, <1>4 DEF Vouched, SignedBy

\* A node that is named anywhere has taken the record that names it, after
\* every step: nodes forget nothing, and what a journal gets it gets from a file,
\* from a node's answer, or from others that had it from there.
LEMMA TookKeeps ==
    ASSUME DistinctIds, Inv, Losses, AdoptedTookIt, [Next]_vars
    PROVE  AdoptedTookIt'
<1>1. \A r \in Replicas, s \in Servers : \A op \in RecordsAt(r) : Took(s, op)
  BY DEF AdoptedTookIt, Took
<1>2. ASSUME \A s \in Servers : RecordsAt(s) \subseteq RecordsAt(s)',
             \A r \in Replicas, s \in Servers : \A op \in RecordsAt(r)' :
                Took(s, op) \/ op \in RecordsAt(s)'  \/ op.kind # "node.add"
      PROVE  AdoptedTookIt'
  <2>1. \A op : Doubled(op) => Doubled(op)'
    BY Growing DEF Doubled
  <2> QED
    BY <1>2, <2>1 DEF AdoptedTookIt, Took
<1>3. ASSUME UNCHANGED log PROVE AdoptedTookIt'
  <2>1. \A r \in Replicas : RecordsAt(r)' = RecordsAt(r)
    BY <1>3 DEF RecordsAt
  <2> QED
    BY <1>1, <1>2, <2>1, Ends
<1>4. ASSUME NEW k \in Keys, NEW t \in 1..MaxTime, NEW e \in Edits, Sign(k, e[1], e[2], t)
      PROVE  AdoptedTookIt'
  <2>1. PICK op, d : op = Fresh(k, e[1], e[2], t) /\ d = Home[k]
    OBVIOUS
  <2>2. op \in Legible /\ op.kind = e[1] /\ e[1] # "node.add"
    <3>1. \E c \in Edits : e[1] = c[1] /\ e[2] = c[2]
      OBVIOUS
    <3>2. /\ Fresh(k, e[1], e[2], t) \in Legible
          /\ Fresh(k, e[1], e[2], t).kind = e[1]
      BY <3>1, FreshIsLegible DEF Inv
    <3> QED
      BY <2>1, <3>2, EditsAreWellFormed
  <2>3. Take(d, op) /\ d \in Replicas
    BY <1>4, <2>1, Ends DEF Sign
  <2>4. \A r \in Replicas : RecordsAt(r)' = IF r = d THEN RecordsAt(d) \cup {op} ELSE RecordsAt(r)
    BY <2>2, <2>3, TakeGives DEF Inv
  <2> QED
    BY <1>1, <1>2, <2>2, <2>4, Ends
<1>5. ASSUME NEW d \in Devices, FromFile(d), file' = file PROVE AdoptedTookIt'
  <2>1. \A r \in Replicas : RecordsAt(r)' = IF r = d THEN RecordsOf(file[d].log) ELSE RecordsAt(r)
    BY <1>5, FromFileKeeps
  <2>2. RecordsOf(file[d].log) \subseteq RecordsAt(d)
    BY DEF Inv, Traced
  <2> QED
    BY <1>1, <1>2, <2>1, <2>2, Ends
<1>6. ASSUME NEW d \in Devices, Adopted(d) PROVE AdoptedTookIt'
  <2>1. PICK s, op : s = call[d].with /\ op = call[d].op
    OBVIOUS
  <2>2. In(d, "adopting") /\ Quiet(d, s) /\ Take(d, op)
    BY <1>6, <2>1 DEF Adopted
  <2>3. s \in Servers /\ op \in Legible /\ Adopts(d, s, op)
    BY <2>1, <2>2, CallsAre DEF Inv, Typed, In, Adoptions
  <2>4. \A t \in Servers : Took(t, op)
    BY <2>2, <2>3 DEF Adopts, Quiet, Between, Took, DistinctIds
  <2>5. \A r \in Replicas : RecordsAt(r)' = IF r = d THEN RecordsAt(d) \cup {op} ELSE RecordsAt(r)
    BY <2>2, <2>3, TakeGives, Ends DEF Inv
  <2> QED
    BY <1>1, <1>2, <2>4, <2>5, Ends
<1>7. ASSUME NEW l \in Links, Import(l) PROVE AdoptedTookIt'
  <2>1. PICK op, q : op = Head(sending[l]) /\ q = l[2]
    OBVIOUS
  <2>2. /\ op \in RecordsOf(sending[l]) /\ q \in Replicas
        /\ \A r \in Replicas : r # q => RecordsAt(r)' = RecordsAt(r)
        /\ RecordsAt(q)' = RecordsAt(q) \cup {op} \/ RecordsAt(q)' = RecordsAt(q)
    BY <1>7, <2>1, ImportIs
  <2>3. ASSUME NEW s \in Servers PROVE Took(s, op) \/ (op.obj = NodeOf[s] => s = q)
    <3>1. op.key \in Keys /\ op \in Vouched(op.key)
      BY <2>2, KeysAre DEF Inv, Traced
    <3>2. CASE \E d \in Devices : In(d, "adopting") /\ call[d].op = op /\ l = <<d, call[d].with>>
      <4>1. PICK d \in Devices : In(d, "adopting") /\ call[d].op = op /\ l = <<d, call[d].with>>
        BY <3>2
      <4>2. q = call[d].with /\ q \in Servers
        BY <2>1, <4>1, CallsAre DEF Inv, Typed, In
      <4>3. op.obj = NodeOf[q]
        BY <4>1, <4>2 DEF Inv, Adoptions, Adopts
      <4> QED
        BY <4>2, <4>3 DEF DistinctIds
    <3>3. CASE ~ \E d \in Devices : In(d, "adopting") /\ call[d].op = op /\ l = <<d, call[d].with>>
      <4>1. CASE \E d \in Devices : In(d, "adopting") /\ call[d].op = op
        <5>1. PICK d \in Devices : In(d, "adopting") /\ call[d].op = op
          BY <4>1
        <5>2. PICK m : m = <<d, call[d].with>>
          OBVIOUS
        <5>3. l # m /\ Around(op, m)
          BY <2>2, <3>3, <5>1, <5>2 DEF Around
        <5>4. ASSUME NEW c \in Devices, In(c, "adopting"), call[c].op = op PROVE c = d
          BY <5>1, <5>4 DEF Inv, Adoptions, Adopts
        <5> QED
          BY <3>1, <5>2, <5>3, <5>4, VouchedTookIt
      <4>2. CASE ~ \E d \in Devices : In(d, "adopting") /\ call[d].op = op
        <5>1. PICK m : m # l
          <6>1. PICK d \in Devices, t \in Servers : l = <<d, t>> \/ l = <<t, d>>
            BY Ends
          <6> QED
            BY <6>1, Ends
        <5>2. Around(op, m)
          BY <2>2, <5>1 DEF Around
        <5> QED
          BY <3>1, <4>2, <5>2, VouchedTookIt
      <4> QED
        BY <4>1, <4>2
    <3> QED
      BY <3>2, <3>3
  <2> QED
    BY <1>1, <1>2, <2>2, <2>3, Ends DEF Took
<1>8. CASE UNCHANGED vars
  BY <1>3, <1>8 DEF vars
<1>9. ASSUME NEW d \in Devices, TryNext(d) PROVE AdoptedTookIt'
  BY <1>3, <1>5, <1>9 DEF TryNext
<1>10. ASSUME NEW d \in Devices, Die(d) PROVE AdoptedTookIt'
  BY <1>5, <1>10 DEF Die
<1>11. ASSUME NEW d \in Devices,
              \/ Finish(d) \/ SyncNetwork(d) \/ Restore(d) \/ Pushed(d) \/ Break(d)
              \/ AdoptionFails(d) \/ \E l \in Links : Offer(d, l)
       PROVE  AdoptedTookIt'
  BY <1>3, <1>11 DEF Finish, SyncNetwork, Restore, Pushed, Break, AdoptionFails, Offer
<1>12. ASSUME NEW k \in Keys, NEW t \in 1..MaxTime, NEW s \in Servers, Adopt(k, s, t)
       PROVE  AdoptedTookIt'
  BY <1>3, <1>12 DEF Adopt
<1>13. ASSUME NEW l \in Links, Refuse(l) PROVE AdoptedTookIt'
  BY <1>3, <1>13 DEF Refuse
<1> QED
  BY <1>4, <1>6, <1>7, <1>8, <1>9, <1>10, <1>11, <1>12, <1>13 DEF Next

\* No journal names a node that has not taken it, or passed it over because a
\* lost record has its number.
THEOREM AdoptedHaveIt ==
    ASSUME DistinctIds
    PROVE  Spec => []AdoptedTookIt
<1>1. Init => AdoptedTookIt
  <2> SUFFICES ASSUME Init, NEW r \in Replicas, NEW s \in Servers, NEW op \in RecordsAt(r)
               PROVE  op.kind # "node.add"
    BY DEF AdoptedTookIt
  <2>1. RecordsOf(<<Founding>>) = {Founding} /\ RecordsOf(<<>>) = {}
    BY RecordsGrow DEF RecordsOf
  <2>2. op = Founding
    BY <2>1 DEF Init, RecordsAt
  <2>3. Founding.kind = "genesis"
    BY FoundingPasses DEF Accepts, Refusal, GenesisRefusal, EmptyState
  <2> QED
    BY <2>2, <2>3
<1>2. Inv /\ Losses /\ AdoptedTookIt /\ [Next]_vars => AdoptedTookIt'
  BY TookKeeps
<1> QED
  BY <1>1, <1>2, Always, AlwaysLosses, PTL DEF Spec
=============================================================================

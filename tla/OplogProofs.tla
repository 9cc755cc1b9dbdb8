---------------------------- MODULE OplogProofs ----------------------------
(***************************************************************************)
(* What replaying a journal gives, for any keys, objects and records: each *)
(* state is the one before plus one record, and what every accepted record *)
(* preserves holds of the whole.                                           *)
(***************************************************************************)
EXTENDS Reading, WellFoundedInduction, SequenceTheorems, FiniteSetTheorems, TLAPS

\* A set of naturals that has an element has a least one.
LEMMA LeastNatural ==
    ASSUME NEW T, T \subseteq Nat, T # {}
    PROVE  \E m \in T : \A n \in T : m <= n
<1> DEFINE R == {ss \in Nat \X Nat : ss[1] < ss[2]}
<1>1. IsWellFoundedOn(R, Nat)
  BY NatLessThanWellFounded DEF OpToRel
<1> HIDE DEF R
<1>2. \E x \in T : \A y \in T : ~ (<<y, x>> \in R)
  BY <1>1, WFMin
<1>3. PICK x \in T : \A y \in T : ~ (<<y, x>> \in R)
  BY <1>2
<1>4. ASSUME NEW y \in T PROVE x <= y
  <2>1. x \in Nat /\ y \in Nat /\ ~ (<<y, x>> \in R)
    BY <1>3
  <2> QED
    BY <2>1 DEF R
<1> QED
  BY <1>4

Begin == [state |-> EmptyState, ok |-> TRUE]

\* f holds what loadState has after 0, 1, ..., n records of d.
Chain(f, n, d, known) ==
    f = [i \in 0..n |-> IF i = 0 THEN Begin ELSE Step(f[i-1], d[i], known)]

\* A journal can be replayed: the steps of loadState are well defined.
LEMMA ChainExists ==
    ASSUME NEW d, NEW known, NEW n \in Nat
    PROVE  \E f : Chain(f, n, d, known)
<1> DEFINE T == {k \in Nat : ~ \E f : Chain(f, k, d, known)}
<1> SUFFICES ASSUME T # {} PROVE FALSE
  OBVIOUS
<1>1. PICK m \in T : \A k \in T : m <= k
  <2> HIDE DEF T
  <2>1. T \subseteq Nat
    BY DEF T
  <2> QED
    BY <2>1, LeastNatural
<1>2. m # 0
  <2>1. Chain([i \in 0..0 |-> Begin], 0, d, known)
    BY DEF Chain
  <2> QED
    BY <1>1, <2>1
<1>3. m - 1 \in Nat /\ m - 1 \notin T
  BY <1>1, <1>2
<1>4. PICK f : Chain(f, m - 1, d, known)
  BY <1>3
<1> DEFINE g == [i \in 0..m |-> IF i = 0 THEN Begin ELSE Step(f[i-1], d[i], known)]
<1>5. \A i \in 0..(m-1) : g[i] = f[i]
  BY <1>3, <1>4 DEF Chain
<1>6. Chain(g, m, d, known)
  <2>1. \A i \in 0..m : i # 0 => g[i-1] = f[i-1]
    BY <1>3, <1>5
  <2> HIDE DEF Begin
  <2> QED
    BY <2>1 DEF Chain
<1> QED
  BY <1>1, <1>6

\* ReplaySteps is such a chain.
LEMMA ReplayIsChain ==
    ASSUME NEW d, NEW known, Len(d) \in Nat
    PROVE  Chain(ReplaySteps(d, known), Len(d), d, known)
<1>1. PICK f : Chain(f, Len(d), d, known)
  BY ChainExists
<1> HIDE DEF Step, EmptyState
<1>2. ReplaySteps(d, known) = CHOOSE g : Chain(g, Len(d), d, known)
  BY DEF Chain, ReplaySteps, Begin
<1> QED
  BY <1>1, <1>2

\* Two replays that saw the same records have the same states.
LEMMA ChainUnique ==
    ASSUME NEW d, NEW e, NEW known, NEW n \in Nat,
           \A i \in 1..n : e[i] = d[i],
           NEW f, NEW g, Chain(f, n, d, known), Chain(g, n + 1, e, known)
    PROVE  \A i \in 0..n : f[i] = g[i]
<1> DEFINE T == {i \in 0..n : f[i] # g[i]}
<1> SUFFICES ASSUME T # {} PROVE FALSE
  OBVIOUS
<1>1. PICK k \in T : \A i \in T : k <= i
  <2> HIDE DEF T
  <2>1. T \subseteq Nat
    BY DEF T
  <2> QED
    BY <2>1, LeastNatural
<1>2. k # 0
  BY <1>1 DEF Chain
<1>3. f[k-1] = g[k-1]
  BY <1>1, <1>2
<1>4. f[k] = Step(f[k-1], d[k], known) /\ g[k] = Step(g[k-1], e[k], known)
  BY <1>1, <1>2 DEF Chain
<1> QED
  BY <1>1, <1>2, <1>3, <1>4

\* An empty journal leaves the empty state.
LEMMA LoadedEmpty ==
    ASSUME NEW known
    PROVE  Loaded(<<>>, known) = Begin
  BY ReplayIsChain DEF Loaded, Chain

\* A journal and one record more.
LEMMA LoadedAppend ==
    ASSUME NEW S, NEW d \in Seq(S), NEW op \in S, NEW known
    PROVE  Loaded(Append(d, op), known) = Step(Loaded(d, known), op, known)
<1> DEFINE e == Append(d, op)
           n == Len(d)
<1>1. /\ n \in Nat /\ Len(e) = n + 1 /\ e[n + 1] = op
      /\ \A i \in 1..n : e[i] = d[i]
  OBVIOUS
<1>2. /\ Chain(ReplaySteps(d, known), n, d, known)
      /\ Chain(ReplaySteps(e, known), n + 1, e, known)
  <2> HIDE DEF e
  <2>1. Chain(ReplaySteps(d, known), Len(d), d, known)
    BY <1>1, ReplayIsChain
  <2>2. Chain(ReplaySteps(e, known), Len(e), e, known)
    BY <1>1, ReplayIsChain
  <2> QED
    BY <1>1, <2>1, <2>2
<1> HIDE DEF e
<1>3. ReplaySteps(d, known)[n] = ReplaySteps(e, known)[n]
  <2>1. n \in Nat /\ n \in 0..n
    BY <1>1
  <2> DEFINE f == ReplaySteps(d, known)
             g == ReplaySteps(e, known)
  <2> HIDE DEF n, f, g
  <2>2. \A i \in 0..n : f[i] = g[i]
    <3>1. Chain(f, n, d, known) /\ Chain(g, n + 1, e, known)
      BY <1>2 DEF f, g
    <3>2. \A i \in 1..n : e[i] = d[i]
      BY <1>1
    <3> QED
      BY <2>1, <3>1, <3>2, ChainUnique
  <2> QED
    BY <2>1, <2>2 DEF f, g
<1>4. ReplaySteps(e, known)[n + 1] = Step(ReplaySteps(e, known)[n], e[n + 1], known)
  <2> DEFINE g == ReplaySteps(e, known)
  <2> HIDE DEF n, g, Begin
  <2>1. g = [i \in 0..(n + 1) |->
               IF i = 0 THEN Begin ELSE Step(g[i-1], e[i], known)]
    BY <1>2 DEF Chain, g
  <2>2. n + 1 \in 0..(n + 1) /\ n + 1 # 0 /\ (n + 1) - 1 = n
    BY <1>1
  <2> QED
    BY <2>1, <2>2 DEF g
<1> QED
  BY <1>1, <1>3, <1>4 DEF Loaded, e
-----------------------------------------------------------------------------
\* What one accepted record does to a state.

\* NewState makes a state.
LEMMA EmptyTyped ==
    ASSUME NEW R
    PROVE  EmptyState \in States(R)
  BY DEF EmptyState, States, NoScope, Scopes, Owner, Absent, NoStamp, NoGenesis

\* admin.add (State.mutate) leaves a state, and changes nothing but rights.
LEMMA GrantTyped ==
    ASSUME NEW R, NEW s \in States(R), NEW k \in Keys, NEW scope \in Scopes
    PROVE  /\ Grant(s, k, scope) \in States(R)
           /\ Grant(s, k, scope).genesis = s.genesis
           /\ Grant(s, k, scope).admins = [s.admins EXCEPT ![k] = scope]
           /\ Grant(s, k, scope).revoked = s.revoked \ {k}
           /\ Grant(s, k, scope).counters = s.counters
  BY DEF Grant, States

\* So does admin.revoke.
LEMMA RevokeTyped ==
    ASSUME NEW R, NEW s \in States(R), NEW k \in Keys
    PROVE  /\ Revoke(s, k) \in States(R)
           /\ Revoke(s, k).genesis = s.genesis
           /\ Revoke(s, k).admins = [s.admins EXCEPT ![k] = NoScope]
           /\ Revoke(s, k).revoked = s.revoked \cup {k}
           /\ Revoke(s, k).counters = s.counters
<1>1. NoScope \in Scopes
  BY DEF Scopes, NoScope, Owner
<1> QED
  BY <1>1 DEF Revoke, States

\* What a record writes into an object is content.
LEMMA ContentTyped ==
    ASSUME NEW op \in Record
    PROVE  Content(op) \in (Keys \X Nat) \cup {Absent}
  BY DEF Content, Record

\* Counting a record (the last line of Apply) leaves a state.
LEMMA CountedTyped ==
    ASSUME NEW R, NEW s \in States(R), NEW op \in Record
    PROVE  /\ Counted(s, op) \in States(R)
           /\ Counted(s, op).genesis = s.genesis
           /\ Counted(s, op).admins = s.admins
           /\ Counted(s, op).revoked = s.revoked
           /\ Counted(s, op).counters = [s.counters EXCEPT ![op.key] = op.ctr]
  BY DEF Counted, States, Record

\* applyGenesis leaves a state in which nobody is revoked who was not.
LEMMA FromGenesisTyped ==
    ASSUME NEW R, NEW s \in States(R), NEW op \in R, R \subseteq Record
    PROVE  /\ FromGenesis(s, op) \in States(R)
           /\ FromGenesis(s, op).genesis = op
           /\ FromGenesis(s, op).revoked = s.revoked
           /\ FromGenesis(s, op).counters = s.counters
<1> DEFINE granted == [k \in Keys |-> IF k \in op.owners THEN Owner ELSE s.admins[k]]
<1>1. granted \in [Keys -> Scopes]
  BY DEF States, Scopes, NoScope, Owner
<1>2. FromGenesis(s, op) = [s EXCEPT !.genesis = op, !.admins = granted]
  BY DEF FromGenesis, States
<1> QED
  BY <1>1, <1>2 DEF States

\* Of rights, a record about a key grants or takes that key's; any other
\* record, and one that comes too late, leaves them alone.
RightsFollow(s, op, t) ==
    \/ t.admins = s.admins /\ t.revoked = s.revoked
    \/ /\ op.obj \in Keys
       /\ t.admins = [s.admins EXCEPT ![op.obj] = op.scope]
       /\ t.revoked = s.revoked \ {op.obj}
    \/ /\ op.obj \in Keys
       /\ t.admins = [s.admins EXCEPT ![op.obj] = NoScope]
       /\ t.revoked = s.revoked \cup {op.obj}

\* State.write leaves a state, and either no rights or those of one key change.
LEMMA WriteTyped ==
    ASSUME NEW R, NEW s \in States(R), NEW op \in R, op.kind # "genesis",
           R \subseteq {r \in Record : WellFormed(r)}
    PROVE  /\ Write(s, op) \in States(R)
           /\ Write(s, op).genesis = s.genesis
           /\ Write(s, op).counters = s.counters
           /\ RightsFollow(s, op, Write(s, op))
<1> DEFINE m == Mutated(s, op)
           stamped == [m EXCEPT !.stamps[op.obj] = Stamp(op)]
<1>1. WellFormed(op) /\ op \in Record /\ op.kind \in Kinds
  BY DEF WellFormed, Record
<1>2. Stamp(op) \in Nat \X Keys /\ op.scope \in Scopes
  BY <1>1 DEF Stamp, Record, Scopes, NoScope, Viewer, Owner
<1>3. op.obj \in Subjects
  BY <1>1 DEF WellFormed, Kinds, Subjects, Objects
<1>4. ASSUME NEW t \in States(R)
      PROVE  /\ [t EXCEPT !.stamps[op.obj] = Stamp(op)] \in States(R)
             /\ [t EXCEPT !.stamps[op.obj] = Stamp(op)].genesis = t.genesis
             /\ [t EXCEPT !.stamps[op.obj] = Stamp(op)].admins = t.admins
             /\ [t EXCEPT !.stamps[op.obj] = Stamp(op)].revoked = t.revoked
             /\ [t EXCEPT !.stamps[op.obj] = Stamp(op)].counters = t.counters
  BY <1>2, <1>3 DEF States
<1>5. CASE op.kind = "admin.add"
  <2>1. op.obj \in Keys
    BY <1>1, <1>5 DEF WellFormed, AdminKinds
  <2>2. m = Grant(s, op.obj, op.scope)
    BY <1>5 DEF Mutated
  <2> QED
    BY <1>2, <1>4, <2>1, <2>2, GrantTyped DEF Write, RightsFollow
<1>6. CASE op.kind = "admin.revoke"
  <2>1. op.obj \in Keys
    BY <1>1, <1>6 DEF WellFormed, AdminKinds
  <2>2. m = Revoke(s, op.obj)
    BY <1>6 DEF Mutated
  <2> QED
    <3>1. /\ m \in States(R) /\ m.genesis = s.genesis /\ m.counters = s.counters
          /\ m.admins = [s.admins EXCEPT ![op.obj] = NoScope]
          /\ m.revoked = s.revoked \cup {op.obj}
      BY <2>1, <2>2, RevokeTyped
    <3>2. Write(s, op) = IF Superseded(s, op) THEN s ELSE stamped
      BY DEF Write
    <3> HIDE DEF m
    <3> QED
      BY <1>4, <2>1, <3>1, <3>2 DEF RightsFollow
<1>7. CASE op.kind \notin AdminKinds
  <2>1. op.obj \in Objects
    BY <1>1, <1>7 DEF WellFormed, Kinds, Objects
  <2>2. m = [s EXCEPT !.content[op.obj] = Content(op)]
    BY <1>7 DEF Mutated, AdminKinds
  <2>3. /\ m \in States(R) /\ m.genesis = s.genesis /\ m.admins = s.admins
        /\ m.revoked = s.revoked /\ m.counters = s.counters
    BY <1>1, <2>1, <2>2, ContentTyped DEF States
  <2> QED
    BY <1>4, <2>3 DEF Write, RightsFollow
<1> QED
  BY <1>5, <1>6, <1>7 DEF AdminKinds

\* What every state has that came about by accepted records: nobody is both
\* in force and revoked, and before the network is founded there is nothing.
Exclusive(s) == \A k \in Keys : s.admins[k] # NoScope => k \notin s.revoked

Sound(s) ==
    /\ Exclusive(s)
    /\ s.genesis = NoGenesis =>
          s.revoked = {} /\ \A k \in Keys : s.counters[k] = 0

\* An empty state is sound.
LEMMA EmptySound == Sound(EmptyState)
  BY DEF Sound, Exclusive, EmptyState, NoScope

\* An accepted record keeps all of that, and is the next one of its key.
LEMMA AfterSound ==
    ASSUME NEW R, NEW s \in States(R), NEW op \in R, NEW known,
           R \subseteq {r \in Record : WellFormed(r)},
           Sound(s), Accepts(s, op, known)
    PROVE  /\ After(s, op, known) \in States(R)
           /\ Sound(After(s, op, known))
           /\ op.key \in Keys
           /\ op.ctr = s.counters[op.key] + 1
           /\ After(s, op, known).counters = [s.counters EXCEPT ![op.key] = op.ctr]
<1>1. op \in Record /\ op.key \in Keys /\ op.ctr \in Nat /\ R \subseteq Record
  BY DEF Record
<1>2. s.counters[op.key] \in Nat
  BY <1>1 DEF States
<1>3. CASE s.genesis = NoGenesis
  <2> DEFINE t == FromGenesis(s, op)
  <2>1. op.ctr = 1 /\ s.counters[op.key] = 0 /\ s.revoked = {}
    BY <1>1, <1>3 DEF Accepts, Refusal, GenesisRefusal, Sound
  <2>2. t \in States(R) /\ t.revoked = {} /\ t.counters = s.counters
        /\ t.genesis = op
    BY <1>1, <2>1, FromGenesisTyped
  <2>3. After(s, op, known) = Counted(t, op)
    BY <1>3 DEF After
  <2> HIDE DEF t
  <2>4. /\ Counted(t, op) \in States(R)
        /\ Counted(t, op).genesis = op
        /\ Counted(t, op).revoked = {}
        /\ Counted(t, op).counters = [s.counters EXCEPT ![op.key] = op.ctr]
    BY <1>1, <2>2, CountedTyped
  <2>5. op # NoGenesis
    BY <1>1 DEF Record, NoGenesis
  <2> QED
    BY <1>1, <2>1, <2>3, <2>4, <2>5 DEF Sound, Exclusive
<1>4. CASE s.genesis # NoGenesis
  <2>1. op.kind # "genesis" /\ CheckSequence(s, op) = "none"
    BY <1>4 DEF Accepts, Refusal
  <2>2. op.ctr = s.counters[op.key] + 1
    BY <1>1, <1>2, <2>1 DEF CheckSequence
  <2> DEFINE t == IF op.kind \in known THEN Write(s, op) ELSE s
  <2>3. /\ t \in States(R)
        /\ t.genesis = s.genesis /\ t.counters = s.counters
        /\ Exclusive(t)
    <3>1. CASE op.kind \notin known
      BY <3>1 DEF Sound
    <3>2. CASE op.kind \in known
      <4> DEFINE w == Write(s, op)
      <4>1. w \in States(R) /\ w.genesis = s.genesis /\ w.counters = s.counters
        BY <2>1, WriteTyped
      <4>2. RightsFollow(s, op, w)
        BY <2>1, WriteTyped
      <4>3. s.admins \in [Keys -> Scopes]
        BY DEF States
      <4> HIDE DEF w
      <4>4. Exclusive(w)
        BY <4>2, <4>3 DEF RightsFollow, Sound, Exclusive
      <4> QED
        BY <3>2, <4>1, <4>4 DEF w
    <3> QED
      BY <3>1, <3>2
  <2>4. After(s, op, known) = Counted(t, op)
    BY <1>4 DEF After
  <2> HIDE DEF t
  <2>5. /\ Counted(t, op) \in States(R)
        /\ Counted(t, op).genesis = t.genesis
        /\ Counted(t, op).admins = t.admins
        /\ Counted(t, op).revoked = t.revoked
        /\ Counted(t, op).counters = [s.counters EXCEPT ![op.key] = op.ctr]
    BY <1>1, <2>3, CountedTyped
  <2> QED
    BY <1>1, <1>4, <2>2, <2>3, <2>4, <2>5 DEF Sound, Exclusive
<1> QED
  BY <1>3, <1>4
-----------------------------------------------------------------------------
\* What a replay gives.

\* Every record of d is counted in s.
Covers(s, d) == \A i \in 1..Len(d) : s.counters[d[i].key] >= d[i].ctr

\* What holds of what loadState has made of d.
ReplayedWell(R, loaded, d) ==
    /\ loaded.state \in States(R)
    /\ Sound(loaded.state)
    /\ loaded.ok \in BOOLEAN
    /\ loaded.ok => Covers(loaded.state, d)

\* One record more in memory covers a table with one row more.
LEMMA CoversAppend ==
    ASSUME NEW R, R \subseteq Record, NEW d \in Seq(R), NEW op \in R,
           NEW s \in States(R), Covers(s, d), op.ctr = s.counters[op.key] + 1,
           NEW t \in States(R), t.counters = [s.counters EXCEPT ![op.key] = op.ctr]
    PROVE  Covers(t, d) /\ Covers(t, Append(d, op))
<1>1. /\ Len(d) \in Nat /\ Len(Append(d, op)) = Len(d) + 1
      /\ \A i \in 1..Len(d) : d[i] \in Record /\ Append(d, op)[i] = d[i]
      /\ Append(d, op)[Len(d) + 1] = op
  BY ElementOfSeq
<1>2. \A r \in Record : r.key \in Keys /\ r.ctr \in Nat
  BY DEF Record
<1>3. s.counters \in [Keys -> Nat]
  BY DEF States
<1>4. \A k \in Keys : t.counters[k] >= s.counters[k] /\ t.counters[k] \in Nat
  BY <1>2, <1>3
<1>5. \A i \in 1..Len(d) : t.counters[d[i].key] >= d[i].ctr
  BY <1>1, <1>2, <1>3, <1>4 DEF Covers
<1>6. t.counters[op.key] = op.ctr /\ op.ctr \in Nat
  BY <1>2, <1>3
<1>7. \A i \in 1..(Len(d) + 1) : i \in 1..Len(d) \/ i = Len(d) + 1
  BY <1>1
<1> QED
  BY <1>1, <1>5, <1>6, <1>7 DEF Covers

\* One record more keeps what a replay has.
LEMMA ReplayStep ==
    ASSUME NEW R, R \subseteq {r \in Record : WellFormed(r)}, NEW known,
           NEW d \in Seq(R), NEW op \in R,
           ReplayedWell(R, Loaded(d, known), d)
    PROVE  ReplayedWell(R, Loaded(Append(d, op), known), Append(d, op))
<1> DEFINE before == Loaded(d, known)
           after == Loaded(Append(d, op), known)
<1>1. after = Step(before, op, known)
  BY LoadedAppend
<1>2. ReplayedWell(R, before, d) /\ R \subseteq Record
  OBVIOUS
<1> HIDE DEF before, after
<1>3. CASE before.ok /\ Accepts(before.state, op, known)
  <2> DEFINE s == before.state
             t == After(s, op, known)
  <2>1. after.state = t /\ after.ok = TRUE
    BY <1>1, <1>3 DEF Step
  <2>2. s \in States(R) /\ Sound(s) /\ Covers(s, d) /\ Accepts(s, op, known)
    BY <1>2, <1>3 DEF ReplayedWell
  <2> HIDE DEF s
  <2>3. /\ t \in States(R) /\ Sound(t) /\ op.ctr = s.counters[op.key] + 1
        /\ t.counters = [s.counters EXCEPT ![op.key] = op.ctr]
    BY <2>2, AfterSound
  <2> HIDE DEF t
  <2>4. Covers(t, Append(d, op))
    BY <1>2, <2>2, <2>3, CoversAppend
  <2> QED
    BY <2>1, <2>3, <2>4 DEF ReplayedWell, after
<1>4. CASE ~(before.ok /\ Accepts(before.state, op, known))
  BY <1>1, <1>2, <1>4 DEF Step, ReplayedWell, after
<1> QED
  BY <1>3, <1>4

\* What loadState has made of a table is a sound state that covers the table.
LEMMA Replayed ==
    ASSUME NEW R, R \subseteq {r \in Record : WellFormed(r)}, NEW known
    PROVE  \A d \in Seq(R) : ReplayedWell(R, Loaded(d, known), d)
<1> DEFINE T == {n \in Nat : \E d \in Seq(R) :
                   Len(d) = n /\ ~ReplayedWell(R, Loaded(d, known), d)}
<1> SUFFICES ASSUME NEW c \in Seq(R), ~ReplayedWell(R, Loaded(c, known), c)
             PROVE  FALSE
  OBVIOUS
<1>1. PICK n \in T : \A k \in T : n <= k
  <2>1. Len(c) \in T /\ T \subseteq Nat
    OBVIOUS
  <2> HIDE DEF T
  <2> QED
    BY <2>1, LeastNatural
<1>2. PICK d \in Seq(R) : Len(d) = n /\ ~ReplayedWell(R, Loaded(d, known), d)
  BY <1>1
<1>3. d # <<>>
  <2>1. ReplayedWell(R, Begin, <<>>)
    BY EmptyTyped, EmptySound DEF ReplayedWell, Begin, Covers
  <2> QED
    BY <1>2, <2>1, LoadedEmpty
<1>4. PICK e \in Seq(R), op \in R : d = Append(e, op)
  BY <1>3, SequenceEmptyOrAppend
<1>5. Len(e) \in Nat /\ Len(e) < n
  BY <1>2, <1>4
<1>6. ReplayedWell(R, Loaded(e, known), e)
  <2>1. Len(e) \notin T
    BY <1>1, <1>5
  <2> QED
    BY <1>5, <2>1
<1> QED
  BY <1>2, <1>4, <1>6, ReplayStep
-----------------------------------------------------------------------------
\* The reading of a set of records, and how it grows with a journal.

\* Records that name an object of the sort they are about.
Legible == {op \in Record : WellFormed(op)}

\* They are records, and none of them is "none".
LEMMA LegibleIsTyped ==
    /\ Legible \subseteq Record
    /\ \A op \in Legible : op \in Record /\ WellFormed(op) /\ op # NoGenesis
<1>1. ASSUME NEW op \in Record PROVE op # NoGenesis
  <2>1. DOMAIN op # {}
    BY DEF Record
  <2>2. DOMAIN NoGenesis = {}
    BY DEF NoGenesis
  <2> QED
    BY <2>1, <2>2
<1> QED
  BY <1>1 DEF Legible

\* A state records of Q can make is one that records of more can make.
LEMMA StatesWiden ==
    ASSUME NEW Q, NEW S, Q \subseteq S
    PROVE  States(Q) \subseteq States(S)
  BY DEF States

\* Which of two records about an object wins: the later one by its own clock,
\* then the greater key, then the earlier of one key.
LEMMA BeatsIs ==
    ASSUME NEW a, NEW b
    PROVE  Beats(a, b) <=> \/ a.time > b.time
                           \/ a.time = b.time /\ a.key > b.key
                           \/ a.time = b.time /\ a.key = b.key /\ a.ctr < b.ctr
  BY DEF Beats, Newer, Stamp

\* Times, keys and counters of records are numbers.
LEMMA RecordNumbers ==
    \A r \in Record : r.time \in Nat /\ r.key \in Keys /\ r.key \in Nat /\ r.ctr \in Nat
  BY KeysAreOrdered DEF Record

\* Of two records one wins at most, and winning is transitive.
LEMMA BeatsIsOrder ==
    ASSUME NEW a \in Record, NEW b \in Record, NEW c \in Record
    PROVE  /\ ~(Beats(a, b) /\ Beats(b, a))
           /\ Beats(a, b) /\ Beats(b, c) => Beats(a, c)
  BY BeatsIs, RecordNumbers

\* w leads among A.
Leads(w, A) == w \in A /\ \A q \in A \ {w} : Beats(w, q)

\* The CHOOSE of Winner has one candidate at most.
LEMMA WinnerIs ==
    ASSUME NEW R, R \subseteq Record, NEW x, NEW K, NEW w, Leads(w, About(R, x, K))
    PROVE  Winner(R, x, K) = w
<1> DEFINE A == About(R, x, K)
<1>1. A \subseteq Record /\ Leads(w, A)
  BY DEF About
<1>2. ASSUME NEW v \in A, \A q \in A \ {v} : Beats(v, q) PROVE v = w
  <2>1. v # w => Beats(v, w) /\ Beats(w, v)
    BY <1>1, <1>2 DEF Leads
  <2> QED
    BY <1>1, <2>1, BeatsIsOrder DEF Leads
<1>3. w \in A /\ \A q \in A \ {w} : Beats(w, q)
  BY <1>1 DEF Leads
<1>4. Winner(R, x, K) = CHOOSE r \in A : \A q \in A \ {r} : Beats(r, q)
  BY DEF Winner
<1> QED
  BY <1>2, <1>3, <1>4

\* What holds of the records of a journal: it begins with the one genesis, a
\* key's counters run on without gaps, and about everything one record leads.
Well(R, K) ==
    /\ IsFiniteSet(R) /\ R \subseteq Legible
    /\ \A x : About(R, x, K) # {} => \E w : Leads(w, About(R, x, K))
    /\ \A r \in R : r.ctr <= Cardinality(SignedBy(R, r.key))
    /\ R # {} => \E g \in R : GenesisIn(R) = {g}

\* One record more: about everything else nothing has changed.
LEMMA OthersStay ==
    ASSUME NEW R, NEW K, NEW op, NEW x, op.obj # x \/ op.kind \notin K
    PROVE  /\ About(R \cup {op}, x, K) = About(R, x, K)
           /\ Winner(R \cup {op}, x, K) = Winner(R, x, K)
<1>1. About(R \cup {op}, x, K) = About(R, x, K)
  BY DEF About
<1> QED
  BY <1>1 DEF Winner

\* A record that is not a genesis leaves the founding of the network alone.
LEMMA GenesisStays ==
    ASSUME NEW R, NEW op, op.kind # "genesis"
    PROVE  /\ GenesisIn(R \cup {op}) = GenesisIn(R)
           /\ \A k : GrantedByGenesis(R \cup {op}, k) = GrantedByGenesis(R, k)
<1>1. GenesisIn(R \cup {op}) = GenesisIn(R)
  BY DEF GenesisIn
<1> QED
  BY <1>1 DEF GrantedByGenesis

\* The next record of a key counts one up, for that key.
LEMMA CountGrows ==
    ASSUME NEW R, NEW K, Well(R, K), NEW op \in Legible,
           op.ctr = Cardinality(SignedBy(R, op.key)) + 1
    PROVE  /\ op \notin R
           /\ \A k \in Keys : Cardinality(SignedBy(R \cup {op}, k)) =
                IF k = op.key THEN op.ctr ELSE Cardinality(SignedBy(R, k))
           /\ \A k \in Keys : Cardinality(SignedBy(R, k)) \in Nat
<1>1. \A k \in Keys : IsFiniteSet(SignedBy(R, k)) /\ Cardinality(SignedBy(R, k)) \in Nat
  <2> SUFFICES ASSUME NEW k \in Keys
               PROVE  IsFiniteSet(SignedBy(R, k)) /\ Cardinality(SignedBy(R, k)) \in Nat
    OBVIOUS
  <2>1. SignedBy(R, k) \in SUBSET R /\ IsFiniteSet(R)
    BY DEF SignedBy, Well
  <2> QED
    BY <2>1, FS_Subset, FS_CardinalityType
<1>2. op \in Record /\ op.key \in Keys
  BY LegibleIsTyped, RecordNumbers
<1>3. op \notin R
  BY <1>1, <1>2 DEF Well
<1>4. ASSUME NEW k \in Keys, k # op.key
      PROVE  SignedBy(R \cup {op}, k) = SignedBy(R, k)
  BY <1>4 DEF SignedBy
<1>5. SignedBy(R \cup {op}, op.key) = SignedBy(R, op.key) \cup {op}
      /\ op \notin SignedBy(R, op.key)
  BY <1>3 DEF SignedBy
<1>6. Cardinality(SignedBy(R \cup {op}, op.key)) = op.ctr
  BY <1>1, <1>2, <1>5, FS_AddElement
<1> QED
  BY <1>1, <1>3, <1>4, <1>6

\* The fields of the reading: rights,
LEMMA ViewAdmins ==
    ASSUME NEW R, NEW K
    PROVE  View(R, K).admins = [k \in Keys |-> ScopeOf(R, k, K)]
  BY DEF View

\* contents,
LEMMA ViewContent ==
    ASSUME NEW R, NEW K
    PROVE  View(R, K).content = [o \in Objects |-> ContentOf(R, o, K)]
  BY DEF View

\* counters,
LEMMA ViewCounters ==
    ASSUME NEW R, NEW K
    PROVE  View(R, K).counters = [k \in Keys |-> Cardinality(SignedBy(R, k))]
<1>1. View(R, K).counters = [k \in Keys |-> Cardinality(SignedBy(R, k))]
  BY DEF View
<1> QED
  BY <1>1

\* stamps,
LEMMA ViewStamps ==
    ASSUME NEW R, NEW K
    PROVE  View(R, K).stamps = [x \in Subjects |->
                IF About(R, x, K) = {} THEN NoStamp ELSE Stamp(Winner(R, x, K))]
<1>1. View(R, K).stamps = [x \in Subjects |->
                IF About(R, x, K) = {} THEN NoStamp ELSE Stamp(Winner(R, x, K))]
  BY DEF View
<1> QED
  BY <1>1

\* the genesis and who is revoked.
LEMMA ViewRest ==
    ASSUME NEW R, NEW K
    PROVE  /\ View(R, K).genesis = IF GenesisIn(R) = {} THEN NoGenesis
                                     ELSE CHOOSE g \in GenesisIn(R) : TRUE
           /\ View(R, K).revoked = RevokedIn(R, K)
  BY DEF View

\* Two states are one if their fields are.
LEMMA StateIsItsFields ==
    ASSUME NEW Q, NEW s \in States(Q)
    PROVE  s = [genesis |-> s.genesis, admins |-> s.admins, revoked |-> s.revoked,
                content |-> s.content, counters |-> s.counters, stamps |-> s.stamps]
  BY DEF States

\* And the reading is made of its fields.
LEMMA ViewIsItsFields ==
    ASSUME NEW R, NEW K
    PROVE  LET v == View(R, K) IN
           v = [genesis |-> v.genesis, admins |-> v.admins, revoked |-> v.revoked,
                content |-> v.content, counters |-> v.counters, stamps |-> v.stamps]
  BY DEF View

\* Nothing is read from no records.
LEMMA ViewOfNothing ==
    ASSUME NEW K
    PROVE  View({}, K) = EmptyState /\ Well({}, K)
<1>1. \A x : About({}, x, K) = {} /\ SignedBy({}, x) = {}
  BY DEF About, SignedBy
<1>2. GenesisIn({}) = {} /\ RevokedIn({}, K) = {}
  BY <1>1 DEF GenesisIn, RevokedIn
<1>3. \A k : ScopeOf({}, k, K) = NoScope
  BY <1>1, <1>2 DEF ScopeOf, GrantedByGenesis
<1>4. \A o : ContentOf({}, o, K) = Absent
  BY <1>1 DEF ContentOf
<1>5. Cardinality({}) = 0 /\ IsFiniteSet({})
  BY FS_EmptySet
<1>6. View({}, K) = EmptyState
  <2> DEFINE v == View({}, K)
  <2>1. /\ v.genesis = NoGenesis /\ v.revoked = {}
        /\ v.admins = [k \in Keys |-> NoScope]
        /\ v.content = [o \in Objects |-> Absent]
        /\ v.counters = [k \in Keys |-> 0]
        /\ v.stamps = [x \in Subjects |-> NoStamp]
    <3>1. v.genesis = NoGenesis /\ v.revoked = {}
      BY <1>2, ViewRest
    <3>2. v.admins = [k \in Keys |-> ScopeOf({}, k, K)]
      BY ViewAdmins
    <3>3. v.content = [o \in Objects |-> ContentOf({}, o, K)]
      BY ViewContent
    <3>4. v.counters = [k \in Keys |-> Cardinality(SignedBy({}, k))]
      BY ViewCounters
    <3>5. v.stamps = [x \in Subjects |-> IF About({}, x, K) = {} THEN NoStamp
                                          ELSE Stamp(Winner({}, x, K))]
      BY ViewStamps
    <3> QED
      BY <1>1, <1>3, <1>4, <1>5, <3>1, <3>2, <3>3, <3>4, <3>5
  <2>2. v = [genesis |-> v.genesis, admins |-> v.admins, revoked |-> v.revoked,
             content |-> v.content, counters |-> v.counters, stamps |-> v.stamps]
    BY ViewIsItsFields
  <2> HIDE DEF v
  <2> QED
    BY <2>1, <2>2 DEF v, EmptyState
<1> QED
  BY <1>1, <1>5, <1>6 DEF Well

\* The genesis record: the reading of it is what Apply makes of an empty state.
LEMMA FirstGrows ==
    ASSUME NEW K, NEW op \in Legible, Accepts(EmptyState, op, K)
    PROVE  Well({op}, K) /\ After(EmptyState, op, K) = View({op}, K)
<1> DEFINE t == After(EmptyState, op, K)
           v == View({op}, K)
<1>1. op \in Record /\ WellFormed(op) /\ op.key \in Keys /\ op.owners \subseteq Keys
  BY LegibleIsTyped DEF Record
<1>2. op.kind = "genesis" /\ op.ctr = 1 /\ op.obj = Network
  BY <1>1 DEF Accepts, Refusal, GenesisRefusal, EmptyState, WellFormed
<1>3. t = Counted(FromGenesis(EmptyState, op), op)
  BY DEF After, EmptyState
<1>4. /\ t.genesis = op /\ t.revoked = {}
      /\ t.admins = [k \in Keys |-> IF k \in op.owners THEN Owner ELSE NoScope]
      /\ t.content = [o \in Objects |-> Absent]
      /\ t.counters = [k \in Keys |-> IF k = op.key THEN 1 ELSE 0]
      /\ t.stamps = [x \in Subjects |-> NoStamp]
  <2> DEFINE rights == [k \in Keys |-> IF k \in op.owners THEN Owner ELSE NoScope]
             zero == [k \in Keys |-> 0]
             nothing == [o \in Objects |-> Absent]
             unstamped == [x \in Subjects |-> NoStamp]
             g == [genesis |-> op, admins |-> rights, revoked |-> {},
                   content |-> nothing, counters |-> zero, stamps |-> unstamped]
  <2>1. [k \in Keys |-> IF k \in op.owners THEN Owner ELSE EmptyState.admins[k]] = rights
    BY DEF EmptyState
  <2>2. EmptyState = [genesis |-> NoGenesis, admins |-> [k \in Keys |-> NoScope],
                      revoked |-> {}, content |-> nothing, counters |-> zero,
                      stamps |-> unstamped]
    BY DEF EmptyState
  <2>3. FromGenesis(EmptyState, op) = [EmptyState EXCEPT !.genesis = op, !.admins = rights]
    BY <2>1 DEF FromGenesis
  <2>4. FromGenesis(EmptyState, op) = g
    <3> HIDE DEF rights, zero, nothing, unstamped
    <3> QED
      BY <2>2, <2>3
  <2>5. t = [g EXCEPT !.counters[op.key] = 1]
    BY <1>2, <1>3, <2>4 DEF Counted
  <2>6. t = [genesis |-> op, admins |-> rights, revoked |-> {}, content |-> nothing,
             counters |-> [zero EXCEPT ![op.key] = 1], stamps |-> unstamped]
    <3> HIDE DEF rights, zero, nothing, unstamped
    <3> QED
      BY <2>5
  <2>7. [zero EXCEPT ![op.key] = 1] = [k \in Keys |-> IF k = op.key THEN 1 ELSE 0]
    BY <1>1
  <2> HIDE DEF t
  <2> QED
    BY <2>6, <2>7
<1>5. t \in States(Legible)
  BY LegibleIsTyped, EmptyTyped, EmptySound, AfterSound
<1>6. \A x \in Subjects : About({op}, x, K) = {}
  BY <1>2, SubjectsAreDistinct DEF About, Subjects, Objects
<1>7. Keys \subseteq Subjects /\ Objects \subseteq Subjects
  BY DEF Subjects
<1>8. GenesisIn({op}) = {op} /\ RevokedIn({op}, K) = {}
  BY <1>2, <1>6, <1>7 DEF GenesisIn, RevokedIn
<1>9. \A k \in Keys : ScopeOf({op}, k, K) = IF k \in op.owners THEN Owner ELSE NoScope
  BY <1>6, <1>7, <1>8 DEF ScopeOf, GrantedByGenesis
<1>10. \A o \in Objects : ContentOf({op}, o, K) = Absent
  BY <1>6, <1>7 DEF ContentOf
<1>11. \A k : SignedBy({op}, k) = IF k = op.key THEN {op} ELSE {}
  BY DEF SignedBy
<1>12. IsFiniteSet({op}) /\ Cardinality({op}) = 1 /\ Cardinality({}) = 0
  BY FS_Singleton, FS_EmptySet
<1>13. /\ v.genesis = op /\ v.revoked = {}
       /\ v.admins = [k \in Keys |-> IF k \in op.owners THEN Owner ELSE NoScope]
       /\ v.content = [o \in Objects |-> Absent]
       /\ v.counters = [k \in Keys |-> IF k = op.key THEN 1 ELSE 0]
       /\ v.stamps = [x \in Subjects |-> NoStamp]
  <2>1. v.genesis = op /\ v.revoked = {}
    BY <1>8, ViewRest
  <2>2. v.admins = [k \in Keys |-> IF k \in op.owners THEN Owner ELSE NoScope]
    <3>1. v.admins = [k \in Keys |-> ScopeOf({op}, k, K)]
      BY ViewAdmins
    <3> QED
      BY <1>9, <3>1
  <2>3. v.content = [o \in Objects |-> Absent]
    <3>1. v.content = [o \in Objects |-> ContentOf({op}, o, K)]
      BY ViewContent
    <3> QED
      BY <1>10, <3>1
  <2>4. v.counters = [k \in Keys |-> IF k = op.key THEN 1 ELSE 0]
    <3>1. v.counters = [k \in Keys |-> Cardinality(SignedBy({op}, k))]
      BY ViewCounters
    <3> QED
      BY <1>11, <1>12, <3>1
  <2>5. v.stamps = [x \in Subjects |-> NoStamp]
    <3>1. v.stamps = [x \in Subjects |-> IF About({op}, x, K) = {} THEN NoStamp
                                          ELSE Stamp(Winner({op}, x, K))]
      BY ViewStamps
    <3> QED
      BY <1>6, <3>1
  <2> QED
    BY <2>1, <2>2, <2>3, <2>4, <2>5
<1>14. t = v
  <2>1. t = [genesis |-> t.genesis, admins |-> t.admins, revoked |-> t.revoked,
             content |-> t.content, counters |-> t.counters, stamps |-> t.stamps]
    BY <1>5, StateIsItsFields
  <2>2. v = [genesis |-> v.genesis, admins |-> v.admins, revoked |-> v.revoked,
             content |-> v.content, counters |-> v.counters, stamps |-> v.stamps]
    BY ViewIsItsFields
  <2> HIDE DEF t, v
  <2> QED
    BY <1>4, <1>13, <2>1, <2>2
<1>15. Well({op}, K)
  <2>1. \A x : About({op}, x, K) # {} => Leads(op, About({op}, x, K))
    BY DEF About, Leads
  <2>2. op.ctr <= Cardinality(SignedBy({op}, op.key))
    BY <1>2, <1>11, <1>12
  <2> QED
    BY <1>8, <1>12, <2>1, <2>2 DEF Well
<1> QED
  BY <1>14, <1>15

\* Against what leads about its object the next record of a key either wins,
\* and then its stamp is the newer one, or loses.
LEMMA AboutGrows ==
    ASSUME NEW R, NEW K, Well(R, K), NEW op \in Legible, op.kind \in K,
           op.ctr = Cardinality(SignedBy(R, op.key)) + 1
    PROVE  LET A == About(R, op.obj, K)
               B == About(R \cup {op}, op.obj, K)
           IN  /\ A = {} => Leads(op, B)
               /\ \A w : Leads(w, A) =>
                     /\ Beats(op, w) <=> Newer(Stamp(op), Stamp(w))
                     /\ Beats(op, w) => Leads(op, B)
                     /\ ~Beats(op, w) => Leads(w, B)
<1> DEFINE A == About(R, op.obj, K)
           B == About(R \cup {op}, op.obj, K)
<1>1. B = A \cup {op} /\ A \subseteq R
  BY DEF About
<1>2. R \subseteq Record /\ op \in Record /\ A \subseteq Record
  BY <1>1, LegibleIsTyped DEF Well
<1>3. A = {} => Leads(op, B)
  BY <1>1 DEF Leads
<1>4. ASSUME NEW w, Leads(w, A)
      PROVE  /\ Beats(op, w) <=> Newer(Stamp(op), Stamp(w))
             /\ Beats(op, w) => Leads(op, B)
             /\ ~Beats(op, w) => Leads(w, B)
  <2>1. w \in A /\ w \in R /\ w \in Record /\ \A q \in A \ {w} : Beats(w, q)
    BY <1>1, <1>2, <1>4 DEF Leads
  <2>2. w.key = op.key => w.ctr < op.ctr
    <3>1. \A k \in Keys : Cardinality(SignedBy(R, k)) \in Nat
      BY CountGrows
    <3>2. w.ctr <= Cardinality(SignedBy(R, w.key)) /\ w.ctr \in Nat /\ w.key \in Keys
      BY <2>1, RecordNumbers DEF Well
    <3> QED
      BY <3>1, <3>2
  <2>3. Beats(op, w) <=> Newer(Stamp(op), Stamp(w))
    <3>1. op.ctr \in Nat /\ w.ctr \in Nat
      BY <1>2, <2>1, RecordNumbers
    <3> QED
      BY <2>2, <3>1, BeatsIs DEF Newer, Stamp
  <2>4. Beats(op, w) => Leads(op, B)
    <3> SUFFICES ASSUME Beats(op, w), NEW q \in A, q # op PROVE Beats(op, q)
      BY <1>1 DEF Leads
    <3>1. q = w \/ Beats(w, q)
      BY <2>1
    <3> QED
      BY <1>2, <2>1, <3>1, BeatsIsOrder
  <2>5. ~Beats(op, w) => Leads(w, B)
    <3> SUFFICES ASSUME ~Beats(op, w), op # w PROVE Beats(w, op)
      BY <1>1, <2>1 DEF Leads
    <3> QED
      BY <1>2, <2>1, <2>2, BeatsIs, RecordNumbers
  <2> QED
    BY <2>3, <2>4, <2>5
<1> QED
  BY <1>3, <1>4

\* The records of a journal stay well when the next one joins.
LEMMA WellGrows ==
    ASSUME NEW R, NEW K, Well(R, K), R # {}, NEW op \in Legible, op.kind # "genesis",
           op.ctr = Cardinality(SignedBy(R, op.key)) + 1
    PROVE  Well(R \cup {op}, K)
<1>1. IsFiniteSet(R \cup {op}) /\ R \cup {op} \subseteq Legible
  BY FS_AddElement DEF Well
<1>2. ASSUME NEW x, About(R \cup {op}, x, K) # {}
      PROVE  \E w : Leads(w, About(R \cup {op}, x, K))
  <2>1. CASE op.obj # x \/ op.kind \notin K
    <3>1. About(R \cup {op}, x, K) = About(R, x, K)
      BY <2>1, OthersStay
    <3> QED
      BY <1>2, <3>1 DEF Well
  <2>2. CASE op.obj = x /\ op.kind \in K
    BY <2>2, AboutGrows DEF Well
  <2> QED
    BY <2>1, <2>2
<1>3. ASSUME NEW r \in R \cup {op}
      PROVE  r.ctr <= Cardinality(SignedBy(R \cup {op}, r.key))
  <2>1. op \in Record /\ r \in Record
    BY <1>1, LegibleIsTyped
  <2>2. r.key \in Keys /\ r.ctr \in Nat /\ op.ctr \in Nat
    BY <2>1, RecordNumbers
  <2>3. Cardinality(SignedBy(R \cup {op}, r.key)) =
           IF r.key = op.key THEN op.ctr ELSE Cardinality(SignedBy(R, r.key))
    BY <2>2, CountGrows
  <2>4. r # op => r.ctr <= Cardinality(SignedBy(R, r.key))
    BY DEF Well
  <2>5. Cardinality(SignedBy(R, r.key)) \in Nat
    BY <2>2, CountGrows
  <2> QED
    BY <2>2, <2>3, <2>4, <2>5
<1>4. \E g \in R \cup {op} : GenesisIn(R \cup {op}) = {g}
  BY GenesisStays DEF Well
<1> QED
  BY <1>1, <1>2, <1>3, <1>4 DEF Well

\* What the last line of Apply leaves alone.
LEMMA CountedFields ==
    ASSUME NEW Q, NEW s \in States(Q), NEW op
    PROVE  /\ Counted(s, op).genesis = s.genesis
           /\ Counted(s, op).admins = s.admins
           /\ Counted(s, op).revoked = s.revoked
           /\ Counted(s, op).content = s.content
           /\ Counted(s, op).stamps = s.stamps
  BY DEF Counted, States

\* What an edit that is not superseded writes (State.write and mutate).
LEMMA WrittenFields ==
    ASSUME NEW s \in States(Legible), NEW op \in Legible, op.kind # "genesis",
           ~Superseded(s, op)
    PROVE  LET w == Write(s, op) IN
           /\ op.obj \in Subjects
           /\ w.stamps = [s.stamps EXCEPT ![op.obj] = Stamp(op)]
           /\ op.kind = "admin.add" =>
                /\ op.obj \in Keys
                /\ w.admins = [s.admins EXCEPT ![op.obj] = op.scope]
                /\ w.revoked = s.revoked \ {op.obj}
                /\ w.content = s.content
           /\ op.kind = "admin.revoke" =>
                /\ op.obj \in Keys
                /\ w.admins = [s.admins EXCEPT ![op.obj] = NoScope]
                /\ w.revoked = s.revoked \cup {op.obj}
                /\ w.content = s.content
           /\ op.kind \notin AdminKinds =>
                /\ op.obj \in Objects
                /\ w.admins = s.admins
                /\ w.revoked = s.revoked
                /\ w.content = [s.content EXCEPT ![op.obj] = Content(op)]
<1> DEFINE m == Mutated(s, op)
           w == Write(s, op)
<1>1. WellFormed(op) /\ op \in Record /\ op.kind \in Kinds
  BY LegibleIsTyped DEF Record
<1>2. op.obj \in Subjects
  BY <1>1 DEF WellFormed, Kinds, Subjects, Objects
<1>3. w = [m EXCEPT !.stamps[op.obj] = Stamp(op)]
  BY DEF Write
<1>4. ASSUME NEW t \in States(Legible)
      PROVE  /\ [t EXCEPT !.stamps[op.obj] = Stamp(op)].admins = t.admins
             /\ [t EXCEPT !.stamps[op.obj] = Stamp(op)].revoked = t.revoked
             /\ [t EXCEPT !.stamps[op.obj] = Stamp(op)].content = t.content
             /\ [t EXCEPT !.stamps[op.obj] = Stamp(op)].stamps =
                     [t.stamps EXCEPT ![op.obj] = Stamp(op)]
  BY DEF States
<1>5. CASE op.kind = "admin.add"
  <2>1. op.obj \in Keys
    BY <1>1, <1>5 DEF WellFormed, AdminKinds
  <2>2. m = Grant(s, op.obj, op.scope)
    BY <1>5 DEF Mutated
  <2>3. op.scope \in Scopes
    BY <1>1 DEF Record, Scopes, NoScope, Viewer, Owner
  <2>4. /\ m \in States(Legible) /\ m.revoked = s.revoked \ {op.obj}
        /\ m.admins = [s.admins EXCEPT ![op.obj] = op.scope]
    BY <2>1, <2>2, <2>3, GrantTyped
  <2>5. m.content = s.content /\ m.stamps = s.stamps
    BY <2>2 DEF Grant, States
  <2> HIDE DEF m
  <2> QED
    BY <1>2, <1>3, <1>4, <1>5, <2>1, <2>4, <2>5 DEF AdminKinds
<1>6. CASE op.kind = "admin.revoke"
  <2>1. op.obj \in Keys
    BY <1>1, <1>6 DEF WellFormed, AdminKinds
  <2>2. m = Revoke(s, op.obj)
    BY <1>6 DEF Mutated
  <2>4. /\ m \in States(Legible) /\ m.revoked = s.revoked \cup {op.obj}
        /\ m.admins = [s.admins EXCEPT ![op.obj] = NoScope]
    BY <2>1, <2>2, RevokeTyped
  <2>5. m.content = s.content /\ m.stamps = s.stamps
    BY <2>2 DEF Revoke, States
  <2> HIDE DEF m
  <2> QED
    BY <1>2, <1>3, <1>4, <1>6, <2>1, <2>4, <2>5 DEF AdminKinds
<1>7. CASE op.kind \notin AdminKinds
  <2>1. op.obj \in Objects
    BY <1>1, <1>7 DEF WellFormed, Kinds, Objects
  <2>2. m = [s EXCEPT !.content[op.obj] = Content(op)]
    BY <1>7 DEF Mutated, AdminKinds
  <2>3. /\ m \in States(Legible) /\ m.admins = s.admins
        /\ m.revoked = s.revoked /\ m.stamps = s.stamps
        /\ m.content = [s.content EXCEPT ![op.obj] = Content(op)]
    BY <1>1, <2>1, <2>2, ContentTyped DEF States
  <2> HIDE DEF m
  <2> QED
    BY <1>2, <1>3, <1>4, <1>7, <2>1, <2>3 DEF AdminKinds
<1> QED
  BY <1>5, <1>6, <1>7 DEF AdminKinds

\* What is read about x depends on the record that leads about it, and for a
\* key nothing was recorded about on the genesis.
LEMMA SameWinnerSameReading ==
    ASSUME NEW R, NEW S, NEW K, NEW x,
           About(S, x, K) = {} <=> About(R, x, K) = {},
           Winner(S, x, K) = Winner(R, x, K),
           GrantedByGenesis(S, x) = GrantedByGenesis(R, x)
    PROVE  /\ ScopeOf(S, x, K) = ScopeOf(R, x, K)
           /\ ContentOf(S, x, K) = ContentOf(R, x, K)
<1>1. ScopeOf(S, x, K) = ScopeOf(R, x, K)
  BY DEF ScopeOf
<1>2. ContentOf(S, x, K) = ContentOf(R, x, K)
  BY DEF ContentOf
<1> QED
  BY <1>1, <1>2

\* What is read about x when op leads about it.
LEMMA ReadingOfWinner ==
    ASSUME NEW R, NEW K, NEW x, NEW op, R \subseteq Record, Leads(op, About(R, x, K))
    PROVE  /\ About(R, x, K) # {}
           /\ Winner(R, x, K) = op
           /\ ScopeOf(R, x, K) = IF op.kind = "admin.add" THEN op.scope ELSE NoScope
           /\ ContentOf(R, x, K) = Content(op)
<1>1. About(R, x, K) # {}
  BY DEF Leads
<1>2. Winner(R, x, K) = op
  BY WinnerIs
<1>3. ScopeOf(R, x, K) = IF op.kind = "admin.add" THEN op.scope ELSE NoScope
  BY <1>1, <1>2 DEF ScopeOf
<1>4. ContentOf(R, x, K) = Content(op)
  BY <1>1, <1>2 DEF ContentOf
<1> QED
  BY <1>1, <1>2, <1>3, <1>4

\* Where the same record leads about everything, everything reads the same.
LEMMA NothingWon ==
    ASSUME NEW R, NEW S, NEW K,
           \A x \in Subjects : /\ About(S, x, K) = {} <=> About(R, x, K) = {}
                              /\ Winner(S, x, K) = Winner(R, x, K),
           \A k : GrantedByGenesis(S, k) = GrantedByGenesis(R, k)
    PROVE  /\ View(S, K).admins = View(R, K).admins
           /\ View(S, K).revoked = View(R, K).revoked
           /\ View(S, K).content = View(R, K).content
           /\ View(S, K).stamps = View(R, K).stamps
<1>1. Keys \subseteq Subjects /\ Objects \subseteq Subjects
  BY DEF Subjects
<1>2. \A x \in Subjects : /\ ScopeOf(S, x, K) = ScopeOf(R, x, K)
                         /\ ContentOf(S, x, K) = ContentOf(R, x, K)
  BY SameWinnerSameReading
<1>3. View(S, K).admins = View(R, K).admins
  <2>1. View(S, K).admins = [k \in Keys |-> ScopeOf(S, k, K)]
    BY ViewAdmins
  <2>2. View(R, K).admins = [k \in Keys |-> ScopeOf(R, k, K)]
    BY ViewAdmins
  <2> QED
    BY <1>1, <1>2, <2>1, <2>2
<1>4. View(S, K).content = View(R, K).content
  <2>1. View(S, K).content = [o \in Objects |-> ContentOf(S, o, K)]
    BY ViewContent
  <2>2. View(R, K).content = [o \in Objects |-> ContentOf(R, o, K)]
    BY ViewContent
  <2> QED
    BY <1>1, <1>2, <2>1, <2>2
<1>5. View(S, K).stamps = View(R, K).stamps
  <2>1. View(S, K).stamps = [x \in Subjects |->
               IF About(S, x, K) = {} THEN NoStamp ELSE Stamp(Winner(S, x, K))]
    BY ViewStamps
  <2>2. View(R, K).stamps = [x \in Subjects |->
               IF About(R, x, K) = {} THEN NoStamp ELSE Stamp(Winner(R, x, K))]
    BY ViewStamps
  <2> QED
    BY <2>1, <2>2
<1>6. RevokedIn(S, K) = RevokedIn(R, K)
  BY <1>1 DEF RevokedIn
<1>7. View(S, K).revoked = View(R, K).revoked
  BY <1>6, ViewRest
<1> QED
  BY <1>3, <1>4, <1>5, <1>7

\* The next record of a journal that is not the first: what Apply makes of the
\* state is the reading of the records with that one more.
LEMMA NextGrows ==
    ASSUME NEW R, NEW K, Well(R, K), R # {}, NEW op \in Legible,
           NEW s \in States(Legible), s = View(R, K), Sound(s), Accepts(s, op, K)
    PROVE  Well(R \cup {op}, K) /\ After(s, op, K) = View(R \cup {op}, K)
<1> DEFINE S == R \cup {op}
           t == After(s, op, K)
           v == View(S, K)
           w == IF op.kind \in K THEN Write(s, op) ELSE s
<1>1. s.genesis # NoGenesis
  <2>1. PICK g \in R : GenesisIn(R) = {g}
    BY DEF Well
  <2>2. View(R, K).genesis = CHOOSE h \in {g} : TRUE
    BY <2>1, ViewRest
  <2>3. s.genesis \in Legible
    BY <2>2 DEF Well
  <2> QED
    BY <2>3, LegibleIsTyped DEF NoGenesis
<1>2. op.kind # "genesis"
  BY <1>1 DEF Accepts, Refusal
<1>3. /\ t \in States(Legible) /\ op.key \in Keys
      /\ op.ctr = s.counters[op.key] + 1
      /\ t.counters = [s.counters EXCEPT ![op.key] = op.ctr]
  BY LegibleIsTyped, AfterSound
<1>4. s.counters = [k \in Keys |-> Cardinality(SignedBy(R, k))]
  BY ViewCounters
<1>5. op.ctr = Cardinality(SignedBy(R, op.key)) + 1
  BY <1>3, <1>4
<1>6. Well(S, K)
  BY <1>2, <1>5, WellGrows
<1>7. \A k \in Keys : Cardinality(SignedBy(S, k)) =
           IF k = op.key THEN op.ctr ELSE Cardinality(SignedBy(R, k))
  BY <1>5, CountGrows
<1>8. t.counters = v.counters
  <2>1. v.counters = [k \in Keys |-> Cardinality(SignedBy(S, k))]
    BY ViewCounters
  <2> HIDE DEF t, v
  <2>2. v.counters = [k \in Keys |-> IF k = op.key THEN op.ctr
                                     ELSE Cardinality(SignedBy(R, k))]
    BY <1>7, <2>1
  <2>3. t.counters = [k \in Keys |-> IF k = op.key THEN op.ctr
                                     ELSE Cardinality(SignedBy(R, k))]
    BY <1>3, <1>4
  <2> QED
    BY <2>2, <2>3
<1>9. GenesisIn(S) = GenesisIn(R)
      /\ \A k : GrantedByGenesis(S, k) = GrantedByGenesis(R, k)
  BY <1>2, GenesisStays
<1>10. v.genesis = s.genesis
  BY <1>9, ViewRest
<1>11. w \in States(Legible) /\ w.genesis = s.genesis
  BY <1>2, LegibleIsTyped, WriteTyped
<1>12. t = Counted(w, op)
  BY <1>1 DEF After
<1>13. /\ t.genesis = s.genesis /\ t.admins = w.admins /\ t.revoked = w.revoked
       /\ t.content = w.content /\ t.stamps = w.stamps
  <2> HIDE DEF w, t
  <2> QED
    BY <1>11, <1>12, CountedFields
<1>14. ASSUME NEW x, op.obj # x \/ op.kind \notin K
       PROVE  /\ About(S, x, K) = About(R, x, K)
              /\ Winner(S, x, K) = Winner(R, x, K)
  BY <1>14, OthersStay
<1>15. /\ v.admins = w.admins /\ v.revoked = w.revoked
       /\ v.content = w.content /\ v.stamps = w.stamps
  <2> DEFINE x == op.obj
  <2>1. x \in Subjects
    <3>1. WellFormed(op) /\ op.kind \in Kinds
      BY LegibleIsTyped DEF Record
    <3> QED
      BY <1>2, <3>1 DEF WellFormed, Kinds, Subjects, Objects
  <2>2. s.stamps[x] = IF About(R, x, K) = {} THEN NoStamp ELSE Stamp(Winner(R, x, K))
    <3>1. s.stamps = [y \in Subjects |-> IF About(R, y, K) = {} THEN NoStamp
                                         ELSE Stamp(Winner(R, y, K))]
      BY ViewStamps
    <3> QED
      BY <2>1, <3>1
  <2>3. ASSUME About(R, x, K) # {}
        PROVE  \E lead : /\ Leads(lead, About(R, x, K))
                         /\ s.stamps[x] = Stamp(lead)
                         /\ Winner(R, x, K) = lead
    <3>1. PICK lead : Leads(lead, About(R, x, K))
      BY <2>3 DEF Well
    <3>2. Winner(R, x, K) = lead
      <4>1. R \subseteq Record
        BY LegibleIsTyped DEF Well
      <4> QED
        BY <3>1, <4>1, WinnerIs
    <3> QED
      BY <2>2, <2>3, <3>1, <3>2
  <2>4. S \subseteq Record
    BY <1>6, LegibleIsTyped DEF Well
  <2>5. CASE op.kind \notin K
    <3>1. w = s
      BY <2>5
    <3>2. /\ v.admins = View(R, K).admins /\ v.revoked = View(R, K).revoked
          /\ v.content = View(R, K).content /\ v.stamps = View(R, K).stamps
      <4>1. \A y \in Subjects : /\ About(S, y, K) = {} <=> About(R, y, K) = {}
                                /\ Winner(S, y, K) = Winner(R, y, K)
        BY <1>14, <2>5
      <4> HIDE DEF S
      <4> QED
        BY <1>9, <4>1, NothingWon
    <3> QED
      BY <3>1, <3>2
  <2>6. CASE op.kind \in K /\ Superseded(s, op)
    <3>1. w = s
      BY <2>6 DEF Write
    <3>2. About(R, x, K) # {} /\ ~Newer(Stamp(op), s.stamps[x])
      BY <2>2, <2>6 DEF Superseded
    <3>3. PICK lead : /\ Leads(lead, About(R, x, K))
                      /\ s.stamps[x] = Stamp(lead)
                      /\ Winner(R, x, K) = lead
      BY <2>3, <3>2
    <3>4. Leads(lead, About(S, x, K))
      BY <1>5, <2>6, <3>2, <3>3, AboutGrows
    <3>5. About(S, x, K) # {} /\ Winner(S, x, K) = lead
      BY <2>4, <3>4, WinnerIs DEF Leads
    <3>6. \A y \in Subjects : /\ About(S, y, K) = {} <=> About(R, y, K) = {}
                              /\ Winner(S, y, K) = Winner(R, y, K)
      BY <1>14, <3>2, <3>3, <3>5
    <3>7. /\ v.admins = View(R, K).admins /\ v.revoked = View(R, K).revoked
          /\ v.content = View(R, K).content /\ v.stamps = View(R, K).stamps
      <4> HIDE DEF S
      <4> QED
        BY <1>9, <3>6, NothingWon
    <3> QED
      BY <3>1, <3>7
  <2>7. CASE op.kind \in K /\ ~Superseded(s, op)
    <3>1. Leads(op, About(S, x, K))
      <4>1. CASE About(R, x, K) = {}
        BY <1>5, <2>7, <4>1, AboutGrows
      <4>2. CASE About(R, x, K) # {}
        <5>1. PICK lead : Leads(lead, About(R, x, K)) /\ s.stamps[x] = Stamp(lead)
          BY <2>3, <4>2
        <5>2. Newer(Stamp(op), Stamp(lead))
          <6>1. Stamp(lead) # NoStamp
            BY DEF Stamp, NoStamp
          <6> QED
            BY <2>7, <5>1, <6>1 DEF Superseded
        <5> QED
          BY <1>5, <2>7, <5>1, <5>2, AboutGrows
      <4> QED
        BY <4>1, <4>2
    <3>2. /\ About(S, x, K) # {} /\ Winner(S, x, K) = op
          /\ ScopeOf(S, x, K) = IF op.kind = "admin.add" THEN op.scope ELSE NoScope
          /\ ContentOf(S, x, K) = Content(op)
      <4> HIDE DEF S
      <4> QED
        BY <2>4, <3>1, ReadingOfWinner
    <3>3. ASSUME NEW y, y # x
          PROVE  /\ About(S, y, K) = About(R, y, K)
                 /\ Winner(S, y, K) = Winner(R, y, K)
                 /\ ScopeOf(S, y, K) = ScopeOf(R, y, K)
                 /\ ContentOf(S, y, K) = ContentOf(R, y, K)
      <4>1. /\ About(S, y, K) = About(R, y, K)
            /\ Winner(S, y, K) = Winner(R, y, K)
        BY <1>14, <3>3
      <4> HIDE DEF S
      <4> QED
        BY <1>9, <4>1, SameWinnerSameReading
    <3>4. /\ w.stamps = [s.stamps EXCEPT ![x] = Stamp(op)]
          /\ op.kind = "admin.add" =>
               /\ x \in Keys
               /\ w.admins = [s.admins EXCEPT ![x] = op.scope]
               /\ w.revoked = s.revoked \ {x}
               /\ w.content = s.content
          /\ op.kind = "admin.revoke" =>
               /\ x \in Keys
               /\ w.admins = [s.admins EXCEPT ![x] = NoScope]
               /\ w.revoked = s.revoked \cup {x}
               /\ w.content = s.content
          /\ op.kind \notin AdminKinds =>
               /\ x \in Objects
               /\ w.admins = s.admins
               /\ w.revoked = s.revoked
               /\ w.content = [s.content EXCEPT ![x] = Content(op)]
      BY <1>2, <2>7, WrittenFields
    <3>5. s.revoked = RevokedIn(R, K)
      BY ViewRest
    <3>5a. s.admins = [k \in Keys |-> ScopeOf(R, k, K)]
      BY ViewAdmins
    <3>5b. s.content = [o \in Objects |-> ContentOf(R, o, K)]
      BY ViewContent
    <3>6. s.stamps = [y \in Subjects |-> IF About(R, y, K) = {} THEN NoStamp
                                         ELSE Stamp(Winner(R, y, K))]
      BY ViewStamps
    <3>7. v.admins = [k \in Keys |-> ScopeOf(S, k, K)]
      BY ViewAdmins
    <3>8. v.content = [o \in Objects |-> ContentOf(S, o, K)]
      BY ViewContent
    <3>9. v.stamps = [y \in Subjects |-> IF About(S, y, K) = {} THEN NoStamp
                                         ELSE Stamp(Winner(S, y, K))]
      BY ViewStamps
    <3>10. v.revoked = RevokedIn(S, K)
      BY ViewRest
    <3>11. Keys \cap Objects = {} /\ x \in Subjects
      BY <2>1, SubjectsAreDistinct
    <3> HIDE DEF S, t, v, w
    <3>12. v.stamps = w.stamps
      BY <3>2, <3>3, <3>4, <3>6, <3>9
    <3>13. v.admins = [k \in Keys |-> IF k = x
                        THEN IF op.kind = "admin.add" THEN op.scope ELSE NoScope
                        ELSE ScopeOf(R, k, K)]
      BY <3>2, <3>3, <3>7
    <3>14. v.content = [o \in Objects |-> IF o = x THEN Content(op)
                                          ELSE ContentOf(R, o, K)]
      BY <3>2, <3>3, <3>8
    <3>15. \A k \in Keys : k \in v.revoked <=> IF k = x THEN op.kind = "admin.revoke"
                                               ELSE k \in s.revoked
      BY <3>2, <3>3, <3>5, <3>10 DEF RevokedIn
    <3>16. v.revoked \subseteq Keys /\ s.revoked \subseteq Keys
      BY <3>5, <3>10 DEF RevokedIn
    <3>17. CASE op.kind = "admin.add"
      <4>1. /\ x \in Keys /\ x \notin Objects
            /\ w.admins = [s.admins EXCEPT ![x] = op.scope]
            /\ w.revoked = s.revoked \ {x} /\ w.content = s.content
        BY <3>4, <3>11, <3>17
      <4>2. v.admins = w.admins
        <5>1. v.admins = [k \in Keys |-> IF k = x THEN op.scope ELSE ScopeOf(R, k, K)]
          BY <3>13, <3>17
        <5>2. w.admins = [k \in Keys |-> IF k = x THEN op.scope ELSE ScopeOf(R, k, K)]
          BY <3>5a, <4>1
        <5> QED
          BY <5>1, <5>2
      <4>3. v.content = w.content
        BY <3>14, <3>5b, <4>1
      <4>4. v.revoked = w.revoked
        BY <3>15, <3>16, <3>17, <4>1
      <4> QED
        BY <3>12, <4>2, <4>3, <4>4
    <3>18. CASE op.kind = "admin.revoke"
      <4>1. /\ x \in Keys /\ x \notin Objects
            /\ w.admins = [s.admins EXCEPT ![x] = NoScope]
            /\ w.revoked = s.revoked \cup {x} /\ w.content = s.content
        BY <3>4, <3>11, <3>18
      <4>2. v.admins = w.admins
        <5>1. v.admins = [k \in Keys |-> IF k = x THEN NoScope ELSE ScopeOf(R, k, K)]
          BY <3>13, <3>18
        <5>2. w.admins = [k \in Keys |-> IF k = x THEN NoScope ELSE ScopeOf(R, k, K)]
          BY <3>5a, <4>1
        <5> QED
          BY <5>1, <5>2
      <4>3. v.content = w.content
        BY <3>14, <3>5b, <4>1
      <4>4. v.revoked = w.revoked
        BY <3>15, <3>16, <3>18, <4>1
      <4> QED
        BY <3>12, <4>2, <4>3, <4>4
    <3>19. CASE op.kind \notin AdminKinds
      <4>1. /\ x \in Objects /\ x \notin Keys
            /\ w.admins = s.admins /\ w.revoked = s.revoked
            /\ w.content = [s.content EXCEPT ![x] = Content(op)]
        BY <3>4, <3>11, <3>19
      <4>2. v.admins = w.admins
        BY <3>13, <3>5a, <4>1
      <4>3. v.content = w.content
        BY <3>14, <3>5b, <4>1
      <4>4. v.revoked = w.revoked
        BY <3>15, <3>16, <4>1
      <4> QED
        BY <3>12, <4>2, <4>3, <4>4
    <3> QED
      BY <3>17, <3>18, <3>19 DEF AdminKinds
  <2> QED
    BY <2>5, <2>6, <2>7
<1>16. t = v
  <2>1. t = [genesis |-> t.genesis, admins |-> t.admins, revoked |-> t.revoked,
             content |-> t.content, counters |-> t.counters, stamps |-> t.stamps]
    BY <1>3, StateIsItsFields
  <2>2. v = [genesis |-> v.genesis, admins |-> v.admins, revoked |-> v.revoked,
             content |-> v.content, counters |-> v.counters, stamps |-> v.stamps]
    BY ViewIsItsFields
  <2> HIDE DEF t, v, w
  <2> QED
    BY <1>8, <1>10, <1>13, <1>15, <2>1, <2>2
<1> QED
  BY <1>6, <1>16

\* What a record that passes makes of the state is the reading of the records
\* with that one more, be it the first or not.
LEMMA ViewGrows ==
    ASSUME NEW R, NEW K, Well(R, K), NEW op \in Legible,
           NEW s \in States(Legible), s = View(R, K), Sound(s), Accepts(s, op, K)
    PROVE  Well(R \cup {op}, K) /\ After(s, op, K) = View(R \cup {op}, K)
<1>1. CASE R = {}
  <2>1. s = EmptyState /\ R \cup {op} = {op}
    BY <1>1, ViewOfNothing
  <2> QED
    BY <2>1, FirstGrows
<1>2. CASE R # {}
  BY <1>2, NextGrows
<1> QED
  BY <1>1, <1>2

\* The set of records of a journal, and of the journal with one record more.
LEMMA RecordsGrow ==
    /\ RecordsOf(<<>>) = {}
    /\ \A Q : \A d \in Seq(Q), op \in Q :
          RecordsOf(Append(d, op)) = RecordsOf(d) \cup {op}
<1>1. RecordsOf(<<>>) = {}
  BY DEF RecordsOf
<1>2. ASSUME NEW Q, NEW d \in Seq(Q), NEW op \in Q
      PROVE  RecordsOf(Append(d, op)) = RecordsOf(d) \cup {op}
  <2> DEFINE e == Append(d, op)
  <2>1. /\ Len(d) \in Nat /\ Len(e) = Len(d) + 1 /\ e[Len(d) + 1] = op
        /\ \A i \in 1..Len(d) : e[i] = d[i]
    OBVIOUS
  <2>2. RecordsOf(e) = {e[i] : i \in 1..Len(e)} /\ RecordsOf(d) = {d[i] : i \in 1..Len(d)}
    BY DEF RecordsOf
  <2>3. 1..Len(e) = 1..Len(d) \cup {Len(d) + 1}
    BY <2>1
  <2> HIDE DEF e
  <2>4. {e[i] : i \in 1..Len(e)} = {e[i] : i \in 1..Len(d)} \cup {e[Len(d) + 1]}
    BY <2>3
  <2>5. {e[i] : i \in 1..Len(d)} = {d[i] : i \in 1..Len(d)}
    BY <2>1
  <2> QED
    BY <2>1, <2>2, <2>4, <2>5 DEF e
<1> QED
  BY <1>1, <1>2
=============================================================================

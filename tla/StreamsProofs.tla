--------------------------- MODULE StreamsProofs ---------------------------
(***************************************************************************)
(* Every byte is counted once: for a stream of any kind, any number of     *)
(* pieces, a meter of any size, and any number of breaks and switches.     *)
(*                                                                         *)
(* EveryByteOnce is not inductive: a goroutine about to take the meter     *)
(* would overwrite what it had taken before, and a stream that ends by a   *)
(* socket that is not its own would keep what its meter held.              *)
(* MetersAtWork says that neither can be.                                  *)
(***************************************************************************)
EXTENDS Streams, TLAPS

Stages == {"idle", "pick", "opening", "dial", "open", "splice", "over", "refused"}
Doing == {"run", "full", "counting", "done"}

StreamTyped ==
    /\ state \in [Procs -> Stages]
    /\ half \in [Procs \X Ways -> Doing]
    /\ pending \in [Nodes -> Nat]
    /\ taken \in [Nodes \X Ways -> Nat]
    /\ crossed \in [Nodes \X Ways -> Nat]
    /\ counted \in Nat

\* Nobody has been asked before the one in front of it asks.
InOrder ==
    /\ state["client"] = "idle" => state["entry"] = "idle"
    /\ state["entry"] \in {"idle", "pick"} => state["exit"] = "idle"

\* A meter holds something only while the node copies, by an outside socket of
\* its own; a goroutine is at the meter only then, and only one that has taken
\* what it is handing in has anything in its hands.
MetersAtWork ==
    /\ \A n \in Nodes : pending[n] # 0 => state[n] = "splice" /\ Counts(n)
    /\ \A n \in Nodes, w \in Ways :
         /\ half[<<n, w>>] \in {"full", "counting"} => state[n] = "splice"
         /\ taken[<<n, w>>] # 0 => half[<<n, w>>] = "counting"

StreamInv == StreamTyped /\ InOrder /\ MetersAtWork /\ Carried

-----------------------------------------------------------------------------
\* Operators.

\* Who counts, in terms of what the entry has told the client.
LEMMA WhoCounts ==
    /\ Counts("exit") /\ (Counts("entry") <=> told # "egress")
    /\ \A p \in Procs : Far(p) \in Outside <=> Counts(p)
    /\ \A n \in Nodes : n \in Procs
  BY DEF Counts, Far, Outside, Nodes, Procs

\* A sum over the goroutines, or over the meters, that has changed by this much.
SumMoves(g, f, by) == InAll(g) = InAll(f) + by /\ InAll(f) \in Nat /\ g \in [Nodes \X Ways -> Nat]
MetersMove(g, f, by) ==
    /\ g["entry"] + g["exit"] = f["entry"] + f["exit"] + by
    /\ f["entry"] + f["exit"] \in Nat /\ g \in [Nodes -> Nat]

\* One goroutine's number changes, and the sum with it.
LEMMA SumChanges ==
    ASSUME NEW f \in [Nodes \X Ways -> Nat], NEW n \in Nodes, NEW w \in Ways, NEW v \in Nat,
           NEW g, g = [f EXCEPT ![<<n, w>>] = v], NEW by, by = v - f[<<n, w>>]
    PROVE  SumMoves(g, f, by)
  BY DEF SumMoves, InAll, Nodes, Ways

\* One meter's number changes, and the sum with it.
LEMMA MetersChange ==
    ASSUME NEW f \in [Nodes -> Nat], NEW n \in Nodes, NEW v \in Nat,
           NEW g, g = [f EXCEPT ![n] = v], NEW by, by = v - f[n]
    PROVE  MetersMove(g, f, by)
  BY DEF MetersMove, Nodes

-----------------------------------------------------------------------------
\* Steps.

\* Before the stream is asked for there is nothing to count.
LEMMA StreamBegins == Init => StreamInv
<1> SUFFICES ASSUME Init PROVE StreamInv
  OBVIOUS
<1>1. StreamTyped
  BY DEF Init, StreamTyped, Stages, Doing
<1>2. InOrder
  BY DEF Init, InOrder, Procs, Nodes
<1>3. MetersAtWork
  BY DEF Init, MetersAtWork, Procs, Nodes
<1>4. Carried
  BY DEF Init, Carried, InHands, Passed, InAll, Nodes, Ways
<1> QED
  BY <1>1, <1>2, <1>3, <1>4 DEF StreamInv

\* A step that leaves the meters and the goroutines alone, opens streams in
\* order, ends no copying and changes nobody's answer while he copies.
LEMMA MetersStay ==
    ASSUME StreamInv, UNCHANGED <<half, pending, taken, counted, crossed>>,
           state' \in [Procs -> Stages], InOrder',
           \A n \in Nodes : state[n] = "splice" => state'[n] = "splice" /\ (Counts(n) => Counts(n)')
    PROVE  StreamInv'
<1>1. StreamTyped'
  BY DEF StreamInv, StreamTyped
<1>2. MetersAtWork'
  BY DEF StreamInv, MetersAtWork
<1>3. Carried'
  BY DEF StreamInv, Carried, InHands, Passed, InAll
<1> QED
  BY <1>1, <1>2, <1>3 DEF StreamInv

\* A step of the ends or of the network.
LEMMA NobodyWorks ==
    ASSUME StreamInv, UNCHANGED <<state, told, half, pending, taken, counted, crossed>>
    PROVE  StreamInv'
<1>1. /\ state' \in [Procs -> Stages] /\ InOrder'
      /\ \A n \in Nodes : Counts(n) => Counts(n)'
  BY DEF StreamInv, StreamTyped, InOrder, Counts, Far
<1> QED
  BY <1>1, MetersStay

\* Opening, by any of the three.
LEMMA OpeningKeeps ==
    ASSUME StreamInv, Opening \/ \E n \in Nodes : Dial(n)
    PROVE  StreamInv'
<1>1. state \in [Procs -> Stages] /\ InOrder
  BY DEF StreamInv, StreamTyped
<1>2. UNCHANGED <<half, pending, taken, counted, crossed>>
  BY DEF Opening, Ask, Pick, ExitAnswers, ExitIsLost, Abandon, Opened, NotOpened, Dial, meters
<1> DEFINE Kept ==
             /\ state' \in [Procs -> Stages] /\ InOrder'
             /\ \A n \in Nodes : state[n] = "splice" => state'[n] = "splice"
             /\ state["entry"] = "splice" => told' = told
<1>3. Kept
  <2>1. CASE Ask
    BY <1>1, <2>1 DEF Ask, InOrder, Procs, Nodes, Stages
  <2>2. CASE Pick
    BY <1>1, <2>2 DEF Pick, Goes, InOrder, Procs, Nodes, Stages
  <2>3. CASE ExitAnswers
    BY <1>1, <2>3 DEF ExitAnswers, Goes, InOrder, Procs, Nodes, Stages
  <2>4. CASE ExitIsLost \/ Abandon
    BY <1>1, <2>4 DEF ExitIsLost, Abandon, Goes, InOrder, Procs, Nodes, Stages
  <2>5. CASE Opened \/ NotOpened
    BY <1>1, <2>5 DEF Opened, NotOpened, Goes, InOrder, Procs, Nodes, Stages
  <2>6. ASSUME NEW n \in Nodes, Dial(n)
        PROVE  Kept
    BY <1>1, <2>6 DEF Dial, Goes, InOrder, Procs, Nodes, Stages
  <2> HIDE DEF Kept
  <2> QED
    BY <1>1, <2>1, <2>2, <2>3, <2>4, <2>5, <2>6 DEF Opening
<1>4. \A n \in Nodes : state[n] = "splice" /\ Counts(n) => Counts(n)'
  BY <1>3 DEF Counts, Far, Nodes
<1> QED
  BY <1>2, <1>3, <1>4, MetersStay

\* The copying of one direction ends: its goroutine was neither at the meter
\* nor handing anything in.
LEMMA HalvesEnd ==
    ASSUME StreamInv, NEW p \in Procs, NEW w \in Ways, HalfEnds(p, w) \/ (p \in Nodes /\ Idle(p) /\ w = "down")
    PROVE  StreamInv'
<1>1. /\ UNCHANGED <<state, told, pending, taken, counted, crossed>>
      /\ half[<<p, w>>] = "run" /\ half' = [half EXCEPT ![<<p, w>>] = "done"]
  BY DEF HalfEnds, Idle, Copying, meters
<1>2. half \in [Procs \X Ways -> Doing]
  BY DEF StreamInv, StreamTyped
<1>3. half' \in [Procs \X Ways -> Doing]
  BY <1>1, <1>2 DEF Doing
<1>4. ASSUME NEW n \in Nodes, NEW v \in Ways
      PROVE  /\ half'[<<n, v>>] \in {"full", "counting"} => half[<<n, v>>] \in {"full", "counting"}
             /\ half[<<n, v>>] = "counting" => half'[<<n, v>>] = "counting"
  <2>1. <<n, v>> \in Procs \X Ways
    BY WhoCounts
  <2>2. CASE <<n, v>> = <<p, w>>
    BY <1>1, <1>2, <2>1, <2>2
  <2>3. CASE <<n, v>> # <<p, w>>
    BY <1>1, <1>2, <2>1, <2>3
  <2> QED
    BY <2>2, <2>3
<1>5. StreamTyped' /\ InOrder' /\ Carried'
  BY <1>1, <1>3 DEF StreamInv, StreamTyped, InOrder, Carried, InHands, Passed, InAll
<1>6. MetersAtWork'
  <2>1. \A n \in Nodes : Counts(n)' <=> Counts(n)
    BY <1>1 DEF Counts, Far
  <2> QED
    BY <1>1, <1>4, <2>1 DEF StreamInv, MetersAtWork
<1> QED
  BY <1>5, <1>6 DEF StreamInv

\* A piece passes: what crosses an outside socket enters that node's meter.
LEMMA MoveKeeps ==
    ASSUME StreamInv, NEW p \in Procs, NEW w \in Ways, Move(p, w)
    PROVE  StreamInv'
<1>1. UNCHANGED <<state, told, taken, counted>> /\ state[p] = "splice" /\ half[<<p, w>>] = "run"
  BY DEF Move, Copying
<1>2. InOrder' /\ \A n \in Nodes : Counts(n)' <=> Counts(n)
  BY <1>1 DEF StreamInv, InOrder, Counts, Far
<1>3. CASE ~Counts(p)
  <2>1. UNCHANGED <<half, pending, crossed>>
    BY <1>3, WhoCounts DEF Move
  <2> QED
    BY <1>1, <2>1, NobodyWorks
<1>4. CASE Counts(p)
  <2>1. p \in Nodes
    BY <1>4 DEF Counts
  <2>2. /\ pending \in [Nodes -> Nat] /\ crossed \in [Nodes \X Ways -> Nat]
        /\ half \in [Procs \X Ways -> Doing]
    BY DEF StreamInv, StreamTyped
  <2>3. /\ pending' = [pending EXCEPT ![p] = pending[p] + 1]
        /\ crossed' = [crossed EXCEPT ![<<p, w>>] = crossed[<<p, w>>] + 1]
    BY <1>4, WhoCounts DEF Move
  <2>4. half' = half \/ half' = [half EXCEPT ![<<p, w>>] = "full"]
    BY <1>4 DEF Move
  <2>5. /\ pending' \in [Nodes -> Nat]
        /\ pending'["entry"] + pending'["exit"] = pending["entry"] + pending["exit"] + 1
        /\ pending["entry"] + pending["exit"] \in Nat
    <3>1. pending[p] + 1 \in Nat /\ (pending[p] + 1) - pending[p] = 1
      BY <2>1, <2>2
    <3>2. MetersMove(pending', pending, 1)
      BY <2>1, <2>2, <2>3, <3>1, MetersChange
    <3> QED
      BY <3>2 DEF MetersMove
  <2>6. crossed' \in [Nodes \X Ways -> Nat] /\ InAll(crossed') = InAll(crossed) + 1 /\ InAll(crossed) \in Nat
    <3>1. crossed[<<p, w>>] + 1 \in Nat /\ (crossed[<<p, w>>] + 1) - crossed[<<p, w>>] = 1
      BY <2>1, <2>2
    <3>2. SumMoves(crossed', crossed, 1)
      BY <2>1, <2>2, <2>3, <3>1, SumChanges
    <3> QED
      BY <3>2 DEF SumMoves
  <2>7. half' \in [Procs \X Ways -> Doing]
    BY <2>2, <2>4 DEF Doing
  <2>8. StreamTyped'
    BY <1>1, <2>5, <2>6, <2>7 DEF StreamInv, StreamTyped
  <2>9. Carried'
    <3>1. counted \in Nat /\ InAll(taken) \in Nat
      BY SumChanges DEF StreamInv, StreamTyped, InAll, Nodes, Ways
    <3>2. counted' = counted /\ InAll(taken') = InAll(taken)
      BY <1>1
    <3>3. counted + (pending["entry"] + pending["exit"] + InAll(taken)) = InAll(crossed)
      BY DEF StreamInv, Carried, InHands, Passed
    <3>4. counted' + (pending'["entry"] + pending'["exit"] + InAll(taken')) = InAll(crossed')
      BY <2>5, <2>6, <3>1, <3>2, <3>3
    <3> QED
      BY <3>4 DEF Carried, InHands, Passed, InAll
  <2>10. MetersAtWork'
    <3>1. ASSUME NEW n \in Nodes, pending'[n] # 0 PROVE state'[n] = "splice" /\ Counts(n)'
      <4>1. CASE n = p
        BY <1>1, <1>2, <1>4, <4>1
      <4>2. CASE n # p
        BY <1>1, <1>2, <2>2, <2>3, <3>1, <4>2 DEF StreamInv, MetersAtWork
      <4> QED
        BY <4>1, <4>2
    <3>2. ASSUME NEW n \in Nodes, NEW v \in Ways
          PROVE  /\ half'[<<n, v>>] \in {"full", "counting"} => state'[n] = "splice"
                 /\ taken'[<<n, v>>] # 0 => half'[<<n, v>>] = "counting"
      <4>1. <<n, v>> \in Procs \X Ways
        BY WhoCounts
      <4>2. CASE <<n, v>> = <<p, w>>
        BY <1>1, <4>2 DEF StreamInv, MetersAtWork
      <4>3. CASE <<n, v>> # <<p, w>>
        <5>1. half'[<<n, v>>] = half[<<n, v>>]
          BY <2>2, <2>4, <4>1, <4>3
        <5> QED
          BY <1>1, <5>1 DEF StreamInv, MetersAtWork
      <4> QED
        BY <4>2, <4>3
    <3> QED
      BY <3>1, <3>2 DEF MetersAtWork
  <2> QED
    BY <1>2, <2>8, <2>9, <2>10 DEF StreamInv
<1> QED
  BY <1>3, <1>4

\* A goroutine that found the meter full takes what is in it.
LEMMA TakeKeeps ==
    ASSUME StreamInv, NEW n \in Nodes, NEW w \in Ways, Take(n, w)
    PROVE  StreamInv'
<1>1. /\ UNCHANGED <<state, told, counted, crossed>> /\ half[<<n, w>>] = "full"
      /\ taken' = [taken EXCEPT ![<<n, w>>] = pending[n]]
      /\ pending' = [pending EXCEPT ![n] = 0]
      /\ half' = [half EXCEPT ![<<n, w>>] = "counting"]
  BY DEF Take
<1>2. /\ pending \in [Nodes -> Nat] /\ taken \in [Nodes \X Ways -> Nat]
      /\ half \in [Procs \X Ways -> Doing] /\ <<n, w>> \in Procs \X Ways
  BY WhoCounts DEF StreamInv, StreamTyped
<1>3. InOrder' /\ \A m \in Nodes : Counts(m)' <=> Counts(m)
  BY <1>1 DEF StreamInv, InOrder, Counts, Far
<1>4. pending[n] \in Nat /\ taken[<<n, w>>] = 0
  BY <1>1, <1>2 DEF StreamInv, MetersAtWork
<1>5. SumMoves(taken', taken, pending[n])
  <2>1. pending[n] - taken[<<n, w>>] = pending[n]
    BY <1>4
  <2> QED
    BY <1>1, <1>2, <1>4, <2>1, SumChanges
<1>6. MetersMove(pending', pending, 0 - pending[n])
  BY <1>1, <1>2, MetersChange
<1>7. half' \in [Procs \X Ways -> Doing]
  BY <1>1, <1>2 DEF Doing
<1>8. StreamTyped'
  BY <1>1, <1>5, <1>6, <1>7 DEF StreamInv, StreamTyped, SumMoves, MetersMove
<1>9. Carried'
  <2>1. counted \in Nat /\ counted' = counted /\ InAll(crossed') = InAll(crossed)
    BY <1>1 DEF StreamInv, StreamTyped
  <2>2. counted + (pending["entry"] + pending["exit"] + InAll(taken)) = InAll(crossed)
    BY DEF StreamInv, Carried, InHands, Passed
  <2>3. counted' + (pending'["entry"] + pending'["exit"] + InAll(taken')) = InAll(crossed')
    BY <1>4, <1>5, <1>6, <2>1, <2>2 DEF SumMoves, MetersMove
  <2> QED
    BY <2>3 DEF Carried, InHands, Passed, InAll
<1>10. MetersAtWork'
  <2>1. ASSUME NEW m \in Nodes, pending'[m] # 0 PROVE state'[m] = "splice" /\ Counts(m)'
    <3>1. pending[m] # 0
      BY <1>1, <1>2, <2>1
    <3> QED
      BY <1>1, <1>3, <3>1 DEF StreamInv, MetersAtWork
  <2>2. ASSUME NEW m \in Nodes, NEW v \in Ways
        PROVE  /\ half'[<<m, v>>] \in {"full", "counting"} => state'[m] = "splice"
               /\ taken'[<<m, v>>] # 0 => half'[<<m, v>>] = "counting"
    <3>1. <<m, v>> \in Procs \X Ways /\ <<m, v>> \in Nodes \X Ways
      BY WhoCounts
    <3>2. CASE <<m, v>> = <<n, w>>
      <4>1. m = n /\ half'[<<m, v>>] = "counting"
        BY <1>1, <1>2, <3>2
      <4> QED
        BY <1>1, <4>1 DEF StreamInv, MetersAtWork
    <3>3. CASE <<m, v>> # <<n, w>>
      <4>1. half'[<<m, v>>] = half[<<m, v>>] /\ taken'[<<m, v>>] = taken[<<m, v>>]
        BY <1>1, <1>2, <3>1, <3>3
      <4> QED
        BY <1>1, <4>1 DEF StreamInv, MetersAtWork
    <3> QED
      BY <3>2, <3>3
  <2> QED
    BY <2>1, <2>2 DEF MetersAtWork
<1> QED
  BY <1>3, <1>8, <1>9, <1>10 DEF StreamInv

\* It hands in what it has taken.
LEMMA CountKeeps ==
    ASSUME StreamInv, NEW n \in Nodes, NEW w \in Ways, Count(n, w)
    PROVE  StreamInv'
<1>1. /\ UNCHANGED <<state, told, pending, crossed>>
      /\ counted' = counted + taken[<<n, w>>]
      /\ taken' = [taken EXCEPT ![<<n, w>>] = 0]
      /\ half' = [half EXCEPT ![<<n, w>>] = "run"]
  BY DEF Count
<1>2. /\ taken \in [Nodes \X Ways -> Nat] /\ half \in [Procs \X Ways -> Doing]
      /\ <<n, w>> \in Procs \X Ways /\ <<n, w>> \in Nodes \X Ways
      /\ counted \in Nat /\ pending \in [Nodes -> Nat]
  BY WhoCounts DEF StreamInv, StreamTyped
<1>3. InOrder' /\ \A m \in Nodes : Counts(m)' <=> Counts(m)
  BY <1>1 DEF StreamInv, InOrder, Counts, Far
<1>4. taken[<<n, w>>] \in Nat /\ SumMoves(taken', taken, 0 - taken[<<n, w>>])
  BY <1>1, <1>2, SumChanges
<1>5. half' \in [Procs \X Ways -> Doing] /\ counted' \in Nat
  BY <1>1, <1>2, <1>4 DEF Doing
<1>6. StreamTyped'
  BY <1>1, <1>4, <1>5 DEF StreamInv, StreamTyped, SumMoves
<1>7. Carried'
  <2>1. /\ InAll(crossed') = InAll(crossed) /\ pending' = pending
        /\ pending["entry"] \in Nat /\ pending["exit"] \in Nat
    BY <1>1, <1>2 DEF Nodes
  <2>2. counted + (pending["entry"] + pending["exit"] + InAll(taken)) = InAll(crossed)
    BY DEF StreamInv, Carried, InHands, Passed
  <2>3. counted' + (pending["entry"] + pending["exit"] + InAll(taken')) = InAll(crossed')
    BY <1>1, <1>2, <1>4, <2>1, <2>2 DEF SumMoves
  <2> QED
    BY <2>1, <2>3 DEF Carried, InHands, Passed, InAll
<1>8. MetersAtWork'
  <2>1. ASSUME NEW m \in Nodes, NEW v \in Ways
        PROVE  /\ half'[<<m, v>>] \in {"full", "counting"} => state'[m] = "splice"
               /\ taken'[<<m, v>>] # 0 => half'[<<m, v>>] = "counting"
    <3>1. <<m, v>> \in Procs \X Ways /\ <<m, v>> \in Nodes \X Ways
      BY WhoCounts
    <3>2. CASE <<m, v>> = <<n, w>>
      BY <1>1, <1>2, <3>1, <3>2
    <3>3. CASE <<m, v>> # <<n, w>>
      <4>1. half'[<<m, v>>] = half[<<m, v>>] /\ taken'[<<m, v>>] = taken[<<m, v>>]
        BY <1>1, <1>2, <3>1, <3>3
      <4> QED
        BY <1>1, <4>1 DEF StreamInv, MetersAtWork
    <3> QED
      BY <3>2, <3>3
  <2> QED
    BY <1>1, <1>3, <2>1 DEF StreamInv, MetersAtWork
<1> QED
  BY <1>3, <1>6, <1>7, <1>8 DEF StreamInv

\* Both goroutines are done: the last flush empties the meter.
LEMMA FinishKeeps ==
    ASSUME StreamInv, NEW p \in Procs, Finish(p)
    PROVE  StreamInv'
<1>1. /\ UNCHANGED <<told, half, taken, crossed>> /\ state[p] = "splice"
      /\ state' = [state EXCEPT ![p] = "over"]
      /\ \A w \in Ways : half[<<p, w>>] = "done"
  BY DEF Finish, Goes
<1>2. /\ state \in [Procs -> Stages] /\ pending \in [Nodes -> Nat] /\ counted \in Nat
      /\ taken \in [Nodes \X Ways -> Nat]
  BY DEF StreamInv, StreamTyped
<1>3. state' \in [Procs -> Stages] /\ InOrder' /\ \A n \in Nodes : Counts(n)' <=> Counts(n)
  BY <1>1, <1>2 DEF StreamInv, InOrder, Counts, Far, Stages, Procs, Nodes
<1>4. /\ pending' \in [Nodes -> Nat] /\ counted' \in Nat
      /\ counted' + (pending'["entry"] + pending'["exit"]) = counted + (pending["entry"] + pending["exit"])
      /\ \A n \in Nodes : pending'[n] = IF n = p THEN 0 ELSE pending[n]
  <2>1. CASE Counts(p)
    <3>1. p \in Nodes /\ counted' = counted + pending[p] /\ pending' = [pending EXCEPT ![p] = 0]
      BY <2>1 DEF Finish, Counts
    <3> QED
      BY <1>2, <3>1 DEF Nodes
  <2>2. CASE ~Counts(p)
    <3>1. UNCHANGED <<counted, pending>>
      BY <2>2 DEF Finish
    <3>2. p \in Nodes => pending[p] = 0
      BY <2>2 DEF StreamInv, MetersAtWork
    <3> QED
      BY <1>2, <3>1, <3>2
  <2> QED
    BY <2>1, <2>2
<1>5. StreamTyped'
  BY <1>1, <1>3, <1>4 DEF StreamInv, StreamTyped
<1>6. Carried'
  <2>1. InAll(taken') = InAll(taken) /\ InAll(crossed') = InAll(crossed) /\ InAll(taken) \in Nat
    BY <1>1, <1>2 DEF InAll, Nodes, Ways
  <2>2. counted + (pending["entry"] + pending["exit"] + InAll(taken)) = InAll(crossed)
    BY DEF StreamInv, Carried, InHands, Passed
  <2>3. /\ pending["entry"] \in Nat /\ pending["exit"] \in Nat
        /\ pending'["entry"] \in Nat /\ pending'["exit"] \in Nat
    BY <1>2, <1>4 DEF Nodes
  <2>4. counted' + (pending'["entry"] + pending'["exit"] + InAll(taken')) = InAll(crossed')
    BY <1>2, <1>4, <2>1, <2>2, <2>3
  <2> QED
    BY <2>4 DEF Carried, InHands, Passed, InAll
<1>7. MetersAtWork'
  <2>1. \A n \in Nodes : n # p => state'[n] = state[n]
    BY <1>1, <1>2, WhoCounts
  <2>2. ASSUME NEW n \in Nodes, pending'[n] # 0 PROVE state'[n] = "splice" /\ Counts(n)'
    BY <1>3, <1>4, <2>1, <2>2 DEF StreamInv, MetersAtWork
  <2>3. ASSUME NEW n \in Nodes, NEW w \in Ways
        PROVE  /\ half'[<<n, w>>] \in {"full", "counting"} => state'[n] = "splice"
               /\ taken'[<<n, w>>] # 0 => half'[<<n, w>>] = "counting"
    <3>1. half'[<<n, w>>] = half[<<n, w>>] /\ taken'[<<n, w>>] = taken[<<n, w>>]
      BY <1>1
    <3>2. n = p => half[<<n, w>>] = "done"
      BY <1>1
    <3> QED
      BY <2>1, <3>1, <3>2 DEF StreamInv, MetersAtWork
  <2> QED
    BY <2>2, <2>3 DEF MetersAtWork
<1> QED
  BY <1>3, <1>5, <1>6, <1>7 DEF StreamInv

\* Every step of a stream.
LEMMA StreamSteps == StreamInv /\ [Next]_vars => StreamInv'
<1> SUFFICES ASSUME StreamInv, [Next]_vars PROVE StreamInv'
  OBVIOUS
<1>1. CASE Opening \/ \E n \in Nodes : Dial(n)
  BY <1>1, OpeningKeeps
<1>2. ASSUME NEW n \in Nodes, Meter(n) PROVE StreamInv'
  BY <1>2, TakeKeeps, CountKeeps DEF Meter
<1>3. ASSUME NEW n \in Nodes, Idle(n) PROVE StreamInv'
  BY <1>3, HalvesEnd, WhoCounts DEF Ways
<1>4. ASSUME NEW p \in Procs, Handler(p) PROVE StreamInv'
  BY <1>4, FinishKeeps, MoveKeeps, HalvesEnd DEF Handler
<1>5. ASSUME NEW n \in Nodes, RemoteSends(n) \/ RemoteCloses(n) PROVE StreamInv'
  BY <1>5, NobodyWorks DEF RemoteSends, RemoteCloses, meters
<1>6. CASE AppSends \/ AppCloses \/ Switch
  BY <1>6, NobodyWorks DEF AppSends, AppCloses, Switch, meters
<1>7. CASE (\E l \in {"access", "link"} : Break(l)) \/ \E w \in Ways : Lose(w)
  BY <1>7, NobodyWorks DEF Break, Lose, meters
<1>8. CASE UNCHANGED vars
  BY <1>8, NobodyWorks DEF vars
<1> QED
  BY <1>1, <1>2, <1>3, <1>4, <1>5, <1>6, <1>7, <1>8 DEF Next

\* Every byte that passed an outside socket is in the ledger, in a meter or on
\* its way between the two, once, and a node that has closed a stream keeps
\* none of its bytes (the meter of node/connect.go, its flush by two goroutines
\* and the last one, and who counts: the node that opened the socket).
THEOREM BytesAreCountedOnce == Spec => []EveryByteOnce
<1>1. StreamInv => EveryByteOnce
  BY DEF StreamInv, MetersAtWork, EveryByteOnce, NothingKept
<1> QED
  BY <1>1, StreamBegins, StreamSteps, PTL DEF Spec
=============================================================================

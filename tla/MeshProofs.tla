----------------------------- MODULE MeshProofs -----------------------------
(***************************************************************************)
(* The links between nodes, what is exchanged on them, and the race for an *)
(* exit: three modules side by side, each with its own specification.      *)
(*                                                                         *)
(* Mesh, for any neighbours, places, edits and breaks: the list of live    *)
(* links never names a goroutine that has given its connection up, and     *)
(* misses no link that is held, however many goroutines of one neighbour   *)
(* are still on their way out, unless one of them was late in entering     *)
(* itself.                                                                 *)
(*                                                                         *)
(* Race, for any number of streams that race at once, any exits, and       *)
(* datagrams lost, late and out of order: whoever wins the race for a      *)
(* stream has taken that stream.                                           *)
(*                                                                         *)
(* SyncSession, for frames of any length, a stream of any window, any moods*)
(* and any number of rounds: frames stay whole, and a side that reports    *)
(* success has taken what it was sent.                                     *)
(***************************************************************************)
EXTENDS Mesh, Race, SyncSession, SequenceTheorems, TLAPS

HeldStages == {"exchanging", "waiting", "lost"}
Stages == {"dialling", "opening", "pausing", "ended"} \cup HeldStages
Keeper == [node : Records, cancelled : BOOLEAN, stage : Stages]

MeshTyped ==
    /\ rec \in [Neighbours -> Records \cup {Absent}]
    /\ keepers \in [Neighbours -> Seq(Keeper)]
    /\ links \in [Neighbours -> Nat] /\ live \in [Neighbours -> Nat]
    /\ late \in [Neighbours -> BOOLEAN]
    /\ \A i \in Neighbours : links[i] <= Len(keepers[i]) /\ live[i] <= Len(keepers[i])

\* Whoever has not been cancelled holds the link: a successor is started only
\* after its predecessor was cancelled.
OneGoesOn ==
    \A i \in Neighbours : \A k \in 1..Len(keepers[i]) :
        ~keepers[i][k].cancelled => links[i] = k

\* The list names a goroutine that has its connection still.
LiveIsHeld == \A i \in Neighbours : live[i] # None => Held(i, live[i])

\* The link that is wanted and held is the one the list names: a goroutine on
\* its way out does not take the entry out, and if it has put its own over it,
\* late says so until the link is raised anew.
LinkIsLive ==
    \A i \in Neighbours :
        links[i] # None /\ Held(i, links[i]) /\ ~late[i] => live[i] = links[i]

MeshInv == MeshTyped /\ OneGoesOn /\ LiveIsHeld /\ LinkIsLive

\* A node begins without links.
LEMMA MeshBegins == Init => MeshInv
  BY DEF Init, MeshInv, MeshTyped, OneGoesOn, LiveIsHeld, LinkIsLive, None, Keeper

\* Steps of the owner and of the neighbours' own links.
LEMMA MeshStays ==
    ASSUME MeshInv, UNCHANGED <<keepers, links, live, late>>,
           rec' \in [Neighbours -> Records \cup {Absent}]
    PROVE  MeshInv'
  BY DEF MeshInv, MeshTyped, OneGoesOn, LiveIsHeld, LinkIsLive, Held

\* The goroutines of a neighbour after one of them was cancelled.
Cancelling(s, l) == [s EXCEPT ![l].cancelled = TRUE]

\* What a review does to one neighbour.
LEMMA ReviewOfOne ==
    ASSUME MeshInv, Review, NEW i \in Neighbours
    PROVE  /\ live'[i] = live[i] /\ late'[i] = late[i]
           /\ \/ /\ keepers'[i] = keepers[i] /\ links'[i] = links[i]
              \/ /\ links[i] # None /\ links'[i] = None
                 /\ keepers'[i] = Cancelling(keepers[i], links[i])
              \/ /\ links[i] = None /\ links'[i] = Len(keepers[i]) + 1
                 /\ rec[i] \in Records
                 /\ keepers'[i] = Append(keepers[i], Starting(rec[i]))
  BY DEF Review, Leaving, Joining, MeshInv, MeshTyped, Cancelling

\* Cancelling one goroutine changes nothing else, of it or of the others.
LEMMA CancellingOne ==
    ASSUME NEW s \in Seq(Keeper), NEW l \in 1..Len(s)
    PROVE  LET t == Cancelling(s, l) IN
           /\ t \in Seq(Keeper) /\ Len(t) = Len(s)
           /\ \A k \in 1..Len(s) : t[k].stage = s[k].stage /\ t[k].node = s[k].node
           /\ \A k \in 1..Len(s) : t[k].cancelled = (k = l \/ s[k].cancelled)
<1> DEFINE t == Cancelling(s, l)
<1>1. \A k \in 1..Len(s) : s[k] \in Keeper
  OBVIOUS
<1>2. \A k \in 1..Len(s) : t[k] = IF k = l THEN [s[l] EXCEPT !.cancelled = TRUE] ELSE s[k]
  BY DEF Cancelling
<1>3. [s[l] EXCEPT !.cancelled = TRUE] \in Keeper
  BY <1>1 DEF Keeper
<1>4. t \in Seq(Keeper) /\ Len(t) = Len(s)
  BY <1>3 DEF Cancelling
<1> HIDE DEF t
<1>5. \A k \in 1..Len(s) : t[k].stage = s[k].stage /\ t[k].node = s[k].node
  BY <1>1, <1>2 DEF Keeper
<1>6. \A k \in 1..Len(s) : t[k].cancelled = (k = l \/ s[k].cancelled)
  BY <1>1, <1>2 DEF Keeper
<1> QED
  BY <1>4, <1>5, <1>6 DEF t

\* One goroutine goes on: nothing but its stage changes.
LEMMA GoingOn ==
    ASSUME NEW s \in Seq(Keeper), NEW k \in 1..Len(s), NEW stage \in Stages
    PROVE  LET t == [s EXCEPT ![k].stage = stage] IN
           /\ t \in Seq(Keeper) /\ Len(t) = Len(s)
           /\ \A j \in 1..Len(s) : t[j].cancelled = s[j].cancelled
           /\ \A j \in 1..Len(s) : t[j].stage = IF j = k THEN stage ELSE s[j].stage
<1> DEFINE t == [s EXCEPT ![k].stage = stage]
<1>1. \A j \in 1..Len(s) : s[j] \in Keeper
  OBVIOUS
<1>2. \A j \in 1..Len(s) : t[j] = IF j = k THEN [s[k] EXCEPT !.stage = stage] ELSE s[j]
  OBVIOUS
<1>3. [s[k] EXCEPT !.stage = stage] \in Keeper
  BY <1>1 DEF Keeper
<1>4. t \in Seq(Keeper) /\ Len(t) = Len(s)
  BY <1>3
<1> HIDE DEF t
<1>5. \A j \in 1..Len(s) : t[j].cancelled = s[j].cancelled
  BY <1>1, <1>2 DEF Keeper
<1>6. \A j \in 1..Len(s) : t[j].stage = IF j = k THEN stage ELSE s[j].stage
  BY <1>1, <1>2 DEF Keeper
<1> QED
  BY <1>4, <1>5, <1>6 DEF t

\* What the review leaves of one neighbour, in the terms of the invariant.
LEMMA ReviewKeepsOne ==
    ASSUME MeshInv, Review, NEW i \in Neighbours
    PROVE  /\ keepers'[i] \in Seq(Keeper) /\ links'[i] \in Nat /\ live'[i] \in Nat
           /\ links'[i] <= Len(keepers'[i]) /\ live'[i] <= Len(keepers'[i])
           /\ \A k \in 1..Len(keepers'[i]) : ~keepers'[i][k].cancelled => links'[i] = k
           /\ live'[i] # None => Held(i, live[i])'
           /\ links'[i] # None /\ Held(i, links[i])' /\ ~late'[i] => live'[i] = links'[i]
<1>1. /\ keepers[i] \in Seq(Keeper) /\ links[i] \in Nat /\ live[i] \in Nat
      /\ links[i] <= Len(keepers[i]) /\ live[i] <= Len(keepers[i])
      /\ \A k \in 1..Len(keepers[i]) : ~keepers[i][k].cancelled => links[i] = k
      /\ live[i] # None => Held(i, live[i])
      /\ links[i] # None /\ Held(i, links[i]) /\ ~late[i] => live[i] = links[i]
  BY DEF MeshInv, MeshTyped, OneGoesOn, LiveIsHeld, LinkIsLive
<1>2. live'[i] = live[i] /\ late'[i] = late[i]
  BY ReviewOfOne
<1>3. CASE keepers'[i] = keepers[i] /\ links'[i] = links[i]
  BY <1>1, <1>2, <1>3 DEF Held
<1>4. CASE /\ links[i] # None /\ links'[i] = None
           /\ keepers'[i] = Cancelling(keepers[i], links[i])
  <2>1. links[i] \in 1..Len(keepers[i])
    BY <1>1, <1>4, LenProperties DEF None
  <2>2. /\ keepers'[i] \in Seq(Keeper) /\ Len(keepers'[i]) = Len(keepers[i])
        /\ \A k \in 1..Len(keepers[i]) : keepers'[i][k].stage = keepers[i][k].stage
        /\ \A k \in 1..Len(keepers[i]) :
             keepers'[i][k].cancelled = (k = links[i] \/ keepers[i][k].cancelled)
    BY <1>1, <1>4, <2>1, CancellingOne
  <2>3. links'[i] \in Nat /\ links'[i] <= Len(keepers'[i])
    BY <1>1, <1>4, <2>2 DEF None
  <2>4. \A k \in 1..Len(keepers'[i]) : keepers'[i][k].cancelled
    BY <1>1, <2>2
  <2>5. live'[i] # None => Held(i, live[i])'
    <3> SUFFICES ASSUME live[i] # None PROVE Held(i, live[i])'
      BY <1>2
    <3>1. live[i] \in 1..Len(keepers[i])
      BY <1>1, LenProperties DEF None
    <3>2. Held(i, live[i])
      BY <1>1
    <3> QED
      BY <1>2, <2>2, <3>1, <3>2 DEF Held
  <2> QED
    BY <1>1, <1>2, <1>4, <2>2, <2>3, <2>4, <2>5
<1>5. CASE /\ links[i] = None /\ links'[i] = Len(keepers[i]) + 1
           /\ rec[i] \in Records
           /\ keepers'[i] = Append(keepers[i], Starting(rec[i]))
  <2>1. Starting(rec[i]) \in Keeper /\ Starting(rec[i]).stage = "dialling"
    BY <1>5 DEF Starting, Keeper, Stages
  <2>2. /\ keepers'[i] \in Seq(Keeper) /\ Len(keepers'[i]) = Len(keepers[i]) + 1
        /\ \A k \in 1..Len(keepers[i]) : keepers'[i][k] = keepers[i][k]
        /\ keepers'[i][Len(keepers[i]) + 1] = Starting(rec[i])
        /\ Len(keepers[i]) \in Nat
    BY <1>1, <1>5, <2>1, LenProperties, AppendProperties
  <2>3. \A k \in 1..Len(keepers[i]) : keepers[i][k].cancelled
    BY <1>1, <1>5 DEF None
  <2>4. \A k \in 1..Len(keepers'[i]) : ~keepers'[i][k].cancelled => links'[i] = k
    BY <1>5, <2>2, <2>3
  <2>5. live'[i] # None => Held(i, live[i])'
    BY <1>1, <1>2, <2>2 DEF Held, None
  <2>6. ~Held(i, links[i])'
    BY <1>5, <2>1, <2>2 DEF Held
  <2> QED
    BY <1>1, <1>2, <1>5, <2>2, <2>4, <2>5, <2>6
<1> QED
  BY <1>3, <1>4, <1>5, ReviewOfOne

\* A review keeps the invariant.
LEMMA ReviewIsSafe ==
    ASSUME MeshInv, Review
    PROVE  MeshInv'
<1>1. /\ rec' \in [Neighbours -> Records \cup {Absent}]
      /\ DOMAIN keepers' = Neighbours /\ keepers' = [i \in Neighbours |-> keepers'[i]]
      /\ links' = [i \in Neighbours |-> links'[i]]
      /\ live' = live /\ live \in [Neighbours -> Nat]
      /\ late' = late /\ late \in [Neighbours -> BOOLEAN]
  BY DEF Review, MeshInv, MeshTyped
<1>2. MeshTyped'
  <2>1. keepers' \in [Neighbours -> Seq(Keeper)] /\ links' \in [Neighbours -> Nat]
    BY <1>1, ReviewKeepsOne
  <2> QED
    BY <1>1, <2>1, ReviewKeepsOne DEF MeshTyped
<1>3. OneGoesOn'
  BY ReviewKeepsOne DEF OneGoesOn
<1>4. LiveIsHeld'
  BY ReviewKeepsOne DEF LiveIsHeld
<1>5. LinkIsLive'
  BY ReviewKeepsOne DEF LinkIsLive
<1> QED
  BY <1>2, <1>3, <1>4, <1>5 DEF MeshInv

\* A step of goroutine k of neighbour i: its stage, and what it does to the
\* entry of the list.
LEMMA KeeperIsSafe ==
    ASSUME MeshInv, NEW i \in Neighbours, NEW k \in 1..Len(keepers[i]), NEW stage \in Stages,
           Goes(i, k, stage), UNCHANGED <<rec, links>>,
           \/ /\ stage \in HeldStages /\ UNCHANGED <<live, late>>
              /\ Held(i, k)
           \/ /\ stage \in HeldStages
              /\ live' = [live EXCEPT ![i] = k]
              /\ late' = [late EXCEPT ![i] = keepers[i][k].cancelled]
           \/ /\ stage \notin HeldStages /\ late' = late
              /\ Forget(i, k)
           \/ /\ stage \notin HeldStages /\ UNCHANGED <<live, late>>
              /\ ~Held(i, k)
    PROVE  MeshInv'
<1>1. /\ keepers[i] \in Seq(Keeper) /\ links[i] \in Nat /\ live[i] \in Nat
      /\ links[i] <= Len(keepers[i]) /\ live[i] <= Len(keepers[i])
      /\ live \in [Neighbours -> Nat] /\ links \in [Neighbours -> Nat]
      /\ keepers \in [Neighbours -> Seq(Keeper)]
      /\ Len(keepers[i]) \in Nat
  BY LenProperties DEF MeshInv, MeshTyped
<1>2. /\ keepers' = [keepers EXCEPT ![i] = [keepers[i] EXCEPT ![k].stage = stage]]
      /\ keepers'[i] = [keepers[i] EXCEPT ![k].stage = stage]
      /\ \A j \in Neighbours : j # i => keepers'[j] = keepers[j]
      /\ links' = links
  BY <1>1 DEF Goes
<1>3. /\ keepers'[i] \in Seq(Keeper) /\ Len(keepers'[i]) = Len(keepers[i])
      /\ \A j \in 1..Len(keepers[i]) : keepers'[i][j].cancelled = keepers[i][j].cancelled
      /\ \A j \in 1..Len(keepers[i]) :
           keepers'[i][j].stage = IF j = k THEN stage ELSE keepers[i][j].stage
  BY <1>1, <1>2, GoingOn
<1>4. /\ \A j \in Neighbours : j # i => live'[j] = live[j] /\ late'[j] = late[j]
      /\ live' \in [Neighbours -> Nat] /\ live'[i] \in {live[i], k, None}
  <2>1. k \in Nat
    BY <1>1
  <2>2. \/ live' = live
        \/ live' = [live EXCEPT ![i] = k]
        \/ live' = [live EXCEPT ![i] = None]
    BY DEF Forget
  <2>3. \A j \in Neighbours : j # i => late'[j] = late[j]
    <3>1. late \in [Neighbours -> BOOLEAN]
      BY DEF MeshInv, MeshTyped
    <3>2. late' = late \/ late' = [late EXCEPT ![i] = keepers[i][k].cancelled]
      OBVIOUS
    <3> QED
      BY <3>1, <3>2
  <2> QED
    BY <1>1, <2>1, <2>2, <2>3 DEF None
<1>5. MeshTyped'
  <2>1. keepers' \in [Neighbours -> Seq(Keeper)]
    BY <1>1, <1>2, <1>3
  <2>2. \A j \in Neighbours : links'[j] <= Len(keepers'[j]) /\ live'[j] <= Len(keepers'[j])
    BY <1>1, <1>2, <1>3, <1>4 DEF MeshInv, MeshTyped, None
  <2>3. late' \in [Neighbours -> BOOLEAN]
    <3>1. keepers[i][k] \in Keeper
      BY <1>1
    <3>2. late \in [Neighbours -> BOOLEAN] /\ keepers[i][k].cancelled \in BOOLEAN
      BY <3>1 DEF MeshInv, MeshTyped, Keeper
    <3> QED
      BY <3>2
  <2> QED
    BY <1>1, <1>2, <1>4, <2>1, <2>2, <2>3 DEF MeshTyped, MeshInv
<1>6. OneGoesOn'
  <2> SUFFICES ASSUME NEW j \in Neighbours, NEW l \in 1..Len(keepers'[j]),
                      ~keepers'[j][l].cancelled
               PROVE  links[j] = l
    BY <1>2 DEF OneGoesOn
  <2> QED
    BY <1>2, <1>3 DEF MeshInv, OneGoesOn
<1>7. LiveIsHeld'
  <2> SUFFICES ASSUME NEW j \in Neighbours, live'[j] # None PROVE Held(j, live[j])'
    BY DEF LiveIsHeld
  <2>1. CASE j # i
    BY <1>2, <1>4, <2>1 DEF MeshInv, LiveIsHeld, Held
  <2>2. CASE j = i
    <3>1. live'[i] \in 1..Len(keepers[i])
      BY <1>1, <1>4, <2>2 DEF None
    <3>2. CASE live'[i] = k
      <4>1. stage \in HeldStages
        BY <1>1, <3>1, <3>2 DEF Forget, None, MeshInv, LiveIsHeld
      <4> QED
        BY <1>3, <2>2, <3>2, <4>1 DEF Held, HeldStages
    <3>3. CASE live'[i] # k
      <4>1. live'[i] = live[i] /\ Held(i, live[i])
        BY <1>4, <2>2, <3>3 DEF MeshInv, LiveIsHeld
      <4> QED
        BY <1>3, <2>2, <3>1, <3>3, <4>1 DEF Held
    <3> QED
      BY <3>2, <3>3
  <2> QED
    BY <2>1, <2>2
<1>8. LinkIsLive'
  <2> SUFFICES ASSUME NEW j \in Neighbours, links[j] # None, Held(j, links[j])', ~late'[j]
               PROVE  live'[j] = links[j]
    BY <1>2 DEF LinkIsLive
  <2>1. CASE j # i
    BY <1>2, <1>4, <2>1 DEF MeshInv, LinkIsLive, Held
  <2>2. CASE j = i /\ links[i] = k
    <3>1. stage \in HeldStages
      BY <1>2, <1>3, <2>2 DEF Held, HeldStages
    <3> QED
      BY <1>1, <2>2, <3>1 DEF MeshInv, LinkIsLive
  <2>3. CASE j = i /\ links[i] # k
    <3>1. links[i] \in 1..Len(keepers[i])
      BY <1>1, <2>3 DEF None
    <3>2. Held(i, links[i])
      BY <1>2, <1>3, <2>3, <3>1 DEF Held
    <3>4. keepers[i][k].cancelled
      BY <2>3 DEF MeshInv, OneGoesOn
    <3>3. late' = late
      BY <2>3, <3>4 DEF MeshInv, MeshTyped
    <3>5. live[i] = links[i]
      BY <2>3, <3>2, <3>3 DEF MeshInv, LinkIsLive
    <3>6. live'[i] = live[i]
      <4>1. live' = live \/ Forget(i, k)
        BY <2>3, <3>4 DEF MeshInv, MeshTyped
      <4> QED
        BY <2>3, <3>5, <4>1 DEF Forget
    <3> QED
      BY <2>3, <3>5, <3>6
  <2> QED
    BY <2>1, <2>2, <2>3
<1> QED
  BY <1>5, <1>6, <1>7, <1>8 DEF MeshInv

\* Every step of the owner, of reviews, links and neighbours keeps it.
LEMMA MeshSteps == MeshInv /\ [Next]_vars => MeshInv'
<1> SUFFICES ASSUME MeshInv, [Next]_vars PROVE MeshInv'
  OBVIOUS
<1>1. CASE Review
  BY <1>1, ReviewIsSafe
<1>2. ASSUME NEW i \in Neighbours, NEW r \in Records \cup {Absent}, Record(i, r)
      PROVE  MeshInv'
  BY <1>2, MeshStays DEF Record, MeshInv, MeshTyped
<1>3. ASSUME NEW i \in Neighbours, NEW k \in 1..Len(keepers[i]),
             Keeps(i, k) \/ Tick(i, k) \/ Breaks(i, k) \/ OpenFails(i, k)
      PROVE  MeshInv'
  <2>1. AfterFailure(i, k) \in Stages /\ AfterFailure(i, k) \notin HeldStages
    BY DEF AfterFailure, Stages, HeldStages
  <2>2. CASE Connect(i, k)
    <3>1. ~Held(i, k) /\ "opening" \in Stages /\ "opening" \notin HeldStages
      BY <2>2 DEF Connect, Held, Stages, HeldStages
    <3> QED
      BY <2>2, <3>1, KeeperIsSafe DEF Connect
  <2>3. CASE DialFails(i, k) \/ OpenFails(i, k)
    <3>1. ~Held(i, k)
      BY <2>3 DEF DialFails, OpenFails, Held
    <3> QED
      BY <2>1, <2>3, <3>1, KeeperIsSafe DEF DialFails, OpenFails
  <2>4. CASE AddLive(i, k)
    <3>1. "exchanging" \in Stages /\ "exchanging" \in HeldStages
      BY DEF Stages, HeldStages
    <3> QED
      BY <2>4, <3>1, KeeperIsSafe DEF AddLive
  <2>5. CASE Exchanged(i, k) \/ Tick(i, k) \/ Breaks(i, k)
    <3>1. Held(i, k)
      BY <2>5 DEF Exchanged, Tick, Breaks, Held
    <3>2. PICK stage \in HeldStages :
            Goes(i, k, stage) /\ UNCHANGED <<rec, links, live, late>>
      BY <2>5 DEF Exchanged, Tick, Breaks, HeldStages
    <3>3. stage \in Stages
      BY DEF Stages
    <3> QED
      BY <3>1, <3>2, <3>3, KeeperIsSafe
  <2>6. CASE NoticesCancel(i, k)
    <3>1. "ended" \in Stages /\ "ended" \notin HeldStages
      BY DEF Stages, HeldStages
    <3> QED
      BY <2>6, <3>1, KeeperIsSafe DEF NoticesCancel
  <2>7. CASE Retry(i, k)
    <3>1. ~Held(i, k) /\ "dialling" \in Stages /\ "dialling" \notin HeldStages
      BY <2>7 DEF Retry, Held, Stages, HeldStages
    <3> QED
      BY <2>7, <3>1, KeeperIsSafe DEF Retry
  <2>8. CASE ExchangeFails(i, k)
    BY <2>1, <2>8, KeeperIsSafe DEF ExchangeFails
  <2> QED
    BY <1>3, <2>2, <2>3, <2>4, <2>5, <2>6, <2>7, <2>8 DEF Keeps
<1>4. ASSUME NEW i \in Neighbours, Accept(i) \/ InboundEnds(i)
      PROVE  MeshInv'
  BY <1>4, MeshStays DEF Accept, InboundEnds, MeshInv, MeshTyped
<1>5. CASE UNCHANGED vars
  BY <1>5, MeshStays DEF vars, MeshInv, MeshTyped
<1> QED
  BY <1>1, <1>2, <1>3, <1>4, <1>5 DEF Next

\* A race is never offered a connection that its goroutine has given up, and is
\* offered every link that is held and wanted, through revocations and additions
\* in quick succession, unless a cancelled goroutine was the last to enter itself
\* (Mesh.review, keep, serve, exchangeLoop, addLive).
THEOREM RacesSeeTheLinks == Spec => []LiveIsServed
<1>1. MeshInv => LiveIsServed
  BY DEF MeshInv, LiveIsHeld, LinkIsLive, LiveIsServed
<1> QED
  BY <1>1, MeshBegins, MeshSteps, PTL DEF Spec

-----------------------------------------------------------------------------
\* The race for an exit.

Kinds == {"offer", "take", "pass"}
Datagrams == [kind : Kinds, flow : Flows, peer : Peers]

\* What the argument needs of the types: the parts of RaceTypeOK and the tables
\* RaceTypeOK does not speak of.
Typed ==
    /\ replies \in [Flows -> Seq(Peers \cup {Pass})]
    /\ winner \in [Flows -> Peers \cup {Pass, Nobody}]
    /\ said \in [Flows -> SUBSET (Peers \X Kinds)]
    /\ wire \subseteq Datagrams
    /\ linked \subseteq Peers
    /\ ask \in [Flows -> SUBSET Peers]

\* An answer under way was given, by the peer it names and about this stream.
AnswersWereGiven ==
    \A d \in wire : d.kind # "offer" => <<d.peer, d.kind>> \in said[d.flow]

\* So was one that waits for Run to take it.
RepliesWereGiven ==
    \A f \in Flows : \A i \in 1..Len(replies[f]) :
        replies[f][i] # Pass => <<replies[f][i], "take">> \in said[f]

RaceInv == Typed /\ AnswersWereGiven /\ RepliesWereGiven /\ WinnerTook

\* Before the first race nobody has said anything.
LEMMA RaceBegins == RaceInit => RaceInv
  BY DEF RaceInit, RaceInv, Typed, AnswersWereGiven, RepliesWereGiven, WinnerTook,
         Datagrams, Kinds, Nobody, Pass

\* Steps that leave the answers alone.
LEMMA EntryIsQuiet ==
    ASSUME RaceInv, UNCHANGED <<replies, winner, said>>,
           wire' \subseteq wire \cup [kind : {"offer"}, flow : Flows, peer : Peers],
           linked' \subseteq linked, ask' \in [Flows -> SUBSET Peers]
    PROVE  RaceInv'
<1>1. Typed'
  BY DEF RaceInv, Typed, Datagrams, Kinds
<1>2. AnswersWereGiven'
  <2> SUFFICES ASSUME NEW d \in wire', d.kind # "offer"
               PROVE  <<d.peer, d.kind>> \in said[d.flow]
    BY DEF AnswersWereGiven
  <2>1. d \in wire
    OBVIOUS
  <2> QED
    BY <2>1 DEF RaceInv, AnswersWereGiven
<1> QED
  BY <1>1, <1>2 DEF RaceInv, RepliesWereGiven, WinnerTook

\* What is left in a channel after one answer is taken was in it before.
LEMMA RestOfASequence ==
    ASSUME NEW S, NEW s \in Seq(S), s # <<>>, NEW i \in 1..Len(Tail(s))
    PROVE  i + 1 \in 1..Len(s) /\ Tail(s)[i] = s[i + 1]
<1>1. Len(Tail(s)) = Len(s) - 1 /\ Len(s) \in Nat
  BY HeadTailProperties, LenProperties
<1>2. Tail(s)[i] = s[i + 1]
  BY HeadTailProperties
<1> QED
  BY <1>1, <1>2

\* Run takes an answer from its channel.
LEMMA TakingIsHonest ==
    ASSUME RaceInv, NEW f \in Flows, TakeReply(f)
    PROVE  RaceInv'
<1>1. /\ replies[f] \in Seq(Peers \cup {Pass}) /\ replies[f] # <<>>
      /\ replies' = [replies EXCEPT ![f] = Tail(replies[f])]
      /\ UNCHANGED <<linked, ask, said, wire>>
  BY DEF TakeReply, RaceInv, Typed
<1>2. Head(replies[f]) = replies[f][1] /\ 1 \in 1..Len(replies[f])
  BY <1>1
<1>3. \/ winner' = winner
      \/ Head(replies[f]) # Pass /\ winner' = [winner EXCEPT ![f] = Head(replies[f])]
  BY DEF TakeReply
<1>4. Typed'
  <2>1. Head(replies[f]) \in Peers \cup {Pass} /\ Tail(replies[f]) \in Seq(Peers \cup {Pass})
    BY <1>1
  <2> QED
    BY <1>1, <1>3, <2>1 DEF RaceInv, Typed
<1>5. RepliesWereGiven'
  <2> SUFFICES ASSUME NEW g \in Flows, NEW i \in 1..Len(replies'[g]), replies'[g][i] # Pass
               PROVE  <<replies'[g][i], "take">> \in said[g]
    BY <1>1 DEF RepliesWereGiven
  <2>1. CASE g = f
    <3>1. replies'[g] = Tail(replies[f])
      BY <1>1, <2>1 DEF RaceInv, Typed
    <3>2. i + 1 \in 1..Len(replies[f]) /\ replies'[g][i] = replies[f][i + 1]
      BY <1>1, <3>1, RestOfASequence
    <3> QED
      BY <2>1, <3>2 DEF RaceInv, RepliesWereGiven
  <2>2. CASE g # f
    BY <1>1, <2>2 DEF RaceInv, RepliesWereGiven, Typed
  <2> QED
    BY <2>1, <2>2
<1>6. WinnerTook'
  <2>1. Head(replies[f]) # Pass => <<Head(replies[f]), "take">> \in said[f]
    BY <1>2 DEF RaceInv, RepliesWereGiven
  <2> QED
    BY <1>1, <1>3, <2>1 DEF RaceInv, WinnerTook, Typed
<1> QED
  BY <1>1, <1>4, <1>5, <1>6 DEF RaceInv, AnswersWereGiven

\* An exit answers, and what it says is what is noted.
LEMMA AnsweringIsHonest ==
    ASSUME RaceInv, NEW d \in wire, NEW kind \in {"take", "pass"}, Answer(d, kind)
    PROVE  RaceInv'
<1>1. d \in Datagrams /\ d.flow \in Flows /\ d.peer \in Peers
  BY DEF RaceInv, Typed, Datagrams
<1>2. \A f \in Flows : said[f] \subseteq said'[f]
  BY <1>1 DEF Answer, RaceInv, Typed
<1>3. <<d.peer, kind>> \in said'[d.flow]
  BY <1>1 DEF Answer, RaceInv, Typed
<1>4. Typed'
  BY <1>1 DEF Answer, RaceInv, Typed, Datagrams, Datagram, Kinds
<1>5. AnswersWereGiven'
  <2> SUFFICES ASSUME NEW e \in wire', e.kind # "offer"
               PROVE  <<e.peer, e.kind>> \in said'[e.flow]
    BY DEF AnswersWereGiven
  <2>1. CASE e = Datagram(kind, d.flow, d.peer)
    BY <1>3, <2>1 DEF Datagram
  <2>2. CASE e \in wire
    <3>1. e.flow \in Flows
      BY <2>2 DEF RaceInv, Typed, Datagrams
    <3> QED
      BY <1>2, <2>2, <3>1 DEF RaceInv, AnswersWereGiven
  <2> QED
    BY <2>1, <2>2 DEF Answer
<1>6. RepliesWereGiven'
  BY <1>2 DEF Answer, RaceInv, RepliesWereGiven
<1>7. WinnerTook'
  BY <1>2 DEF Answer, RaceInv, WinnerTook
<1> QED
  BY <1>4, <1>5, <1>6, <1>7 DEF RaceInv

\* An answer arrives and goes to the channel of the stream it names, if any.
LEMMA ReplyingIsHonest ==
    ASSUME RaceInv, NEW d \in wire, Reply(d)
    PROVE  RaceInv'
<1> DEFINE answer == IF d.kind = "take" THEN d.peer ELSE Pass
<1>1. d.flow \in Flows /\ d.peer \in Peers /\ d.kind \in {"take", "pass"}
  BY DEF Reply, RaceInv, Typed, Datagrams
<1>2. answer # Pass => <<answer, "take">> \in said[d.flow]
  BY <1>1 DEF RaceInv, AnswersWereGiven
<1>3. \/ replies' = replies
      \/ replies' = [replies EXCEPT ![d.flow] = Append(replies[d.flow], answer)]
  BY DEF Reply
<1>4. UNCHANGED <<winner, said, linked, ask>> /\ wire' \subseteq wire
  BY DEF Reply
<1>5. Typed'
  <2>1. replies[d.flow] \in Seq(Peers \cup {Pass}) /\ answer \in Peers \cup {Pass}
    BY <1>1 DEF RaceInv, Typed
  <2>2. Append(replies[d.flow], answer) \in Seq(Peers \cup {Pass})
    BY <2>1
  <2> HIDE DEF answer
  <2> QED
    BY <1>3, <1>4, <2>2 DEF RaceInv, Typed
<1>6. RepliesWereGiven'
  <2> SUFFICES ASSUME NEW g \in Flows, NEW i \in 1..Len(replies'[g]), replies'[g][i] # Pass
               PROVE  <<replies'[g][i], "take">> \in said[g]
    BY <1>4 DEF RepliesWereGiven
  <2>1. CASE replies'[g] = replies[g]
    BY <2>1 DEF RaceInv, RepliesWereGiven
  <2>2. CASE replies'[g] = Append(replies[g], answer) /\ g = d.flow
    <3>1. replies[g] \in Seq(Peers \cup {Pass})
      BY DEF RaceInv, Typed
    <3>2. CASE i \in 1..Len(replies[g])
      <4>1. replies'[g][i] = replies[g][i]
        BY <2>2, <3>1, <3>2
      <4> QED
        BY <3>2, <4>1 DEF RaceInv, RepliesWereGiven
    <3>3. CASE i = Len(replies[g]) + 1
      <4>1. replies'[g][i] = answer
        BY <2>2, <3>1, <3>3
      <4> QED
        BY <1>2, <2>2, <4>1
    <3> QED
      BY <2>2, <3>1, <3>2, <3>3
  <2> HIDE DEF answer
  <2> QED
    BY <1>3, <2>1, <2>2 DEF RaceInv, Typed
<1> QED
  BY <1>4, <1>5, <1>6 DEF RaceInv, AnswersWereGiven, WinnerTook

\* Every step keeps answers honest.
LEMMA RaceSteps == RaceInv /\ [RaceNext]_raceVars => RaceInv'
<1> SUFFICES ASSUME RaceInv, [RaceNext]_raceVars PROVE RaceInv'
  OBVIOUS
<1> USE DEF RaceInv, Typed
<1>1. ASSUME NEW f \in Flows, Start(f) PROVE RaceInv'
  BY <1>1, EntryIsQuiet DEF Start
<1>2. ASSUME NEW f \in Flows, NEW p \in Peers, Ask(f, p) PROVE RaceInv'
  <2>1. Datagram("offer", f, p) \in [kind : {"offer"}, flow : Flows, peer : Peers]
    BY DEF Datagram
  <2> QED
    BY <1>2, <2>1, EntryIsQuiet DEF Ask
<1>3. ASSUME NEW f \in Flows, Asked(f) PROVE RaceInv'
  BY <1>3, EntryIsQuiet DEF Asked
<1>4. ASSUME NEW f \in Flows, TakeReply(f) PROVE RaceInv'
  BY <1>4, TakingIsHonest
<1>5. ASSUME NEW f \in Flows, Timeout(f) \/ ClientGone(f) \/ OpenExit(f) \/ GoLocal(f)
      PROVE  RaceInv'
  BY <1>5, EntryIsQuiet DEF Timeout, ClientGone, OpenExit, GoLocal
<1>6. ASSUME NEW d \in wire, Reply(d) PROVE RaceInv'
  BY <1>6, ReplyingIsHonest
<1>7. ASSUME NEW d \in wire, Lose(d) PROVE RaceInv'
  BY <1>7, EntryIsQuiet DEF Lose
<1>8. ASSUME NEW d \in wire, NEW kind \in {"take", "pass"}, Answer(d, kind) PROVE RaceInv'
  BY <1>8, AnsweringIsHonest
<1>9. ASSUME NEW p \in Peers, LinkBreaks(p) PROVE RaceInv'
  BY <1>9, EntryIsQuiet DEF LinkBreaks
<1>10. CASE UNCHANGED raceVars
  BY <1>10, EntryIsQuiet DEF raceVars
<1> QED
  BY <1>1, <1>2, <1>3, <1>4, <1>5, <1>6, <1>7, <1>8, <1>9, <1>10 DEF RaceNext

\* A stream goes to an exit that was asked about this very stream and took it
\* (Runner.Run, Runner.Reply, Responder).
THEOREM WinnersTookTheStream == RaceSpec => []WinnerTook
<1>1. RaceInv => WinnerTook
  BY DEF RaceInv
<1> QED
  BY <1>1, RaceBegins, RaceSteps, PTL DEF RaceSpec

-----------------------------------------------------------------------------
\* The exchange of a link.

Halves == {"reader", "writer"}
Written == Frames \ {"reject"}
SideRecord ==
    [mood : Moods, round : Nat, call : {"sync", "usage"},
     reader : Written \cup Results, part : Nat,
     writer : Written \cup Results \cup {"wait"}, at : Nat,
     offered : {"unknown", "known", "closed"},
     rejecter : {"none", "writing", "gone"}, lock : {"free", "writer"},
     taken : SUBSET Halves, imported : {"nothing", "some", "all"},
     result : Results \cup {"running"}]
Chunks == [kind : Frames, i : Nat, last : BOOLEAN]

\* How far a frame is after this chunk.
NextOf(chunk) == IF chunk.last THEN 0 ELSE chunk.i

\* What one side is doing, in so far as it fixes what it writes and how far it
\* has read: who has a frame half written holds the lock, and whoever has
\* stopped reading without an error has read whole frames.
AtWork(me) ==
    /\ me.at > 0 <=> me.lock = "writer"
    /\ me.at > 0 => me.writer \in Frames
    /\ me.reader \notin Frames \cup {"failed"} => me.part = 0

\* A side that has read the records has taken them, and stays in the calls
\* that follow as long as both halves go through.
HasTaken(me) ==
    /\ me.call = "sync" => me.reader # "usage"
    /\ me.call = "sync" /\ me.reader \in {"done", "ok"} => me.imported = "all"
    /\ me.call = "usage" =>
         me.imported = "all" /\ me.reader \notin {"offer", "records", "done"}
    /\ \A half \in me.taken : (IF half = "reader" THEN me.reader ELSE me.writer) = "ok"
    /\ me.result = "ok" => me.imported = "all" /\ me.reader = "ok"

\* What is under way from s: each chunk continues the one before it, the first
\* continues what the other side has read.
Chained(way, read) ==
    \A k \in 1..Len(way) : way[k].i = (IF k = 1 THEN read ELSE NextOf(way[k - 1])) + 1

\* How far a frame is when all of this has been read.
ReadThrough(way, read) == IF way = <<>> THEN read ELSE NextOf(way[Len(way)])

\* What s writes next continues what it wrote last.
Continuous(s) ==
    /\ Chained(stream[s], side[Other(s)].part)
    /\ ~WriteFails(s) => side[s].at = ReadThrough(stream[s], side[Other(s)].part)

SyncTyped ==
    /\ side \in [Sides -> SideRecord]
    /\ stream \in [Sides -> Seq(Chunks)]

SyncInv ==
    /\ SyncTyped
    /\ \A s \in Sides : AtWork(side[s]) /\ HasTaken(side[s])
    /\ \A s \in Sides : Continuous(s)

-----------------------------------------------------------------------------
\* Operators.

\* There are two sides.
LEMMA TwoSides ==
    /\ Other(Dialler) = Answerer /\ Other(Answerer) = Dialler /\ Dialler # Answerer
    /\ \A s \in Sides : Other(s) \in Sides /\ Other(s) # s /\ Other(Other(s)) = s
    /\ \A s, t \in Sides : t # s => t = Other(s) /\ Other(t) = s
<1>1. Dialler # Answerer
  BY DEF Dialler, Answerer
<1>2. Other(Dialler) = Answerer
  BY <1>1 DEF Other, Sides
<1>3. Other(Answerer) = Dialler
  BY <1>1 DEF Other, Sides
<1> QED
  BY <1>1, <1>2, <1>3 DEF Sides

\* A chunk is a chunk, its number the one asked for; a frame of one chunk ends
\* with it.
LEMMA ChunkIs ==
    ASSUME NEW s \in Sides, NEW kind \in Frames, NEW i \in Nat
    PROVE  /\ Length(s, kind) \in Nat \ {0}
           /\ Chunk(s, kind, i) \in Chunks /\ Chunk(s, kind, i).i = i
           /\ Chunk(s, kind, i).last = (i = Length(s, kind))
           /\ kind \notin {"records", "usage"} => Length(s, kind) = 1
<1>1. Length(s, kind) \in Nat \ {0} /\ (kind \notin {"records", "usage"} => Length(s, kind) = 1)
  BY SyncSessionConstants DEF Length
<1>2. (i = Length(s, kind)) \in BOOLEAN
  OBVIOUS
<1> QED
  BY <1>1, <1>2 DEF Chunk, Chunks

\* A chunk that continues what has been read through may be written after it.
LEMMA ChainGrows ==
    ASSUME NEW way \in Seq(Chunks), NEW read \in Nat, Chained(way, read),
           NEW chunk \in Chunks, chunk.i = ReadThrough(way, read) + 1
    PROVE  /\ Append(way, chunk) \in Seq(Chunks) /\ Chained(Append(way, chunk), read)
           /\ ReadThrough(Append(way, chunk), read) = NextOf(chunk)
<1> DEFINE longer == Append(way, chunk)
<1>1. /\ longer \in Seq(Chunks) /\ Len(longer) = Len(way) + 1 /\ longer # <<>>
      /\ Len(way) \in Nat /\ longer[Len(way) + 1] = chunk
      /\ \A k \in 1..Len(way) : longer[k] = way[k]
  OBVIOUS
<1>2. way = <<>> <=> Len(way) = 0
  OBVIOUS
<1> HIDE DEF longer
<1>3. ASSUME NEW k \in 1..Len(longer)
      PROVE  longer[k].i = (IF k = 1 THEN read ELSE NextOf(longer[k - 1])) + 1
  <2>1. CASE k <= Len(way)
    <3>1. k \in 1..Len(way) /\ longer[k] = way[k] /\ (k # 1 => longer[k - 1] = way[k - 1])
      BY <1>1, <2>1
    <3> QED
      BY <3>1 DEF Chained
  <2>2. CASE k = Len(way) + 1
    <3>1. CASE way = <<>>
      BY <1>1, <1>2, <2>2, <3>1 DEF ReadThrough
    <3>2. CASE way # <<>>
      <4>1. k # 1 /\ longer[k - 1] = way[Len(way)]
        BY <1>1, <1>2, <2>2, <3>2
      <4> QED
        BY <1>1, <2>2, <3>2, <4>1 DEF ReadThrough
    <3> QED
      BY <3>1, <3>2
  <2> QED
    BY <1>1, <2>1, <2>2
<1>4. Chained(longer, read)
  BY <1>3 DEF Chained
<1>5. ReadThrough(longer, read) = NextOf(chunk)
  BY <1>1 DEF ReadThrough
<1> QED
  BY <1>1, <1>4, <1>5 DEF longer

\* Reading the first chunk leaves a chain that continues it.
LEMMA ChainIsRead ==
    ASSUME NEW way \in Seq(Chunks), NEW read \in Nat, Chained(way, read), way # <<>>
    PROVE  /\ Head(way) \in Chunks /\ Head(way).i = read + 1
           /\ Tail(way) \in Seq(Chunks) /\ Chained(Tail(way), NextOf(Head(way)))
           /\ ReadThrough(Tail(way), NextOf(Head(way))) = ReadThrough(way, read)
<1> DEFINE rest == Tail(way)
<1>1. /\ Head(way) = way[1] /\ way[1] \in Chunks /\ rest \in Seq(Chunks)
      /\ Len(way) \in Nat \ {0} /\ Len(rest) = Len(way) - 1
      /\ \A k \in 1..Len(rest) : rest[k] = way[k + 1]
  OBVIOUS
<1>2. rest = <<>> <=> Len(way) = 1
  BY <1>1
<1> HIDE DEF rest
<1>3. Head(way).i = read + 1
  BY <1>1 DEF Chained
<1>4. ASSUME NEW k \in 1..Len(rest)
      PROVE  rest[k].i = (IF k = 1 THEN NextOf(Head(way)) ELSE NextOf(rest[k - 1])) + 1
  <2>1. k + 1 \in 1..Len(way) /\ k + 1 # 1 /\ (k + 1) - 1 = k /\ rest[k] = way[k + 1]
    BY <1>1
  <2>2. way[k + 1].i = NextOf(way[k]) + 1
    BY <2>1 DEF Chained
  <2>3. CASE k = 1
    BY <1>1, <2>1, <2>2, <2>3
  <2>4. CASE k # 1
    <3>1. rest[k - 1] = way[k]
      BY <1>1, <2>4
    <3> QED
      BY <2>1, <2>2, <2>4, <3>1
  <2> QED
    BY <2>3, <2>4
<1>5. Chained(rest, NextOf(Head(way)))
  BY <1>4 DEF Chained
<1>6. ReadThrough(rest, NextOf(Head(way))) = ReadThrough(way, read)
  <2>1. CASE rest = <<>>
    BY <1>1, <1>2, <2>1 DEF ReadThrough
  <2>2. CASE rest # <<>>
    <3>1. Len(rest) \in 1..Len(rest) /\ rest[Len(rest)] = way[Len(way)]
      BY <1>1, <1>2, <2>2
    <3> QED
      BY <2>2, <3>1 DEF ReadThrough
  <2> QED
    BY <2>1, <2>2
<1> QED
  BY <1>1, <1>3, <1>5, <1>6 DEF rest

-----------------------------------------------------------------------------
\* Steps.

\* Both sides begin, with nothing under way.
LEMMA SyncBegins == SyncInit => SyncInv
<1> SUFFICES ASSUME SyncInit PROVE SyncInv
  OBVIOUS
<1>1. PICK mood \in [Sides -> Moods] : side = [s \in Sides |-> SyncStarts(mood[s], 1)]
  BY DEF SyncInit
<1>2. \A s \in Sides : side[s] = SyncStarts(mood[s], 1) /\ stream[s] = <<>> /\ mood[s] \in Moods
  BY <1>1 DEF SyncInit
<1>3. ASSUME NEW s \in Sides
      PROVE  /\ side[s] \in SideRecord /\ AtWork(side[s]) /\ HasTaken(side[s])
             /\ side[s].at = 0 /\ side[s].part = 0 /\ stream[s] = <<>>
  <2>1. PICK m \in Moods : side[s] = SyncStarts(m, 1)
    BY <1>2
  <2>2. SyncStarts(m, 1) \in SideRecord
    BY DEF SyncStarts, SideRecord, Written, Frames, Results, Halves
  <2>3. /\ side[s].at = 0 /\ side[s].lock = "free" /\ side[s].part = 0
        /\ side[s].call = "sync" /\ side[s].reader = "offer" /\ side[s].taken = {}
        /\ side[s].result = "running"
    BY <2>1 DEF SyncStarts
  <2>4. AtWork(side[s])
    BY <2>3 DEF AtWork
  <2>5. HasTaken(side[s])
    BY <2>3 DEF HasTaken
  <2> QED
    BY <1>2, <2>1, <2>2, <2>3, <2>4, <2>5
<1>4. SyncTyped
  BY <1>1, <1>2, <1>3 DEF SyncTyped, SyncInit
<1>5. ASSUME NEW s \in Sides PROVE Continuous(s)
  <2>1. side[s].at = 0 /\ side[Other(s)].part = 0 /\ stream[s] = <<>>
    BY <1>3, TwoSides
  <2> QED
    BY <2>1 DEF Continuous, Chained, ReadThrough
<1> QED
  BY <1>3, <1>4, <1>5 DEF SyncInv

\* A step of one side that puts nothing on its stream and takes nothing off the
\* other's; where it stops writing in the middle of a frame nothing can be
\* written any more.
LEMMA SideGoesOn ==
    ASSUME SyncInv, NEW s \in Sides, NEW me \in SideRecord, AtWork(me), HasTaken(me),
           me.part = side[s].part, me.at = side[s].at \/ WriteFails(s),
           Become(s, me), UNCHANGED <<stream, line, left>>
    PROVE  SyncInv'
<1>1. /\ side' = [side EXCEPT ![s] = me] /\ side \in [Sides -> SideRecord]
      /\ stream' = stream /\ line' = line /\ left' = left
  BY DEF SyncInv, SyncTyped, Become
<1>2. SyncTyped'
  BY <1>1 DEF SyncInv, SyncTyped
<1>3. side'[s] = me /\ \A t \in Sides \ {s} : side'[t] = side[t]
  BY <1>1
<1>4. ASSUME NEW t \in Sides PROVE AtWork(side[t])' /\ HasTaken(side[t])'
  <2>1. AtWork(side'[t]) /\ HasTaken(side'[t])
    BY <1>3 DEF SyncInv
  <2> QED
    BY <2>1 DEF AtWork, HasTaken
<1>5. ASSUME NEW t \in Sides PROVE Continuous(t)'
  <2>1. stream'[t] = stream[t] /\ side'[Other(t)].part = side[Other(t)].part
    BY <1>1, <1>3, TwoSides
  <2>2. WriteFails(t)' <=> WriteFails(t)
    BY <1>1 DEF WriteFails, Alive
  <2>3. ~WriteFails(t) => side'[t].at = side[t].at
    BY <1>3
  <2>4. Continuous(t)
    BY DEF SyncInv
  <2> QED
    BY <2>1, <2>2, <2>3, <2>4 DEF Continuous, Chained, ReadThrough
<1> QED
  BY <1>2, <1>4, <1>5 DEF SyncInv

\* A step that writes the chunk that comes next.
LEMMA SideWrites ==
    ASSUME SyncInv, NEW s \in Sides, NEW me \in SideRecord, AtWork(me), HasTaken(me),
           me.part = side[s].part, ~WriteFails(s),
           NEW chunk \in Chunks, chunk.i = side[s].at + 1, me.at = NextOf(chunk),
           Become(s, me), Put(s, chunk), UNCHANGED <<line, left>>
    PROVE  SyncInv'
<1>1. /\ side' = [side EXCEPT ![s] = me] /\ side \in [Sides -> SideRecord]
      /\ stream' = [stream EXCEPT ![s] = Append(@, chunk)] /\ stream \in [Sides -> Seq(Chunks)]
      /\ line' = line /\ left' = left
  BY DEF SyncInv, SyncTyped, Become, Put
<1>2. Append(stream[s], chunk) \in Seq(Chunks)
  BY <1>1
<1>3. SyncTyped'
  BY <1>1, <1>2 DEF SyncTyped
<1>4. side'[s] = me /\ \A t \in Sides \ {s} : side'[t] = side[t] /\ stream'[t] = stream[t]
  BY <1>1
<1>5. ASSUME NEW t \in Sides PROVE AtWork(side[t])' /\ HasTaken(side[t])'
  <2>1. AtWork(side'[t]) /\ HasTaken(side'[t])
    BY <1>4 DEF SyncInv
  <2> QED
    BY <2>1 DEF AtWork, HasTaken
<1>6. ASSUME NEW t \in Sides PROVE Continuous(t)'
  <2>1. side'[Other(t)].part = side[Other(t)].part
    BY <1>4, TwoSides
  <2>2. WriteFails(t)' <=> WriteFails(t)
    BY <1>1 DEF WriteFails, Alive
  <2>3. Continuous(t)
    BY DEF SyncInv
  <2>4. CASE t # s
    BY <1>4, <2>1, <2>2, <2>3, <2>4 DEF Continuous, Chained, ReadThrough
  <2>5. CASE t = s
    <3>1. PICK read \in Nat : read = side[Other(s)].part
      BY <1>1, TwoSides DEF SideRecord
    <3>2. PICK way \in Seq(Chunks) : way = stream[s]
      BY <1>1
    <3>3. Chained(way, read) /\ chunk.i = ReadThrough(way, read) + 1
      BY <2>3, <2>5, <3>1, <3>2 DEF Continuous
    <3>4. /\ Chained(Append(way, chunk), read)
          /\ ReadThrough(Append(way, chunk), read) = NextOf(chunk)
      BY <3>3, ChainGrows
    <3>5. stream'[t] = Append(way, chunk) /\ side'[Other(t)].part = read /\ side'[t].at = NextOf(chunk)
      BY <1>1, <1>4, <2>1, <2>5, <3>1, <3>2
    <3> QED
      BY <3>4, <3>5 DEF Continuous
  <2> QED
    BY <2>4, <2>5
<1> QED
  BY <1>3, <1>5, <1>6 DEF SyncInv

\* A step that reads the chunk that comes next.
LEMMA SideReads ==
    ASSUME SyncInv, NEW s \in Sides, NEW me \in SideRecord, AtWork(me), HasTaken(me),
           stream[Other(s)] # <<>>, me.part = NextOf(Head(stream[Other(s)])),
           me.at = side[s].at, Become(s, me), UNCHANGED <<line, left>>,
           stream' = [stream EXCEPT ![Other(s)] = Tail(@)]
    PROVE  SyncInv'
<1>0. PICK o \in Sides : o = Other(s) /\ o # s /\ Other(o) = s
  BY TwoSides
<1>1. /\ side' = [side EXCEPT ![s] = me] /\ side \in [Sides -> SideRecord]
      /\ stream' = [stream EXCEPT ![o] = Tail(@)] /\ stream \in [Sides -> Seq(Chunks)]
      /\ line' = line /\ left' = left
  BY <1>0 DEF SyncInv, SyncTyped, Become
<1>2. PICK read \in Nat : read = side[s].part
  BY <1>1 DEF SideRecord
<1>3. PICK way \in Seq(Chunks) : way = stream[o] /\ way # <<>>
  BY <1>0, <1>1
<1>4. Continuous(o) /\ Chained(way, read)
  BY <1>0, <1>2, <1>3 DEF SyncInv, Continuous
<1>5. /\ Tail(way) \in Seq(Chunks) /\ Chained(Tail(way), NextOf(Head(way)))
      /\ ReadThrough(Tail(way), NextOf(Head(way))) = ReadThrough(way, read)
  BY <1>3, <1>4, ChainIsRead
<1>6. SyncTyped'
  BY <1>1, <1>3, <1>5 DEF SyncTyped
<1>7. /\ side'[s] = me /\ side'[o] = side[o] /\ stream'[s] = stream[s]
      /\ stream'[o] = Tail(way) /\ me.part = NextOf(Head(way))
      /\ \A t \in Sides : t = s \/ t = o
  BY <1>0, <1>1, <1>3, TwoSides
<1>8. ASSUME NEW t \in Sides PROVE AtWork(side[t])' /\ HasTaken(side[t])'
  <2>1. AtWork(side'[t]) /\ HasTaken(side'[t])
    BY <1>7 DEF SyncInv
  <2> QED
    BY <2>1 DEF AtWork, HasTaken
<1>9. Continuous(s)'
  <2>1. WriteFails(s)' <=> WriteFails(s)
    BY <1>1 DEF WriteFails, Alive
  <2>2. Continuous(s)
    BY DEF SyncInv
  <2>3. side'[Other(s)].part = side[Other(s)].part /\ side'[s].at = side[s].at /\ stream'[s] = stream[s]
    BY <1>0, <1>7
  <2> QED
    BY <2>1, <2>2, <2>3 DEF Continuous, Chained, ReadThrough
<1>10. Continuous(o)'
  <2>1. WriteFails(o)' <=> WriteFails(o)
    BY <1>1 DEF WriteFails, Alive
  <2>2. ~WriteFails(o) => side[o].at = ReadThrough(way, read)
    BY <1>0, <1>2, <1>3, <1>4 DEF Continuous
  <2>3. stream'[o] = Tail(way) /\ side'[Other(o)].part = NextOf(Head(way)) /\ side'[o].at = side[o].at
    BY <1>0, <1>7
  <2> QED
    BY <1>5, <2>1, <2>2, <2>3 DEF Continuous
<1> QED
  BY <1>6, <1>7, <1>8, <1>9, <1>10 DEF SyncInv

\* The line is cut: nothing is under way any more, and nothing can be written.
LEMMA LineEnds ==
    ASSUME SyncInv, line' # "open", stream' = [s \in Sides |-> <<>>], UNCHANGED <<side, left>>
    PROVE  SyncInv'
<1>1. SyncTyped'
  BY DEF SyncInv, SyncTyped
<1>2. ASSUME NEW s \in Sides PROVE AtWork(side[s])' /\ HasTaken(side[s])'
  BY DEF SyncInv, AtWork, HasTaken
<1>3. ASSUME NEW s \in Sides PROVE Continuous(s)'
  <2>1. WriteFails(s)' /\ stream'[s] = <<>>
    BY DEF WriteFails, Alive
  <2> QED
    BY <2>1 DEF Continuous, Chained
<1> QED
  BY <1>1, <1>2, <1>3 DEF SyncInv

\* What is known of a side before it goes on.
LEMMA OneSide ==
    ASSUME SyncInv, NEW s \in Sides
    PROVE  /\ side[s] \in SideRecord /\ AtWork(side[s]) /\ HasTaken(side[s])
           /\ side[s].at \in Nat /\ side[s].part \in Nat
           /\ Length(s, side[s].writer) \in Nat \ {0}
<1>1. side[s] \in SideRecord /\ AtWork(side[s]) /\ HasTaken(side[s])
  BY DEF SyncInv, SyncTyped
<1>2. Length(s, side[s].writer) \in Nat \ {0}
  BY SyncSessionConstants DEF Length
<1> QED
  BY <1>1, <1>2 DEF SideRecord

\* The writer's next chunk: a frame that goes on keeps the lock, one that is
\* through gives it back.
LEMMA WriteChunkKeeps ==
    ASSUME SyncInv, NEW s \in Sides, WriteChunk(s) PROVE SyncInv'
<1>1. PICK me \in SideRecord : me = side[s] /\ AtWork(me) /\ HasTaken(me)
  BY OneSide
<1> DEFINE length == Length(s, me.writer)
           chunk == Chunk(s, me.writer, me.at + 1)
<1>2. /\ me.writer \in Frames /\ me.lock \in {"free", "writer"} /\ CanWrite(s)
      /\ Put(s, chunk) /\ UNCHANGED <<line, left>>
  BY <1>1 DEF WriteChunk
<1>3. me.at \in Nat /\ me.part \in Nat
  BY DEF SideRecord
<1>4. /\ chunk \in Chunks /\ chunk.i = me.at + 1 /\ length \in Nat \ {0}
      /\ chunk.last = (me.at + 1 = length)
  BY <1>2, <1>3, ChunkIs
<1>5. ~WriteFails(s)
  BY <1>2 DEF CanWrite, WriteFails, Alive
<1>6. CASE me.at + 1 = length
  <2>1. PICK to \in Written \cup Results \cup {"wait"} : to = NextFrame(me.writer)
    BY <1>2 DEF SideRecord, Written, Frames, Results, NextFrame
  <2> DEFINE after == [me EXCEPT !.writer = to, !.at = 0, !.lock = "free"]
  <2>2. Become(s, after)
    BY <1>1, <1>6, <2>1 DEF WriteChunk, LockAfter
  <2>3. after \in SideRecord
    BY DEF SideRecord
  <2>4. /\ after.at = 0 /\ after.lock = "free" /\ after.part = me.part /\ after.reader = me.reader
        /\ after.call = me.call /\ after.taken = me.taken /\ after.imported = me.imported
        /\ after.result = me.result /\ after.writer = to
    BY DEF SideRecord
  <2> HIDE DEF after, chunk
  <2>5. "writer" \notin me.taken
    BY <1>1, <1>2 DEF HasTaken, Frames
  <2>6. AtWork(after) /\ HasTaken(after)
    BY <1>1, <2>4, <2>5 DEF AtWork, HasTaken, SideRecord, Halves
  <2>7. after.at = NextOf(chunk)
    BY <1>4, <1>6, <2>4 DEF NextOf
  <2> QED
    BY <1>1, <1>2, <1>4, <1>5, <2>2, <2>3, <2>4, <2>6, <2>7, SideWrites
<1>7. CASE me.at + 1 # length
  <2> DEFINE after == [me EXCEPT !.at = me.at + 1, !.lock = "writer"]
  <2>1. LockAfter(me, length) = "writer"
    BY <1>7 DEF LockAfter
  <2>2. Become(s, after)
    <3>1. Become(s, [me EXCEPT !.at = @ + 1, !.lock = LockAfter(me, length)])
      BY <1>1, <1>7 DEF WriteChunk
    <3> QED
      BY <2>1, <3>1
  <2>3. after \in SideRecord
    <3>1. me.at + 1 \in Nat
      BY <1>3
    <3> HIDE DEF length, chunk
    <3> QED
      BY <3>1 DEF SideRecord
  <2>4. /\ after.at = me.at + 1 /\ after.lock = "writer" /\ after.part = me.part
        /\ after.reader = me.reader /\ after.call = me.call /\ after.taken = me.taken
        /\ after.imported = me.imported /\ after.result = me.result /\ after.writer = me.writer
    BY DEF SideRecord
  <2> HIDE DEF after, chunk
  <2>5. AtWork(after) /\ HasTaken(after)
    BY <1>1, <1>2, <1>3, <2>4 DEF AtWork, HasTaken
  <2>6. after.at = NextOf(chunk)
    BY <1>4, <1>7, <2>4 DEF NextOf
  <2> QED
    BY <1>1, <1>2, <1>4, <1>5, <2>2, <2>3, <2>4, <2>5, <2>6, SideWrites
<1> QED
  BY <1>6, <1>7

\* Steps of the writer that write nothing: the error of a write, and what it
\* makes of the other side's offer.
LEMMA WriterGoesOn ==
    ASSUME SyncInv, NEW s \in Sides, WriteError(s) \/ OfferKnown(s) PROVE SyncInv'
<1>1. PICK me \in SideRecord : me = side[s] /\ AtWork(me) /\ HasTaken(me)
  BY OneSide
<1>2. CASE WriteError(s)
  <2> DEFINE after == [me EXCEPT !.writer = "failed", !.at = 0, !.lock = "free"]
  <2>1. Become(s, after) /\ me.writer \in Frames /\ WriteFails(s) /\ UNCHANGED <<stream, line, left>>
    BY <1>1, <1>2 DEF WriteError
  <2>2. after \in SideRecord
    BY DEF SideRecord, Results
  <2>3. /\ after.at = 0 /\ after.lock = "free" /\ after.part = me.part /\ after.reader = me.reader
        /\ after.call = me.call /\ after.taken = me.taken /\ after.imported = me.imported
        /\ after.result = me.result
    BY DEF SideRecord
  <2> HIDE DEF after
  <2>4. "writer" \notin me.taken
    BY <1>1, <2>1 DEF HasTaken, Frames
  <2>5. AtWork(after) /\ HasTaken(after)
    BY <1>1, <2>3, <2>4 DEF AtWork, HasTaken, SideRecord, Halves
  <2> QED
    BY <1>1, <2>1, <2>2, <2>3, <2>5, SideGoesOn
<1>3. CASE OfferKnown(s)
  <2>1. PICK to \in {"ok", "failed", "records"} :
           Become(s, [me EXCEPT !.writer = to]) /\ me.writer = "wait"
    BY <1>1, <1>3 DEF OfferKnown
  <2> DEFINE after == [me EXCEPT !.writer = to]
  <2>2. after \in SideRecord
    BY DEF SideRecord, Written, Frames, Results
  <2>3. /\ after.at = me.at /\ after.lock = me.lock /\ after.part = me.part
        /\ after.reader = me.reader /\ after.call = me.call /\ after.taken = me.taken
        /\ after.imported = me.imported /\ after.result = me.result
    BY DEF SideRecord
  <2>4. Become(s, after) /\ UNCHANGED <<stream, line, left>>
    BY <1>3, <2>1 DEF OfferKnown
  <2> HIDE DEF after
  <2>5. "writer" \notin me.taken /\ ~(me.at > 0)
    BY <1>1, <2>1 DEF HasTaken, AtWork, Frames
  <2>6. AtWork(after) /\ HasTaken(after)
    BY <1>1, <2>3, <2>5 DEF AtWork, HasTaken, SideRecord, Halves
  <2> QED
    BY <1>1, <2>2, <2>3, <2>4, <2>6, SideGoesOn
<1> QED
  BY <1>2, <1>3

\* Who names a refusal waits for the lock, and then begins a frame.
LEMMA RejectKeeps ==
    ASSUME SyncInv, NEW s \in Sides, Reject(s) PROVE SyncInv'
<1>1. PICK me \in SideRecord : me = side[s] /\ AtWork(me) /\ HasTaken(me)
  BY OneSide
<1> DEFINE after == [me EXCEPT !.rejecter = "gone"]
           chunk == Chunk(s, "reject", 1)
<1>2. Become(s, after) /\ me.lock = "free" /\ UNCHANGED <<line, left>>
  BY <1>1 DEF Reject
<1>3. after \in SideRecord
  BY DEF SideRecord
<1>4. /\ after.at = me.at /\ after.lock = me.lock /\ after.part = me.part
      /\ after.reader = me.reader /\ after.call = me.call /\ after.taken = me.taken
      /\ after.imported = me.imported /\ after.result = me.result /\ after.writer = me.writer
  BY DEF SideRecord
<1>5. chunk \in Chunks /\ chunk.i = 1 /\ chunk.last = TRUE
  BY ChunkIs DEF Frames
<1> HIDE DEF after, chunk
<1>6. AtWork(after) /\ HasTaken(after)
  BY <1>1, <1>4 DEF AtWork, HasTaken
<1>7. CASE WriteFails(s)
  BY <1>1, <1>2, <1>3, <1>4, <1>6, <1>7, SideGoesOn DEF Reject
<1>8. CASE ~WriteFails(s)
  <2>1. Put(s, chunk)
    BY <1>8 DEF Reject, chunk
  <2>2. me.at = 0
    BY <1>1, <1>2 DEF AtWork, SideRecord
  <2>3. chunk.i = side[s].at + 1 /\ after.at = NextOf(chunk)
    BY <1>1, <1>4, <1>5, <2>2 DEF NextOf
  <2> QED
    BY <1>1, <1>2, <1>3, <1>4, <1>5, <1>6, <1>8, <2>1, <2>3, SideWrites
<1> QED
  BY <1>7, <1>8

\* The reader gives up: nothing that counts as taken depends on it any more.
LEMMA GivingUp ==
    ASSUME NEW me \in SideRecord, AtWork(me), HasTaken(me), me.reader \in Frames,
           NEW after, after = GivesUp(me)
    PROVE  /\ after \in SideRecord /\ AtWork(after) /\ HasTaken(after)
           /\ after.at = me.at /\ after.part = me.part
<1>1. PICK offered \in {"unknown", "known", "closed"}, rejecter \in {"none", "writing", "gone"} :
         after = [me EXCEPT !.reader = "failed", !.offered = offered, !.rejecter = rejecter]
  <2>1. /\ me.offered \in {"unknown", "known", "closed"}
        /\ me.rejecter \in {"none", "writing", "gone"}
    BY DEF SideRecord
  <2>2. CASE me.reader = "offer"
    <3>1. after = [me EXCEPT !.reader = "failed", !.offered = "closed", !.rejecter = me.rejecter]
      BY <2>2 DEF GivesUp, SideRecord
    <3> QED
      BY <2>1, <3>1
  <2>3. CASE me.reader # "offer" /\ me.call = "sync"
    <3>1. after = [me EXCEPT !.reader = "failed", !.offered = me.offered, !.rejecter = "writing"]
      BY <2>3 DEF GivesUp, SideRecord
    <3> QED
      BY <2>1, <3>1
  <2>4. CASE me.reader # "offer" /\ me.call # "sync"
    <3>1. after = [me EXCEPT !.reader = "failed", !.offered = me.offered, !.rejecter = me.rejecter]
      BY <2>4 DEF GivesUp, SideRecord
    <3> QED
      BY <2>1, <3>1
  <2> QED
    BY <2>2, <2>3, <2>4
<1>2. after \in SideRecord
  BY <1>1 DEF SideRecord, Results
<1>3. /\ after.reader = "failed" /\ after.at = me.at /\ after.part = me.part
      /\ after.lock = me.lock /\ after.writer = me.writer /\ after.call = me.call
      /\ after.taken = me.taken /\ after.imported = me.imported /\ after.result = me.result
  BY <1>1 DEF SideRecord
<1>4. "reader" \notin me.taken /\ me.result # "ok"
  BY DEF HasTaken, Frames
<1> QED
  BY <1>2, <1>3, <1>4 DEF AtWork, HasTaken

\* A frame that has been read is the one waited for, or a refusal, or ends the
\* reading.
LEMMA Handling ==
    ASSUME NEW me \in SideRecord, AtWork(me), HasTaken(me), me.reader \in Frames,
           me.part = 0, NEW kind \in Frames, NEW after, after = Handles(me, kind)
    PROVE  /\ after \in SideRecord /\ AtWork(after) /\ HasTaken(after)
           /\ after.at = me.at /\ after.part = me.part
<1>1. "reader" \notin me.taken /\ me.result # "ok" /\ me.reader # "reject"
  BY DEF HasTaken, Frames, SideRecord, Written, Results
<1>2. CASE kind = "reject" /\ me.call = "sync"
  <2>1. PICK offered \in {"unknown", "known", "closed"} :
           after = [me EXCEPT !.reader = "rejected", !.offered = offered]
    <3>1. me.offered \in {"unknown", "known", "closed"}
      BY DEF SideRecord
    <3>2. CASE me.reader = "offer"
      BY <1>2, <3>2 DEF Handles
    <3>3. CASE me.reader # "offer"
      BY <1>2, <3>1, <3>3 DEF Handles
    <3> QED
      BY <3>2, <3>3
  <2>2. after \in SideRecord
    BY <2>1 DEF SideRecord, Results
  <2>3. /\ after.reader = "rejected" /\ after.at = me.at /\ after.part = me.part
        /\ after.lock = me.lock /\ after.writer = me.writer /\ after.call = me.call
        /\ after.taken = me.taken /\ after.imported = me.imported /\ after.result = me.result
    BY <2>1 DEF SideRecord
  <2> QED
    BY <1>1, <1>2, <2>2, <2>3 DEF AtWork, HasTaken
<1>3. CASE ~(kind = "reject" /\ me.call = "sync") /\ kind # me.reader
  BY <1>3, GivingUp DEF Handles
<1>4. CASE kind = me.reader /\ kind = "offer"
  <2>1. after = [me EXCEPT !.reader = "records", !.offered = "known"]
    BY <1>4 DEF Handles
  <2>2. after \in SideRecord
    <3>1. "records" \in Written
      BY DEF Written, Frames
    <3> QED
      BY <2>1, <3>1 DEF SideRecord
  <2>3. /\ after.reader = "records" /\ after.at = me.at /\ after.part = me.part
        /\ after.lock = me.lock /\ after.writer = me.writer /\ after.call = me.call
        /\ after.taken = me.taken /\ after.imported = me.imported /\ after.result = me.result
    BY <2>1 DEF SideRecord
  <2> QED
    BY <1>1, <1>4, <2>2, <2>3 DEF AtWork, HasTaken, Frames
<1>5. CASE kind = me.reader /\ kind = "records" /\ me.mood = "refuses"
  <2> DEFINE some == [me EXCEPT !.imported = "some"]
  <2>1. after = GivesUp(some)
    BY <1>5 DEF Handles
  <2>2. /\ some \in SideRecord /\ some.reader = me.reader /\ some.at = me.at /\ some.part = me.part
        /\ some.lock = me.lock /\ some.writer = me.writer /\ some.call = me.call
        /\ some.taken = me.taken /\ some.result = me.result
    BY DEF SideRecord
  <2> HIDE DEF some
  <2>3. AtWork(some) /\ HasTaken(some)
    BY <1>1, <1>5, <2>2 DEF AtWork, HasTaken
  <2> QED
    BY <2>1, <2>2, <2>3, GivingUp
<1>6. CASE kind = me.reader /\ kind = "records" /\ me.mood # "refuses"
  <2>1. after = [me EXCEPT !.reader = "done", !.imported = "all"]
    BY <1>6 DEF Handles
  <2>2. after \in SideRecord
    <3>1. "done" \in Written
      BY DEF Written, Frames
    <3> QED
      BY <2>1, <3>1 DEF SideRecord
  <2>3. /\ after.reader = "done" /\ after.at = me.at /\ after.part = me.part
        /\ after.lock = me.lock /\ after.writer = me.writer /\ after.call = me.call
        /\ after.taken = me.taken /\ after.imported = "all" /\ after.result = me.result
    BY <2>1 DEF SideRecord
  <2> QED
    BY <1>1, <1>6, <2>2, <2>3 DEF AtWork, HasTaken, Frames
<1>7. CASE kind = me.reader /\ kind \in {"done", "usage"}
  <2>1. after = [me EXCEPT !.reader = "ok"]
    BY <1>7 DEF Handles
  <2>2. after \in SideRecord
    BY <2>1 DEF SideRecord, Results
  <2>3. /\ after.reader = "ok" /\ after.at = me.at /\ after.part = me.part
        /\ after.lock = me.lock /\ after.writer = me.writer /\ after.call = me.call
        /\ after.taken = me.taken /\ after.imported = me.imported /\ after.result = me.result
    BY <2>1 DEF SideRecord
  <2>4. AtWork(after)
    BY <2>3 DEF AtWork, Frames
  <2>5. HasTaken(after)
    BY <1>1, <1>7, <2>3 DEF HasTaken, SideRecord
  <2> QED
    BY <2>2, <2>3, <2>4, <2>5
<1> QED
  BY <1>1, <1>2, <1>3, <1>4, <1>5, <1>6, <1>7 DEF Frames

\* The reader's next chunk.
LEMMA ReadChunkKeeps ==
    ASSUME SyncInv, NEW s \in Sides, ReadChunk(s) PROVE SyncInv'
<1>1. PICK me \in SideRecord : me = side[s] /\ AtWork(me) /\ HasTaken(me)
  BY OneSide
<1>2. PICK o \in Sides : o = Other(s) /\ Other(o) = s
  BY TwoSides
<1>3. /\ stream[o] \in Seq(Chunks) /\ stream[o] # <<>> /\ me.reader \in Frames
      /\ UNCHANGED <<line, left>> /\ stream' = [stream EXCEPT ![o] = Tail(@)]
  BY <1>1, <1>2 DEF ReadChunk, CanRead, SyncInv, SyncTyped
<1>4. PICK chunk \in Chunks : chunk = Head(stream[o])
  BY <1>3
<1>5. me.part \in Nat /\ chunk.i = me.part + 1
  <2>1. me.part \in Nat /\ Chained(stream[o], me.part)
    BY <1>1, <1>2 DEF SyncInv, Continuous, SideRecord
  <2> QED
    BY <1>3, <1>4, <2>1, ChainIsRead
<1>6. CASE chunk.last
  <2> DEFINE whole == [me EXCEPT !.part = 0]
             after == Handles(whole, chunk.kind)
  <2>1. Become(s, after)
    BY <1>1, <1>2, <1>4, <1>6 DEF ReadChunk
  <2>2. /\ whole \in SideRecord /\ whole.reader = me.reader /\ whole.at = me.at /\ whole.part = 0
        /\ whole.lock = me.lock /\ whole.writer = me.writer /\ whole.call = me.call
        /\ whole.taken = me.taken /\ whole.imported = me.imported /\ whole.result = me.result
    BY DEF SideRecord
  <2> HIDE DEF whole
  <2>3. AtWork(whole) /\ HasTaken(whole)
    BY <1>1, <2>2 DEF AtWork, HasTaken
  <2>4. chunk.kind \in Frames
    BY DEF Chunks
  <2>5. /\ after \in SideRecord /\ AtWork(after) /\ HasTaken(after)
        /\ after.at = me.at /\ after.part = 0
    BY <1>3, <2>2, <2>3, <2>4, Handling
  <2>6. after.part = NextOf(chunk)
    BY <1>6, <2>5 DEF NextOf
  <2> HIDE DEF after
  <2> QED
    BY <1>1, <1>2, <1>3, <1>4, <2>1, <2>5, <2>6, SideReads
<1>7. CASE ~chunk.last
  <2> DEFINE after == [me EXCEPT !.part = @ + 1]
  <2>1. Become(s, after)
    BY <1>1, <1>2, <1>4, <1>7 DEF ReadChunk
  <2>2. /\ after \in SideRecord /\ after.reader = me.reader /\ after.at = me.at
        /\ after.part = me.part + 1
        /\ after.lock = me.lock /\ after.writer = me.writer /\ after.call = me.call
        /\ after.taken = me.taken /\ after.imported = me.imported /\ after.result = me.result
    BY <1>5 DEF SideRecord
  <2> HIDE DEF after
  <2>3. AtWork(after) /\ HasTaken(after)
    BY <1>1, <1>3, <2>2 DEF AtWork, HasTaken
  <2>4. after.part = NextOf(chunk)
    BY <1>5, <1>7, <2>2 DEF NextOf
  <2> QED
    BY <1>1, <1>2, <1>3, <1>4, <2>1, <2>2, <2>3, <2>4, SideReads
<1> QED
  BY <1>6, <1>7

\* The error of a read.
LEMMA ReadErrorKeeps ==
    ASSUME SyncInv, NEW s \in Sides, ReadError(s) PROVE SyncInv'
<1>1. PICK me \in SideRecord : me = side[s] /\ AtWork(me) /\ HasTaken(me)
  BY OneSide
<1>2. /\ me.reader \in Frames /\ Become(s, GivesUp(me))
      /\ UNCHANGED <<stream, line, left>>
  BY <1>1 DEF ReadError
<1>3. PICK after : after = GivesUp(me)
  OBVIOUS
<1>4. /\ after \in SideRecord /\ AtWork(after) /\ HasTaken(after)
      /\ after.at = me.at /\ after.part = me.part
  BY <1>1, <1>2, <1>3, GivingUp
<1> QED
  BY <1>1, <1>2, <1>3, <1>4, SideGoesOn

\* Steps of the calls themselves: they look at halves that are through.
LEMMA CallGoesOn ==
    ASSUME SyncInv, NEW s \in Sides, UsageEnds(s) \/ \E half \in Halves : SyncTakes(s, half)
    PROVE  SyncInv'
<1>1. PICK me \in SideRecord : me = side[s] /\ AtWork(me) /\ HasTaken(me)
  BY OneSide
<1>2. me.result = "running" /\ UNCHANGED <<stream, line, left>>
  BY <1>1 DEF UsageEnds, SyncTakes
\* The call of Sync or of ExchangeUsage ends one way or the other.
<1>3. ASSUME NEW how \in Results, Become(s, [me EXCEPT !.result = how]),
             how = "ok" => me.imported = "all" /\ me.reader = "ok"
      PROVE  SyncInv'
  <2> DEFINE after == [me EXCEPT !.result = how]
  <2>1. after \in SideRecord
    BY DEF SideRecord
  <2>2. /\ after.reader = me.reader /\ after.at = me.at /\ after.part = me.part
        /\ after.lock = me.lock /\ after.writer = me.writer /\ after.call = me.call
        /\ after.taken = me.taken /\ after.imported = me.imported /\ after.result = how
    BY DEF SideRecord
  <2> HIDE DEF after
  <2>3. AtWork(after) /\ HasTaken(after)
    BY <1>1, <1>3, <2>2 DEF AtWork, HasTaken
  <2> QED
    BY <1>1, <1>2, <1>3, <2>1, <2>2, <2>3, SideGoesOn DEF after
\* Both halves are through: the next call begins where the last one ended.
<1>4. ASSUME me.reader = "ok", me.writer = "ok", me.imported = "all",
             Become(s, RoundEnds(me))
      PROVE  SyncInv'
  <2>1. CASE who = "device" \/ me.round = MaxRounds
    <3>1. RoundEnds(me) = [me EXCEPT !.result = "ok"]
      BY <2>1 DEF RoundEnds
    <3>2. "ok" \in Results
      BY DEF Results
    <3> QED
      BY <1>3, <1>4, <3>1, <3>2
  <2>2. CASE ~(who = "device" \/ me.round = MaxRounds)
    <3> DEFINE after == SyncStarts(me.mood, me.round + 1)
    <3>1. Become(s, after)
      BY <1>4, <2>2 DEF RoundEnds
    <3>2. after \in SideRecord
      BY DEF SyncStarts, SideRecord, Written, Frames, Results, Halves
    <3>3. /\ after.reader = "offer" /\ after.at = 0 /\ after.part = 0 /\ after.lock = "free"
          /\ after.call = "sync" /\ after.taken = {} /\ after.result = "running"
      BY DEF SyncStarts
    <3> HIDE DEF after
    <3>4. AtWork(after) /\ HasTaken(after)
      BY <3>3 DEF AtWork, HasTaken, Frames
    <3>5. me.part = 0 /\ me.at = 0
      BY <1>1, <1>4 DEF AtWork, Frames, SideRecord
    <3> QED
      BY <1>1, <1>2, <3>1, <3>2, <3>3, <3>4, <3>5, SideGoesOn
  <2> QED
    BY <2>1, <2>2
<1>5. CASE UsageEnds(s)
  <2>1. me.call = "usage"
    BY <1>1, <1>5 DEF UsageEnds
  <2>2. CASE me.reader = "ok" /\ me.writer = "ok"
    <3>1. Become(s, RoundEnds(me)) /\ me.imported = "all"
      BY <1>1, <1>5, <2>1, <2>2 DEF UsageEnds, HasTaken
    <3> QED
      BY <1>4, <2>2, <3>1
  <2>3. CASE ~(me.reader = "ok" /\ me.writer = "ok")
    <3>1. Become(s, [me EXCEPT !.result = "failed"])
      BY <1>1, <1>5, <2>3 DEF UsageEnds
    <3> QED
      BY <1>3, <3>1 DEF Results
  <2> QED
    BY <2>2, <2>3
<1>6. ASSUME NEW half \in Halves, SyncTakes(s, half) PROVE SyncInv'
  <2> DEFINE got == IF half = "reader" THEN me.reader ELSE me.writer
  <2>1. me.call = "sync" /\ half \notin me.taken /\ got \in Results
    BY <1>1, <1>6 DEF SyncTakes
  <2>2. CASE got # "ok"
    <3>1. Become(s, [me EXCEPT !.result = got])
      BY <1>1, <1>6, <2>2 DEF SyncTakes
    <3> HIDE DEF got
    <3> QED
      BY <1>3, <2>1, <2>2, <3>1
  <2>3. CASE got = "ok" /\ me.taken = {}
    <3> DEFINE after == [me EXCEPT !.taken = {half}]
    <3>1. Become(s, after)
      BY <1>1, <1>6, <2>3 DEF SyncTakes
    <3>2. after \in SideRecord
      BY DEF SideRecord
    <3>3. /\ after.reader = me.reader /\ after.at = me.at /\ after.part = me.part
          /\ after.lock = me.lock /\ after.writer = me.writer /\ after.call = me.call
          /\ after.taken = {half} /\ after.imported = me.imported /\ after.result = me.result
      BY DEF SideRecord
    <3> HIDE DEF after
    <3>4. AtWork(after)
      BY <1>1, <3>3 DEF AtWork
    <3>5. HasTaken(after)
      BY <1>1, <2>3, <3>3 DEF HasTaken
    <3> QED
      BY <1>1, <1>2, <3>1, <3>2, <3>3, <3>4, <3>5, SideGoesOn
  <2>4. CASE got = "ok" /\ me.taken # {}
    <3>1. me.reader = "ok" /\ me.writer = "ok" /\ me.imported = "all"
      <4>1. PICK other \in me.taken : other \in Halves /\ other # half
        BY <2>1, <2>4 DEF SideRecord
      <4>2. (IF other = "reader" THEN me.reader ELSE me.writer) = "ok"
        BY <1>1, <4>1 DEF HasTaken
      <4>3. me.reader = "ok" /\ me.writer = "ok"
        BY <2>4, <4>1, <4>2 DEF Halves
      <4> QED
        BY <1>1, <2>1, <4>3 DEF HasTaken
    <3>2. CASE who = "node"
      <4> DEFINE after == UsageStarts(me)
      <4>1. Become(s, after)
        BY <1>1, <1>6, <2>4, <3>2 DEF SyncTakes
      <4>2. after \in SideRecord
        <5>1. "usage" \in Written
          BY DEF Written, Frames
        <5> QED
          BY <5>1 DEF UsageStarts, SideRecord
      <4>3. /\ after.reader = "usage" /\ after.at = me.at /\ after.part = me.part
            /\ after.lock = me.lock /\ after.writer = "usage" /\ after.call = "usage"
            /\ after.taken = {} /\ after.imported = me.imported /\ after.result = me.result
        BY DEF UsageStarts, SideRecord
      <4> HIDE DEF after
      <4>4. AtWork(after) /\ HasTaken(after)
        BY <1>1, <1>2, <3>1, <4>3 DEF AtWork, HasTaken, Frames
      <4> QED
        BY <1>1, <1>2, <4>1, <4>2, <4>3, <4>4, SideGoesOn
    <3>3. CASE who # "node"
      <4>1. Become(s, RoundEnds(me))
        BY <1>1, <1>6, <2>4, <3>3 DEF SyncTakes
      <4> QED
        BY <1>4, <3>1, <4>1
    <3> QED
      BY <3>2, <3>3
  <2> QED
    BY <2>2, <2>3, <2>4
<1> QED
  BY <1>5, <1>6

\* Every step of a connection.
LEMMA SyncSteps == SyncInv /\ [SyncNext]_syncVars => SyncInv'
<1> SUFFICES ASSUME SyncInv, [SyncNext]_syncVars PROVE SyncInv'
  OBVIOUS
<1>1. ASSUME NEW s \in Sides, Steps(s) PROVE SyncInv'
  <2>1. CASE WriteChunk(s)
    BY <2>1, WriteChunkKeeps
  <2>2. CASE WriteError(s) \/ OfferKnown(s)
    BY <2>2, WriterGoesOn
  <2>3. CASE ReadChunk(s)
    BY <2>3, ReadChunkKeeps
  <2>4. CASE ReadError(s)
    BY <2>4, ReadErrorKeeps
  <2>5. CASE Reject(s)
    BY <2>5, RejectKeeps
  <2>6. CASE UsageEnds(s) \/ \E half \in Halves : SyncTakes(s, half)
    BY <2>6, CallGoesOn
  <2> QED
    BY <1>1, <2>1, <2>2, <2>3, <2>4, <2>5, <2>6 DEF Steps, Halves
<1>2. CASE Close \/ Break
  BY <1>2, LineEnds DEF Close, Break
<1>3. CASE Leave \/ UNCHANGED syncVars
  <2>1. UNCHANGED <<side, stream, line>> /\ (left => left')
    BY <1>3 DEF Leave, syncVars
  <2>2. SyncTyped'
    BY <2>1 DEF SyncInv, SyncTyped
  <2>3. ASSUME NEW s \in Sides PROVE AtWork(side[s])' /\ HasTaken(side[s])' /\ Continuous(s)'
    <3>1. AtWork(side[s]) /\ HasTaken(side[s]) /\ Continuous(s)
      BY DEF SyncInv
    <3>2. ~WriteFails(s)' => ~WriteFails(s)
      BY <2>1 DEF WriteFails, Alive
    <3> QED
      BY <2>1, <3>1, <3>2 DEF AtWork, HasTaken, Continuous, Chained, ReadThrough
  <2> QED
    BY <2>2, <2>3 DEF SyncInv
<1> QED
  BY <1>1, <1>2, <1>3 DEF SyncNext

\* What arrives next continues the frame that is being read, although two
\* goroutines write and either of them may fail in the middle (lockedWriter,
\* WriteFrame and ReadFrame).
THEOREM FramesStayWhole == SyncSpec => []WholeFrames
<1>1. SyncInv => WholeFrames
  <2> SUFFICES ASSUME SyncInv, NEW s \in Sides, stream[Other(s)] # <<>>
               PROVE  Head(stream[Other(s)]).i = side[s].part + 1
    BY DEF WholeFrames
  <2>1. PICK o \in Sides : o = Other(s) /\ Other(o) = s
    BY TwoSides
  <2>2. stream[o] \in Seq(Chunks) /\ Continuous(o) /\ side[s].part \in Nat
    BY <2>1, OneSide DEF SyncInv, SyncTyped
  <2> QED
    BY <2>1, <2>2, ChainIsRead DEF Continuous
<1> QED
  BY <1>1, SyncBegins, SyncSteps, PTL DEF SyncSpec

\* A side that reports success has itself taken all it was sent, in whatever
\* order the halves of its calls come through (the select of Sync,
\* ExchangeUsage after it, and the rounds of Mesh.exchange).
THEOREM SuccessMeansTaken == SyncSpec => []SuccessIsTaken
<1>1. SyncInv => SuccessIsTaken
  BY DEF SyncInv, HasTaken, SuccessIsTaken
<1> QED
  BY <1>1, SyncBegins, SyncSteps, PTL DEF SyncSpec
=============================================================================

---------------------------- MODULE ClientProofs ----------------------------
(***************************************************************************)
(* Two promises of one client, for any nodes, lists and number of starts:   *)
(* the phone's descriptor is closed exactly once on every way out of a run, *)
(* and the connection a race gives away is open until the link takes it.    *)
(***************************************************************************)
EXTENDS Client, SequenceTheorems, TLAPS

-----------------------------------------------------------------------------
\* The descriptor.

Before == {"begins", "first", "setup", "opens"}

\* Who owns the descriptor fixes how often it has been closed, and until the
\* tunnel has been opened its guard owns it.
FdInv ==
    /\ count \in [starts : Nat, flaps : Nat]
    /\ fd \in {"none", "guard", "tunnel", "closed", "lost"}
    /\ closes = IF fd = "closed" THEN 1 ELSE 0
    /\ device = "phone" /\ core \in Before => fd = "guard"
    /\ device = "phone" /\ core = "off" /\ count.starts > 0 => fd \in {"closed", "lost"}
    /\ device = "phone" /\ core # "off" => fd # "none"

\* Before the first start nobody has a descriptor.
LEMMA FdBegins == Init => FdInv
  BY DEF Init, FdInv, Before

\* Steps outside the run do not touch it.
LEMMA FdStays ==
    ASSUME FdInv, UNCHANGED <<device, core, fd, closes, count>>
    PROVE  FdInv'
  BY DEF FdInv

\* Mishaps of the network leave it alone too.
LEMMA FdFlaps ==
    ASSUME FdInv, UNCHANGED <<device, core, fd, closes>>, Flap
    PROVE  FdInv'
  BY DEF FdInv, Flap

\* A step of the run that neither opens nor closes anything.
LEMMA FdGoesOn ==
    ASSUME FdInv, UNCHANGED <<device, fd, closes, count>>,
           core # "off", core' # "off", core' \in Before => core \in Before
    PROVE  FdInv'
  BY DEF FdInv

\* The tunnel takes the descriptor over, closes it, or loses it with the device.
LEMMA FdOpens ==
    ASSUME FdInv, OpensTunnel
    PROVE  FdInv'
<1>1. device = "phone" => fd = "guard" /\ closes = 0
  BY DEF OpensTunnel, FdInv, Before
<1>2. UNCHANGED <<device, count>> /\ core' \in {"runs", "routes", "ends"}
  BY DEF OpensTunnel, coreVars
<1>3. CASE device = "phone"
  BY <1>1, <1>2, <1>3 DEF OpensTunnel, FdInv, Before
<1>4. CASE device # "phone"
  BY <1>2, <1>4 DEF OpensTunnel, FdInv, Before
<1> QED
  BY <1>3, <1>4

\* Whoever still owns the descriptor closes it when the run ends.
LEMMA FdEnds ==
    ASSUME FdInv, Ends
    PROVE  FdInv'
  BY DEF Ends, FdInv, ClosedNow, Before

\* A new run has a descriptor of its own, which its guard owns.
LEMMA FdStarts ==
    ASSUME FdInv, Start
    PROVE  FdInv'
  BY DEF Start, FdInv, Before

\* Every step of the client keeps the books of the descriptor.
LEMMA FdSteps == FdInv /\ [Next]_vars => FdInv'
<1> SUFFICES ASSUME FdInv, [Next]_vars PROVE FdInv'
  OBVIOUS
<1>1. CASE Start
  BY <1>1, FdStarts
<1>2. CASE StopCalled \/ StopReturns \/ GuardFires
  BY <1>2, FdStays DEF StopCalled, StopReturns, GuardFires
<1>3. CASE CoreStep
  <2>1. CASE Fails("begins") \/ Fails("setup") \/ RunsOut
    BY <2>1, FdGoesOn DEF Fails, RunsOut, Before
  <2>2. CASE Resolves
    BY <2>2, FdGoesOn DEF Resolves, Before
  <2>3. CASE WaitsFirst
    BY <2>3, FdGoesOn DEF WaitsFirst, Fails, Before
  <2>4. CASE Attaches
    BY <2>4, FdGoesOn DEF Attaches, Before
  <2>5. CASE OpensTunnel
    BY <2>5, FdOpens
  <2>6. CASE Configures
    BY <2>6, FdGoesOn DEF Configures, Before
  <2>7. CASE Ends
    BY <2>7, FdEnds
  <2> QED
    BY <1>3, <2>1, <2>2, <2>3, <2>4, <2>5, <2>6, <2>7 DEF CoreStep
<1>4. CASE LinkStep
  BY <1>4, FdStays DEF LinkStep, Connects, DialFailed, Redials, Loses, Leaves, coreVars
<1>5. CASE Asks \/ Looks
  BY <1>5, FdStays DEF Asks, Looks, coreVars
<1>6. CASE Attends \/ Applies \/ Garbled \/ ReadEnds
  BY <1>6, FdStays DEF Attends, Applies, Garbled, ReadEnds, coreVars
<1>7. ASSUME NEW n \in Nodes, Knocks(n) PROVE FdInv'
  BY <1>7, FdStays DEF Knocks, coreVars
<1>8. CASE RaceGoesOn
  BY <1>8, FdStays DEF RaceGoesOn, coreVars
<1>9. CASE NodeFlaps \/ NetworkChanges
  BY <1>9, FdFlaps DEF NodeFlaps, NetworkChanges, coreVars
<1>10. CASE Breaks
  BY <1>10, FdFlaps, FdStays DEF Breaks, coreVars
<1>11. CASE UNCHANGED vars
  BY <1>11, FdStays DEF vars, coreVars
<1> QED
  BY <1>1, <1>2, <1>3, <1>4, <1>5, <1>6, <1>7, <1>8, <1>9, <1>10, <1>11 DEF Next

\* The descriptor of the interface is closed once on every way out of the run,
\* whichever step failed, and never twice (mobile/fdguard.go, client.Run).
THEOREM FdComesBack == Spec => []FdIsReturned
<1>1. FdInv => FdIsReturned
  BY DEF FdInv, FdIsReturned
<1> QED
  BY <1>1, FdBegins, FdSteps, PTL DEF Spec

-----------------------------------------------------------------------------
\* The race.

Result == [from : Nodes, how : {Race!Ok, Race!Error}]

\* Every attempt reports once and then rests; a good report is of a connection
\* that is up; what has been taken from the channel is not left to be taken.
RaceTyped ==
    /\ attempt \in [Nodes -> {"dialling", "greeting", "up", "closed"}]
    /\ results \in Seq(Result)
    /\ left \subseteq Nodes

ReportsAreTrue ==
    \A i \in 1..Len(results) :
        /\ results[i].from \in left
        /\ attempt[results[i].from] \in {"up", "closed"}
        /\ results[i].how = Race!Ok => attempt[results[i].from] = "up"

ReportsAreSingle ==
    \A i, j \in 1..Len(results) : results[i].from = results[j].from => i = j

BusyAreLeft == \A n \in Nodes : attempt[n] \in {"dialling", "greeting"} => n \in left

WinnerIsTaken == winner # Race!None => winner \in Nodes \ left

\* The link is up only with a connection the race has given away.
UpIsWon == link = "up" => returned /\ winner # Race!None

WonInv ==
    /\ RaceTyped /\ ReportsAreTrue /\ ReportsAreSingle /\ BusyAreLeft
    /\ WinnerIsTaken /\ UpIsWon /\ WinnerIsUp

\* Before the first race there is nothing to report.
LEMMA WonBegins == Init => WonInv
  BY DEF Init, WonInv, RaceTyped, ReportsAreTrue, ReportsAreSingle, BusyAreLeft,
         WinnerIsTaken, UpIsWon, WinnerIsUp, Race!Init, Race!None

RaceFacts == <<attempt, results, left, winner, returned>>

\* Steps that touch neither a race nor the link's hold on its winner.
LEMMA WonStays ==
    ASSUME WonInv, UNCHANGED RaceFacts, link' \in {"dials", "up"} => link' = link
    PROVE  WonInv'
  BY DEF WonInv, RaceFacts, RaceTyped, ReportsAreTrue, ReportsAreSingle, BusyAreLeft,
         WinnerIsTaken, UpIsWon, WinnerIsUp

\* A race begins: nobody has reported, nobody has won.
LEMMA RaceStarts ==
    ASSUME WonInv, NEW ns \in SUBSET Nodes, StartRace(ns), link' = "dials"
    PROVE  WonInv'
<1>1. /\ attempt' = [n \in Nodes |-> IF n \in ns THEN "dialling" ELSE "closed"]
      /\ results' = << >> /\ left' = ns /\ winner' = Race!None
  BY DEF StartRace
<1> QED
  BY <1>1 DEF WonInv, RaceTyped, ReportsAreTrue, ReportsAreSingle, BusyAreLeft,
              WinnerIsTaken, UpIsWon, WinnerIsUp

\* The race is over and the link takes the connection.
LEMMA LinkTakesIt ==
    ASSUME WonInv, Connects
    PROVE  WonInv'
  BY DEF Connects, Answered, raceVars, WonInv, RaceTyped, ReportsAreTrue, ReportsAreSingle,
         BusyAreLeft, WinnerIsTaken, UpIsWon, WinnerIsUp

\* The connection that won is closed, by the link or by the world.
LEMMA WinnerCloses ==
    ASSUME WonInv, link = "up", link' \in {"up", "closed"},
           attempt' = [attempt EXCEPT ![winner] = "closed"],
           UNCHANGED <<results, left, winner, returned>>
    PROVE  WonInv'
<1>1. winner \in Nodes \ left
  BY DEF WonInv, WinnerIsTaken, UpIsWon
<1>2. RaceTyped' /\ BusyAreLeft'
  BY <1>1 DEF WonInv, RaceTyped, BusyAreLeft
<1>3. \A n \in left : n \in Nodes /\ attempt'[n] = attempt[n]
  BY <1>1 DEF WonInv, RaceTyped
<1>4. ReportsAreTrue'
  BY <1>3 DEF WonInv, ReportsAreTrue
<1> QED
  BY <1>2, <1>4 DEF WonInv, ReportsAreSingle, WinnerIsTaken, UpIsWon, WinnerIsUp

\* An attempt goes on without a word.
LEMMA HandshakeIsSafe ==
    ASSUME WonInv, NEW n \in Nodes, Race!Handshake(n), UNCHANGED link
    PROVE  WonInv'
<1>1. /\ attempt[n] = "dialling" /\ attempt' = [attempt EXCEPT ![n] = "greeting"]
      /\ UNCHANGED <<results, left, winner, returned>>
  BY DEF Race!Handshake
<1>2. RaceTyped' /\ BusyAreLeft'
  BY <1>1 DEF WonInv, RaceTyped, BusyAreLeft
<1>3. ReportsAreTrue'
  BY <1>1 DEF WonInv, RaceTyped, ReportsAreTrue, Result
<1>4. WinnerIsUp'
  BY <1>1 DEF WonInv, RaceTyped, WinnerIsTaken, WinnerIsUp
<1> QED
  BY <1>1, <1>2, <1>3, <1>4 DEF WonInv, ReportsAreSingle, WinnerIsTaken, UpIsWon

\* An attempt ends and reports, once.
LEMMA ReportIsSafe ==
    ASSUME WonInv, UNCHANGED link, NEW n \in Nodes, NEW how \in {Race!Ok, Race!Error},
           attempt[n] \in {"dialling", "greeting"},
           attempt' = [attempt EXCEPT ![n] = IF how = Race!Ok THEN "up" ELSE "closed"],
           Race!Reports(n, how), UNCHANGED <<left, winner, returned>>
    PROVE  WonInv'
<1> DEFINE r == [from |-> n, how |-> how]
<1>1. results' = Append(results, r) /\ r \in Result /\ results \in Seq(Result)
  BY DEF Race!Reports, WonInv, RaceTyped, Result
<1>2. /\ Len(results') = Len(results) + 1 /\ Len(results) \in Nat
      /\ \A i \in 1..Len(results) : results'[i] = results[i] /\ results[i] \in Result
      /\ results'[Len(results) + 1] = r /\ results' \in Seq(Result)
  BY <1>1, LenProperties, AppendProperties, ElementOfSeq
<1>3. n \in left
  BY DEF WonInv, BusyAreLeft
<1>4. /\ \A m \in Nodes : m # n => attempt'[m] = attempt[m]
      /\ attempt'[n] = IF how = Race!Ok THEN "up" ELSE "closed"
      /\ attempt' \in [Nodes -> {"dialling", "greeting", "up", "closed"}]
  BY DEF WonInv, RaceTyped
<1>5. \A i \in 1..Len(results) : results[i].from \in Nodes /\ results[i].from # n
  BY <1>2 DEF WonInv, ReportsAreTrue, Result
<1>6. ReportsAreTrue'
  <2> SUFFICES ASSUME NEW i \in 1..Len(results')
               PROVE  /\ results'[i].from \in left
                      /\ attempt'[results'[i].from] \in {"up", "closed"}
                      /\ results'[i].how = Race!Ok => attempt'[results'[i].from] = "up"
    BY DEF ReportsAreTrue
  <2>1. CASE i \in 1..Len(results)
    BY <1>2, <1>4, <1>5, <2>1 DEF WonInv, ReportsAreTrue
  <2>2. CASE i = Len(results) + 1
    BY <1>2, <1>3, <1>4, <2>2
  <2> QED
    BY <1>2, <2>1, <2>2
<1>7. ReportsAreSingle'
  <2> SUFFICES ASSUME NEW i \in 1..Len(results'), NEW j \in 1..Len(results'),
                      results'[i].from = results'[j].from
               PROVE  i = j
    BY DEF ReportsAreSingle
  <2>1. \A k \in 1..Len(results') : k \in 1..Len(results) \/ k = Len(results) + 1
    BY <1>2
  <2>2. CASE i \in 1..Len(results) /\ j \in 1..Len(results)
    BY <1>2, <2>2 DEF WonInv, ReportsAreSingle
  <2>3. CASE i = Len(results) + 1 /\ j \in 1..Len(results)
    BY <1>2, <1>5, <2>3
  <2>4. CASE j = Len(results) + 1 /\ i \in 1..Len(results)
    BY <1>2, <1>5, <2>4
  <2> QED
    BY <2>1, <2>2, <2>3, <2>4
<1>8. BusyAreLeft'
  BY <1>3, <1>4 DEF WonInv, BusyAreLeft
<1>9. WinnerIsUp'
  BY <1>3, <1>4 DEF WonInv, WinnerIsTaken, WinnerIsUp
<1> QED
  BY <1>2, <1>4, <1>6, <1>7, <1>8, <1>9 DEF WonInv, RaceTyped, WinnerIsTaken, UpIsWon

\* What taking a report from the channel leaves behind.
LEMMA TakingOne ==
    ASSUME WonInv, results # << >>, Race!Taken
    PROVE  /\ Head(results) \in Result /\ Head(results) = results[1] /\ 1 \in 1..Len(results)
           /\ results' \in Seq(Result) /\ left' = left \ {Head(results).from}
           /\ \A i \in 1..Len(results') :
                /\ i + 1 \in 1..Len(results) /\ results'[i] = results[i + 1]
                /\ results'[i].from \in left' /\ results'[i].from # Head(results).from
<1>1. results' = Tail(results) /\ left' = left \ {Head(results).from} /\ results \in Seq(Result)
  BY DEF Race!Taken, Race!Received, WonInv, RaceTyped
<1>2. /\ Len(results) \in Nat \ {0} /\ Head(results) = results[1]
      /\ Head(results) \in Result
      /\ results' \in Seq(Result) /\ Len(results') = Len(results) - 1
      /\ \A i \in 1..Len(results') : results'[i] = results[i + 1]
  BY <1>1, HeadTailProperties, LenProperties, EmptySeq
<1>3. \A i \in 1..Len(results') : i + 1 \in 1..Len(results) /\ i + 1 # 1
  BY <1>2
<1>4. 1 \in 1..Len(results)
  BY <1>2
<1>5. \A i \in 1..Len(results') : results[i + 1].from \in left /\ results[i + 1].from # results[1].from
  BY <1>3, <1>4 DEF WonInv, ReportsAreTrue, ReportsAreSingle
<1> QED
  BY <1>1, <1>2, <1>3, <1>4, <1>5

\* The reports that wait keep their truth while one is taken.
LEMMA RestIsTrue ==
    ASSUME WonInv, results # << >>, Race!Taken,
           \A n \in Nodes : n # Head(results).from => attempt'[n] = attempt[n]
    PROVE  ReportsAreTrue' /\ ReportsAreSingle'
<1>1. ReportsAreTrue'
  <2> SUFFICES ASSUME NEW i \in 1..Len(results')
               PROVE  /\ results'[i].from \in left'
                      /\ attempt'[results'[i].from] \in {"up", "closed"}
                      /\ results'[i].how = Race!Ok => attempt'[results'[i].from] = "up"
    BY DEF ReportsAreTrue
  <2>1. /\ i + 1 \in 1..Len(results) /\ results'[i] = results[i + 1]
        /\ results'[i].from \in left' /\ results'[i].from # Head(results).from
    BY TakingOne
  <2>2. results[i + 1].from \in Nodes
    BY <2>1 DEF WonInv, ReportsAreTrue, RaceTyped
  <2> QED
    BY <2>1, <2>2 DEF WonInv, ReportsAreTrue
<1>2. ReportsAreSingle'
  <2> SUFFICES ASSUME NEW i \in 1..Len(results'), NEW j \in 1..Len(results'),
                      results'[i].from = results'[j].from
               PROVE  i = j
    BY DEF ReportsAreSingle
  <2>1. /\ i + 1 \in 1..Len(results) /\ results'[i] = results[i + 1]
        /\ j + 1 \in 1..Len(results) /\ results'[j] = results[j + 1]
    BY TakingOne
  <2>2. i + 1 = j + 1
    BY <2>1 DEF WonInv, ReportsAreSingle
  <2> QED
    BY <2>2
<1> QED
  BY <1>1, <1>2

\* The first good report wins.
LEMMA WinningIsSafe ==
    ASSUME WonInv, Race!Wins, UNCHANGED link
    PROVE  WonInv'
<1>1. /\ ~returned /\ results # << >> /\ Head(results).how = Race!Ok /\ Race!Taken
      /\ winner' = Head(results).from /\ attempt' = attempt
  BY DEF Race!Wins, Race!Received
<1>2. /\ Head(results) \in Result /\ Head(results) = results[1] /\ 1 \in 1..Len(results)
      /\ results' \in Seq(Result) /\ left' = left \ {Head(results).from}
  BY <1>1, TakingOne
<1>3. winner' \in Nodes /\ attempt[winner'] = "up"
  BY <1>1, <1>2 DEF WonInv, ReportsAreTrue, Result
<1>4. RaceTyped' /\ WinnerIsTaken' /\ WinnerIsUp'
  BY <1>1, <1>2, <1>3 DEF WonInv, RaceTyped, WinnerIsTaken, WinnerIsUp
<1>5. BusyAreLeft'
  BY <1>1, <1>2, <1>3 DEF WonInv, BusyAreLeft
<1>6. UpIsWon'
  BY <1>1 DEF WonInv, UpIsWon
<1> QED
  BY <1>1, <1>4, <1>5, <1>6, RestIsTrue DEF WonInv

\* A bad report is put aside.
LEMMA FailingIsSafe ==
    ASSUME WonInv, Race!Fails, UNCHANGED link
    PROVE  WonInv'
<1>1. /\ ~returned /\ results # << >> /\ Race!Taken /\ winner' = winner /\ attempt' = attempt
  BY DEF Race!Fails
<1>2. /\ Head(results) \in Result /\ Head(results) = results[1] /\ 1 \in 1..Len(results)
      /\ results' \in Seq(Result) /\ left' = left \ {Head(results).from}
  BY <1>1, TakingOne
<1>3. attempt[Head(results).from] \in {"up", "closed"}
  BY <1>2 DEF WonInv, ReportsAreTrue
<1>4. RaceTyped' /\ BusyAreLeft' /\ WinnerIsTaken' /\ WinnerIsUp'
  BY <1>1, <1>2, <1>3 DEF WonInv, RaceTyped, BusyAreLeft, WinnerIsTaken, WinnerIsUp
<1>5. UpIsWon'
  BY <1>1 DEF WonInv, UpIsWon
<1> QED
  BY <1>1, <1>4, <1>5, RestIsTrue DEF WonInv

\* dropLosers closes a loser: the winner's report has been taken before.
LEMMA DroppingIsSafe ==
    ASSUME WonInv, Race!Drop, UNCHANGED link
    PROVE  WonInv'
<1>1. /\ results # << >> /\ Race!Taken /\ winner' = winner /\ returned' = returned
      /\ attempt' = [attempt EXCEPT ![Head(results).from] = "closed"]
  BY DEF Race!Drop, Race!Received
<1>2. /\ Head(results) \in Result /\ Head(results) = results[1] /\ 1 \in 1..Len(results)
      /\ results' \in Seq(Result) /\ left' = left \ {Head(results).from}
  BY <1>1, TakingOne
<1>3. Head(results).from \in left
  BY <1>2 DEF WonInv, ReportsAreTrue
<1>4. /\ \A n \in Nodes : n # Head(results).from => attempt'[n] = attempt[n]
      /\ attempt' \in [Nodes -> {"dialling", "greeting", "up", "closed"}]
      /\ Head(results).from \in Nodes => attempt'[Head(results).from] = "closed"
  BY <1>1 DEF WonInv, RaceTyped
<1>5. RaceTyped' /\ BusyAreLeft' /\ WinnerIsTaken'
  BY <1>1, <1>2, <1>4 DEF WonInv, RaceTyped, BusyAreLeft, WinnerIsTaken
<1>6. WinnerIsUp'
  BY <1>1, <1>3, <1>4 DEF WonInv, WinnerIsTaken, WinnerIsUp
<1> QED
  BY <1>1, <1>4, <1>5, <1>6, RestIsTrue DEF WonInv, UpIsWon

\* A step of one attempt: its handshake, or the report of how it ended.
LEMMA KnockingIsSafe ==
    ASSUME WonInv, NEW n \in Nodes, Knocks(n)
    PROVE  WonInv'
<1>1. UNCHANGED link
  BY DEF Knocks, linkVars
<1>2. CASE Race!Handshake(n)
  BY <1>1, <1>2, HandshakeIsSafe
<1>3. CASE Race!Greeted(n)
  BY <1>1, <1>3, ReportIsSafe DEF Race!Greeted
<1>4. CASE Race!DialFails(n)
  <2>1. Race!Error # Race!Ok
    BY DEF Race!Error, Race!Ok
  <2> QED
    BY <1>1, <1>4, <2>1, ReportIsSafe DEF Race!DialFails
<1>5. CASE Race!GreetFails(n)
  <2>1. Race!Error # Race!Ok
    BY DEF Race!Error, Race!Ok
  <2> QED
    BY <1>1, <1>5, <2>1, ReportIsSafe DEF Race!GreetFails
<1> QED
  BY <1>2, <1>3, <1>4, <1>5 DEF Knocks

-----------------------------------------------------------------------------
\* The nodes a race may be run among.
NamesInv == list \subseteq Nodes /\ file \subseteq Nodes /\ targets \subseteq Nodes

\* A client begins with nodes there are.
LEMMA NamesBegin == Init => NamesInv
  BY ClientConstants DEF Init, NamesInv, NoList

\* Lists come from the link, the file and snapshots, all of nodes there are.
LEMMA NamesStep == NamesInv /\ [Next]_vars => NamesInv'
<1> SUFFICES ASSUME NamesInv, [Next]_vars PROVE NamesInv'
  OBVIOUS
<1> USE DEF NamesInv
<1>1. CASE Start \/ StopCalled \/ StopReturns \/ GuardFires \/ RaceGoesOn \/ NodeFlaps \/ Breaks
  BY <1>1 DEF Start, StopCalled, StopReturns, GuardFires, RaceGoesOn, NodeFlaps, Breaks,
              netVars, linkVars
<1>2. CASE CoreStep
  <2>1. CASE Resolves
    BY <2>1, ClientConstants DEF Resolves
  <2> QED
    BY <1>2, <2>1 DEF CoreStep, Fails, WaitsFirst, Attaches, OpensTunnel, Configures,
                      RunsOut, Ends, netVars, linkVars
<1>3. CASE LinkStep \/ Asks \/ Looks
  BY <1>3 DEF LinkStep, Connects, DialFailed, Redials, Loses, Leaves, Asks, Looks, netVars
<1>4. CASE Attends \/ Applies \/ Garbled \/ ReadEnds
  BY <1>4 DEF Attends, Applies, Garbled, ReadEnds, linkVars
<1>5. ASSUME NEW n \in Nodes, Knocks(n) PROVE NamesInv'
  BY <1>5 DEF Knocks, netVars, linkVars
<1>6. CASE NetworkChanges
  BY <1>6, ClientConstants DEF NetworkChanges, linkVars
<1>7. CASE UNCHANGED vars
  BY <1>7 DEF vars, netVars, linkVars
<1> QED
  BY <1>1, <1>2, <1>3, <1>4, <1>5, <1>6, <1>7 DEF Next

-----------------------------------------------------------------------------
\* Every step of the client keeps what holds of races.
LEMMA WonSteps == NamesInv /\ WonInv /\ [Next]_vars => WonInv'
<1> SUFFICES ASSUME NamesInv, WonInv, [Next]_vars PROVE WonInv'
  OBVIOUS
<1> USE DEF RaceFacts, raceVars, linkVars
<1>1. CASE Start \/ StopCalled \/ StopReturns \/ GuardFires \/ NodeFlaps \/ NetworkChanges
  BY <1>1, WonStays DEF Start, StopCalled, StopReturns, GuardFires, NodeFlaps, NetworkChanges
<1>2. CASE CoreStep
  <2>1. CASE Resolves
    <3>1. PICK ns \in SUBSET Nodes : StartRace(ns) /\ link' = "dials"
      BY <2>1, ClientConstants DEF Resolves, NamesInv
    <3> QED
      BY <3>1, RaceStarts
  <2>2. CASE Ends
    BY <2>2, WonStays DEF Ends
  <2> QED
    BY <1>2, <2>1, <2>2, WonStays
       DEF CoreStep, Fails, WaitsFirst, Attaches, OpensTunnel, Configures, RunsOut
<1>3. CASE LinkStep
  <2>1. CASE Connects
    BY <2>1, LinkTakesIt
  <2>2. CASE Redials
    BY <2>2, RaceStarts DEF Redials, NamesInv
  <2>3. CASE DialFailed \/ Loses
    BY <2>3, WonStays DEF DialFailed, Loses, Shutdown
  <2>4. CASE Leaves /\ link = "up"
    BY <2>4, WinnerCloses DEF Leaves, Shutdown
  <2>5. CASE Leaves /\ link # "up"
    BY <2>5, WonStays DEF Leaves, Shutdown
  <2> QED
    BY <1>3, <2>1, <2>2, <2>3, <2>4, <2>5 DEF LinkStep
<1>4. CASE Asks \/ Looks \/ Attends \/ Applies \/ Garbled \/ ReadEnds
  BY <1>4, WonStays DEF Asks, Looks, Attends, Applies, Garbled, ReadEnds
<1>5. ASSUME NEW n \in Nodes, Knocks(n) PROVE WonInv'
  BY <1>5, KnockingIsSafe
<1>6. CASE RaceGoesOn
  BY <1>6, WinningIsSafe, FailingIsSafe, DroppingIsSafe DEF RaceGoesOn
<1>7. CASE Breaks
  BY <1>7, WinnerCloses DEF Breaks, Connected
<1>8. CASE UNCHANGED vars
  BY <1>8, WonStays DEF vars
<1> QED
  BY <1>1, <1>2, <1>3, <1>4, <1>5, <1>6, <1>7, <1>8 DEF Next

\* The connection the race gave away stays open until the link has taken it:
\* neither the cancellation, nor the goroutine that closes the losers, nor a
\* race of an earlier round touches it (node.DialRace, dropLosers, Link.Run).
THEOREM WinnerStaysUp == Spec => []WinnerIsUp
<1>1. WonInv => WinnerIsUp
  BY DEF WonInv
<1>2. Init => NamesInv /\ WonInv
  BY NamesBegin, WonBegins
<1>3. NamesInv /\ WonInv /\ [Next]_vars => NamesInv' /\ WonInv'
  BY NamesStep, WonSteps
<1> QED
  BY <1>1, <1>2, <1>3, PTL DEF Spec
=============================================================================

------------------------------- MODULE Client -------------------------------
(***************************************************************************)
(* One client on a device: the phone's buttons (mobile/qdiver.go), the run  *)
(* of the client (client.Run, runTunnel, Tunnel.Configure), the link that   *)
(* keeps a connection to some node of the network (internal/link) and the   *)
(* race it is won in (DialRace), the reader of snapshots and the memory of  *)
(* the network on disk.  A desktop sets routes of its own; a phone hands    *)
(* the client the descriptor of an interface it set up itself.              *)
(*                                                                          *)
(* Between two runs and between two races the goroutines of the earlier one *)
(* are waited for: overlapping ones share nothing but the file.             *)
(***************************************************************************)
EXTENDS Naturals, Sequences, FiniteSets

CONSTANTS Nodes,      \* the nodes of the network, an endpoint each
          Bundle,     \* the nodes the link of the user names
          Lists,      \* the lists the network may have later
          Devices,    \* "phone", "desktop"
          MaxStarts,  \* how often the user starts the client
          MaxFlaps    \* how often a node dies or comes back, a connection breaks, the list changes

ASSUME ClientConstants ==
    /\ Bundle \subseteq Nodes /\ Bundle # {}
    /\ \A l \in Lists : l \subseteq Nodes

VARIABLES attempt, silent, results, cancelled, left, winner, returned,  \* of the race
          device,   \* what the client runs on
          held,     \* the phone holds a running client (cancel is set)
          stop,     \* the context of the run is over
          stopping, \* somebody waits in Stop
          core,     \* how far client.Run is
          fd,       \* who owns the descriptor of the interface
          closes,   \* how often it was closed
          tunnel,   \* the interface: "none", "open", "closed"
          routes,   \* nodes that bypass the tunnel, the default route, the deferred removal
          link,     \* the loop of Link.Run
          targets,  \* the nodes of the next race
          base,     \* the nodes known when the run began (net.targets)
          known,    \* what the memory knows to be stored
          file,     \* network.json
          list,     \* the nodes the network has
          reader,   \* watchSnapshots
          waiter,   \* a stream that waits in Link.Conn
          alive,    \* the nodes that are up
          count     \* starts, flaps

raceVars == <<attempt, silent, results, cancelled, left, winner, returned>>
coreVars == <<device, held, stop, stopping, core, fd, closes, tunnel, routes>>
linkVars == <<link, targets, waiter>>
netVars == <<base, known, file, list, reader>>
vars == <<raceVars, coreVars, linkVars, netVars, alive, count>>

Race == INSTANCE DialRace WITH Attempts <- Nodes

NoList == {}
NoRoutes == [except |-> {}, all |-> FALSE, kept |-> FALSE]

Init ==
    /\ Race!Init /\ \A n \in Nodes : ~silent[n]
    /\ device \in Devices
    /\ held = FALSE /\ stop = FALSE /\ stopping = FALSE /\ core = "off"
    /\ fd = "none" /\ closes = 0 /\ tunnel = "none" /\ routes = NoRoutes
    /\ link = "off" /\ targets = NoList /\ base = NoList
    /\ known = NoList /\ file = NoList /\ list = Bundle
    /\ reader = "off" /\ waiter = "no"
    /\ alive = Nodes
    /\ count = [starts |-> 0, flaps |-> 0]

(***************************************************************************)
(* The race, among the nodes the link knows.                                *)
(***************************************************************************)
Gathered == link \in {"off", "closed"} \/ left = {}

StartRace(ns) ==
    /\ attempt' = [n \in Nodes |-> IF n \in ns THEN "dialling" ELSE "closed"]
    /\ results' = << >> /\ left' = ns
    /\ cancelled' = FALSE /\ winner' = Race!None /\ returned' = FALSE
    /\ UNCHANGED silent

(* A node that the default route leads into the tunnel is out of reach: the
   tunnel itself works through the connection to it. *)
Looped(n) == routes.all /\ n \notin routes.except
Reachable(n) == n \in alive /\ ~Looped(n)

Knocks(n) ==
    /\ link # "off"
    /\ \/ /\ Reachable(n)
          /\ Race!Handshake(n) \/ Race!Greeted(n)
       \/ /\ ~Reachable(n)
          /\ Race!DialFails(n) \/ Race!GreetFails(n)
       \/ cancelled /\ Race!DialFails(n)
    /\ UNCHANGED <<coreVars, linkVars, netVars, alive, count>>

RaceGoesOn ==
    /\ link # "off"
    /\ Race!Fails \/ Race!Wins \/ Race!Drop
    /\ UNCHANGED <<coreVars, linkVars, netVars, alive, count>>

(***************************************************************************)
(* Link.Run.  Its context is over when the run's is, or when the run ended. *)
(***************************************************************************)
Over == stop \/ core = "off"

(* The channel of changes is closed: whoever sleeps looks again. *)
Woken(w) == IF w = "sleeps" THEN "asks" ELSE w

(* The race is over.  By then the reader has noticed the end of the connection
   it read from. *)
Answered(won) ==
    /\ link = "dials" /\ returned /\ reader \notin {"reads", "stuck"}
    /\ won <=> winner # Race!None

(* Mistake: the new connection is put in place and nobody is told. *)
ConnectsQuietly ==
    /\ Answered(TRUE)
    /\ link' = "up"
    /\ UNCHANGED <<raceVars, coreVars, targets, waiter, netVars, alive, count>>

Connects ==
    /\ Answered(TRUE)
    /\ link' = "up" /\ waiter' = Woken(waiter)
    /\ UNCHANGED <<raceVars, coreVars, targets, netVars, alive, count>>

Shutdown == link' = "closed" /\ waiter' = Woken(waiter)

DialFailed ==
    /\ Answered(FALSE)
    /\ IF Over THEN Shutdown ELSE link' = "backoff" /\ UNCHANGED waiter
    /\ UNCHANGED <<raceVars, coreVars, targets, netVars, alive, count>>

Redials ==
    /\ link = "backoff" /\ ~Over /\ Gathered
    /\ StartRace(targets)
    /\ link' = "dials"
    /\ UNCHANGED <<coreVars, targets, waiter, netVars, alive, count>>

(* The connection of the link is there and lives. *)
Connected == link = "up" /\ attempt[winner] = "up"

Loses ==
    /\ link = "up" /\ ~Connected
    /\ link' = "backoff"
    /\ UNCHANGED <<raceVars, coreVars, targets, waiter, netVars, alive, count>>

(* Mistake: the loop ends and the connection is left open. *)
LeavesItOpen ==
    /\ link \in {"up", "backoff"} /\ Over
    /\ Shutdown
    /\ UNCHANGED <<raceVars, coreVars, targets, netVars, alive, count>>

Leaves ==
    /\ link \in {"up", "backoff"} /\ Over
    /\ Shutdown
    /\ attempt' = IF link = "up" THEN [attempt EXCEPT ![winner] = "closed"] ELSE attempt
    /\ UNCHANGED <<silent, results, cancelled, left, winner, returned, coreVars, targets,
                   netVars, alive, count>>

LinkStep == Connects \/ DialFailed \/ Redials \/ Loses \/ Leaves

(* A stream asks for the connection and sleeps when there is none. *)
Asks ==
    /\ core = "runs" /\ waiter = "no" /\ tunnel = "open" /\ ~stop
    /\ waiter' = "asks"
    /\ UNCHANGED <<raceVars, coreVars, link, targets, netVars, alive, count>>

Looks ==
    /\ \/ waiter = "asks" /\ waiter' = IF link \in {"up", "closed"} THEN "no" ELSE "sleeps"
       \/ waiter = "sleeps" /\ stop /\ waiter' = "no"
    /\ UNCHANGED <<raceVars, coreVars, link, targets, netVars, alive, count>>

(***************************************************************************)
(* client.Run, in the order of its steps; each may be the last.             *)
(***************************************************************************)
Fails(from) ==
    /\ core = from
    /\ core' = "ends"
    /\ UNCHANGED <<raceVars, device, held, stop, stopping, fd, closes, tunnel, routes,
                   linkVars, netVars, alive, count>>

(* The bundle, the memory of the last run, the link and its first race. *)
Resolves ==
    /\ core = "begins"
    /\ core' = "first"
    /\ known' = file
    /\ LET ns == IF file = NoList THEN Bundle ELSE file
       IN  base' = ns /\ targets' = ns /\ StartRace(ns)
    /\ link' = "dials"
    /\ UNCHANGED <<device, held, stop, stopping, fd, closes, tunnel, routes, waiter,
                   file, list, reader, alive, count>>

WaitsFirst ==
    \/ /\ core = "first" /\ link = "up"
       /\ core' = "setup"
       /\ UNCHANGED <<raceVars, device, held, stop, stopping, fd, closes, tunnel, routes,
                      linkVars, netVars, alive, count>>
    \/ link # "up" /\ Fails("first")

Attaches ==
    /\ core = "setup"
    /\ core' = "opens"
    /\ reader' = "waits"
    /\ UNCHANGED <<raceVars, device, held, stop, stopping, fd, closes, tunnel, routes,
                   linkVars, base, known, file, list, alive, count>>

(* The descriptor passes to the tunnel before it is opened: a tunnel that does
   not open has closed it, or nobody knows. *)
OpensTunnel ==
    /\ core = "opens"
    /\ \/ /\ core' = IF device = "phone" THEN "runs" ELSE "routes"
          /\ tunnel' = "open" /\ UNCHANGED closes
          /\ fd' = IF device = "phone" THEN "tunnel" ELSE fd
       \/ /\ core' = "ends" /\ UNCHANGED <<tunnel, closes>>
          /\ fd' = IF device = "phone" THEN "lost" ELSE fd
       \/ /\ core' = "ends" /\ UNCHANGED tunnel
          /\ device = "phone" /\ fd' = "closed" /\ closes' = closes + 1
    /\ UNCHANGED <<raceVars, device, held, stop, stopping, routes, linkVars, netVars, alive, count>>

(* Configure: the exceptions, which may fail half way; then the default route,
   and only after all of it their removal is deferred. *)
Configures ==
    /\ core = "routes"
    /\ \/ /\ core' = "ends"
          /\ \E some \in SUBSET base : routes' = [routes EXCEPT !.except = @ \cup some]
       \/ /\ core' = "runs"
          /\ routes' = [except |-> base \cup routes.except, all |-> TRUE, kept |-> TRUE]
    /\ UNCHANGED <<raceVars, device, held, stop, stopping, fd, closes, tunnel, linkVars,
                   netVars, alive, count>>

(* Tunnel.Run waits for the context and for nothing else. *)
RunsOut == stop /\ Fails("runs")

(* The guard of the tunnel: nothing goes through it, so the routes go. *)
GuardFires ==
    /\ device = "desktop" /\ core = "runs" /\ tunnel = "open" /\ link # "up"
    /\ tunnel' = "closed"
    /\ routes' = [routes EXCEPT !.except = {}, !.all = FALSE]
    /\ UNCHANGED <<raceVars, device, held, stop, stopping, core, fd, closes, linkVars,
                   netVars, alive, count>>

(* Mistake: the guard of the descriptor closes it whoever has it. *)
ClosedByGuardToo == closes + (IF fd = "tunnel" THEN 2 ELSE IF fd \in {"guard", "closed"} THEN 1 ELSE 0)

(* The tunnel closes what it was given, the guard what nobody took. *)
ClosedNow == closes + (IF fd \in {"tunnel", "guard"} THEN 1 ELSE 0)

(* The deferred calls, and Run returns. *)
Ends ==
    /\ core = "ends"
    /\ core' = "off"
    /\ routes' = IF routes.kept THEN NoRoutes ELSE [routes EXCEPT !.all = FALSE]
    /\ tunnel' = IF tunnel = "open" THEN "closed" ELSE tunnel
    /\ closes' = ClosedNow
    /\ fd' = IF fd \in {"tunnel", "guard"} THEN "closed" ELSE fd
    /\ cancelled' = TRUE
    /\ link' = IF link = "off" THEN "closed" ELSE link
    /\ UNCHANGED <<attempt, silent, results, left, winner, returned, device, held, stop,
                   stopping, targets, waiter, netVars, alive, count>>

CoreStep ==
    \/ Fails("begins") \/ Resolves \/ WaitsFirst
    \/ Fails("setup") \/ Attaches \/ OpensTunnel \/ Configures \/ RunsOut \/ Ends

(***************************************************************************)
(* Snapshots: the node sends its list to whoever is connected.              *)
(***************************************************************************)
Attends ==
    /\ reader = "waits"
    /\ \/ Connected /\ ~stop /\ reader' = "reads"
       \/ (link = "closed" \/ stop) /\ reader' = "off"
    /\ UNCHANGED <<raceVars, coreVars, linkVars, base, known, file, list, alive, count>>

(* networkMemory.apply: nothing when the list is the one known; writing it to
   disk may fail, and it counts as known all the same. *)
Applies ==
    /\ reader = "reads" /\ Connected /\ list # known
    /\ targets' = list /\ known' = list
    /\ file' \in {file, list}
    /\ UNCHANGED <<raceVars, coreVars, link, waiter, base, list, reader, alive, count>>

(* A frame that cannot be read: the stream is left alone until the connection
   is over. *)
Garbled ==
    /\ reader = "reads"
    /\ reader' = "stuck"
    /\ UNCHANGED <<raceVars, coreVars, linkVars, base, known, file, list, alive, count>>

ReadEnds ==
    /\ reader \in {"reads", "stuck"} /\ (stop \/ ~Connected)
    /\ reader' = IF stop THEN "off" ELSE "waits"
    /\ UNCHANGED <<raceVars, coreVars, linkVars, base, known, file, list, alive, count>>

(***************************************************************************)
(* The user.                                                                *)
(***************************************************************************)
Start ==
    /\ ~held /\ ~stopping /\ core = "off" /\ link \in {"off", "closed"}
    /\ reader = "off" /\ waiter = "no"
    /\ left = {} \/ count.starts = 0
    /\ count.starts < MaxStarts /\ count' = [count EXCEPT !.starts = @ + 1]
    /\ held' = TRUE /\ stop' = FALSE /\ core' = "begins" /\ link' = "off"
    /\ fd' = IF device = "phone" THEN "guard" ELSE "none"
    /\ closes' = 0 /\ tunnel' = "none"
    /\ UNCHANGED <<raceVars, device, stopping, routes, targets, waiter, netVars, alive>>

StopCalled ==
    /\ held
    /\ held' = FALSE /\ stop' = TRUE /\ stopping' = TRUE
    /\ cancelled' = TRUE
    /\ UNCHANGED <<attempt, silent, results, left, winner, returned, device, core, fd, closes,
                   tunnel, routes, linkVars, netVars, alive, count>>

StopReturns ==
    /\ stopping /\ core = "off"
    /\ stopping' = FALSE
    /\ UNCHANGED <<raceVars, device, held, stop, core, fd, closes, tunnel, routes, linkVars,
                   netVars, alive, count>>

(***************************************************************************)
(* The world.                                                               *)
(***************************************************************************)
Flap == count.flaps < MaxFlaps /\ count' = [count EXCEPT !.flaps = @ + 1]

NodeFlaps ==
    /\ Flap
    /\ \E n \in Nodes : alive' = IF n \in alive THEN alive \ {n} ELSE alive \cup {n}
    /\ UNCHANGED <<raceVars, coreVars, linkVars, netVars>>

(* A connection breaks: by chance, or because its node is out of reach. *)
Breaks ==
    /\ Connected
    /\ Flap \/ (~Reachable(winner) /\ UNCHANGED count)
    /\ attempt' = [attempt EXCEPT ![winner] = "closed"]
    /\ UNCHANGED <<silent, results, cancelled, left, winner, returned, coreVars, linkVars,
                   netVars, alive>>

NetworkChanges ==
    /\ Flap
    /\ \E l \in Lists : l # list /\ list' = l
    /\ UNCHANGED <<raceVars, coreVars, linkVars, base, known, file, reader, alive>>

Next ==
    \/ Start \/ StopCalled \/ StopReturns
    \/ CoreStep \/ GuardFires
    \/ LinkStep
    \/ Asks \/ Looks
    \/ Attends \/ Applies \/ Garbled \/ ReadEnds
    \/ \E n \in Nodes : Knocks(n)
    \/ RaceGoesOn
    \/ NodeFlaps \/ Breaks \/ NetworkChanges

(* The goroutines run, a node answers or a timer does, and a connection to a
   node that is gone breaks in the end. *)
Fairness ==
    /\ WF_vars(CoreStep) /\ WF_vars(LinkStep) /\ WF_vars(RaceGoesOn)
    /\ \A n \in Nodes : WF_vars(Knocks(n))
    /\ WF_vars(Looks) /\ WF_vars(StopReturns) /\ WF_vars(Attends \/ ReadEnds)
    /\ WF_vars(Breaks /\ UNCHANGED count)

Spec == Init /\ [][Next]_vars
FairSpec == Spec /\ Fairness

TypeOK ==
    /\ core \in {"off", "begins", "first", "setup", "opens", "routes", "runs", "ends"}
    /\ link \in {"off", "dials", "backoff", "up", "closed"}
    /\ fd \in {"none", "guard", "tunnel", "closed", "lost"}
    /\ reader \in {"off", "waits", "reads", "stuck"} /\ waiter \in {"no", "asks", "sleeps"}
    /\ targets \subseteq Nodes /\ left \subseteq Nodes

(***************************************************************************)
(* The descriptor of the interface is closed once on every way out of the   *)
(* run, whichever step failed, and never twice (fdguard.go: twice kills the *)
(* process, never leaves the icon of the VPN hanging); only when the device *)
(* itself does not open nobody can tell.                                    *)
(***************************************************************************)
FdIsReturned ==
    /\ closes <= 1
    /\ device = "phone" /\ core = "off" /\ count.starts > 0 /\ fd # "lost" => closes = 1

(***************************************************************************)
(* After Stop the run ends, and with it the link: whatever was being done,  *)
(* a race, a first wait, a route, no connection to a node stays open        *)
(* (client.Run does not wait for the link; Link.Run closes by itself).      *)
(***************************************************************************)
NothingOpen == \A n \in Nodes : attempt[n] \notin {"greeting", "up"}

StopEndsAll == stop ~> (core = "off" /\ link = "closed" /\ NothingOpen)

(***************************************************************************)
(* A stream that came while the link was down gets its connection as soon   *)
(* as some node of the list can be reached for good: no wake-up is lost     *)
(* between two races, and the race goes on after every failure (Link.Conn). *)
(***************************************************************************)
SomebodyThere == <>[](\E n \in targets : Reachable(n))
WaiterIsAnswered == SomebodyThere => (waiter = "sleeps" ~> waiter # "sleeps")

(***************************************************************************)
(* The connections that lost the race are closed, all through the life of   *)
(* the link, and the one that won stays (dialrace.go, dropLosers).          *)
(***************************************************************************)
LosersAreClosed ==
    \A n \in Nodes : (attempt[n] = "up" /\ winner # n /\ returned)
                        ~> (attempt[n] = "closed" \/ winner = n)

(* The connection the race gave away is not closed by the race. *)
WinnerIsUp == link = "dials" /\ winner # Race!None => attempt[winner] = "up"

-----------------------------------------------------------------------------
\* What comments say and the code does not do.

\* All nodes of the next race bypass the tunnel (tun.go, exceptions).
EveryTargetIsExcepted == routes.all => targets \subseteq routes.except

\* Running says whether the client runs.
RunningIsTrue == device = "phone" /\ held => core # "off"

\* The guard takes the routes away and the client leaves (tun.go, runTunnel).
GuardEnds == (core = "runs" /\ tunnel = "closed") ~> core = "off"

\* The exceptions are removed when the client is gone (Deconfigure).
RoutesAreRemoved == core = "off" => routes.except = {}
=============================================================================

------------------------------ MODULE Sessions ------------------------------
(***************************************************************************)
(* Who is working right now: the table of greeted connections of one node  *)
(* (node/sessions.go), the handlers that use it without holding its lock   *)
(* (serveControl, markActive), and the sessions it announces to the network *)
(* (ledger.SessionUp, SessionDown, Snapshot, Merge, Sweep), against which  *)
(* devices are let in (ledger.Check).  A node tells its neighbours of all  *)
(* the sessions it knows, those it has heard of from others among them.    *)
(*                                                                         *)
(* Time passes in steps of TTL / Lifetime.  Instead of the moment it was   *)
(* seen a session carries its age, on its own node, on the others and in   *)
(* the pictures on the way between them: the clocks of the nodes agree.    *)
(***************************************************************************)
EXTENDS Naturals, FiniteSets

CONSTANTS Conns,        \* connections, each with its own binding
          Device,       \* Device[c]: what the client's device calls itself
          Streams,      \* Streams[c]: the application requests of c, if it wins its race
          Limit,        \* devices the client may use at once; 0 is no limit
          Host,         \* the node the connections come to
          Others,       \* the nodes that hear of them, at once or through others
          Neighbours,   \* pairs <<from, to>> of nodes that exchange pictures
          Lifetime      \* sessionTTL, in steps of the clock

ASSUME SessionsConstants ==
    /\ Limit \in Nat /\ Lifetime \in Nat \ {0}
    /\ Host \notin Others /\ Conns # {}
    /\ Neighbours \subseteq (Others \cup {Host}) \X (Others \cup {Host})

Everyone == Others \cup {Host}

VARIABLES control,    \* control[c]: the handler of c's control stream
          table,      \* table[c]: "none", "idle" or "active" in sessions.live
          stream,     \* stream[c][x]: how far a request has come
          seen,       \* seen[n][c]: age of c's session on n, or Unknown
          news,       \* news[l]: the picture under way on link l
          since       \* since[c]: age of c's last announcement, or Unknown

sessionsVars == <<control, table, stream, seen, news, since>>

Old == Lifetime + 1      \* any age above the lifetime
Ages == 0..Old
Unknown == Old + 1
NoSessions == [c \in Conns |-> Unknown]

\* Mistake: what has expired counts until it is swept.
CountedUnswept(n, c) == seen[n][c] # Unknown

Counted(n, c) == seen[n][c] <= Lifetime

SessionsInit ==
    /\ control = [c \in Conns |-> "new"]
    /\ table = [c \in Conns |-> "none"]
    /\ stream = [c \in Conns |-> [x \in Streams[c] |-> "new"]]
    /\ seen = [n \in Everyone |-> NoSessions]
    /\ news = [l \in Neighbours |-> NoSessions]
    /\ since = NoSessions

-----------------------------------------------------------------------------
\* serveControl.

Working(n) == {Device[c] : c \in {d \in Conns : Counted(n, d)}}

\* Check: a device that is working already does not count a second time.
Allowed(c) ==
    Limit > 0 /\ Device[c] \notin Working(Host) => Cardinality(Working(Host)) < Limit

Admit(c) ==
    /\ control[c] = "new"
    /\ control' = [control EXCEPT ![c] = IF Allowed(c) THEN "admitted" ELSE "refused"]
    /\ UNCHANGED <<table, stream, seen, news, since>>

\* sessions.add, and then the greeting and the snapshots.
Register(c) ==
    /\ control[c] = "admitted"
    /\ control' = [control EXCEPT ![c] = "serving"]
    /\ table' = [table EXCEPT ![c] = "idle"]
    /\ UNCHANGED <<stream, seen, news, since>>

\* The connection is over: forget takes the entry out under the lock ...
ForgetEntry(c) ==
    /\ control[c] = "serving"
    /\ control' = [control EXCEPT ![c] = IF table[c] = "active" THEN "leaving" ELSE "over"]
    /\ table' = [table EXCEPT ![c] = "none"]
    /\ UNCHANGED <<stream, seen, news, since>>

\* Mistake: the device's sessions go, not the connection's.
SessionDownOfDevice(c) ==
    /\ control[c] = "leaving"
    /\ control' = [control EXCEPT ![c] = "over"]
    /\ seen' = [seen EXCEPT ![Host] =
                  [d \in Conns |-> IF Device[d] = Device[c] THEN Unknown ELSE @[d]]]
    /\ UNCHANGED <<table, stream, news, since>>

\* ... and tells the ledger outside it, if the connection had worked.
SessionDown(c) ==
    /\ control[c] = "leaving"
    /\ control' = [control EXCEPT ![c] = "over"]
    /\ seen' = [seen EXCEPT ![Host][c] = Unknown]
    /\ UNCHANGED <<table, stream, news, since>>

-----------------------------------------------------------------------------
\* serveConnect and serveConnectUDP, as far as markActive.

Comes(c, x, how) == stream' = [stream EXCEPT ![c][x] = how]

Lookup(c, x) ==
    /\ stream[c][x] = "new"
    /\ table[c] # "none"
    /\ Comes(c, x, "known")
    /\ UNCHANGED <<control, table, seen, news, since>>

\* activate: the first request of a connection is to announce it.
Activate(c, x) ==
    /\ stream[c][x] = "known"
    /\ Comes(c, x, IF table[c] = "idle" THEN "first" ELSE "served")
    /\ table' = [table EXCEPT ![c] = IF @ = "idle" THEN "active" ELSE @]
    /\ UNCHANGED <<control, seen, news, since>>

\* SessionUp.
Announce(c, x) ==
    /\ stream[c][x] = "first"
    /\ Comes(c, x, "served")
    /\ seen' = [seen EXCEPT ![Host][c] = 0]
    /\ since' = [since EXCEPT ![c] = 0]
    /\ UNCHANGED <<control, table, news>>

-----------------------------------------------------------------------------
\* The network, and time.

\* Snapshot: all the live sessions the node knows, whosever they are.
Picture(n) == [c \in Conns |-> IF Counted(n, c) THEN seen[n][c] ELSE Unknown]

TellSessions(from, to) ==
    /\ news[<<from, to>>] = NoSessions
    /\ Picture(from) # NoSessions
    /\ news' = [news EXCEPT ![<<from, to>>] = Picture(from)]
    /\ UNCHANGED <<control, table, stream, seen, since>>

\* Mistake: a session is as fresh as the picture it came in.
LaterStamped(ours, theirs) == IF theirs <= Lifetime THEN 0 ELSE ours

\* Of two sightings the later one, and nothing that has expired.
Later(ours, theirs) ==
    IF theirs <= Lifetime /\ theirs < ours THEN theirs ELSE ours

\* Merge: a node is told nothing of its own sessions, and all of them are the
\* host's.
MergeSessions(from, to) ==
    /\ news[<<from, to>>] # NoSessions
    /\ seen' = IF to = Host THEN seen
               ELSE [seen EXCEPT ![to] =
                       [c \in Conns |-> Later(@[c], news[<<from, to>>][c])]]
    /\ news' = [news EXCEPT ![<<from, to>>] = NoSessions]
    /\ UNCHANGED <<control, table, stream, since>>

\* The connection between the nodes breaks.
Lose(from, to) ==
    /\ news[<<from, to>>] # NoSessions
    /\ news' = [news EXCEPT ![<<from, to>>] = NoSessions]
    /\ UNCHANGED <<control, table, stream, seen, since>>

Sweep(n) ==
    /\ \E c \in Conns : seen[n][c] = Old
    /\ seen' = [seen EXCEPT ![n] =
                  [c \in Conns |-> IF @[c] = Old THEN Unknown ELSE @[c]]]
    /\ UNCHANGED <<control, table, stream, news, since>>

Older(ages) == [c \in Conns |-> IF ages[c] < Old THEN ages[c] + 1 ELSE ages[c]]

Tick ==
    /\ seen' = [n \in Everyone |-> Older(seen[n])]
    /\ news' = [l \in Neighbours |-> Older(news[l])]
    /\ since' = Older(since)
    /\ UNCHANGED <<control, table, stream>>

SessionsNext ==
    \/ \E c \in Conns :
          \/ Admit(c) \/ Register(c) \/ ForgetEntry(c) \/ SessionDown(c)
          \/ \E x \in Streams[c] : Lookup(c, x) \/ Activate(c, x) \/ Announce(c, x)
    \/ \E l \in Neighbours :
          \/ TellSessions(l[1], l[2]) \/ MergeSessions(l[1], l[2]) \/ Lose(l[1], l[2])
    \/ \E n \in Everyone : Sweep(n)
    \/ Tick

\* Handlers that have begun go on, and time passes; nobody has to come or go.
SessionsFairness ==
    /\ WF_sessionsVars(Tick)
    /\ \A c \in Conns : WF_sessionsVars(SessionDown(c))
    /\ \A c \in Conns : \A x \in Streams[c] :
          WF_sessionsVars(Activate(c, x) \/ Announce(c, x))

SessionsSpec == SessionsInit /\ [][SessionsNext]_sessionsVars
SessionsFairSpec == SessionsSpec /\ SessionsFairness

-----------------------------------------------------------------------------
SessionsTypeOK ==
    /\ control \in [Conns -> {"new", "admitted", "refused", "serving", "leaving", "over"}]
    /\ table \in [Conns -> {"none", "idle", "active"}]
    /\ DOMAIN stream = Conns
    /\ \A c \in Conns : stream[c] \in [Streams[c] -> {"new", "known", "first", "served"}]
    /\ seen \in [Everyone -> [Conns -> Ages \cup {Unknown}]]
    /\ news \in [Neighbours -> [Conns -> Ages \cup {Unknown}]]
    /\ since \in [Conns -> Ages \cup {Unknown}]

\* A connection that has announced itself within the lifetime and is still
\* there counts on its node, whatever the other connections of the same device
\* do: the losers of a race go without taking the winner's session with them.
WorkingCounts ==
    \A c \in Conns :
        table[c] = "active" /\ since[c] <= Lifetime => Counted(Host, c)

\* Nobody believes a session to be fresher than it is, however often pictures
\* of it are passed on, in a circle of nodes too, how late they come, and
\* whether or not the connection is still there.
SeenIsHonest ==
    \A n \in Everyone, c \in Conns : Counted(n, c) => seen[n][c] >= since[c]

\* A connection that is gone stops counting everywhere, for good: the client
\* gets its place back even if the news of it was late or lost.
GoneIsForgotten ==
    \A c \in Conns :
        control[c] = "over" ~> [](\A n \in Everyone : ~Counted(n, c))

\* SessionDown's comment: the session is removed at once, without waiting for
\* its lifetime to pass.
GoneAtOnce == \A c \in Conns : control[c] = "over" => ~Counted(Host, c)

\* Devices' comment: how many devices of the client are working now.  A device
\* whose connection is open and has served is one of them.
ServingCounts ==
    \A c \in Conns :
        (table[c] = "active" /\ since[c] # Unknown) => Counted(Host, c)
=============================================================================

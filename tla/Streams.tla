------------------------------- MODULE Streams -------------------------------
(***************************************************************************)
(* One stream through the network, from the application to the server and   *)
(* back: the client's splice (internal/client/tun.go, internal/socks), the  *)
(* entry node's serveConnect and serveConnectUDP, the exit it may ask       *)
(* (internal/node), and the meter of the node that opened the outside       *)
(* socket.  Every process copies between two legs, near and far, in two     *)
(* goroutines; a leg has two directions; what ends one of them, and what    *)
(* the process then closes, decides who is left waiting for whom.           *)
(***************************************************************************)
EXTENDS Naturals

CONSTANTS Kinds,       \* of the stream: "tun" and "socks" carry TCP, "udp" datagrams
          Units,       \* bound: pieces each end sends
          FlushEvery,  \* pieces the meter keeps before it hands them in
          MaxBreaks,   \* bound: connections that break under the stream
          MaxSwitches  \* bound: changes of the default route

ASSUME StreamConstants ==
    /\ Kinds \subseteq {"tun", "socks", "udp"}
    /\ Units \in Nat /\ FlushEvery \in Nat \ {0}
    /\ MaxBreaks \in Nat /\ MaxSwitches \in Nat

Nodes == {"entry", "exit"}
Procs == {"client"} \cup Nodes
Legs == {"app", "access", "link", "entryOut", "exitOut"}
Outside == {"entryOut", "exitOut"}
Ways == {"up", "down"}
Routes == {"local", "egress"}
Nothing == "nothing"

VARIABLES kind,      \* what is carried
          fallback,  \* the default route the person has chosen
          want,      \* the route the client asked for
          told,      \* the route the entry named in its answer (Qd-Via)
          state,     \* state[p]: how far the handler of p is
          half,      \* half[<<p, w>>]: the goroutine copying that way
          data,      \* data[<<l, w>>]: pieces under way
          fin,       \* directions their writer has closed
          stop,      \* directions their reader has closed
          gone,      \* the application has closed its socket
          left,      \* left[w]: pieces the end may still send
          tracked,   \* the stream is in the client's register
          breaks, switches,
          pending,   \* pending[n]: pieces in n's meter
          taken,     \* taken[<<n, w>>]: pieces a goroutine is handing in
          counted,   \* pieces in the ledger
          crossed    \* crossed[<<n, w>>]: pieces n passed through an outside socket

meters == <<pending, taken, counted, crossed>>
pipes == <<data, fin, stop>>
person == <<fallback, switches>>
vars == <<kind, fallback, want, told, state, half, data, fin, stop, gone, left,
          tracked, breaks, switches, pending, taken, counted, crossed>>

Init ==
    /\ kind \in Kinds
    /\ fallback \in Routes
    /\ want = Nothing /\ told = Nothing
    /\ state = [p \in Procs |-> "idle"]
    /\ half = [h \in Procs \X Ways |-> "run"]
    /\ data = [d \in Legs \X Ways |-> 0]
    /\ fin = {} /\ stop = {} /\ gone = FALSE
    /\ left = [w \in Ways |-> Units]
    /\ tracked = FALSE
    /\ breaks = 0 /\ switches = 0
    /\ pending = [n \in Nodes |-> 0]
    /\ taken = [h \in Nodes \X Ways |-> 0]
    /\ counted = 0
    /\ crossed = [h \in Nodes \X Ways |-> 0]

-----------------------------------------------------------------------------
\* Legs.

Near(p) == CASE p = "client" -> "app" [] p = "entry" -> "access" [] p = "exit" -> "link"

Far(p) == CASE p = "client" -> "access"
            [] p = "entry" -> IF told = "egress" THEN "link" ELSE "entryOut"
            [] p = "exit" -> "exitOut"

Src(p, w) == <<IF w = "up" THEN Near(p) ELSE Far(p), w>>
Dst(p, w) == <<IF w = "up" THEN Far(p) ELSE Near(p), w>>

\* A process that closes its near leg writes no answer and reads no request.
FinNear(p) == {<<Near(p), "down">>}
FinFar(p) == {<<Far(p), "up">>}
StopNear(p) == {<<Near(p), "up">>}
StopFar(p) == {<<Far(p), "down">>}

Both(l) == {l} \X Ways

Closing(f, s) == [fin |-> f, stop |-> s]
CloseBoth(p) == Closing(FinNear(p) \cup FinFar(p), StopNear(p) \cup StopFar(p))

\* What each splice closes when its copying one way is over.
TunEnds(w) ==
    IF w = "up" THEN Closing(FinNear("client"), StopNear("client")) ELSE Closing({}, {})

SocksEnds(w) ==
    IF w = "up" THEN Closing(FinFar("client"), StopFar("client"))
    ELSE Closing(FinNear("client"), {})

\* Mistake: the node waits for the answer without saying the client is done.
NodeIsSilent(n, w) == Closing({}, {})

NodeEnds(n, w) == IF w = "up" THEN Closing(FinFar(n), {}) ELSE Closing({}, {})

PacketsEnd(p, w) ==
    IF w = "up" THEN CloseBoth(p) ELSE Closing(FinNear(p), StopNear(p))

Ending(p, w) ==
    CASE kind = "udp" -> PacketsEnd(p, w)
      [] kind # "udp" /\ p \in Nodes -> NodeEnds(p, w)
      [] kind = "tun" /\ p = "client" -> TunEnds(w)
      [] kind = "socks" /\ p = "client" -> SocksEnds(w)

-----------------------------------------------------------------------------
\* Opening.

Goes(p, to) == state' = [state EXCEPT ![p] = to]

\* HandleTCP, HandleUDP, opener.Open: the route is decided, the node is asked.
Ask ==
    /\ state["client"] = "idle"
    /\ want' = fallback
    /\ state' = [state EXCEPT !["client"] = "open",
                              !["entry"] = IF fallback = "egress" THEN "pick" ELSE "dial"]
    /\ UNCHANGED <<kind, told, half, gone, left, tracked, breaks>>
    /\ UNCHANGED pipes /\ UNCHANGED meters /\ UNCHANGED person

\* serveViaExit, openPackets: an exit was found and is asked, or there is none.
Pick ==
    /\ state["entry"] = "pick"
    /\ \/ state' = [state EXCEPT !["entry"] = "opening", !["exit"] = "dial"]
       \/ Goes("entry", "dial")
    /\ UNCHANGED <<kind, want, told, half, gone, left, tracked, breaks>>
    /\ UNCHANGED pipes /\ UNCHANGED meters /\ UNCHANGED person

LinkIsUp == <<"link", "up">> \notin stop

\* OpenFor on the entry: the exit's answer, or a fallback to its own socket.
ExitAnswers ==
    /\ state["entry"] = "opening" /\ state["exit"] # "dial"
    /\ IF state["exit"] \in {"splice", "over"} /\ LinkIsUp
       THEN Goes("entry", "splice") /\ told' = "egress"
       ELSE Goes("entry", "dial") /\ told' = told
    /\ UNCHANGED <<kind, want, half, gone, left, tracked, breaks>>
    /\ UNCHANGED pipes /\ UNCHANGED meters /\ UNCHANGED person

\* The answer will not come: the connection to the exit is lost.
ExitIsLost ==
    /\ state["entry"] = "opening" /\ ~LinkIsUp
    /\ Goes("entry", "dial")
    /\ UNCHANGED <<kind, want, told, half, gone, left, tracked, breaks>>
    /\ UNCHANGED pipes /\ UNCHANGED meters /\ UNCHANGED person

\* The client's connection goes meanwhile: OpenFor closes its half of the
\* request and returns; the dial that follows has no context to run in.
Abandon ==
    /\ state["entry"] = "opening" /\ kind # "udp"
    /\ <<"access", "up">> \in stop
    /\ Goes("entry", "refused")
    /\ fin' = fin \cup {<<"link", "up">>} \cup FinNear("entry")
    /\ UNCHANGED <<kind, want, told, half, data, stop, gone, left, tracked, breaks>>
    /\ UNCHANGED meters /\ UNCHANGED person

\* serveDirect and the end of openPackets: the outside socket.
Dial(n) ==
    /\ state[n] = "dial"
    /\ \/ /\ Goes(n, "splice")
          /\ told' = IF n = "entry" THEN "local" ELSE told
          /\ UNCHANGED <<fin, stop>>
       \/ /\ Goes(n, "refused")
          /\ fin' = fin \cup FinNear(n) /\ stop' = stop \cup StopNear(n)
          /\ UNCHANGED told
    /\ UNCHANGED <<kind, want, half, data, gone, left, tracked, breaks>>
    /\ UNCHANGED meters /\ UNCHANGED person

\* OpenVia returns; the stream is entered in the register of the client.
Opened ==
    /\ state["client"] = "open" /\ state["entry"] \in {"splice", "over"}
    /\ <<"access", "up">> \notin stop
    /\ Goes("client", "splice")
    /\ tracked' = (kind # "socks")
    /\ UNCHANGED <<kind, want, told, half, gone, left, breaks>>
    /\ UNCHANGED pipes /\ UNCHANGED meters /\ UNCHANGED person

\* Refused, or the connection is gone: the application's socket is closed.
NotOpened ==
    /\ state["client"] = "open"
    /\ state["entry"] = "refused" \/ <<"access", "up">> \in stop
    /\ Goes("client", "refused")
    /\ fin' = fin \cup FinNear("client") /\ stop' = stop \cup StopNear("client")
    /\ UNCHANGED <<kind, want, told, half, data, gone, left, tracked, breaks>>
    /\ UNCHANGED meters /\ UNCHANGED person

-----------------------------------------------------------------------------
\* Copying.

\* Who counts: the node that opened the outside socket.
\* Mistake: the entry counts what goes through an exit as well.
EveryoneCounts(p) == p \in Nodes

Counts(p) == p \in Nodes /\ Far(p) \in Outside

Copying(p, w) == state[p] = "splice" /\ half[<<p, w>>] = "run"

\* What reaches an end is read there.
Sinks == {<<"app", "down">>} \cup (Outside \X {"up"})

\* A datagram is sent whether or not anybody reads; a stream says when not.
Refuses(d) == d \in fin \/ (d \in stop /\ (kind # "udp" \/ d[1] \in Outside \cup {"app"}))

\* An end that has closed its socket takes no more; one that has closed its
\* half of it does.
MayRefuse(d) ==
    \/ d = <<"app", "down">> /\ <<"app", "up">> \in fin
    \/ d \in Outside \X {"up"} /\ <<d[1], "down">> \in fin

Full(n) == pending[n] + 1 >= FlushEvery

\* One piece is read and written; counter.Write counts what was written.
Move(p, w) ==
    LET s == Src(p, w)
        d == Dst(p, w)
    IN
    /\ Copying(p, w) /\ data[s] > 0 /\ s \notin stop /\ ~Refuses(d)
    /\ data' = [data EXCEPT ![s] = @ - 1, ![d] = IF d \in stop \cup Sinks THEN @ ELSE @ + 1]
    /\ IF Counts(p)
       THEN /\ pending' = [pending EXCEPT ![p] = @ + 1]
            /\ half' = IF Full(p) THEN [half EXCEPT ![<<p, w>>] = "full"] ELSE half
       ELSE UNCHANGED <<pending, half>>
    /\ crossed' = IF Far(p) \in Outside THEN [crossed EXCEPT ![<<p, w>>] = @ + 1]
                  ELSE crossed
    /\ UNCHANGED <<kind, want, told, state, fin, stop, gone, left, tracked, breaks,
                   taken, counted>>
    /\ UNCHANGED person

\* meter.flush, by the goroutine that found the meter full: take under the
\* lock, hand in outside it.
Take(n, w) ==
    /\ half[<<n, w>>] = "full"
    /\ taken' = [taken EXCEPT ![<<n, w>>] = pending[n]]
    /\ pending' = [pending EXCEPT ![n] = 0]
    /\ half' = [half EXCEPT ![<<n, w>>] = "counting"]
    /\ UNCHANGED <<kind, want, told, state, gone, left, tracked, breaks, counted, crossed>>
    /\ UNCHANGED pipes /\ UNCHANGED person

Count(n, w) ==
    /\ half[<<n, w>>] = "counting"
    /\ counted' = counted + taken[<<n, w>>]
    /\ taken' = [taken EXCEPT ![<<n, w>>] = 0]
    /\ half' = [half EXCEPT ![<<n, w>>] = "run"]
    /\ UNCHANGED <<kind, want, told, state, gone, left, tracked, breaks, pending, crossed>>
    /\ UNCHANGED pipes /\ UNCHANGED person

\* The copying of one direction is over: nothing more to read, or nobody to
\* write to.  The watcher of a datagram stream ends the reading at once.
HalfEnds(p, w) ==
    LET s == Src(p, w)
        d == Dst(p, w)
    IN
    /\ Copying(p, w)
    /\ \/ s \in stop
       \/ s \in fin /\ (data[s] = 0 \/ kind = "udp")
       \/ data[s] > 0 /\ (Refuses(d) \/ MayRefuse(d))
    /\ half' = [half EXCEPT ![<<p, w>>] = "done"]
    /\ fin' = fin \cup Ending(p, w).fin
    /\ stop' = stop \cup Ending(p, w).stop
    /\ UNCHANGED <<kind, want, told, state, data, gone, left, tracked, breaks>>
    /\ UNCHANGED meters /\ UNCHANGED person

\* socketPackets: a minute without a datagram on the outside socket.
\* Mistake: the outside socket waits for ever.
NoIdle(n) == FALSE

Idle(n) ==
    /\ kind = "udp" /\ Copying(n, "down") /\ Far(n) \in Outside
    /\ data[<<Far(n), "down">>] = 0
    /\ half' = [half EXCEPT ![<<n, "down">>] = "done"]
    /\ fin' = fin \cup Ending(n, "down").fin
    /\ stop' = stop \cup Ending(n, "down").stop
    /\ UNCHANGED <<kind, want, told, state, data, gone, left, tracked, breaks>>
    /\ UNCHANGED meters /\ UNCHANGED person

\* Both goroutines are done: the last flush, and the deferred Close of both
\* legs.  Mistake: what is left in the meter goes with the stream.
FinishUncounted(p) ==
    /\ state[p] = "splice" /\ \A w \in Ways : half[<<p, w>>] = "done"
    /\ Goes(p, "over")
    /\ fin' = fin \cup CloseBoth(p).fin
    /\ stop' = stop \cup CloseBoth(p).stop
    /\ tracked' = (tracked /\ p # "client")
    /\ UNCHANGED <<kind, want, told, half, data, gone, left, breaks>>
    /\ UNCHANGED meters /\ UNCHANGED person

Finish(p) ==
    /\ state[p] = "splice" /\ \A w \in Ways : half[<<p, w>>] = "done"
    /\ Goes(p, "over")
    /\ fin' = fin \cup CloseBoth(p).fin
    /\ stop' = stop \cup CloseBoth(p).stop
    /\ tracked' = (tracked /\ p # "client")
    /\ IF Counts(p)
       THEN /\ counted' = counted + pending[p]
            /\ pending' = [pending EXCEPT ![p] = 0]
       ELSE UNCHANGED <<counted, pending>>
    /\ UNCHANGED <<kind, want, told, half, data, gone, left, breaks, taken, crossed>>
    /\ UNCHANGED person

-----------------------------------------------------------------------------
\* The two ends, the person and the network.

AppSends ==
    /\ left["up"] > 0 /\ ~gone /\ state["client"] \in {"open", "splice"}
    /\ <<"app", "up">> \notin fin \cup stop
    /\ data' = [data EXCEPT ![<<"app", "up">>] = @ + 1]
    /\ left' = [left EXCEPT !["up"] = @ - 1]
    /\ UNCHANGED <<kind, want, told, state, half, fin, stop, gone, tracked, breaks>>
    /\ UNCHANGED meters /\ UNCHANGED person

\* It closes its socket, or its half of it: the stream cannot tell, unless it
\* writes.  A closed UDP socket tells nobody.
AppCloses ==
    /\ ~gone /\ state["client"] \in {"open", "splice"}
    /\ gone' = TRUE
    /\ fin' = IF kind = "udp" THEN fin ELSE fin \cup {<<"app", "up">>}
    /\ UNCHANGED <<kind, want, told, state, half, data, stop, left, tracked, breaks>>
    /\ UNCHANGED meters /\ UNCHANGED person

Connected(n) ==
    state[n] = "splice" /\ (n = "entry" => told = "local")

OutOf(n) == IF n = "entry" THEN "entryOut" ELSE "exitOut"

RemoteSends(n) ==
    LET d == <<OutOf(n), "down">> IN
    /\ Connected(n) /\ left["down"] > 0 /\ d \notin fin \cup stop
    /\ data' = [data EXCEPT ![d] = @ + 1]
    /\ left' = [left EXCEPT !["down"] = @ - 1]
    /\ UNCHANGED <<kind, want, told, state, half, fin, stop, gone, tracked, breaks>>
    /\ UNCHANGED meters /\ UNCHANGED person

\* The server ends its answer, or closes its socket.
RemoteCloses(n) ==
    LET d == <<OutOf(n), "down">> IN
    /\ kind # "udp" /\ Connected(n) /\ d \notin fin
    /\ fin' = fin \cup {d}
    /\ UNCHANGED <<kind, want, told, state, half, data, stop, gone, left, tracked, breaks>>
    /\ UNCHANGED meters /\ UNCHANGED person

Finished(p) == state[p] \in {"idle", "over", "refused"}

\* A QUIC connection is lost, with every stream on it.
Break(l) ==
    /\ breaks < MaxBreaks
    /\ ~Finished(IF l = "access" THEN "client" ELSE "exit")
    /\ <<l, "up">> \notin stop
    /\ breaks' = breaks + 1
    /\ fin' = fin \cup Both(l) /\ stop' = stop \cup Both(l)
    /\ data' = [d \in DOMAIN data |-> IF d[1] = l THEN 0 ELSE data[d]]
    /\ UNCHANGED <<kind, want, told, state, half, gone, left, tracked>>
    /\ UNCHANGED meters /\ UNCHANGED person

\* A datagram is lost between the client and its node.
Lose(w) ==
    /\ kind = "udp" /\ data[<<"access", w>>] > 0
    /\ data' = [data EXCEPT ![<<"access", w>>] = @ - 1]
    /\ UNCHANGED <<kind, want, told, state, half, fin, stop, gone, left, tracked, breaks>>
    /\ UNCHANGED meters /\ UNCHANGED person

\* Control.SetViaExit: the default changes, then what is registered is closed,
\* both halves of it; what came through SOCKS is not registered and stays.
\* Mistake: only the remote half.
SwitchRemote ==
    /\ kind # "socks" /\ switches < MaxSwitches
    /\ state["client"] \in {"open", "splice"}
    /\ switches' = switches + 1
    /\ fallback' \in Routes \ {fallback}
    /\ tracked' = FALSE
    /\ IF tracked
       THEN fin' = fin \cup FinFar("client") /\ stop' = stop \cup StopFar("client")
       ELSE UNCHANGED <<fin, stop>>
    /\ UNCHANGED <<kind, want, told, state, half, data, gone, left, breaks>>
    /\ UNCHANGED meters

Switch ==
    /\ kind # "socks" /\ switches < MaxSwitches
    /\ state["client"] \in {"open", "splice"}
    /\ switches' = switches + 1
    /\ fallback' \in Routes \ {fallback}
    /\ tracked' = FALSE
    /\ IF tracked
       THEN /\ fin' = fin \cup CloseBoth("client").fin
            /\ stop' = stop \cup CloseBoth("client").stop
       ELSE UNCHANGED <<fin, stop>>
    /\ UNCHANGED <<kind, want, told, state, half, data, gone, left, breaks>>
    /\ UNCHANGED meters

-----------------------------------------------------------------------------
Handler(p) == Finish(p) \/ \E w \in Ways : Move(p, w) \/ HalfEnds(p, w)
Meter(n) == \E w \in Ways : Take(n, w) \/ Count(n, w)
Opening == Ask \/ Pick \/ ExitAnswers \/ ExitIsLost \/ Abandon \/ Opened \/ NotOpened

Next ==
    \/ Opening
    \/ \E n \in Nodes : Dial(n) \/ Meter(n) \/ Idle(n) \/ RemoteSends(n) \/ RemoteCloses(n)
    \/ \E p \in Procs : Handler(p)
    \/ AppSends \/ AppCloses
    \/ \E l \in {"access", "link"} : Break(l)
    \/ \E w \in Ways : Lose(w)
    \/ Switch

\* The goroutines run, a dial succeeds or times out, silence lasts a minute in
\* the end, and a server that was told the client is done closes too: that is
\* what the node's splice counts on.  Ends and network are free otherwise.
Answers(n) == <<OutOf(n), "up">> \in fin /\ RemoteCloses(n)

Fairness ==
    /\ WF_vars(Pick) /\ WF_vars(ExitAnswers) /\ WF_vars(ExitIsLost) /\ WF_vars(Abandon)
    /\ WF_vars(Opened) /\ WF_vars(NotOpened)
    /\ \A n \in Nodes : WF_vars(Dial(n)) /\ WF_vars(Meter(n)) /\ WF_vars(Idle(n))
                        /\ WF_vars(Answers(n))
    /\ \A p \in Procs : \A w \in Ways : WF_vars(Move(p, w) \/ HalfEnds(p, w))
    /\ \A p \in Procs : WF_vars(Finish(p))

Spec == Init /\ [][Next]_vars
FairSpec == Spec /\ Fairness

-----------------------------------------------------------------------------
TypeOK ==
    /\ state \in [Procs -> {"idle", "pick", "opening", "dial", "open", "splice",
                            "over", "refused"}]
    /\ half \in [Procs \X Ways -> {"run", "full", "counting", "done"}]
    /\ fin \subseteq Legs \X Ways /\ stop \subseteq Legs \X Ways
    /\ data \in [Legs \X Ways -> 0..Units]
    /\ \A n \in Nodes : pending[n] <= 2 * Units

\* One number for each goroutine of a node, and all of them together.
InAll(f) == f[<<"entry", "up">>] + f[<<"entry", "down">>]
            + f[<<"exit", "up">>] + f[<<"exit", "down">>]

Passed == InAll(crossed)
InHands == pending["entry"] + pending["exit"] + InAll(taken)

Carried == counted + InHands = Passed
NothingKept ==
    \A n \in Nodes : state[n] \in {"over", "refused"} =>
        pending[n] = 0 /\ \A w \in Ways : taken[<<n, w>>] = 0

\* Every byte that passed an outside socket is in the ledger, in a meter or on
\* its way between the two, once: whoever opened the socket, whichever of the
\* two goroutines found the meter full, whether or not the entry fell back
\* (connect.go: the entry counts nothing that an exit counts).  A node that has
\* closed a stream keeps none of its bytes to itself.
EveryByteOnce == Carried /\ NothingKept

AllFinished == \A p \in Procs : Finished(p)

\* When the client has closed its stream, no node keeps a socket or a goroutine
\* for it, through however many nodes it went and whatever broke under it.
NobodyIsLeft == Finished("client") /\ state["client"] # "idle" ~> AllFinished

\* An application that goes takes its stream with it: through SOCKS because
\* the stream is closed, with datagrams because silence ends the socket.
GoesWithTheApp == kind # "tun" /\ gone ~> AllFinished

\* A stream the person's change of the route has cut ends everywhere, both
\* halves of it (streams.go: one half left open would hold a goroutine).
Cut == kind # "socks" /\ state["client"] = "splice" /\ ~tracked
CutIsOver == Cut ~> AllFinished

\* The bytes go both ways until one of the ways ends (the comment of splice, of
\* the node's and of the client's): at the latest when both ends have closed.
EndsAreEnough ==
    (gone /\ \E n \in Nodes : Connected(n) /\ <<OutOf(n), "down">> \in fin) ~> AllFinished

\* After a change of the route, what is open goes by the new one (streams.go:
\* the person sees exactly what he has chosen).
FollowsTheSwitch == state["client"] = "splice" /\ tracked => want = fallback

\* An application that half-closes still gets its answer (open.go: one cannot
\* do without half-closing).
AnswerIsHeard ==
    state["client"] = "splice" /\ tracked /\ <<"app", "down">> \in fin
        => \E n \in Nodes : <<OutOf(n), "down">> \in fin
=============================================================================

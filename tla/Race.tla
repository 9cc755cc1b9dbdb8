-------------------------------- MODULE Race --------------------------------
(***************************************************************************)
(* The race for an exit: race.Runner on the entry node, race.Responder and *)
(* Mesh.OnRace on the others, Mesh.Pick and serveViaExit around them.      *)
(* Offers and answers are datagrams: each may be lost, overtaken, or come  *)
(* when the race is long over.  Several streams race at once over the same *)
(* channels and the same table of pending races.                           *)
(***************************************************************************)
EXTENDS Naturals, Sequences, FiniteSets

CONSTANTS Flows,      \* streams of clients that ask for an exit
          Peers       \* neighbours with the role of an exit, in our journal

VARIABLES flow,       \* flow[f]: where serveViaExit is with it
          linked,     \* peers with a live link
          ask,        \* ask[f]: channels Run has still to send the offer on
          sent,       \* sent[f]: peers it has sent the offer to
          pending,    \* Runner.pending
          room,       \* room[f]: capacity of the channel of replies
          replies,    \* replies[f]: answers Run has not taken yet
          passes,     \* passes[f]: refusals it has taken
          winner,     \* winner[f]: whom Run returned, or Nobody
          wire,       \* datagrams under way
          said        \* said[f]: the answers that were really given

raceVars == <<flow, linked, ask, sent, pending, room, replies, passes, winner, wire, said>>

Nobody == "nobody"
Pass == ""

Datagram(kind, f, p) == [kind |-> kind, flow |-> f, peer |-> p]

RaceInit ==
    /\ flow = [f \in Flows |-> "new"]
    /\ linked = Peers
    /\ ask = [f \in Flows |-> {}] /\ sent = [f \in Flows |-> {}]
    /\ pending = {}
    /\ room = [f \in Flows |-> 0]
    /\ replies = [f \in Flows |-> <<>>] /\ passes = [f \in Flows |-> 0]
    /\ winner = [f \in Flows |-> Nobody]
    /\ wire = {} /\ said = [f \in Flows |-> {}]

Becomes(f, how) == flow' = [flow EXCEPT ![f] = how]

\* Run returns: its deferred function takes the race out of the table.
Returns(f, how) == Becomes(f, how) /\ pending' = pending \ {f}

-----------------------------------------------------------------------------
\* Pick and Run.

\* The live exits of this moment; a channel of replies with room for them all.
Start(f) ==
    /\ flow[f] = "new"
    /\ Becomes(f, "asking")
    /\ ask' = [ask EXCEPT ![f] = linked]
    /\ room' = [room EXCEPT ![f] = Cardinality(linked)]
    /\ pending' = pending \cup {f}
    /\ UNCHANGED <<linked, sent, replies, passes, winner, wire, said>>

\* One offer: it goes out, or the channel fails and the peer is left out.
Ask(f, p) ==
    /\ flow[f] = "asking" /\ p \in ask[f]
    /\ ask' = [ask EXCEPT ![f] = @ \ {p}]
    /\ \/ /\ p \in linked
          /\ wire' = wire \cup {Datagram("offer", f, p)}
          /\ sent' = [sent EXCEPT ![f] = @ \cup {p}]
       \/ /\ p \notin linked
          /\ UNCHANGED <<wire, sent>>
    /\ UNCHANGED <<flow, linked, pending, room, replies, passes, winner, said>>

Asked(f) ==
    /\ flow[f] = "asking" /\ ask[f] = {}
    /\ IF sent[f] = {} THEN Returns(f, "refused")
       ELSE Becomes(f, "waiting") /\ UNCHANGED pending
    /\ UNCHANGED <<linked, ask, sent, room, replies, passes, winner, wire, said>>

AllPassed(f) == passes[f] + 1 >= Cardinality(sent[f])

TakeReply(f) ==
    /\ flow[f] = "waiting" /\ replies[f] # <<>>
    /\ replies' = [replies EXCEPT ![f] = Tail(@)]
    /\ LET from == Head(replies[f]) IN
       IF from # Pass
       THEN Returns(f, "picked") /\ winner' = [winner EXCEPT ![f] = from] /\ UNCHANGED passes
       ELSE /\ passes' = [passes EXCEPT ![f] = @ + 1]
            /\ UNCHANGED winner
            /\ IF AllPassed(f) THEN Returns(f, "refused") ELSE UNCHANGED <<flow, pending>>
    /\ UNCHANGED <<linked, ask, sent, room, wire, said>>

\* Half a second is over.
Timeout(f) ==
    /\ flow[f] = "waiting"
    /\ Returns(f, "silence")
    /\ UNCHANGED <<linked, ask, sent, room, replies, passes, winner, wire, said>>

\* The client has gone: its context ends the race.
ClientGone(f) ==
    /\ flow[f] = "waiting"
    /\ Returns(f, "gone")
    /\ UNCHANGED <<linked, ask, sent, room, replies, passes, winner, wire, said>>

\* exit.Open, which fails if the link is gone; then, as when nobody took it,
\* the stream leaves by the entry node itself.
OpenExit(f) ==
    /\ flow[f] = "picked"
    /\ Becomes(f, IF winner[f] \in linked THEN "by exit" ELSE "local")
    /\ UNCHANGED <<linked, ask, sent, pending, room, replies, passes, winner, wire, said>>

\* Mistake: silence is not taken for a refusal.
GoLocalRefused(f) ==
    /\ flow[f] = "refused"
    /\ Becomes(f, "local")
    /\ UNCHANGED <<linked, ask, sent, pending, room, replies, passes, winner, wire, said>>

GoLocal(f) ==
    /\ flow[f] \in {"refused", "silence"}
    /\ Becomes(f, "local")
    /\ UNCHANGED <<linked, ask, sent, pending, room, replies, passes, winner, wire, said>>

-----------------------------------------------------------------------------
\* The peers, and the answers.

\* OnRace with an offer: take, or pass if the peer's journal does not call it
\* an exit or it can take no more.
Answer(d, kind) ==
    /\ d \in wire /\ d.kind = "offer"
    /\ wire' = (wire \ {d}) \cup {Datagram(kind, d.flow, d.peer)}
    /\ said' = [said EXCEPT ![d.flow] = @ \cup {<<d.peer, kind>>}]
    /\ UNCHANGED <<flow, linked, ask, sent, pending, room, replies, passes, winner>>

\* Mistake: whoever answers is taken to have agreed.
ReplyTakes(d) ==
    /\ d \in wire /\ d.kind \in {"take", "pass"}
    /\ wire' = wire \ {d}
    /\ replies' =
         IF d.flow \in pending /\ Len(replies[d.flow]) < room[d.flow]
         THEN [replies EXCEPT ![d.flow] = Append(@, d.peer)]
         ELSE replies
    /\ UNCHANGED <<flow, linked, ask, sent, pending, room, passes, winner, said>>

\* Reply: a race that is over is not in the table any more.
Reply(d) ==
    /\ d \in wire /\ d.kind \in {"take", "pass"}
    /\ wire' = wire \ {d}
    /\ replies' =
         IF d.flow \in pending /\ Len(replies[d.flow]) < room[d.flow]
         THEN [replies EXCEPT ![d.flow] =
                 Append(@, IF d.kind = "take" THEN d.peer ELSE Pass)]
         ELSE replies
    /\ UNCHANGED <<flow, linked, ask, sent, pending, room, passes, winner, said>>

Lose(d) ==
    /\ d \in wire
    /\ wire' = wire \ {d}
    /\ UNCHANGED <<flow, linked, ask, sent, pending, room, replies, passes, winner, said>>

\* The link breaks, with the datagrams on it.
LinkBreaks(p) ==
    /\ p \in linked
    /\ linked' = linked \ {p}
    /\ wire' = {d \in wire : d.peer # p}
    /\ UNCHANGED <<flow, ask, sent, pending, room, replies, passes, winner, said>>

RaceNext ==
    \/ \E f \in Flows :
          \/ Start(f) \/ (\E p \in Peers : Ask(f, p)) \/ Asked(f)
          \/ TakeReply(f) \/ Timeout(f) \/ ClientGone(f) \/ OpenExit(f) \/ GoLocal(f)
    \/ \E d \in wire : Reply(d) \/ Lose(d) \/ (\E kind \in {"take", "pass"} : Answer(d, kind))
    \/ \E p \in Peers : LinkBreaks(p)

\* The entry node's goroutine runs and its timer fires; nobody has to answer.
RaceFairness ==
    \A f \in Flows :
        /\ WF_raceVars((\E p \in Peers : Ask(f, p)) \/ Asked(f))
        /\ WF_raceVars(TakeReply(f) \/ Timeout(f))
        /\ WF_raceVars(OpenExit(f) \/ GoLocal(f))

RaceSpec == RaceInit /\ [][RaceNext]_raceVars
RaceFairSpec == RaceSpec /\ RaceFairness

-----------------------------------------------------------------------------
RaceTypeOK ==
    /\ flow \in [Flows -> {"new", "asking", "waiting", "picked", "refused",
                           "silence", "gone", "by exit", "local"}]
    /\ linked \subseteq Peers /\ pending \subseteq Flows
    /\ \A f \in Flows : ask[f] \subseteq Peers /\ sent[f] \subseteq Peers
                          /\ winner[f] \in Peers \cup {Nobody}

\* A stream goes to an exit that was asked about this very stream and took it,
\* however late or in whatever order the answers of several races come in.
WinnerTook ==
    \A f \in Flows : winner[f] # Nobody => <<winner[f], "take">> \in said[f]

\* "All have refused" is said when all that were asked have refused: a race is
\* not given up while somebody may still take it.
GivenUpByAll ==
    \A f \in Flows :
        flow[f] = "refused" => \A p \in sent[f] : <<p, "pass">> \in said[f]

\* An answer to a race under way always finds room (Reply drops it otherwise,
\* and Run would wait for it in vain).
AnswersFit ==
    \A d \in wire :
        d.kind # "offer" /\ d.flow \in pending => Len(replies[d.flow]) < room[d.flow]

\* Unless the client leaves, its stream goes out, by an exit or by the entry
\* node: silence and refusals never leave it hanging.
StreamGoesOut ==
    \A f \in Flows :
        flow[f] = "asking" ~> flow[f] \in {"by exit", "local", "gone"}
=============================================================================

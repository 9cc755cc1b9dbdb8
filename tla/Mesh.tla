-------------------------------- MODULE Mesh --------------------------------
(***************************************************************************)
(* The links one node keeps to its neighbours: internal/mesh, Run, review, *)
(* keep, serve, exchangeLoop and the list of live links the race chooses   *)
(* from; and the links neighbours raise to it (Accept).  Every link has a  *)
(* goroutine of its own, started by a review with the record the journal   *)
(* had then, and cancelled by a later one.  What is exchanged on a link is *)
(* SyncSession's business, whom a race picks is Race's.                    *)
(***************************************************************************)
EXTENDS Naturals, Sequences

CONSTANTS Neighbours,   \* ids of the other nodes
          Places,       \* endpoints and keys a neighbour may be recorded with
          MaxEdits,     \* bound: records about neighbours that arrive
          MaxBreaks     \* bound: connections that break

ASSUME MeshConstants == MaxEdits \in Nat /\ MaxBreaks \in Nat

VARIABLES rec,       \* rec[i]: the journal's record of neighbour i, or Absent
          where,     \* where[i]: the place neighbour i answers at
          keepers,   \* keepers[i]: the goroutines ever started for i
          links,     \* links[i]: which of them holds the link, or None
          live,      \* live[i]: the one whose connection races may use, or None
          late,      \* late[i]: a cancelled goroutine was the last to enter itself in live
          inbound,   \* inbound[i]: i has raised a link to us
          edits, breaks

vars == <<rec, where, keepers, links, live, late, inbound, edits, breaks>>

Absent == <<>>
None == 0
Records == [egress : BOOLEAN, place : Places]

Init ==
    /\ rec = [i \in Neighbours |-> Absent]
    /\ where \in [Neighbours -> Places]
    /\ keepers = [i \in Neighbours |-> <<>>]
    /\ links = [i \in Neighbours |-> None]
    /\ live = [i \in Neighbours |-> None]
    /\ late = [i \in Neighbours |-> FALSE]
    /\ inbound = [i \in Neighbours |-> FALSE]
    /\ edits = 0 /\ breaks = 0

-----------------------------------------------------------------------------
\* The journal: a neighbour is added, changed or revoked.  The owner writes
\* down where the neighbour is.
Record(i, r) ==
    /\ edits < MaxEdits
    /\ r # rec[i]
    /\ rec' = [rec EXCEPT ![i] = r]
    /\ where' = IF r = Absent THEN where ELSE [where EXCEPT ![i] = r.place]
    /\ edits' = edits + 1
    /\ UNCHANGED <<keepers, links, live, late, inbound, breaks>>

-----------------------------------------------------------------------------
\* review: every neighbour of the journal has a link, and nobody else.

Starting(node) == [node |-> node, cancelled |-> FALSE, stage |-> "dialling"]

\* Mistake: the review only adds.
LeavingNobody == {}

Leaving == {i \in Neighbours : links[i] # None /\ rec[i] = Absent}
Joining == {i \in Neighbours : links[i] = None /\ rec[i] # Absent}

Review ==
    /\ Leaving \cup Joining # {}
    /\ keepers' =
         [i \in Neighbours |->
            IF i \in Leaving THEN [keepers[i] EXCEPT ![links[i]].cancelled = TRUE]
            ELSE IF i \in Joining THEN Append(keepers[i], Starting(rec[i]))
            ELSE keepers[i]]
    /\ links' =
         [i \in Neighbours |->
            IF i \in Leaving THEN None
            ELSE IF i \in Joining THEN Len(keepers[i]) + 1
            ELSE links[i]]
    /\ UNCHANGED <<rec, where, live, late, inbound, edits, breaks>>

-----------------------------------------------------------------------------
\* keep, serve, exchangeLoop of goroutine k for neighbour i.

Goes(i, k, stage) == keepers' = [keepers EXCEPT ![i][k].stage = stage]

\* dial and greet: the greeting does not look at the context, but the opening of
\* the stream after it does.
Connect(i, k) ==
    /\ keepers[i][k].stage = "dialling" /\ ~keepers[i][k].cancelled
    /\ keepers[i][k].node.place = where[i]
    /\ Goes(i, k, "opening")
    /\ UNCHANGED <<rec, where, links, live, late, inbound, edits, breaks>>

\* OpenRace has its answer: addLive, whoever was there before and whether or not
\* we have been cancelled in the meantime.
AddLive(i, k) ==
    /\ keepers[i][k].stage = "opening"
    /\ Goes(i, k, "exchanging")
    /\ live' = [live EXCEPT ![i] = k]
    /\ late' = [late EXCEPT ![i] = keepers[i][k].cancelled]
    /\ UNCHANGED <<rec, where, links, inbound, edits, breaks>>

\* Mistake: one failure and the goroutine is gone.
AfterFailureEnds(i, k) == "ended"

\* keep looks at its context after every attempt.
AfterFailure(i, k) == IF keepers[i][k].cancelled THEN "ended" ELSE "pausing"

DialFails(i, k) ==
    /\ keepers[i][k].stage = "dialling"
    /\ keepers[i][k].node.place # where[i] \/ keepers[i][k].cancelled
    /\ Goes(i, k, AfterFailure(i, k))
    /\ UNCHANGED <<rec, where, links, live, late, inbound, edits, breaks>>

\* The race channel is refused, or the connection breaks before it is open.
OpenFails(i, k) ==
    /\ keepers[i][k].stage = "opening"
    /\ breaks < MaxBreaks
    /\ Goes(i, k, AfterFailure(i, k))
    /\ breaks' = breaks + 1
    /\ UNCHANGED <<rec, where, links, live, late, inbound, edits>>

\* A round of exchange is over; the next one begins with the ticker.
Exchanged(i, k) ==
    /\ keepers[i][k].stage = "exchanging"
    /\ Goes(i, k, "waiting")
    /\ UNCHANGED <<rec, where, links, live, late, inbound, edits, breaks>>

Tick(i, k) ==
    /\ keepers[i][k].stage = "waiting" /\ ~keepers[i][k].cancelled
    /\ Goes(i, k, "exchanging")
    /\ UNCHANGED <<rec, where, links, live, late, inbound, edits, breaks>>

\* Mistake: the entry is taken out whoever it belongs to.
ForgetAny(i, k) == live' = [live EXCEPT ![i] = None]

\* defer forget(): only our own entry is taken out.
Forget(i, k) == live' = IF live[i] = k THEN [live EXCEPT ![i] = None] ELSE live

\* The context is looked at between two rounds only.
NoticesCancel(i, k) ==
    /\ keepers[i][k].stage \in {"waiting", "pausing"} /\ keepers[i][k].cancelled
    /\ Goes(i, k, "ended")
    /\ Forget(i, k)
    /\ UNCHANGED <<rec, where, links, late, inbound, edits, breaks>>

\* The connection dies, during an exchange or between two.
Breaks(i, k) ==
    /\ keepers[i][k].stage \in {"exchanging", "waiting"}
    /\ breaks < MaxBreaks
    /\ Goes(i, k, "lost")
    /\ breaks' = breaks + 1
    /\ UNCHANGED <<rec, where, links, live, late, inbound, edits>>

\* Nobody has been told: it is the exchange that fails, the one under way or the
\* ticker's next, and only then the entry is taken out.
ExchangeFails(i, k) ==
    /\ keepers[i][k].stage = "lost"
    /\ Goes(i, k, AfterFailure(i, k))
    /\ Forget(i, k)
    /\ UNCHANGED <<rec, where, links, late, inbound, edits, breaks>>

\* time.After: dial again, with the record the goroutine was started with.
Retry(i, k) ==
    /\ keepers[i][k].stage = "pausing" /\ ~keepers[i][k].cancelled
    /\ Goes(i, k, "dialling")
    /\ UNCHANGED <<rec, where, links, live, late, inbound, edits, breaks>>

-----------------------------------------------------------------------------
\* Accept: a neighbour the journal knows raises a link; its rounds go on until
\* it leaves or an exchange fails.
Accept(i) ==
    /\ rec[i] # Absent /\ ~inbound[i]
    /\ inbound' = [inbound EXCEPT ![i] = TRUE]
    /\ UNCHANGED <<rec, where, keepers, links, live, late, edits, breaks>>

InboundEnds(i) ==
    /\ inbound[i]
    /\ breaks < MaxBreaks
    /\ inbound' = [inbound EXCEPT ![i] = FALSE]
    /\ breaks' = breaks + 1
    /\ UNCHANGED <<rec, where, keepers, links, live, late, edits>>

Keeps(i, k) ==
    \/ Connect(i, k) \/ DialFails(i, k) \/ AddLive(i, k) \/ Exchanged(i, k)
    \/ ExchangeFails(i, k) \/ NoticesCancel(i, k) \/ Retry(i, k)

Next ==
    \/ Review
    \/ \E i \in Neighbours :
          \/ \E r \in Records \cup {Absent} : Record(i, r)
          \/ \E k \in 1..Len(keepers[i]) : Keeps(i, k) \/ Tick(i, k) \/ Breaks(i, k) \/ OpenFails(i, k)
          \/ Accept(i) \/ InboundEnds(i)

\* The review ticker, the retry pause, dialling and the opening of the race
\* channel always come to an end, and so does an exchange (SyncSession,
\* EverybodyGoesHome); on a dead connection it fails.  Nobody is bound to edit,
\* and no connection to break.
Fairness ==
    /\ WF_vars(Review)
    /\ \A i \in Neighbours, k \in 1..(MaxEdits + 1) :
          WF_vars(k <= Len(keepers[i]) /\ Keeps(i, k))

Spec == Init /\ [][Next]_vars
FairSpec == Spec /\ Fairness

-----------------------------------------------------------------------------
\* The connection is up; or nobody here has noticed yet that it is not.
Connected(i, k) == keepers[i][k].stage \in {"exchanging", "waiting"}
Held(i, k) == keepers[i][k].stage \in {"exchanging", "waiting", "lost"}

TypeOK ==
    /\ rec \in [Neighbours -> Records \cup {Absent}]
    /\ \A i \in Neighbours :
         /\ links[i] \in 0..Len(keepers[i]) /\ live[i] \in 0..Len(keepers[i])
         /\ \A k \in 1..Len(keepers[i]) :
              /\ keepers[i][k].node \in Records
              /\ keepers[i][k].stage \in {"dialling", "opening", "exchanging", "waiting",
                                           "lost", "pausing", "ended"}
         /\ late[i] \in BOOLEAN
    /\ edits \in 0..MaxEdits /\ breaks \in 0..MaxBreaks

\* A race is never offered a connection that its goroutine has given up, and is
\* offered the link that is wanted whenever that is held: through revocations and
\* re-additions in quick succession, a goroutine on its way out leaves its
\* successor's entry alone (addLive's cur == l), unless it was late in entering
\* its own over it.
LiveIsServed ==
    \A i \in Neighbours :
        /\ live[i] # None => Held(i, live[i])
        /\ links[i] # None /\ Held(i, links[i]) /\ ~late[i] => live[i] = links[i]

\* exits.go: a link is fit for races when it has a connection and an open channel;
\* a silent participant is worse than an absent one.  Every entry would be up.
LiveIsUp == \A i \in Neighbours : live[i] # None => Connected(i, live[i])

\* addLive enters the established link with the neighbour: whenever the link that
\* is wanted is up, it would be the one in the list.
LinkIsOffered ==
    \A i \in Neighbours :
        links[i] # None /\ Connected(i, links[i]) => live[i] = links[i]

\* A revoked node loses the link we raised (review's comment: revocation must
\* take effect, not wait for the next break).
OutboundIsCut ==
    \A i \in Neighbours : rec[i] = Absent ~> (rec[i] # Absent \/ live[i] = None)

\* The same of the link the revoked node raised itself.
RevokedIsCut ==
    \A i \in Neighbours : rec[i] = Absent ~> (rec[i] # Absent \/ ~inbound[i])

\* A node that is added appears by itself, and stays linked by a connection that
\* is up (reviewPeriod), unless it was moved under a link that is dialled with the
\* older record, or a cancelled goroutine entered itself over the new link.
Moved(i) == links[i] # None /\ keepers[i][links[i]].node.place # where[i]
Linked(i) == live[i] # None /\ Connected(i, live[i])
AddedIsLinked ==
    \A i \in Neighbours :
        (rec[i] # Absent) ~> (rec[i] = Absent \/ Linked(i) \/ Moved(i) \/ late[i])

\* Races choose by the roles the journal gives: once edits cease, the list of
\* live links has the roles of the journal (payload.go: a role changes on the
\* fly, without loss of sessions).
RolesAreFollowed ==
    \A i \in Neighbours :
        <>[](rec[i] # Absent /\ live[i] # None
               => keepers[i][live[i]].node.egress = rec[i].egress)
=============================================================================

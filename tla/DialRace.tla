------------------------------ MODULE DialRace ------------------------------
(***************************************************************************)
(* The race of greetings: node.DialRace knocks at every endpoint of every  *)
(* node at once, returns the first connection that was greeted, cancels    *)
(* the rest and leaves a goroutine behind, dropLosers, that closes those   *)
(* that had come up.  The context reaches the QUIC handshake and no        *)
(* further: greet sends its request with context.WithoutCancel.            *)
(***************************************************************************)
EXTENDS Naturals, Sequences

CONSTANT Attempts     \* one per endpoint, at least one

VARIABLES attempt,    \* attempt[a]: how far it is
          silent,     \* silent[a]: the node takes its greeting and never answers
          results,    \* the channel the attempts report to
          cancelled,  \* raceCtx, or the caller's, is over
          left,       \* results nobody has taken yet
          winner,     \* the attempt whose connection was returned, or None
          returned    \* DialRace has returned

vars == <<attempt, silent, results, cancelled, left, winner, returned>>

None == "none"
Ok == "ok"
Error == "error"

Init ==
    /\ attempt = [a \in Attempts |-> "dialling"]
    /\ silent \in [Attempts -> BOOLEAN]
    /\ results = <<>>
    /\ cancelled = FALSE
    /\ left = Attempts
    /\ winner = None
    /\ returned = FALSE

Open(a) == attempt[a] \in {"greeting", "up"}

Reports(a, how) == results' = Append(results, [from |-> a, how |-> how])

-----------------------------------------------------------------------------
\* Dial and greet of one attempt.

Handshake(a) ==
    /\ attempt[a] = "dialling" /\ ~cancelled
    /\ attempt' = [attempt EXCEPT ![a] = "greeting"]
    /\ UNCHANGED <<silent, results, cancelled, left, winner, returned>>

\* Nobody there, or the context is over.
DialFails(a) ==
    /\ attempt[a] = "dialling"
    /\ attempt' = [attempt EXCEPT ![a] = "closed"]
    /\ Reports(a, Error)
    /\ UNCHANGED <<silent, cancelled, left, winner, returned>>

Greeted(a) ==
    /\ attempt[a] = "greeting" /\ ~silent[a]
    /\ attempt' = [attempt EXCEPT ![a] = "up"]
    /\ Reports(a, Ok)
    /\ UNCHANGED <<silent, cancelled, left, winner, returned>>

\* The node does not know us, or proves to be another.
GreetFails(a) ==
    /\ attempt[a] = "greeting" /\ ~silent[a]
    /\ attempt' = [attempt EXCEPT ![a] = "closed"]
    /\ Reports(a, Error)
    /\ UNCHANGED <<silent, cancelled, left, winner, returned>>

-----------------------------------------------------------------------------
\* The loop of DialRace.

Received == Head(results)

Taken == results' = Tail(results) /\ left' = left \ {Received.from}

Fails ==
    /\ ~returned /\ results # <<>> /\ Received.how = Error
    /\ Taken
    /\ returned' = (left' = {})
    /\ cancelled' = (cancelled \/ left' = {})
    /\ UNCHANGED <<attempt, silent, winner>>

Wins ==
    /\ ~returned /\ results # <<>> /\ Received.how = Ok
    /\ Taken
    /\ winner' = Received.from
    /\ cancelled' = TRUE
    /\ returned' = TRUE
    /\ UNCHANGED <<attempt, silent>>

\* Mistake: all that is up is closed, the winner too.
DropAll ==
    /\ returned /\ results # <<>>
    /\ Taken
    /\ attempt' = [a \in Attempts |-> IF Open(a) THEN "closed" ELSE attempt[a]]
    /\ UNCHANGED <<silent, cancelled, winner, returned>>

\* Mistake: the results are drained and nothing is closed.
DropNothing ==
    /\ returned /\ results # <<>>
    /\ Taken
    /\ UNCHANGED <<attempt, silent, cancelled, winner, returned>>

\* dropLosers.
Drop ==
    /\ returned /\ results # <<>>
    /\ Taken
    /\ attempt' = [attempt EXCEPT ![Received.from] = "closed"]
    /\ UNCHANGED <<silent, cancelled, winner, returned>>

\* The caller's deadline passes, or the user changes his mind.
Expire ==
    /\ ~cancelled
    /\ cancelled' = TRUE
    /\ UNCHANGED <<attempt, silent, results, left, winner, returned>>

Next ==
    \/ \E a \in Attempts : Handshake(a) \/ DialFails(a) \/ Greeted(a) \/ GreetFails(a)
    \/ Fails \/ Wins \/ Drop \/ Expire

\* A handshake succeeds or times out, a node that answers does so in the end,
\* and the goroutines run.  Nobody has to cancel.
Fairness ==
    /\ \A a \in Attempts :
         /\ WF_vars(Handshake(a) \/ DialFails(a))
         /\ WF_vars(Greeted(a) \/ GreetFails(a))
    /\ WF_vars(Fails \/ Wins) /\ WF_vars(Drop)

Spec == Init /\ [][Next]_vars
FairSpec == Spec /\ Fairness

-----------------------------------------------------------------------------
TypeOK ==
    /\ attempt \in [Attempts -> {"dialling", "greeting", "up", "closed"}]
    /\ left \subseteq Attempts
    /\ winner \in (Attempts \ left) \cup {None}
    /\ returned \in BOOLEAN /\ cancelled \in BOOLEAN
    /\ \A i \in 1..Len(results) : results[i].from \in left

\* The connection the caller was given is open: neither the cancellation nor
\* the goroutine that closes the losers touches it.
WinnerIsUp == winner # None => attempt[winner] = "up"

AllAnswer == \A a \in Attempts : ~silent[a]

\* The caller gets an answer: once a node has greeted, whatever the others do,
\* and in any case if no node keeps silent.
Returns ==
    /\ \A a \in Attempts : attempt[a] = "up" ~> returned
    /\ AllAnswer => <>returned

\* The losers are closed, not left to the idle timeout (dialrace.go: the
\* signal has to reach the node, or it keeps the session and the socket).
OnlyWinnerOpen == \A a \in Attempts : Open(a) => a = winner
LosersAreClosed == AllAnswer => <>[]OnlyWinnerOpen

\* The same whatever the nodes do: the comment makes no exception.
LosersAlwaysClosed == <>[]OnlyWinnerOpen

\* A deadline ends the race: syncTimeout bounds the exchange with one node
\* (ownerlog/sync.go).
DeadlineEnds == cancelled ~> returned
=============================================================================

------------------------------- MODULE Ledger -------------------------------
(***************************************************************************)
(* The bytes a client has spent: internal/ledger's counters, their copy on *)
(* disk (store/usage.go) and the goroutines of cmd/qd-node that save it.   *)
(* Every node counts what it carried in a cell of its own, tells its       *)
(* neighbours all the cells it knows, and takes theirs by maximum.  One    *)
(* client and one billing period: cells of others do not interact, and the *)
(* two directions of a cell are counted alike.                             *)
(***************************************************************************)
EXTENDS Integers

CONSTANTS Nodes,        \* the nodes of the network
          Links,        \* pairs <<from, to>> that exchange pictures
          MaySave,      \* the sweeper's timer runs
          MayStop,      \* nodes are stopped by their administrator
          MayCrash,     \* processes die
          MaxCounted,   \* bound: MaxCounted[n] is the traffic n carries
          MaxDeaths     \* bound: how often processes end

ASSUME LedgerConstants ==
    /\ Links \subseteq {l \in Nodes \X Nodes : l[1] # l[2]}
    /\ {MaySave, MayStop, MayCrash} \subseteq BOOLEAN
    /\ MaxCounted \in [Nodes -> Nat] /\ MaxDeaths \in Nat

Savers == {"sweeper", "main"}

VARIABLES phase,     \* phase[n]: "up", "stopping", "stopped" or "crashed"
          cells,     \* cells[n][m]: what n knows of the cell of m
          disk,      \* disk[n]: the row of n's own cell
          saving,    \* saving[n][s]: what saver s is about to write, or Nothing
          saved,     \* saved[n]: what main's save has put on disk, or Nothing
          knows,     \* knows[n]: the row is one this process has read or written
          told,      \* told[l]: the snapshot under way on link l, or NoNews
          counted,   \* counted[n]: what n has really carried, over all its lives
          deaths     \* how many processes have ended

vars == <<phase, cells, disk, saving, saved, knows, told, counted, deaths>>

Nothing == -1
NoNews == <<>>
Zero == [m \in Nodes |-> 0]
Quiet == [s \in Savers |-> Nothing]

Running(n) == phase[n] \in {"up", "stopping"}

Max2(a, b) == IF a > b THEN a ELSE b

Init ==
    /\ phase = [n \in Nodes |-> "up"]
    /\ cells = [n \in Nodes |-> Zero]
    /\ disk = [n \in Nodes |-> 0]
    /\ saving = [n \in Nodes |-> Quiet]
    /\ saved = [n \in Nodes |-> Nothing]
    /\ knows = [n \in Nodes |-> TRUE]
    /\ told = [l \in Links |-> NoNews]
    /\ counted = [n \in Nodes |-> 0]
    /\ deaths = 0

-----------------------------------------------------------------------------
\* Add: streams are carried until the process is gone.
Count(n) ==
    /\ Running(n)
    /\ counted[n] < MaxCounted[n]
    /\ cells' = [cells EXCEPT ![n][n] = @ + 1]
    /\ counted' = [counted EXCEPT ![n] = @ + 1]
    /\ UNCHANGED <<phase, disk, saving, saved, knows, told, deaths>>

\* Snapshot: all the cells the node knows, its own among them.  (A picture with
\* nothing in it is sent too; it changes nothing.)
Tell(from, to) ==
    /\ Running(from) /\ Running(to)
    /\ told[<<from, to>>] = NoNews
    /\ cells[from] # Zero
    /\ told' = [told EXCEPT ![<<from, to>>] = cells[from]]
    /\ UNCHANGED <<phase, cells, disk, saving, saved, knows, counted, deaths>>

\* Mistake: pictures are added up.
MergedBySum(n, snap) ==
    [m \in Nodes |-> IF m = n THEN cells[n][m] ELSE cells[n][m] + snap[m]]

\* Mistake: the last picture is believed.
MergedLast(n, snap) == [m \in Nodes |-> IF m = n THEN cells[n][m] ELSE snap[m]]

\* Mistake: our own cell is believed to others.
MergedOwnToo(n, snap) ==
    [m \in Nodes |-> IF m = n THEN snap[m] ELSE Max2(cells[n][m], snap[m])]

\* Mistake: a cell we have never had is not entered.
MergedKnown(n, snap) ==
    [m \in Nodes |-> IF m = n \/ cells[n][m] = 0 THEN cells[n][m]
                     ELSE Max2(cells[n][m], snap[m])]

\* A neighbour's picture over ours: by maximum, and never our own cell.
Merged(n, snap) ==
    [m \in Nodes |-> IF m = n THEN cells[n][m] ELSE Max2(cells[n][m], snap[m])]

Merge(from, to) ==
    /\ told[<<from, to>>] # NoNews
    /\ cells' = [cells EXCEPT ![to] = Merged(to, told[<<from, to>>])]
    /\ told' = [told EXCEPT ![<<from, to>>] = NoNews]
    /\ UNCHANGED <<phase, disk, saving, saved, knows, counted, deaths>>

-----------------------------------------------------------------------------
\* save: Own() under the ledger's lock, then one transaction.  The sweeper
\* saves by its timer and once more when it is told to stop; main saves once,
\* when it is told to stop, and neither waits for the other.
Due(n, s) == IF s = "sweeper" THEN MaySave /\ Running(n)
             ELSE phase[n] = "stopping" /\ saved[n] = Nothing

TakeOwn(n, s) ==
    /\ Due(n, s)
    /\ saving[n][s] = Nothing
    /\ cells[n][n] > 0
    /\ saving' = [saving EXCEPT ![n][s] = cells[n][n]]
    /\ UNCHANGED <<phase, cells, disk, saved, knows, told, counted, deaths>>

SaveUsage(n, s) ==
    /\ saving[n][s] # Nothing
    /\ disk' = [disk EXCEPT ![n] = saving[n][s]]
    /\ knows' = [knows EXCEPT ![n] = TRUE]
    /\ saved' = IF s = "main" THEN [saved EXCEPT ![n] = saving[n][s]] ELSE saved
    /\ saving' = [saving EXCEPT ![n][s] = Nothing]
    /\ UNCHANGED <<phase, cells, told, counted, deaths>>

\* The transaction is rolled back; save logs it and goes on.
SaveFails(n, s) ==
    /\ saving[n][s] # Nothing
    /\ saving' = [saving EXCEPT ![n][s] = Nothing]
    /\ saved' = IF s = "main" THEN [saved EXCEPT ![n] = 0] ELSE saved
    /\ UNCHANGED <<phase, cells, disk, knows, told, counted, deaths>>

-----------------------------------------------------------------------------
\* The process.

\* The context is cancelled.
Stop(n) ==
    /\ MayStop
    /\ phase[n] = "up"
    /\ deaths < MaxDeaths
    /\ phase' = [phase EXCEPT ![n] = "stopping"]
    /\ deaths' = deaths + 1
    /\ UNCHANGED <<cells, disk, saving, saved, knows, told, counted>>

\* All that was in memory or on the way from or to this process is gone.
Gone(n) ==
    /\ cells' = [cells EXCEPT ![n] = Zero]
    /\ saving' = [saving EXCEPT ![n] = Quiet]
    /\ told' = [l \in Links |-> IF n \in {l[1], l[2]} THEN NoNews ELSE told[l]]
    /\ knows' = [knows EXCEPT ![n] = FALSE]

\* run returns: main's own save is over, whatever the sweeper is doing.
Exit(n) ==
    /\ phase[n] = "stopping"
    /\ saving[n]["main"] = Nothing
    /\ saved[n] # Nothing \/ cells[n][n] = 0
    /\ phase' = [phase EXCEPT ![n] = "stopped"]
    /\ Gone(n)
    /\ UNCHANGED <<disk, saved, counted, deaths>>

Crash(n) ==
    /\ MayCrash
    /\ Running(n)
    /\ deaths < MaxDeaths
    /\ phase' = [phase EXCEPT ![n] = "crashed"]
    /\ Gone(n)
    /\ saved' = [saved EXCEPT ![n] = Nothing]
    /\ deaths' = deaths + 1
    /\ UNCHANGED <<disk, counted>>

Begins(n) ==
    /\ ~Running(n)
    /\ phase' = [phase EXCEPT ![n] = "up"]
    /\ saved' = [saved EXCEPT ![n] = Nothing]
    /\ UNCHANGED <<disk, saving, told, counted, deaths>>

\* restore: the own cell comes back from disk before anybody connects.
Start(n) ==
    /\ Begins(n)
    /\ cells' = [cells EXCEPT ![n][n] = Max2(@, disk[n])]
    /\ knows' = [knows EXCEPT ![n] = TRUE]

\* LoadUsage fails: restore logs it, and the node counts from nothing.
StartAnew(n) ==
    /\ Begins(n)
    /\ UNCHANGED <<cells, knows>>

Next ==
    \/ \E n \in Nodes :
          \/ Count(n)
          \/ Stop(n) \/ Exit(n) \/ Crash(n) \/ Start(n) \/ StartAnew(n)
          \/ \E s \in Savers : TakeOwn(n, s) \/ SaveUsage(n, s) \/ SaveFails(n, s)
    \/ \E l \in Links : Tell(l[1], l[2]) \/ Merge(l[1], l[2])

\* Links keep exchanging (mesh's gossipPeriod), and a process that ended is
\* started again (systemd).
Fairness ==
    /\ \A l \in Links : WF_vars(Tell(l[1], l[2])) /\ WF_vars(Merge(l[1], l[2]))
    /\ \A n \in Nodes : WF_vars(Start(n)) /\ WF_vars(Exit(n))

Spec == Init /\ [][Next]_vars
FairSpec == Spec /\ Fairness

-----------------------------------------------------------------------------
TypeOK ==
    /\ phase \in [Nodes -> {"up", "stopping", "stopped", "crashed"}]
    /\ cells \in [Nodes -> [Nodes -> Nat]]
    /\ disk \in [Nodes -> Nat]
    /\ saving \in [Nodes -> [Savers -> Nat \cup {Nothing}]]
    /\ saved \in [Nodes -> Nat \cup {Nothing}]
    /\ knows \in [Nodes -> BOOLEAN]
    /\ told \in [Links -> [Nodes -> Nat] \cup {NoNews}]
    /\ counted \in [Nodes -> Nat]
    /\ deaths \in Nat

\* However pictures are delayed, repeated or passed on through others, and
\* whatever is lost with a process, no client is ever charged more than it
\* spent: not by Total on any node, not by what a restart reads back.
NeverOvercharged ==
    \A n, m \in Nodes : cells[n][m] <= counted[m] /\ disk[m] <= counted[m]

\* A running node's picture only grows: the counters of a G-counter never go
\* down, by gossip or by saving (package comment of ledger).
NeverShrinks ==
    [][\A n, m \in Nodes :
          phase[n] = "up" /\ phase'[n] = "up" => cells'[n][m] >= cells[n][m]]_vars

\* Once a process has read its row or written it, the row never goes down while
\* the node is in service: only the sweeper saves then, and each time it takes
\* its copy after the last save.  What is left open is the first save of a
\* process that could not read its row.
DiskNeverShrinks ==
    [][\A n \in Nodes : phase[n] = "up" /\ knows[n] => disk'[n] >= disk[n]]_vars

\* restore's comment: without it the counter would go back to nothing with every
\* update of the node.  A row, once written, would then never go down in service.
RowsOnlyGrow ==
    [][\A n \in Nodes : phase[n] = "up" => disk'[n] >= disk[n]]_vars

\* Once traffic stops, all nodes see the same total: "the figures lag behind
\* and then come together by themselves" (package comment of ledger).
Agreed == \A n, m \in Nodes : cells[n] = cells[m]
AlwaysConverges == <>[]Agreed

\* They do as long as no process ends; a node that has come back with an older
\* figure of its own than it had told does not take its own from its neighbours.
Convergence == [](deaths = 0) => <>[]Agreed

\* What main saved on the way out is on disk when the node is gone (main.go:
\* saved here, not only in the sweeper).
StopKeepsCounted ==
    \A n \in Nodes : phase[n] = "stopped" => disk[n] >= saved[n]
=============================================================================

---------------------------- MODULE LedgerProofs ----------------------------
(***************************************************************************)
(* The two tables of internal/ledger, for any number of nodes.             *)
(*                                                                         *)
(* Counters, for any links, any amount of traffic and any number of        *)
(* deaths: nobody is ever charged more than was spent, and a running       *)
(* node's picture never shrinks.  NeverOvercharged is not inductive: a     *)
(* cell is overwritten with what is under way on a link, a row with what a *)
(* saver holds.  Bounded says of these places too that they hold no more   *)
(* than was counted.                                                       *)
(*                                                                         *)
(* Sessions, for any connections, devices, limit and lifetime: a           *)
(* connection that has announced itself lately is counted by its node, and *)
(* no node believes a session to be fresher than it is.                    *)
(***************************************************************************)
EXTENDS Ledger, Sessions, TLAPS

Below(snap) == \A m \in Nodes : snap[m] <= counted[m]

Bounded ==
    /\ \A n \in Nodes : Below(cells[n]) /\ disk[n] <= counted[n]
    /\ \A n \in Nodes, s \in Savers : saving[n][s] <= counted[n]
    /\ \A l \in Links : told[l] # NoNews => Below(told[l])

IInv == TypeOK /\ Bounded

\* The invariant holds before anything is counted.
LEMMA InitInv == Init => IInv
  BY LedgerConstants DEF Init, IInv, TypeOK, Bounded, Below, Zero, Quiet, Nothing

\* The cells of a merged picture are bounded if both pictures are.
LEMMA MergedBounded ==
    ASSUME NEW n \in Nodes, IInv, NEW snap \in [Nodes -> Nat], Below(snap)
    PROVE  Merged(n, snap) \in [Nodes -> Nat] /\ Below(Merged(n, snap))
  BY DEF IInv, TypeOK, Bounded, Below, Merged, Max2

\* A process that ends takes figures away and brings none.
LEMMA GoneInv ==
    ASSUME NEW n \in Nodes, IInv, Gone(n)
    PROVE  /\ cells' \in [Nodes -> [Nodes -> Nat]]
           /\ saving' \in [Nodes -> [Savers -> Nat \cup {Nothing}]]
           /\ told' \in [Links -> [Nodes -> Nat] \cup {NoNews}]
           /\ \A m \in Nodes : Below(cells'[m])
           /\ \A m \in Nodes, s \in Savers : saving'[m][s] <= counted[m]
           /\ \A l \in Links : told'[l] # NoNews => Below(told'[l])
  BY DEF IInv, TypeOK, Bounded, Below, Gone, Zero, Quiet, Nothing, NoNews

\* Every step of the ledger, the savers and the process keeps the invariant.
LEMMA NextInv == IInv /\ [Next]_vars => IInv'
<1> SUFFICES ASSUME IInv, [Next]_vars PROVE IInv'
  OBVIOUS
<1> USE LedgerConstants
<1>1. ASSUME NEW n \in Nodes, Count(n) PROVE IInv'
  <2> DEFINE own == [cells[n] EXCEPT ![n] = @ + 1]
  <2>1. cells[n] \in [Nodes -> Nat] /\ counted[n] \in Nat
    BY DEF IInv, TypeOK
  <2>2. own \in [Nodes -> Nat] /\ cells' = [cells EXCEPT ![n] = own]
    BY <1>1, <2>1 DEF Count
  <2>3. TypeOK'
    BY <1>1, <2>1, <2>2 DEF Count, IInv, TypeOK
  <2>4. \A m \in Nodes : counted[m] <= counted'[m] /\ {counted[m], counted'[m]} \subseteq Nat
    BY <1>1, <2>1 DEF Count, IInv, TypeOK
  <2>5. \A m \in Nodes : own[m] <= counted'[m]
    BY <1>1, <2>1, <2>4 DEF Count, IInv, TypeOK, Bounded, Below
  <2>6. \A k \in Nodes : Below(cells[k])' /\ disk'[k] <= counted'[k]
    <3> SUFFICES ASSUME NEW k \in Nodes, NEW m \in Nodes
                 PROVE  cells'[k][m] <= counted'[m] /\ disk'[k] <= counted'[k]
      BY DEF Below
    <3>1. cells[k][m] <= counted[m] /\ disk[k] <= counted[k]
      BY DEF IInv, Bounded, Below
    <3>2. cells[k][m] \in Nat /\ disk[k] \in Nat
      BY DEF IInv, TypeOK
    <3>3. disk' = disk
      BY <1>1 DEF Count
    <3>4. cells'[k] = IF k = n THEN own ELSE cells[k]
      BY <2>2 DEF IInv, TypeOK
    <3> QED
      BY <2>4, <2>5, <3>1, <3>2, <3>3, <3>4
  <2>7. \A k \in Nodes, s \in Savers : saving'[k][s] <= counted'[k]
    <3> SUFFICES ASSUME NEW k \in Nodes, NEW s \in Savers
                 PROVE  saving'[k][s] <= counted'[k]
      OBVIOUS
    <3>1. saving[k][s] <= counted[k] /\ saving[k][s] \in Nat \cup {Nothing}
      BY DEF IInv, TypeOK, Bounded
    <3> QED
      BY <1>1, <2>4, <3>1 DEF Count, Nothing
  <2>8. \A l \in Links : told'[l] # NoNews => Below(told[l])'
    <3> SUFFICES ASSUME NEW l \in Links, told[l] # NoNews, NEW m \in Nodes
                 PROVE  told[l][m] <= counted'[m]
      BY <1>1 DEF Count, Below
    <3>1. told[l][m] <= counted[m] /\ told[l][m] \in Nat
      BY DEF IInv, TypeOK, Bounded, Below
    <3> QED
      BY <2>4, <3>1
  <2> QED
    BY <2>3, <2>6, <2>7, <2>8 DEF IInv, Bounded, Below
<1>2. ASSUME NEW l \in Links, Tell(l[1], l[2]) PROVE IInv'
  BY <1>2 DEF Tell, IInv, TypeOK, Bounded, Below
<1>3. ASSUME NEW l \in Links, Merge(l[1], l[2]) PROVE IInv'
  <2> DEFINE to == l[2]
  <2>1. l = <<l[1], l[2]>> /\ to \in Nodes
    OBVIOUS
  <2>2. told[l] \in [Nodes -> Nat] /\ Below(told[l])
    BY <1>3, <2>1 DEF Merge, IInv, TypeOK, Bounded
  <2>3. /\ Merged(to, told[l]) \in [Nodes -> Nat]
        /\ Below(Merged(to, told[l]))
    BY <2>1, <2>2, MergedBounded
  <2>4. TypeOK'
    BY <1>3, <2>1, <2>3 DEF Merge, IInv, TypeOK
  <2>5. Bounded'
    BY <1>3, <2>1, <2>3 DEF Merge, IInv, TypeOK, Bounded, Below
  <2> QED
    BY <2>4, <2>5 DEF IInv
<1>4. ASSUME NEW n \in Nodes, NEW s \in Savers, TakeOwn(n, s) PROVE IInv'
  BY <1>4 DEF TakeOwn, IInv, TypeOK, Bounded, Below
<1>5. ASSUME NEW n \in Nodes, NEW s \in Savers, SaveUsage(n, s) PROVE IInv'
  BY <1>5 DEF SaveUsage, IInv, TypeOK, Bounded, Below, Nothing
<1>6. ASSUME NEW n \in Nodes, NEW s \in Savers, SaveFails(n, s) PROVE IInv'
  BY <1>6 DEF SaveFails, IInv, TypeOK, Bounded, Below, Nothing
<1>7. ASSUME NEW n \in Nodes, Stop(n) PROVE IInv'
  BY <1>7 DEF Stop, IInv, TypeOK, Bounded, Below
<1>8. ASSUME NEW n \in Nodes, Exit(n) PROVE IInv'
  <2>1. Gone(n) /\ knows' \in [Nodes -> BOOLEAN]
    BY <1>8 DEF Exit, Gone, IInv, TypeOK
  <2> QED
    BY <1>8, <2>1, GoneInv DEF Exit, IInv, TypeOK, Bounded, Below
<1>9. ASSUME NEW n \in Nodes, Crash(n) PROVE IInv'
  <2>1. Gone(n)
    BY <1>9 DEF Crash
  <2>2. TypeOK'
    <3>1. /\ cells' \in [Nodes -> [Nodes -> Nat]]
          /\ saving' \in [Nodes -> [Savers -> Nat \cup {Nothing}]]
          /\ told' \in [Links -> [Nodes -> Nat] \cup {NoNews}]
      BY <2>1, GoneInv
    <3>2. /\ phase' \in [Nodes -> {"up", "stopping", "stopped", "crashed"}]
          /\ saved' \in [Nodes -> Nat \cup {Nothing}]
          /\ deaths' \in Nat
      BY <1>9 DEF Crash, IInv, TypeOK
    <3>3. knows' \in [Nodes -> BOOLEAN]
      BY <2>1 DEF Gone, IInv, TypeOK
    <3> QED
      BY <1>9, <3>1, <3>2, <3>3 DEF Crash, IInv, TypeOK
  <2>3. Bounded'
    BY <1>9, <2>1, GoneInv DEF Crash, IInv, Bounded, Below
  <2> QED
    BY <2>2, <2>3 DEF IInv
<1>10. ASSUME NEW n \in Nodes, Start(n) PROVE IInv'
  <2> DEFINE own == [cells[n] EXCEPT ![n] = Max2(@, disk[n])]
  <2>1. cells[n] \in [Nodes -> Nat] /\ disk[n] \in Nat
    BY DEF IInv, TypeOK
  <2>2. own \in [Nodes -> Nat] /\ cells' = [cells EXCEPT ![n] = own]
    BY <1>10, <2>1 DEF Start, Max2
  <2>3. \A m \in Nodes : own[m] <= counted[m]
    BY <2>1 DEF IInv, Bounded, Below, Max2
  <2>4. TypeOK'
    BY <1>10, <2>2 DEF Start, Begins, IInv, TypeOK
  <2>5. \A k \in Nodes : cells'[k] = IF k = n THEN own ELSE cells[k]
    BY <2>2 DEF IInv, TypeOK
  <2>6. Bounded'
    BY <1>10, <2>3, <2>5 DEF Start, Begins, IInv, Bounded, Below
  <2> QED
    BY <2>4, <2>6 DEF IInv
<1>11. ASSUME NEW n \in Nodes, StartAnew(n) PROVE IInv'
  BY <1>11 DEF StartAnew, Begins, IInv, TypeOK, Bounded, Below
<1>12. CASE UNCHANGED vars
  BY <1>12 DEF vars, IInv, TypeOK, Bounded, Below
<1> QED
  BY <1>1, <1>2, <1>3, <1>4, <1>5, <1>6, <1>7, <1>8, <1>9, <1>10, <1>11, <1>12 DEF Next

\* So it always holds.
LEMMA Invariance == Spec => []IInv
  BY InitInv, NextInv, PTL DEF Spec

\* Every variable of Ledger keeps its type.
THEOREM TypeCorrect == Spec => []TypeOK
<1>1. IInv => TypeOK
  BY DEF IInv
<1> QED
  BY <1>1, Invariance, PTL

\* No client is ever charged more than it spent (Merge, Restore, SaveUsage).
THEOREM ChargesAreSound == Spec => []NeverOvercharged
<1>1. IInv => NeverOvercharged
  BY DEF IInv, Bounded, Below, NeverOvercharged
<1> QED
  BY <1>1, Invariance, PTL

\* What a running node knows of any cell never goes down: a G-counter.
THEOREM PictureGrows == Spec => NeverShrinks
<1> DEFINE Grows == \A n, m \in Nodes :
              phase[n] = "up" /\ phase'[n] = "up" => cells'[n][m] >= cells[n][m]
<1>1. IInv /\ [Next]_vars => [Grows]_vars
  <2> SUFFICES ASSUME IInv, [Next]_vars, NEW n \in Nodes, NEW m \in Nodes,
                      phase[n] = "up", phase'[n] = "up"
               PROVE  cells'[n][m] >= cells[n][m]
    OBVIOUS
  <2> USE DEF IInv
  <2>1. ASSUME NEW k \in Nodes, Count(k) PROVE cells'[n][m] >= cells[n][m]
    BY <2>1 DEF Count, TypeOK
  <2>2. ASSUME NEW l \in Links, Merge(l[1], l[2]) PROVE cells'[n][m] >= cells[n][m]
    <3>1. l = <<l[1], l[2]>> /\ l[2] \in Nodes
      BY LedgerConstants
    <3>2. told[l] \in [Nodes -> Nat]
      BY <2>2, <3>1 DEF Merge, TypeOK
    <3>3. cells[n] \in [Nodes -> Nat]
      BY DEF TypeOK
    <3>4. Merged(n, told[l])[m] >= cells[n][m]
      BY <3>2, <3>3 DEF Merged, Max2
    <3>5. cells' = [cells EXCEPT ![l[2]] = Merged(l[2], told[l])]
      BY <2>2, <3>1 DEF Merge
    <3>6. cells'[n] = IF n = l[2] THEN Merged(n, told[l]) ELSE cells[n]
      BY <3>1, <3>5 DEF TypeOK
    <3>7. cells[n][m] \in Nat
      BY <3>3
    <3> QED
      BY <3>4, <3>6, <3>7
  <2>3. ASSUME NEW k \in Nodes, Exit(k) \/ Crash(k) PROVE cells'[n][m] >= cells[n][m]
    <3>1. phase'[k] # "up" /\ Gone(k)
      BY <2>3 DEF Exit, Crash, TypeOK
    <3>2. cells' = [cells EXCEPT ![k] = Zero]
      BY <3>1 DEF Gone
    <3>3. cells'[n] = cells[n] /\ cells[n][m] \in Nat
      BY <3>1, <3>2 DEF TypeOK
    <3> QED
      BY <3>3
  <2>4. ASSUME NEW k \in Nodes, Start(k) \/ StartAnew(k) PROVE cells'[n][m] >= cells[n][m]
    <3>1. cells[n] \in [Nodes -> Nat] /\ disk[n] \in Nat
      BY DEF TypeOK
    <3>2. CASE Start(k)
      <4>1. cells' = [cells EXCEPT ![k][k] = Max2(cells[k][k], disk[k])]
        BY <3>2 DEF Start
      <4>2. cells'[n][m] = IF n = k /\ m = k THEN Max2(cells[k][k], disk[k]) ELSE cells[n][m]
        BY <4>1 DEF TypeOK
      <4> QED
        BY <3>1, <4>2 DEF Max2
    <3>3. CASE StartAnew(k)
      BY <3>1, <3>3 DEF StartAnew
    <3> QED
      BY <2>4, <3>2, <3>3
  <2>5. CASE UNCHANGED cells
    BY <2>5 DEF TypeOK
  <2> QED
    BY <2>1, <2>2, <2>3, <2>4, <2>5
    DEF Next, vars, Tell, TakeOwn, SaveUsage, SaveFails, Stop
<1> QED
  BY <1>1, Invariance, PTL DEF Spec, NeverShrinks
-----------------------------------------------------------------------------
\* The row on disk.

\* While a node runs, its own cell is at least what a saver holds and, if the row
\* has been read or written, what is on disk; while it is up only the sweeper saves,
\* and no older copy than such a row.  A node that does not run saves nothing.
RowInv ==
    \A n \in Nodes :
        /\ Running(n) /\ knows[n] => disk[n] <= cells[n][n]
        /\ Running(n) => \A s \in Savers : saving[n][s] <= cells[n][n]
        /\ phase[n] = "up" => \A s \in Savers : saving[n][s] # Nothing
                                => s = "sweeper" /\ (knows[n] => saving[n][s] >= disk[n])
        /\ ~Running(n) => ~knows[n] /\ \A s \in Savers : saving[n][s] = Nothing

\* A node begins with nothing counted and nothing to save.
LEMMA RowBegins == Init => RowInv
<1> SUFFICES ASSUME Init, NEW n \in Nodes
             PROVE  /\ disk[n] <= cells[n][n] /\ phase[n] = "up"
                    /\ \A s \in Savers : saving[n][s] = Nothing /\ Nothing <= cells[n][n]
  BY DEF RowInv, Running
<1>1. disk[n] = 0 /\ cells[n] = Zero /\ phase[n] = "up" /\ saving[n] = Quiet
  BY DEF Init
<1>2. cells[n][n] = 0 /\ \A s \in Savers : saving[n][s] = Nothing
  BY <1>1 DEF Zero, Quiet
<1>3. Nothing <= 0 /\ 0 <= 0
  BY DEF Nothing
<1> QED
  BY <1>1, <1>2, <1>3

\* Steps that leave the rows and the savers alone, and lower no cell.
LEMMA RowStays ==
    ASSUME IInv, RowInv, UNCHANGED <<disk, saving, knows>>, IInv',
           \A n \in Nodes : Running(n)' <=> Running(n),
           \A n \in Nodes : phase'[n] = "up" => phase[n] = "up",
           \A n \in Nodes : cells'[n][n] >= cells[n][n]
    PROVE  RowInv'
<1> SUFFICES ASSUME NEW n \in Nodes
             PROVE  /\ Running(n)' /\ knows'[n] => disk'[n] <= cells'[n][n]
                    /\ Running(n)' => \A s \in Savers : saving'[n][s] <= cells'[n][n]
                    /\ phase'[n] = "up" => \A s \in Savers : saving'[n][s] # Nothing
                                => s = "sweeper" /\ (knows'[n] => saving'[n][s] >= disk'[n])
                    /\ ~Running(n)' => ~knows'[n] /\ \A s \in Savers : saving'[n][s] = Nothing
  BY DEF RowInv
<1>1. cells[n][n] \in Nat /\ cells'[n][n] \in Nat /\ disk[n] \in Nat
      /\ \A s \in Savers : saving[n][s] \in Nat \cup {Nothing}
  BY DEF IInv, TypeOK
<1>2. ASSUME Running(n), NEW s \in Savers
      PROVE  (knows[n] => disk[n] <= cells'[n][n]) /\ saving[n][s] <= cells'[n][n]
  <2>1. (knows[n] => disk[n] <= cells[n][n]) /\ saving[n][s] <= cells[n][n]
        /\ cells'[n][n] >= cells[n][n]
    BY <1>2 DEF RowInv
  <2>2. saving[n][s] \in Int
    BY <1>1 DEF Nothing
  <2> QED
    BY <1>1, <2>1, <2>2
<1>3. /\ phase[n] = "up" => \A s \in Savers : saving[n][s] # Nothing
                                => s = "sweeper" /\ (knows[n] => saving[n][s] >= disk[n])
      /\ ~Running(n) => ~knows[n] /\ \A s \in Savers : saving[n][s] = Nothing
  BY DEF RowInv
<1>4. \E s \in Savers : TRUE
  BY DEF Savers
<1>5. (Running(n)' <=> Running(n)) /\ (phase'[n] = "up" => phase[n] = "up")
  OBVIOUS
<1> QED
  BY <1>2, <1>3, <1>4, <1>5

\* A process that ends takes its figures and its savers' copies with it.
LEMMA RowEnds ==
    ASSUME IInv, RowInv, NEW k \in Nodes, Gone(k), UNCHANGED disk,
           NEW how \in {"stopped", "crashed"}, phase' = [phase EXCEPT ![k] = how]
    PROVE  RowInv'
<1>1. /\ cells' = [cells EXCEPT ![k] = Zero] /\ saving' = [saving EXCEPT ![k] = Quiet]
      /\ knows' = [knows EXCEPT ![k] = FALSE]
  BY DEF Gone
<1>2. \A n \in Nodes : n # k => /\ phase'[n] = phase[n] /\ cells'[n] = cells[n]
                                /\ saving'[n] = saving[n] /\ knows'[n] = knows[n]
  BY <1>1 DEF IInv, TypeOK
<1>3. phase'[k] = how /\ ~knows'[k] /\ \A s \in Savers : saving'[k][s] = Nothing
  BY <1>1 DEF IInv, TypeOK, Quiet
<1> SUFFICES ASSUME NEW n \in Nodes
             PROVE  /\ Running(n)' /\ knows'[n] => disk'[n] <= cells'[n][n]
                    /\ Running(n)' => \A s \in Savers : saving'[n][s] <= cells'[n][n]
                    /\ phase'[n] = "up" => \A s \in Savers : saving'[n][s] # Nothing
                                => s = "sweeper" /\ (knows'[n] => saving'[n][s] >= disk'[n])
                    /\ ~Running(n)' => ~knows'[n] /\ \A s \in Savers : saving'[n][s] = Nothing
  BY DEF RowInv
<1>4. CASE n = k
  BY <1>3, <1>4 DEF Running
<1>5. CASE n # k
  BY <1>2, <1>5 DEF RowInv, Running
<1> QED
  BY <1>4, <1>5

\* Every step keeps rows and copies below the node's own cell.
LEMMA RowSteps == IInv /\ RowInv /\ [Next]_vars => RowInv'
<1> SUFFICES ASSUME IInv, RowInv, [Next]_vars PROVE RowInv'
  OBVIOUS
<1> USE LedgerConstants
<1>0. IInv'
  BY NextInv
<1>1. ASSUME NEW k \in Nodes, Count(k) PROVE RowInv'
  <2>1. UNCHANGED <<phase, disk, saving, knows>>
        /\ \A n \in Nodes : cells'[n][n] >= cells[n][n]
    BY <1>1 DEF Count, IInv, TypeOK
  <2> QED
    BY <1>0, <2>1, RowStays DEF Running
<1>2. ASSUME NEW l \in Links, Tell(l[1], l[2]) PROVE RowInv'
  <2>1. UNCHANGED <<phase, disk, saving, knows, cells>>
    BY <1>2 DEF Tell
  <2>2. \A n \in Nodes : cells'[n][n] >= cells[n][n]
    BY <2>1 DEF IInv, TypeOK
  <2> QED
    BY <1>0, <2>1, <2>2, RowStays DEF Running
<1>3. ASSUME NEW l \in Links, Merge(l[1], l[2]) PROVE RowInv'
  <2>1. UNCHANGED <<phase, disk, saving, knows>>
    BY <1>3 DEF Merge
  <2>2. l[2] \in Nodes
    OBVIOUS
  <2>3. \A n \in Nodes : cells'[n][n] = cells[n][n] /\ cells[n][n] \in Nat
    BY <1>3, <2>2 DEF Merge, Merged, IInv, TypeOK
  <2> QED
    BY <1>0, <2>1, <2>3, RowStays DEF Running
<1>4. ASSUME NEW k \in Nodes, NEW s \in Savers, TakeOwn(k, s) PROVE RowInv'
  <2>1. /\ UNCHANGED <<phase, disk, knows, cells>>
        /\ saving' = [saving EXCEPT ![k][s] = cells[k][k]]
        /\ Running(k) /\ s # "sweeper" => phase[k] = "stopping"
    BY <1>4 DEF TakeOwn, Due, Running
  <2>2. phase[k] = "up" => s = "sweeper"
    BY <1>4 DEF TakeOwn, Due
  <2> SUFFICES ASSUME NEW n \in Nodes, NEW r \in Savers
               PROVE  /\ Running(n) /\ knows[n] => disk[n] <= cells[n][n]
                      /\ Running(n) => saving'[n][r] <= cells[n][n]
                      /\ phase[n] = "up" /\ saving'[n][r] # Nothing
                            => r = "sweeper" /\ (knows[n] => saving'[n][r] >= disk[n])
                      /\ ~Running(n) => ~knows[n] /\ saving'[n][r] = Nothing
    BY <2>1 DEF RowInv, Running, IInv, TypeOK
  <2>3. saving'[n][r] = IF n = k /\ r = s THEN cells[k][k] ELSE saving[n][r]
    BY <2>1 DEF IInv, TypeOK
  <2>4. cells[n][n] \in Nat /\ disk[n] \in Nat
    BY DEF IInv, TypeOK
  <2>5. CASE n = k /\ r = s
    <3>1. Running(k)
      BY <1>4 DEF TakeOwn, Due, Running
    <3> QED
      BY <2>2, <2>3, <2>4, <2>5, <3>1 DEF RowInv
  <2>6. CASE ~(n = k /\ r = s)
    BY <2>3, <2>6 DEF RowInv
  <2> QED
    BY <2>5, <2>6
<1>5. ASSUME NEW k \in Nodes, NEW s \in Savers, SaveUsage(k, s) PROVE RowInv'
  <2>1. /\ UNCHANGED <<phase, cells>> /\ saving' = [saving EXCEPT ![k][s] = Nothing]
        /\ disk' = [disk EXCEPT ![k] = saving[k][s]] /\ saving[k][s] # Nothing
        /\ knows' = [knows EXCEPT ![k] = TRUE]
    BY <1>5 DEF SaveUsage
  <2> SUFFICES ASSUME NEW n \in Nodes, NEW r \in Savers
               PROVE  /\ Running(n) /\ knows'[n] => disk'[n] <= cells[n][n]
                      /\ Running(n) => saving'[n][r] <= cells[n][n]
                      /\ phase[n] = "up" /\ saving'[n][r] # Nothing
                            => r = "sweeper" /\ (knows'[n] => saving'[n][r] >= disk'[n])
                      /\ ~Running(n) => ~knows'[n] /\ saving'[n][r] = Nothing
    BY <2>1 DEF RowInv, Running
  <2>3. saving'[n][r] = IF n = k /\ r = s THEN Nothing ELSE saving[n][r]
    BY <2>1 DEF IInv, TypeOK
  <2>4. disk'[n] = IF n = k THEN saving[k][s] ELSE disk[n]
    BY <2>1 DEF IInv, TypeOK
  <2>5. cells[n][n] \in Nat /\ disk[n] \in Nat
    BY DEF IInv, TypeOK
  <2>6. CASE n = k /\ r = s
    <3>1. saving[k][s] <= cells[k][k] /\ Running(k)
      BY <2>1 DEF RowInv
    <3>2. saving'[n][r] = Nothing /\ disk'[n] = saving[k][s]
      BY <2>3, <2>4, <2>6
    <3> QED
      BY <2>5, <2>6, <3>1, <3>2 DEF Nothing
  <2>7. CASE n = k /\ r # s
    BY <2>1, <2>3, <2>4, <2>7 DEF RowInv
  <2>8. CASE n # k
    <3>1. knows'[n] = knows[n]
      BY <2>1, <2>8 DEF IInv, TypeOK
    <3> QED
      BY <2>3, <2>4, <2>8, <3>1 DEF RowInv
  <2> QED
    BY <2>6, <2>7, <2>8
<1>6. ASSUME NEW k \in Nodes, NEW s \in Savers, SaveFails(k, s) PROVE RowInv'
  <2>1. /\ UNCHANGED <<phase, cells, disk, knows>> /\ saving' = [saving EXCEPT ![k][s] = Nothing]
    BY <1>6 DEF SaveFails
  <2>2. \A n \in Nodes, r \in Savers :
          saving'[n][r] = IF n = k /\ r = s THEN Nothing ELSE saving[n][r]
    BY <2>1 DEF IInv, TypeOK
  <2>3. \A n \in Nodes : cells[n][n] \in Nat
    BY DEF IInv, TypeOK
  <2> QED
    BY <2>1, <2>2, <2>3 DEF RowInv, Running, Nothing
<1>7. ASSUME NEW k \in Nodes, Stop(k) PROVE RowInv'
  <2>1. UNCHANGED <<disk, saving, knows, cells>> /\ phase[k] = "up"
        /\ phase' = [phase EXCEPT ![k] = "stopping"]
    BY <1>7 DEF Stop
  <2>2. /\ \A n \in Nodes : Running(n)' <=> Running(n)
        /\ \A n \in Nodes : phase'[n] = "up" => phase[n] = "up"
        /\ \A n \in Nodes : cells'[n][n] >= cells[n][n]
    BY <2>1 DEF Running, IInv, TypeOK
  <2> QED
    BY <1>0, <2>1, <2>2, RowStays
<1>8. ASSUME NEW k \in Nodes, Exit(k) \/ Crash(k) PROVE RowInv'
  BY <1>8, RowEnds DEF Exit, Crash
<1>9. ASSUME NEW k \in Nodes, Start(k) \/ StartAnew(k) PROVE RowInv'
  <2>1. /\ UNCHANGED <<disk, saving>> /\ ~Running(k)
        /\ phase' = [phase EXCEPT ![k] = "up"]
    BY <1>9 DEF Start, StartAnew, Begins
  <2>2. \A s \in Savers : saving[k][s] = Nothing
    BY <2>1 DEF RowInv
  <2>3. /\ cells[k][k] \in Nat /\ disk[k] \in Nat
        /\ \A n \in Nodes : n # k => /\ phase'[n] = phase[n] /\ cells'[n] = cells[n]
                                      /\ knows'[n] = knows[n]
    BY <1>9, <2>1 DEF Start, StartAnew, IInv, TypeOK
  <2>4. cells'[k][k] \in Nat /\ (knows'[k] => disk[k] <= cells'[k][k])
    <3>1. CASE Start(k)
      <4>1. cells'[k][k] = Max2(cells[k][k], disk[k])
        BY <3>1 DEF Start, IInv, TypeOK
      <4> QED
        BY <2>3, <4>1 DEF Max2
    <3>2. CASE StartAnew(k)
      <4>1. UNCHANGED <<cells, knows>>
        BY <3>2 DEF StartAnew
      <4>2. ~knows[k]
        BY <2>1 DEF RowInv
      <4> QED
        BY <2>3, <4>1, <4>2
    <3> QED
      BY <1>9, <3>1, <3>2
  <2> SUFFICES ASSUME NEW n \in Nodes
               PROVE  /\ Running(n)' /\ knows'[n] => disk[n] <= cells'[n][n]
                      /\ Running(n)' => \A s \in Savers : saving[n][s] <= cells'[n][n]
                      /\ phase'[n] = "up" => \A s \in Savers : saving[n][s] # Nothing
                                => s = "sweeper" /\ (knows'[n] => saving[n][s] >= disk[n])
                      /\ ~Running(n)' => /\ ~knows'[n]
                                         /\ \A s \in Savers : saving[n][s] = Nothing
    BY <2>1 DEF RowInv
  <2>5. CASE n = k
    <3>1. Running(n)'
      BY <2>1, <2>5 DEF Running, IInv, TypeOK
    <3>2. Nothing <= cells'[k][k]
      BY <2>4 DEF Nothing
    <3> QED
      BY <2>2, <2>4, <2>5, <3>1, <3>2
  <2>6. CASE n # k
    BY <2>3, <2>6 DEF RowInv, Running
  <2> QED
    BY <2>5, <2>6
<1>10. CASE UNCHANGED vars
  <2>1. UNCHANGED <<phase, disk, saving, knows, cells>>
    BY <1>10 DEF vars
  <2> QED
    BY <2>1 DEF RowInv, Running
<1> QED
  BY <1>1, <1>2, <1>3, <1>4, <1>5, <1>6, <1>7, <1>8, <1>9, <1>10 DEF Next

\* A row that its process has read or written never goes down while the node is
\* in service, whatever saves failed, however often it has been started and
\* whether or not the row could be read then (restore, sweep, SaveUsage).
THEOREM RowsGrow == Spec => DiskNeverShrinks
<1> DEFINE Grows == \A n \in Nodes : phase[n] = "up" /\ knows[n] => disk'[n] >= disk[n]
<1>1. IInv /\ RowInv /\ [Next]_vars => [Grows]_vars
  <2> SUFFICES ASSUME IInv, RowInv, [Next]_vars,
                      NEW n \in Nodes, phase[n] = "up", knows[n]
               PROVE  disk'[n] >= disk[n]
    OBVIOUS
  <2>1. disk[n] \in Nat
    BY DEF IInv, TypeOK
  <2>2. ASSUME NEW k \in Nodes, NEW s \in Savers, SaveUsage(k, s)
        PROVE  disk'[n] >= disk[n]
    <3>1. disk' = [disk EXCEPT ![k] = saving[k][s]] /\ saving[k][s] # Nothing
      BY <2>2 DEF SaveUsage
    <3>2. CASE k = n
      BY <3>1, <3>2 DEF RowInv, IInv, TypeOK
    <3>3. CASE k # n
      BY <2>1, <3>1, <3>3 DEF IInv, TypeOK
    <3> QED
      BY <3>2, <3>3
  <2>3. CASE UNCHANGED disk
    BY <2>1, <2>3
  <2> QED
    BY <2>2, <2>3
    DEF Next, vars, Count, Stop, Exit, Crash, Start, StartAnew, Begins,
        TakeOwn, SaveFails, Tell, Merge
<1> QED
  BY <1>1, InitInv, NextInv, RowBegins, RowSteps, PTL DEF Spec, DiskNeverShrinks

-----------------------------------------------------------------------------
\* Who counts as working.

Age == Ages \cup {Unknown}

\* The ages the argument speaks of; the handlers' own stages do not matter.
AgesTyped ==
    /\ seen \in [Everyone -> [Conns -> Age]]
    /\ news \in [Neighbours -> [Conns -> Age]]
    /\ since \in [Conns -> Age]

\* The host's sighting is exactly as old as the announcement, until Sweep has
\* taken it out or the connection is over: only the connection itself removes
\* it, and no picture of another node touches it.
HostAgrees ==
    \A c \in Conns :
        control[c] # "over" /\ since[c] # Unknown =>
            seen[Host][c] = since[c] \/ (since[c] = Old /\ seen[Host][c] = Unknown)

\* A sighting that is not out of date is as old as the announcement at least.
Honest(sighting, announced) == sighting <= Lifetime => sighting >= announced

\* Pictures under way are as honest as what the nodes hold: so a picture that
\* has gone round in a circle of neighbours is no fresher than its first teller.
PicturesAreHonest == \A l \in Neighbours, c \in Conns : Honest(news[l][c], since[c])

AgesInv == AgesTyped /\ HostAgrees /\ SeenIsHonest /\ PicturesAreHonest

\* A connection that leaves or is over has no entry in the table any more.
HandlersInv ==
    /\ control \in [Conns -> {"new", "admitted", "refused", "serving", "leaving", "over"}]
    /\ table \in [Conns -> {"none", "idle", "active"}]
    /\ \A c \in Conns : control[c] \in {"leaving", "over"} => table[c] = "none"

SessionsInv == AgesInv /\ HandlersInv

\* What is over stays over.
StaysOver == \A c \in Conns : control[c] = "over" => control'[c] = "over"

\* What the named assumption says of the constants.
LEMMA LifetimeIsNat == /\ Lifetime \in Nat \ {0} /\ Host \in Everyone
                       /\ Neighbours \subseteq Everyone \X Everyone
  BY SessionsConstants DEF Everyone

\* Ages can be compared.
LEMMA AgesAreNumbers == \A a \in Age : a \in Nat /\ a <= Old + 1
  BY LifetimeIsNat DEF Age, Ages, Old, Unknown

\* Growing older keeps the type and the order of two ages.
LEMMA OlderIsTyped ==
    ASSUME NEW ages \in [Conns -> Age]
    PROVE  /\ Older(ages) \in [Conns -> Age]
           /\ \A c \in Conns :
                Older(ages)[c] = IF ages[c] < Old THEN ages[c] + 1 ELSE ages[c]
  BY LifetimeIsNat DEF Older, Age, Ages, Old, Unknown

\* Time passes for a sighting and its announcement alike.
LEMMA HonestGrowsOlder ==
    ASSUME NEW a \in Age, NEW b \in Age, Honest(a, b)
    PROVE  Honest(IF a < Old THEN a + 1 ELSE a, IF b < Old THEN b + 1 ELSE b)
  BY LifetimeIsNat DEF Honest, Age, Ages, Old, Unknown

\* What Merge keeps of two honest sightings is honest.
LEMMA LaterIsHonest ==
    ASSUME NEW ours \in Age, NEW theirs \in Age, NEW b \in Age,
           Honest(ours, b), Honest(theirs, b)
    PROVE  Later(ours, theirs) \in Age /\ Honest(Later(ours, theirs), b)
  BY LifetimeIsNat DEF Later, Honest, Age, Ages, Old, Unknown

\* At first nobody has been seen.
LEMMA SessionsBegin == SessionsInit => SessionsInv
  BY LifetimeIsNat DEF SessionsInit, SessionsInv, HandlersInv, AgesInv, AgesTyped, HostAgrees,
     SeenIsHonest, Counted, PicturesAreHonest, Honest, NoSessions, Age, Ages, Old, Unknown

\* Handlers go forward, whatever else happens.
LEMMA HandlersStep ==
    ASSUME HandlersInv, [SessionsNext]_sessionsVars
    PROVE  HandlersInv' /\ StaysOver
<1>1. ASSUME NEW c \in Conns, Admit(c) \/ Register(c) \/ ForgetEntry(c) \/ SessionDown(c)
      PROVE  HandlersInv' /\ StaysOver
  <2>1. control[c] # "over" /\ \A d \in Conns : d # c => control'[d] = control[d]
    BY <1>1 DEF Admit, Register, ForgetEntry, SessionDown, HandlersInv
  <2>2. StaysOver
    BY <2>1 DEF StaysOver
  <2> DEFINE stages == {"new", "admitted", "refused", "serving", "leaving", "over"}
             entries == {"none", "idle", "active"}
  <2>3. PICK stage \in stages, entry \in entries :
          /\ control' = [control EXCEPT ![c] = stage]
          /\ table' = [table EXCEPT ![c] = entry]
          /\ stage \in {"leaving", "over"} => entry = "none"
    <3>1. control[c] \in stages /\ table[c] \in entries /\ table = [table EXCEPT ![c] = @]
          /\ (control[c] = "leaving" => table[c] = "none")
      BY DEF HandlersInv
    <3>2. CASE Admit(c)
      BY <3>1, <3>2 DEF Admit
    <3>3. CASE Register(c)
      BY <3>3 DEF Register
    <3>4. CASE ForgetEntry(c)
      BY <3>4 DEF ForgetEntry
    <3>5. CASE SessionDown(c)
      BY <3>1, <3>5 DEF SessionDown
    <3> QED
      BY <1>1, <3>2, <3>3, <3>4, <3>5
  <2>4. HandlersInv'
    BY <2>3 DEF HandlersInv
  <2> QED
    BY <2>2, <2>4
<1>2. ASSUME NEW c \in Conns, NEW x \in Streams[c],
             Lookup(c, x) \/ Activate(c, x) \/ Announce(c, x)
      PROVE  HandlersInv' /\ StaysOver
  BY <1>2 DEF Lookup, Activate, Announce, HandlersInv, StaysOver
<1>3. CASE UNCHANGED <<control, table>>
  BY <1>3 DEF HandlersInv, StaysOver
<1> QED
  BY <1>1, <1>2, <1>3
  DEF SessionsNext, sessionsVars, TellSessions, MergeSessions, Lose, Sweep, Tick

\* Admission and the table of connections touch no age.
LEMMA AgesStay ==
    ASSUME AgesInv, StaysOver, UNCHANGED <<seen, news, since>>
    PROVE  AgesInv'
  BY DEF AgesInv, AgesTyped, HostAgrees, SeenIsHonest, Counted, PicturesAreHonest, StaysOver

\* A connection that ends takes its own session out.
LEMMA DownIsHonest ==
    ASSUME AgesInv, HandlersInv, StaysOver, NEW c \in Conns, SessionDown(c)
    PROVE  AgesInv'
<1>1. /\ seen' = [seen EXCEPT ![Host][c] = Unknown]
      /\ UNCHANGED <<news, since>> /\ control'[c] = "over"
  BY DEF SessionDown, HandlersInv
<1>2. AgesTyped'
  BY <1>1, LifetimeIsNat DEF AgesInv, AgesTyped, Age
<1>3. HostAgrees'
  BY <1>1, LifetimeIsNat DEF AgesInv, AgesTyped, HostAgrees, StaysOver
<1>4. \A n \in Everyone, d \in Conns : seen'[n][d] \in {seen[n][d], Unknown}
  BY <1>1, LifetimeIsNat DEF AgesInv, AgesTyped
<1>5. SeenIsHonest'
  BY <1>1, <1>4, LifetimeIsNat DEF AgesInv, SeenIsHonest, Counted, Old, Unknown
<1>6. PicturesAreHonest'
  BY <1>1 DEF AgesInv, AgesTyped, PicturesAreHonest, Honest
<1> QED
  BY <1>2, <1>3, <1>5, <1>6 DEF AgesInv

\* The first request of a connection is a sighting of this moment.
LEMMA AnnouncingIsHonest ==
    ASSUME AgesInv, StaysOver, NEW c \in Conns, NEW x \in Streams[c], Announce(c, x)
    PROVE  AgesInv'
<1>1. /\ seen' = [seen EXCEPT ![Host][c] = 0]
      /\ since' = [since EXCEPT ![c] = 0]
      /\ news' = news
  BY DEF Announce
<1>2. 0 \in Age
  BY LifetimeIsNat DEF Age, Ages, Old
<1>3. AgesTyped'
  BY <1>1, <1>2, LifetimeIsNat DEF AgesInv, AgesTyped
<1>4. HostAgrees'
  BY <1>1, LifetimeIsNat DEF AgesInv, AgesTyped, HostAgrees, StaysOver
<1>5. SeenIsHonest'
  <2> SUFFICES ASSUME NEW n \in Everyone, NEW d \in Conns, seen'[n][d] <= Lifetime
               PROVE  seen'[n][d] >= since'[d]
    BY DEF SeenIsHonest, Counted
  <2>1. seen'[n][d] \in Nat
    BY <1>3, AgesAreNumbers DEF AgesTyped
  <2>2. CASE d = c
    BY <1>1, <2>1, <2>2 DEF AgesInv, AgesTyped
  <2>3. CASE d # c
    BY <1>1, <2>3, LifetimeIsNat DEF AgesInv, AgesTyped, SeenIsHonest, Counted
  <2> QED
    BY <2>2, <2>3
<1>6. PicturesAreHonest'
  <2> SUFFICES ASSUME NEW l \in Neighbours, NEW d \in Conns
               PROVE  Honest(news'[l][d], since'[d])
    BY DEF PicturesAreHonest
  <2>1. news'[l][d] \in Nat
    BY <1>3, AgesAreNumbers DEF AgesTyped
  <2>2. CASE d = c
    BY <1>1, <2>1, <2>2 DEF AgesInv, AgesTyped, Honest
  <2>3. CASE d # c
    BY <1>1, <2>3 DEF AgesInv, AgesTyped, PicturesAreHonest
  <2> QED
    BY <2>2, <2>3
<1> QED
  BY <1>3, <1>4, <1>5, <1>6 DEF AgesInv

\* A picture is sent as its teller holds it, from whomever the teller has it.
LEMMA TellingIsHonest ==
    ASSUME AgesInv, StaysOver, NEW l \in Neighbours, TellSessions(l[1], l[2])
    PROVE  AgesInv'
<1>1. l = <<l[1], l[2]>> /\ l[1] \in Everyone
  BY LifetimeIsNat
<1>2. news' = [news EXCEPT ![l] = Picture(l[1])] /\ UNCHANGED <<seen, since>>
  BY <1>1 DEF TellSessions
<1>3. Picture(l[1]) \in [Conns -> Age]
  BY <1>1, LifetimeIsNat DEF Picture, AgesInv, AgesTyped, Age
<1>4. \A c \in Conns : Honest(Picture(l[1])[c], since[c])
  BY <1>1, LifetimeIsNat, AgesAreNumbers
     DEF Picture, AgesInv, AgesTyped, SeenIsHonest, Counted, Honest, Old, Unknown
<1>5. AgesTyped'
  BY <1>2, <1>3 DEF AgesInv, AgesTyped
<1>6. PicturesAreHonest'
  BY <1>2, <1>4 DEF AgesInv, AgesTyped, PicturesAreHonest
<1> QED
  BY <1>2, <1>5, <1>6 DEF AgesInv, HostAgrees, SeenIsHonest, Counted, StaysOver

\* A picture is taken in; the host takes nothing of its own sessions.
LEMMA MergingIsHonest ==
    ASSUME AgesInv, StaysOver, NEW l \in Neighbours, MergeSessions(l[1], l[2])
    PROVE  AgesInv'
<1> DEFINE n == l[2]
           merged == [c \in Conns |-> Later(seen[n][c], news[l][c])]
<1>1. l = <<l[1], n>> /\ n \in Everyone
  BY LifetimeIsNat
<1>2. /\ seen' = IF n = Host THEN seen ELSE [seen EXCEPT ![n] = merged]
      /\ news' = [news EXCEPT ![l] = NoSessions]
      /\ since' = since
  BY <1>1 DEF MergeSessions
<1>3. \A c \in Conns : merged[c] \in Age /\ Honest(merged[c], since[c])
  <2> SUFFICES ASSUME NEW c \in Conns
               PROVE  Later(seen[n][c], news[l][c]) \in Age
                      /\ Honest(Later(seen[n][c], news[l][c]), since[c])
    OBVIOUS
  <2>1. /\ seen[n][c] \in Age /\ news[l][c] \in Age /\ since[c] \in Age
        /\ Honest(seen[n][c], since[c]) /\ Honest(news[l][c], since[c])
    BY <1>1 DEF AgesInv, AgesTyped, SeenIsHonest, Counted, PicturesAreHonest, Honest
  <2> QED
    BY <2>1, LaterIsHonest
<1>4. merged \in [Conns -> Age]
  BY <1>3
<1>5. NoSessions \in [Conns -> Age] /\ \A c \in Conns : Honest(NoSessions[c], since[c])
  BY LifetimeIsNat DEF NoSessions, Age, Honest, Old, Unknown
<1> HIDE DEF merged, n
<1>6. AgesTyped'
  BY <1>1, <1>2, <1>4, <1>5 DEF AgesInv, AgesTyped
<1>7. seen'[Host] = seen[Host]
  BY <1>1, <1>2, LifetimeIsNat DEF AgesInv, AgesTyped
<1>8. HostAgrees'
  BY <1>2, <1>7 DEF AgesInv, HostAgrees, StaysOver
<1>9. SeenIsHonest'
  BY <1>1, <1>2, <1>3 DEF AgesInv, AgesTyped, SeenIsHonest, Counted, Honest
<1>10. PicturesAreHonest'
  BY <1>2, <1>5 DEF AgesInv, AgesTyped, PicturesAreHonest
<1> QED
  BY <1>6, <1>8, <1>9, <1>10 DEF AgesInv

\* A picture is lost on its way.
LEMMA LosingIsHonest ==
    ASSUME AgesInv, StaysOver, NEW l \in Neighbours, Lose(l[1], l[2])
    PROVE  AgesInv'
<1>1. l = <<l[1], l[2]>>
  BY LifetimeIsNat
<1>2. news' = [news EXCEPT ![l] = NoSessions] /\ UNCHANGED <<seen, since>>
  BY <1>1 DEF Lose
<1>3. NoSessions \in [Conns -> Age] /\ \A c \in Conns : Honest(NoSessions[c], since[c])
  BY LifetimeIsNat DEF NoSessions, Age, Honest, Old, Unknown
<1>4. AgesTyped' /\ PicturesAreHonest'
  BY <1>2, <1>3 DEF AgesInv, AgesTyped, PicturesAreHonest
<1> QED
  BY <1>2, <1>4 DEF AgesInv, HostAgrees, SeenIsHonest, Counted, StaysOver

\* Sweep forgets what is out of date.
LEMMA SweepingIsHonest ==
    ASSUME AgesInv, StaysOver, NEW n \in Everyone, Sweep(n)
    PROVE  AgesInv'
<1>1. UNCHANGED <<news, since>> /\ seen' \in [Everyone -> [Conns -> Age]]
  BY LifetimeIsNat DEF Sweep, AgesInv, AgesTyped, Age
<1>2. \A m \in Everyone, c \in Conns :
        \/ seen'[m][c] = seen[m][c]
        \/ seen[m][c] = Old /\ seen'[m][c] = Unknown
  BY DEF Sweep, AgesInv, AgesTyped
<1>3. HostAgrees'
  BY <1>1, <1>2, LifetimeIsNat
     DEF AgesInv, AgesTyped, HostAgrees, StaysOver, Old, Unknown
<1>4. SeenIsHonest'
  BY <1>1, <1>2, LifetimeIsNat DEF AgesInv, SeenIsHonest, Counted, Old, Unknown
<1> QED
  BY <1>1, <1>3, <1>4 DEF AgesInv, AgesTyped, PicturesAreHonest

\* Time passes on every node.
LEMMA TimeIsHonest ==
    ASSUME AgesInv, StaysOver, Tick
    PROVE  AgesInv'
<1>1. /\ \A n \in Everyone : seen[n] \in [Conns -> Age] /\ seen'[n] = Older(seen[n])
      /\ \A l \in Neighbours : news[l] \in [Conns -> Age] /\ news'[l] = Older(news[l])
      /\ since \in [Conns -> Age] /\ since' = Older(since)
      /\ seen' = [n \in Everyone |-> Older(seen[n])]
      /\ news' = [l \in Neighbours |-> Older(news[l])]
  BY DEF Tick, AgesInv, AgesTyped
<1>2. AgesTyped'
  BY <1>1, OlderIsTyped DEF AgesTyped
<1>3. HostAgrees'
  <2> SUFFICES ASSUME NEW c \in Conns, control'[c] # "over", since'[c] # Unknown
               PROVE  \/ seen'[Host][c] = since'[c]
                      \/ since'[c] = Old /\ seen'[Host][c] = Unknown
    BY DEF HostAgrees
  <2>1. /\ since'[c] = IF since[c] < Old THEN since[c] + 1 ELSE since[c]
        /\ seen'[Host][c] = IF seen[Host][c] < Old THEN seen[Host][c] + 1 ELSE seen[Host][c]
        /\ since[c] \in Age
    BY <1>1, OlderIsTyped, LifetimeIsNat
  <2>2. since[c] # Unknown /\ control[c] # "over"
    BY <2>1, LifetimeIsNat DEF Age, Ages, Old, Unknown, StaysOver
  <2>3. CASE seen[Host][c] = since[c]
    BY <2>1, <2>3
  <2>4. CASE since[c] = Old /\ seen[Host][c] = Unknown
    BY <2>1, <2>4, LifetimeIsNat DEF Old, Unknown
  <2> QED
    BY <2>2, <2>3, <2>4 DEF AgesInv, HostAgrees
<1>4. SeenIsHonest'
  <2> SUFFICES ASSUME NEW n \in Everyone, NEW c \in Conns
               PROVE  Honest(seen'[n][c], since'[c])
    BY DEF SeenIsHonest, Counted, Honest
  <2>1. Honest(seen[n][c], since[c])
    BY DEF AgesInv, SeenIsHonest, Counted, Honest
  <2>2. seen[n][c] \in Age /\ since[c] \in Age
    BY <1>1
  <2>3. /\ since'[c] = IF since[c] < Old THEN since[c] + 1 ELSE since[c]
        /\ seen'[n][c] = IF seen[n][c] < Old THEN seen[n][c] + 1 ELSE seen[n][c]
    BY <1>1, OlderIsTyped
  <2> QED
    BY <2>1, <2>2, <2>3, HonestGrowsOlder
<1>5. PicturesAreHonest'
  <2> SUFFICES ASSUME NEW l \in Neighbours, NEW c \in Conns
               PROVE  Honest(news'[l][c], since'[c])
    BY DEF PicturesAreHonest
  <2>1. Honest(news[l][c], since[c]) /\ news[l][c] \in Age /\ since[c] \in Age
    BY <1>1 DEF AgesInv, PicturesAreHonest
  <2>2. /\ since'[c] = IF since[c] < Old THEN since[c] + 1 ELSE since[c]
        /\ news'[l][c] = IF news[l][c] < Old THEN news[l][c] + 1 ELSE news[l][c]
    BY <1>1, OlderIsTyped
  <2> QED
    BY <2>1, <2>2, HonestGrowsOlder
<1> QED
  BY <1>2, <1>3, <1>4, <1>5 DEF AgesInv

\* Every step keeps sightings honest.
LEMMA SessionsStep == SessionsInv /\ [SessionsNext]_sessionsVars => SessionsInv'
<1> SUFFICES ASSUME SessionsInv, [SessionsNext]_sessionsVars PROVE SessionsInv'
  OBVIOUS
<1>0. AgesInv /\ HandlersInv /\ HandlersInv' /\ StaysOver
  BY HandlersStep DEF SessionsInv
<1>1. ASSUME NEW c \in Conns, Admit(c) \/ Register(c) \/ ForgetEntry(c)
      PROVE  AgesInv'
  BY <1>0, <1>1, AgesStay DEF Admit, Register, ForgetEntry
<1>2. ASSUME NEW c \in Conns, NEW x \in Streams[c], Lookup(c, x) \/ Activate(c, x)
      PROVE  AgesInv'
  BY <1>0, <1>2, AgesStay DEF Lookup, Activate
<1>3. ASSUME NEW c \in Conns, SessionDown(c) PROVE AgesInv'
  BY <1>0, <1>3, DownIsHonest
<1>4. ASSUME NEW c \in Conns, NEW x \in Streams[c], Announce(c, x) PROVE AgesInv'
  BY <1>0, <1>4, AnnouncingIsHonest
<1>5. ASSUME NEW l \in Neighbours, TellSessions(l[1], l[2]) PROVE AgesInv'
  BY <1>0, <1>5, TellingIsHonest
<1>6. ASSUME NEW l \in Neighbours, MergeSessions(l[1], l[2]) PROVE AgesInv'
  BY <1>0, <1>6, MergingIsHonest
<1>7. ASSUME NEW l \in Neighbours, Lose(l[1], l[2]) PROVE AgesInv'
  BY <1>0, <1>7, LosingIsHonest
<1>8. ASSUME NEW n \in Everyone, Sweep(n) PROVE AgesInv'
  BY <1>0, <1>8, SweepingIsHonest
<1>9. CASE Tick
  BY <1>0, <1>9, TimeIsHonest DEF SessionsInv
<1>10. CASE UNCHANGED sessionsVars
  BY <1>0, <1>10, AgesStay DEF sessionsVars, SessionsInv
<1> QED
  BY <1>0, <1>1, <1>2, <1>3, <1>4, <1>5, <1>6, <1>7, <1>8, <1>9, <1>10 DEF SessionsNext, SessionsInv

\* So it always holds.
LEMMA SessionsAlways == SessionsSpec => []SessionsInv
  BY SessionsBegin, SessionsStep, PTL DEF SessionsSpec

\* A connection that has announced itself within the lifetime counts on its
\* node, whatever the other connections of its device do (sessions.forget,
\* ledger.SessionUp, SessionDown, Merge, Sweep).
THEOREM AnnouncedCount == SessionsSpec => []WorkingCounts
<1>1. SessionsInv => WorkingCounts
  <2> SUFFICES ASSUME SessionsInv, NEW c \in Conns,
                      table[c] = "active", since[c] <= Lifetime
               PROVE  seen[Host][c] <= Lifetime
    BY DEF WorkingCounts, Counted
  <2>1. control[c] # "over"
    BY DEF SessionsInv, HandlersInv
  <2>2. since[c] # Unknown /\ since[c] # Old
    BY LifetimeIsNat DEF Old, Unknown
  <2> QED
    BY <2>1, <2>2 DEF SessionsInv, AgesInv, HostAgrees
<1> QED
  BY <1>1, SessionsAlways, PTL

\* Nobody believes a session to be fresher than it is, however often pictures
\* of it are passed on, between whatever neighbours, however late they come, and
\* whether they come at all (ledger.Snapshot, Merge).
THEOREM SightingsAreHonest == SessionsSpec => []SeenIsHonest
<1>1. SessionsInv => SeenIsHonest
  BY DEF SessionsInv, AgesInv
<1> QED
  BY <1>1, SessionsAlways, PTL
=============================================================================

---------------------------- MODULE Replication ----------------------------
(***************************************************************************)
(* Owners' devices and the nodes they manage: every edit is a record in    *)
(* the journal of a device (internal/ownerlog), kept in a file, which a    *)
(* call of the app reads, extends, saves and exchanges with a node         *)
(* (mobile/manage.go, mobile/owner.go).  A network begins as a genesis on  *)
(* one device; a fresh node gets its first journal from there (Adopt,      *)
(* PushLog, serveBootstrap); a second device gets it from a node (Fetch).  *)
(* A node stands for all it gossips with: what nodes exchange among        *)
(* themselves is the same exchange.  Its frames are SyncSession's: here it *)
(* is the records under way from one journal to another, applied one by    *)
(* one among those of other exchanges.  The app makes one call at a time.  *)
(***************************************************************************)
EXTENDS Reading, SequencesExt

CONSTANTS Devices,       \* owners' devices
          Servers,       \* the nodes' machines
          NodeOf,        \* NodeOf[s]: the node id machine s has in its config
          Home,          \* Home[k]: the device that signs with key k
          Founding,      \* the genesis record
          Founder,       \* the device the network was created on
          Edits,         \* <<kind, object>> pairs that get signed
          MaxSigned,     \* bound: edits
          MaxTime,       \* bound: the latest instant of a clock
          MaxBreaks      \* bound: exchanges that break off, calls that die

Replicas == Devices \cup Servers

ASSUME ReplicationConstants ==
    /\ Devices \cap Servers = {} /\ Founder \in Devices
    /\ Home \in [Keys -> Devices] /\ NodeOf \in [Servers -> Nodes]
    /\ MaxSigned \in Nat /\ MaxTime \in Nat /\ MaxBreaks \in Nat

\* Create signs the genesis with a key of its own device, and it passes.
ASSUME FoundingPasses ==
    /\ WellFormed(Founding) /\ Accepts(EmptyState, Founding, Kinds)
    /\ Home[Founding.key] = Founder

\* What manage.go signs founds no network and adds no node, and is about an
\* object of the right sort.
ASSUME EditsAreWellFormed ==
    \A e \in Edits : \A k \in Keys :
        /\ e[1] \notin {"genesis", "node.add"}
        /\ WellFormed([kind |-> e[1], key |-> k, ctr |-> 1, time |-> 1, obj |-> e[2],
                       scope |-> Operator, owners |-> {}, flaw |-> "none"])

VARIABLES log,      \* log[r]: the records r accepted, in its order; on a
                    \* device those of the call, or of the file between calls
          st,       \* st[r]: the state these records make
          file,     \* file[d]: oplog.bin of device d, and the state Open makes of it
          call,     \* call[d]: the app's call on device d
          sending,  \* sending[l]: records under way from l[1] to l[2]
          signed,   \* how many edits were signed
          breaks,   \* how many exchanges broke off and calls died
          lost      \* the records of adoptions that a node has taken and whose
                    \* device was never told

vars == <<log, st, file, call, sending, signed, breaks, lost>>

Links == (Devices \X Servers) \cup (Servers \X Devices)
Between(d, s) == {<<d, s>>, <<s, d>>}

NoCall == [phase |-> "none"]
Edited == [phase |-> "edited"]
Choosing(untried) == [phase |-> "choosing", untried |-> untried]
Syncing(s, owed, untried) ==
    [phase |-> "syncing", with |-> s, owed |-> owed, untried |-> untried]
Adopting(s, op) == [phase |-> "adopting", with |-> s, op |-> op]

RecordsAt(r) == RecordsOf(log[r])

\* The records of R in s, in their order.
Within(s, R) ==
    LET upto[i \in 0..Len(s)] ==
          IF i = 0 THEN <<>>
          ELSE IF s[i] \in R THEN Append(upto[i-1], s[i]) ELSE upto[i-1]
    IN  upto[Len(s)]

OfKey(r, k) == Within(log[r], SignedBy(RecordsAt(r), k))

\* Create: the network is born on a device, and nowhere else yet.
Init ==
    /\ log = [r \in Replicas |-> IF r = Founder THEN <<Founding>> ELSE <<>>]
    /\ st = [r \in Replicas |-> Loaded(log[r], Kinds).state]
    /\ file = [d \in Devices |-> [log |-> log[d], st |-> st[d]]]
    /\ call = [d \in Devices |-> NoCall]
    /\ sending = [l \in Links |-> <<>>]
    /\ signed = 0 /\ breaks = 0 /\ lost = {}

-----------------------------------------------------------------------------
\* What calls are made of.

In(d, phase) == call[d].phase = phase
Goes(d, to) == call' = [call EXCEPT ![d] = to]

Take(r, op) ==
    /\ log' = [log EXCEPT ![r] = Append(@, op)]
    /\ st' = [st EXCEPT ![r] = After(@, op, Kinds)]

\* The call is over without a save: what it had in memory is gone.
FromFile(d) ==
    /\ log' = [log EXCEPT ![d] = file[d].log]
    /\ st' = [st EXCEPT ![d] = file[d].st]

\* Records are only in memory if they were accepted there, in this order:
\* Open, which replays them, comes to the same state.
Save(d) == file' = [file EXCEPT ![d] = [log |-> log[d], st |-> st[d]]]

\* ownerSession: no call without a journal.
MayCall(d) == In(d, "none") /\ file[d].log # <<>>

\* State.NodesWithRole, on the device: the nodes of its journal.
Known(d) == {s \in Servers : st[d].content[NodeOf[s]] # Absent}

Quiet(d, s) == \A l \in Between(d, s) : sending[l] = <<>>
Drop(d, s) == [l \in Links |-> IF l \in Between(d, s) THEN <<>> ELSE sending[l]]

-----------------------------------------------------------------------------
\* Edits.

\* Journal.tick: later than all the journal holds, whatever the clock says.
Latest(r) == LET times == {op.time : op \in RecordsAt(r)}
             IN  IF times = {} THEN 0 ELSE CHOOSE t \in times : \A u \in times : u <= t

\* Journal.Next: the counter after the last one of this key in the journal.
Fresh(k, kind, obj, time) ==
    [kind |-> kind, key |-> k, ctr |-> st[Home[k]].counters[k] + 1,
     time |-> time, obj |-> obj, scope |-> Operator, owners |-> {},
     flaw |-> "none"]

\* What the methods of manage.go look at before they sign: a client is new
\* and has nodes to go to, what is changed is there, and a node stays.
Sensible(d, kind, obj) ==
    /\ kind = "client.add" => st[d].content[obj] = Absent /\ Known(d) # {}
    /\ kind \in NeedsObject => st[d].content[obj] # Absent
    /\ kind = "node.revoke" => \E s \in Known(d) : NodeOf[s] # obj

\* AddClient, RevokeClient, SetNetworkSettings and the like: the record is
\* signed and in the journal of the call, if the journal lets it.
Sign(k, kind, obj, time) ==
    /\ MayCall(Home[k])
    /\ signed < MaxSigned
    /\ Sensible(Home[k], kind, obj)
    /\ time > Latest(Home[k])
    /\ Accepts(st[Home[k]], Fresh(k, kind, obj, time), Kinds)
    /\ Take(Home[k], Fresh(k, kind, obj, time))
    /\ Goes(Home[k], Edited)
    /\ signed' = signed + 1
    /\ UNCHANGED <<file, sending, breaks, lost>>

\* Mistake: the edit is spread first and saved when it has been.
FinishUnsaved(d) ==
    /\ In(d, "edited")
    /\ Goes(d, Choosing(Known(d)))
    /\ UNCHANGED <<log, st, file, sending, signed, breaks, lost>>

\* finish: the file first, then the network.
Finish(d) ==
    /\ In(d, "edited")
    /\ Save(d)
    /\ Goes(d, Choosing(Known(d)))
    /\ UNCHANGED <<log, st, sending, signed, breaks, lost>>

\* SyncNetwork: nothing but the exchange.
SyncNetwork(d) ==
    /\ MayCall(d)
    /\ Goes(d, Choosing(Known(d)))
    /\ UNCHANGED <<log, st, file, sending, signed, breaks, lost>>

\* An owner's link is issued once there is a node to name in it.
LinkNames == {s \in Servers :
                \E i \in 1..Len(file[Founder].log) :
                    /\ file[Founder].log[i].kind = "node.add"
                    /\ file[Founder].log[i].obj = NodeOf[s]}

\* AdoptOwnerBundle on a device without a journal: Fetch from the link's nodes.
Restore(d) ==
    /\ In(d, "none") /\ file[d].log = <<>>
    /\ LinkNames # {}
    /\ Goes(d, Choosing(LinkNames))
    /\ UNCHANGED <<log, st, file, sending, signed, breaks, lost>>

-----------------------------------------------------------------------------
\* Push and Fetch: one node after the other until an exchange succeeds.

TryNext(d) ==
    /\ In(d, "choosing")
    /\ \/ \E s \in call[d].untried :
             Goes(d, Syncing(s, Between(d, s), call[d].untried \ {s}))
          /\ UNCHANGED <<log, st>>
       \/ /\ call[d].untried = {}
          /\ Goes(d, NoCall) /\ FromFile(d)
    /\ UNCHANGED <<file, sending, signed, breaks, lost>>

\* Mistake: a key the other side has nothing of is passed over.
SinceKnownKeys(r, have) ==
    Within(log[r], {op \in RecordsAt(r) : have[op.key] > 0 /\ op.ctr > have[op.key]})

\* Journal.Since and Store.Since.
Since(r, have) == Within(log[r], {op \in RecordsAt(r) : op.ctr > have[op.key]})

\* One half of the exchange: "to" has named its counters, "from" sends the rest.
Offer(d, l) ==
    /\ In(d, "syncing") /\ l \in call[d].owed
    /\ sending' = [sending EXCEPT ![l] = Since(l[1], st[l[2]].counters)]
    /\ Goes(d, [call[d] EXCEPT !.owed = @ \ {l}])
    /\ UNCHANGED <<log, st, file, signed, breaks, lost>>

Verdict(l) == Refusal(st[l[2]], Head(sending[l]), Kinds)
IsKnown(l) == Verdict(l) \in {"Replay", "DoubleGenesis"}
Refuses(l) == sending[l] # <<>> /\ Verdict(l) # "none" /\ ~IsKnown(l)

\* Import, one record: new ones are taken, known ones passed over.
Import(l) ==
    /\ sending[l] # <<>>
    /\ \/ Verdict(l) = "none" /\ Take(l[2], Head(sending[l]))
       \/ IsKnown(l) /\ UNCHANGED <<log, st>>
    /\ sending' = [sending EXCEPT ![l] = Tail(@)]
    /\ UNCHANGED <<file, call, signed, breaks, lost>>

\* Any other error ends the import.  The device that meets it gives this node
\* up; one whose records the node refuses has written them and reads on, but
\* its adoption has failed (serveBootstrap).
Refuse(l) ==
    /\ Refuses(l)
    /\ IF l[2] \in Devices
       THEN /\ sending' = Drop(l[2], l[1])
            /\ Goes(l[2], Choosing(call[l[2]].untried))
       ELSE /\ sending' = [sending EXCEPT ![l] = <<>>]
            /\ IF In(l[1], "adopting") THEN Goes(l[1], NoCall) ELSE UNCHANGED call
    /\ UNCHANGED <<log, st, file, signed, breaks, lost>>

\* The exchange has succeeded: what came is saved.
Pushed(d) ==
    /\ In(d, "syncing") /\ call[d].owed = {} /\ Quiet(d, call[d].with)
    /\ Save(d)
    /\ Goes(d, NoCall)
    /\ UNCHANGED <<log, st, sending, signed, breaks, lost>>

\* The node does not answer, or the connection is gone.
Break(d) ==
    /\ In(d, "syncing")
    /\ breaks < MaxBreaks
    /\ sending' = Drop(d, call[d].with)
    /\ Goes(d, Choosing(call[d].untried))
    /\ breaks' = breaks + 1
    /\ UNCHANGED <<log, st, file, signed, lost>>

\* The app is killed, or the file cannot be written.
Die(d) ==
    /\ call[d].phase \in {"edited", "syncing"}
    /\ breaks < MaxBreaks
    /\ sending' = IF In(d, "syncing") THEN Drop(d, call[d].with) ELSE sending
    /\ FromFile(d)
    /\ Goes(d, NoCall)
    /\ breaks' = breaks + 1
    /\ UNCHANGED <<file, signed, lost>>

-----------------------------------------------------------------------------
\* Adoption of a fresh node: it introduces itself, and takes a journal, only as
\* long as it has none.

\* Mistake: the node's record is in the journal before the node has taken it.
AdoptAtOnce(k, s, time) ==
    /\ MayCall(Home[k])
    /\ log[s] = <<>>
    /\ LET op == Fresh(k, "node.add", NodeOf[s], time)
       IN  /\ Accepts(st[Home[k]], op, Kinds)
           /\ Take(Home[k], op)
           /\ sending' = [sending EXCEPT ![<<Home[k], s>>] = Append(log[Home[k]], op)]
           /\ Goes(Home[k], Adopting(s, op))
    /\ UNCHANGED <<file, signed, breaks, lost>>

\* The record is tried on a copy of the journal, and the copy is sent.  Its
\* time is the clock's: tick is not asked.
Adopt(k, s, time) ==
    /\ MayCall(Home[k])
    /\ log[s] = <<>>
    /\ LET op == Fresh(k, "node.add", NodeOf[s], time)
       IN  /\ Accepts(st[Home[k]], op, Kinds)
           /\ sending' = [sending EXCEPT ![<<Home[k], s>>] = Append(log[Home[k]], op)]
           /\ Goes(Home[k], Adopting(s, op))
    /\ UNCHANGED <<log, st, file, signed, breaks, lost>>

\* The node has answered: now the journal has the record too, and the file.
Adopted(d) ==
    /\ In(d, "adopting") /\ Quiet(d, call[d].with)
    /\ Take(d, call[d].op)
    /\ file' = [file EXCEPT ![d] = [log |-> Append(log[d], call[d].op),
                                    st |-> After(st[d], call[d].op, Kinds)]]
    /\ Goes(d, NoCall)
    /\ UNCHANGED <<sending, signed, breaks, lost>>

\* The node is not reached, or has a journal by now (serveBootstrap); or the
\* connection goes half way, the answer is lost, the app is killed.  The journal
\* stays without the record, whatever the node has taken.
AdoptionFails(d) ==
    /\ In(d, "adopting")
    /\ lost' = lost \cup ({call[d].op} \cap RecordsAt(call[d].with))
    /\ sending' = Drop(d, call[d].with)
    /\ Goes(d, NoCall)
    /\ UNCHANGED <<log, st, file, signed, breaks>>

-----------------------------------------------------------------------------
Next ==
    \/ \E k \in Keys, t \in 1..MaxTime :
          \/ \E e \in Edits : Sign(k, e[1], e[2], t)
          \/ \E s \in Servers : Adopt(k, s, t)
    \/ \E d \in Devices :
          \/ Finish(d) \/ SyncNetwork(d) \/ Restore(d)
          \/ TryNext(d) \/ Pushed(d) \/ Break(d) \/ Die(d)
          \/ Adopted(d) \/ AdoptionFails(d)
          \/ \E l \in Links : Offer(d, l)
    \/ \E l \in Links : Import(l) \/ Refuse(l)

\* A call that has begun goes on, and its exchange with it: each step brings
\* its end nearer.  Nobody has to call.
GoesOn(d) ==
    \/ Finish(d) \/ TryNext(d) \/ Pushed(d) \/ Adopted(d)
    \/ \E s \in Servers : \E l \in Between(d, s) : Offer(d, l) \/ Import(l) \/ Refuse(l)

Fairness == \A d \in Devices : WF_vars(GoesOn(d))

Spec == Init /\ [][Next]_vars
FairSpec == Spec /\ Fairness

-----------------------------------------------------------------------------
\* What a device has in hand for a fresh node.
Hand(d) == IF In(d, "adopting") THEN {call[d].op} ELSE {}

\* A device that was not told signs another record with the number of the lost one.
Doubled(op) == \E p \in lost : p # op /\ p.key = op.key /\ p.ctr = op.ctr

Forked(k) ==
    \E op \in lost \cup RecordsAt(Home[k]) \cup Hand(Home[k]) : op.key = k /\ Doubled(op)

\* Two journals that have got equally far with every key hold the same state,
\* in whatever order the records reached them: the promise that lets one
\* number per key stand for a journal (control.Offer; state.go, write).  With a
\* forked key they may be equally far and have gone two ways.
SameCountersSameState ==
    \A a, b \in Replicas :
        /\ st[a].counters = st[b].counters
        /\ \A k \in Keys : Forked(k) => OfKey(a, k) = OfKey(b, k)
        => st[a] = st[b]

\* What anybody holds of a key is a beginning of what its device has signed
\* and still knows: no gaps, no forks, no counter used twice, though the app
\* may die between the edit, the save and the exchange (finish; Journal.Next).
\* One record may be ahead of the device, of an adoption that is under way or
\* whose answer was lost; a key that was forked by the latter is excepted.
Ahead(k) == SignedBy(lost \cup Hand(Home[k]), k) \ RecordsAt(Home[k])
Tails(k) == {<<>>} \cup {<<op>> : op \in Ahead(k)}
OnlyWhatWasSigned ==
    \A r \in Replicas, k \in Keys :
        ~Forked(k) => \E tail \in Tails(k) : IsPrefix(OfKey(r, k), OfKey(Home[k], k) \o tail)

\* The part of it a lost answer breaks: one counter of a key, one record.
NoCounterTwice ==
    \A a, b \in Replicas : \A p \in RecordsAt(a), q \in RecordsAt(b) :
        p.key = q.key /\ p.ctr = q.ctr => p = q

\* No journal names a node that has not taken it: clients would be sent to
\* nobody (Adopt's comment: the record is added once the node has accepted it).
\* A node may think it knows a record whose number belongs to a lost one as well.
AdoptedTookIt ==
    \A r \in Replicas, s \in Servers : \A op \in RecordsAt(r) :
        op.kind = "node.add" /\ op.obj = NodeOf[s] => op \in RecordsAt(s) \/ Doubled(op)

\* A bootstrap is taken whole or not at all: a node with a journal is in it
\* (serveBootstrap takes no second one).  A connection lost half way breaks it.
BootstrapIsWhole ==
    \A s \in Servers :
        log[s] # <<>> /\ (\A d \in Devices : Quiet(d, s))
            => st[s].content[NodeOf[s]] # Absent

\* Once nobody edits, all journals come to the same counters and the same
\* state, as long as the owners open their apps now and then; or else a journal
\* refuses for good what it is sent, or a key was forked (store.go, package
\* comment: the order differs between nodes "and this does not matter").
Agreed == \A a, b \in Replicas : st[a] = st[b]
OwnersComeBack == \A d \in Devices : []<>In(d, "choosing")
Refused == \E l \in Links : Refuses(l)
Convergence ==
    OwnersComeBack => <>[]Agreed \/ []<>Refused \/ []<>(\E k \in Keys : Forked(k))

\* The promise as the comment gives it, without the exception.
AlwaysConverges == OwnersComeBack => <>[]Agreed
=============================================================================

-------------------------------- MODULE Watch --------------------------------
(***************************************************************************)
(* Settings at work: how a change in the journal reaches those who wait for *)
(* one.  Store.Changed hands out a channel that the next change closes; the *)
(* goroutines watchDNS and watchRate of cmd/qd-node and ServeSnapshots of   *)
(* internal/control wait on it, each in its own order of subscribing and    *)
(* reading; SetSendMbps and connContext (node/rate.go) carry the rate on to *)
(* the connections.  Settings are versions: 0 is what the node starts with. *)
(* A version gives a rate for the node's sending, or none: what the journal *)
(* leaves at zero is taken from the file, and that may be zero as well      *)
(* (brutalDown).                                                            *)
(***************************************************************************)
EXTENDS Naturals

CONSTANTS Conns,      \* connections that come in
          Early,      \* records may arrive before the watchers have started
          MaxEdits    \* bound: changes of the settings

ASSUME WatchConstants == Early \in BOOLEAN /\ MaxEdits \in Nat

Watchers == {"dns", "rate", "snapshots"}

VARIABLES settings,   \* the version in the journal
          ceiling,    \* it gives a rate that is more than zero
          channel,    \* how many channels of Changed have been closed
          pc,         \* pc[w]: where watcher w is
          waits,      \* waits[w]: the channel it holds
          applied,    \* applied[w]: the version it believes to have applied
          inForce,    \* inForce[w]: resolver, node.sendMbps, client's snapshot
          todo,       \* connections SetSendMbps has still to visit
          conn,       \* conn[c]: how far connContext is
          rate        \* rate[c]: the version connection c sends by; before it
                      \* is set, the one connContext has loaded

vars == <<settings, ceiling, channel, pc, waits, applied, inForce, todo, conn, rate>>

NoRate == MaxEdits + 1
Rates == 0..NoRate

\* brutalDown: the rate of the version in the journal.
BrutalDown == IF ceiling THEN settings ELSE NoRate

Init ==
    /\ settings = 0 /\ channel = 0 /\ ceiling \in BOOLEAN
    /\ pc = [w \in Watchers |-> IF w = "snapshots" THEN "subscribe" ELSE "start"]
    /\ waits = [w \in Watchers |-> 0]
    /\ applied = [w \in Watchers |-> 0]
    /\ inForce = [w \in Watchers |-> IF w = "rate" THEN BrutalDown ELSE 0]
    /\ todo = {}
    /\ conn = [c \in Conns |-> "new"]
    /\ rate = [c \in Conns |-> BrutalDown]

Started == \A w \in Watchers : pc[w] # "start"

\* Append of a settings.set: the state changes and announce closes the channel,
\* both under the store's lock.
Edit ==
    /\ settings < MaxEdits
    /\ Early \/ Started
    /\ settings' = settings + 1
    /\ ceiling' \in BOOLEAN
    /\ channel' = channel + 1
    /\ UNCHANGED <<pc, waits, applied, inForce, todo, conn, rate>>

-----------------------------------------------------------------------------
\* What the loops are made of.

Goes(w, to) == pc' = [pc EXCEPT ![w] = to]

\* changed := st.Changed()
Subscribe(w, next) ==
    /\ pc[w] = "subscribe"
    /\ waits' = [waits EXCEPT ![w] = channel]
    /\ Goes(w, next)
    /\ UNCHANGED <<settings, ceiling, channel, applied, inForce, todo, conn, rate>>

\* <-changed
Woken(w, next) ==
    /\ pc[w] = "wait"
    /\ channel > waits[w]
    /\ Goes(w, next)
    /\ UNCHANGED <<settings, ceiling, channel, waits, applied, inForce, todo, conn, rate>>

\* applied := what the journal says when the goroutine begins; what is in force
\* was built from the journal before.
Says(w) == IF w = "rate" THEN BrutalDown ELSE settings

Begin(w) ==
    /\ pc[w] = "start"
    /\ applied' = [applied EXCEPT ![w] = Says(w)]
    /\ Goes(w, "subscribe")
    /\ UNCHANGED <<settings, ceiling, channel, waits, inForce, todo, conn, rate>>

\* watchDNS: subscribe, wait, then read, and round again.
ConfigureDNS ==
    /\ pc["dns"] = "read"
    /\ applied' = [applied EXCEPT !["dns"] = settings]
    /\ inForce' = IF settings = applied["dns"] THEN inForce
                  ELSE [inForce EXCEPT !["dns"] = settings]
    /\ Goes("dns", "subscribe")
    /\ UNCHANGED <<settings, ceiling, channel, waits, todo, conn, rate>>

WatchDNS == Subscribe("dns", "wait") \/ Woken("dns", "read") \/ ConfigureDNS

\* ServeSnapshots: subscribe, read, then wait.
SendSnapshot ==
    /\ pc["snapshots"] = "read"
    /\ inForce' = [inForce EXCEPT !["snapshots"] = settings]
    /\ Goes("snapshots", "wait")
    /\ UNCHANGED <<settings, ceiling, channel, waits, applied, todo, conn, rate>>

\* Mistake: the snapshot is sent first, the channel is taken after it.
ServeThenSubscribe ==
    \/ Subscribe("snapshots", "wait") \/ Woken("snapshots", "read")
    \/ /\ pc["snapshots"] = "read"
       /\ inForce' = [inForce EXCEPT !["snapshots"] = settings]
       /\ Goes("snapshots", "subscribe")
       /\ UNCHANGED <<settings, ceiling, channel, waits, applied, todo, conn, rate>>

ServeSnapshots ==
    \/ Subscribe("snapshots", "read") \/ SendSnapshot \/ Woken("snapshots", "subscribe")

\* SetSendMbps: a rate of zero is not stored and visits nobody.
SetSendMbps(mbps) ==
    IF mbps = NoRate THEN Goes("rate", "wait") /\ UNCHANGED inForce
    ELSE /\ Goes("rate", "list")
         /\ inForce' = [inForce EXCEPT !["rate"] = mbps]

\* Mistake: only the connections there are get the new rate, not the node.
ReadRateForConns ==
    /\ pc["rate"] = "read"
    /\ Goes("rate", IF BrutalDown \in {applied["rate"], NoRate} THEN "wait" ELSE "list")
    /\ applied' = [applied EXCEPT !["rate"] = BrutalDown]
    /\ UNCHANGED <<settings, ceiling, channel, waits, inForce, todo, conn, rate>>

\* watchRate: subscribe, read, set if it is new, then wait.  The new rate is
\* taken for applied whether or not SetSendMbps has stored it.
ReadRate ==
    /\ pc["rate"] = "read"
    /\ IF BrutalDown = applied["rate"]
       THEN Goes("rate", "wait") /\ UNCHANGED inForce
       ELSE SetSendMbps(BrutalDown)
    /\ applied' = [applied EXCEPT !["rate"] = BrutalDown]
    /\ UNCHANGED <<settings, ceiling, channel, waits, todo, conn, rate>>

\* each: the list is taken under the lock, the visits are made outside it.
Tracked == {c \in Conns : conn[c] # "new"}

ListConns ==
    /\ pc["rate"] = "list"
    /\ todo' = Tracked
    /\ Goes("rate", "visit")
    /\ UNCHANGED <<settings, ceiling, channel, waits, applied, inForce, conn, rate>>

Visit(c) ==
    /\ pc["rate"] = "visit" /\ c \in todo
    /\ todo' = todo \ {c}
    /\ rate' = IF conn[c] = "loaded" /\ rate[c] # NoRate THEN rate
               ELSE [rate EXCEPT ![c] = inForce["rate"]]
    /\ UNCHANGED <<settings, ceiling, channel, pc, waits, applied, inForce, conn>>

Visited ==
    /\ pc["rate"] = "visit" /\ todo = {}
    /\ Goes("rate", "wait")
    /\ UNCHANGED <<settings, ceiling, channel, waits, applied, inForce, todo, conn, rate>>

WatchRate ==
    \/ Subscribe("rate", "read") \/ ReadRate \/ ListConns \/ Visited
    \/ Woken("rate", "subscribe")
    \/ \E c \in Conns : Visit(c)

-----------------------------------------------------------------------------
\* connContext of a connection that has come in: track, load, set.

Track(c) ==
    /\ conn[c] = "new"
    /\ conn' = [conn EXCEPT ![c] = "tracked"]
    /\ UNCHANGED <<settings, ceiling, channel, pc, waits, applied, inForce, todo, rate>>

\* What a visit sets now will be overwritten: rate holds what was loaded.  When
\* that is none, connContext sets nothing.
Load(c) ==
    /\ conn[c] = "tracked"
    /\ conn' = [conn EXCEPT ![c] = "loaded"]
    /\ rate' = [rate EXCEPT ![c] = inForce["rate"]]
    /\ UNCHANGED <<settings, ceiling, channel, pc, waits, applied, inForce, todo>>

SetRate(c) ==
    /\ conn[c] = "loaded"
    /\ conn' = [conn EXCEPT ![c] = "set"]
    /\ UNCHANGED <<settings, ceiling, channel, pc, waits, applied, inForce, todo, rate>>

ConnContext(c) == Track(c) \/ Load(c) \/ SetRate(c)

Next ==
    \/ Edit
    \/ Begin("dns") \/ Begin("rate")
    \/ WatchDNS \/ WatchRate \/ ServeSnapshots
    \/ \E c \in Conns : ConnContext(c)

\* The goroutines run; nobody has to edit and no connection to come.
Fairness ==
    /\ WF_vars(Begin("dns")) /\ WF_vars(Begin("rate"))
    /\ WF_vars(WatchDNS) /\ WF_vars(WatchRate) /\ WF_vars(ServeSnapshots)
    /\ \A c \in Conns : WF_vars(Load(c) \/ SetRate(c))

Spec == Init /\ [][Next]_vars
FairSpec == Spec /\ Fairness

-----------------------------------------------------------------------------
TypeOK ==
    /\ settings \in 0..MaxEdits /\ channel = settings /\ ceiling \in BOOLEAN
    /\ pc \in [Watchers -> {"start", "subscribe", "read", "wait", "list", "visit"}]
    /\ waits \in [Watchers -> 0..MaxEdits] /\ inForce \in [Watchers -> Rates]
    /\ applied \in [Watchers -> Rates]
    /\ todo \subseteq Conns /\ rate \in [Conns -> Rates]
    /\ conn \in [Conns -> {"new", "tracked", "loaded", "set"}]

Settled(w) == <>[](inForce[w] = settings)

\* A client ends up with the settings of the journal: no edit falls between
\* taking the channel and taking the state (ServeSnapshots' comment).
SnapshotsFollow == Settled("snapshots")

\* So does the node's rate, when the journal ends with one (watchRate's comment:
\* the channel is taken before the state, the other way round would be a gap an
\* edit slips through), whatever it was before: a version without a rate, which
\* is marked as applied and not stored, does not hide a later one.
RateFollows == <>[](ceiling => inForce["rate"] = settings)

\* And when it ends with none, the node sends without a ceiling (payload.go:286:
\* zero means ordinary Cubic).  The code breaks this: SetSendMbps stores no zero.
RateEnds == <>[](inForce["rate"] = BrutalDown)

\* And its resolver (main.go: the settings come with the journal and change on
\* the fly).
DnsFollows == Settled("dns")

\* Every connection sends by the rate of the node in the end, whenever it came
\* in (connContext's comment: a connection that comes after the edit must not
\* get the old number).
ConnectionsFollow ==
    <>[](\A c \in Conns : conn[c] = "set" => rate[c] = inForce["rate"])
=============================================================================

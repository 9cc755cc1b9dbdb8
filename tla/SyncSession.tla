---------------------------- MODULE SyncSession ----------------------------
(***************************************************************************)
(* One connection between two journals: control.Sync and, between nodes,   *)
(* control.ExchangeUsage after it, round after round.  The dialler is an   *)
(* owner's device or the node that raised the link, the answerer is the    *)
(* node behind the handler.  Each side runs a reader and a writer, and a   *)
(* reader that refuses what it got leaves a third goroutine behind, which  *)
(* names the reason.  A stream carries chunks of frames and holds Window   *)
(* of them; a write waits when it is full.                                 *)
(*                                                                         *)
(* What the records do to a journal is Store's and Replication's business: *)
(* here a side takes them or refuses one of them, as its mood is.          *)
(***************************************************************************)
EXTENDS Naturals, Sequences

CONSTANTS Window,            \* chunks a stream holds
          Size,              \* Size[s]: chunks of a long frame of side s
          Moods,             \* moods a side may be in
          Diallers,          \* who may dial: a "device", a "node"
          MayBreak,          \* the network may cut the line
          MaxRounds          \* bound: rounds between nodes on one connection

Dialler == "dialler"
Answerer == "answerer"
Sides == {Dialler, Answerer}
Other(s) == CHOOSE o \in Sides : o # s

ASSUME SyncSessionConstants ==
    /\ Window \in Nat \ {0} /\ Size \in [Sides -> Nat \ {0}]
    /\ Moods \subseteq {"fine", "refuses", "unreadable"}
    /\ Diallers \subseteq {"device", "node"} /\ MayBreak \in BOOLEAN
    /\ MaxRounds \in Nat \ {0}

VARIABLES who,      \* who has dialled
          side,     \* side[s]: the goroutines of side s and its Sync call
          stream,   \* stream[s]: chunks s wrote and the other did not read yet
          line,     \* the connection: "open", "closed", "broken"
          left      \* the handler has returned: the answerer's end is closed

syncVars == <<who, side, stream, line, left>>

Frames == {"offer", "records", "done", "usage", "reject"}
Results == {"ok", "failed", "rejected"}

\* A call of Sync: the reader waits for the frame it is named for, the writer
\* writes the frame it is named for, or waits for the other side's offer.
SyncStarts(mood, round) ==
    [mood |-> mood, round |-> round, call |-> "sync",
     reader |-> "offer", part |-> 0,
     writer |-> "offer", at |-> 0, offered |-> "unknown",
     rejecter |-> "none", lock |-> "free", taken |-> {},
     imported |-> "nothing", result |-> "running"]

\* A call of ExchangeUsage after it.
UsageStarts(me) ==
    [me EXCEPT !.call = "usage", !.reader = "usage", !.writer = "usage", !.taken = {}]

SyncInit ==
    /\ who \in Diallers
    /\ side \in {[s \in Sides |-> SyncStarts(mood[s], 1)] : mood \in [Sides -> Moods]}
    /\ stream = [s \in Sides |-> <<>>]
    /\ line = "open"
    /\ left = FALSE

Length(s, kind) == IF kind \in {"records", "usage"} THEN Size[s] ELSE 1

-----------------------------------------------------------------------------
\* The stream.

Alive(s) == line = "open" /\ ~(s = Answerer /\ left)
CanWrite(s) == Alive(s) /\ ~left /\ Len(stream[s]) < Window
WriteFails(s) == ~Alive(s) \/ left
CanRead(s) == Alive(s) /\ stream[Other(s)] # <<>>
ReadFails(s) == ~Alive(s) \/ (left /\ stream[Other(s)] = <<>>)

Chunk(s, kind, i) == [kind |-> kind, i |-> i, last |-> i = Length(s, kind)]

Put(s, chunk) == stream' = [stream EXCEPT ![s] = Append(@, chunk)]
Become(s, me) == side' = [side EXCEPT ![s] = me]

-----------------------------------------------------------------------------
\* The writer: offer, then what the other side lacks, then done.

NextFrame(kind) == CASE kind = "offer"   -> "wait"
                     [] kind = "records" -> "done"
                     [] kind = "done"    -> "ok"
                     [] kind = "usage"   -> "ok"

\* Mistake: the lock is taken for each chunk, not for the frame.
LockAfterChunk(me, length) == "free"

\* lockedWriter: a frame is written in one Write, under the lock.
LockAfter(me, length) == IF me.at + 1 = length THEN "free" ELSE "writer"

WriteChunk(s) ==
    LET me == side[s] IN
    /\ me.writer \in Frames
    /\ me.lock \in {"free", "writer"}
    /\ CanWrite(s)
    /\ Put(s, Chunk(s, me.writer, me.at + 1))
    /\ Become(s,
         IF me.at + 1 = Length(s, me.writer)
         THEN [me EXCEPT !.writer = NextFrame(@), !.at = 0, !.lock = LockAfter(me, Length(s, me.writer))]
         ELSE [me EXCEPT !.at = @ + 1, !.lock = LockAfter(me, Length(s, me.writer))])
    /\ UNCHANGED <<who, line, left>>

WriteError(s) ==
    LET me == side[s] IN
    /\ me.writer \in Frames
    /\ me.lock \in {"free", "writer"}
    /\ WriteFails(s)
    /\ Become(s, [me EXCEPT !.writer = "failed", !.at = 0, !.lock = "free"])
    /\ UNCHANGED <<who, stream, line, left>>

\* The other side's offer has come, or the reader has failed to get one; then
\* the journal is asked for the records, which may fail too.
OfferKnown(s) ==
    LET me == side[s] IN
    /\ me.writer = "wait"
    /\ me.offered # "unknown"
    /\ Become(s, [me EXCEPT !.writer =
                    IF me.offered = "closed" THEN "ok"
                    ELSE IF me.mood = "unreadable" THEN "failed"
                    ELSE "records"])
    /\ UNCHANGED <<who, stream, line, left>>

-----------------------------------------------------------------------------
\* The reader.

\* It gives up: before the offer the writer is let go, after it the reason is
\* to be named, by a goroutine nobody waits for.
GivesUp(me) ==
    IF me.reader = "offer" THEN [me EXCEPT !.reader = "failed", !.offered = "closed"]
    ELSE IF me.call = "sync" THEN [me EXCEPT !.reader = "failed", !.rejecter = "writing"]
    ELSE [me EXCEPT !.reader = "failed"]

\* It has read a whole frame of this kind.
Handles(me, kind) ==
    IF kind = "reject" /\ me.call = "sync"
    THEN [me EXCEPT !.reader = "rejected",
                    !.offered = IF me.reader = "offer" THEN "closed" ELSE @]
    ELSE IF kind # me.reader THEN GivesUp(me)
    ELSE CASE kind = "offer" -> [me EXCEPT !.reader = "records", !.offered = "known"]
           [] kind = "records" ->
                IF me.mood = "refuses" THEN GivesUp([me EXCEPT !.imported = "some"])
                ELSE [me EXCEPT !.reader = "done", !.imported = "all"]
           [] kind \in {"done", "usage"} -> [me EXCEPT !.reader = "ok"]

ReadChunk(s) ==
    LET me == side[s]
        chunk == Head(stream[Other(s)])
    IN
    /\ me.reader \in Frames
    /\ CanRead(s)
    /\ stream' = [stream EXCEPT ![Other(s)] = Tail(@)]
    /\ Become(s, IF chunk.last THEN Handles([me EXCEPT !.part = 0], chunk.kind)
                 ELSE [me EXCEPT !.part = @ + 1])
    /\ UNCHANGED <<who, line, left>>

ReadError(s) ==
    /\ side[s].reader \in Frames
    /\ ReadFails(s)
    /\ Become(s, GivesUp(side[s]))
    /\ UNCHANGED <<who, stream, line, left>>

\* The goroutine that names the reason.
Reject(s) ==
    /\ side[s].rejecter = "writing"
    /\ side[s].lock = "free"
    /\ IF WriteFails(s) THEN UNCHANGED stream
       ELSE CanWrite(s) /\ Put(s, Chunk(s, "reject", 1))
    /\ Become(s, [side[s] EXCEPT !.rejecter = "gone"])
    /\ UNCHANGED <<who, line, left>>

-----------------------------------------------------------------------------
\* The calls themselves.

\* Nodes go on with the next round, a device has what it came for.
RoundEnds(me) ==
    IF who = "device" \/ me.round = MaxRounds THEN [me EXCEPT !.result = "ok"]
    ELSE SyncStarts(me.mood, me.round + 1)

\* Mistake: the first half that is through ends the call, however it went.
SyncTakesOne(s, half) ==
    LET me == side[s]
        got == IF half = "reader" THEN me.reader ELSE me.writer
    IN
    /\ me.result = "running" /\ me.call = "sync"
    /\ got \in Results
    /\ Become(s, IF got # "ok" THEN [me EXCEPT !.result = got] ELSE RoundEnds(me))
    /\ UNCHANGED <<who, stream, line, left>>

\* The select of Sync: the first half that failed ends the call.
SyncTakes(s, half) ==
    LET me == side[s]
        got == IF half = "reader" THEN me.reader ELSE me.writer
    IN
    /\ me.result = "running" /\ me.call = "sync"
    /\ half \notin me.taken /\ got \in Results
    /\ Become(s,
         IF got # "ok" THEN [me EXCEPT !.result = got]
         ELSE IF me.taken = {} THEN [me EXCEPT !.taken = {half}]
         ELSE IF who = "node" THEN UsageStarts(me)
         ELSE RoundEnds(me))
    /\ UNCHANGED <<who, stream, line, left>>

\* ExchangeUsage waits for both halves, whatever became of them.
UsageEnds(s) ==
    LET me == side[s] IN
    /\ me.result = "running" /\ me.call = "usage"
    /\ me.reader \in Results /\ me.writer \in Results
    /\ Become(s, IF me.reader = "ok" /\ me.writer = "ok" THEN RoundEnds(me)
                 ELSE [me EXCEPT !.result = "failed"])
    /\ UNCHANGED <<who, stream, line, left>>

\* Mistake: an exchange that failed leaves the connection open.
CloseAfterSuccess ==
    /\ line = "open"
    /\ side[Dialler].result = "ok" /\ who = "device"
    /\ line' = "closed"
    /\ stream' = [s \in Sides |-> <<>>]
    /\ UNCHANGED <<who, side, left>>

\* defer conn.Close(), once the dialler has what it came for or has failed: all
\* that is under way, in both directions, is lost.
Close ==
    /\ line = "open"
    /\ \/ side[Dialler].result \in {"failed", "rejected"}
       \/ side[Dialler].result = "ok" /\ who = "device"
    /\ line' = "closed"
    /\ stream' = [s \in Sides |-> <<>>]
    /\ UNCHANGED <<who, side, left>>

\* The handler returns with the error of Sync: the stream is finished, what
\* was written on it still arrives.
Leave ==
    /\ ~left
    /\ side[Answerer].result \in {"failed", "rejected"}
    /\ left' = TRUE
    /\ UNCHANGED <<who, side, stream, line>>

\* The network.
Break ==
    /\ MayBreak
    /\ line = "open"
    /\ line' = "broken"
    /\ stream' = [s \in Sides |-> <<>>]
    /\ UNCHANGED <<who, side, left>>

Steps(s) ==
    \/ WriteChunk(s) \/ WriteError(s) \/ OfferKnown(s)
    \/ ReadChunk(s) \/ ReadError(s) \/ Reject(s)
    \/ \E half \in {"reader", "writer"} : SyncTakes(s, half)
    \/ UsageEnds(s)

SyncNext == (\E s \in Sides : Steps(s)) \/ Close \/ Leave \/ Break

\* The runtime schedules every goroutine and QUIC delivers while the line is
\* up; nothing obliges the network to break.
SyncFairness ==
    /\ \A s \in Sides :
         /\ WF_syncVars(WriteChunk(s) \/ WriteError(s) \/ OfferKnown(s))
         /\ WF_syncVars(ReadChunk(s) \/ ReadError(s))
         /\ WF_syncVars(Reject(s))
         /\ WF_syncVars((\E half \in {"reader", "writer"} : SyncTakes(s, half)) \/ UsageEnds(s))
    /\ WF_syncVars(Close) /\ WF_syncVars(Leave)

SyncSpec == SyncInit /\ [][SyncNext]_syncVars
SyncFairSpec == SyncSpec /\ SyncFairness

-----------------------------------------------------------------------------
SyncTypeOK ==
    /\ \A s \in Sides :
         /\ side[s].mood \in Moods /\ side[s].round \in 1..MaxRounds
         /\ side[s].reader \in Frames \cup Results
         /\ side[s].writer \in Frames \cup Results \cup {"wait"}
         /\ side[s].lock \in {"free", "writer"}
         /\ side[s].result \in Results \cup {"running"}
         /\ side[s].at < Length(s, side[s].writer)
         /\ Len(stream[s]) <= Window
    /\ line \in {"open", "closed", "broken"} /\ left \in BOOLEAN

\* Frames are never mixed: what arrives next continues the frame that is being
\* read, although two goroutines write (lockedWriter).
WholeFrames ==
    \A s \in Sides :
        stream[Other(s)] # <<>> => Head(stream[Other(s)]).i = side[s].part + 1

\* The sides stay in step: as long as the line holds and both journals take
\* what they are given, nothing fails on either side, over any number of rounds
\* (exchange's comment in mesh.go: always both halves, in this order).
InStep ==
    line = "open" /\ (\A s \in Sides : side[s].mood = "fine")
        => \A s \in Sides : {side[s].reader, side[s].writer} \subseteq Frames \cup {"wait", "ok"}

\* A side that reports success has itself taken all it was sent.
SuccessIsTaken == \A s \in Sides : side[s].result = "ok" => side[s].imported = "all"

\* Whatever is refused, and by whom, both calls come back, and so does the
\* goroutine that names a refusal: nobody waits for ever on a stream the other
\* has stopped reading (Sync's comments).
EverybodyGoesHome ==
    <>[](\A s \in Sides : side[s].result # "running" /\ side[s].rejecter # "writing")

\* Push's promise: with one node reached the edit is in the network, so a Push
\* that reports success has delivered (ownerlog/sync.go).
SentIsStored ==
    side[Dialler].result = "ok" => side[Answerer].imported = "all"

\* Refused records come back with the reason, not as a broken connection
\* (reject_test.go, TestSyncNamesScopeViolation).
RefusalIsNamed ==
    side[Dialler].mood = "fine" /\ side[Answerer].mood = "refuses" /\ line # "broken"
        => side[Dialler].result # "failed"
=============================================================================

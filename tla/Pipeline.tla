------------------------------ MODULE Pipeline ------------------------------
(***************************************************************************)
(* The write path of one monitored connection: the collector's rounds, the *)
(* bounded Queue (store/queue.go), the ingest frames and raw blocks in     *)
(* SQLite (store/history.go), the delete barrier and tombstones            *)
(* (store/store.go), the writer loop and the shutdown flush                *)
(* (collector/manager.go, cmd/history/main.go), and process crashes.       *)
(*                                                                         *)
(* A sample is its identity: series, epoch, sequence number, time.  What   *)
(* it measured is left out: nothing on this path looks at it.  A commit is *)
(* atomic and survives a crash of the process (SQLite in WAL mode); loss   *)
(* of the machine, which synchronous=NORMAL does not exclude, is not       *)
(* modelled.  Decode errors are not modelled here.                         *)
(***************************************************************************)
EXTENDS Integers, FiniteSets

CONSTANTS Series,        \* the series ids the database may allocate
          Global,        \* the one among them of the whole connection
          Window,        \* length of a raw window             (history.go: Window)
          SealDelay,     \* extra age before a window is sealed (history.go: SealDelay)
          RawAge,        \* age at which tier 0 expires         (Cleanup: 24 h)
          MaxSpan,       \* age at which pending is discarded   (Queue.MaxSpan)
          MaxQueue,      \* samples the byte budget admits      (MaxBytes / sampleCost)
          SealLimit,     \* keys per SealRaw call               (Step: 8)
          CleanupLimit,  \* rows per DELETE of Cleanup          (256)
          MaxNow,        \* bound: last clock value
          MaxSeq,        \* bound: rounds per start of the collector
          MaxEpoch       \* bound: last collection epoch

ASSUME ConstantsAssumption ==
  /\ Global \in Series
  /\ Window \in Nat \ {0}
  /\ {SealDelay, RawAge, MaxSpan, MaxNow, MaxSeq, MaxEpoch} \subseteq Nat
  /\ {MaxQueue, SealLimit, CleanupLimit} \subseteq Nat \ {0}

Flushers == {"writer", "shutdown"}

VARIABLES
  now,        \* the clock all components read
  hold,       \* Store.ClockHold: expiry is suspended after a clock jump
  epoch, seq, \* the collector's epoch and round counter
  at,         \* observation time of the round being applied
  known,      \* series of the collector's known torrents
  mode,       \* where the collector, or the removal of its connection, is
  todo,       \* series left in the loop mode names
  pending, inflight, dead, oldest, bytes,  \* Queue; oldest = 0: none, bytes in samples
  phase, batch,   \* per flusher: place in Queue.Flush, local batches
  frames, blocks, \* ingest_frame and tier-0 series_block rows
  born, tomb, cleaned, \* series rows, tombstones, tombstones with cleaned=1
  keys        \* SealRaw: selected keys not yet handled

collector == <<epoch, seq, at, known, mode, todo>>
queue     == <<pending, inflight, dead, oldest, bytes>>
flush     == <<phase, batch>>
database  == <<frames, blocks, born, tomb, cleaned>>
vars      == <<now, hold, collector, queue, flush, database, keys>>

Sample  == [sid : Series, epoch : Nat, seq : Nat, at : Nat]
SealKey == [sid : Series, epoch : Nat, win : Nat]
Row     == [key : SealKey, data : SUBSET Sample]

(* A collector is between rounds ("idle"), in the sample loop of apply     *)
(* ("push", or "look" while persistence is paused), between the Barrier    *)
(* and the Invalidate of a confirmed deletion ("invalidate"); Remove is    *)
(* invalidating the queue ("purge") or setting the barriers ("bar"); the   *)
(* collector is stopped while its connection is kept ("stopped"); the      *)
(* connection is gone ("removed"); the process is shutting down ("halt").  *)
Modes == {"idle", "push", "look", "invalidate", "purge", "bar", "stopped", "removed", "halt"}

TypeOK ==
  /\ now \in Nat /\ hold \in BOOLEAN
  /\ epoch \in Nat /\ seq \in Nat /\ at \in Nat
  /\ known \subseteq Series /\ todo \subseteq Series /\ mode \in Modes
  /\ pending \subseteq Sample /\ inflight \subseteq Sample
  /\ dead \subseteq Series /\ oldest \in Nat /\ bytes \in Nat
  /\ phase \in [Flushers -> {"idle", "append", "end"}]
  /\ batch \in [Flushers -> SUBSET Sample]
  /\ frames \subseteq Row /\ blocks \subseteq Row
  /\ born \subseteq Series /\ tomb \subseteq Series /\ cleaned \subseteq Series
  /\ keys \subseteq SealKey

Init ==
  /\ now = 1 /\ hold = FALSE
  /\ epoch = 0 /\ seq = 0 /\ at = 1
  /\ known = {} /\ mode = "idle" /\ todo = {}
  /\ pending = {} /\ inflight = {} /\ dead = {} /\ oldest = 0 /\ bytes = 0
  /\ phase = [f \in Flushers |-> "idle"] /\ batch = [f \in Flushers |-> {}]
  /\ frames = {} /\ blocks = {} /\ born = {Global} /\ tomb = {} /\ cleaned = {}
  /\ keys = {}

Tick == now < MaxNow /\ now' = now + 1
        /\ UNCHANGED <<hold, collector, queue, flush, database, keys>>

-----------------------------------------------------------------------------
(* The collector.  Its rounds, and everything apply does, are sequential;  *)
(* every other component may step between two of its steps.                *)

(* A round that reaches the sample loop of apply: W are the complete       *)
(* torrents it observed, known ones and new ones, without those            *)
(* EnsureTorrent fails for.  Unless persistence is paused they are         *)
(* offered to the queue, and the connection's own series after them.  A    *)
(* clock that jumped begins a new epoch, in which nothing is continuous    *)
(* with the past; a jump ahead also suspends expiry.                       *)
Round(W, write, jump) ==
  /\ mode = "idle" /\ seq < MaxSeq
  /\ W \subseteq known \cup (Series \ born)
  /\ seq' = seq + 1 /\ at' = now
  /\ jump # "none" => epoch < MaxEpoch
  /\ epoch' = IF jump = "none" THEN epoch ELSE epoch + 1
  /\ hold' = (hold \/ jump = "ahead")
  /\ todo' = W \cup {Global} /\ mode' = IF write THEN "push" ELSE "look"
  /\ UNCHANGED <<now, known, queue, flush, database, keys>>

(* A failed round: a new epoch.                                            *)
RoundFails ==
  /\ mode = "idle" /\ seq < MaxSeq /\ epoch < MaxEpoch
  /\ seq' = seq + 1 /\ epoch' = epoch + 1
  /\ UNCHANGED <<now, hold, at, known, mode, todo, queue, flush, database, keys>>

(* What Push starts from: a pending set whose oldest sample is older than   *)
(* MaxSpan has been discarded.                                             *)
Stale     == oldest > 0 /\ now > oldest + MaxSpan
Kept      == IF Stale THEN {} ELSE pending
KeptBytes == IF Stale THEN 0 ELSE bytes
KeptSince == IF Stale THEN 0 ELSE oldest

Measured(s) == [sid |-> s, epoch |-> epoch, seq |-> seq, at |-> at]

(* Queue.Push: refused behind a delete barrier or over the byte budget.    *)
QueuePush(s) ==
  /\ UNCHANGED <<inflight, dead>>
  /\ \/ s \in dead /\ UNCHANGED <<pending, bytes, oldest>>
     \/ /\ s \notin dead /\ KeptBytes >= MaxQueue
        /\ pending' = Kept /\ bytes' = KeptBytes /\ oldest' = KeptSince
     \/ /\ s \notin dead /\ KeptBytes < MaxQueue
        /\ pending' = Kept \cup {Measured(s)}
        /\ bytes' = KeptBytes + 1
        /\ oldest' = IF KeptSince = 0 THEN now ELSE KeptSince

(* One turn of the sample loop: EnsureTorrent for a torrent not seen       *)
(* before, then Push.  The connection's own series comes last.             *)
PushSample(s) ==
  /\ mode \in {"push", "look"} /\ s \in todo
  /\ s = Global => todo = {Global}
  /\ born' = born \cup {s} /\ known' = known \cup ({s} \ {Global})
  /\ IF mode = "push" THEN QueuePush(s) ELSE UNCHANGED queue
  /\ todo' = todo \ {s} /\ mode' = IF todo = {s} THEN "idle" ELSE mode
  /\ UNCHANGED <<now, hold, epoch, seq, at, flush, frames, blocks, tomb, cleaned, keys>>

(* A deletion the lifecycle confirmed (Lifecycle!Ready): apply commits the *)
(* barrier, then invalidates the queue.  A Barrier that fails changes      *)
(* nothing; the candidate is tried again in a later round.                 *)
ConfirmDeletion(s) ==
  /\ mode = "idle" /\ s \in known
  /\ tomb' = tomb \cup {s}
  /\ mode' = "invalidate" /\ todo' = {s}
  /\ UNCHANGED <<now, hold, epoch, seq, at, known, queue, flush,
                 frames, blocks, born, cleaned, keys>>

(* Mutant: the in-flight samples, no longer counted, are uncounted again.  *)
QueueInvalidateTwice(s) ==
  /\ dead' = dead \cup {s}
  /\ bytes' = bytes - Cardinality({x \in pending \cup inflight : x.sid = s})
  /\ pending' = {x \in pending : x.sid # s}
  /\ inflight' = {x \in inflight : x.sid # s}
  /\ UNCHANGED oldest

(* Mutant: the pending samples stay, to be flushed behind the barrier.     *)
QueueInvalidateInflight(s) ==
  /\ dead' = dead \cup {s}
  /\ inflight' = {x \in inflight : x.sid # s}
  /\ UNCHANGED <<bytes, pending, oldest>>

(* Queue.Invalidate.  oldest stays as it is.                               *)
QueueInvalidate(s) ==
  /\ dead' = dead \cup {s}
  /\ bytes' = bytes - Cardinality({x \in pending : x.sid = s})
  /\ pending' = {x \in pending : x.sid # s}
  /\ inflight' = {x \in inflight : x.sid # s}
  /\ UNCHANGED oldest

ForgetTorrent(s) ==
  /\ mode = "invalidate" /\ s \in todo
  /\ QueueInvalidate(s)
  /\ known' = known \ {s}
  /\ todo' = {} /\ mode' = "idle"
  /\ UNCHANGED <<now, hold, epoch, seq, at, flush, database, keys>>

(* Mutant: the torrents behind a barrier are loaded too.                   *)
AllTorrents == born \ {Global}

(* Store.Torrents: what a new collector knows.                             *)
LiveTorrents == (born \ tomb) \ {Global}

(* Manager.Reload: the collector is stopped between rounds and a new one   *)
(* started, with a fresh epoch and the live torrents of the database.  The *)
(* connection's own series is GlobalSeries's, barrier or not.              *)
Reload ==
  /\ mode \in {"idle", "stopped"} /\ epoch < MaxEpoch
  /\ epoch' = epoch + 1 /\ seq' = 0
  /\ known' = LiveTorrents /\ mode' = "idle" /\ todo' = {}
  /\ UNCHANGED <<now, hold, at, queue, flush, database, keys>>

-----------------------------------------------------------------------------
(* Manager.Remove: with the collector stopped, every series it knows and   *)
(* its own are invalidated in the queue, then RemoveInstance sets a barrier on every   *)
(* series row of the connection and blanks its instance row.               *)

Remove ==
  /\ mode = "idle"
  /\ mode' = "purge" /\ todo' = known \cup {Global}
  /\ UNCHANGED <<now, hold, epoch, seq, at, known, queue, flush, database, keys>>

PurgeQueue(s) ==
  /\ mode = "purge" /\ s \in todo
  /\ QueueInvalidate(s)
  /\ todo' = todo \ {s}
  /\ UNCHANGED <<now, hold, epoch, seq, at, known, mode, flush, database, keys>>

(* A removal that failed may be asked for again: with no collector left,   *)
(* it starts here.                                                         *)
RemoveInstance ==
  /\ \/ mode = "stopped"
     \/ mode = "purge" /\ todo = {}
  /\ mode' = "bar" /\ todo' = born
  /\ UNCHANGED <<now, hold, epoch, seq, at, known, queue, flush, database, keys>>

BarSeries(s) ==
  /\ mode = "bar" /\ s \in todo
  /\ tomb' = tomb \cup {s}
  /\ todo' = todo \ {s}
  /\ UNCHANGED <<now, hold, epoch, seq, at, known, mode, queue, flush,
                 frames, blocks, born, cleaned, keys>>

(* Barrier fails for one of the series, or the update of the instance row: *)
(* the removal stops there and reports the error; the connection is kept,  *)
(* without a collector.                                                    *)
RemoveFails ==
  /\ mode = "bar"
  /\ mode' = "stopped" /\ todo' = {}
  /\ UNCHANGED <<now, hold, epoch, seq, at, known, queue, flush, database, keys>>

Removed ==
  /\ mode = "bar" /\ todo = {}
  /\ mode' = "removed" /\ known' = {}
  /\ UNCHANGED <<now, hold, epoch, seq, at, todo, queue, flush, database, keys>>

-----------------------------------------------------------------------------
(* Queue.Flush, run by the writer loop and once more at shutdown.          *)

KeyOf(x) == [sid |-> x.sid, epoch |-> x.epoch, win |-> x.at \div Window]

(* The writer loop is sequential; the shutdown flush starts once the       *)
(* collectors are stopped, whatever the writer loop is doing.              *)
MayFlush(f) == phase[f] = "idle" /\ IF f = "writer" THEN keys = {} ELSE mode = "halt"

FlushBegin(f) ==
  /\ MayFlush(f) /\ pending # {}
  /\ inflight' = pending /\ batch' = [batch EXCEPT ![f] = pending]
  /\ pending' = {} /\ bytes' = 0 /\ oldest' = 0
  /\ phase' = [phase EXCEPT ![f] = "append"]
  /\ UNCHANGED <<now, hold, collector, dead, database, keys>>

(* Append: the frames a set of samples makes, and the ones it refuses.     *)
FramesOf(B) == {[key |-> k, data |-> {x \in B : KeyOf(x) = k}] : k \in {KeyOf(x) : x \in B}}

FirstSeq(r) == CHOOSE n \in {x.seq : x \in r.data} : \A x \in r.data : n <= x.seq

Sealed(k) == \E b \in blocks : b.key = k

RepeatedKey(r) == \E g \in frames : /\ g.key.sid = r.key.sid
                                     /\ g.key.epoch = r.key.epoch
                                     /\ FirstSeq(g) = FirstSeq(r)

(* Mutant: a late batch is not checked against the sealed windows.         *)
RefusedUnlessLate(r) == r.key.sid \in tomb \/ RepeatedKey(r)

(* Mutant: the tombstone is left to Queue.Invalidate.                      *)
RefusedUnlessRemoved(r) == Sealed(r.key) \/ RepeatedKey(r)

(* Behind a barrier, late for a sealed window, or ignored by INSERT OR     *)
(* IGNORE.                                                                 *)
Refused(r) == r.key.sid \in tomb \/ Sealed(r.key) \/ RepeatedKey(r)

AppendCommit(f) ==
  /\ phase[f] = "append"
  /\ frames' = frames \cup {r \in FramesOf(batch[f]) : ~Refused(r)}
  /\ batch' = [batch EXCEPT ![f] = {}]
  /\ phase' = [phase EXCEPT ![f] = "end"]
  /\ UNCHANGED <<now, hold, collector, queue, blocks, born, tomb, cleaned, keys>>

(* The transaction is rolled back; the batch is given up.                  *)
AppendFail(f) ==
  /\ phase[f] = "append"
  /\ batch' = [batch EXCEPT ![f] = {}]
  /\ phase' = [phase EXCEPT ![f] = "end"]
  /\ UNCHANGED <<now, hold, collector, queue, database, keys>>

FlushEnd(f) ==
  /\ phase[f] = "end"
  /\ inflight' = {}
  /\ phase' = [phase EXCEPT ![f] = "idle"]
  /\ UNCHANGED <<now, hold, collector, pending, dead, oldest, bytes, batch, database, keys>>

-----------------------------------------------------------------------------
(* SealRaw and Cleanup, run by the writer loop between two flushes.        *)

WriterFree == phase["writer"] = "idle" /\ keys = {}

(* The windows with a frame that starts before now - Window - SealDelay.   *)
SealDue == {r.key : r \in {g \in frames : \E x \in g.data : x.at + Window + SealDelay < now}}

(* SELECT ... ORDER BY window LIMIT: the earliest windows that are due.    *)
SealSelect ==
  /\ WriterFree
  /\ \E K \in SUBSET SealDue :
       /\ K # {} /\ Cardinality(K) <= SealLimit
       /\ Cardinality(K) = SealLimit \/ K = SealDue
       /\ \A k \in K, j \in SealDue \ K : k.win <= j.win
       /\ keys' = K
  /\ UNCHANGED <<now, hold, collector, queue, flush, database>>

FramesAt(k) == {g \in frames : g.key = k}

(* Mutant: the samples of one frame only, of a window that has several.    *)
LastFrameData(k) == UNION {g.data : g \in {CHOOSE h \in FramesAt(k) : TRUE}}

(* The samples of every frame of the window.                               *)
WindowData(k) == UNION {g.data : g \in FramesAt(k)}

(* The frames of a window become its block in one transaction.  A series   *)
(* tombstoned since the selection is left for Cleanup.                     *)
SealOne(k) ==
  /\ k \in keys /\ \A j \in keys : k.win <= j.win
  /\ keys' = keys \ {k}
  /\ IF k.sid \in tomb \/ FramesAt(k) = {}
     THEN UNCHANGED <<frames, blocks>>
     ELSE /\ frames' = frames \ FramesAt(k)
          /\ blocks' = IF Sealed(k) THEN blocks   \* INSERT OR IGNORE
                       ELSE blocks \cup {[key |-> k, data |-> WindowData(k)]}
  /\ UNCHANGED <<now, hold, collector, queue, flush, born, tomb, cleaned>>

(* A transaction that fails, or shutdown, ends the round.                  *)
SealAbort ==
  /\ keys # {} /\ keys' = {}
  /\ UNCHANGED <<now, hold, collector, queue, flush, database>>

(* DELETE ... LIMIT: CleanupLimit of the rows, or all if there are fewer.  *)
Rounds(R) == {D \in SUBSET R : /\ Cardinality(D) <= CleanupLimit
                               /\ Cardinality(D) = CleanupLimit \/ D = R}

(* Mutant: the queue's own barrier stands for the tombstone.               *)
OfDead(R) == {r \in R : r.key.sid \in dead}

OfRemoved(R) == {r \in R : r.key.sid \in tomb}
Expired(R)   == IF hold THEN {} ELSE {r \in R : \A x \in r.data : x.at + RawAge < now}

HasPayload(s, F, B) == \E r \in F \cup B : r.key.sid = s

(* One maintenance round: payload behind a barrier, then expired rows,     *)
(* then the tombstones that have no payload left.                          *)
Cleanup ==
  /\ WriterFree
  /\ \E Fr \in Rounds(OfRemoved(frames)), Br \in Rounds(OfRemoved(blocks)) :
     \E Fx \in Rounds(Expired(frames \ Fr)), Bx \in Rounds(Expired(blocks \ Br)) :
       /\ frames' = frames \ (Fr \cup Fx)
       /\ blocks' = blocks \ (Br \cup Bx)
  /\ cleaned' = cleaned \cup {s \in tomb : ~HasPayload(s, frames', blocks')}
  /\ UNCHANGED <<now, hold, collector, queue, flush, born, tomb, keys>>

-----------------------------------------------------------------------------
(* SIGTERM: the collectors are stopped between rounds.                     *)
Shutdown ==
  /\ mode \in {"idle", "stopped"}
  /\ mode' = "halt" /\ todo' = {}
  /\ UNCHANGED <<now, hold, epoch, seq, at, known, queue, flush, database, keys>>

(* The process ends anywhere, after a shutdown or by a crash, and starts   *)
(* again from the database.                                                *)
Restart ==
  /\ epoch < MaxEpoch
  /\ epoch' = epoch + 1 /\ seq' = 0 /\ hold' = FALSE
  /\ mode' = (IF mode = "removed" THEN "removed" ELSE "idle")
  /\ known' = (IF mode = "removed" THEN {} ELSE LiveTorrents)
  /\ todo' = {} /\ keys' = {}
  /\ pending' = {} /\ inflight' = {} /\ dead' = {} /\ oldest' = 0 /\ bytes' = 0
  /\ phase' = [f \in Flushers |-> "idle"] /\ batch' = [f \in Flushers |-> {}]
  /\ UNCHANGED <<now, at, database>>

-----------------------------------------------------------------------------
Collect == \/ \E W \in SUBSET Series, write \in BOOLEAN, jump \in {"none", "back", "ahead"} :
                Round(W, write, jump)
           \/ RoundFails
           \/ \E s \in Series : PushSample(s) \/ ConfirmDeletion(s) \/ ForgetTorrent(s)
           \/ Reload

RemoveConnection == \/ Remove \/ RemoveInstance \/ RemoveFails \/ Removed
                    \/ \E s \in Series : PurgeQueue(s) \/ BarSeries(s)

Write == \/ \E f \in Flushers : FlushBegin(f) \/ AppendCommit(f) \/ AppendFail(f) \/ FlushEnd(f)
         \/ SealSelect \/ SealAbort \/ Cleanup
         \/ \E k \in keys : SealOne(k)

Next == Tick \/ Collect \/ RemoveConnection \/ Write \/ Shutdown \/ Restart

Spec == Init /\ [][Next]_vars

(* The writer loop is one goroutine that is never blocked for good: what   *)
(* it has begun ends, and every 300th Step reaches Cleanup.  After SIGTERM *)
(* it stops, so nothing is promised in "halt".                             *)
Fairness ==
  /\ \A f \in Flushers : WF_vars(AppendCommit(f) \/ AppendFail(f)) /\ WF_vars(FlushEnd(f))
  /\ WF_vars(SealAbort \/ \E k \in keys : SealOne(k))
  /\ SF_vars(mode # "halt" /\ Cleanup)

FairSpec == Spec /\ Fairness

-----------------------------------------------------------------------------
(* A stored sample is stored once: a window that has its block has no      *)
(* frame, a window has one block per epoch, and no two frames share a      *)
(* sample.  Late batches, retried seals and the frames deleted by SealOne  *)
(* could each break it; Raw returns blocks and frames together.            *)
StoredOnce ==
  /\ \A b \in blocks, g \in frames : b.key # g.key
  /\ \A b, c \in blocks : b.key = c.key => b = c
  /\ \A g, h \in frames : g # h => g.data \cap h.data = {}

(* A tombstone marked cleaned never has payload again, whatever was queued *)
(* or selected for sealing when the barrier was set: the rows of a removed *)
(* connection are deleted on the strength of it.                           *)
NoResurrection == \A s \in cleaned : ~HasPayload(s, frames, blocks)

(* Behind the queue's own barrier nothing of a series is pending or shown  *)
(* as in flight, and the byte counter is what pending costs: a drift would *)
(* refuse samples, or admit them beyond the budget, for ever.              *)
QueueConsistent ==
  /\ \A x \in pending \cup inflight : x.sid \notin dead
  /\ bytes = Cardinality(pending)

(* The collector never samples a torrent into a removed series: a torrent  *)
(* added again gets a new series, and so does one seen after a restart.    *)
(* The connection's own series has no generations, and a removal that      *)
(* stops half-way leaves it sampled behind its barrier.                    *)
SampledSeriesLive == mode = "push" => todo \cap tomb \subseteq {Global}

(* The write path as readers see it (History.tla).                         *)
Visible == UNION {r.data : r \in {q \in frames \cup blocks : q.key.sid \notin tomb}}
Held    == pending \cup batch["writer"] \cup batch["shutdown"]

H == INSTANCE History WITH clock <- now, held <- Held, durable <- Visible, removed <- tomb

(* Every step of the pipeline is a step of History or changes nothing of   *)
(* it: sealing, restarts and cleanup lose nothing that was committed.      *)
ImplementsHistory == H!Spec

(* A series behind a barrier is cleaned in the end, unless the process is  *)
(* shut down first: no batch appended late, no limit per round, and no     *)
(* restart can leave its payload there for good.                           *)
RemovedIsCleaned == \A s \in Series : s \in tomb ~> s \in cleaned \/ mode = "halt"

(* "Tail returns not-yet-committed samples for a series (in-flight and     *)
(* pending)" (queue.go:71): a batch that is being appended is in flight,   *)
(* unless its series was invalidated.  The code breaks this (README,       *)
(* section 4).                                                             *)
TailComplete ==
  \A f \in Flushers : phase[f] = "append" =>
     \A x \in batch[f] : x \in inflight \/ x.sid \in dead

(* "when the oldest pending sample is older than MaxSpan the stale pending *)
(* set is discarded" (queue.go:14-15): when a push discards what was       *)
(* pending, one of those samples is older than MaxSpan.  The code breaks   *)
(* this (README, section 4).                                               *)
DiscardOnlyStale ==
  [][mode = "push" /\ todo' # todo /\ pending \ pending' # {} =>
       \E x \in pending : x.at + MaxSpan < now]_vars
=============================================================================

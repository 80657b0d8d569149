--------------------------- MODULE PipelineProofs ---------------------------
(***************************************************************************)
(* What holds of the write path for every number of series, every window   *)
(* length, delay, retention and limit.  None of Pipeline's invariants is   *)
(* inductive: that the byte counter is exact needs that a round offers a   *)
(* sample once (Fresh), that a sample is stored once needs that it is in   *)
(* one place only (Apart), and that a removed series is never sampled      *)
(* needs what the collector knows in every mode (Aware).  Inv is the       *)
(* conjunction that is.  One lemma per conjunct shows that a step keeps    *)
(* it.  The readers come last: a chart request loses nothing, whatever is  *)
(* flushed, sealed, expired or removed between its two reads.              *)
(***************************************************************************)
EXTENDS Reading, TLAPS, FiniteSetTheorems

Rows   == frames \cup blocks
Stored == UNION {r.data : r \in Rows}

(* The budget counts what is pending, of which there is finitely much.     *)
Counted == IsFiniteSet(pending) /\ QueueConsistent

Sampling(m) == m \in {"push", "look"}

(* The collector has not measured yet what the rest of its round will.     *)
Fresh == \A x \in Held \cup Stored :
           /\ x.epoch <= epoch
           /\ x.epoch = epoch => x.seq <= seq
           /\ x.epoch = epoch /\ x.seq = seq /\ Sampling(mode) => x.sid \notin todo

(* A sample is in one place: pending, in one flusher's batch or stored; a  *)
(* row holds the samples of its window.                                    *)
Apart == /\ pending \cap batch["writer"] = {}
         /\ pending \cap batch["shutdown"] = {}
         /\ batch["writer"] \cap batch["shutdown"] = {}
         /\ Held \cap Stored = {}
         /\ \A r \in Rows : \A x \in r.data : KeyOf(x) = r.key

(* A collector that samples knows no removed torrent; one that is between  *)
(* barrier and invalidate knows one.                                       *)
Aware == /\ Global \in born /\ known \subseteq born \ {Global} /\ tomb \subseteq born
         /\ mode = "bar" => todo \subseteq born
         /\ mode \in {"idle", "push", "look"} => known \cap tomb = {}
         /\ mode \in {"push", "look"} => todo \cap tomb \subseteq {Global}
         /\ mode = "invalidate" => known \cap tomb \subseteq todo /\ \A s, t \in todo : s = t
         /\ SampledSeriesLive

Gone == cleaned \subseteq tomb /\ NoResurrection

Inv == TypeOK /\ Counted /\ Fresh /\ Apart /\ StoredOnce /\ Aware /\ Gone

-----------------------------------------------------------------------------
(* A removed series stays without payload once it is cleaned: an append    *)
(* and a seal look at the tombstones in their own transaction.             *)
LEMMA GoneKept == Inv /\ [Next]_vars => Gone'
<1> SUFFICES ASSUME Inv, [Next]_vars PROVE Gone'
  OBVIOUS
<1>0. /\ cleaned \subseteq tomb
      /\ \A s \in cleaned : \A r \in frames \cup blocks : r.key.sid # s
  BY DEF Inv, Gone, NoResurrection, HasPayload
<1>1. Gone' <=> /\ cleaned' \subseteq tomb'
                /\ \A s \in cleaned' : \A r \in frames' \cup blocks' : r.key.sid # s
  BY DEF Gone, NoResurrection, HasPayload
<1>2. ASSUME NEW f \in Flushers, AppendCommit(f) PROVE Gone'
  <2>1. \A r \in frames' \ frames : r.key.sid \notin tomb
    BY <1>2 DEF AppendCommit, Refused
  <2> QED
    BY <2>1, <1>0, <1>1, <1>2 DEF AppendCommit
<1>3. ASSUME NEW k \in keys, SealOne(k) PROVE Gone'
  <2>1. \A r \in blocks' \ blocks : r.key.sid \notin tomb
    BY <1>3 DEF SealOne
  <2> QED
    BY <2>1, <1>0, <1>1, <1>3 DEF SealOne
<1>4. CASE Cleanup
  <2>1. frames' \subseteq frames /\ blocks' \subseteq blocks /\ tomb' = tomb
    BY <1>4 DEF Cleanup
  <2>2. cleaned' = cleaned \cup {s \in tomb : ~HasPayload(s, frames', blocks')}
    BY <1>4 DEF Cleanup
  <2> QED
    BY <2>1, <2>2, <1>0, <1>1 DEF HasPayload
<1>5. CASE UNCHANGED <<frames, blocks, cleaned>> /\ tomb \subseteq tomb'
  BY <1>0, <1>1, <1>5
<1> QED
  BY <1>2, <1>3, <1>4, <1>5 DEF Next, Collect, RemoveConnection, Write, vars, collector, queue,
     flush, database, Tick, Round, RoundFails, PushSample, ConfirmDeletion, ForgetTorrent, Reload,
     Remove, PurgeQueue, RemoveInstance, BarSeries, RemoveFails, Removed, FlushBegin, AppendFail,
     FlushEnd, SealSelect, SealAbort, Shutdown, Restart

(* The collector never samples into a series it has removed.               *)
LEMMA AwareKept == Inv /\ [Next]_vars => Aware'
<1> SUFFICES ASSUME Inv, [Next]_vars PROVE Aware'
  OBVIOUS
<1> USE DEF Aware, SampledSeriesLive
<1>0. Aware /\ todo \subseteq Series /\ known \subseteq Series /\ Global \in Series
  BY ConstantsAssumption DEF Inv, TypeOK
<1>1. ASSUME NEW W \in SUBSET Series, NEW write \in BOOLEAN, NEW jump, Round(W, write, jump)
      PROVE  Aware'
  BY <1>0, <1>1 DEF Round, database
<1>2. ASSUME NEW s \in Series, PushSample(s) PROVE Aware'
  BY <1>0, <1>2 DEF PushSample
<1>3. ASSUME NEW s \in Series, ConfirmDeletion(s) PROVE Aware'
  BY <1>0, <1>3 DEF ConfirmDeletion
<1>4. ASSUME NEW s \in Series, ForgetTorrent(s) PROVE Aware'
  BY <1>0, <1>4 DEF ForgetTorrent, database
<1>5. ASSUME NEW s \in Series, PurgeQueue(s) PROVE Aware'
  BY <1>0, <1>5 DEF PurgeQueue, database
<1>6. ASSUME NEW s \in Series, BarSeries(s) PROVE Aware'
  BY <1>0, <1>6 DEF BarSeries
<1>7. CASE Reload \/ Restart
  BY <1>0, <1>7 DEF Reload, Restart, LiveTorrents, database
<1>8. CASE Remove \/ RemoveInstance \/ RemoveFails \/ Removed \/ Shutdown
  BY <1>0, <1>8 DEF Remove, RemoveInstance, RemoveFails, Removed, Shutdown, database
<1>9. CASE RoundFails
  BY <1>0, <1>9 DEF RoundFails, database
<1>10. CASE UNCHANGED <<known, mode, todo, born, tomb>>
  BY <1>0, <1>10
<1> QED
  BY <1>1, <1>2, <1>3, <1>4, <1>5, <1>6, <1>7, <1>8, <1>9, <1>10
     DEF Next, Collect, RemoveConnection, Write, vars, collector, database, Tick, FlushBegin,
     AppendCommit, AppendFail, FlushEnd, SealSelect, SealAbort, SealOne, Cleanup

(* What a step adds to the samples held or stored: nothing, or what the    *)
(* collector measures now.                                                 *)
LEMMA OnlyMeasured ==
  ASSUME Inv, [Next]_vars
  PROVE  \/ Held' \cup Stored' \subseteq Held \cup Stored
         \/ \E s \in Series : /\ PushSample(s)
                              /\ Held' \cup Stored' \subseteq Held \cup Stored \cup {Measured(s)}
<1> USE DEF Held, Stored, Rows
<1>0. batch \in [Flushers -> SUBSET Sample] /\ Flushers = {"writer", "shutdown"}
  BY DEF Inv, TypeOK, Flushers
<1>1. ASSUME NEW s \in Series, PushSample(s)
      PROVE  Held' \cup Stored' \subseteq Held \cup Stored \cup {Measured(s)}
  BY <1>1 DEF PushSample, QueuePush, Kept, flush, queue
<1>2. ASSUME NEW s \in Series, ForgetTorrent(s) \/ PurgeQueue(s)
      PROVE  Held' \cup Stored' \subseteq Held \cup Stored
  BY <1>2 DEF ForgetTorrent, PurgeQueue, QueueInvalidate, flush, database
<1>3. ASSUME NEW f \in Flushers, FlushBegin(f) \/ AppendFail(f) \/ FlushEnd(f)
      PROVE  Held' \cup Stored' \subseteq Held \cup Stored
  BY <1>0, <1>3 DEF FlushBegin, AppendFail, FlushEnd, database, queue
<1>4. ASSUME NEW f \in Flushers, AppendCommit(f)
      PROVE  Held' \cup Stored' \subseteq Held \cup Stored
  <2>1. \A r \in frames' : r \in frames \/ r.data \subseteq batch[f]
    BY <1>4 DEF AppendCommit, FramesOf
  <2> QED
    BY <2>1, <1>0, <1>4 DEF AppendCommit, queue
<1>5. ASSUME NEW k \in keys, SealOne(k)
      PROVE  Held' \cup Stored' \subseteq Held \cup Stored
  <2>1. \A r \in blocks' : r \in blocks \/ r.data \subseteq Stored
    BY <1>5 DEF SealOne, WindowData, FramesAt
  <2> QED
    BY <2>1, <1>5 DEF SealOne, queue, flush
<1>6. CASE Cleanup
  BY <1>6 DEF Cleanup, queue, flush
<1>7. CASE Restart
  BY <1>0, <1>7 DEF Restart, database
<1>8. CASE UNCHANGED <<pending, batch, frames, blocks>>
  BY <1>8
<1> QED
  BY <1>1, <1>2, <1>3, <1>4, <1>5, <1>6, <1>7, <1>8
     DEF Next, Collect, RemoveConnection, Write, vars, queue, flush, database, Tick, Round,
     RoundFails, ConfirmDeletion, Reload, Remove, RemoveInstance, BarSeries, RemoveFails, Removed,
     SealSelect, SealAbort, Shutdown

(* Every sample held or stored is a Sample.                                *)
LEMMA SamplesTyped == Inv => Held \cup Stored \subseteq Sample
  BY DEF Inv, TypeOK, Held, Stored, Rows, Row, Flushers

LEMMA FreshKept == Inv /\ [Next]_vars => Fresh'
<1> SUFFICES ASSUME Inv, [Next]_vars PROVE Fresh'
  OBVIOUS
<1> DEFINE All == Held \cup Stored
<1>0. /\ Fresh /\ All \subseteq Sample
      /\ epoch \in Nat /\ seq \in Nat /\ todo \subseteq Series
  BY SamplesTyped DEF Inv, TypeOK
<1> DEFINE Old(x, e, n, m, t) == /\ x.epoch <= e
                                 /\ x.epoch = e => x.seq <= n
                                 /\ x.epoch = e /\ x.seq = n /\ Sampling(m) => x.sid \notin t
<1>1. \A x \in All : /\ x.epoch \in Nat /\ x.seq \in Nat /\ x.sid \in Series
                     /\ Old(x, epoch, seq, mode, todo)
  BY <1>0 DEF Fresh, Sample
<1>2. Fresh' <=> \A x \in All' : Old(x, epoch', seq', mode', todo')
  BY DEF Fresh
<1> HIDE DEF All
<1>3. ASSUME NEW s \in Series, PushSample(s) PROVE Fresh'
  <2>1. All' \subseteq All \cup {Measured(s)}
    <3>1. CASE \E t \in Series : /\ PushSample(t)
                                 /\ All' \subseteq All \cup {Measured(t)}
      <4>1. PICK t \in Series : PushSample(t) /\ All' \subseteq All \cup {Measured(t)}
        BY <3>1
      <4>2. t = s
        BY <4>1, <1>3, <1>0 DEF PushSample
      <4> QED
        BY <4>1, <4>2
    <3> QED
      BY <3>1, OnlyMeasured DEF All
  <2>2. Measured(s).epoch = epoch /\ Measured(s).seq = seq /\ Measured(s).sid = s
    BY DEF Measured
  <2>3. epoch' = epoch /\ seq' = seq /\ todo' = todo \ {s} /\ Sampling(mode)
    BY <1>3 DEF PushSample, Sampling
  <2> QED
    BY <2>1, <2>2, <2>3, <1>0, <1>1, <1>2
<1>4. CASE ~ \E s \in Series : PushSample(s)
  <2>1. All' \subseteq All
    BY <1>4, OnlyMeasured DEF All
  <2>2. CASE Sampling(mode') => UNCHANGED <<epoch, seq, mode, todo>>
    <3>1. CASE UNCHANGED <<epoch, seq>>
      BY <2>1, <2>2, <3>1, <1>1, <1>2
    <3>2. CASE epoch' = epoch /\ seq' = seq + 1
      BY <2>1, <2>2, <3>2, <1>0, <1>1, <1>2
    <3>3. CASE epoch' = epoch + 1
      BY <2>1, <2>2, <3>3, <1>0, <1>1, <1>2
    <3> QED
      BY <1>4, <3>1, <3>2, <3>3 DEF Sampling, Next, Collect, RemoveConnection, Write, vars, collector,
         Tick, Round, RoundFails, ConfirmDeletion, ForgetTorrent, Reload, Remove, PurgeQueue,
         RemoveInstance, BarSeries, RemoveFails, Removed, FlushBegin, AppendCommit, AppendFail,
         FlushEnd, SealSelect, SealAbort, SealOne, Cleanup, Shutdown, Restart
  <2>3. ASSUME NEW W \in SUBSET Series, NEW write \in BOOLEAN, NEW jump, Round(W, write, jump)
        PROVE  Fresh'
    <3>1. (epoch' = epoch \/ epoch' = epoch + 1) /\ seq' = seq + 1
      BY <2>3 DEF Round
    <3> QED
      BY <2>1, <3>1, <1>0, <1>1, <1>2
  <2> QED
    BY <1>4, <2>2, <2>3 DEF Sampling, Next, Collect, RemoveConnection, Write, vars, collector,
       Tick, RoundFails, ConfirmDeletion, ForgetTorrent, Reload, Remove, PurgeQueue,
       RemoveInstance, BarSeries, RemoveFails, Removed, FlushBegin, AppendCommit, AppendFail,
       FlushEnd, SealSelect, SealAbort, SealOne, Cleanup, Shutdown, Restart
<1> QED
  BY <1>3, <1>4

(* What the collector measures is a sample that is nowhere yet.            *)
LEMMA MeasuredIsNew ==
  ASSUME Inv, NEW s \in Series, PushSample(s)
  PROVE  Measured(s) \in Sample /\ Measured(s) \notin Held \cup Stored
<1>1. Sampling(mode) /\ s \in todo
  BY DEF PushSample, Sampling
<1>2. Measured(s) \in Sample
  BY DEF Measured, Sample, Inv, TypeOK
<1>3. Measured(s).epoch = epoch /\ Measured(s).seq = seq /\ Measured(s).sid = s
  BY DEF Measured
<1> QED
  BY <1>1, <1>2, <1>3 DEF Inv, Fresh

(* The rows a batch makes hold the samples of one window each.             *)
LEMMA FramesOfBatch ==
  ASSUME NEW B, NEW r \in FramesOf(B)
  PROVE  /\ r.data \subseteq B
         /\ \A x \in r.data : KeyOf(x) = r.key
         /\ \A q \in FramesOf(B) : q # r => q.data \cap r.data = {}
<1>1. \A q \in FramesOf(B) : q.data = {x \in B : KeyOf(x) = q.key}
  BY DEF FramesOf
<1>2. \A q \in FramesOf(B) : q = [key |-> q.key, data |-> q.data]
  BY DEF FramesOf
<1> QED
  BY <1>1, <1>2

(* A batch that is committed goes from its flusher to frames of windows    *)
(* that have no block.                                                     *)
LEMMA CommitApart ==
  ASSUME Inv, NEW f \in Flushers, AppendCommit(f)
  PROVE  (Apart /\ StoredOnce)'
<1>0. /\ Apart /\ StoredOnce /\ batch \in [Flushers -> SUBSET Sample]
      /\ Flushers = {"writer", "shutdown"}
  BY DEF Inv, TypeOK, Flushers
<1> DEFINE new == frames' \ frames
<1>1. /\ \A r \in new : r \in FramesOf(batch[f]) /\ ~Refused(r)
      /\ frames' = frames \cup new /\ blocks' = blocks
  BY DEF AppendCommit
<1>2. pending' = pending /\ batch' = [batch EXCEPT ![f] = {}]
  BY DEF AppendCommit, queue
<1> HIDE DEF new
<1>3. batch[f] \subseteq Held /\ Held' \subseteq Held \ batch[f]
  BY <1>0, <1>2 DEF Held, Apart
<1>4. \A r \in new : r.data \subseteq batch[f] /\ \A x \in r.data : KeyOf(x) = r.key
  BY <1>1, FramesOfBatch
<1>5. Stored' \subseteq Stored \cup batch[f]
  BY <1>1, <1>4 DEF Stored, Rows
<1>6. Apart'
  <2>1. \A r \in Rows' : \A x \in r.data : KeyOf(x) = r.key
    BY <1>0, <1>1, <1>4 DEF Apart, Rows
  <2>2. Held' \cap Stored' = {}
    BY <1>0, <1>3, <1>5 DEF Apart
  <2> QED
    BY <2>1, <2>2, <1>0, <1>2 DEF Apart
<1>7. StoredOnce'
  <2>1. \A b \in blocks', g \in frames' : b.key # g.key
    BY <1>0, <1>1 DEF StoredOnce, Refused, Sealed
  <2>2. ASSUME NEW g \in frames', NEW h \in frames', g # h PROVE g.data \cap h.data = {}
    <3>1. CASE g \in frames /\ h \in frames
      BY <3>1, <2>2, <1>0 DEF StoredOnce
    <3>2. CASE g \in new /\ h \in new
      BY <3>2, <2>2, <1>1, FramesOfBatch
    <3>3. ASSUME NEW q \in frames, NEW r \in new PROVE q.data \cap r.data = {}
      BY <1>0, <1>3, <1>4 DEF Apart, Stored, Rows
    <3> QED
      BY <3>1, <3>2, <3>3, <1>1
  <2> QED
    BY <2>1, <2>2, <1>0, <1>1 DEF StoredOnce
<1> QED
  BY <1>6, <1>7

(* Sealing moves the samples of a window to a block it has not yet.        *)
LEMMA SealApart ==
  ASSUME Inv, NEW k \in keys, SealOne(k)
  PROVE  (Apart /\ StoredOnce)'
<1>0. Apart /\ StoredOnce /\ pending' = pending /\ batch' = batch
  BY DEF Inv, SealOne, queue, flush
<1>1. CASE UNCHANGED <<frames, blocks>>
  BY <1>0, <1>1 DEF Apart, StoredOnce, Held, Stored, Rows, KeyOf
<1>2. CASE /\ frames' = frames \ FramesAt(k)
           /\ blocks' \subseteq blocks \cup {[key |-> k, data |-> WindowData(k)]}
           /\ Sealed(k) => blocks' = blocks
  <2>1. \A r \in Rows' : r \in Rows \/ (r.key = k /\ r.data = WindowData(k))
    BY <1>2 DEF Rows
  <2>2. \A x \in WindowData(k) : x \in Stored /\ KeyOf(x) = k
    BY <1>0 DEF WindowData, FramesAt, Stored, Rows, Apart
  <2>3. Stored' \subseteq Stored
    BY <2>1, <2>2 DEF Stored
  <2>4. Apart'
    BY <2>1, <2>2, <2>3, <1>0 DEF Apart, Held
  <2>5. StoredOnce'
    <3>1. \A g \in frames' : g \in frames /\ g.key # k
      BY <1>2 DEF FramesAt
    <3>2. \A b \in blocks' : \/ b \in blocks
                             \/ b = [key |-> k, data |-> WindowData(k)] /\ ~Sealed(k)
      BY <1>2
    <3>3. \A b \in blocks', g \in frames' : b.key # g.key
      BY <3>1, <3>2, <1>0 DEF StoredOnce
    <3>4. \A b, c \in blocks' : b.key = c.key => b = c
      BY <3>2, <1>0 DEF StoredOnce, Sealed
    <3> QED
      BY <3>1, <3>3, <3>4, <1>0 DEF StoredOnce
  <2> QED
    BY <2>4, <2>5
<1> QED
  BY <1>1, <1>2 DEF SealOne

(* No step puts a sample in two places.                                    *)
LEMMA ApartKept == Inv /\ [Next]_vars => (Apart /\ StoredOnce)'
<1> SUFFICES ASSUME Inv, [Next]_vars PROVE (Apart /\ StoredOnce)'
  OBVIOUS
<1>0. /\ Apart /\ StoredOnce /\ batch \in [Flushers -> SUBSET Sample]
      /\ Flushers = {"writer", "shutdown"}
  BY DEF Inv, TypeOK, Flushers
(* Fewer samples, or fewer rows, are as far apart.                         *)
<1>1. ASSUME frames' \subseteq frames, blocks' \subseteq blocks,
             pending' \subseteq pending, \A f \in Flushers : batch'[f] \subseteq batch[f]
      PROVE  (Apart /\ StoredOnce)'
  <2>1. Held' \subseteq Held /\ Stored' \subseteq Stored /\ Rows' \subseteq Rows
    BY <1>0, <1>1 DEF Held, Stored, Rows
  <2>2. Apart'
    BY <2>1, <1>0, <1>1 DEF Apart
  <2>3. StoredOnce'
    BY <1>0, <1>1 DEF StoredOnce
  <2> QED
    BY <2>2, <2>3
<1>2. ASSUME NEW s \in Series, PushSample(s) PROVE (Apart /\ StoredOnce)'
  <2>1. /\ pending' \subseteq pending \cup {Measured(s)}
        /\ UNCHANGED <<batch, frames, blocks>>
    BY <1>2 DEF PushSample, QueuePush, Kept, flush, queue
  <2>2. Held' \subseteq Held \cup {Measured(s)} /\ Stored' = Stored /\ Rows' = Rows
    BY <2>1 DEF Held, Stored, Rows
  <2>3. Measured(s) \notin Held \cup Stored
    BY <1>2, MeasuredIsNew
  <2>4. Apart'
    BY <2>1, <2>2, <2>3, <1>0 DEF Apart, Held
  <2>5. StoredOnce'
    BY <2>1, <1>0 DEF StoredOnce
  <2> QED
    BY <2>4, <2>5
<1>3. ASSUME NEW f \in Flushers, FlushBegin(f) PROVE (Apart /\ StoredOnce)'
  <2>1. /\ pending' = {} /\ batch' = [batch EXCEPT ![f] = pending]
        /\ UNCHANGED <<frames, blocks>>
    BY <1>3 DEF FlushBegin, database
  <2>2. Held' \subseteq Held /\ Stored' = Stored /\ Rows' = Rows
    BY <2>1, <1>0 DEF Held, Stored, Rows
  <2>3. Apart'
    BY <2>1, <2>2, <1>0 DEF Apart
  <2>4. StoredOnce'
    BY <2>1, <1>0 DEF StoredOnce
  <2> QED
    BY <2>3, <2>4
<1>4. ASSUME NEW s \in Series, ForgetTorrent(s) \/ PurgeQueue(s) PROVE (Apart /\ StoredOnce)'
  BY <1>1, <1>4 DEF ForgetTorrent, PurgeQueue, QueueInvalidate, flush, database
<1>5. ASSUME NEW f \in Flushers, AppendFail(f) PROVE (Apart /\ StoredOnce)'
  BY <1>0, <1>1, <1>5 DEF AppendFail, queue, database
<1>6. CASE Cleanup
  BY <1>1, <1>6 DEF Cleanup, queue, flush
<1>7. CASE Restart
  BY <1>0, <1>1, <1>7 DEF Restart, database
<1>8. CASE UNCHANGED <<pending, batch, frames, blocks>>
  BY <1>1, <1>8
<1> QED
  BY <1>2, <1>3, <1>4, <1>5, <1>6, <1>7, <1>8, CommitApart, SealApart
     DEF Next, Collect, RemoveConnection, Write, vars, queue, flush, database, Tick, Round,
     RoundFails, ConfirmDeletion, Reload, Remove, RemoveInstance, BarSeries, RemoveFails, Removed,
     FlushEnd, SealSelect, SealAbort, Shutdown

-----------------------------------------------------------------------------
(* Invalidate takes from the counter what it takes from the pending set.   *)
LEMMA InvalidateCounts ==
  ASSUME Counted, NEW s \in Series, QueueInvalidate(s)
  PROVE  Counted'
<1> DEFINE gone == {x \in pending : x.sid = s}
<1>1. IsFiniteSet(pending) /\ bytes = Cardinality(pending)
  BY DEF Counted, QueueConsistent
<1>2. pending' = pending \ gone /\ gone = pending \cap gone /\ bytes' = bytes - Cardinality(gone)
  BY DEF QueueInvalidate
<1>3. /\ IsFiniteSet(pending \ gone)
      /\ Cardinality(pending \ gone) = Cardinality(pending) - Cardinality(pending \cap gone)
  BY <1>1, FS_Difference
<1>4. \A x \in pending' \cup inflight' : x.sid \notin dead'
  BY DEF Counted, QueueConsistent, QueueInvalidate
<1> QED
  BY <1>1, <1>2, <1>3, <1>4 DEF Counted, QueueConsistent

(* Push adds one to the counter for a sample that is not pending yet.      *)
LEMMA PushCounts ==
  ASSUME Inv, NEW s \in Series, PushSample(s)
  PROVE  Counted'
<1>1. /\ IsFiniteSet(pending) /\ bytes = Cardinality(pending)
      /\ \A x \in pending \cup inflight : x.sid \notin dead
  BY DEF Inv, Counted, QueueConsistent
<1>2. (QueuePush(s) \/ UNCHANGED queue) /\ inflight' = inflight /\ dead' = dead
  BY DEF PushSample, QueuePush, queue
<1>3. IsFiniteSet(Kept) /\ KeptBytes = Cardinality(Kept) /\ Kept \subseteq pending
  BY <1>1, FS_EmptySet DEF Kept, KeptBytes
<1>4. CASE pending' = pending /\ bytes' = bytes
  BY <1>1, <1>2, <1>4 DEF Counted, QueueConsistent
<1>5. CASE pending' = Kept /\ bytes' = KeptBytes
  BY <1>1, <1>2, <1>3, <1>5 DEF Counted, QueueConsistent
<1>6. CASE /\ s \notin dead
           /\ pending' = Kept \cup {Measured(s)} /\ bytes' = KeptBytes + 1
  <2>1. Measured(s) \notin Kept
    BY <1>3, MeasuredIsNew DEF Held
  <2>2. IsFiniteSet(pending') /\ Cardinality(pending') = Cardinality(Kept) + 1
    BY <1>3, <1>6, <2>1, FS_AddElement
  <2>3. Measured(s).sid = s
    BY DEF Measured
  <2>4. \A x \in pending' \cup inflight' : x.sid \notin dead'
    BY <1>1, <1>2, <1>3, <1>6, <2>3
  <2> QED
    BY <1>3, <1>6, <2>2, <2>4 DEF Counted, QueueConsistent
<1> QED
  BY <1>2, <1>4, <1>5, <1>6 DEF QueuePush, queue

LEMMA CountedKept == Inv /\ [Next]_vars => Counted'
<1> SUFFICES ASSUME Inv, [Next]_vars PROVE Counted'
  OBVIOUS
<1>0. Counted
  BY DEF Inv
<1>1. ASSUME NEW s \in Series, ForgetTorrent(s) \/ PurgeQueue(s) PROVE Counted'
  BY <1>0, <1>1, InvalidateCounts DEF ForgetTorrent, PurgeQueue
<1>2. ASSUME NEW f \in Flushers, FlushBegin(f) PROVE Counted'
  BY <1>0, <1>2, FS_EmptySet DEF FlushBegin, Counted, QueueConsistent
<1>3. CASE Restart
  BY <1>3, FS_EmptySet DEF Restart, Counted, QueueConsistent
<1>4. CASE UNCHANGED <<pending, dead, bytes>> /\ inflight' \subseteq inflight
  BY <1>0, <1>4 DEF Counted, QueueConsistent
<1> QED
  BY <1>1, <1>2, <1>3, <1>4, PushCounts
     DEF Next, Collect, RemoveConnection, Write, vars, queue, Tick, Round,
     RoundFails, ConfirmDeletion, Reload, Remove, RemoveInstance, BarSeries, RemoveFails, Removed,
     AppendCommit, AppendFail, FlushEnd, SealSelect, SealOne, SealAbort, Cleanup, Shutdown

-----------------------------------------------------------------------------
LEMMA KeyTyped == ASSUME NEW x \in Sample PROVE KeyOf(x) \in SealKey
<1>1. x.at \in Nat /\ x.epoch \in Nat /\ x.sid \in Series /\ Window \in Nat \ {0}
  BY ConstantsAssumption DEF Sample
<1>2. x.at \div Window \in Nat
  BY <1>1
<1> QED
  BY <1>1, <1>2 DEF KeyOf, SealKey

(* The parts of the state keep their types; the byte counter keeps its     *)
(* own because it counts.                                                  *)
LEMMA TypeKept == Inv /\ [Next]_vars => TypeOK'
<1> SUFFICES ASSUME Inv, [Next]_vars PROVE TypeOK'
  OBVIOUS
<1>0. TypeOK /\ Flushers = {"writer", "shutdown"} /\ known \subseteq born /\ Global \in Series
  BY ConstantsAssumption DEF Inv, Flushers, Aware
<1>1. bytes' \in Nat
  BY CountedKept, FS_CardinalityType DEF Counted, QueueConsistent
<1>2. ASSUME NEW W \in SUBSET Series, NEW write \in BOOLEAN, NEW jump, Round(W, write, jump)
      PROVE  TypeOK'
  <2>1. epoch' \in Nat /\ hold' \in BOOLEAN
    BY <1>0, <1>2 DEF Round, TypeOK
  <2>2. todo' \subseteq Series /\ mode' \in Modes
    BY <1>0, <1>2 DEF Round, TypeOK, Modes
  <2> QED
    BY <2>1, <2>2, <1>0, <1>2 DEF Round, TypeOK, queue, flush, database
<1>3. ASSUME NEW s \in Series, PushSample(s) PROVE TypeOK'
  <2>1. pending' \subseteq Sample /\ oldest' \in Nat
    BY <1>0, <1>3, MeasuredIsNew DEF PushSample, QueuePush, Kept, KeptSince, TypeOK, queue
  <2> QED
    BY <2>1, <1>0, <1>1, <1>3 DEF PushSample, QueuePush, TypeOK, Modes, flush, queue
<1>4. ASSUME NEW s \in Series, ConfirmDeletion(s) \/ BarSeries(s) PROVE TypeOK'
  BY <1>0, <1>4 DEF ConfirmDeletion, BarSeries, TypeOK, Modes, queue, flush
<1>5. ASSUME NEW s \in Series, ForgetTorrent(s) \/ PurgeQueue(s) PROVE TypeOK'
  BY <1>0, <1>1, <1>5 DEF ForgetTorrent, PurgeQueue, QueueInvalidate, TypeOK, Modes, flush, database
<1>6. ASSUME NEW f \in Flushers, FlushBegin(f) \/ AppendFail(f) \/ FlushEnd(f) PROVE TypeOK'
  BY <1>0, <1>6 DEF FlushBegin, AppendFail, FlushEnd, TypeOK, collector, queue, database
<1>7. ASSUME NEW f \in Flushers, AppendCommit(f) PROVE TypeOK'
  <2>1. batch[f] \subseteq Sample
    BY <1>0 DEF TypeOK
  <2>2. \A r \in FramesOf(batch[f]) : r \in Row
    BY <2>1, KeyTyped DEF FramesOf, Row
  <2>3. frames' \subseteq Row
    BY <2>2, <1>0, <1>7 DEF AppendCommit, TypeOK
  <2> QED
    BY <2>3, <1>0, <1>7 DEF AppendCommit, TypeOK, collector, queue
<1>8. CASE SealSelect
  <2>1. SealDue \subseteq SealKey
    BY <1>0 DEF SealDue, TypeOK, Row
  <2> QED
    BY <2>1, <1>0, <1>8 DEF SealSelect, TypeOK, collector, queue, flush, database
<1>9. ASSUME NEW k \in keys, SealOne(k) PROVE TypeOK'
  <2>1. k \in SealKey /\ WindowData(k) \subseteq Sample
    BY <1>0 DEF TypeOK, WindowData, FramesAt, Row
  <2>2. [key |-> k, data |-> WindowData(k)] \in Row
    BY <2>1 DEF Row
  <2>3. keys' \subseteq keys /\ frames' \subseteq frames
    BY <1>9 DEF SealOne
  <2>4. blocks' \subseteq blocks \cup {[key |-> k, data |-> WindowData(k)]}
    BY <1>9 DEF SealOne
  <2> QED
    BY <2>2, <2>3, <2>4, <1>0, <1>9 DEF SealOne, TypeOK, collector, queue, flush
<1>10. CASE Cleanup
  <2>1. /\ frames' \subseteq frames /\ blocks' \subseteq blocks
        /\ cleaned' \subseteq cleaned \cup tomb
    BY <1>10 DEF Cleanup
  <2> QED
    BY <2>1, <1>0, <1>10 DEF Cleanup, TypeOK, collector, queue, flush
<1>11. CASE Tick \/ SealAbort \/ Shutdown
  BY <1>0, <1>11 DEF Tick, SealAbort, Shutdown, TypeOK, Modes, collector, queue, flush, database
<1>12. CASE Reload \/ RoundFails
  <2>1. hold' \in BOOLEAN /\ known' \subseteq Series
    BY <1>0, <1>12 DEF Reload, RoundFails, LiveTorrents, TypeOK
  <2> QED
    BY <2>1, <1>0, <1>12 DEF Reload, RoundFails, TypeOK, Modes, queue, flush, database
<1>13. CASE Remove \/ RemoveInstance \/ RemoveFails \/ Removed
  BY <1>0, <1>13 DEF Remove, RemoveInstance, RemoveFails, Removed, TypeOK, Modes, queue, flush,
     database
<1>14. CASE Restart
  <2>1. /\ known' \subseteq born /\ mode' \in Modes /\ hold' \in BOOLEAN
        /\ epoch' = epoch + 1 /\ seq' = 0 /\ oldest' = 0
    BY <1>14 DEF Restart, LiveTorrents, Modes
  <2>2. /\ pending' = {} /\ inflight' = {} /\ dead' = {} /\ todo' = {} /\ keys' = {}
        /\ phase' \in [Flushers -> {"idle", "append", "end"}]
        /\ batch' \in [Flushers -> SUBSET Sample]
    BY <1>14 DEF Restart
  <2> QED
    BY <2>1, <2>2, <1>0, <1>1, <1>14 DEF Restart, TypeOK, database
<1>15. CASE UNCHANGED vars
  BY <1>0, <1>15 DEF vars, TypeOK, collector, queue, flush, database
<1> QED
  BY <1>2, <1>3, <1>4, <1>5, <1>6, <1>7, <1>8, <1>9, <1>10, <1>11, <1>12, <1>13, <1>14, <1>15
     DEF Next, Collect, RemoveConnection, Write

-----------------------------------------------------------------------------
LEMMA Initially == Init => Inv
<1> SUFFICES ASSUME Init PROVE Inv
  OBVIOUS
<1>1. TypeOK
  BY ConstantsAssumption DEF Init, TypeOK, Modes
<1>2. Counted
  BY FS_EmptySet DEF Init, Counted, QueueConsistent
<1>3. pending = {} /\ batch["writer"] = {} /\ batch["shutdown"] = {} /\ Rows = {}
  BY DEF Init, Flushers, Rows
<1>4. Fresh /\ Apart
  BY <1>3 DEF Fresh, Apart, Held, Stored
<1>5. StoredOnce /\ Aware /\ Gone
  BY DEF Init, StoredOnce, Aware, SampledSeriesLive, Gone, NoResurrection
<1> QED
  BY <1>1, <1>2, <1>4, <1>5 DEF Inv

(* Inv holds in every state the program reaches.                           *)
THEOREM Invariance == Spec => []Inv
<1>1. Inv /\ [Next]_vars => Inv'
  BY TypeKept, CountedKept, FreshKept, ApartKept, AwareKept, GoneKept DEF Inv
<1> QED
  BY <1>1, Initially, PTL DEF Spec

(* Every variable keeps its type; in particular the byte counter of the    *)
(* queue never goes below zero, whatever Invalidate takes from it.         *)
THEOREM TypeCorrect == Spec => []TypeOK
  BY Invariance, PTL DEF Inv

(* A committed sample is stored once, in a frame or in a block, whatever   *)
(* flushes late and whatever sealing, cleaning or restarting interleaves.  *)
THEOREM StoredAtMostOnce == Spec => []StoredOnce
  BY Invariance, PTL DEF Inv

(* A tombstone marked cleaned has no payload and never gets any again.     *)
THEOREM RemovedStaysEmpty == Spec => []NoResurrection
<1>1. Inv => NoResurrection
  BY DEF Inv, Gone
<1> QED
  BY <1>1, Invariance, PTL

(* The queue's byte counter is what is pending, and nothing of a series it *)
(* has invalidated is pending or in flight.                                *)
THEOREM QueueAccounts == Spec => []QueueConsistent
<1>1. Inv => QueueConsistent
  BY DEF Inv, Counted
<1> QED
  BY <1>1, Invariance, PTL

(* The collector never samples a torrent into a series behind a delete     *)
(* barrier.                                                                *)
THEOREM SamplesLiveSeries == Spec => []SampledSeriesLive
<1>1. Inv => SampledSeriesLive
  BY DEF Inv, Aware
<1> QED
  BY <1>1, Invariance, PTL

-----------------------------------------------------------------------------
(* The write path implements History.  What a reader sees are the samples  *)
(* of the rows that are not behind a barrier.                              *)
Shown == {r \in Rows : r.key.sid \notin tomb}

LEMMA VisibleSamples ==
  Inv => /\ Visible = UNION {r.data : r \in Shown}
         /\ \A r \in Rows : \A x \in r.data : x.sid = r.key.sid
         /\ Visible \subseteq Stored
<1> SUFFICES ASSUME Inv
             PROVE  /\ Visible = UNION {r.data : r \in Shown}
                    /\ \A r \in Rows : \A x \in r.data : x.sid = r.key.sid
                    /\ Visible \subseteq Stored
  OBVIOUS
<1>1. \A r \in Rows : \A x \in r.data : x.sid = r.key.sid
  <2>1. \A x : KeyOf(x).sid = x.sid
    BY DEF KeyOf
  <2> QED
    BY <2>1 DEF Inv, Apart
<1>2. Visible = UNION {r.data : r \in Shown}
  BY DEF Visible, Shown, Rows
<1>3. Visible \subseteq Stored
  BY <1>2 DEF Shown, Stored
<1> QED
  BY <1>1, <1>2, <1>3

(* A pushed sample is accepted.                                            *)
LEMMA PushAccepts == ASSUME Inv, NEW s \in Series, PushSample(s) PROVE H!Accept
<1>1. /\ pending' \subseteq pending \cup {Measured(s)}
      /\ UNCHANGED <<batch, frames, blocks, tomb, now>>
  BY DEF PushSample, QueuePush, Kept, flush, queue
<1>2. \A x \in Held' \ Held : x = Measured(s)
  BY <1>1 DEF Held
<1>3. Measured(s) \notin Visible
  BY MeasuredIsNew, VisibleSamples
<1>4. Visible' = Visible
  BY <1>1 DEF Visible
<1> QED
  BY <1>1, <1>2, <1>3, <1>4 DEF H!Accept

(* A barrier removes what its series shows, at once.                       *)
LEMMA BarrierRemoves ==
  ASSUME Inv, NEW s \in Series, ConfirmDeletion(s) \/ BarSeries(s)
  PROVE  H!Remove
<1>1. /\ tomb' = tomb \cup {s}
      /\ UNCHANGED <<pending, batch, frames, blocks, now>>
  BY DEF ConfirmDeletion, BarSeries, queue, flush
<1>2. Visible' = UNION {r.data : r \in {q \in Rows : q.key.sid \notin tomb \cup {s}}}
  BY <1>1 DEF Visible, Rows
<1>3. Visible' = {x \in Visible : x.sid # s}
  BY <1>2, VisibleSamples DEF Shown
<1>4. Held' = Held
  BY <1>1 DEF Held
<1> QED
  BY <1>1, <1>3, <1>4 DEF H!Remove

(* What an append adds was held by its flusher, and is of live series.     *)
LEMMA AppendCommits == ASSUME Inv, NEW f \in Flushers, AppendCommit(f) PROVE H!Commit
<1>0. /\ Apart /\ batch \in [Flushers -> SUBSET Sample] /\ Flushers = {"writer", "shutdown"}
  BY DEF Inv, TypeOK, Flushers
<1>1. /\ batch' = [batch EXCEPT ![f] = {}] /\ UNCHANGED <<pending, blocks, tomb, now>>
      /\ frames \subseteq frames'
      /\ \A r \in frames' \ frames : r \in FramesOf(batch[f]) /\ r.key.sid \notin tomb
  BY DEF AppendCommit, queue, Refused
<1>2. Held' = Held \ batch[f] /\ batch[f] \subseteq Held
  BY <1>0, <1>1 DEF Held, Apart
<1>3. \A r \in frames' \ frames : r.data \subseteq batch[f]
  BY <1>1, FramesOfBatch
<1>4. Visible \subseteq Visible'
  BY <1>1 DEF Visible
<1>5. Visible' \ Visible \subseteq batch[f]
  BY <1>1, <1>3 DEF Visible
<1>6. \A x \in Visible' : x.sid \notin tomb'
  <2>1. \A r \in frames' \ frames : \A x \in r.data : x.sid = r.key.sid
    <3>1. \A x : KeyOf(x).sid = x.sid
      BY DEF KeyOf
    <3> QED
      BY <1>1, <3>1, FramesOfBatch
  <2>2. \A r \in frames' \cup blocks' : \A x \in r.data : x.sid = r.key.sid
    BY <1>1, <2>1, VisibleSamples DEF Rows
  <2> QED
    BY <1>1, <2>2 DEF Visible
<1> QED
  BY <1>1, <1>2, <1>4, <1>5, <1>6 DEF H!Commit

(* Sealing shows the same samples from a block instead of frames.          *)
LEMMA SealHides == ASSUME Inv, NEW k \in keys, SealOne(k) PROVE UNCHANGED H!history
<1>0. /\ StoredOnce /\ UNCHANGED <<pending, batch, tomb, now>>
  BY DEF Inv, SealOne, queue, flush
<1>1. CASE UNCHANGED <<frames, blocks>>
  BY <1>0, <1>1 DEF H!history, Held, Visible
<1>2. CASE /\ FramesAt(k) # {}
           /\ frames' = frames \ FramesAt(k)
           /\ blocks' = IF Sealed(k) THEN blocks
                        ELSE blocks \cup {[key |-> k, data |-> WindowData(k)]}
  <2> DEFINE b == [key |-> k, data |-> WindowData(k)]
  <2>1. ~Sealed(k)
    BY <1>0, <1>2 DEF StoredOnce, Sealed, FramesAt
  <2>2. Rows' = (Rows \ FramesAt(k)) \cup {b}
    BY <1>0, <1>2, <2>1 DEF Rows, StoredOnce, FramesAt, Sealed
  <2>3. \A r \in FramesAt(k) : r \in Rows /\ r.key = k /\ r.data \subseteq b.data
    BY DEF FramesAt, Rows, WindowData
  <2>4. \A x \in b.data : \E r \in FramesAt(k) : x \in r.data
    BY DEF WindowData
  <2>5. Visible = UNION {r.data : r \in {q \in Rows : q.key.sid \notin tomb}}
    BY DEF Visible, Rows
  <2>6. Visible' = UNION {r.data : r \in {q \in Rows' : q.key.sid \notin tomb}}
    BY <1>0 DEF Visible, Rows
  <2>7. Visible' = Visible
    <3>1. ASSUME NEW x \in Visible PROVE x \in Visible'
      <4>1. PICK r \in Rows : r.key.sid \notin tomb /\ x \in r.data
        BY <2>5
      <4>2. CASE r \in FramesAt(k)
        BY <4>1, <4>2, <2>2, <2>3, <2>6
      <4>3. CASE r \notin FramesAt(k)
        BY <4>1, <4>3, <2>2, <2>6
      <4> QED
        BY <4>2, <4>3
    <3>2. ASSUME NEW x \in Visible' PROVE x \in Visible
      <4>1. PICK r \in Rows' : r.key.sid \notin tomb /\ x \in r.data
        BY <2>6
      <4>2. CASE r = b
        BY <4>1, <4>2, <2>3, <2>4, <2>5
      <4>3. CASE r \in Rows
        BY <4>1, <4>3, <2>5
      <4> QED
        BY <4>1, <4>2, <4>3, <2>2
    <3> QED
      BY <3>1, <3>2
  <2> QED
    BY <2>7, <1>0 DEF H!history, Held
<1> QED
  BY <1>1, <1>2 DEF SealOne

(* Cleanup takes from what is shown only what has expired.                 *)
LEMMA CleanupExpires == ASSUME Inv, Cleanup PROVE H!Expire
<1>1. PICK Fr \in Rounds(OfRemoved(frames)), Br \in Rounds(OfRemoved(blocks)) :
      \E Fx \in Rounds(Expired(frames \ Fr)), Bx \in Rounds(Expired(blocks \ Br)) :
         frames' = frames \ (Fr \cup Fx) /\ blocks' = blocks \ (Br \cup Bx)
  BY DEF Cleanup
<1>2. PICK Fx \in Rounds(Expired(frames \ Fr)), Bx \in Rounds(Expired(blocks \ Br)) :
         frames' = frames \ (Fr \cup Fx) /\ blocks' = blocks \ (Br \cup Bx)
  BY <1>1
<1>3. \A r \in Fr \cup Br : r.key.sid \in tomb
  BY DEF Rounds, OfRemoved
<1>4. \A r \in Fx \cup Bx : \A x \in r.data : x.at + RawAge < now
  BY DEF Rounds, Expired
<1>5. UNCHANGED <<now, tomb, pending, batch>>
  BY DEF Cleanup, queue, flush
<1>6. Visible' \subseteq Visible
  BY <1>2, <1>5 DEF Visible
<1>7. \A x \in Visible \ Visible' : x.at + RawAge < now
  BY <1>2, <1>3, <1>4, <1>5 DEF Visible
<1> QED
  BY <1>5, <1>6, <1>7 DEF H!Expire, Held

LEMMA StepImplements == Inv /\ [Next]_vars => [H!Next]_(H!history)
<1> SUFFICES ASSUME Inv, [Next]_vars PROVE [H!Next]_(H!history)
  OBVIOUS
<1>0. batch \in [Flushers -> SUBSET Sample] /\ Flushers = {"writer", "shutdown"} /\ now \in Nat
  BY DEF Inv, TypeOK, Flushers
<1>1. CASE Tick
  BY <1>0, <1>1 DEF Tick, H!Next, H!Advance, Held, Visible, queue, flush, database
<1>2. ASSUME UNCHANGED <<now, frames, blocks, tomb>>, pending' \subseteq pending,
             \A f \in Flushers : batch'[f] \subseteq batch[f] \cup pending
      PROVE  H!Next
  <2>1. Held' \subseteq Held /\ Visible' = Visible
    BY <1>0, <1>2 DEF Held, Visible
  <2> QED
    BY <2>1, <1>2 DEF H!Next, H!Accept
<1>3. ASSUME NEW s \in Series, ForgetTorrent(s) \/ PurgeQueue(s) PROVE H!Next
  BY <1>2, <1>3 DEF ForgetTorrent, PurgeQueue, QueueInvalidate, flush, database
<1>4. ASSUME NEW f \in Flushers, FlushBegin(f) \/ AppendFail(f) PROVE H!Next
  BY <1>0, <1>2, <1>4 DEF FlushBegin, AppendFail, queue, database
<1>5. CASE Restart
  BY <1>0, <1>2, <1>5 DEF Restart, database
<1>6. CASE UNCHANGED <<now, pending, batch, frames, blocks, tomb>>
  BY <1>6 DEF H!history, Held, Visible
<1> QED
  BY <1>1, <1>3, <1>4, <1>5, <1>6, PushAccepts, BarrierRemoves, AppendCommits, SealHides,
     CleanupExpires
     DEF H!Next, Next, Collect, RemoveConnection, Write, vars, queue, flush, database, Round,
     RoundFails, Reload, Remove, RemoveInstance, RemoveFails, Removed, FlushEnd, SealSelect,
     SealAbort, Shutdown

(* Whatever the writer, the collector, a removal, a restart and a shutdown *)
(* interleave, a committed sample is lost only to a barrier or to its age, *)
(* and a removed series takes none.                                        *)
THEOREM Implementation == Spec => ImplementsHistory
<1>1. Init => H!Init
  BY DEF Init, H!Init, Held, Visible, Flushers
<1> QED
  BY <1>1, StepImplements, Invariance, PTL DEF Spec, ImplementsHistory, H!Spec

-----------------------------------------------------------------------------
(* Readers.  That Dedup does not drop a stored sample for another needs    *)
(* that an epoch and a sequence number name one sample of a series, among  *)
(* all that was ever seen: in the queue's in-flight set and in the         *)
(* reader's rows there are samples that are stored no more, or never were  *)
(* (Alone).                                                                *)

Seen == Held \cup Stored \cup inflight \cup rowset

(* Measured before what the collector will offer next: x is of an earlier  *)
(* round, or of a series the round has done with.                          *)
Before(x) == /\ x.epoch <= epoch
             /\ x.epoch = epoch => x.seq <= seq
             /\ x.epoch = epoch /\ x.seq = seq /\ Sampling(mode) => x.sid \notin todo

SameName(x, y) == x.sid = y.sid /\ x.epoch = y.epoch /\ x.seq = y.seq

Alone == /\ Seen \subseteq Sample
         /\ \A x \in Seen : Before(x)
         /\ \A x, y \in Seen : SameName(x, y) => x = y

(* What a request is owed is stored, and in its rows once it has read them. *)
Owing == /\ owed \subseteq Covered(Stored, asked)
         /\ rowset \subseteq Covered(rowset, asked) /\ (reader # "rows" => rowset = {})
         /\ reader = "rows" => owed \subseteq rowset

RInv == Inv /\ Alone /\ Owing

-----------------------------------------------------------------------------
(* A reader's step is none of the writer's.                                *)
LEMMA ReadStutters == [ReadNext]_rvars => [Next]_vars
  BY DEF ReadNext, Read, CheckBarrier, ReadRaw, ReadTail, rvars

(* What was measured before the rest of a round stays so.                  *)
LEMMA BeforeKept ==
  ASSUME Inv, [Next]_vars, NEW x \in Sample, Before(x)
  PROVE  Before(x)'
<1>0. /\ epoch \in Nat /\ seq \in Nat /\ todo \subseteq Series
      /\ x.epoch \in Nat /\ x.seq \in Nat
  BY DEF Inv, TypeOK, Sample
<1>1. ASSUME NEW s \in Series, PushSample(s) PROVE Before(x)'
  BY <1>0, <1>1 DEF PushSample, Before, Sampling
<1>2. ASSUME NEW W \in SUBSET Series, NEW write \in BOOLEAN, NEW jump, Round(W, write, jump)
      PROVE  Before(x)'
  <2>1. (epoch' = epoch \/ epoch' = epoch + 1) /\ seq' = seq + 1
    BY <1>2 DEF Round
  <2> QED
    BY <2>1, <1>0 DEF Before
<1>3. CASE Sampling(mode') => UNCHANGED <<epoch, seq, mode, todo>>
  <2>1. CASE UNCHANGED <<epoch, seq>>
    BY <2>1, <1>3 DEF Before
  <2>2. CASE epoch' = epoch /\ seq' = seq + 1
    BY <2>2, <1>0 DEF Before
  <2>3. CASE epoch' = epoch + 1
    BY <2>3, <1>0 DEF Before
  <2> QED
    BY <1>1, <1>2, <2>1, <2>2, <2>3 DEF Next, Collect, RemoveConnection, Write, vars, collector,
       Tick, RoundFails, ConfirmDeletion, ForgetTorrent, Reload, Remove, PurgeQueue,
       RemoveInstance, BarSeries, RemoveFails, Removed, FlushBegin, AppendCommit, AppendFail,
       FlushEnd, SealSelect, SealAbort, SealOne, Cleanup, Shutdown, Restart
<1> QED
  BY <1>1, <1>2, <1>3 DEF Sampling, Next, Collect, RemoveConnection, Write, vars, collector,
     Tick, RoundFails, ConfirmDeletion, ForgetTorrent, Reload, Remove, PurgeQueue,
     RemoveInstance, BarSeries, RemoveFails, Removed, FlushBegin, AppendCommit, AppendFail,
     FlushEnd, SealSelect, SealAbort, SealOne, Cleanup, Shutdown, Restart

(* A flush shows as in flight what was pending; nothing else adds to it.   *)
LEMMA InflightFrom == Inv /\ [Next]_vars => inflight' \subseteq inflight \cup pending
<1> SUFFICES ASSUME Inv, [Next]_vars PROVE inflight' \subseteq inflight \cup pending
  OBVIOUS
<1>1. CASE \E s \in Series : PushSample(s) \/ ForgetTorrent(s) \/ PurgeQueue(s)
  BY <1>1 DEF PushSample, QueuePush, ForgetTorrent, PurgeQueue, QueueInvalidate, queue
<1>2. CASE \E f \in Flushers : FlushBegin(f) \/ FlushEnd(f)
  BY <1>2 DEF FlushBegin, FlushEnd
<1>3. CASE Restart
  BY <1>3 DEF Restart
<1>4. CASE UNCHANGED inflight
  BY <1>4
<1> QED
  BY <1>1, <1>2, <1>3, <1>4 DEF Next, Collect, RemoveConnection, Write, vars, queue, Tick, Round,
     RoundFails, ConfirmDeletion, Reload, Remove, RemoveInstance, BarSeries, RemoveFails, Removed,
     AppendCommit, AppendFail, SealSelect, SealAbort, SealOne, Cleanup, Shutdown

(* What a step adds to all that is seen: nothing, or one new sample.       *)
LEMMA SeenGrows ==
  ASSUME RInv, [ReadNext]_rvars
  PROVE  \/ Seen' \subseteq Seen
         \/ \E s \in Series : PushSample(s) /\ Seen' \subseteq Seen \cup {Measured(s)}
<1>0. Inv /\ [Next]_vars
  BY ReadStutters DEF RInv
<1>1. rowset' \subseteq rowset \cup Stored
  BY DEF ReadNext, Read, CheckBarrier, ReadRaw, ReadTail, rvars, reading, Covered, RawRows, Stored, Rows
<1>2. inflight' \subseteq Seen
  BY <1>0, InflightFrom DEF Seen, Held
<1> QED
  BY <1>0, <1>1, <1>2, OnlyMeasured DEF Seen

(* A series has one sample of an epoch and sequence number, ever.          *)
LEMMA AloneKept == RInv /\ [ReadNext]_rvars => Alone'
<1> SUFFICES ASSUME RInv, [ReadNext]_rvars PROVE Alone'
  OBVIOUS
<1>0. Inv /\ [Next]_vars /\ Alone
  BY ReadStutters DEF RInv
<1>1. \A x \in Seen : x \in Sample /\ Before(x)'
  BY <1>0, BeforeKept DEF Alone
<1>2. CASE Seen' \subseteq Seen
  BY <1>0, <1>1, <1>2 DEF Alone
<1>3. ASSUME NEW s \in Series, PushSample(s), Seen' \subseteq Seen \cup {Measured(s)}
      PROVE  Alone'
  <2>0. PICK m \in Sample : m = Measured(s)
    BY <1>0, <1>3, MeasuredIsNew
  <2>1. m.sid = s /\ m.epoch = epoch /\ m.seq = seq
    BY <2>0 DEF Measured
  <2>2. Sampling(mode) /\ s \in todo /\ todo' = todo \ {s} /\ epoch' = epoch /\ seq' = seq
    BY <1>3 DEF PushSample, Sampling
  <2>3. epoch \in Nat /\ seq \in Nat
    BY <1>0 DEF Inv, TypeOK
  <2>4. Before(m)'
    BY <2>1, <2>2, <2>3 DEF Before
  <2>5. \A x \in Seen : ~SameName(x, m) /\ ~SameName(m, x)
    BY <1>0, <2>1, <2>2 DEF Alone, Before, SameName
  <2>6. Seen' \subseteq Seen \cup {m}
    BY <1>3, <2>0
  <2>7. \A x, y \in Seen' : SameName(x, y) => x = y
    BY <1>0, <2>5, <2>6 DEF Alone
  <2> QED
    BY <1>1, <2>1, <2>4, <2>6, <2>7 DEF Alone
<1> QED
  BY <1>2, <1>3, SeenGrows

(* What is owed stays owed as long as it is stored, and is read.           *)
LEMMA OwingKept == RInv /\ [ReadNext]_rvars => Owing'
<1> SUFFICES ASSUME RInv, [ReadNext]_rvars PROVE Owing'
  OBVIOUS
<1>0. Owing /\ Apart /\ Visible \subseteq Stored /\ Visible' \subseteq Stored'
  BY DEF RInv, Inv, Visible, Stored, Rows
<1>1. ASSUME NEW s \in Series, CheckBarrier(s) PROVE Owing'
  <2>1. /\ reader = "idle" /\ reader' = "open" /\ owed' = Covered(Visible, asked')
        /\ rowset' = rowset /\ rowset = {} /\ Stored' = Stored
    BY <1>0, <1>1 DEF CheckBarrier, Owing, vars, database, Stored, Rows
  <2> QED
    BY <1>0, <2>1 DEF Owing, Covered
<1>2. CASE ReadRaw
  <2>1. /\ reader' = "rows" /\ asked' = asked /\ owed' = owed /\ Stored' = Stored
        /\ rowset' = Covered(UNION {r.data : r \in RawRows(asked.sid)}, asked)
    BY <1>2 DEF ReadRaw, vars, database, Stored, Rows
  <2>2. ASSUME NEW x \in owed PROVE x \in rowset'
    <3>1. x \in Stored /\ x.sid = asked.sid /\ x.at >= asked.from
      BY <1>0 DEF Owing, Covered
    <3>2. PICK r \in Rows : x \in r.data
      BY <3>1 DEF Stored
    <3>3. r.key.sid = asked.sid
      <4>1. KeyOf(x) = r.key
        BY <1>0, <3>2 DEF Apart
      <4>2. KeyOf(x).sid = x.sid
        BY DEF KeyOf
      <4> QED
        BY <3>1, <4>1, <4>2
    <3> QED
      BY <2>1, <3>1, <3>2, <3>3 DEF Covered, RawRows, Rows
  <2> QED
    BY <1>0, <2>1, <2>2 DEF Owing, Covered
<1>3. CASE ReadTail
  BY <1>3 DEF ReadTail, Owing, Covered
<1>4. CASE owed' = owed \cap Visible' /\ UNCHANGED <<reader, asked, rowset>>
  BY <1>0, <1>4 DEF Owing, Covered
<1>5. CASE UNCHANGED rvars
  BY <1>0, <1>5 DEF rvars, reading, vars, database, Owing, Stored, Rows
<1> QED
  BY <1>1, <1>2, <1>3, <1>4, <1>5 DEF ReadNext, Read

LEMMA ReadInitially == ReadInit => RInv
<1> SUFFICES ASSUME ReadInit PROVE RInv
  OBVIOUS
<1>1. Inv
  BY Initially DEF ReadInit
<1>2. Seen = {}
  BY DEF ReadInit, Init, Seen, Held, Stored, Rows, Flushers
<1>3. Alone /\ Owing
  BY <1>2 DEF ReadInit, Alone, Owing, Covered
<1> QED
  BY <1>1, <1>3 DEF RInv

LEMMA ReadImpliesSpec == ReadSpec => Spec
<1>1. ReadInit => Init
  BY DEF ReadInit
<1> QED
  BY <1>1, ReadStutters, PTL DEF ReadSpec, Spec

THEOREM ReadInvariance == ReadSpec => []RInv
<1>1. RInv /\ Inv' /\ [ReadNext]_rvars => RInv'
  BY AloneKept, OwingKept DEF RInv
<1>2. ReadSpec => []Inv
  BY ReadImpliesSpec, Invariance, PTL
<1> QED
  BY <1>1, <1>2, ReadInitially, PTL DEF ReadSpec

(* Whatever the writer does between a request's two reads, the answer has  *)
(* every sample that stayed stored since the request was checked.          *)
THEOREM NothingMissed == ReadSpec => []ReadComplete
<1>1. RInv => ReadComplete
  <2> SUFFICES ASSUME RInv, reader = "rows", NEW x \in owed PROVE x \in Answer
    BY DEF ReadComplete
  <2> DEFINE All == rowset \cup Covered(Tail(asked.sid), asked)
  <2>1. x \in All /\ All \subseteq Seen /\ \A y \in All : y.sid = asked.sid
    BY DEF RInv, Owing, Covered, Tail, Seen, Held
  <2>2. ASSUME NEW y \in All, x.epoch = y.epoch, x.seq = y.seq PROVE x.at <= y.at
    <3>1. x = y
      BY <2>1, <2>2 DEF RInv, Alone, SameName
    <3>2. x.at \in Nat
      BY <2>1 DEF RInv, Alone, Sample
    <3> QED
      BY <3>1, <3>2
  <2> QED
    BY <2>1, <2>2 DEF Answer, Dedup
<1> QED
  BY <1>1, ReadInvariance, PTL

(* A reader takes nothing from the pipeline: it still implements History.  *)
THEOREM ReadersHarmless == ReadSpec => ImplementsHistory
  BY ReadImpliesSpec, Implementation, PTL
=============================================================================

------------------------------- MODULE Reading -------------------------------
(***************************************************************************)
(* A chart request for the raw tier (query/query.go: Series, rawSamples;   *)
(* store/history.go: CheckBarrier, Raw, Dedup) against the write path of   *)
(* Pipeline.tla.  The reader takes no lock of the writer: the database is  *)
(* read in one statement, the queue's Tail afterwards, and flushes, seals, *)
(* expiry and deletions go on in between.                                  *)
(***************************************************************************)
EXTENDS Pipeline

VARIABLES
  reader,    \* "idle", "open" (barrier checked) or "rows" (database read)
  asked,     \* the request: its series and the first time it covers
  rowset,    \* the samples Raw returned
  owed       \* for the properties: stored since the request was checked

reading == <<reader, asked, rowset, owed>>
rvars   == <<vars, reading>>

NoRequest == [sid |-> Global, from |-> 0]

ReadInit == Init /\ reader = "idle" /\ asked = NoRequest /\ rowset = {} /\ owed = {}

(* tierSpans: the raw tier reaches back RawAge from the request's clock.   *)
RawFrom == IF now > RawAge THEN now - RawAge ELSE 0

Covered(S, q) == {x \in S : x.sid = q.sid /\ x.at >= q.from}

(* Queue.Tail: in-flight samples first, then pending ones.                 *)
Tail(s) == {x \in inflight \cup pending : x.sid = s}

(* Series: a request for a series behind its barrier is refused.           *)
CheckBarrier(s) ==
  /\ reader = "idle" /\ s \in born \ tomb
  /\ reader' = "open" /\ asked' = [sid |-> s, from |-> RawFrom]
  /\ owed' = Covered(Visible, asked')
  /\ UNCHANGED <<vars, rowset>>

(* Mutant: the frames of a window are not read once it has a block.        *)
UnsealedRows(s) ==
  {r \in blocks : r.key.sid = s} \cup
  {r \in frames : r.key.sid = s /\ ~\E b \in blocks : b.key.sid = s /\ b.key.win = r.key.win}

(* UNION ALL of the final blocks and the frames, in one statement.         *)
RawRows(s) == {r \in frames \cup blocks : r.key.sid = s}

ReadRaw ==
  /\ reader = "open" /\ reader' = "rows"
  /\ rowset' = Covered(UNION {r.data : r \in RawRows(asked.sid)}, asked)
  /\ UNCHANGED <<vars, asked, owed>>

(* Dedup keeps the first sample, by time, of an epoch and sequence number. *)
Dedup(S) == {x \in S : \A y \in S : x.epoch = y.epoch /\ x.seq = y.seq => x.at <= y.at}

(* What rawSamples returns, had it read the queue now.                     *)
Answer == Dedup(rowset \cup Covered(Tail(asked.sid), asked))

ReadTail ==
  /\ reader = "rows" /\ reader' = "idle"
  /\ asked' = NoRequest /\ rowset' = {} /\ owed' = {}
  /\ UNCHANGED vars

Read == (\E s \in Series : CheckBarrier(s)) \/ ReadRaw \/ ReadTail

ReadNext == Read \/ (Next /\ owed' = owed \cap Visible' /\ UNCHANGED <<reader, asked, rowset>>)

ReadSpec == ReadInit /\ [][ReadNext]_rvars

-----------------------------------------------------------------------------
(* A sample that the database holds when the request is checked, and holds *)
(* until it is answered, is in the answer, whatever was flushed, sealed or *)
(* dropped as a duplicate meanwhile.                                       *)
ReadComplete == reader = "rows" => owed \subseteq Answer
=============================================================================

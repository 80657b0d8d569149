------------------------------- MODULE Tiers -------------------------------
(***************************************************************************)
(* How committed windows move down the storage tiers (store/history.go,    *)
(* called by Manager.Step): the frames of a five-minute window become its  *)
(* raw block and its open rollup buckets, the open buckets of an hour      *)
(* become one summary block, and every tier expires at its age.  Time is   *)
(* counted in windows.  A window is its key: what was sampled in it, and   *)
(* how a bucket is computed, are left out.  The 60 s and the 300 s tier    *)
(* are written and packed by the same statements and differ in their age   *)
(* only; "summary" stands for either.  Tombstones, late batches and LIMIT  *)
(* 256 are Pipeline's; Space has the pause in which Step seals nothing.    *)
(***************************************************************************)
EXTENDS Naturals, FiniteSets

CONSTANTS Series,
          Hour,        \* windows per summary block                (12)
          SealAge,     \* age from which a window may be sealed, in windows
          RawAge,      \* age at which tier 0 expires              (24 h)
          SummaryAge,  \* age at which the summary tier expires    (72 h, retention)
          Limit,       \* keys per SealRaw and SealSummaries call  (8)
          MaxNow, MaxEpoch, MaxCorrupt  \* bounds: clock, restarts, corrupt frames

ASSUME TiersAssumption ==
  /\ {Hour, Limit, SealAge} \subseteq Nat \ {0}   \* a window is over when it is sealed
  /\ {RawAge, SummaryAge, MaxNow, MaxEpoch, MaxCorrupt} \subseteq Nat
  /\ SealAge <= RawAge /\ RawAge <= SummaryAge

VARIABLES now,
          up,       \* the process runs
          epoch,
          frames,   \* keys of the windows that have frames
          corrupt,  \* keys of the windows whose frames do not, or did not, decode
          blocks,   \* keys of the raw blocks
          open,     \* keys of the windows whose buckets are in rollup_open
          packed,   \* summary blocks: an hour and the windows it covers
          step,     \* the writer: between Steps, in SealRaw, in SealSummaries
          keys, hours, \* what these two have selected and not yet handled
          busy,     \* this Step committed something
          quiet     \* the last Step since the clock moved did not

database == <<frames, corrupt, blocks, open, packed>>
writer   == <<step, keys, hours, busy, quiet>>
vars     == <<now, up, epoch, database, writer>>

Key     == [sid : Series, epoch : Nat, win : Nat]
HourKey == [sid : Series, epoch : Nat, hour : Nat]

HourOf(k) == [sid |-> k.sid, epoch |-> k.epoch, hour |-> k.win \div Hour]

TypeOK == /\ now \in Nat /\ up \in BOOLEAN /\ epoch \in Nat
          /\ frames \subseteq Key /\ corrupt \subseteq Key /\ blocks \subseteq Key
          /\ open \subseteq Key
          /\ \A p \in packed : p.key \in HourKey /\ \A k \in p.data : k \in Key /\ HourOf(k) = p.key
          /\ step \in {"idle", "raw", "summaries"}
          /\ keys \subseteq Key /\ hours \subseteq HourKey
          /\ busy \in BOOLEAN /\ quiet \in BOOLEAN

Init == /\ now = 0 /\ up = TRUE /\ epoch = 0
        /\ frames = {} /\ corrupt = {} /\ blocks = {} /\ open = {} /\ packed = {}
        /\ step = "idle" /\ keys = {} /\ hours = {} /\ busy = FALSE /\ quiet = FALSE

(* A running writer takes 300 Steps per window, each at the time it began: *)
(* the clock does not move before one of them found nothing it could do.   *)
Tick == /\ now < MaxNow /\ now' = now + 1
        /\ (up => quiet) /\ step = "idle"
        /\ quiet' = FALSE
        /\ UNCHANGED <<up, epoch, database, step, keys, hours, busy>>

(* Append, for the current window.                                         *)
Append(s, bad) ==
  LET k == [sid |-> s, epoch |-> epoch, win |-> now] IN
  /\ up /\ k \notin frames
  /\ bad => Cardinality(corrupt) < MaxCorrupt
  /\ frames' = frames \cup {k}
  /\ corrupt' = IF bad THEN corrupt \cup {k} ELSE corrupt
  /\ UNCHANGED <<now, up, epoch, blocks, open, packed, writer>>

-----------------------------------------------------------------------------
(* Mutant: only what the running collector wrote is due.                   *)
DueThisEpoch(k) == k.epoch = epoch /\ k.win + SealAge <= now

Due(k) == k.win + SealAge <= now

(* Mutant: a bucket is packed as soon as it is sealed.                     *)
HourDueAtOnce(k) == Due(k)

HourDue(k) == k.win + Hour + SealAge <= now

(* ORDER BY rank LIMIT.                                                    *)
FirstOf(S, rank) == {K \in SUBSET S : /\ Cardinality(K) <= Limit
                                      /\ Cardinality(K) = Limit \/ K = S
                                      /\ \A k \in K, j \in S \ K : rank[k] <= rank[j]}

SealRaw ==
  /\ up /\ step = "idle"
  /\ keys' \in FirstOf({k \in frames : Due(k)}, [k \in frames |-> k.win])
  /\ step' = "raw" /\ busy' = FALSE
  /\ UNCHANGED <<now, up, epoch, database, hours, quiet>>

(* sealOne: block, open buckets and the deletion of the frames, at once.   *)
SealOne(k) ==
  /\ k \in keys /\ k \notin corrupt /\ \A j \in keys : k.win <= j.win
  /\ keys' = keys \ {k} /\ busy' = TRUE
  /\ blocks' = blocks \cup {k} /\ open' = open \cup {k} /\ frames' = frames \ {k}
  /\ UNCHANGED <<now, up, epoch, corrupt, packed, step, hours, quiet>>

(* A frame that does not decode ends the call; Step goes on.               *)
SealRefused(k) ==
  /\ k \in keys \cap corrupt /\ \A j \in keys : k.win <= j.win
  /\ keys' = {}
  /\ UNCHANGED <<now, up, epoch, database, step, hours, busy, quiet>>

SealSummaries ==
  /\ step = "raw" /\ keys = {}
  /\ LET H == {HourOf(k) : k \in {j \in open : HourDue(j)}}
     IN  hours' \in FirstOf(H, [h \in H |-> h.hour])
  /\ step' = "summaries"
  /\ UNCHANGED <<now, up, epoch, database, keys, busy, quiet>>

(* Mutant: the rows of the hour are read without their series.             *)
OpenOfAny(h) == {k \in open : k.win \div Hour = h.hour}

OpenOf(h) == {k \in open : HourOf(k) = h}

(* Mutant: the packed buckets stay open.                                   *)
KeepOpen(h) == open

StillOpen(h) == open \ OpenOf(h)

(* sealSummary: INSERT OR IGNORE of the block, DELETE of its open buckets. *)
PackOne(h) ==
  /\ step = "summaries" /\ h \in hours /\ \A j \in hours : h.hour <= j.hour
  /\ hours' = hours \ {h} /\ busy' = TRUE
  /\ packed' = IF \E p \in packed : p.key = h THEN packed
               ELSE packed \cup {[key |-> h, data |-> OpenOf(h)]}
  /\ open' = StillOpen(h)
  /\ UNCHANGED <<now, up, epoch, frames, corrupt, blocks, step, keys, quiet>>

StepEnd ==
  /\ step = "summaries" /\ hours = {}
  /\ step' = "idle" /\ quiet' = ~busy
  /\ UNCHANGED <<now, up, epoch, database, keys, hours, busy>>

(* Cleanup, every 300th Step: expired rows, frames never sealed included.  *)
Old(k, age) == k.win + 1 + age <= now

Cleanup ==
  /\ up /\ step = "idle" /\ quiet
  /\ frames' = {k \in frames : ~Old(k, RawAge)}
  /\ blocks' = {k \in blocks : ~Old(k, RawAge)}
  /\ open' = {k \in open : ~Old(k, SummaryAge)}
  /\ packed' = {p \in packed : \E k \in p.data : ~Old(k, SummaryAge)}
  /\ UNCHANGED <<now, up, epoch, corrupt, writer>>

-----------------------------------------------------------------------------
(* The process ends, between any two commits, and starts later.            *)
Stop == /\ up /\ epoch < MaxEpoch /\ up' = FALSE
        /\ step' = "idle" /\ keys' = {} /\ hours' = {} /\ busy' = FALSE /\ quiet' = FALSE
        /\ UNCHANGED <<now, epoch, database>>

Start == /\ ~up
         /\ up' = TRUE /\ epoch' = epoch + 1
         /\ UNCHANGED <<now, database, writer>>

Next == \/ Tick \/ Stop \/ Start
        \/ \E s \in Series, bad \in BOOLEAN : Append(s, bad)
        \/ SealRaw \/ SealSummaries \/ StepEnd \/ Cleanup
        \/ \E k \in keys : SealOne(k) \/ SealRefused(k)
        \/ \E h \in hours : PackOne(h)

Spec == Init /\ [][Next]_vars

-----------------------------------------------------------------------------
Summarised(k) == k \in open \/ \E p \in packed : k \in p.data

(* A window that has its raw block has its summary, which outlives it:     *)
(* "crash during frame->block->summary sealing: no duplicates, no loss"    *)
(* (docs/test-report.md:30).  Behind a backlog of more windows than one    *)
(* SealRaw call takes, it does not.                                        *)
SummaryNotLost == \A k \in blocks : Summarised(k)

(* Windows that a frame which does not decode keeps from being sealed: a   *)
(* SealRaw call takes the earliest windows first and ends at the frame.    *)
Behind(k) == \E j \in corrupt : j.win <= k.win

(* While one call can take all that is due, a sealed window has its        *)
(* summary as long as it has its block, over crashes between block, open   *)
(* bucket and summary and over a downtime of any length.                   *)
SummaryKept == \A k \in blocks : Summarised(k) \/ Behind(k)

(* Then, too, nothing expires unsealed that a corrupt frame did not hold   *)
(* back: sealing always comes before the expiry of the frames.             *)
SealedBeforeExpiry == [][\A k \in frames \ frames' : k \in blocks' \/ Behind(k)]_vars

(* No window is counted twice in the summary tier, where queries read open *)
(* buckets and summary blocks together.                                    *)
SummaryOnce == /\ \A p \in packed : p.data \cap open = {}
               /\ \A p, q \in packed : p # q => p.data \cap q.data = {}

(* "A corrupt block therefore only loses its own window"                   *)
(* (docs/codec.md:22-23): a frame that decodes is sealed before it can     *)
(* expire.  The code breaks this (README, section 4).                      *)
OnlyCorruptExpireUnsealed ==
  [][\A k \in frames \ frames' : k \in blocks' \/ k \in corrupt]_vars
=============================================================================

------------------------------- MODULE Space -------------------------------
(***************************************************************************)
(* The space guard (store/usage.go) and the writer schedule it depends on  *)
(* (Manager.Step, collector/manager.go): the budget, its page limit, the   *)
(* write-ahead log, the free space of the host, and the pause in which     *)
(* nothing is sampled or sealed.  Sizes are in units of which the budgets  *)
(* hold a few; the 15 MiB that CheckSpace adds to the directory are below  *)
(* one.  The data directory is the database and its log.  What is stored,  *)
(* and which of it Cleanup may delete, is Pipeline's and Tiers'.           *)
(***************************************************************************)
EXTENDS Naturals

CONSTANTS Small, Large,          \* the two budgets ValidateSettings admits
          SmallStop, LargeStop,  \* their WAL thresholds          (96, 128 MiB)
          FlushEvery, CleanEvery, \* in Steps that check the space (30 s, 300 s of 5 s)
          CleanupLimit, Vacuum,  \* pages one Cleanup frees, and gives back
          MaxQueued,             \* bound: pages the queue's samples take
          MaxWal, MaxChange      \* bounds: log size, budget changes

ASSUME SpaceAssumption ==
  /\ {Small, Large, MaxQueued, MaxWal, MaxChange} \subseteq Nat
  /\ {SmallStop, LargeStop, FlushEvery, CleanEvery, CleanupLimit, Vacuum} \subseteq Nat \ {0}
  /\ Small < Large /\ SmallStop <= LargeStop /\ LargeStop <= MaxWal

VARIABLES
  n, step,       \* Manager.Step: which, and the part of it that is next
  paused, hold,  \* Store.Paused, Store.ClockHold
  budget, limit, \* Settings.Budget; max_page_count
  used, free,    \* pages with data, pages on the freelist
  wal, tail, copied, \* log file; its part in use; whether all of it is copied
  queued,        \* pages the samples in the queue will take
  reader,        \* a long read keeps the log from being copied and restarted
  short,         \* the host had no 128 MiB left when CheckSpace looked
  changes,       \* budget changes so far
  trusted, grown \* for the properties: a resume and nothing but writes since;
                 \* the pages written since

setting == <<budget, limit, changes>>
log     == <<wal, tail, copied>>
ghost   == <<trusted, grown>>
vars    == <<n, step, paused, hold, setting, used, free, log, queued, reader, short, ghost>>

Parts == <<"flush", "check", "clean", "seal", "checkpoint">>

Enough == (7 * Large) \div 100 + 2  \* past the distance of the two lines

TypeOK ==
  /\ n \in 1..CleanEvery /\ step \in 1..5
  /\ {paused, hold, copied, reader, trusted} \subseteq BOOLEAN
  /\ budget \in {Small, Large} /\ changes \in 0..MaxChange
  /\ {used, free, limit, wal, tail} \subseteq Nat
  /\ used + free <= limit /\ limit <= (Large * 75) \div 100
  /\ tail <= wal /\ wal <= MaxWal /\ queued \in 0..MaxQueued
  /\ short \in BOOLEAN /\ grown \in 0..Enough

Pct(p) == (budget * p) \div 100
WalStop == IF budget = Small THEN SmallStop ELSE LargeStop
Larger(a, b)  == IF a > b THEN a ELSE b
Smaller(a, b) == IF a < b THEN a ELSE b

(* Mutant: the database alone may fill the budget.                         *)
WholeBudget(b) == Larger(b, used + free)

(* setPageLimit: SQLite lowers the limit no further than the file.         *)
PageLimit(b) == Larger((b * 75) \div 100, used + free)

Init ==
  /\ n = 1 /\ step = 1 /\ paused = FALSE /\ hold = FALSE
  /\ used = 0 /\ free = 0
  /\ budget \in {Small, Large} /\ limit = PageLimit(budget) /\ changes = 0
  /\ wal = 0 /\ tail = 0 /\ copied = TRUE
  /\ queued = 0 /\ reader = FALSE /\ short = FALSE
  /\ trusted = FALSE /\ grown = 0

(* The collectors sample while PersistStatus is false.                     *)
Sample ==
  /\ ~paused /\ queued < MaxQueued /\ queued' = queued + 1
  /\ UNCHANGED <<n, step, paused, hold, setting, used, free, log, reader, short, ghost>>

-----------------------------------------------------------------------------
(* Manager.Step.                                                           *)

At(part) == Parts[step] = part

Part == IF step < 5 THEN step' = step + 1 /\ n' = n
        ELSE step' = 1 /\ n' = (n % CleanEvery) + 1

(* A commit appends to the log; it starts over when all of it is in the    *)
(* database and nobody reads it.  The file keeps its size.  Most commits   *)
(* are far below a unit.                                                   *)
LogWrite ==
  /\ \E size \in 0..1 :
       tail' = IF copied /\ ~reader THEN size ELSE Smaller(tail + size, MaxWal)
  /\ wal' = Larger(wal, tail') /\ copied' = FALSE

(* Every FlushEvery: queue, snapshots and lifecycle.  New pages come from  *)
(* the freelist, then from the end of the file; when the file is full the  *)
(* batch is given up, and SetWriteError pauses.                            *)
Flush ==
  /\ At("flush") /\ Part
  /\ IF n % FlushEvery # 0 THEN UNCHANGED <<paused, used, free, log, queued, ghost>>
     ELSE /\ queued' = 0
          /\ IF used + Larger(queued, free) <= limit
             THEN /\ used' = used + queued /\ free' = free - Smaller(queued, free)
                  /\ grown' = IF trusted THEN Smaller(grown + queued, Enough) ELSE 0
                  /\ LogWrite /\ UNCHANGED <<paused, trusted>>
             ELSE paused' = TRUE /\ trusted' = FALSE /\ grown' = 0 /\ UNCHANGED <<used, free, log>>
  /\ UNCHANGED <<hold, setting, reader, short>>

Directory == used + free + wal

MustStop(host) == \/ wal >= WalStop \/ Directory >= Pct(95)
                  \/ host = "under64" \/ used >= Pct(74)

(* Mutant: what must not stop may resume.                                  *)
NotStopped(host) == TRUE

MayResume(host) == /\ Directory < Pct(85) /\ 2 * wal < WalStop
                   /\ host = "over128" /\ used < Pct(68)

(* The host's free space is what it happens to be.                         *)
CheckSpace ==
  /\ At("check") /\ Part
  /\ \E host \in {"under64", "under128", "over128"} :
       /\ paused' = (MustStop(host) \/ (paused /\ ~MayResume(host)))
       /\ short' = (host # "over128")
  /\ trusted' = IF paused # paused' THEN ~paused' ELSE trusted
  /\ grown' = IF paused # paused' THEN 0 ELSE grown
  /\ UNCHANGED <<hold, setting, used, free, log, queued, reader>>

(* Mutant: a paused writer leaves the cleanup out, like the sealing.       *)
CleanupUnpaused == n = CleanEvery /\ ~paused

CleanupDue == n = CleanEvery \/ paused

StillFree(d) == free + d - Smaller(Vacuum, free + d)

(* What has expired by now is at most CleanupLimit of all that is stored;  *)
(* a clock hold keeps everything.  Then some free pages are given back.    *)
Cleanup ==
  /\ At("clean") /\ Part
  /\ IF ~CleanupDue THEN UNCHANGED <<used, free, log>>
     ELSE \E d \in 0..(IF hold THEN 0 ELSE Smaller(CleanupLimit, used)) :
            /\ used' = used - d /\ free' = StillFree(d)
            /\ LogWrite
  /\ UNCHANGED <<paused, hold, setting, queued, reader, short, ghost>>

Seal ==
  /\ At("seal") /\ Part
  /\ IF paused THEN UNCHANGED log ELSE LogWrite \/ UNCHANGED log
  /\ UNCHANGED <<paused, hold, setting, used, free, queued, reader, short, ghost>>

(* PASSIVE: the log is copied, unless a reader is in the way.              *)
Passive == copied' = (copied \/ ~reader) /\ UNCHANGED <<wal, tail>>

Checkpoint ==
  /\ At("checkpoint") /\ Part
  /\ IF n % FlushEvery = 0 \/ CleanupDue THEN Passive ELSE UNCHANGED log
  /\ UNCHANGED <<paused, hold, setting, used, free, queued, reader, short, ghost>>

-----------------------------------------------------------------------------
(* Around the writer.                                                      *)

(* SaveSettings with another budget.                                       *)
SetBudget ==
  /\ changes < MaxChange /\ changes' = changes + 1
  /\ budget' = (IF budget = Small THEN Large ELSE Small)
  /\ limit' = PageLimit(budget')
  /\ trusted' = FALSE /\ grown' = 0
  /\ UNCHANGED <<n, step, paused, hold, used, free, log, queued, reader, short>>

(* A collector saw the clock jump ahead; ConfirmClock is called by no one. *)
HoldClock == /\ ~hold /\ hold' = TRUE
             /\ UNCHANGED <<n, step, paused, setting, used, free, log, queued, reader, short, ghost>>

Reader == /\ reader' = ~reader
          /\ UNCHANGED <<n, step, paused, hold, setting, used, free, log, queued, short, ghost>>

(* The process ends and starts again: a shutdown, or the first checkpoint  *)
(* of the last connection, leaves no log; after a crash it is kept.        *)
Restart(clean) ==
  /\ n' = 1 /\ step' = 1 /\ paused' = FALSE /\ hold' = FALSE
  /\ limit' = PageLimit(budget)
  /\ wal' = (IF clean THEN 0 ELSE wal) /\ tail' = (IF clean THEN 0 ELSE tail)
  /\ copied' = (copied \/ clean)
  /\ queued' = 0 /\ reader' = FALSE /\ trusted' = FALSE /\ grown' = 0
  /\ UNCHANGED <<budget, changes, used, free, short>>

Writer == Flush \/ CheckSpace \/ Cleanup \/ Seal \/ Checkpoint

Next == \/ Writer \/ Sample \/ SetBudget \/ HoldClock \/ Reader
        \/ \E clean \in BOOLEAN : Restart(clean)

Spec == Init /\ [][Next]_vars

(* The writer loop keeps stepping, a read is limited in rows and ends, and *)
(* what is stored expires: of the rounds in which Cleanup may delete, some *)
(* delete something.                                                       *)
Fairness == /\ WF_vars(Writer)
            /\ WF_vars(Reader /\ ~reader')
            /\ SF_vars(Cleanup /\ used' < used)

FairSpec == Spec /\ Fairness

-----------------------------------------------------------------------------
(* Between a resume and the next pause for the size of the database lie    *)
(* more pages than the two lines are apart, however the deletions and the  *)
(* budget's other rules interleave: the guard does not flap.               *)
NoFlapping ==
  [][CheckSpace /\ trusted /\ ~trusted' /\ ~short' /\ wal < WalStop /\ Directory < Pct(95)
       => grown > Pct(74) - Pct(68)]_vars

(* A pause ends, unless the clock is held, the host stays short of space,  *)
(* or the log file is past half its threshold: only a restart shrinks it.  *)
PauseEnds == \/ []<>~paused
             \/ []<>(hold \/ short \/ 2 * wal >= WalStop)

(* "budget/page/WAL limits pause and resume with hysteresis"               *)
(* (docs/test-report.md:37): a pause ends, unless the clock is held or the *)
(* host stays short of space.                                              *)
PauseResumes == []<>~paused \/ []<>(hold \/ short)
=============================================================================

------------------------------ MODULE Deletion ------------------------------
(***************************************************************************)
(* When one collector deletes the history of a torrent: its rounds against *)
(* a qBittorrent whose list changes at will (collector/collector.go), the  *)
(* user's approval of a bulk removal, the lifecycle it persists, and its   *)
(* restarts.  A round is a request, during which anything else may happen, *)
(* and then its answer or its failure.  The series written are Pipeline's. *)
(***************************************************************************)
EXTENDS Lifecycle

CONSTANTS Recalibrate,  \* 300 s between full reads that nothing else asks for
          BackoffBase,  \* 1 s, doubled with each failure, five times at most
          AuthCooldown, \* 300 s after a refused login
          MaxNow,       \* bound: last clock value
          MaxCrash, MaxReload, MaxFail, MaxApprove  \* bounds: how often each happens

ASSUME DeletionAssumption ==
  {Recalibrate, BackoffBase, AuthCooldown, MaxNow, MaxCrash, MaxReload, MaxFail, MaxApprove}
     \subseteq Nat

VARIABLES
  now,
  qb,        \* the keys qBittorrent reports
  live,      \* database: keys with a torrent row that is not deleted
  saved,     \* database: deletion_candidate, a set of at most one lifecycle
  known, cache, life, full, lastCal, cooldown, failures, protectOnStart, \* Collector
  request,   \* "none", or what the round in progress asked for
  begun,     \* when that round began
  left       \* what is left of the bounds

(* What has really been observed, for the properties only.                 *)
VARIABLES
  missed,    \* per key: times of the full reads without it since last seen
  reported,  \* per key: when its removal was first reported since last seen, or 0
  vanished,  \* keys missing from a bulk loss and not seen since
  trouble,   \* when the collector last failed a round or began its first
  restored,  \* when it last started, or answered again after a failure; 0: failing
  agreed     \* keys that were candidates when the user last approved

collector == <<known, cache, life, full, lastCal, cooldown, failures, protectOnStart>>
round     == <<request, begun>>
database  == <<live, saved>>
observed  == <<missed, reported, vanished, trouble, restored, agreed>>
vars      == <<now, qb, database, collector, round, left, observed>>

TypeOK ==
  /\ now \in Nat /\ begun \in Nat
  /\ qb \subseteq Keys /\ live \subseteq Keys /\ known \subseteq Keys /\ cache \subseteq Keys
  /\ IsLife(life) /\ (\A l \in saved : IsLife(l)) /\ Cardinality(saved) <= 1
  /\ full \in BOOLEAN /\ protectOnStart \in BOOLEAN
  /\ lastCal \in Nat /\ cooldown \in Nat /\ failures \in Nat
  /\ request \in {"none", "full", "delta"}
  /\ left \in [crash : 0..MaxCrash, reload : 0..MaxReload,
               fail : 0..MaxFail, approve : 0..MaxApprove]
  /\ missed \in [Keys -> SUBSET Nat] /\ reported \in [Keys -> Nat]
  /\ vanished \subseteq Keys /\ agreed \subseteq Keys /\ trouble \in Nat /\ restored \in Nat

(* A first start, on a database that already has some live torrents.       *)
Init ==
  /\ now = 1 /\ qb \in SUBSET Keys /\ live \in SUBSET Keys /\ saved = {}
  /\ known = live /\ cache = {} /\ life = NewLifecycle(1)
  /\ full = TRUE /\ lastCal = 0 /\ cooldown = 0 /\ failures = 0 /\ protectOnStart = TRUE
  /\ request = "none" /\ begun = 1
  /\ left = [crash |-> MaxCrash, reload |-> MaxReload, fail |-> MaxFail, approve |-> MaxApprove]
  /\ missed = [k \in Keys |-> {}] /\ reported = [k \in Keys |-> 0]
  /\ vanished = {} /\ trouble = 1 /\ restored = 1 /\ agreed = {}

Spend(what) == left[what] > 0 /\ left' = [left EXCEPT ![what] = @ - 1]

Tick == /\ now < MaxNow /\ now' = now + 1
        /\ UNCHANGED <<qb, database, collector, round, left, observed>>

(* Torrents come and go in qBittorrent, or a broken one hides some.        *)
Change == /\ \E Q \in SUBSET Keys : Q # qb /\ qb' = Q
          /\ UNCHANGED <<now, database, collector, round, left, observed>>

-----------------------------------------------------------------------------
(* Tick up to the request: the first round re-arms the protection; a full  *)
(* list is asked for when the collector has no baseline, when the last one *)
(* is old, or when a candidate waits for confirmation.                     *)
Begin ==
  LET armed == IF protectOnStart THEN Protect(life, now) ELSE life IN
  /\ request = "none" /\ now >= cooldown
  /\ life' = armed /\ protectOnStart' = FALSE
  /\ request' = IF full \/ now - lastCal >= Recalibrate \/ ConfirmationDue(armed, now)
                THEN "full" ELSE "delta"
  /\ begun' = now
  /\ trouble' = IF protectOnStart THEN now ELSE trouble
  /\ UNCHANGED <<now, qb, database, known, cache, full, lastCal, cooldown, failures, left,
                 missed, reported, vanished, restored, agreed>>

(* fail: a new baseline is needed, and the protection starts again.        *)
Backoff == BackoffBase * <<1, 2, 4, 8, 16, 32>>[IF failures < 5 THEN failures + 1 ELSE 6]

Fail(auth) ==
  /\ request # "none" /\ Spend("fail")
  /\ life' = Protect(life, begun)
  /\ full' = TRUE /\ failures' = failures + 1
  /\ cooldown' = begun + (IF auth THEN AuthCooldown ELSE Backoff)
  /\ request' = "none"
  /\ trouble' = begun /\ restored' = 0
  /\ UNCHANGED <<now, qb, database, known, cache, lastCal, protectOnStart, begun,
                 missed, reported, vanished, agreed>>

(* The candidates after an answer: a full list is compared with what is    *)
(* known; a delta reports removals of cached torrents; whatever is listed  *)
(* is no candidate.                                                        *)
Observe(isFull) ==
  LET compared == IF isFull THEN ObserveFull(life, known, qb, now)
                  ELSE Missing(life, (cache \ qb) \cap known, TRUE, now)
  IN  Discard(compared, qb)

Observed(isFull, D) ==
  /\ missed' = [k \in Keys |-> IF k \in qb \cup D THEN {}
                               ELSE missed[k] \cup IF isFull /\ k \in known THEN {now} ELSE {}]
  /\ reported' = [k \in Keys |-> IF k \in qb \cup D THEN 0
                                 ELSE IF reported[k] = 0 /\ ~isFull /\ k \in known \cap cache
                                      THEN now ELSE reported[k]]
  /\ vanished' = (vanished \cup IF isFull /\ BulkLoss(known, qb) THEN known ELSE {}) \ (qb \cup D)
  /\ restored' = IF restored = 0 THEN now ELSE restored

(* Mutant: a ready torrent is forgotten even if its barrier fails.         *)
ForgottenAll(seen, isFull, D) == Ready(seen, now, isFull) \cap known

Forgotten(seen, isFull, D) == D

(* apply, for the answer to the round's request.  qBittorrent may always   *)
(* answer with its full list.  D are the ready torrents whose barrier is   *)
(* committed; one that fails stays a candidate.                            *)
Answer(isFull, D) ==
  LET seen == Observe(isFull) IN
  /\ request # "none" /\ (request = "full" => isFull)
  /\ D \subseteq Ready(seen, now, isFull) \cap known
  /\ life' = Settle(Discard(seen, D))
  /\ known' = (known \ Forgotten(seen, isFull, D)) \cup qb /\ live' = (live \ D) \cup qb
  /\ cache' = qb /\ full' = FALSE /\ failures' = 0 /\ cooldown' = 0
  /\ lastCal' = IF isFull THEN now ELSE lastCal
  /\ request' = "none"
  /\ Observed(isFull, D)
  /\ UNCHANGED <<now, qb, saved, protectOnStart, begun, left, trouble, agreed>>

(* confirm-bulk-removal, at any time.                                      *)
Approve ==
  /\ Spend("approve")
  /\ life' = [life EXCEPT !.approved = TRUE] /\ cooldown' = 0 /\ full' = TRUE
  /\ agreed' = Waiting(life)
  /\ UNCHANGED <<now, qb, database, known, cache, lastCal, failures, protectOnStart, round,
                 missed, reported, vanished, trouble, restored>>

(* The writer's Flush.                                                     *)
Persist ==
  /\ saved # {life} /\ saved' = {life}
  /\ UNCHANGED <<now, qb, live, collector, round, left, observed>>

-----------------------------------------------------------------------------
(* Mutant: the protection persisted with the candidates is relied on.      *)
TrustsSaved == FALSE

(* Whether New arms the protection for the first round.                    *)
ArmsOnStart == TRUE

(* New, with the lifecycle found in the database, or a first one.          *)
Start(found) ==
  /\ life' = IF found = {} THEN NewLifecycle(now)
             ELSE [(CHOOSE l \in found : TRUE) EXCEPT !.approved = FALSE]
  /\ known' = live /\ cache' = {}
  /\ full' = TRUE /\ lastCal' = 0 /\ cooldown' = 0 /\ failures' = 0
  /\ protectOnStart' = ArmsOnStart
  /\ request' = "none" /\ restored' = now /\ trouble' = now
  /\ UNCHANGED <<now, qb, live, begun, missed, reported, vanished, agreed>>

(* StopCollectors persists the lifecycle between two rounds.               *)
Reload == request = "none" /\ Spend("reload") /\ saved' = {life} /\ Start({life})

Crash == Spend("crash") /\ UNCHANGED saved /\ Start(saved)

-----------------------------------------------------------------------------
Next == \/ Tick \/ Change \/ Begin
        \/ \E auth \in BOOLEAN : Fail(auth)
        \/ \E isFull \in BOOLEAN, D \in SUBSET Keys : Answer(isFull, D)
        \/ Approve \/ Persist \/ Reload \/ Crash

Spec == Init /\ [][Next]_vars

-----------------------------------------------------------------------------
Deleted == live \ live'

(* One reported removal and a confirmation ExplicitDelay later, or three   *)
(* full reads without the torrent, Spacing apart and spanning Span; never  *)
(* seen in between.                                                        *)
Evidence(k) ==
  \/ reported[k] # 0 /\ reported[k] + ExplicitDelay <= now
  \/ \E a, b \in missed[k] : a + Spacing <= b /\ b + Spacing <= now /\ a + Span <= now

(* The collector's torrents are the database's, however a round ends: a    *)
(* torrent deleted in one and kept in the other is either sampled behind   *)
(* its barrier or never deleted.                                           *)
KnownIsLive == known = live

(* Without the user's approval no history is deleted on less evidence than *)
(* README.md:167-169 asks for.                                             *)
EvidenceBeforeDeletion == [][\A k \in Deleted : life.approved \/ Evidence(k)]_vars

(* Nothing is deleted within Protection of a start or a failed round,      *)
(* whatever protection a restart found persisted.                          *)
QuietAfterTrouble == [][Deleted # {} => life.approved \/ trouble + Protection <= now]_vars

(* What vanished in a bulk loss and has not been seen since is deleted     *)
(* with the user's approval only, even when the rest has come back.        *)
BulkNeedsApproval ==
  [][\A k \in Deleted : k \in vanished \/ BulkLoss(known, qb) => life.approved]_vars

(* "After a start or reconnect nothing is deleted for 120 s"               *)
(* (README.md:169-170).  The code breaks this (README, section 4).         *)
ProtectedAfterReconnect ==
  [][Deleted # {} => restored # 0 /\ restored + Protection <= now]_vars

(* "Approve lets the user clear the history of torrents that vanished in   *)
(* bulk" (collector.go:543): what is deleted without evidence of its own   *)
(* had vanished when the user approved.  The code breaks this (README,     *)
(* section 4).                                                             *)
ApprovalCoversVanished ==
  [][\A k \in Deleted : agreed # {} => Evidence(k) \/ k \in agreed]_vars
=============================================================================

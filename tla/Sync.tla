-------------------------------- MODULE Sync --------------------------------
(***************************************************************************)
(* How a collector keeps a copy of qBittorrent's list: one round of        *)
(* Collector.Tick (collector/collector.go) with the requests of            *)
(* upstream/client.go it makes, against a server that answers as           *)
(* mockqb/mockqb.go does.  Requests of a round follow each other; between  *)
(* two of them the server's list changes, its session expires, and the     *)
(* user may approve a deletion.  An answer may be lost after the server    *)
(* has counted it as given.                                                *)
(*                                                                         *)
(* A patch is a function from the fields it carries to their values.  Of   *)
(* the response id only "0 or not" decides anything.  Time is left out: a  *)
(* cooldown is a delay, and a full read may be due at any round.           *)
(***************************************************************************)
EXTENDS Naturals

CONSTANTS Key,        \* qBittorrent's torrent keys
          Field,      \* the core fields of a torrent
          Hidden,     \* those a server may leave out of sync/maindata
          MaxValue,   \* bound: values of a field
          MaxChange,  \* bound: changes of the server's list
          MaxFault    \* bound: lost requests and answers, expired sessions, reloads

ASSUME SyncAssumption ==
  /\ Hidden \subseteq Field /\ Hidden # Field   \* every server reports a name
  /\ {MaxValue, MaxChange, MaxFault} \subseteq Nat

Value   == 0..MaxValue
Torrent == [Field -> Value]
Patch   == UNION {[F -> Value] : F \in SUBSET Field}
List(P) == UNION {[K -> P] : K \in SUBSET Key}

None     == [f \in {} |-> 0]
(* What b carries replaces what a has.                                     *)
Merge(a, b) == [f \in DOMAIN a \cup DOMAIN b |-> IF f \in DOMAIN b THEN b[f] ELSE a[f]]
Complete(p) == DOMAIN p = Field
At(list, k) == IF k \in DOMAIN list THEN list[k] ELSE None

VARIABLES
  torrents, total,  \* the server: its list, and its all-time counter
  dirty, removed, totalDirty, \* what it has not reported yet
  session,          \* the server accepts the session cookie the client holds
  logged, full, cache, server, \* Collector: server is {} or {the counter}
  pc,               \* the request the round waits for
  ask,              \* "full": rid=0, or "delta"
  working, data,    \* the round's local list; what the sync answer was
  calm,             \* the server and the network have become quiet
  changes, faults   \* what is left of the bounds

(* For the properties: what the server's last answers said, and fields     *)
(* whose change one of them left out.                                      *)
VARIABLES told, toldTotal, withheld

upstream  == <<torrents, total, dirty, removed, totalDirty, session>>
collector == <<logged, full, cache, server>>
round     == <<pc, ask, working, data>>
observed  == <<told, toldTotal, withheld>>
vars      == <<upstream, collector, round, calm, changes, faults, observed>>

Requests == {"login", "versions", "sync", "relogin", "resync", "info"}

(* A listed torrent has been described: its patch is never empty.          *)
TypeOK ==
  /\ torrents \in List(Torrent) /\ total \in Value
  /\ dirty \subseteq Key \X Field /\ removed \subseteq Key /\ totalDirty \in BOOLEAN
  /\ session \in BOOLEAN /\ logged \in BOOLEAN /\ full \in BOOLEAN
  /\ cache \in List(Patch \ {None}) /\ working \in List(Patch \ {None})
  /\ server \subseteq Value
  /\ pc \in Requests \cup {"idle", "apply"} /\ ask \in {"full", "delta"}
  /\ data.full \in BOOLEAN /\ data.total \subseteq Value
  /\ told \in List(Torrent) /\ toldTotal \in Value /\ withheld \subseteq Key \X Field
  /\ calm \in BOOLEAN /\ changes \in 0..MaxChange /\ faults \in 0..MaxFault

NoData == [full |-> FALSE, total |-> {}]

Init ==
  /\ torrents = None /\ total = 0 /\ dirty = {} /\ removed = {} /\ totalDirty = FALSE
  /\ session = FALSE /\ logged = FALSE /\ full = TRUE /\ cache = None /\ server = {}
  /\ pc = "idle" /\ ask = "full" /\ working = None /\ data = NoData
  /\ calm = FALSE /\ changes = MaxChange /\ faults = MaxFault
  /\ told = None /\ toldTotal = 0 /\ withheld = {}

-----------------------------------------------------------------------------
(* qBittorrent.  A key added again before its removal is reported is left  *)
(* out: qBittorrent takes it off its removed list, the mock does not.      *)
Change == ~calm /\ changes > 0 /\ changes' = changes - 1

Add(k, t) ==
  /\ Change /\ k \notin DOMAIN torrents \cup removed
  /\ torrents' = Merge(torrents, [j \in {k} |-> t]) /\ dirty' = dirty \cup ({k} \X Field)
  /\ UNCHANGED <<total, removed, totalDirty, session, collector, round, calm, faults, observed>>

RemoveTorrent(k) ==
  /\ Change /\ k \in DOMAIN torrents
  /\ torrents' = [j \in DOMAIN torrents \ {k} |-> torrents[j]]
  /\ dirty' = {d \in dirty : d[1] # k} /\ removed' = removed \cup {k}
  /\ UNCHANGED <<total, totalDirty, session, collector, round, calm, faults, observed>>

Set(k, f, v) ==
  /\ Change /\ k \in DOMAIN torrents /\ torrents[k][f] # v
  /\ torrents' = [torrents EXCEPT ![k][f] = v] /\ dirty' = dirty \cup {<<k, f>>}
  /\ UNCHANGED <<total, removed, totalDirty, session, collector, round, calm, faults, observed>>

Transfer(v) ==
  /\ Change /\ total # v /\ total' = v /\ totalDirty' = TRUE
  /\ UNCHANGED <<torrents, dirty, removed, session, collector, round, calm, faults, observed>>

Fault == ~calm /\ faults > 0 /\ faults' = faults - 1

Expire ==
  /\ Fault /\ session /\ session' = FALSE
  /\ UNCHANGED <<torrents, total, dirty, removed, totalDirty, collector, round, calm, changes, observed>>

Settle == /\ ~calm /\ calm' = TRUE
          /\ UNCHANGED <<upstream, collector, round, changes, faults, observed>>

(* The rows of an answer: all fields, or those that changed.               *)
Row(k, isFull)  == IF isFull THEN Field ELSE {f \in Field : <<k, f>> \in dirty}
Rows(isFull, hide) ==
  LET sent == [k \in DOMAIN torrents |->
                 [f \in Row(k, isFull) \ (IF hide THEN Hidden ELSE {}) |-> torrents[k][f]]]
  IN  [k \in {j \in DOMAIN torrents : sent[j] # None} |-> sent[k]]
LeftOut(isFull, hide) ==
  IF hide THEN {d \in (DOMAIN torrents) \X Hidden : d[2] \in Row(d[1], isFull)} ELSE {}

(* What was reported is not reported again.                                *)
Reported == dirty' = {} /\ removed' = {} /\ totalDirty' = FALSE

-----------------------------------------------------------------------------
(* Tick.  A full list is asked for when the collector has no baseline, or  *)
(* when the last is five minutes old or a candidate waits (due).           *)

(* Mutant: no full read without a failure.                                 *)
WantsBaseline(due) == full

WantsFull(due) == full \/ due

Begin(due) ==
  /\ pc = "idle"
  /\ ask' = IF WantsFull(due) THEN "full" ELSE "delta"
  /\ pc' = IF logged THEN "sync" ELSE "login"
  /\ UNCHANGED <<upstream, collector, working, data, calm, changes, faults, observed>>

(* Mutant: after a failure the collector goes on with its rid.             *)
KeepsBaseline == full

NeedsBaseline == TRUE

(* fail.                                                                   *)
GiveUp(auth) ==
  /\ full' = NeedsBaseline /\ logged' = (logged /\ ~auth)
  /\ pc' = "idle" /\ ask' = "full" /\ working' = None /\ data' = NoData
  /\ UNCHANGED <<cache, server>>

LoginAnswered ==
  /\ pc \in {"login", "relogin"}
  /\ session' = TRUE
  /\ pc' = IF pc = "login" THEN "versions" ELSE "resync"
  /\ UNCHANGED <<torrents, total, dirty, removed, totalDirty, collector,
                 ask, working, data, calm, changes, faults, observed>>

VersionsAnswered ==
  /\ pc = "versions" /\ session
  /\ logged' = TRUE /\ pc' = "sync"
  /\ UNCHANGED <<upstream, full, cache, server, ask, working, data, calm, changes, faults, observed>>

(* 403: one new login, then a full list; a second one is a failure.        *)
Forbidden ==
  /\ ~session /\ pc \in {"versions", "sync", "resync", "info"}
  /\ IF pc = "sync"
     THEN pc' = "relogin" /\ UNCHANGED <<collector, ask, working, data>>
     ELSE GiveUp(TRUE)
  /\ UNCHANGED <<upstream, calm, changes, faults, observed>>

Asked == IF pc = "resync" THEN "full" ELSE ask

(* Mutant: a full list is merged into the old one.                         *)
OldList(isFull) == cache

Basis(isFull) == IF isFull THEN None ELSE cache

(* Mutant: a reported removal only forgets the fields.                     *)
Emptied(list, gone) == [k \in DOMAIN list |-> IF k \in gone THEN None ELSE list[k]]

Without(list, gone) == [k \in DOMAIN list \ gone |-> list[k]]

Merged(old, rows) == [k \in DOMAIN old \cup DOMAIN rows |-> Merge(At(old, k), At(rows, k))]

(* The answer to sync/maindata.  A delta may be answered with the full     *)
(* list; the server's own state comes with it when it changed.             *)
SyncAnswered(isFull, hide, withTotal) ==
  /\ pc \in {"sync", "resync"} /\ session
  /\ Asked = "full" => isFull
  /\ totalDirty \/ isFull => withTotal
  /\ working' = Without(Merged(Basis(isFull), Rows(isFull, hide)), IF isFull THEN {} ELSE removed)
  /\ data' = [full |-> isFull, total |-> IF withTotal THEN {total} ELSE {}]
  /\ pc' = IF \A k \in DOMAIN working' : Complete(working'[k]) THEN "apply" ELSE "info"
  /\ Reported
  /\ told' = torrents /\ toldTotal' = total
  /\ withheld' = (IF isFull THEN {} ELSE withheld) \cup LeftOut(isFull, hide)
  /\ UNCHANGED <<torrents, total, session, collector, ask, calm, changes, faults>>

(* torrents/info completes the torrents the round knows, with newer values *)
(* for all of them.                                                        *)
InfoAnswered ==
  /\ pc = "info" /\ session
  /\ working' = [k \in DOMAIN working |-> Merge(working[k], At(torrents, k))]
  /\ pc' = "apply"
  /\ told' = [k \in DOMAIN told |-> Merge(told[k], At(torrents, k))]
  /\ withheld' = {d \in withheld : d[1] \notin DOMAIN torrents}
  /\ UNCHANGED <<upstream, collector, ask, data, calm, changes, faults, toldTotal>>

(* A request that fails, or whose answer is lost, refused as malformed or  *)
(* cut off, after the server may have counted it as given.                 *)
RequestFails(auth, counted) ==
  /\ pc \in Requests /\ Fault
  /\ auth => pc \in {"login", "relogin"}
  /\ IF counted THEN pc \in {"sync", "resync"} /\ session /\ Reported
                ELSE UNCHANGED <<dirty, removed, totalDirty>>
  /\ GiveUp(auth)
  /\ UNCHANGED <<torrents, total, session, calm, changes, observed>>

(* Mutant: what is cached prevails.                                        *)
KeepServer(a, b) == IF a = {} THEN b ELSE a

MergeServer(a, b) == IF b = {} THEN a ELSE b

(* apply, as far as the copy goes.  An Approve during the round has set    *)
(* full in vain.                                                           *)
Apply ==
  /\ pc = "apply"
  /\ cache' = working /\ full' = FALSE
  /\ server' = MergeServer(IF data.full THEN {} ELSE server, data.total)
  /\ pc' = "idle" /\ ask' = "full" /\ working' = None /\ data' = NoData
  /\ UNCHANGED <<upstream, logged, calm, changes, faults, observed>>

Approve == /\ ~calm /\ ~full /\ full' = TRUE
           /\ UNCHANGED <<upstream, logged, cache, server, round, calm, changes, faults, observed>>

(* A new collector, with a client of its own.                              *)
Reload ==
  /\ pc = "idle" /\ Fault
  /\ session' = FALSE /\ logged' = FALSE /\ full' = TRUE /\ cache' = None /\ server' = {}
  /\ UNCHANGED <<torrents, total, dirty, removed, totalDirty, round, calm, changes, observed>>

-----------------------------------------------------------------------------
Answered == \/ LoginAnswered \/ VersionsAnswered \/ InfoAnswered
            \/ \E isFull, hide, withTotal \in BOOLEAN : SyncAnswered(isFull, hide, withTotal)

Tick == (\E due \in BOOLEAN : Begin(due)) \/ Answered \/ Forbidden \/ Apply

Environment ==
  \/ \E k \in Key : \/ RemoveTorrent(k)
                    \/ \E t \in Torrent : Add(k, t)
                    \/ \E f \in Field, v \in Value : Set(k, f, v)
  \/ \E v \in Value : Transfer(v)
  \/ Expire \/ Settle

Next == \/ Tick \/ Environment \/ Approve \/ Reload
        \/ \E auth, counted \in BOOLEAN : RequestFails(auth, counted)

Spec == Init /\ [][Next]_vars

(* Rounds go on, a request is answered or times out, and a full read is    *)
(* due every five minutes.                                                 *)
FairSpec == Spec /\ WF_vars(Tick) /\ SF_vars(Begin(TRUE))

-----------------------------------------------------------------------------
(* The round's list has the torrents the server had when it answered, no   *)
(* more and no fewer: deletion candidates, samples and the torrent count   *)
(* are taken from it.  A delta is only as good as the cache it is merged   *)
(* into, so this is about every round since the last full one.             *)
ListExact == pc = "apply" => DOMAIN working = DOMAIN told

(* Every value sampled is the server's, but for a change it left out of a  *)
(* delta: no lost answer, expired session or unasked full list leaves an   *)
(* old value in the cache.                                                 *)
ValuesExact ==
  pc = "apply" => \A k \in DOMAIN working \cap DOMAIN told : \A f \in DOMAIN working[k] :
                     working[k][f] = told[k][f] \/ <<k, f>> \in withheld

(* The connection's own counter, kept from deltas in the same way, is the  *)
(* server's whenever a round has ended well.                               *)
TotalExact == pc = "idle" /\ ~full => server = {toldTotal}

(* Once the server and the network are quiet the collector's copy becomes, *)
(* and stays, what the server has, with every field.                       *)
CatchesUp == calm ~> [](cache = torrents /\ server = {total})
=============================================================================

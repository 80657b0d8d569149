----------------------------- MODULE SyncProofs -----------------------------
(***************************************************************************)
(* What holds of a collector's copy of the list for any set of torrents    *)
(* and fields, any values, and any number of changes, lost answers,        *)
(* expired sessions and reloads.  The properties speak of the end of a     *)
(* round only.  The invariant says why they hold there: what the server    *)
(* has yet to report is what has changed since its last answer (Tracks),   *)
(* and whenever the collector may ask for a delta, its cache is a copy of  *)
(* that answer (Based).                                                    *)
(***************************************************************************)
EXTENDS Sync, TLAPS

(* The server owes every difference between its list and its last answer.  *)
Tracks ==
  /\ DOMAIN told \ DOMAIN torrents \subseteq removed
  /\ \A k \in DOMAIN torrents \ DOMAIN told : \A f \in Field : <<k, f>> \in dirty
  /\ \A k \in DOMAIN torrents \cap DOMAIN told : \A f \in Field :
        torrents[k][f] # told[k][f] => <<k, f>> \in dirty
  /\ total # toldTotal => totalDirty

(* A list is a copy of the last answer, but for what that left out.        *)
Copies(list) ==
  /\ DOMAIN list = DOMAIN told
  /\ \A k \in DOMAIN told : \A f \in DOMAIN list[k] :
        list[k][f] = told[k][f] \/ <<k, f>> \in withheld

(* A delta is, or may yet be, asked for.                                   *)
MayAskDelta == \/ pc = "idle" /\ ~full
               \/ pc \in {"login", "versions", "sync"} /\ ask = "delta"

Based == MayAskDelta => Tracks /\ Copies(cache) /\ server = {toldTotal}

(* The round has its answer.                                               *)
Advanced ==
  pc \in {"info", "apply"} =>
    /\ Tracks /\ Copies(working)
    /\ MergeServer(IF data.full THEN {} ELSE server, data.total) = {toldTotal}

IInv == /\ TypeOK
        /\ removed \cap DOMAIN torrents = {}
        /\ Based /\ Advanced

-----------------------------------------------------------------------------
(* Operators.                                                              *)

(* A list is a function from some keys to its elements.                    *)
LEMMA InList ==
  ASSUME NEW P, NEW f
  PROVE  f \in List(P) <=> DOMAIN f \subseteq Key /\ f \in [DOMAIN f -> P]
  BY DEF List

LEMMA InPatch ==
  ASSUME NEW p
  PROVE  p \in Patch <=> DOMAIN p \subseteq Field /\ p \in [DOMAIN p -> Value]
  BY DEF Patch

LEMMA NoneIsEmpty ==
  /\ None \in Patch /\ DOMAIN None = {}
  /\ \A p \in Patch : DOMAIN p = {} => p = None
  BY InPatch DEF None

(* A merged patch carries what either of the two carries.                  *)
LEMMA MergePatch ==
  ASSUME NEW a \in Patch, NEW b \in Patch
  PROVE  /\ Merge(a, b) \in Patch
         /\ DOMAIN Merge(a, b) = DOMAIN a \cup DOMAIN b
         /\ \A f \in DOMAIN b : Merge(a, b)[f] = b[f]
         /\ \A f \in DOMAIN a \ DOMAIN b : Merge(a, b)[f] = a[f]
         /\ a # None \/ b # None => Merge(a, b) # None
<1>1. /\ DOMAIN Merge(a, b) = DOMAIN a \cup DOMAIN b
      /\ \A f \in DOMAIN b : Merge(a, b)[f] = b[f]
      /\ \A f \in DOMAIN a \ DOMAIN b : Merge(a, b)[f] = a[f]
  BY DEF Merge
<1>2. Merge(a, b) \in [DOMAIN a \cup DOMAIN b -> Value]
  BY InPatch DEF Merge
<1>3. Merge(a, b) \in Patch
  BY <1>1, <1>2, InPatch
<1>4. a # None \/ b # None => Merge(a, b) # None
  BY <1>1, NoneIsEmpty
<1> QED
  BY <1>1, <1>3, <1>4

(* The server's torrents have every field, so they are patches, none empty.*)
LEMMA TorrentPatch == Torrent \subseteq Patch \ {None}
<1>1. Field # {}
  BY SyncAssumption
<1>2. \A t \in Torrent : DOMAIN t = Field /\ t \in [Field -> Value]
  BY DEF Torrent
<1> QED
  BY <1>1, <1>2, InPatch, NoneIsEmpty

LEMMA AtPatch ==
  ASSUME NEW list \in List(Patch), NEW k
  PROVE  At(list, k) \in Patch
  BY InList, NoneIsEmpty DEF At

(* The rows of an answer: each listed torrent's reported fields, with the  *)
(* server's values, and in a full answer every torrent.                    *)
LEMMA RowsAre ==
  ASSUME TypeOK, NEW isFull \in BOOLEAN, NEW hide \in BOOLEAN
  PROVE  LET sent(k) == Row(k, isFull) \ (IF hide THEN Hidden ELSE {})
         IN  /\ Rows(isFull, hide) \in List(Patch \ {None})
             /\ DOMAIN Rows(isFull, hide) = {k \in DOMAIN torrents : sent(k) # {}}
             /\ \A k \in DOMAIN torrents :
                  /\ DOMAIN At(Rows(isFull, hide), k) = sent(k)
                  /\ \A f \in sent(k) : At(Rows(isFull, hide), k)[f] = torrents[k][f]
             /\ isFull => DOMAIN Rows(isFull, hide) = DOMAIN torrents
<1> DEFINE sent(k) == Row(k, isFull) \ (IF hide THEN Hidden ELSE {})
           patch == [k \in DOMAIN torrents |-> [f \in sent(k) |-> torrents[k][f]]]
           rows == Rows(isFull, hide)
<1>1. DOMAIN torrents \subseteq Key /\ \A k \in DOMAIN torrents : torrents[k] \in Torrent
  BY InList DEF TypeOK
<1>2. \A k : sent(k) \subseteq Field
  BY DEF Row
<1>3. \A k \in DOMAIN torrents : /\ patch[k] \in Patch
                                 /\ DOMAIN patch[k] = sent(k)
                                 /\ \A f \in sent(k) : patch[k][f] = torrents[k][f]
  <2> TAKE k \in DOMAIN torrents
  <2>1. patch[k] = [f \in sent(k) |-> torrents[k][f]]
    OBVIOUS
  <2>2. \A f \in sent(k) : torrents[k][f] \in Value
    BY <1>1, <1>2 DEF Torrent
  <2> HIDE DEF patch, sent
  <2> QED
    BY <2>1, <2>2, <1>2, InPatch
<1>4. rows = [k \in {j \in DOMAIN torrents : patch[j] # None} |-> patch[k]]
  BY DEF Rows
<1> HIDE DEF patch, sent, rows
<1>5. \A k \in DOMAIN torrents : patch[k] # None <=> sent(k) # {}
  BY <1>3, NoneIsEmpty
<1>6. DOMAIN rows = {k \in DOMAIN torrents : sent(k) # {}}
  BY <1>4, <1>5
<1>7. rows \in List(Patch \ {None})
  BY <1>1, <1>3, <1>4, InList
<1>8. \A k \in DOMAIN torrents : /\ DOMAIN At(rows, k) = sent(k)
                                 /\ \A f \in sent(k) : At(rows, k)[f] = torrents[k][f]
  BY <1>3, <1>4, <1>5, <1>6, NoneIsEmpty DEF At
<1>9. isFull => DOMAIN rows = DOMAIN torrents
  BY <1>6, SyncAssumption DEF sent, Row
<1> QED
  BY <1>6, <1>7, <1>8, <1>9 DEF rows, sent

(* What a round makes of its list and an answer.                           *)
LEMMA MergedIs ==
  ASSUME NEW a \in List(Patch \ {None}), NEW b \in List(Patch \ {None}),
         NEW gone \in SUBSET Key
  PROVE  /\ Without(Merged(a, b), gone) \in List(Patch \ {None})
         /\ DOMAIN Without(Merged(a, b), gone) = (DOMAIN a \cup DOMAIN b) \ gone
         /\ \A k \in (DOMAIN a \cup DOMAIN b) \ gone :
               Without(Merged(a, b), gone)[k] = Merge(At(a, k), At(b, k))
<1> DEFINE list == Without(Merged(a, b), gone)
<1>1. DOMAIN list = (DOMAIN a \cup DOMAIN b) \ gone
  BY DEF Without, Merged
<1>2. \A k \in DOMAIN list : list[k] = Merge(At(a, k), At(b, k))
  BY DEF Without, Merged
<1>3. /\ DOMAIN a \subseteq Key /\ DOMAIN b \subseteq Key
      /\ \A k \in DOMAIN a : a[k] \in Patch \ {None}
      /\ \A k \in DOMAIN b : b[k] \in Patch \ {None}
  BY InList
<1>4. \A k \in DOMAIN list : list[k] \in Patch \ {None}
  <2> TAKE k \in DOMAIN list
  <2>1. At(a, k) \in Patch /\ At(b, k) \in Patch
    BY <1>3, NoneIsEmpty DEF At
  <2>2. At(a, k) # None \/ At(b, k) # None
    BY <1>1, <1>3 DEF At
  <2> QED
    <3>1. Merge(At(a, k), At(b, k)) \in Patch \ {None}
      BY <2>1, <2>2, MergePatch
    <3> QED
      BY <3>1, <1>2
<1>5. list \in [DOMAIN list -> Patch \ {None}]
  BY <1>4 DEF Without, Merged
<1> QED
  BY <1>1, <1>2, <1>3, <1>5, InList

-----------------------------------------------------------------------------
(* Types.                                                                  *)

LEMMA SyncAnsweredTyped ==
  ASSUME TypeOK, NEW isFull \in BOOLEAN, NEW hide \in BOOLEAN, NEW withTotal \in BOOLEAN,
         SyncAnswered(isFull, hide, withTotal)
  PROVE  TypeOK'
<1>1. working' \in List(Patch \ {None})
  <2>1. Basis(isFull) \in List(Patch \ {None})
    BY InList DEF Basis, TypeOK, None
  <2> QED
    BY <2>1, RowsAre, MergedIs DEF SyncAnswered, TypeOK
<1>2. LeftOut(isFull, hide) \subseteq Key \X Field
  BY InList, SyncAssumption DEF LeftOut, TypeOK
<1>3. data'.full \in BOOLEAN /\ data'.total \subseteq Value
  BY DEF SyncAnswered, TypeOK
<1>4. /\ told' \in List(Torrent) /\ toldTotal' \in Value /\ withheld' \subseteq Key \X Field
      /\ dirty' \subseteq Key \X Field /\ removed' \subseteq Key /\ totalDirty' \in BOOLEAN
  BY <1>2 DEF SyncAnswered, Reported, TypeOK
<1> QED
  BY <1>1, <1>3, <1>4 DEF SyncAnswered, TypeOK, Requests, collector

LEMMA InfoAnsweredTyped ==
  ASSUME TypeOK, InfoAnswered
  PROVE  TypeOK'
<1>1. /\ DOMAIN torrents \subseteq Key /\ \A k \in DOMAIN torrents : torrents[k] \in Torrent
      /\ DOMAIN told \subseteq Key /\ \A k \in DOMAIN told : told[k] \in Torrent
      /\ DOMAIN working \subseteq Key /\ \A k \in DOMAIN working : working[k] \in Patch \ {None}
  BY InList DEF TypeOK
<1>2. \A k : At(torrents, k) \in Patch
  BY <1>1, TorrentPatch, NoneIsEmpty DEF At
<1>3. working' \in List(Patch \ {None})
  BY <1>1, <1>2, MergePatch, InList, ZenonT(60) DEF InfoAnswered
<1>4. \A k \in DOMAIN told : Merge(told[k], At(torrents, k)) \in Torrent
  <2> TAKE k \in DOMAIN told
  <2>1. told[k] \in Patch /\ DOMAIN told[k] = Field
    BY <1>1, TorrentPatch DEF Torrent
  <2>2. DOMAIN At(torrents, k) \subseteq Field
    BY <1>2, InPatch
  <2>3. /\ DOMAIN Merge(told[k], At(torrents, k)) = DOMAIN told[k] \cup DOMAIN At(torrents, k)
        /\ Merge(told[k], At(torrents, k)) \in Patch
    BY <2>1, <1>2, MergePatch, Zenon
  <2>4. DOMAIN Merge(told[k], At(torrents, k)) = Field
    BY <2>1, <2>2, <2>3
  <2> QED
    BY <2>3, <2>4, InPatch DEF Torrent
<1>5. told' \in List(Torrent)
  BY <1>1, <1>4, InList DEF InfoAnswered
<1> QED
  BY <1>3, <1>5 DEF InfoAnswered, TypeOK, upstream, collector

LEMMA EnvironmentTyped ==
  ASSUME TypeOK, Environment
  PROVE  TypeOK'
<1> USE DEF TypeOK, Change, Fault, collector, round, observed
<1>a. MaxChange \in Nat /\ MaxFault \in Nat
  BY SyncAssumption
<1>0. DOMAIN torrents \subseteq Key /\ \A k \in DOMAIN torrents : torrents[k] \in Torrent
  BY InList
<1>1. ASSUME NEW k \in Key, NEW t \in Torrent, Add(k, t) PROVE TypeOK'
  <2>1. torrents' \in List(Torrent)
    BY <1>0, <1>1, InList DEF Add, Merge
  <2> QED
    BY <2>1, <1>1, <1>a DEF Add
<1>2. ASSUME NEW k \in Key, RemoveTorrent(k) PROVE TypeOK'
  <2>1. torrents' \in List(Torrent)
    BY <1>0, <1>2, InList DEF RemoveTorrent
  <2> QED
    BY <2>1, <1>2, <1>a DEF RemoveTorrent
<1>3. ASSUME NEW k \in Key, NEW f \in Field, NEW v \in Value, Set(k, f, v) PROVE TypeOK'
  <2>1. torrents' = [torrents EXCEPT ![k] = [@ EXCEPT ![f] = v]]
    BY <1>3 DEF Set
  <2>2. [torrents[k] EXCEPT ![f] = v] \in Torrent
    BY <1>0, <1>3 DEF Torrent, Set
  <2>3. torrents' \in List(Torrent)
    BY <2>1, <2>2, <1>0, InList
  <2> QED
    BY <2>3, <1>3, <1>a DEF Set
<1>4. ASSUME NEW v \in Value, Transfer(v) PROVE TypeOK'
  BY <1>4, <1>a DEF Transfer
<1>5. CASE Expire \/ Settle
  <2>1. faults' \in 0..MaxFault /\ changes' = changes
    BY <1>5, <1>a DEF Expire, Settle
  <2>2. session' \in BOOLEAN /\ calm' \in BOOLEAN
    BY <1>5, Zenon DEF Expire, Settle, upstream
  <2> QED
    BY <2>1, <2>2, <1>5 DEF Expire, Settle, upstream
<1> QED
  BY <1>1, <1>2, <1>3, <1>4, <1>5 DEF Environment

LEMMA TypeKept == TypeOK /\ [Next]_vars => TypeOK'
<1> SUFFICES ASSUME TypeOK, [Next]_vars PROVE TypeOK'
  OBVIOUS
<1> USE DEF TypeOK, upstream, collector, observed, Requests
<1>a. MaxFault \in Nat
  BY SyncAssumption
<1>0. NoData.full = FALSE /\ NoData.total = {} /\ None \in List(Patch \ {None})
  BY InList DEF NoData, None
<1>1. ASSUME NEW due \in BOOLEAN, Begin(due) PROVE TypeOK'
  BY <1>1 DEF Begin
<1>2. CASE LoginAnswered
  BY <1>2 DEF LoginAnswered
<1>3. CASE VersionsAnswered
  BY <1>3 DEF VersionsAnswered
<1>4. CASE Forbidden
  BY <1>0, <1>4 DEF Forbidden, GiveUp, NeedsBaseline
<1>5. CASE Apply
  BY <1>0, <1>5 DEF Apply, MergeServer
<1>6. CASE Approve
  BY <1>6 DEF Approve, round
<1>7. CASE Reload
  <2>1. faults' \in 0..MaxFault
    BY <1>7, <1>a DEF Reload, Fault
  <2>2. session' \in BOOLEAN /\ logged' \in BOOLEAN /\ full' \in BOOLEAN
    BY <1>7, Zenon DEF Reload
  <2> QED
    BY <2>1, <2>2, <1>0, <1>7 DEF Reload, round
<1>8. ASSUME NEW auth \in BOOLEAN, NEW counted \in BOOLEAN, RequestFails(auth, counted)
      PROVE  TypeOK'
  <2>1. faults' \in 0..MaxFault
    BY <1>8, <1>a DEF RequestFails, Fault
  <2>2. dirty' \subseteq Key \X Field /\ removed' \subseteq Key
    BY <1>8 DEF RequestFails, Reported
  <2>3. totalDirty' \in BOOLEAN /\ logged' \in BOOLEAN /\ full' \in BOOLEAN
    BY <1>8, Zenon DEF RequestFails, Reported, GiveUp, NeedsBaseline
  <2> QED
    BY <2>1, <2>2, <2>3, <1>0, <1>8 DEF RequestFails, GiveUp
<1>9. CASE UNCHANGED vars
  BY <1>9 DEF vars, round
<1> QED
  BY <1>1, <1>2, <1>3, <1>4, <1>5, <1>6, <1>7, <1>8, <1>9, SyncAnsweredTyped, InfoAnsweredTyped,
     EnvironmentTyped DEF Next, Tick, Answered

-----------------------------------------------------------------------------
(* The answers.                                                            *)

(* A delta is answered to a collector whose cache copies the last answer.  *)
LEMMA DeltaIsBased ==
  ASSUME TypeOK, Based, NEW hide, NEW withTotal, SyncAnswered(FALSE, hide, withTotal)
  PROVE  Tracks /\ Copies(cache) /\ server = {toldTotal}
<1>1. pc = "sync" /\ ask = "delta"
  BY DEF SyncAnswered, Asked, TypeOK
<1> QED
  BY <1>1 DEF Based, MayAskDelta

(* After a sync answer the round's list copies it.                         *)
LEMMA SyncAnsweredAdvances ==
  ASSUME TypeOK, removed \cap DOMAIN torrents = {}, Based,
         NEW isFull \in BOOLEAN, NEW hide \in BOOLEAN, NEW withTotal \in BOOLEAN,
         SyncAnswered(isFull, hide, withTotal)
  PROVE  /\ Tracks' /\ Copies(working)'
         /\ (MergeServer(IF data.full THEN {} ELSE server, data.total) = {toldTotal})'
<1> DEFINE sent(k) == Row(k, isFull) \ (IF hide THEN Hidden ELSE {})
           rows == Rows(isFull, hide)
           gone == IF isFull THEN {} ELSE removed
<1>1. /\ told' = torrents /\ torrents' = torrents /\ toldTotal' = total /\ total' = total
      /\ working' = Without(Merged(Basis(isFull), rows), gone)
      /\ withheld' = (IF isFull THEN {} ELSE withheld) \cup LeftOut(isFull, hide)
      /\ server' = server
  BY DEF SyncAnswered, collector
<1>2. Tracks'
  BY <1>1 DEF Tracks
<1>3. Basis(isFull) \in List(Patch \ {None})
  BY InList DEF Basis, TypeOK, None
<1>4. /\ rows \in List(Patch \ {None})
      /\ DOMAIN rows = {k \in DOMAIN torrents : sent(k) # {}}
      /\ \A k \in DOMAIN torrents : /\ DOMAIN At(rows, k) = sent(k)
                                    /\ \A f \in sent(k) : At(rows, k)[f] = torrents[k][f]
      /\ isFull => DOMAIN rows = DOMAIN torrents
  BY RowsAre
<1>5. /\ DOMAIN working' = (DOMAIN Basis(isFull) \cup DOMAIN rows) \ gone
      /\ \A k \in DOMAIN working' : working'[k] = Merge(At(Basis(isFull), k), At(rows, k))
  <2> DEFINE base == Basis(isFull)
  <2>1. base \in List(Patch \ {None}) /\ rows \in List(Patch \ {None}) /\ gone \in SUBSET Key
    BY <1>3, <1>4 DEF TypeOK
  <2>2. working' = Without(Merged(base, rows), gone)
    BY <1>1
  <2> HIDE DEF base, rows, gone
  <2>3. /\ DOMAIN Without(Merged(base, rows), gone) = (DOMAIN base \cup DOMAIN rows) \ gone
        /\ \A k \in (DOMAIN base \cup DOMAIN rows) \ gone :
              Without(Merged(base, rows), gone)[k] = Merge(At(base, k), At(rows, k))
    BY DEF Without, Merged
  <2>4. /\ DOMAIN working' = (DOMAIN base \cup DOMAIN rows) \ gone
        /\ \A k \in DOMAIN working' : working'[k] = Merge(At(base, k), At(rows, k))
    BY <2>2, <2>3
  <2> QED
    BY <2>4 DEF base, rows, gone
<1>6. ASSUME ~isFull PROVE Tracks /\ Copies(cache) /\ server = {toldTotal}
  BY <1>6, DeltaIsBased
<1>7. DOMAIN working' = DOMAIN told'
  <2>1. CASE isFull
    BY <2>1, <1>1, <1>4, <1>5 DEF Basis, None
  <2>2. CASE ~isFull
    <3>1. \A k \in DOMAIN torrents \ DOMAIN told : sent(k) = Field \ (IF hide THEN Hidden ELSE {})
      BY <2>2, <1>6 DEF Tracks, Row
    <3>2. DOMAIN torrents \ DOMAIN told \subseteq DOMAIN rows
      BY <3>1, <1>4, SyncAssumption
    <3>3. DOMAIN rows \subseteq DOMAIN torrents
      BY <1>4
    <3>4. DOMAIN Basis(isFull) = DOMAIN told
      BY <2>2, <1>6 DEF Basis, Copies
    <3> HIDE DEF rows
    <3> QED
      BY <3>2, <3>3, <3>4, <2>2, <1>1, <1>5, <1>6 DEF Tracks
  <2> QED
    BY <2>1, <2>2
<1>8. ASSUME NEW k \in DOMAIN told', NEW f \in DOMAIN working'[k]
      PROVE  working'[k][f] = told'[k][f] \/ <<k, f>> \in withheld'
  <2> DEFINE old == At(Basis(isFull), k)  new == At(rows, k)
  <2>1. old \in Patch /\ new \in Patch
    BY <1>3, <1>4, InList, NoneIsEmpty DEF At
  <2>2. working'[k] = Merge(old, new) /\ k \in DOMAIN torrents
    BY <1>1, <1>5, <1>7, <1>8
  <2>3. DOMAIN new = sent(k) /\ \A g \in sent(k) : new[g] = torrents[k][g]
    BY <1>4, <2>2
  <2> HIDE DEF old, new, rows
  <2>4. /\ DOMAIN working'[k] = DOMAIN old \cup DOMAIN new
        /\ \A g \in DOMAIN new : working'[k][g] = new[g]
        /\ \A g \in DOMAIN old \ DOMAIN new : working'[k][g] = old[g]
    <3>1. /\ DOMAIN Merge(old, new) = DOMAIN old \cup DOMAIN new
          /\ \A g \in DOMAIN new : Merge(old, new)[g] = new[g]
          /\ \A g \in DOMAIN old \ DOMAIN new : Merge(old, new)[g] = old[g]
      BY <2>1, MergePatch
    <3> QED
      BY <3>1, <2>2
  <2>5. CASE f \in sent(k)
    BY <2>5, <2>3, <2>4, <1>1
  <2>6. CASE f \notin sent(k)
    <3>1. f \in DOMAIN old /\ working'[k][f] = old[f]
      BY <2>6, <2>3, <2>4, <1>8
    <3>2. ~isFull /\ k \in DOMAIN cache /\ old = cache[k]
      BY <3>1, NoneIsEmpty DEF old, At, Basis
    <3>3. k \in DOMAIN told /\ (old[f] = told[k][f] \/ <<k, f>> \in withheld)
      BY <3>1, <3>2, <1>6 DEF Copies
    <3>4. f \in Field
      BY <3>1, <2>1, InPatch
    <3>5. CASE f \in Row(k, isFull)
      <4>1. <<k, f>> \in LeftOut(isFull, hide)
        BY <3>5, <2>2, <2>6 DEF LeftOut
      <4> QED
        BY <4>1, <1>1
    <3>6. CASE f \notin Row(k, isFull)
      <4>1. torrents[k][f] = told[k][f]
        BY <3>2, <3>3, <3>4, <3>6, <2>2, <1>6 DEF Row, Tracks
      <4> QED
        BY <4>1, <3>1, <3>2, <3>3, <1>1
    <3> QED
      BY <3>5, <3>6
  <2> QED
    BY <2>5, <2>6
<1>9. (MergeServer(IF data.full THEN {} ELSE server, data.total) = {toldTotal})'
  <2>1. /\ data'.full = isFull
        /\ data'.total = IF withTotal THEN {total} ELSE {}
        /\ totalDirty \/ isFull => withTotal
    BY DEF SyncAnswered
  <2>2. CASE withTotal
    BY <2>1, <2>2, <1>1 DEF MergeServer
  <2>3. CASE ~withTotal
    BY <2>1, <2>3, <1>1, <1>6 DEF MergeServer, Tracks
  <2> QED
    BY <2>2, <2>3
<1> QED
  BY <1>2, <1>7, <1>8, <1>9 DEF Copies

(* The answer of torrents/info becomes the last answer for what it lists.  *)
LEMMA InfoAnsweredAdvances ==
  ASSUME TypeOK, Advanced, InfoAnswered
  PROVE  /\ Tracks' /\ Copies(working)'
         /\ (MergeServer(IF data.full THEN {} ELSE server, data.total) = {toldTotal})'
<1>1. /\ Tracks /\ Copies(working)
      /\ MergeServer(IF data.full THEN {} ELSE server, data.total) = {toldTotal}
  BY DEF Advanced, InfoAnswered
<1>2. /\ torrents' = torrents /\ dirty' = dirty /\ removed' = removed /\ total' = total
      /\ totalDirty' = totalDirty /\ toldTotal' = toldTotal /\ data' = data /\ server' = server
      /\ working' = [k \in DOMAIN working |-> Merge(working[k], At(torrents, k))]
      /\ told' = [k \in DOMAIN told |-> Merge(told[k], At(torrents, k))]
      /\ withheld' = {d \in withheld : d[1] \notin DOMAIN torrents}
  BY DEF InfoAnswered, upstream, collector
<1>3. /\ \A k \in DOMAIN torrents : torrents[k] \in Patch /\ DOMAIN torrents[k] = Field
      /\ \A k \in DOMAIN told : told[k] \in Patch /\ DOMAIN told[k] = Field
      /\ \A k \in DOMAIN working : working[k] \in Patch
  BY InList, TorrentPatch DEF TypeOK, Torrent
<1>4. DOMAIN told' = DOMAIN told /\ DOMAIN working' = DOMAIN working
  BY <1>2
<1>5. ASSUME NEW p \in Patch, NEW k \in DOMAIN torrents
      PROVE  /\ DOMAIN Merge(p, At(torrents, k)) = Field
             /\ \A f \in Field : Merge(p, At(torrents, k))[f] = torrents[k][f]
  <2>1. At(torrents, k) = torrents[k]
    BY <1>5 DEF At
  <2>2. DOMAIN Merge(p, torrents[k]) = DOMAIN p \cup DOMAIN torrents[k]
    BY <1>3, <1>5, MergePatch, Zenon
  <2>3. \A f \in DOMAIN torrents[k] : Merge(p, torrents[k])[f] = torrents[k][f]
    BY <1>3, <1>5, MergePatch, Zenon
  <2>4. DOMAIN p \subseteq Field
    BY <1>5, InPatch
  <2> QED
    BY <2>1, <2>2, <2>3, <2>4, <1>3
<1>6. ASSUME NEW p \in Patch, NEW k, k \notin DOMAIN torrents
      PROVE  /\ DOMAIN Merge(p, At(torrents, k)) = DOMAIN p
             /\ \A f \in DOMAIN p : Merge(p, At(torrents, k))[f] = p[f]
  BY <1>6 DEF At, None, Merge
<1>7. \A k \in DOMAIN torrents \cap DOMAIN told : \A f \in Field : told'[k][f] = torrents[k][f]
  BY <1>2, <1>3, <1>5
<1>8. Tracks'
  BY <1>1, <1>2, <1>4, <1>7 DEF Tracks
<1>9. ASSUME NEW k \in DOMAIN told', NEW f \in DOMAIN working'[k]
      PROVE  working'[k][f] = told'[k][f] \/ <<k, f>> \in withheld'
  <2>1. k \in DOMAIN told /\ k \in DOMAIN working
    BY <1>1, <1>4, <1>9 DEF Copies
  <2>2. working[k] \in Patch /\ told[k] \in Patch /\ DOMAIN told[k] = Field
    BY <2>1, <1>3
  <2>3. /\ working'[k] = Merge(working[k], At(torrents, k))
        /\ told'[k] = Merge(told[k], At(torrents, k))
    BY <2>1, <1>2
  <2>4. CASE k \in DOMAIN torrents
    BY <2>2, <2>3, <2>4, <1>5, <1>9
  <2>5. CASE k \notin DOMAIN torrents
    <3>1. f \in DOMAIN working[k] /\ working'[k][f] = working[k][f]
      BY <2>2, <2>3, <2>5, <1>6, <1>9
    <3>2. f \in Field
      BY <3>1, <2>2, InPatch
    <3>3. told'[k][f] = told[k][f]
      BY <3>2, <2>2, <2>3, <2>5, <1>6
    <3> QED
      BY <3>1, <3>3, <2>1, <2>5, <1>1, <1>2 DEF Copies
  <2> QED
    BY <2>4, <2>5
<1> QED
  BY <1>1, <1>2, <1>4, <1>8, <1>9 DEF Copies

-----------------------------------------------------------------------------
(* Every step.                                                             *)

(* A change of the server's list is owed until it is reported.             *)
LEMMA EnvironmentTracked ==
  ASSUME TypeOK, removed \cap DOMAIN torrents = {}, Environment
  PROVE  /\ (removed \cap DOMAIN torrents = {})'
         /\ Tracks => Tracks'
         /\ UNCHANGED <<collector, round, observed>>
<1>0. DOMAIN torrents \subseteq Key /\ \A k \in DOMAIN torrents : torrents[k] \in Torrent
  BY InList DEF TypeOK
<1>1. ASSUME NEW k \in Key, NEW t \in Torrent, Add(k, t)
      PROVE  (removed \cap DOMAIN torrents = {})' /\ (Tracks => Tracks')
  <2>1. /\ DOMAIN torrents' = DOMAIN torrents \cup {k} /\ k \notin DOMAIN torrents \cup removed
        /\ \A j \in DOMAIN torrents : torrents'[j] = torrents[j]
        /\ removed' = removed /\ dirty' = dirty \cup ({k} \X Field)
        /\ told' = told /\ total' = total /\ toldTotal' = toldTotal /\ totalDirty' = totalDirty
    BY <1>1 DEF Add, Merge, observed
  <2> QED
    BY <2>1 DEF Tracks
<1>2. ASSUME NEW k \in Key, RemoveTorrent(k)
      PROVE  (removed \cap DOMAIN torrents = {})' /\ (Tracks => Tracks')
  <2>1. /\ DOMAIN torrents' = DOMAIN torrents \ {k}
        /\ \A j \in DOMAIN torrents' : torrents'[j] = torrents[j]
        /\ removed' = removed \cup {k} /\ dirty' = {d \in dirty : d[1] # k}
        /\ told' = told /\ total' = total /\ toldTotal' = toldTotal /\ totalDirty' = totalDirty
    BY <1>2 DEF RemoveTorrent, observed
  <2> QED
    BY <2>1 DEF Tracks
<1>3. ASSUME NEW k \in Key, NEW f \in Field, NEW v \in Value, Set(k, f, v)
      PROVE  (removed \cap DOMAIN torrents = {})' /\ (Tracks => Tracks')
  <2>1. torrents' = [torrents EXCEPT ![k] = [@ EXCEPT ![f] = v]] /\ k \in DOMAIN torrents
    BY <1>3 DEF Set
  <2>2. /\ DOMAIN torrents' = DOMAIN torrents
        /\ \A j \in DOMAIN torrents : \A g \in Field :
              <<j, g>> # <<k, f>> => torrents'[j][g] = torrents[j][g]
        /\ removed' = removed /\ dirty' = dirty \cup {<<k, f>>}
        /\ told' = told /\ total' = total /\ toldTotal' = toldTotal /\ totalDirty' = totalDirty
    BY <2>1, <1>0, <1>3 DEF Set, observed, Torrent
  <2> QED
    BY <2>2 DEF Tracks
<1>4. ASSUME NEW v \in Value, Transfer(v)
      PROVE  (removed \cap DOMAIN torrents = {})' /\ (Tracks => Tracks')
  BY <1>4 DEF Transfer, Tracks, observed
<1>5. CASE Expire \/ Settle
  BY <1>5 DEF Expire, Settle, Tracks, upstream, collector, round, observed
<1>6. UNCHANGED <<collector, round, observed>>
  BY DEF Environment, Add, RemoveTorrent, Set, Transfer, Expire, Settle
<1> QED
  BY <1>1, <1>2, <1>3, <1>4, <1>5, <1>6 DEF Environment

(* What a step must leave alone for a copy to stay one.                    *)
LEMMA SameAnswer ==
  ASSUME UNCHANGED <<torrents, total, dirty, removed, totalDirty, told, toldTotal, withheld>>
  PROVE  /\ Tracks => Tracks'
         /\ cache' = cache /\ Copies(cache) => Copies(cache)'
         /\ cache' = working /\ Copies(working) => Copies(cache)'
         /\ working' = working /\ Copies(working) => Copies(working)'
BY DEF Tracks, Copies

LEMMA Initially == Init => IInv
<1> SUFFICES ASSUME Init PROVE IInv
  OBVIOUS
<1>1. /\ None \in List(Torrent) /\ None \in List(Patch \ {None})
      /\ NoData.full = FALSE /\ NoData.total = {}
  BY InList DEF None, NoData
<1>2. TypeOK
  <2>1. MaxValue \in Nat /\ MaxChange \in Nat /\ MaxFault \in Nat
    BY SyncAssumption
  <2>2. /\ torrents \in List(Torrent) /\ told \in List(Torrent)
        /\ cache \in List(Patch \ {None}) /\ working \in List(Patch \ {None})
        /\ data.full \in BOOLEAN /\ data.total \subseteq Value
    BY <1>1 DEF Init
  <2>3. /\ changes \in 0..MaxChange /\ faults \in 0..MaxFault
        /\ total \in Value /\ toldTotal \in Value
    BY <2>1 DEF Init, Value
  <2>4. /\ totalDirty \in BOOLEAN /\ session \in BOOLEAN /\ logged \in BOOLEAN
        /\ full \in BOOLEAN /\ calm \in BOOLEAN
    BY DEF Init
  <2> QED
    BY <2>2, <2>3, <2>4 DEF Init, TypeOK, Requests
<1>3. removed \cap DOMAIN torrents = {} /\ Based /\ Advanced
  BY DEF Init, Based, MayAskDelta, Advanced
<1> QED
  BY <1>2, <1>3 DEF IInv

LEMMA Inductive == IInv /\ [Next]_vars => IInv'
<1> SUFFICES ASSUME IInv, [Next]_vars PROVE IInv'
  OBVIOUS
<1>0. TypeOK /\ removed \cap DOMAIN torrents = {} /\ Based /\ Advanced
  BY DEF IInv
<1>a. TypeOK'
  BY <1>0, TypeKept
<1> DEFINE Goal == (removed \cap DOMAIN torrents = {})' /\ Based' /\ Advanced'
<1> SUFFICES Goal
  BY <1>a DEF IInv
<1>1. ASSUME NEW due \in BOOLEAN, Begin(due) PROVE Goal
  <2>1. /\ UNCHANGED <<torrents, total, dirty, removed, totalDirty, told, toldTotal, withheld>>
        /\ cache' = cache /\ server' = server /\ full' = full
        /\ pc = "idle" /\ pc' \in {"login", "sync"} /\ (ask' = "delta" => ~full)
    BY <1>1 DEF Begin, WantsFull, upstream, collector, observed
  <2> QED
    BY <2>1, <1>0, SameAnswer DEF Based, Advanced, MayAskDelta
<1>2. CASE LoginAnswered \/ VersionsAnswered
  <2>1. /\ UNCHANGED <<torrents, total, dirty, removed, totalDirty, told, toldTotal, withheld>>
        /\ cache' = cache /\ server' = server /\ full' = full /\ ask' = ask
        /\ \/ pc \in {"login", "versions"} /\ pc' \in {"versions", "sync"}
           \/ pc' = "resync"
    BY <1>2 DEF LoginAnswered, VersionsAnswered, upstream, collector, observed
  <2> QED
    BY <2>1, <1>0, SameAnswer DEF Based, Advanced, MayAskDelta
<1>3. ASSUME NEW auth \in BOOLEAN, GiveUp(auth),
             (removed \cap DOMAIN torrents = {})'
      PROVE  Goal
  BY <1>3 DEF GiveUp, NeedsBaseline, Based, Advanced, MayAskDelta
<1>4. CASE Forbidden
  <2>1. (removed \cap DOMAIN torrents = {})'
    BY <1>0, <1>4 DEF Forbidden, upstream
  <2>2. CASE pc = "sync"
    <3>1. pc' = "relogin"
      BY <2>2, <1>4 DEF Forbidden
    <3> QED
      BY <3>1, <2>1 DEF Based, Advanced, MayAskDelta
  <2>3. CASE pc # "sync"
    BY <2>1, <2>3, <1>3, <1>4 DEF Forbidden
  <2> QED
    BY <2>2, <2>3
<1>5. CASE Apply
  <2>1. /\ UNCHANGED <<torrents, total, dirty, removed, totalDirty, told, toldTotal, withheld>>
        /\ cache' = working /\ pc = "apply" /\ pc' = "idle"
        /\ server' = MergeServer(IF data.full THEN {} ELSE server, data.total)
    BY <1>5 DEF Apply, upstream, observed
  <2> QED
    BY <2>1, <1>0, SameAnswer DEF Based, Advanced, MayAskDelta
<1>6. CASE Approve
  <2>1. /\ UNCHANGED <<torrents, total, dirty, removed, totalDirty, told, toldTotal, withheld>>
        /\ UNCHANGED <<cache, server, pc, ask, working, data>> /\ full' = TRUE
    BY <1>6 DEF Approve, upstream, round, observed
  <2> QED
    BY <2>1, <1>0, SameAnswer DEF Based, Advanced, MayAskDelta
<1>7. CASE Reload
  <2>1. pc = "idle" /\ pc' = "idle" /\ full' = TRUE /\ UNCHANGED <<torrents, removed>>
    BY <1>7 DEF Reload, round
  <2> QED
    BY <2>1, <1>0 DEF Based, Advanced, MayAskDelta
<1>8. ASSUME NEW auth \in BOOLEAN, NEW counted \in BOOLEAN, RequestFails(auth, counted) PROVE Goal
  <2>1. (removed \cap DOMAIN torrents = {})' /\ GiveUp(auth)
    BY <1>0, <1>8 DEF RequestFails, Reported
  <2> QED
    BY <2>1, <1>3
<1>9. ASSUME NEW isFull \in BOOLEAN, NEW hide \in BOOLEAN, NEW withTotal \in BOOLEAN,
             SyncAnswered(isFull, hide, withTotal)
      PROVE  Goal
  <2>1. pc' \in {"info", "apply"} /\ removed' = {}
    BY <1>9 DEF SyncAnswered, Reported
  <2> QED
    BY <2>1, <1>0, <1>9, SyncAnsweredAdvances DEF Based, Advanced, MayAskDelta
<1>10. CASE InfoAnswered
  <2>1. pc' = "apply" /\ removed' = removed /\ torrents' = torrents
    BY <1>10 DEF InfoAnswered, upstream
  <2> QED
    BY <2>1, <1>0, <1>10, InfoAnsweredAdvances DEF Based, Advanced, MayAskDelta
<1>11. CASE Environment
  <2>1. /\ UNCHANGED <<pc, ask, full, cache, working, data, server, told, toldTotal, withheld>>
        /\ (removed \cap DOMAIN torrents = {})' /\ (Tracks => Tracks')
    BY <1>0, <1>11, EnvironmentTracked DEF collector, round, observed
  <2>2. (Copies(cache) => Copies(cache)') /\ (Copies(working) => Copies(working)')
    BY <2>1 DEF Copies
  <2> QED
    BY <2>1, <2>2, <1>0 DEF Based, Advanced, MayAskDelta
<1>12. CASE UNCHANGED vars
  <2>1. /\ UNCHANGED <<torrents, total, dirty, removed, totalDirty, told, toldTotal, withheld>>
        /\ UNCHANGED <<cache, server, full, pc, ask, working, data>>
    BY <1>12 DEF vars, upstream, collector, round, observed
  <2> QED
    BY <2>1, <1>0, SameAnswer DEF Based, Advanced, MayAskDelta
<1> QED
  BY <1>1, <1>2, <1>4, <1>5, <1>6, <1>7, <1>8, <1>9, <1>10, <1>11, <1>12
     DEF Next, Tick, Answered

THEOREM Invariance == Spec => []IInv
  BY Initially, Inductive, PTL DEF Spec

(* No answer, fault or change of the list leaves the model's types.        *)
THEOREM TypeCorrect == Spec => []TypeOK
  BY Invariance, PTL DEF IInv

(* A round's list has exactly the torrents of the server's last answer,    *)
(* after any number of deltas.                                             *)
THEOREM ListCopied == Spec => []ListExact
<1>1. IInv => ListExact
  BY DEF IInv, Advanced, Copies, ListExact
<1> QED
  BY <1>1, Invariance, PTL

(* And their values, but for changes an answer left out.                   *)
THEOREM ValuesCopied == Spec => []ValuesExact
<1>1. IInv => ValuesExact
  BY DEF IInv, Advanced, Copies, ValuesExact
<1> QED
  BY <1>1, Invariance, PTL

(* Between rounds that ended well the connection's counter is the server's.*)
THEOREM TotalCopied == Spec => []TotalExact
<1>1. IInv => TotalExact
  BY DEF IInv, Based, MayAskDelta, TotalExact
<1> QED
  BY <1>1, Invariance, PTL
=============================================================================

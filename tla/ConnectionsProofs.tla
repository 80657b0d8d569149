------------------------- MODULE ConnectionsProofs -------------------------
(***************************************************************************)
(* What holds of overlapping requests for any number of them, of           *)
(* connections, addresses and sessions.  Requests only meet in the maps    *)
(* and the rows, so the invariant says for each place of a handler what    *)
(* the request still owes to them: collectors it must wait for (Owned),    *)
(* rows it must start (Covered), a raise it must not undo (Compared).      *)
(***************************************************************************)
EXTENDS Connections, TLAPS

(* The variables are functions of the requests, and a body is what the     *)
(* handler expects at its place.                                           *)
Body(r) ==
  /\ pc[r] \in {"create", "patch", "find", "remove", "await", "bar"} => arg[r].conn \in Conn
  /\ pc[r] = "create" => arg[r].row \in Row /\ arg[r].row.addr # NoAddress
  /\ pc[r] = "patch" => /\ arg[r].addr \in Address
                        /\ arg[r].enabled \in BOOLEAN /\ arg[r].keep \in BOOLEAN
  /\ pc[r] \in {"check", "save"} => arg[r].v \in Settings

Shaped ==
  /\ DOMAIN arg = Request /\ DOMAIN ws = Request /\ DOMAIN list = Request
  /\ \A i \in DOMAIN workers : workers[i] \in Request \cup {"main"}
  /\ \A r \in Request : Body(r)

(* A confirmation that is still there has not been used.                   *)
Counted ==
  /\ purges \in [Session \X Conn -> Nat]
  /\ \A s \in Session, i \in Conn : <<s, i>> \in confirmed => purges[<<s, i>>] > 0

(* What a save compared itself with.                                       *)
Compared ==
  \A r \in Request : pc[r] = "save" =>
     /\ arg[r].seen \in 1..2
     /\ arg[r].v.retention < arg[r].seen => arg[r].shorten

(* Collectors that have been started: a request starts one for each row of *)
(* its list, once.                                                         *)
Started ==
  {w \in Worker : w.by \in Request => /\ pc[w.by] \in {"start", "done"}
                                      /\ w.conn \notin DOMAIN list[w.by]}

Known(w) == w.conn \in DOMAIN workers /\ workers[w.conn] = w.by

(* A collector somebody waits for is not the manager's any more, and will  *)
(* not be started again.                                                   *)
Owned ==
  /\ \A w \in Worker : Known(w) => w \in running /\ w \in Started
  /\ \A r \in Request : \A w \in ws[r] : w \in Started /\ ~Known(w)

(* A request that will start a collector for the connection, or remove it. *)
Owes(r, i) ==
  \/ pc[r] \in {"swap", "wait", "read"}
  \/ pc[r] = "start" /\ i \in DOMAIN list[r] /\ Pollable(list[r][i])
  \/ pc[r] \in {"await", "bar"} /\ arg[r].conn = i

Covered ==
  ~failed => \A i \in Conn : Live(i) /\ Pollable(rows[i]) =>
                i \in DOMAIN workers \/ \E r \in Request : Owes(r, i)

-----------------------------------------------------------------------------
(* Requests made one after the other.                                      *)

Polled == {i \in Conn : Live(i) /\ Pollable(rows[i])}

(* The collectors the manager knows.                                       *)
Mapped == {[conn |-> i, by |-> workers[i]] : i \in DOMAIN workers}

(* Only the manager's collectors run, those of C, and S are shown stopped. *)
Exactly(C, S) ==
  /\ DOMAIN workers = C /\ stopped = S
  /\ running = Mapped

Unique ==
  \A i, j \in Conn : Live(i) /\ Live(j) /\ rows[i].addr = rows[j].addr => i = j

(* Nobody but r may add a connection, so what r checked still holds.       *)
Checked(r) ==
  /\ pc[r] = "create" => arg[r].conn \notin DOMAIN rows /\ ~Duplicate(arg[r].row.addr, arg[r].conn)
  /\ pc[r] = "patch" => /\ Live(arg[r].conn)
                        /\ arg[r].addr # rows[arg[r].conn].addr => ~Duplicate(arg[r].addr, arg[r].conn)

(* How far r has got with the collectors.                                  *)
Halfway(r) ==
  LET gone == {arg[r].conn}  due == DOMAIN list[r] IN
  /\ pc[r] \in {"create", "patch", "find", "remove", "check", "save"} =>
        Exactly(Polled, DOMAIN LiveRows \ Polled)
  /\ pc[r] = "await" =>
        /\ DOMAIN workers = Polled \ gone
        /\ stopped = (DOMAIN LiveRows \ Polled) \ gone
        /\ running \ ws[r] = Mapped
  /\ pc[r] = "bar" => Exactly(Polled \ gone, (DOMAIN LiveRows \ Polled) \ gone)
  /\ pc[r] = "swap" => running = Mapped
  /\ pc[r] = "wait" => workers = NoWorkers /\ running \subseteq ws[r]
  /\ pc[r] = "read" => workers = NoWorkers /\ running = {}
  /\ pc[r] = "start" => /\ due \subseteq DOMAIN LiveRows
                        /\ \A i \in due : list[r][i] = rows[i]
                        /\ Exactly(Polled \ due, (DOMAIN LiveRows \ Polled) \ due)

Alone ==
  ~overlap =>
    /\ \A q, r \in Active : q = r
    /\ Unique /\ \A r \in Active : Checked(r)
    /\ ~failed => /\ Quiet => Exactly(Polled, DOMAIN LiveRows \ Polled)
                  /\ \A r \in Active : Halfway(r)

IInv == TypeOK /\ Shaped /\ Counted /\ Compared /\ Owned /\ Covered /\ Alone

-----------------------------------------------------------------------------
(* A handler moves on: the other requests stay where they are.             *)
LEMMA CarryIs ==
  ASSUME TypeOK, Shaped, NEW r \in Request, NEW place \in Places, NEW body, Carry(r, place, body)
  PROVE  /\ pc' \in [Request -> Places] /\ DOMAIN arg' = Request
         /\ pc'[r] = place
         /\ place \notin {"swap", "done"} => arg'[r] = body
         /\ \A q \in Request \ {r} : pc'[q] = pc[q] /\ arg'[q] = arg[q]
BY DEF TypeOK, Shaped, Carry

(* Of the lists and waited-for workers only r's change.                    *)
LEMMA OnlyMine ==
  ASSUME NEW f, DOMAIN f = Request, NEW r \in Request, NEW v
  PROVE  LET g == [f EXCEPT ![r] = v]
         IN  DOMAIN g = Request /\ g[r] = v /\ \A q \in Request \ {r} : g[q] = f[q]
OBVIOUS

(* What a request holds, and what all of them share.                       *)
Mine(r) ==
  /\ ws[r] \subseteq Worker
  /\ pc[r] \notin {"await", "wait"} => ws[r] = {}
  /\ pc[r] # "start" => list[r] = Nothing
  /\ \A i \in DOMAIN list[r] : list[r][i] \in Row /\ list[r][i].addr # NoAddress
  /\ Body(r)

Shared ==
  /\ DOMAIN rows \subseteq Conn /\ (\A i \in DOMAIN rows : rows[i] \in Row)
  /\ settings \in Settings
  /\ DOMAIN workers \subseteq Conn /\ stopped \subseteq Conn /\ running \subseteq Worker
  /\ \A i \in DOMAIN workers : workers[i] \in Request \cup {"main"}
  /\ confirmed \subseteq Session \X Conn
  /\ confirms \in 0..MaxConfirm /\ overlap \in BOOLEAN /\ failed \in BOOLEAN

Indexed ==
  /\ pc \in [Request -> Places]
  /\ DOMAIN arg = Request /\ DOMAIN ws = Request /\ DOMAIN list = Request

LEMMA TypesAre ==
  TypeOK /\ Shaped <=> Shared /\ Indexed /\ \A r \in Request : Mine(r)
BY DEF TypeOK, Shaped, Shared, Indexed, Mine

(* A step of r changes nothing of another request.                         *)
Others(r) == \A q \in Request \ {r} : UNCHANGED <<pc[q], arg[q], ws[q], list[q]>>

LEMMA StepTyped ==
  ASSUME TypeOK, Shaped, NEW r \in Request, Shared', Indexed', Others(r), Mine(r)'
  PROVE  TypeOK' /\ Shaped'
<1>1. ASSUME NEW q \in Request, q # r PROVE Mine(q)'
  <2>1. Mine(q)
    BY TypesAre
  <2>2. pc'[q] = pc[q] /\ arg'[q] = arg[q] /\ ws'[q] = ws[q] /\ list'[q] = list[q]
    BY <1>1 DEF Others
  <2> QED
    BY <2>1, <2>2 DEF Mine, Body
<1>2. \A q \in Request : Mine(q)'
  BY <1>1
<1> QED
  BY <1>2 DEF TypeOK, Shaped, Shared, Indexed, Mine

(* Moving on with the list and the waited-for workers kept.                *)
LEMMA CarryOthers ==
  ASSUME TypeOK, Shaped, NEW r \in Request, NEW place \in Places, NEW body,
         Carry(r, place, body), UNCHANGED <<ws, list>>
  PROVE  Indexed' /\ Others(r)
BY CarryIs DEF Indexed, Others, Shaped

LEMMA ArriveTyped ==
  ASSUME TypeOK, Shaped, NEW r \in Request, NEW place \in Places, NEW body, Arrive(r, place, body),
         confirmed' \subseteq Session \X Conn, confirms' = confirms,
         place \notin {"start"}, Body(r)'
  PROVE  TypeOK' /\ Shaped'
<1>1. pc[r] = "new" /\ Carry(r, place, body) /\ UNCHANGED <<ws, list>>
  BY DEF Arrive
<1>2. Shared'
  <2>1. overlap' \in BOOLEAN
    BY Zenon DEF Arrive, TypeOK
  <2> QED
    BY <2>1 DEF Arrive, Shared, TypeOK, Shaped, database, manager
<1>3. Mine(r)'
  BY <1>1, CarryIs, TypesAre DEF Mine
<1> QED
  BY <1>1, <1>2, <1>3, CarryOthers, StepTyped

LEMMA ArrivalTyped ==
  ASSUME TypeOK, Shaped, NEW r \in Request, Arrival(r)
  PROVE  TypeOK' /\ Shaped'
<1>0. confirmed \subseteq Session \X Conn
  BY DEF TypeOK
<1>1. ASSUME NEW i \in Conn, NEW a \in Address, NEW en \in BOOLEAN, StartCreate(r, i, a, en)
      PROVE  TypeOK' /\ Shaped'
  <2> DEFINE body == [conn |-> i, row |-> [addr |-> a, enabled |-> en, secret |-> TRUE]]
  <2>1. Arrive(r, "create", body) /\ confirmed' = confirmed /\ confirms' = confirms
    BY <1>1 DEF StartCreate, purge
  <2>2. [addr |-> a, enabled |-> en, secret |-> TRUE] \in Row /\ a # NoAddress
    BY <1>1, ConnectionsAssumption DEF Row
  <2>3. pc'[r] = "create" /\ arg'[r] = body
    BY <2>1, CarryIs DEF Arrive, Places
  <2>4. Body(r)'
    BY <2>2, <2>3, <1>1 DEF Body
  <2> HIDE DEF body
  <2> QED
    BY <2>1, <2>4, <1>0, ArriveTyped DEF Places
<1>2. ASSUME NEW i \in Conn, NEW a \in Address, NEW en \in BOOLEAN, NEW keep \in BOOLEAN,
             StartPatch(r, i, a, en, keep)
      PROVE  TypeOK' /\ Shaped'
  <2> DEFINE body == [conn |-> i, addr |-> a, enabled |-> en, keep |-> keep]
  <2>1. Arrive(r, "patch", body) /\ confirmed' = confirmed /\ confirms' = confirms
    BY <1>2 DEF StartPatch, purge
  <2>3. pc'[r] = "patch" /\ arg'[r] = body
    BY <2>1, CarryIs DEF Arrive, Places
  <2>4. Body(r)'
    BY <2>3, <1>2 DEF Body
  <2> HIDE DEF body
  <2> QED
    BY <2>1, <2>4, <1>0, ArriveTyped DEF Places
<1>3. ASSUME NEW s \in Session, NEW i \in Conn, StartDelete(r, s, i)
      PROVE  TypeOK' /\ Shaped'
  <2> DEFINE body == [conn |-> i]
  <2>1. /\ Arrive(r, "find", body) /\ confirmed' = confirmed \ {<<s, i>>} /\ confirms' = confirms
        /\ confirmed' \subseteq Session \X Conn
    BY <1>0, <1>3 DEF StartDelete, Consumed
  <2>3. pc'[r] = "find" /\ arg'[r] = body
    BY <2>1, CarryIs DEF Arrive, Places
  <2>4. Body(r)'
    BY <2>3, <1>3 DEF Body
  <2> HIDE DEF body
  <2> QED
    BY <2>1, <2>4, ArriveTyped DEF Places
<1>4. ASSUME NEW v \in Settings, NEW yes \in BOOLEAN, StartSettings(r, v, yes)
      PROVE  TypeOK' /\ Shaped'
  <2> DEFINE body == [v |-> v, old |-> settings, shorten |-> v.retention < settings.retention]
  <2>1. Arrive(r, "check", body) /\ confirmed' = confirmed /\ confirms' = confirms
    BY <1>4 DEF StartSettings, purge
  <2>3. pc'[r] = "check" /\ arg'[r] = body
    BY <2>1, CarryIs DEF Arrive, Places
  <2>4. Body(r)'
    BY <2>3, <1>4 DEF Body
  <2> HIDE DEF body
  <2> QED
    BY <2>1, <2>4, <1>0, ArriveTyped DEF Places
<1>5. CASE Reconnect(r)
  <2>1. Arrive(r, "swap", NoBody) /\ confirmed' = confirmed /\ confirms' = confirms
    BY <1>5 DEF Reconnect, purge
  <2>3. pc'[r] = "swap"
    BY <2>1, CarryIs DEF Arrive, Places
  <2>4. Body(r)'
    BY <2>3 DEF Body
  <2> QED
    BY <2>1, <2>4, <1>0, ArriveTyped DEF Places
<1> QED
  BY <1>1, <1>2, <1>3, <1>4, <1>5 DEF Arrival

(* Moving on within a handler, when only what all share changes.           *)
LEMMA CarryTyped ==
  ASSUME TypeOK, Shaped, NEW r \in Request, NEW place \in Places, NEW body, Carry(r, place, body),
         UNCHANGED <<ws, list>>, pc[r] \notin {"await", "wait", "start"}, Shared', Body(r)'
  PROVE  TypeOK' /\ Shaped'
<1>1. Mine(r)'
  BY CarryIs, TypesAre DEF Mine
<1> QED
  BY <1>1, CarryOthers, StepTyped

LEMMA WithIs ==
  ASSUME NEW f, NEW x, NEW v
  PROVE  /\ DOMAIN With(f, x, v) = DOMAIN f \cup {x}
         /\ With(f, x, v)[x] = v
         /\ \A y \in DOMAIN f \ {x} : With(f, x, v)[y] = f[y]
BY DEF With

LEMMA RowsTyped ==
  ASSUME TypeOK, Shaped, NEW r \in Request, SaveCreate(r) \/ SavePatch(r) \/ FindInstance(r)
                                            \/ CheckSettings(r) \/ SaveSettings(r) \/ Refuse(r)
  PROVE  TypeOK' /\ Shaped'
<1>0. Body(r) /\ Shared
  BY TypesAre DEF Mine
<1>1. CASE SaveCreate(r)
  <2>1. Carry(r, "swap", arg[r]) /\ pc[r] = "create" /\ UNCHANGED <<ws, list>>
    BY <1>1 DEF SaveCreate, Goto
  <2>2. DOMAIN rows' \subseteq Conn /\ \A i \in DOMAIN rows' : rows'[i] \in Row
    <3>1. arg[r].conn \in Conn /\ arg[r].row \in Row
      BY <2>1, <1>0 DEF Body
    <3>2. rows' = With(rows, arg[r].conn, arg[r].row)
      BY <1>1 DEF SaveCreate
    <3> QED
      BY <3>1, <3>2, <1>0 DEF With, Shared
  <2>3. Shared'
    BY <2>2, <1>0, <1>1 DEF SaveCreate, Shared, manager, purge
  <2>4. Body(r)'
    BY <2>1, CarryIs DEF Body, Places
  <2> QED
    BY <2>1, <2>3, <2>4, CarryTyped DEF Places
<1>2. CASE SavePatch(r)
  <2>1. Carry(r, "swap", arg[r]) /\ pc[r] = "patch" /\ UNCHANGED <<ws, list>>
    BY <1>2 DEF SavePatch, Goto, AfterPatch
  <2> DEFINE i == arg[r].conn
             row == [addr |-> arg[r].addr, enabled |-> arg[r].enabled,
                     secret |-> rows[i].secret \/ ~arg[r].keep]
  <2>2. rows' = IF i \notin DOMAIN rows THEN rows ELSE [rows EXCEPT ![i] = row]
    BY <1>2 DEF SavePatch
  <2>3. row \in Row
    <3>1. arg[r].addr \in Address /\ arg[r].enabled \in BOOLEAN
      BY <2>1, <1>0 DEF Body
    <3>2. (rows[i].secret \/ ~arg[r].keep) \in BOOLEAN
      OBVIOUS
    <3> QED
      BY <3>1, <3>2 DEF Row
  <2> HIDE DEF row
  <2>4. DOMAIN rows' \subseteq Conn /\ \A j \in DOMAIN rows' : rows'[j] \in Row
    BY <2>2, <2>3, <1>0 DEF Shared
  <2>5. Shared'
    BY <2>4, <1>0, <1>2 DEF SavePatch, Shared, manager, purge
  <2>6. Body(r)'
    BY <2>1, CarryIs DEF Body, Places
  <2> QED
    BY <2>1, <2>5, <2>6, CarryTyped DEF Places
<1>3. CASE FindInstance(r)
  <2> DEFINE place == IF Live(arg[r].conn) THEN "remove" ELSE "done"
  <2>1. Carry(r, place, arg[r]) /\ pc[r] = "find" /\ UNCHANGED <<ws, list>> /\ place \in Places
    BY <1>3 DEF FindInstance, Goto, Places
  <2>2. Shared'
    BY <1>0, <1>3 DEF FindInstance, Shared, database, manager, purge
  <2>3. Body(r)'
    BY <2>1, <1>0, CarryIs DEF Body
  <2> HIDE DEF place
  <2> QED
    BY <2>1, <2>2, <2>3, CarryTyped
<1>4. CASE CheckSettings(r)
  <2> DEFINE place == IF RetentionConfirmed(r) THEN "save" ELSE "done"
             body == [v |-> arg[r].v, old |-> arg[r].old, shorten |-> arg[r].shorten,
                      seen |-> settings.retention]
  <2>1. Carry(r, place, body) /\ pc[r] = "check" /\ UNCHANGED <<ws, list>> /\ place \in Places
    BY <1>4 DEF CheckSettings, Places
  <2>2. Shared'
    BY <1>0, <1>4 DEF CheckSettings, Shared, database, manager, purge
  <2>3. Body(r)'
    BY <2>1, <1>0, CarryIs DEF Body
  <2> HIDE DEF place, body
  <2> QED
    BY <2>1, <2>2, <2>3, CarryTyped
<1>5. CASE SaveSettings(r)
  <2> DEFINE place == IF arg[r].v.interval # arg[r].old.interval THEN "swap" ELSE "done"
  <2>1. Carry(r, place, arg[r]) /\ pc[r] = "save" /\ UNCHANGED <<ws, list>> /\ place \in Places
    BY <1>5 DEF SaveSettings, Goto, Places
  <2>2. Shared'
    BY <2>1, <1>0, <1>5 DEF SaveSettings, Shared, manager, purge, Body
  <2>3. Body(r)'
    BY <2>1, CarryIs DEF Body
  <2> HIDE DEF place
  <2> QED
    BY <2>1, <2>2, <2>3, CarryTyped
<1>6. CASE Refuse(r)
  <2>1. /\ Carry(r, "done", arg[r]) /\ pc[r] \in {"create", "patch", "find", "check", "save"}
        /\ UNCHANGED <<ws, list>>
    BY <1>6 DEF Refuse, Goto
  <2>2. Shared'
    BY <1>0, <1>6 DEF Refuse, Shared, database, manager, purge
  <2>3. Body(r)'
    BY <2>1, CarryIs DEF Body, Places
  <2> QED
    BY <2>1, <2>2, <2>3, CarryTyped DEF Places
<1> QED
  BY <1>1, <1>2, <1>3, <1>4, <1>5, <1>6

LEMMA RemovalTyped ==
  ASSUME TypeOK, Shaped, NEW r \in Request,
         TakeWorker(r) \/ AwaitWorker(r) \/ \E ok \in BOOLEAN : RemoveInstance(r, ok)
  PROVE  TypeOK' /\ Shaped'
<1>0. Mine(r) /\ Shared /\ DOMAIN ws = Request
  BY TypesAre DEF Shaped
<1>1. CASE TakeWorker(r)
  <2>1. Carry(r, "await", arg[r]) /\ pc[r] = "remove"
    BY <1>1 DEF TakeWorker, Goto
  <2>2. /\ workers' = [j \in DOMAIN workers \ {arg[r].conn} |-> workers[j]]
        /\ stopped' = stopped \ {arg[r].conn} /\ list' = list
    BY <1>1 DEF TakeWorker
  <2>3. /\ DOMAIN ws' = Request /\ ws'[r] \subseteq Worker
        /\ \A q \in Request \ {r} : ws'[q] = ws[q]
    BY <1>0, <1>1 DEF TakeWorker
  <2>4. Shared'
    BY <2>2, <1>0, <1>1 DEF TakeWorker, Shared, database, purge
  <2>5. Indexed' /\ Others(r)
    BY <2>1, <2>2, <2>3, CarryIs DEF Places, Indexed, Others, Shaped
  <2>6. Mine(r)'
    BY <2>1, <2>2, <2>3, <1>0, CarryIs DEF Mine, Body, Places
  <2> QED
    BY <2>4, <2>5, <2>6, StepTyped
<1>2. CASE AwaitWorker(r)
  <2>1. Carry(r, "bar", arg[r]) /\ pc[r] = "await" /\ list' = list
    BY <1>2 DEF AwaitWorker, Goto
  <2>3. /\ DOMAIN ws' = Request /\ ws'[r] = {}
        /\ \A q \in Request \ {r} : ws'[q] = ws[q]
    BY <1>0, <1>2 DEF AwaitWorker
  <2>4. Shared'
    BY <1>0, <1>2 DEF AwaitWorker, Ended, Shared, database, purge
  <2>5. Indexed' /\ Others(r)
    BY <2>1, <2>3, CarryIs DEF Places, Indexed, Others, Shaped
  <2>6. Mine(r)'
    BY <2>1, <2>3, <1>0, CarryIs DEF Mine, Body, Places
  <2> QED
    BY <2>4, <2>5, <2>6, StepTyped
<1>3. ASSUME NEW ok \in BOOLEAN, RemoveInstance(r, ok) PROVE TypeOK' /\ Shaped'
  <2>1. Carry(r, "done", arg[r]) /\ pc[r] = "bar" /\ UNCHANGED <<ws, list>>
    BY <1>3 DEF RemoveInstance, Goto
  <2>2. NoRow \in Row
    BY DEF NoRow, Row
  <2>3. DOMAIN rows' \subseteq Conn /\ \A j \in DOMAIN rows' : rows'[j] \in Row
    BY <2>2, <1>0, <1>3 DEF RemoveInstance, Shared
  <2>4. failed' \in BOOLEAN
    BY <1>3, Zenon DEF RemoveInstance
  <2>5. Shared'
    BY <2>3, <2>4, <1>0, <1>3 DEF RemoveInstance, Shared, manager, purge
  <2>6. Mine(r)'
    BY <2>1, <1>0, CarryIs DEF Mine, Body, Places
  <2>7. Indexed' /\ Others(r)
    BY <2>1, CarryOthers DEF Places
  <2> QED
    BY <2>5, <2>6, <2>7, StepTyped
<1> QED
  BY <1>1, <1>2, <1>3

LEMMA ReloadTyped ==
  ASSUME TypeOK, Shaped, NEW r \in Request,
         \/ SwapWorkers(r) \/ WaitWorkers(r) \/ ReadInstances(r)
         \/ ReloadEnds(r) \/ ReloadFails(r) \/ \E i \in Conn : StartCollector(r, i)
  PROVE  TypeOK' /\ Shaped'
<1>0. Mine(r) /\ Shared /\ DOMAIN ws = Request /\ DOMAIN list = Request /\ DOMAIN arg = Request
  BY TypesAre DEF Shaped
<1>1. CASE SwapWorkers(r)
  <2>1. Carry(r, "wait", arg[r]) /\ pc[r] = "swap" /\ list' = list
    BY <1>1 DEF SwapWorkers, Goto
  <2>2. {[conn |-> i, by |-> workers[i]] : i \in DOMAIN workers} \subseteq Worker
    BY <1>0 DEF Shared, Worker
  <2>3. /\ DOMAIN ws' = Request /\ ws'[r] \subseteq Worker
        /\ \A q \in Request \ {r} : ws'[q] = ws[q]
    BY <2>2, <1>0, <1>1 DEF SwapWorkers
  <2>4. Shared'
    BY <1>0, <1>1 DEF SwapWorkers, NoWorkers, Nothing, Shared, database, purge
  <2>5. Indexed' /\ Others(r)
    BY <2>1, <2>3, CarryIs DEF Places, Indexed, Others, Shaped
  <2>6. Mine(r)'
    BY <2>1, <2>3, <1>0, CarryIs DEF Mine, Body, Places
  <2> QED
    BY <2>4, <2>5, <2>6, StepTyped
<1>2. CASE WaitWorkers(r)
  <2>1. Carry(r, "read", arg[r]) /\ pc[r] = "wait" /\ list' = list
    BY <1>2 DEF WaitWorkers, Goto
  <2>3. /\ DOMAIN ws' = Request /\ ws'[r] = {}
        /\ \A q \in Request \ {r} : ws'[q] = ws[q]
    BY <1>0, <1>2 DEF WaitWorkers
  <2>4. Shared'
    BY <1>0, <1>2 DEF WaitWorkers, Ended, Shared, database, purge
  <2>5. Indexed' /\ Others(r)
    BY <2>1, <2>3, CarryIs DEF Places, Indexed, Others, Shaped
  <2>6. Mine(r)'
    BY <2>1, <2>3, <1>0, CarryIs DEF Mine, Body, Places
  <2> QED
    BY <2>4, <2>5, <2>6, StepTyped
<1>3. CASE ReadInstances(r)
  <2>1. Carry(r, "start", arg[r]) /\ pc[r] = "read" /\ ws' = ws
    BY <1>3 DEF ReadInstances, Goto
  <2>2. \A i \in DOMAIN LiveRows : LiveRows[i] \in Row /\ LiveRows[i].addr # NoAddress
    BY <1>0 DEF LiveRows, Live, Shared
  <2>3. /\ DOMAIN list' = Request /\ list'[r] = LiveRows
        /\ \A q \in Request \ {r} : list'[q] = list[q]
    BY <1>0, <1>3 DEF ReadInstances
  <2>4. Shared'
    BY <1>0, <1>3 DEF ReadInstances, Shared, database, purge
  <2>5. Indexed' /\ Others(r)
    BY <2>1, <2>3, CarryIs DEF Places, Indexed, Others, Shaped
  <2>6. Mine(r)'
    BY <2>1, <2>2, <2>3, <1>0, CarryIs DEF Mine, Body, Places
  <2> QED
    BY <2>4, <2>5, <2>6, StepTyped
<1>4. ASSUME NEW i \in Conn, StartCollector(r, i) PROVE TypeOK' /\ Shaped'
  <2>1. UNCHANGED <<pc, arg, ws>> /\ pc[r] = "start" /\ i \in DOMAIN list[r]
    BY <1>4 DEF StartCollector
  <2>2. \A j \in DOMAIN Rest(r, i) : j \in DOMAIN list[r] /\ Rest(r, i)[j] = list[r][j]
    BY DEF Rest
  <2>3. /\ DOMAIN list' = Request /\ list'[r] = Rest(r, i)
        /\ \A q \in Request \ {r} : list'[q] = list[q]
    BY <1>0, <1>4 DEF StartCollector
  <2>4. Shared'
    <3>1. CASE Pollable(list[r][i])
      <4>1. /\ workers' = With(workers, i, r) /\ running' = running \cup {[conn |-> i, by |-> r]}
            /\ UNCHANGED <<stopped, database, purge, overlap, failed>>
        BY <3>1, <1>4 DEF StartCollector
      <4>2. [conn |-> i, by |-> r] \in Worker
        BY <1>4 DEF Worker
      <4>3. DOMAIN workers' \subseteq Conn /\ \A j \in DOMAIN workers' : workers'[j] \in Request \cup {"main"}
        BY <4>1, <1>0, <1>4 DEF Shared, With
      <4> QED
        BY <4>1, <4>2, <4>3, <1>0 DEF Shared, database, purge
    <3>2. CASE ~Pollable(list[r][i])
      BY <3>2, <1>0, <1>4 DEF StartCollector, Shared, database, purge
    <3> QED
      BY <3>1, <3>2
  <2>5. Indexed' /\ Others(r)
    BY <2>1, <2>3 DEF Indexed, Others, Shaped, TypeOK
  <2>6. Mine(r)'
    BY <2>1, <2>2, <2>3, <1>0 DEF Mine, Body
  <2> QED
    BY <2>4, <2>5, <2>6, StepTyped
<1>5. CASE ReloadEnds(r)
  <2>1. Carry(r, "done", arg[r]) /\ pc[r] = "start" /\ list[r] = Nothing /\ UNCHANGED <<ws, list>>
    BY <1>5 DEF ReloadEnds, Goto
  <2>2. Shared'
    BY <1>0, <1>5 DEF ReloadEnds, Shared, database, manager, purge
  <2>3. Mine(r)'
    BY <2>1, <1>0, CarryIs DEF Mine, Body, Places
  <2>4. Indexed' /\ Others(r)
    BY <2>1, CarryOthers DEF Places
  <2> QED
    BY <2>2, <2>3, <2>4, StepTyped
<1>6. CASE ReloadFails(r)
  <2>1. Carry(r, "done", arg[r]) /\ pc[r] \in {"read", "start"} /\ ws' = ws
    BY <1>6 DEF ReloadFails, Goto
  <2>2. /\ DOMAIN list' = Request /\ list'[r] = Nothing
        /\ \A q \in Request \ {r} : list'[q] = list[q]
    BY <1>0, <1>6 DEF ReloadFails
  <2>3. Shared'
    BY <1>0, <1>6 DEF ReloadFails, Shared, database, manager, purge
  <2>4. Mine(r)'
    BY <2>1, <2>2, <1>0, CarryIs DEF Mine, Body, Places, Nothing
  <2>5. Indexed' /\ Others(r)
    BY <2>1, <2>2, CarryIs DEF Places, Indexed, Others, Shaped
  <2> QED
    BY <2>3, <2>4, <2>5, StepTyped
<1> QED
  BY <1>1, <1>2, <1>3, <1>4, <1>5, <1>6

LEMMA ConfirmTyped ==
  ASSUME TypeOK, Shaped, NEW s \in Session, NEW i \in Conn,
         ConfirmPurge(s, i) \/ ConfirmationAges(s, i) \/ UNCHANGED vars
  PROVE  TypeOK' /\ Shaped'
<1>1. UNCHANGED <<rows, settings, workers, stopped, running, pc, arg, ws, list, overlap, failed>>
  BY DEF ConfirmPurge, ConfirmationAges, vars, database, manager, request
<1>2. confirmed' \subseteq Session \X Conn /\ confirms' \in 0..MaxConfirm
  BY ConnectionsAssumption DEF ConfirmPurge, ConfirmationAges, vars, purge, TypeOK
<1> QED
  BY <1>1, <1>2 DEF TypeOK, Shaped, Body

LEMMA TypesKept == TypeOK /\ Shaped /\ [Next]_vars => TypeOK' /\ Shaped'
<1> SUFFICES ASSUME TypeOK, Shaped, [Next]_vars PROVE TypeOK' /\ Shaped'
  OBVIOUS
<1>1. ASSUME NEW r \in Request, Arrival(r) \/ Handle(r) PROVE TypeOK' /\ Shaped'
  BY <1>1, ArrivalTyped, RowsTyped, RemovalTyped, ReloadTyped DEF Handle
<1>2. CASE UNCHANGED vars
  BY <1>2 DEF vars, database, manager, request, purge, TypeOK, Shaped, Body
<1> QED
  BY <1>1, <1>2, ConfirmTyped DEF Next

-----------------------------------------------------------------------------
(* Confirmations and saves.                                                *)

(* A step is one request's, or about a confirmation, or none.              *)
LEMMA OthersKept ==
  ASSUME TypeOK, Shaped, NEW r \in Request, Arrival(r) \/ Handle(r)
  PROVE  Others(r)
<1> USE DEF Others, TypeOK, Shaped, Carry, Goto
<1>1. CASE Arrival(r)
  BY <1>1, ZenonT(60) DEF Arrival, StartCreate, StartPatch, StartDelete, StartSettings, Reconnect, Arrive
<1>2. CASE SaveCreate(r) \/ SavePatch(r) \/ CheckSettings(r) \/ SaveSettings(r) \/ Refuse(r)
  BY <1>2 DEF SaveCreate, SavePatch, CheckSettings, SaveSettings, Refuse
<1>3. CASE FindInstance(r) \/ TakeWorker(r) \/ AwaitWorker(r) \/ \E ok \in BOOLEAN : RemoveInstance(r, ok)
  BY <1>3 DEF FindInstance, TakeWorker, AwaitWorker, RemoveInstance
<1>4. CASE SwapWorkers(r) \/ WaitWorkers(r) \/ ReadInstances(r) \/ ReloadEnds(r) \/ ReloadFails(r)
  BY <1>4 DEF SwapWorkers, WaitWorkers, ReadInstances, ReloadEnds, ReloadFails
<1>5. CASE \E i \in Conn : StartCollector(r, i)
  BY <1>5 DEF StartCollector
<1> QED
  BY <1>1, <1>2, <1>3, <1>4, <1>5 DEF Handle

LEMMA CountedKept == TypeOK /\ Shaped /\ Counted /\ [Next]_vars => Counted'
<1> SUFFICES ASSUME TypeOK, Shaped, Counted, [Next]_vars PROVE Counted'
  OBVIOUS
<1>1. ASSUME NEW s \in Session, NEW i \in Conn, ConfirmPurge(s, i) PROVE Counted'
  <2>1. purges' = [purges EXCEPT ![<<s, i>>] = purges[<<s, i>>] + 1] /\ confirmed' = confirmed \cup {<<s, i>>}
    BY <1>1 DEF ConfirmPurge
  <2> QED
    BY <2>1, <1>1 DEF Counted
<1>2. ASSUME NEW s \in Session, NEW i \in Conn, ConfirmationAges(s, i) PROVE Counted'
  BY <1>2 DEF ConfirmationAges, Counted
<1>3. ASSUME NEW r \in Request, NEW s \in Session, NEW i \in Conn, StartDelete(r, s, i) PROVE Counted'
  <2>1. /\ purges' = [purges EXCEPT ![<<s, i>>] = purges[<<s, i>>] - 1]
        /\ <<s, i>> \in confirmed /\ confirmed' = confirmed \ {<<s, i>>}
    BY <1>3 DEF StartDelete, Consumed
  <2>2. purges[<<s, i>>] \in Nat /\ purges[<<s, i>>] > 0
    BY <2>1, <1>3 DEF Counted
  <2> QED
    BY <2>1, <2>2, <1>3 DEF Counted
<1>4. CASE UNCHANGED purge
  BY <1>4 DEF purge, Counted
<1>5. ASSUME NEW r \in Request, Handle(r) PROVE UNCHANGED purge
  BY <1>5 DEF Handle, SaveCreate, SavePatch, CheckSettings, SaveSettings, Refuse, FindInstance,
     TakeWorker, AwaitWorker, RemoveInstance, SwapWorkers, WaitWorkers, ReadInstances, ReloadEnds,
     ReloadFails, StartCollector
<1>6. ASSUME NEW r \in Request, Arrival(r)
      PROVE  UNCHANGED purge \/ \E s \in Session, i \in Conn : StartDelete(r, s, i)
  BY <1>6 DEF Arrival, StartCreate, StartPatch, StartSettings, Reconnect
<1> QED
  BY <1>1, <1>2, <1>3, <1>4, <1>5, <1>6 DEF Next, vars

LEMMA ComparedKept == TypeOK /\ Shaped /\ Compared /\ [Next]_vars => Compared'
<1> SUFFICES ASSUME TypeOK, Shaped, Compared, [Next]_vars PROVE Compared'
  OBVIOUS
<1>1. CASE UNCHANGED <<pc, arg>>
  BY <1>1 DEF Compared
<1>2. ASSUME NEW r \in Request, Arrival(r) \/ Handle(r) PROVE Compared'
  <2>1. \A q \in Request \ {r} : pc'[q] = pc[q] /\ arg'[q] = arg[q]
    BY <1>2, OthersKept DEF Others
  <2>2. ASSUME pc'[r] = "save" PROVE CheckSettings(r) \/ UNCHANGED <<pc, arg>>
    <3> USE DEF Carry, Goto, TypeOK
    <3>1. CASE Arrival(r)
      BY <2>2, <3>1 DEF Arrival, StartCreate, StartPatch, StartDelete, StartSettings, Reconnect, Arrive
    <3>2. CASE SaveCreate(r) \/ SavePatch(r) \/ SaveSettings(r) \/ Refuse(r) \/ FindInstance(r)
      BY <2>2, <3>2 DEF SaveCreate, SavePatch, AfterPatch, SaveSettings, Refuse, FindInstance
    <3>3. CASE TakeWorker(r) \/ AwaitWorker(r) \/ \E ok \in BOOLEAN : RemoveInstance(r, ok)
      BY <2>2, <3>3 DEF TakeWorker, AwaitWorker, RemoveInstance
    <3>4. CASE SwapWorkers(r) \/ WaitWorkers(r) \/ ReadInstances(r) \/ ReloadEnds(r) \/ ReloadFails(r)
      BY <2>2, <3>4 DEF SwapWorkers, WaitWorkers, ReadInstances, ReloadEnds, ReloadFails
    <3>5. CASE \E i \in Conn : StartCollector(r, i)
      BY <3>5 DEF StartCollector
    <3> QED
      BY <1>2, <3>1, <3>2, <3>3, <3>4, <3>5 DEF Handle
  <2>3. ASSUME CheckSettings(r), pc'[r] = "save"
        PROVE  /\ arg'[r].seen \in 1..2
               /\ arg'[r].v.retention < arg'[r].seen => arg'[r].shorten
    <3>1. RetentionConfirmed(r) /\ settings.retention \in 1..2
      BY <2>3 DEF CheckSettings, Carry, TypeOK, Settings
    <3>2. arg'[r] = [v |-> arg[r].v, old |-> arg[r].old, shorten |-> arg[r].shorten,
                     seen |-> settings.retention]
      BY <2>3, <3>1, CarryIs DEF CheckSettings, Places
    <3> QED
      BY <3>1, <3>2 DEF RetentionConfirmed
  <2> QED
    BY <2>1, <2>2, <2>3 DEF Compared
<1> QED
  BY <1>1, <1>2 DEF Next, vars, ConfirmPurge, ConfirmationAges, request

-----------------------------------------------------------------------------
(* Collectors.                                                             *)

(* Only five steps touch the collectors or those who wait for them.        *)
LEMMA CollectorSteps ==
  ASSUME NEW r \in Request, Arrival(r) \/ Handle(r)
  PROVE  \/ TakeWorker(r) \/ AwaitWorker(r) \/ SwapWorkers(r) \/ WaitWorkers(r)
         \/ \E i \in Conn : StartCollector(r, i)
         \/ UNCHANGED <<workers, running, ws>>
<1>1. CASE Arrival(r)
  BY <1>1, ZenonT(60) DEF Arrival, StartCreate, StartPatch, StartDelete, StartSettings, Reconnect, Arrive, manager
<1>2. CASE SaveCreate(r) \/ SavePatch(r) \/ CheckSettings(r) \/ SaveSettings(r) \/ Refuse(r)
  BY <1>2 DEF SaveCreate, SavePatch, CheckSettings, SaveSettings, Refuse, manager
<1>3. CASE FindInstance(r) \/ \E ok \in BOOLEAN : RemoveInstance(r, ok)
  BY <1>3 DEF FindInstance, RemoveInstance, manager
<1>4. CASE ReadInstances(r) \/ ReloadEnds(r) \/ ReloadFails(r)
  BY <1>4 DEF ReadInstances, ReloadEnds, ReloadFails, manager
<1> QED
  BY <1>1, <1>2, <1>3, <1>4 DEF Handle

(* What r has started stays started: it is past its list, or done.         *)
LEMMA StartedGrows ==
  ASSUME TypeOK, Shaped, NEW r \in Request, Arrival(r) \/ Handle(r)
  PROVE  Started \subseteq Started'
<1>1. \A q \in Request \ {r} : pc'[q] = pc[q] /\ list'[q] = list[q]
  BY OthersKept DEF Others
<1>2. ASSUME pc[r] \in {"start", "done"}
      PROVE  pc'[r] \in {"start", "done"} /\ DOMAIN list'[r] \subseteq DOMAIN list[r]
  <2> USE DEF TypeOK, Shaped
  <2>1. CASE Arrival(r)
    BY <1>2, <2>1 DEF Arrival, StartCreate, StartPatch, StartDelete, StartSettings, Reconnect, Arrive
  <2>2. CASE ReloadEnds(r)
    BY <2>2 DEF ReloadEnds, Goto, Carry
  <2>3. CASE ReloadFails(r)
    BY <2>3 DEF ReloadFails, Goto, Carry, Nothing
  <2>4. ASSUME NEW i \in Conn, StartCollector(r, i)
        PROVE  pc'[r] \in {"start", "done"} /\ DOMAIN list'[r] \subseteq DOMAIN list[r]
    <3>1. pc' = pc /\ list'[r] = Rest(r, i)
      BY <2>4 DEF StartCollector
    <3> QED
      BY <3>1, <1>2 DEF Rest
  <2> QED
    BY <1>2, <2>1, <2>2, <2>3, <2>4
       DEF Handle, SaveCreate, SavePatch, CheckSettings, SaveSettings, Refuse, FindInstance,
           TakeWorker, AwaitWorker, RemoveInstance, SwapWorkers, WaitWorkers, ReadInstances
<1> SUFFICES ASSUME NEW w \in Started PROVE w \in Started'
  OBVIOUS
<1>3. CASE w.by = r
  BY <1>2, <1>3 DEF Started
<1>4. CASE w.by # r
  BY <1>1, <1>4 DEF Started
<1> QED
  BY <1>3, <1>4

LEMMA OwnedKept == TypeOK /\ Shaped /\ Owned /\ [Next]_vars => Owned'
<1> SUFFICES ASSUME TypeOK, Shaped, Owned, [Next]_vars PROVE Owned'
  OBVIOUS
<1>1. CASE UNCHANGED <<workers, running, ws, pc, list>>
  BY <1>1 DEF Owned, Known, Started
<1>2. ASSUME NEW r \in Request, Arrival(r) \/ Handle(r) PROVE Owned'
  <2>1. Started \subseteq Started'
    BY <1>2, StartedGrows
  <2>2. \A q \in Request \ {r} : ws'[q] = ws[q]
    BY <1>2, OthersKept DEF Others
  <2>3. \A q \in Request : ws[q] \subseteq Worker
    BY DEF TypeOK
  <2>4. /\ \A w \in Worker : Known(w) => w \in running /\ w \in Started
        /\ \A q \in Request : \A w \in ws[q] : w \in Started /\ ~Known(w)
    BY DEF Owned
  <2> DEFINE Waits == \A q \in Request : \A w \in ws'[q] : w \in Started' /\ ~Known(w)'
             Runs == \A w \in Worker : Known(w)' => w \in running' /\ w \in Started'
  <2>5. CASE UNCHANGED <<workers, running, ws>>
    BY <2>1, <2>4, <2>5 DEF Owned, Known
  <2>6. CASE TakeWorker(r)
    <3> DEFINE i == arg[r].conn
    <3>1. /\ workers' = [j \in DOMAIN workers \ {i} |-> workers[j]] /\ running' = running
          /\ ws'[r] = {w \in Worker : w.conn = i /\ i \in DOMAIN workers /\ w.by = workers[i]}
      BY <2>6 DEF TakeWorker, Shaped
    <3>2. \A w \in ws'[r] : w \in Worker /\ Known(w) /\ w.conn = i
      BY <3>1 DEF Known
    <3>3. \A w \in Worker : Known(w)' => Known(w) /\ w.conn # i
      BY <3>1 DEF Known
    <3>4. Waits
      <4> SUFFICES ASSUME NEW q \in Request, NEW w \in ws'[q] PROVE w \in Started' /\ ~Known(w)'
        OBVIOUS
      <4>1. CASE q = r
        BY <4>1, <3>2, <3>3, <2>1, <2>4
      <4>2. CASE q # r
        BY <4>2, <3>3, <2>1, <2>2, <2>3, <2>4
      <4> QED
        BY <4>1, <4>2
    <3>5. Runs
      BY <3>1, <3>3, <2>1, <2>4
    <3> QED
      BY <3>4, <3>5 DEF Owned
  <2>7. CASE AwaitWorker(r) \/ WaitWorkers(r)
    <3>1. workers' = workers /\ running' = running \ ws[r] /\ ws'[r] = {}
      BY <2>7 DEF AwaitWorker, WaitWorkers, Ended, Shaped
    <3>2. \A w \in Worker : Known(w)' <=> Known(w)
      BY <3>1 DEF Known
    <3>3. Waits
      BY <3>1, <3>2, <2>1, <2>2, <2>3, <2>4
    <3>4. Runs
      BY <3>1, <3>2, <2>1, <2>4
    <3> QED
      BY <3>3, <3>4 DEF Owned
  <2>8. CASE SwapWorkers(r)
    <3>1. /\ DOMAIN workers' = {}
          /\ ws'[r] = {[conn |-> i, by |-> workers[i]] : i \in DOMAIN workers}
      BY <2>8 DEF SwapWorkers, NoWorkers, Nothing, Shaped
    <3>2. \A w : ~Known(w)'
      BY <3>1 DEF Known
    <3>3. \A w \in ws'[r] : w \in Worker /\ Known(w)
      BY <3>1 DEF Known, Worker, TypeOK, Shaped
    <3>4. Waits
      BY <3>2, <3>3, <2>1, <2>2, <2>4
    <3>5. Runs
      BY <3>2
    <3> QED
      BY <3>4, <3>5 DEF Owned
  <2>9. ASSUME NEW i \in Conn, StartCollector(r, i) PROVE Owned'
    <3>1. CASE ~Pollable(list[r][i])
      BY <3>1, <2>5, <2>9 DEF StartCollector
    <3>2. CASE Pollable(list[r][i])
      <4> DEFINE new == [conn |-> i, by |-> r]
      <4>1. /\ workers' = With(workers, i, r) /\ running' = running \cup {new} /\ ws' = ws /\ pc' = pc
            /\ pc[r] = "start" /\ i \in DOMAIN list[r] /\ list'[r] = Rest(r, i)
        BY <3>2, <2>9 DEF StartCollector, Shaped
      <4>2. new \in Worker /\ new \notin Started /\ new \in Started'
        <5>1. new \in Worker /\ new.by \in Request /\ new.by = r /\ new.conn = i
          BY <2>9 DEF Worker
        <5>2. i \notin DOMAIN list'[r]
          BY <4>1 DEF Rest
        <5> QED
          BY <5>1, <5>2, <4>1 DEF Started
      <4>3. \A w \in Worker : w.conn = i /\ w.by = r => w = new
        BY DEF Worker
      <4>4. ASSUME NEW w \in Worker, Known(w)' PROVE w = new \/ Known(w)
        <5>1. DOMAIN workers' = DOMAIN workers \cup {i}
          BY <4>1 DEF With
        <5>2. CASE w.conn = i
          BY <5>2, <4>1, <4>3, <4>4 DEF Known, With
        <5>3. CASE w.conn # i
          BY <5>1, <5>3, <4>1, <4>4 DEF Known, With
        <5> QED
          BY <5>2, <5>3
      <4>5. Waits
        <5> SUFFICES ASSUME NEW q \in Request, NEW w \in ws'[q] PROVE w \in Started' /\ ~Known(w)'
          OBVIOUS
        <5>1. w \in ws[q] /\ w \in Worker
          BY <4>1, <2>3
        <5>2. w \in Started /\ ~Known(w)
          BY <5>1, <2>4
        <5> HIDE DEF new
        <5> QED
          BY <5>1, <5>2, <4>2, <4>4, <2>1
      <4>6. Runs
        <5> HIDE DEF new
        <5> QED
          BY <4>1, <4>2, <4>4, <2>1, <2>4
      <4> QED
        BY <4>5, <4>6 DEF Owned
    <3> QED
      BY <3>1, <3>2
  <2> QED
    BY <1>2, <2>5, <2>6, <2>7, <2>8, <2>9, CollectorSteps
<1> QED
  BY <1>1, <1>2 DEF Next, vars, ConfirmPurge, ConfirmationAges, manager, request

(* The debts of the other requests stay; r may pay its own.                *)
LEMMA OthersOwe ==
  ASSUME TypeOK, Shaped, NEW r \in Request, Arrival(r) \/ Handle(r)
  PROVE  \A q \in Request \ {r} : \A i : Owes(q, i) => Owes(q, i)'
<1>1. \A q \in Request \ {r} : pc'[q] = pc[q] /\ arg'[q] = arg[q] /\ list'[q] = list[q]
  BY OthersKept DEF Others
<1> QED
  BY <1>1 DEF Owes

(* A step of a handler that owes nothing and changes no row.               *)
LEMMA FreeStep ==
  ASSUME NEW r \in Request,
         \/ Arrival(r) /\ ~Reconnect(r)
         \/ CheckSettings(r) \/ Refuse(r) \/ FindInstance(r) \/ SaveSettings(r)
  PROVE  /\ UNCHANGED <<rows, workers, failed>>
         /\ pc[r] \in {"new", "create", "patch", "find", "check", "save"}
BY DEF Arrival, StartCreate, StartPatch, StartDelete, StartSettings, Arrive, CheckSettings,
       Refuse, FindInstance, SaveSettings, database, manager

LEMMA CoveredKept == TypeOK /\ Shaped /\ Covered /\ [Next]_vars => Covered'
<1> SUFFICES ASSUME TypeOK, Shaped, Covered, [Next]_vars PROVE Covered'
  OBVIOUS
<1>1. CASE UNCHANGED <<rows, workers, failed, pc, arg, list>>
  BY <1>1 DEF Covered, Live, Owes
<1>2. ASSUME NEW r \in Request, Arrival(r) \/ Handle(r) PROVE Covered'
  <2> DEFINE Due(i) == Live(i) /\ Pollable(rows[i])
  <2> SUFFICES ASSUME ~failed', NEW i \in Conn, Due(i)'
               PROVE  i \in DOMAIN workers' \/ \E q \in Request : Owes(q, i)'
    BY DEF Covered
  <2>1. \A q \in Request \ {r} : Owes(q, i) => Owes(q, i)'
    BY <1>2, OthersOwe
  <2>2. ~failed /\ Due(i) => i \in DOMAIN workers \/ \E q \in Request : Owes(q, i)
    BY DEF Covered
  <2> HIDE DEF Due
  <2>3. CASE pc'[r] \in {"swap", "wait", "read"}
    BY <2>3 DEF Owes
  <2>4. CASE UNCHANGED <<rows, workers, failed>> /\ (Owes(r, i) => Owes(r, i)')
    <3>1. ~failed /\ Due(i)
      BY <2>4 DEF Due, Live
    <3> QED
      BY <3>1, <2>1, <2>2, <2>4
  <2>5. CASE \/ Arrival(r) /\ ~Reconnect(r)
             \/ CheckSettings(r) \/ Refuse(r) \/ FindInstance(r) \/ SaveSettings(r)
    <3>1. /\ UNCHANGED <<rows, workers, failed>>
          /\ pc[r] \in {"new", "create", "patch", "find", "check", "save"}
      BY <2>5, FreeStep
    <3>2. ~Owes(r, i)
      BY <3>1 DEF Owes
    <3> QED
      BY <3>1, <3>2, <2>4
  <2>6. CASE Reconnect(r) \/ SaveCreate(r) \/ SavePatch(r) \/ SwapWorkers(r) \/ WaitWorkers(r)
    <3>1. pc'[r] \in {"swap", "wait", "read"}
      BY <2>6 DEF Reconnect, Arrive, SaveCreate, SavePatch, AfterPatch, SwapWorkers, WaitWorkers,
         Goto, Carry, TypeOK
    <3> QED
      BY <3>1, <2>3
  <2>7. CASE TakeWorker(r)
    <3>1. /\ workers' = [j \in DOMAIN workers \ {arg[r].conn} |-> workers[j]]
          /\ rows' = rows /\ failed' = failed /\ pc[r] = "remove"
          /\ pc'[r] = "await" /\ arg'[r] = arg[r]
      BY <2>7 DEF TakeWorker, database, Goto, Carry, TypeOK, Shaped
    <3>2. CASE arg[r].conn = i
      BY <3>1, <3>2 DEF Owes
    <3>3. CASE arg[r].conn # i
      <4>1. ~failed /\ Due(i) /\ ~Owes(r, i)
        BY <3>1 DEF Due, Live, Owes
      <4>2. i \in DOMAIN workers => i \in DOMAIN workers'
        BY <3>1, <3>3
      <4> QED
        BY <4>1, <4>2, <2>1, <2>2
    <3> QED
      BY <3>2, <3>3
  <2>8. CASE AwaitWorker(r)
    <3>1. /\ UNCHANGED <<rows, workers, failed>> /\ pc[r] = "await"
          /\ pc'[r] = "bar" /\ arg'[r] = arg[r]
      BY <2>8 DEF AwaitWorker, database, Goto, Carry, TypeOK, Shaped
    <3> QED
      BY <3>1, <2>4 DEF Owes
  <2>9. ASSUME NEW ok \in BOOLEAN, RemoveInstance(r, ok)
        PROVE  i \in DOMAIN workers' \/ \E q \in Request : Owes(q, i)'
    <3>1. /\ ok /\ ~failed /\ workers' = workers /\ pc[r] = "bar"
          /\ rows' = IF arg[r].conn \in DOMAIN rows THEN [rows EXCEPT ![arg[r].conn] = NoRow] ELSE rows
      BY <2>9 DEF RemoveInstance, manager
    <3>2. CASE arg[r].conn = i
      BY <3>1, <3>2 DEF Due, Live, NoRow
    <3>3. CASE arg[r].conn # i
      <4>1. Due(i) /\ ~Owes(r, i)
        BY <3>1, <3>3 DEF Due, Live, Owes
      <4> QED
        BY <4>1, <3>1, <2>1, <2>2
    <3> QED
      BY <3>2, <3>3
  <2>10. CASE ReadInstances(r)
    <3>1. /\ rows' = rows /\ pc'[r] = "start" /\ list'[r] = LiveRows
      BY <2>10 DEF ReadInstances, database, Goto, Carry, TypeOK, Shaped
    <3>2. i \in DOMAIN LiveRows /\ LiveRows[i] = rows[i] /\ Pollable(rows[i])
      BY <3>1 DEF LiveRows, Due, Live
    <3> QED
      BY <3>1, <3>2 DEF Owes
  <2>11. ASSUME NEW j \in Conn, StartCollector(r, j)
         PROVE  i \in DOMAIN workers' \/ \E q \in Request : Owes(q, i)'
    <3>1. /\ rows' = rows /\ failed' = failed /\ pc' = pc /\ pc[r] = "start" /\ list'[r] = Rest(r, j)
          /\ DOMAIN workers \subseteq DOMAIN workers'
          /\ Pollable(list[r][j]) => j \in DOMAIN workers'
      BY <2>11 DEF StartCollector, database, Shaped, With
    <3>2. ~failed /\ Due(i)
      BY <3>1 DEF Due, Live
    <3>3. CASE i = j /\ Pollable(list[r][j])
      BY <3>1, <3>3
    <3>4. CASE ~(i = j /\ Pollable(list[r][j]))
      <4>1. Owes(r, i) => Owes(r, i)'
        BY <3>1, <3>4 DEF Owes, Rest
      <4> QED
        BY <4>1, <3>1, <3>2, <2>1, <2>2
    <3> QED
      BY <3>3, <3>4
  <2>12. CASE ReloadEnds(r)
    <3>1. /\ UNCHANGED <<rows, workers, failed>> /\ pc[r] = "start" /\ list[r] = Nothing
      BY <2>12 DEF ReloadEnds, database, manager
    <3> QED
      BY <3>1, <2>4 DEF Owes, Nothing
  <2>13. CASE ReloadFails(r)
    BY <2>13 DEF ReloadFails
  <2> QED
    BY <1>2, <2>5, <2>6, <2>7, <2>8, <2>9, <2>10, <2>11, <2>12, <2>13 DEF Handle
<1> QED
  BY <1>1, <1>2 DEF Next, vars, ConfirmPurge, ConfirmationAges, database, manager, request

-----------------------------------------------------------------------------
(* One request after the other.                                            *)

(* What a step of the only request must establish.                         *)
Post(r) ==
  /\ Unique /\ (pc[r] # "done" => Checked(r))
  /\ ~failed => /\ pc[r] = "done" => Exactly(Polled, DOMAIN LiveRows \ Polled)
                /\ pc[r] # "done" => Halfway(r)

LEMMA OverlapStays ==
  ASSUME NEW r \in Request, Handle(r)
  PROVE  /\ overlap' = overlap
         /\ pc[r] \in Places \ {"new", "done"}
         /\ TypeOK => pc'[r] # "new"
<1>1. overlap' = overlap /\ pc[r] \in Places \ {"new", "done"}
  BY DEF Handle, SaveCreate, SavePatch, CheckSettings, SaveSettings, Refuse, FindInstance,
     TakeWorker, AwaitWorker, RemoveInstance, SwapWorkers, WaitWorkers, ReadInstances, ReloadEnds,
     ReloadFails, StartCollector, Places
<1>2. TypeOK => pc'[r] # "new"
  BY DEF TypeOK, Carry, Goto, AfterPatch, Handle, SaveCreate, SavePatch, CheckSettings, SaveSettings,
     Refuse, FindInstance, TakeWorker, AwaitWorker, RemoveInstance, SwapWorkers, WaitWorkers,
     ReadInstances, ReloadEnds, ReloadFails, StartCollector
<1> QED
  BY <1>1, <1>2

LEMMA PostEnough ==
  ASSUME TypeOK, Shaped, Alone, ~overlap, NEW r \in Request, Handle(r), Post(r)'
  PROVE  Alone'
<1>1. Active = {r}
  BY OverlapStays DEF Alone, Active
<1>2. \A q \in Request \ {r} : pc'[q] \in {"new", "done"}
  BY <1>1, OthersKept DEF Others, Active
<1>3. \A q \in Active' : q = r /\ pc'[r] # "done"
  BY <1>2 DEF Active
<1>4. Quiet' => pc'[r] = "done"
  BY OverlapStays DEF Quiet, Active
<1> QED
  BY <1>3, <1>4 DEF Alone, Post

(* What the other request finds when it arrives at a quiet process.        *)
LEMMA ArrivalAlone ==
  ASSUME TypeOK, Shaped, Alone, NEW r \in Request, Arrival(r)
  PROVE  Alone'
<1> SUFFICES ASSUME ~overlap' PROVE Alone'
  BY DEF Alone
<1>0. PICK place \in {"create", "patch", "find", "check", "swap"} : \E body : Arrive(r, place, body)
  BY DEF Arrival, StartCreate, StartPatch, StartDelete, StartSettings, Reconnect
<1>1. PICK body : Arrive(r, place, body)
  BY <1>0
<1>2. ~overlap /\ Active = {} /\ pc[r] = "new"
  BY <1>1 DEF Arrive
<1>3. UNCHANGED <<rows, settings, workers, stopped, running, failed>>
  BY <1>1 DEF Arrive, database, manager
<1>4. pc'[r] = place /\ \A q \in Request \ {r} : pc'[q] = pc[q]
  BY <1>1, CarryIs DEF Arrive, Places
<1>5. Active' = {r}
  BY <1>2, <1>4 DEF Active
<1>6. Unique /\ (~failed => Exactly(Polled, DOMAIN LiveRows \ Polled))
  BY <1>2 DEF Alone, Quiet
<1>7. Unique' /\ (~failed' => Exactly(Polled, DOMAIN LiveRows \ Polled)')
  BY <1>3, <1>6 DEF Unique, Exactly, Mapped, Polled, Live, LiveRows
<1>8. ~failed' => Halfway(r)'
  BY <1>4, <1>7 DEF Halfway, Exactly
<1>9. Checked(r)'
  <2>1. CASE pc'[r] \notin {"create", "patch"}
    BY <2>1 DEF Checked
  <2>2. ASSUME NEW i \in Conn, NEW a \in Address, NEW en \in BOOLEAN, StartCreate(r, i, a, en)
        PROVE  Checked(r)'
    <3>1. /\ pc'[r] = "create" /\ arg'[r].conn = i /\ arg'[r].row.addr = a
          /\ i \notin DOMAIN rows /\ ~Duplicate(a, i)
      BY <2>2, CarryIs DEF StartCreate, Arrive, Places
    <3> QED
      BY <3>1, <1>3 DEF Checked, Duplicate, Live
  <2>3. ASSUME NEW i \in Conn, NEW a \in Address, NEW en \in BOOLEAN, NEW keep \in BOOLEAN,
               StartPatch(r, i, a, en, keep)
        PROVE  Checked(r)'
    <3>1. /\ pc'[r] = "patch" /\ arg'[r].conn = i /\ arg'[r].addr = a
          /\ Live(i) /\ (a # rows[i].addr => ~Duplicate(a, i))
      BY <2>3, CarryIs DEF StartPatch, Arrive, Places
    <3> QED
      BY <3>1, <1>3 DEF Checked, Duplicate, Live
  <2>4. CASE \/ \E s \in Session, i \in Conn : StartDelete(r, s, i)
             \/ \E v \in Settings, yes \in BOOLEAN : StartSettings(r, v, yes)
             \/ Reconnect(r)
    BY <2>1, <2>4, CarryIs DEF StartDelete, StartSettings, Reconnect, Arrive, Places
  <2> QED
    BY <2>2, <2>3, <2>4 DEF Arrival
<1>10. ~Quiet'
  BY <1>5 DEF Quiet
<1> QED
  BY <1>5, <1>7, <1>8, <1>9, <1>10 DEF Alone

Pre(r) == Unique /\ Checked(r) /\ (~failed => Halfway(r))

(* A step that leaves the rows and the collectors as the rows ask for.     *)
LEMMA SettledStep ==
  ASSUME TypeOK, Shaped, NEW r \in Request, Pre(r),
         CheckSettings(r) \/ SaveSettings(r) \/ Refuse(r) \/ FindInstance(r)
  PROVE  Post(r)'
<1>1. /\ UNCHANGED <<rows, workers, stopped, running, failed>>
      /\ pc[r] \in {"create", "patch", "find", "check", "save"}
  BY DEF CheckSettings, SaveSettings, Refuse, FindInstance, database, manager
<1>2. pc'[r] \in {"save", "swap", "remove", "done"}
  BY DEF CheckSettings, SaveSettings, Refuse, FindInstance, Goto, Carry, TypeOK
<1>3. ~failed => Exactly(Polled, DOMAIN LiveRows \ Polled)
  BY <1>1 DEF Pre, Halfway
<1>4. ~failed' => Exactly(Polled, DOMAIN LiveRows \ Polled)'
  BY <1>1, <1>3 DEF Exactly, Mapped, Polled, Live, LiveRows
<1>5. Unique'
  BY <1>1 DEF Pre, Unique, Live
<1> QED
  BY <1>2, <1>4, <1>5 DEF Post, Checked, Halfway, Exactly

(* A row that is written is followed by a reload.                          *)
LEMMA WrittenStep ==
  ASSUME TypeOK, Shaped, NEW r \in Request, Pre(r), SaveCreate(r) \/ SavePatch(r)
  PROVE  Post(r)'
<1> DEFINE c == arg[r].conn
<1>1. pc'[r] = "swap" /\ UNCHANGED <<workers, stopped, running, failed>>
  BY DEF SaveCreate, SavePatch, AfterPatch, Goto, Carry, TypeOK, manager
<1>2. ~failed' => Halfway(r)'
  <2>1. ~failed => running = Mapped
    BY DEF Pre, Halfway, Exactly, SaveCreate, SavePatch
  <2> QED
    BY <2>1, <1>1 DEF Halfway, Mapped
<1>3. /\ \A j \in Conn : j # c /\ Live(j)' => Live(j) /\ rows'[j].addr = rows[j].addr
      /\ \A j \in Conn : j # c /\ Live(j) => rows[j].addr # rows'[c].addr
  <2>1. CASE SaveCreate(r)
    <3>1. DOMAIN rows' = DOMAIN rows \cup {c} /\ \A j : j # c /\ j \in DOMAIN rows => rows'[j] = rows[j]
      BY <2>1 DEF SaveCreate, With
    <3>2. rows'[c] = arg[r].row
      BY <2>1 DEF SaveCreate, With
    <3>3. ~Duplicate(rows'[c].addr, c)
      BY <2>1, <3>2 DEF SaveCreate, Pre, Checked
    <3> QED
      BY <3>1, <3>3 DEF Duplicate, Live
  <2>2. CASE SavePatch(r)
    <3>1. /\ Live(c) /\ (arg[r].addr # rows[c].addr => ~Duplicate(arg[r].addr, c))
      BY <2>2 DEF SavePatch, Pre, Checked
    <3>2. /\ DOMAIN rows' = DOMAIN rows /\ rows'[c].addr = arg[r].addr
          /\ \A j \in DOMAIN rows \ {c} : rows'[j] = rows[j]
      BY <2>2, <3>1 DEF SavePatch, Live
    <3>3. \A j : j # c /\ Live(j)' => Live(j) /\ rows'[j].addr = rows[j].addr
      BY <3>2 DEF Live
    <3>4. c \in Conn /\ DOMAIN rows \subseteq Conn
      BY <2>2 DEF SavePatch, Shaped, Body, TypeOK
    <3>5. arg[r].addr = rows[c].addr =>
            \A j \in Conn : j # c /\ Live(j) => rows[j].addr # rows'[c].addr
      BY <3>1, <3>2, <3>4 DEF Pre, Unique
    <3>6. arg[r].addr # rows[c].addr =>
            \A j \in Conn : j # c /\ Live(j) => rows[j].addr # rows'[c].addr
      BY <3>1, <3>2 DEF Duplicate, Live
    <3> QED
      BY <3>2, <3>3, <3>5, <3>6
  <2> QED
    BY <2>1, <2>2
<1>4. Unique'
  <2> SUFFICES ASSUME NEW i \in Conn, NEW j \in Conn, Live(i)', Live(j)', rows'[i].addr = rows'[j].addr
               PROVE  i = j
    BY DEF Unique
  <2> HIDE DEF c
  <2>2. CASE i # c /\ j # c
    BY <2>2, <1>3 DEF Pre, Unique
  <2>3. CASE i = c /\ j # c
    BY <2>3, <1>3
  <2>4. CASE i # c /\ j = c
    BY <2>4, <1>3
  <2> QED
    BY <2>2, <2>3, <2>4
<1> QED
  BY <1>1, <1>2, <1>4 DEF Post, Checked

LEMMA RemovalStep ==
  ASSUME TypeOK, Shaped, NEW r \in Request, Pre(r),
         TakeWorker(r) \/ AwaitWorker(r) \/ \E ok \in BOOLEAN : RemoveInstance(r, ok)
  PROVE  Post(r)'
<1> DEFINE i == arg[r].conn
<1>1. CASE TakeWorker(r)
  <2>1. /\ UNCHANGED <<rows, running, failed>> /\ pc[r] = "remove" /\ pc'[r] = "await"
        /\ arg'[r] = arg[r] /\ stopped' = stopped \ {i}
        /\ workers' = [j \in DOMAIN workers \ {i} |-> workers[j]]
        /\ ws'[r] = {w \in Worker : w.conn = i /\ i \in DOMAIN workers /\ w.by = workers[i]}
    BY <1>1 DEF TakeWorker, database, Goto, Carry, TypeOK, Shaped
  <2>2. Unique' /\ Polled' = Polled /\ DOMAIN LiveRows' = DOMAIN LiveRows
    BY <2>1 DEF Pre, Unique, Live, Polled, LiveRows
  <2>3. ASSUME ~failed PROVE Halfway(r)'
    <3>1. Exactly(Polled, DOMAIN LiveRows \ Polled)
      BY <2>1, <2>3 DEF Pre, Halfway
    <3>2. DOMAIN workers' = Polled \ {i} /\ stopped' = (DOMAIN LiveRows \ Polled) \ {i}
      BY <2>1, <3>1 DEF Exactly
    <3>3. \A j \in DOMAIN workers : [conn |-> j, by |-> workers[j]] \in Worker
      BY DEF TypeOK, Shaped, Worker
    <3>4. running \ ws'[r] = Mapped'
      <4>1. \A w \in ws'[r] : w = [conn |-> i, by |-> workers[i]]
        BY <2>1 DEF Worker
      <4>2. \A j \in DOMAIN workers \ {i} : [conn |-> j, by |-> workers[j]] \notin ws'[r]
        BY <2>1
      <4>3. i \in DOMAIN workers => [conn |-> i, by |-> workers[i]] \in ws'[r]
        BY <2>1, <3>3
      <4>4. running = {[conn |-> j, by |-> workers[j]] : j \in DOMAIN workers}
        BY <3>1 DEF Exactly, Mapped
      <4>5. Mapped' = {[conn |-> j, by |-> workers[j]] : j \in DOMAIN workers \ {i}}
        BY <2>1 DEF Mapped
      <4> HIDE DEF i
      <4> QED
        BY <4>1, <4>2, <4>3, <4>4, <4>5
    <3> QED
      BY <2>1, <2>2, <3>2, <3>4 DEF Halfway
  <2> QED
    BY <2>1, <2>2, <2>3 DEF Post, Checked
<1>2. CASE AwaitWorker(r)
  <2>1. /\ UNCHANGED <<rows, workers, stopped, failed>> /\ pc[r] = "await" /\ pc'[r] = "bar"
        /\ arg'[r] = arg[r] /\ running' = running \ ws[r]
    BY <1>2 DEF AwaitWorker, Ended, database, Goto, Carry, TypeOK, Shaped
  <2>2. /\ Unique' /\ Polled' = Polled /\ DOMAIN LiveRows' = DOMAIN LiveRows /\ Mapped' = Mapped
    BY <2>1 DEF Pre, Unique, Live, Polled, LiveRows, Mapped
  <2>3. ASSUME ~failed PROVE Halfway(r)'
    <3>1. /\ DOMAIN workers = Polled \ {i} /\ stopped = (DOMAIN LiveRows \ Polled) \ {i}
          /\ running \ ws[r] = Mapped
      BY <2>1, <2>3 DEF Pre, Halfway, Mapped
    <3> QED
      BY <2>1, <2>2, <3>1 DEF Halfway, Exactly
  <2> QED
    BY <2>1, <2>2, <2>3 DEF Post, Checked
<1>3. ASSUME NEW ok \in BOOLEAN, RemoveInstance(r, ok) PROVE Post(r)'
  <2>1. /\ UNCHANGED <<workers, stopped, running>> /\ pc[r] = "bar" /\ pc'[r] = "done"
        /\ ~failed' => ~failed /\ ok
        /\ rows' = IF ok /\ i \in DOMAIN rows THEN [rows EXCEPT ![i] = NoRow] ELSE rows
    BY <1>3 DEF RemoveInstance, manager, Goto, Carry, TypeOK
  <2>2. \A j : Live(j)' => Live(j) /\ rows'[j] = rows[j]
    BY <2>1 DEF Live, NoRow
  <2>3. Unique'
    BY <2>2 DEF Pre, Unique
  <2>4. ASSUME ~failed' PROVE Exactly(Polled, DOMAIN LiveRows \ Polled)'
    <3>1. Exactly(Polled \ {i}, (DOMAIN LiveRows \ Polled) \ {i})
      BY <2>1, <2>4 DEF Pre, Halfway
    <3>2. \A j : Live(j)' <=> Live(j) /\ j # i
      BY <2>1, <2>4 DEF Live, NoRow
    <3>3. Polled' = Polled \ {i}
      BY <2>2, <3>2 DEF Polled
    <3>4. DOMAIN LiveRows' = DOMAIN LiveRows \ {i}
      <4>1. DOMAIN LiveRows = {j \in DOMAIN rows : Live(j)}
        BY DEF LiveRows
      <4>2. DOMAIN LiveRows' = {j \in DOMAIN rows' : Live(j)'}
        BY DEF LiveRows
      <4>3. DOMAIN rows' = DOMAIN rows
        BY <2>1
      <4> QED
        BY <4>1, <4>2, <4>3, <3>2
    <3>5. Mapped' = Mapped
      BY <2>1 DEF Mapped
    <3> QED
      BY <2>1, <3>1, <3>3, <3>4, <3>5 DEF Exactly
  <2> QED
    BY <2>1, <2>3, <2>4 DEF Post
<1> QED
  BY <1>1, <1>2, <1>3

LEMMA ReloadStep ==
  ASSUME TypeOK, Shaped, NEW r \in Request, Pre(r),
         \/ SwapWorkers(r) \/ WaitWorkers(r) \/ ReadInstances(r)
         \/ ReloadEnds(r) \/ ReloadFails(r) \/ \E i \in Conn : StartCollector(r, i)
  PROVE  Post(r)'
<1>0. /\ rows' = rows /\ Unique' /\ Polled' = Polled /\ LiveRows' = LiveRows
  <2>1. rows' = rows
    BY DEF SwapWorkers, WaitWorkers, ReadInstances, ReloadEnds, ReloadFails, StartCollector, database
  <2> QED
    BY <2>1 DEF Pre, Unique, Live, Polled, LiveRows
<1>a. Polled \subseteq DOMAIN LiveRows
  BY DEF Polled, LiveRows, Live
<1>1. CASE SwapWorkers(r)
  <2>1. /\ failed' = failed /\ pc[r] = "swap" /\ pc'[r] = "wait" /\ workers' = NoWorkers
        /\ running' = running /\ ws'[r] = Mapped
    BY <1>1 DEF SwapWorkers, Goto, Carry, TypeOK, Shaped, Mapped
  <2>2. ~failed => Halfway(r)'
    BY <2>1 DEF Pre, Halfway, Mapped, NoWorkers, Nothing, NoRow
  <2> QED
    BY <1>0, <2>1, <2>2 DEF Post, Checked
<1>2. CASE WaitWorkers(r)
  <2>1. /\ failed' = failed /\ pc[r] = "wait" /\ pc'[r] = "read" /\ workers' = workers
        /\ running' = running \ ws[r]
    BY <1>2 DEF WaitWorkers, Ended, Goto, Carry, TypeOK
  <2>2. ~failed => Halfway(r)'
    BY <2>1 DEF Pre, Halfway, NoWorkers, Nothing, NoRow
  <2> QED
    BY <1>0, <2>1, <2>2 DEF Post, Checked
<1>3. CASE ReadInstances(r)
  <2>1. /\ failed' = failed /\ pc[r] = "read" /\ pc'[r] = "start" /\ workers' = workers
        /\ running' = running /\ stopped' = {} /\ list'[r] = LiveRows
    BY <1>3 DEF ReadInstances, Goto, Carry, TypeOK, Shaped
  <2>2. ASSUME ~failed PROVE Halfway(r)'
    <3>1. DOMAIN workers = {} /\ running = {}
      BY <2>1, <2>2 DEF Pre, Halfway, NoWorkers, Nothing
    <3>2. \A i \in DOMAIN LiveRows : LiveRows[i] = rows[i]
      BY DEF LiveRows
    <3>3. Mapped' = {}
      BY <2>1, <3>1 DEF Mapped
    <3> QED
      BY <2>1, <3>1, <3>2, <3>3, <1>0, <1>a DEF Halfway, Exactly
  <2> QED
    BY <1>0, <2>1, <2>2 DEF Post, Checked
<1>4. CASE ReloadEnds(r)
  <2>1. /\ UNCHANGED <<failed, workers, stopped, running>> /\ pc[r] = "start" /\ pc'[r] = "done"
        /\ DOMAIN list[r] = {}
    BY <1>4 DEF ReloadEnds, Goto, Carry, TypeOK, Nothing, manager
  <2>2. ~failed => Exactly(Polled, DOMAIN LiveRows \ Polled)
    BY <2>1 DEF Pre, Halfway, Exactly
  <2>3. ~failed => Exactly(Polled, DOMAIN LiveRows \ Polled)'
    BY <1>0, <2>1, <2>2 DEF Exactly, Mapped
  <2> QED
    BY <1>0, <2>1, <2>3 DEF Post
<1>5. CASE ReloadFails(r)
  <2>1. failed' /\ pc'[r] = "done"
    BY <1>5 DEF ReloadFails, Goto, Carry, TypeOK
  <2> QED
    BY <1>0, <2>1 DEF Post
<1>6. ASSUME NEW i \in Conn, StartCollector(r, i) PROVE Post(r)'
  <2> DEFINE due == DOMAIN list[r]
  <2>1. /\ failed' = failed /\ pc' = pc /\ pc[r] = "start" /\ i \in due /\ list'[r] = Rest(r, i)
    BY <1>6 DEF StartCollector, Shaped
  <2>2. /\ DOMAIN list'[r] = due \ {i}
        /\ \A j \in due \ {i} : list'[r][j] = list[r][j]
    BY <2>1 DEF Rest
  <2>3. ASSUME ~failed PROVE Halfway(r)'
    <3>1. /\ due \subseteq DOMAIN LiveRows /\ (\A j \in due : list[r][j] = rows[j])
          /\ Exactly(Polled \ due, (DOMAIN LiveRows \ Polled) \ due)
      BY <2>1, <2>3 DEF Pre, Halfway
    <3>2. i \in DOMAIN LiveRows /\ (Pollable(list[r][i]) <=> i \in Polled)
      BY <2>1, <3>1, <1>6 DEF Polled, LiveRows
    <3> DEFINE Settled == Exactly(Polled \ (due \ {i}), (DOMAIN LiveRows \ Polled) \ (due \ {i}))'
    <3> HIDE DEF due
    <3>3. CASE Pollable(list[r][i])
      <4>1. /\ workers' = With(workers, i, r) /\ running' = running \cup {[conn |-> i, by |-> r]}
            /\ stopped' = stopped
        BY <3>3, <1>6 DEF StartCollector
      <4>2. i \notin DOMAIN workers /\ DOMAIN workers = Polled \ due /\ running = Mapped
        BY <2>1, <3>1 DEF Exactly, due
      <4>3. DOMAIN workers' = DOMAIN workers \cup {i}
        BY <4>1 DEF With
      <4>4. Mapped' = Mapped \cup {[conn |-> i, by |-> r]}
        BY <4>1, <4>2, <4>3 DEF Mapped, With
      <4>5. stopped' = (DOMAIN LiveRows \ Polled) \ (due \ {i})
        BY <4>1, <3>1, <3>2, <3>3 DEF Exactly
      <4>6. DOMAIN workers' = Polled \ (due \ {i})
        BY <4>2, <4>3, <3>2, <3>3
      <4> QED
        BY <4>1, <4>2, <4>4, <4>5, <4>6, <1>0, <2>1, <2>2, <3>1, <3>2 DEF Halfway, Exactly, due
    <3>4. CASE ~Pollable(list[r][i])
      <4>1. workers' = workers /\ running' = running /\ stopped' = stopped \cup {i}
        BY <3>4, <1>6 DEF StartCollector
      <4>2. Mapped' = Mapped /\ running = Mapped
        BY <4>1, <3>1 DEF Mapped, Exactly
      <4>3. stopped' = (DOMAIN LiveRows \ Polled) \ (due \ {i})
        BY <4>1, <3>1, <3>2, <3>4 DEF Exactly
      <4>4. DOMAIN workers' = Polled \ (due \ {i})
        BY <4>1, <3>1, <3>2, <3>4 DEF Exactly
      <4> QED
        BY <4>1, <4>2, <4>3, <4>4, <1>0, <2>1, <2>2, <3>1, <3>2 DEF Halfway, Exactly, due
    <3> QED
      BY <3>3, <3>4
  <2> QED
    BY <1>0, <2>1, <2>3 DEF Post, Checked
<1> QED
  BY <1>1, <1>2, <1>3, <1>4, <1>5, <1>6

LEMMA AloneKept == TypeOK /\ Shaped /\ Alone /\ [Next]_vars => Alone'
<1> SUFFICES ASSUME TypeOK, Shaped, Alone, [Next]_vars PROVE Alone'
  OBVIOUS
<1>1. CASE UNCHANGED <<database, manager, request, overlap, failed>>
  <2>1. UNCHANGED <<rows, workers, stopped, running, pc, arg, ws, list, overlap, failed>>
    BY <1>1 DEF database, manager, request
  <2>2. /\ Active' = Active /\ Unique' = Unique /\ Polled' = Polled /\ LiveRows' = LiveRows
        /\ Mapped' = Mapped
    BY <2>1 DEF Active, Unique, Live, Polled, LiveRows, Mapped
  <2>3. \A r \in Request : Checked(r) => Checked(r)'
    BY <2>1 DEF Checked, Duplicate, Live
  <2>4. \A r \in Request : Halfway(r) => Halfway(r)'
    BY <2>1, <2>2 DEF Halfway, Exactly
  <2>5. Quiet' => Quiet
    BY <2>2 DEF Quiet
  <2>6. Exactly(Polled, DOMAIN LiveRows \ Polled) => Exactly(Polled, DOMAIN LiveRows \ Polled)'
    BY <2>1, <2>2 DEF Exactly
  <2>7. Active \subseteq Request
    BY DEF Active
  <2> QED
    BY <2>1, <2>2, <2>3, <2>4, <2>5, <2>6, <2>7 DEF Alone
<1>2. ASSUME NEW r \in Request, Handle(r) PROVE Alone'
  <2> SUFFICES ASSUME ~overlap' PROVE Alone'
    BY DEF Alone
  <2>1. ~overlap /\ r \in Active
    BY <1>2, OverlapStays DEF Active
  <2>2. Pre(r)
    BY <2>1 DEF Alone, Pre
  <2>3. Post(r)'
    BY <1>2, <2>2, SettledStep, WrittenStep, RemovalStep, ReloadStep DEF Handle
  <2> QED
    BY <1>2, <2>1, <2>3, PostEnough
<1> QED
  BY <1>1, <1>2, ArrivalAlone DEF Next, vars, ConfirmPurge, ConfirmationAges

-----------------------------------------------------------------------------
LEMMA Initially == Init => IInv
<1> SUFFICES ASSUME Init PROVE IInv
  OBVIOUS
<1> PICK I \in SUBSET Conn, en \in BOOLEAN, f \in [Conn -> Address] :
       /\ \A i, j \in I : f[i] = f[j] => i = j
       /\ rows = [i \in I |-> [addr |-> f[i], enabled |-> en, secret |-> TRUE]]
  BY DEF Init
<1>1. /\ DOMAIN rows = I
      /\ \A i \in I : rows[i] \in Row /\ rows[i].addr = f[i] /\ f[i] # NoAddress
  BY ConnectionsAssumption DEF Row
<1>2. \A i : Live(i) <=> i \in I
  BY <1>1 DEF Live
<1>3. DOMAIN workers = Polled /\ DOMAIN LiveRows = I /\ Polled \subseteq I
  BY <1>1, <1>2 DEF Init, Polled, LiveRows
<1>4. \A i \in DOMAIN workers : workers[i] = "main"
  BY DEF Init
<1>5. running = Mapped
  <2>1. Mapped = {[conn |-> i, by |-> "main"] : i \in DOMAIN workers}
    BY <1>4 DEF Mapped
  <2>2. running = [conn : DOMAIN workers, by : {"main"}]
    BY DEF Init
  <2>3. \A w \in running : w.conn \in DOMAIN workers /\ w = [conn |-> w.conn, by |-> "main"]
    BY <2>2
  <2>4. running \subseteq Mapped
    BY <2>1, <2>3
  <2>5. Mapped \subseteq running
    BY <2>1, <2>2
  <2> QED
    BY <2>4, <2>5
<1>6. Exactly(Polled, DOMAIN LiveRows \ Polled)
  BY <1>1, <1>3, <1>5 DEF Exactly, Init
<1>7. TypeOK
  <2>1. running \subseteq Worker
    BY <1>1, <1>3 DEF Init, Worker
  <2>2. confirms \in 0..MaxConfirm
    BY ConnectionsAssumption DEF Init
  <2> QED
    BY <1>1, <1>3, <2>1, <2>2 DEF Init, TypeOK, Places, Nothing
<1>8. Shaped /\ Counted /\ Compared
  BY <1>4 DEF Init, Shaped, Body, Counted, Compared
<1>9. Owned
  <2>1. \A w \in Worker : Known(w) => w \in running /\ w \in Started
    <3> SUFFICES ASSUME NEW w \in Worker, Known(w) PROVE w \in running /\ w \in Started
      OBVIOUS
    <3>1. w.by = "main" /\ w.conn \in DOMAIN workers /\ w = [conn |-> w.conn, by |-> "main"]
      BY <1>4 DEF Known, Worker
    <3> QED
      BY <3>1, ConnectionsAssumption DEF Init, Started
  <2> QED
    BY <2>1 DEF Owned, Init
<1>10. Covered
  BY <1>3 DEF Covered, Polled
<1>11. Active = {} /\ Unique
  BY <1>1, <1>2 DEF Active, Init, Unique
<1>12. Alone
  BY <1>6, <1>11 DEF Alone
<1> QED
  BY <1>7, <1>8, <1>9, <1>10, <1>12 DEF IInv

LEMMA Inductive == IInv /\ [Next]_vars => IInv'
  BY TypesKept, CountedKept, ComparedKept, OwnedKept, CoveredKept, AloneKept DEF IInv

THEOREM Invariance == Spec => []IInv
  BY Initially, Inductive, PTL DEF Spec

(* No request leaves the types the handlers are written for.               *)
THEOREM TypeCorrect == Spec => []TypeOK
  BY Invariance, PTL DEF IInv

(* However many requests overlap, what the manager knows is running.       *)
THEOREM KnownRun == Spec => []OwnedRuns
<1>1. IInv => OwnedRuns
  <2> SUFFICES ASSUME IInv, NEW i \in DOMAIN workers PROVE [conn |-> i, by |-> workers[i]] \in running
    BY DEF OwnedRuns
  <2>1. [conn |-> i, by |-> workers[i]] \in Worker
    BY DEF IInv, TypeOK, Shaped, Worker
  <2> QED
    BY <2>1 DEF IInv, Owned, Known
<1> QED
  BY <1>1, Invariance, PTL

(* And once they are over every enabled connection has its collector.      *)
THEOREM AllPolled == Spec => []NoneMissed
<1>1. IInv => NoneMissed
  <2> SUFFICES ASSUME IInv, Quiet, ~failed, NEW i \in Conn, Live(i), Pollable(rows[i])
               PROVE  i \in DOMAIN workers
    BY DEF NoneMissed
  <2>1. \A r \in Request : ~Owes(r, i)
    BY DEF Quiet, Active, Owes
  <2> QED
    BY <2>1 DEF IInv, Covered
<1> QED
  BY <1>1, Invariance, PTL

(* No two removals use one confirmation.                                   *)
THEOREM ConfirmedOnce == Spec => []PurgeConfirmed
<1>1. IInv => PurgeConfirmed
  <2> SUFFICES ASSUME IInv, NEW s \in Session, NEW i \in Conn PROVE purges[<<s, i>>] >= 0
    BY DEF PurgeConfirmed
  <2>1. purges \in [Session \X Conn -> Nat] /\ <<s, i>> \in Session \X Conn
    BY DEF IInv, Counted
  <2>2. purges[<<s, i>>] \in Nat
    BY <2>1
  <2> QED
    BY <2>2
<1> QED
  BY <1>1, Invariance, PTL

(* Requests that do not overlap leave what the rows ask for.               *)
THEOREM OneByOne == Spec => []SequentialExact
<1>1. IInv => SequentialExact
  <2> SUFFICES ASSUME IInv, ~overlap PROVE SequentialExact
    BY DEF SequentialExact
  <2>1. Unique /\ (Quiet /\ ~failed => Exactly(Polled, DOMAIN LiveRows \ Polled))
    BY DEF IInv, Alone
  <2> QED
    BY <2>1 DEF SequentialExact, Unique, Exactly, Mapped, Polled
<1> QED
  BY <1>1, Invariance, PTL

(* A save shortens the retention only as its request was told to, or below *)
(* a value another request set after the two were compared.                *)
THEOREM ShortenedAsTold == Spec => ShortenedOnlyConfirmed
<1> DEFINE Told == settings'.retention < settings.retention =>
                     \E r \in Request : /\ pc[r] = "save" /\ arg[r].v = settings'
                                        /\ arg[r].shorten \/ settings.retention > arg[r].seen
<1>1. IInv /\ [Next]_vars => [Told]_vars
  <2> SUFFICES ASSUME IInv, Next, settings'.retention < settings.retention PROVE Told
    OBVIOUS
  <2>1. settings.retention \in 1..2
    BY DEF IInv, TypeOK, Settings
  <2>2. settings' # settings
    BY <2>1
  <2>3. PICK r \in Request : SaveSettings(r)
    <3>1. ASSUME NEW r \in Request, Arrival(r) PROVE FALSE
      BY <2>2, <3>1 DEF Arrival, StartCreate, StartPatch, StartDelete, StartSettings, Reconnect,
         Arrive, database
    <3>2. ASSUME NEW r \in Request, Handle(r) PROVE SaveSettings(r)
      BY <2>2, <3>2 DEF Handle, SaveCreate, SavePatch, CheckSettings, Refuse, FindInstance,
         TakeWorker, AwaitWorker, RemoveInstance, SwapWorkers, WaitWorkers, ReadInstances,
         ReloadEnds, ReloadFails, StartCollector, database
    <3> QED
      BY <2>2, <3>1, <3>2 DEF Next, ConfirmPurge, ConfirmationAges, database
  <2>4. pc[r] = "save" /\ settings' = arg[r].v
    BY <2>3 DEF SaveSettings
  <2>5. /\ arg[r].seen \in 1..2 /\ arg[r].v \in Settings
        /\ arg[r].v.retention < arg[r].seen => arg[r].shorten
    BY <2>4 DEF IInv, Compared, Shaped, Body
  <2>6. arg[r].shorten \/ settings.retention > arg[r].seen
    BY <2>1, <2>4, <2>5 DEF Settings
  <2> QED
    BY <2>4, <2>6
<1> QED
  BY <1>1, Invariance, PTL DEF Spec, ShortenedOnlyConfirmed
=============================================================================

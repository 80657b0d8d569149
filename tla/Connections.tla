---------------------------- MODULE Connections ----------------------------
(***************************************************************************)
(* The monitored connections and the settings under concurrent HTTP        *)
(* requests (api/api.go), the collectors Manager keeps for them            *)
(* (collector/manager.go) and the rows they are read from                  *)
(* (store/store.go, store/instance.go).  A request is a process of its     *)
(* own: the handlers share no lock, only single maps and statements are    *)
(* protected.  What a collector does, and what Remove does to its queue    *)
(* and its series, is Pipeline's.                                          *)
(***************************************************************************)
EXTENDS Naturals

CONSTANTS Request,     \* the requests that are made; a bound on their number
          Conn,        \* connection ids, as uuid.NewString would make them
          Address, NoAddress,  \* normalized addresses; base_url=''
          Session,     \* login sessions, by their CSRF token
          MaxConfirm   \* bound: purge confirmations

ASSUME ConnectionsAssumption ==
  /\ NoAddress \notin Address /\ "main" \notin Request /\ MaxConfirm \in Nat

Row    == [addr : Address \cup {NoAddress}, enabled : BOOLEAN, secret : BOOLEAN]
Worker == [conn : Conn, by : Request \cup {"main"}]

(* Retention and interval stand for the settings that need a confirmation  *)
(* when they are lowered, and for those that need new collectors.          *)
Settings == [retention : 1..2, interval : 1..2]

VARIABLES
  rows,      \* instance table: a function from ids to rows
  settings,  \* Store.settings
  workers,   \* Manager.workers: for a connection, who started its collector
  stopped,   \* Manager.stopped: connections shown without a collector
  running,   \* the collectors whose goroutine has not ended
  confirmed, \* App.confirmed: purges a session has confirmed lately
  pc, arg,   \* per request: place in its handler; its body and what it read
  ws, list   \* per request, in Reload: workers to wait for, rows to start

(* For the properties.                                                     *)
VARIABLES
  confirms, purges, \* confirmations left; purges confirmed and not used
  overlap,   \* two requests have been in progress together
  failed     \* a Reload or a Remove has reported an error

database == <<rows, settings>>
manager  == <<workers, stopped, running>>
request  == <<pc, arg, ws, list>>
purge    == <<confirmed, confirms, purges>>
vars     == <<database, manager, request, purge, overlap, failed>>

NoRow == [addr |-> NoAddress, enabled |-> FALSE, secret |-> FALSE]
Nothing == [i \in {} |-> NoRow]
NoBody == [conn |-> "none"]

(* f with one value set, or added.                                         *)
With(f, x, v) == [y \in DOMAIN f \cup {x} |-> IF y = x THEN v ELSE f[y]]

Live(i)     == i \in DOMAIN rows /\ rows[i].addr # NoAddress

(* Mutant: removed connections are listed too.                             *)
AllRows     == rows

LiveRows    == [i \in {j \in DOMAIN rows : Live(j)} |-> rows[i]]
Pollable(row) == row.enabled /\ row.secret

Places == {"new", "create", "patch", "find", "remove", "await", "bar", "check", "save",
           "swap", "wait", "read", "start", "done"}

TypeOK ==
  /\ DOMAIN rows \subseteq Conn /\ (\A i \in DOMAIN rows : rows[i] \in Row)
  /\ settings \in Settings
  /\ DOMAIN workers \subseteq Conn /\ stopped \subseteq Conn /\ running \subseteq Worker
  /\ confirmed \subseteq Session \X Conn
  /\ pc \in [Request -> Places]
  /\ \A r \in Request : /\ ws[r] \subseteq Worker
                        /\ pc[r] \notin {"await", "wait"} => ws[r] = {}
                        /\ pc[r] # "start" => list[r] = Nothing
                        /\ \A i \in DOMAIN list[r] : list[r][i] \in Row /\ list[r][i].addr # NoAddress
  /\ confirms \in 0..MaxConfirm /\ overlap \in BOOLEAN /\ failed \in BOOLEAN

(* The process has started (main's Reload) with some connections.          *)
Init ==
  /\ \E I \in SUBSET Conn, en \in BOOLEAN, f \in [Conn -> Address] :
       /\ \A i, j \in I : f[i] = f[j] => i = j
       /\ rows = [i \in I |-> [addr |-> f[i], enabled |-> en, secret |-> TRUE]]
  /\ settings \in Settings
  /\ workers = [i \in {j \in DOMAIN rows : Pollable(rows[j])} |-> "main"]
  /\ stopped = DOMAIN rows \ DOMAIN workers
  /\ running = [conn : DOMAIN workers, by : {"main"}]
  /\ confirmed = {} /\ confirms = MaxConfirm /\ purges = [p \in Session \X Conn |-> 0]
  /\ pc = [r \in Request |-> "new"] /\ arg = [r \in Request |-> NoBody]
  /\ ws = [r \in Request |-> {}] /\ list = [r \in Request |-> Nothing]
  /\ overlap = FALSE /\ failed = FALSE

(* A body is forgotten where the handler does not use it any more.          *)
Carry(r, place, body) ==
  /\ pc' = [pc EXCEPT ![r] = place]
  /\ arg' = [arg EXCEPT ![r] = IF place \in {"swap", "done"} THEN NoBody ELSE body]

Goto(r, place) == Carry(r, place, arg[r])

Active == {r \in Request : pc[r] \notin {"new", "done"}}

Arrive(r, place, body) ==
  /\ pc[r] = "new" /\ Carry(r, place, body)
  /\ overlap' = (overlap \/ Active # {})
  /\ UNCHANGED <<database, manager, ws, list, failed>>

(* A handler that gives up: a refused body, a failed test of the           *)
(* credentials, a statement that fails before anything was changed.        *)
Refuse(r) ==
  /\ pc[r] \in {"create", "patch", "find", "check", "save"} /\ Goto(r, "done")
  /\ UNCHANGED <<database, manager, ws, list, purge, overlap, failed>>

-----------------------------------------------------------------------------
(* createInstance and patchInstance.                                       *)

(* Mutant: a removed connection keeps its address.                         *)
TakenByOther(a, except) == \E i \in DOMAIN rows : Live(i) /\ rows[i].addr = a /\ rows[i].enabled

Duplicate(a, except) == \E i \in DOMAIN rows \ {except} : Live(i) /\ rows[i].addr = a

StartCreate(r, i, a, en) ==
  /\ i \notin DOMAIN rows /\ \A q \in Active : pc[q] = "create" => arg[q].conn # i
  /\ ~Duplicate(a, i)
  /\ Arrive(r, "create", [conn |-> i, row |-> [addr |-> a, enabled |-> en, secret |-> TRUE]])
  /\ UNCHANGED purge

SaveCreate(r) ==
  /\ pc[r] = "create" /\ Goto(r, "swap")
  /\ rows' = With(rows, arg[r].conn, arg[r].row)
  /\ UNCHANGED <<settings, manager, ws, list, purge, overlap, failed>>

(* The row is read; the address and the enabled flag may change, and the   *)
(* password may be given anew.                                             *)
StartPatch(r, i, a, en, keep) ==
  /\ Live(i) /\ (a # rows[i].addr => ~Duplicate(a, i))
  /\ Arrive(r, "patch", [conn |-> i, addr |-> a, enabled |-> en, keep |-> keep])
  /\ UNCHANGED purge

(* Mutant: only a new address needs a new collector.                       *)
IfAddressChanged(i, b) == IF Live(i) /\ rows[i].addr = b.addr THEN "done" ELSE "swap"

AfterPatch(i, b) == "swap"

(* UPDATE instance WHERE id=?: whatever the row has become.                *)
SavePatch(r) ==
  LET b == arg[r]  i == b.conn IN
  /\ pc[r] = "patch" /\ Goto(r, AfterPatch(i, b))
  /\ rows' = IF i \notin DOMAIN rows THEN rows
             ELSE [rows EXCEPT ![i] = [addr |-> b.addr, enabled |-> b.enabled,
                                       secret |-> @.secret \/ ~b.keep]]
  /\ UNCHANGED <<settings, manager, ws, list, purge, overlap, failed>>

Reconnect(r) == Arrive(r, "swap", NoBody) /\ UNCHANGED purge

-----------------------------------------------------------------------------
(* DELETE of a connection.                                                 *)

ConfirmPurge(s, i) ==
  /\ confirms > 0 /\ confirms' = confirms - 1
  /\ confirmed' = confirmed \cup {<<s, i>>}
  /\ purges' = [purges EXCEPT ![<<s, i>>] = @ + 1]
  /\ UNCHANGED <<database, manager, request, overlap, failed>>

(* Five minutes later the confirmation is worth nothing.                   *)
ConfirmationAges(s, i) ==
  /\ <<s, i>> \in confirmed /\ confirmed' = confirmed \ {<<s, i>>}
  /\ purges' = [purges EXCEPT ![<<s, i>>] = 0]
  /\ UNCHANGED <<database, manager, request, confirms, overlap, failed>>

(* Mutant: the confirmation is left for the next request.                  *)
ConfirmedStill(s, i) == confirmed

Consumed(s, i) == confirmed \ {<<s, i>>}

StartDelete(r, s, i) ==
  /\ <<s, i>> \in confirmed /\ confirmed' = Consumed(s, i)
  /\ purges' = [purges EXCEPT ![<<s, i>>] = @ - 1]
  /\ Arrive(r, "find", [conn |-> i])
  /\ UNCHANGED confirms

FindInstance(r) ==
  /\ pc[r] = "find" /\ Goto(r, IF Live(arg[r].conn) THEN "remove" ELSE "done")
  /\ UNCHANGED <<database, manager, ws, list, purge, overlap, failed>>

(* Manager.Remove: the collector is taken out and stopped.                 *)
TakeWorker(r) ==
  LET i == arg[r].conn IN
  /\ pc[r] = "remove" /\ Goto(r, "await")
  /\ ws' = [ws EXCEPT ![r] = {w \in Worker : w.conn = i /\ i \in DOMAIN workers /\ w.by = workers[i]}]
  /\ workers' = [j \in DOMAIN workers \ {i} |-> workers[j]] /\ stopped' = stopped \ {i}
  /\ UNCHANGED <<database, running, list, purge, overlap, failed>>

Ended(r) == running \ ws[r]

AwaitWorker(r) ==
  /\ pc[r] = "await" /\ Goto(r, "bar")
  /\ running' = Ended(r) /\ ws' = [ws EXCEPT ![r] = {}]
  /\ UNCHANGED <<database, workers, stopped, list, purge, overlap, failed>>

(* RemoveInstance, which may fail with some barriers set and the row kept. *)
RemoveInstance(r, ok) ==
  /\ pc[r] = "bar" /\ Goto(r, "done")
  /\ rows' = IF ok /\ arg[r].conn \in DOMAIN rows THEN [rows EXCEPT ![arg[r].conn] = NoRow] ELSE rows
  /\ failed' = (failed \/ ~ok)
  /\ UNCHANGED <<settings, manager, ws, list, purge, overlap>>

-----------------------------------------------------------------------------
(* patchSettings and SaveSettings.                                         *)

StartSettings(r, v, yes) ==
  /\ v # settings
  /\ v.retention < settings.retention => yes
  /\ Arrive(r, "check", [v |-> v, old |-> settings, shorten |-> v.retention < settings.retention])
  /\ UNCHANGED purge

(* Mutant: the handler's own check is enough.                              *)
NeedsNoConfirmation(r) == TRUE

RetentionConfirmed(r) == arg[r].v.retention < settings.retention => arg[r].shorten

CheckSettings(r) ==
  /\ pc[r] = "check"
  /\ Carry(r, IF RetentionConfirmed(r) THEN "save" ELSE "done",
           [v |-> arg[r].v, old |-> arg[r].old, shorten |-> arg[r].shorten, seen |-> settings.retention])
  /\ UNCHANGED <<database, manager, ws, list, purge, overlap, failed>>

SaveSettings(r) ==
  /\ pc[r] = "save" /\ settings' = arg[r].v
  /\ Goto(r, IF arg[r].v.interval # arg[r].old.interval THEN "swap" ELSE "done")
  /\ UNCHANGED <<rows, manager, ws, list, purge, overlap, failed>>

-----------------------------------------------------------------------------
(* Reload: StopCollectors takes all workers and waits for them, then one   *)
(* collector is started for every pollable row.                            *)

(* Mutant: the workers stay in the map until they have ended.              *)
KeptWorkers == workers

NoWorkers == Nothing

SwapWorkers(r) ==
  /\ pc[r] = "swap" /\ Goto(r, "wait")
  /\ ws' = [ws EXCEPT ![r] = {[conn |-> i, by |-> workers[i]] : i \in DOMAIN workers}]
  /\ workers' = NoWorkers
  /\ UNCHANGED <<database, stopped, running, list, purge, overlap, failed>>

WaitWorkers(r) ==
  /\ pc[r] = "wait" /\ Goto(r, "read")
  /\ running' = Ended(r) /\ ws' = [ws EXCEPT ![r] = {}]
  /\ UNCHANGED <<database, workers, stopped, list, purge, overlap, failed>>

ReadInstances(r) ==
  /\ pc[r] = "read" /\ Goto(r, "start")
  /\ list' = [list EXCEPT ![r] = LiveRows] /\ stopped' = {}
  /\ UNCHANGED <<database, workers, running, ws, purge, overlap, failed>>

Rest(r, i) == [j \in DOMAIN list[r] \ {i} |-> list[r][j]]

StartCollector(r, i) ==
  /\ pc[r] = "start" /\ i \in DOMAIN list[r] /\ list' = [list EXCEPT ![r] = Rest(r, i)]
  /\ IF Pollable(list[r][i])
     THEN /\ workers' = With(workers, i, r)
          /\ running' = running \cup {[conn |-> i, by |-> r]} /\ UNCHANGED stopped
     ELSE stopped' = stopped \cup {i} /\ UNCHANGED <<workers, running>>
  /\ UNCHANGED <<database, pc, arg, ws, purge, overlap, failed>>

ReloadEnds(r) ==
  /\ pc[r] = "start" /\ list[r] = Nothing /\ Goto(r, "done")
  /\ UNCHANGED <<database, manager, ws, list, purge, overlap, failed>>

(* The rows cannot be read, or a collector not be made: the rest is not    *)
(* started, and the handlers ignore the error.                             *)
ReloadFails(r) ==
  /\ \/ pc[r] = "read"
     \/ pc[r] = "start" /\ \E i \in DOMAIN list[r] : Pollable(list[r][i])
  /\ Goto(r, "done") /\ failed' = TRUE /\ list' = [list EXCEPT ![r] = Nothing]
  /\ UNCHANGED <<database, manager, ws, purge, overlap>>

-----------------------------------------------------------------------------
Arrival(r) ==
  \/ \E i \in Conn, a \in Address, en \in BOOLEAN :
        StartCreate(r, i, a, en) \/ \E keep \in BOOLEAN : StartPatch(r, i, a, en, keep)
  \/ \E s \in Session, i \in Conn : StartDelete(r, s, i)
  \/ \E v \in Settings, yes \in BOOLEAN : StartSettings(r, v, yes)
  \/ Reconnect(r)

Handle(r) ==
  \/ SaveCreate(r) \/ SavePatch(r) \/ CheckSettings(r) \/ SaveSettings(r) \/ Refuse(r)
  \/ FindInstance(r) \/ TakeWorker(r) \/ AwaitWorker(r)
  \/ \E ok \in BOOLEAN : RemoveInstance(r, ok)
  \/ SwapWorkers(r) \/ WaitWorkers(r) \/ ReadInstances(r) \/ ReloadEnds(r) \/ ReloadFails(r)
  \/ \E i \in Conn : StartCollector(r, i)

Next == \/ \E r \in Request : Arrival(r) \/ Handle(r)
        \/ \E s \in Session, i \in Conn : ConfirmPurge(s, i) \/ ConfirmationAges(s, i)

Spec == Init /\ [][Next]_vars

-----------------------------------------------------------------------------
Quiet == Active = {}

(* However requests overlap, a collector the manager knows is running: the *)
(* status never shows one that was stopped as being online.                *)
OwnedRuns == \A i \in DOMAIN workers : [conn |-> i, by |-> workers[i]] \in running

(* However requests overlap, once they are over no enabled connection is   *)
(* left without a collector, unless one of them reported an error.         *)
NoneMissed ==
  Quiet /\ ~failed => \A i \in Conn : Live(i) /\ Pollable(rows[i]) => i \in DOMAIN workers

(* A removal uses up a confirmation that its own session gave for this     *)
(* connection and that has not aged, and no two removals share one.        *)
PurgeConfirmed == \A s \in Session, i \in Conn : purges[<<s, i>>] >= 0

(* Requests made one after the other never give two connections one        *)
(* address, whatever was patched, removed or created in between, and leave *)
(* exactly the collectors and the stopped entries that the rows ask for.   *)
SequentialExact ==
  ~overlap =>
    /\ \A i, j \in Conn : Live(i) /\ Live(j) /\ rows[i].addr = rows[j].addr => i = j
    /\ Quiet /\ ~failed =>
         /\ DOMAIN workers = {i \in Conn : Live(i) /\ Pollable(rows[i])}
         /\ running = {[conn |-> i, by |-> workers[i]] : i \in DOMAIN workers}
         /\ stopped = DOMAIN LiveRows \ DOMAIN workers

(* A save that its request did not confirm shortens the retention only if  *)
(* another request raised it after SaveSettings had compared the two.      *)
ShortenedOnlyConfirmed ==
  [][settings'.retention < settings.retention =>
       \E r \in Request : /\ pc[r] = "save" /\ arg[r].v = settings'
                          /\ arg[r].shorten \/ settings.retention > arg[r].seen]_vars

(* "Manager owns one Collector per enabled connection" (manager.go:27): a  *)
(* collector that nobody is stopping is the manager's.                     *)
OneCollector ==
  \A w \in running \ UNION {ws[r] : r \in Request} :
     w.conn \in DOMAIN workers /\ workers[w.conn] = w.by
=============================================================================

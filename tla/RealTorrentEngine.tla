------------------------- MODULE RealTorrentEngine -------------------------
(***************************************************************************)
(* The Dart engine of Getzy, real_torrent_engine.dart, above the Android   *)
(* side of NativeSession and the SQLite table behind TorrentRepository.    *)
(*                                                                         *)
(* The Dart isolate runs one piece of synchronous code at a time; an       *)
(* action below is such a piece, from an event or a resumed await to the   *)
(* next await.  What it awaits is a call on the looper or a request in     *)
(* dbQueue, tagged with the continuation that resumes.                     *)
(***************************************************************************)
EXTENDS NativeSession, FiniteSets

CONSTANTS
  Slots,                \* names of the save loops: "init", "constraints", "reorder"
  NoSlot,               \* a database write no save loop awaits
  Limit,                \* bound: how often each entry of UserOps may occur
  EarlyOps,             \* bound: those that may occur before initialize() ends
  ShutdownWhenComplete, \* values the user gives the setting of that name
  KeepCpuAwake          \* values the user gives keep_cpu_awake

UserOps == {"add", "toggle", "resumeAll", "pauseAll", "delete", "reorder",
            "shutdown", "constraints", "restart"}

EngineTags == {"init", "power", "delete", "release", "shutdown"}

ASSUME EngineAssumption ==
  /\ EngineTags \subseteq Tags \ {NoTag}
  /\ Slots = {"init", "constraints", "reorder"}
  /\ NoSlot \notin Slots
  /\ Limit \in [UserOps -> Nat]
  /\ EarlyOps \subseteq UserOps
  /\ ShutdownWhenComplete \in (SUBSET BOOLEAN) \ {{}}
  /\ KeepCpuAwake \in (SUBSET BOOLEAN) \ {{}}
  /\ IsFiniteSet(Ids)

VARIABLES
  rows,           \* _torrents: the rows of the list, whose order is left out
  engineState,    \* _state
  isShutdown,     \* _isShutdown
  statusSub,      \* _statusSub
  constraintSub,  \* _constraintSub
  checker,        \* the constraint checker: not started, started or disposed
  violated,       \* _constraintChecker.currentViolations is not empty
  initPc,         \* where initialize() is
  savers,         \* the running saveTorrents loops: what each has yet to write
  dbQueue,        \* requests to the database, executed in this order
  db,             \* the torrents table, whose primary key is the id
  used            \* how often each entry of UserOps has occurred

lifeVars == <<engineState, isShutdown>>
watchVars == <<statusSub, constraintSub, checker, violated>>
storeVars == <<savers, dbQueue, db>>
dartVars == <<rows, lifeVars, watchVars, initPc, storeVars, used>>
vars == <<nativeVars, dartVars>>

\* reason: the blockedReason of the row is set.
Row == [id : Ids, status : TorrentStatus, queue : Nat, reason : BOOLEAN]

Saver == [todo : SUBSET Row, onList : BOOLEAN]
SaverIdle == [todo |-> {}, onList |-> FALSE]

LoadRequest    == [op : {"load"}]
UpsertRequest  == [op : {"upsert"}, row : Row, slot : Slots \cup {NoSlot}]
DeleteRequest  == [op : {"delete"}, id : Ids \cup {None}]
OrderRequest   == [op : {"order"}, pos : [Ids -> Nat]]
SettingRequest == [op : {"setting"}, tag : {"finish", "power"}]
Request ==
  LoadRequest \cup UpsertRequest \cup DeleteRequest \cup OrderRequest
    \cup SettingRequest

Subscription == {"none", "listening", "cancelled"}

LifeTypeOK ==
  /\ engineState \in {"initializing", "running", "shutdown", "crashed"}
  /\ isShutdown \in BOOLEAN
  /\ initPc \in {"native", "load", "checking", "saving", "power", "ended"}
  /\ used \in [UserOps -> Nat]

WatchTypeOK ==
  /\ statusSub \in Subscription
  /\ constraintSub \in Subscription
  /\ checker \in {"off", "on", "closed"}
  /\ violated \in BOOLEAN

StoreTypeOK ==
  /\ savers \in [Slots -> Saver]
  /\ dbQueue \in Seq(Request)
  /\ db \in SUBSET Row

TypeOK ==
  /\ NativeTypeOK
  /\ rows \in SUBSET Row
  /\ LifeTypeOK /\ WatchTypeOK /\ StoreTypeOK

Listed(id) == \E row \in rows : row.id = id

-----------------------------------------------------------------------------
(* Calls, database requests and bounded user operations.                   *)

CallNative(calls) == looper' = looper \o calls

Do(op) ==
  /\ used[op] < Limit[op]
  /\ initPc = "ended" \/ op \in EarlyOps
  /\ used' = [used EXCEPT ![op] = @ + 1]

\* The head of the replies and events that have reached the isolate.
Receive(type) ==
  /\ toDart # << >>
  /\ Head(toDart).type = type
  /\ toDart' = Tail(toDart)

Resume(tag) == Receive("reply") /\ Head(toDart).tag = tag

\* The database executes its oldest request.
Executing(op) ==
  /\ dbQueue # << >>
  /\ Head(dbQueue).op = op

Upsert(row, slot) == [op |-> "upsert", row |-> row, slot |-> slot]

\* INSERT OR REPLACE
Stored(table, row) == {r \in table : r.id # row.id} \cup {row}

platformVars == <<sessionVars, pollVars, wakeLock>>

-----------------------------------------------------------------------------
(* The save loops.  saveTorrents iterates over the list object it was      *)
(* given and awaits each write.  onList says that this object still is     *)
(* _torrents: then a row removed in place ends the loop with a             *)
(* ConcurrentModificationError, which its caller swallows.                 *)

\* _torrents is assigned a new list object.
Reassigned(sv) == [s \in Slots |-> [sv[s] EXCEPT !.onList = FALSE]]

\* A row was removed from the current list object.
Shrunk(sv) == [s \in Slots |-> IF sv[s].onList THEN SaverIdle ELSE sv[s]]

\* saveTorrents(list) runs up to its first await; before is what the same
\* step has already put into the queue.
StartSaving(slot, list, sv, before) ==
  IF list = {}
  THEN /\ savers' = [sv EXCEPT ![slot] = SaverIdle]
       /\ dbQueue' = before
  ELSE \E row \in list :
         /\ savers' = [sv EXCEPT ![slot] =
                         [todo |-> list \ {row}, onList |-> TRUE]]
         /\ dbQueue' = Append(before, Upsert(row, slot))

\* No loop of this slot is running.
SlotFree(slot) ==
  /\ savers[slot] = SaverIdle
  /\ \A i \in DOMAIN dbQueue :
       dbQueue[i].op = "upsert" => dbQueue[i].slot # slot

-----------------------------------------------------------------------------
(* _onStatusUpdate: one list of statuses, all of it in one step.           *)

\* Mutants: every status taken for a new torrent; a queued one ignored.
AllUnknown(statuses) == statuses
UnknownRunning(statuses) ==
  {st \in statuses : ~Listed(st.id) /\ st.status # "queued"}

\* The statuses of torrents the list does not know: existingById.
Unknown(statuses) == {st \in statuses : ~Listed(st.id)}

\* The row of a torrent the list knows: the native status replaces the
\* row's, whatever it was, and copyWith keeps the blocked reason.
Updated(row, st) ==
  [row EXCEPT !.status = ParseTorrentStatus(st.status),
              !.queue = IF st.pos > 0 THEN st.pos ELSE row.queue]

\* Mutant: the position of a torrent outside the queue taken as it is.
NewRowUnchecked(st, n) ==
  [id |-> st.id, status |-> ParseTorrentStatus(st.status),
   queue |-> st.pos, reason |-> FALSE]

\* The row of a torrent it does not know, appended after n others.
NewRow(st, n) ==
  [id |-> st.id, status |-> ParseTorrentStatus(st.status),
   queue |-> IF st.pos > 0 THEN st.pos ELSE n + 1, reason |-> FALSE]

\* A row that the statuses turn into a finished one.
Finishes(row, statuses) ==
  /\ row.status # "finished"
  /\ \E st \in statuses :
       st.id = row.id /\ ParseTorrentStatus(st.status) = "finished"

MergedRow(row, statuses) ==
  IF \E st \in statuses : st.id = row.id
  THEN Updated(row, CHOOSE st \in statuses : st.id = row.id)
  ELSE row

StatusUpdate ==
  /\ Receive("status")
  /\ IF statusSub # "listening"
     THEN UNCHANGED <<rows, savers, dbQueue>>
     ELSE LET statuses == Head(toDart).statuses
          IN \E new \in SetToSeqs(Unknown(statuses)) :
               LET added == [i \in DOMAIN new |->
                               NewRow(new[i], Cardinality(rows) + i - 1)]
                   saves == [i \in DOMAIN new |-> Upsert(added[i], NoSlot)]
                   check == IF \E row \in rows : Finishes(row, statuses)
                            THEN <<[op |-> "setting", tag |-> "finish"]>>
                            ELSE << >>
               IN /\ rows' = {MergedRow(row, statuses) : row \in rows}
                               \cup {added[i] : i \in DOMAIN new}
                  /\ savers' = Reassigned(savers)
                  /\ dbQueue' = dbQueue \o saves \o check
  /\ UNCHANGED <<platformVars, looper, lifeVars, watchVars, initPc, db,
                 used>>

-----------------------------------------------------------------------------
(* The constraints.                                                        *)

\* A row that _applyConstraints stops while a constraint is violated.
ToBlock(row) == IsRunning(row.status) \/ row.status = "queued"

\* The row _applyConstraints replaces it with: blocked rows are released
\* when no violation is left, and keep their reason.
AppliedRow(row, v) ==
  IF v THEN IF ToBlock(row)
            THEN [row EXCEPT !.status = "blocked", !.reason = TRUE]
            ELSE row
       ELSE IF row.status = "blocked"
            THEN [row EXCEPT !.status = "paused"]
            ELSE row

\* _applyConstraints up to its first await.  The toggles are not awaited.
ApplyConstraints(v, slot, before) ==
  LET hit == {row.id : row \in {r \in rows : v /\ ToBlock(r)}}
      list == {AppliedRow(row, v) : row \in rows}
  IN /\ rows' = list
     /\ \E ids \in SetToSeqs(hit) :
          CallNative([i \in DOMAIN ids |->
                        MakeCall("toggleTorrent", ids[i], NoTag)])
     /\ StartSaving(slot, list, Reassigned(savers), before)

\* A check of the constraints ends.  A disposed checker still records the
\* result, but adding to its closed stream throws.
ConstraintsChecked(v) ==
  /\ Do("constraints")
  /\ checker # "off"
  /\ violated' = v
  /\ IF checker = "on" /\ constraintSub = "listening"
     THEN /\ SlotFree("constraints")
          /\ ApplyConstraints(v, "constraints", dbQueue)
     ELSE UNCHANGED <<rows, looper, savers, dbQueue>>
  /\ UNCHANGED <<platformVars, toDart, lifeVars, statusSub,
                 constraintSub, checker, initPc, db>>

-----------------------------------------------------------------------------
(* initialize(), called once when the app starts.                          *)

\* Mutant: a failed initialization does not return.
InitNativeStuck ==
  /\ Resume("init")
  /\ initPc = "native"
  /\ Head(toDart).ok
  /\ dbQueue' = Append(dbQueue, [op |-> "load"])
  /\ initPc' = "load"
  /\ UNCHANGED <<platformVars, looper, rows, lifeVars, watchVars, savers, db,
                 used>>

\* _methodChannel.invokeMethod('initialize') has returned.  The settings are
\* read and applied before the table is read; they change nothing followed
\* here, and take their time while the "load" request waits.
InitNative ==
  /\ Resume("init")
  /\ initPc = "native"
  /\ IF Head(toDart).ok
     THEN /\ dbQueue' = Append(dbQueue, [op |-> "load"])
          /\ initPc' = "load"
          /\ UNCHANGED engineState
     ELSE /\ engineState' = "crashed"
          /\ initPc' = "ended"
          /\ UNCHANGED dbQueue
  /\ UNCHANGED <<platformVars, looper, rows, isShutdown, watchVars,
                 savers, db, used>>

\* The table has been read: the list is replaced, the status stream is
\* subscribed to and the constraint checker is started.
InitLoad ==
  /\ Executing("load")
  /\ initPc = "load"
  /\ rows' = db
  /\ savers' = Reassigned(savers)
  /\ statusSub' = "listening"
  /\ CallNative(<<MakeCall("listen", None, NoTag)>>)
  /\ checker' = IF checker = "off" THEN "on" ELSE checker
  /\ initPc' = "checking"
  /\ dbQueue' = Tail(dbQueue)
  /\ UNCHANGED <<platformVars, toDart, lifeVars, constraintSub,
                 violated, db, used>>

\* Reading the table throws: the engine has crashed.
InitLoadFails ==
  /\ Executing("load")
  /\ initPc = "load"
  /\ engineState' = "crashed"
  /\ initPc' = "ended"
  /\ dbQueue' = Tail(dbQueue)
  /\ UNCHANGED <<nativeVars, rows, isShutdown, watchVars, savers, db,
                 used>>

\* Mutant: the result of the first check is not applied.
InitCheckedOnly(v) ==
  /\ initPc = "checking"
  /\ violated' = v
  /\ constraintSub' = "listening"
  /\ dbQueue' = Append(dbQueue, [op |-> "setting", tag |-> "power"])
  /\ initPc' = "power"
  /\ UNCHANGED <<nativeVars, rows, lifeVars, statusSub, checker, savers, db,
                 used>>

\* The first check has ended with result v; its violations are subscribed to
\* and applied.
InitChecked(v) ==
  /\ initPc = "checking"
  /\ violated' = v
  /\ constraintSub' = "listening"
  /\ IF rows = {}
     THEN /\ ApplyConstraints(v, "init",
               Append(dbQueue, [op |-> "setting", tag |-> "power"]))
          /\ initPc' = "power"
     ELSE /\ ApplyConstraints(v, "init", dbQueue)
          /\ initPc' = "saving"
  /\ UNCHANGED <<platformVars, toDart, lifeVars, statusSub, checker, db,
                 used>>

\* _updatePowerManagement has read keep_cpu_awake ...
InitPower ==
  /\ Executing("setting")
  /\ Head(dbQueue).tag = "power"
  /\ dbQueue' = Tail(dbQueue)
  /\ \E awake \in KeepCpuAwake :
       CallNative(<<MakeCall(IF awake THEN "acquireWakeLock"
                                      ELSE "releaseWakeLock",
                             None, "power")>>)
  /\ UNCHANGED <<platformVars, toDart, rows, lifeVars, watchVars,
                 initPc, savers, db, used>>

\* ... and the call has returned: the engine is running.
InitEnd ==
  /\ Resume("power")
  /\ engineState' = "running"
  /\ initPc' = "ended"
  /\ UNCHANGED <<platformVars, looper, rows, isShutdown, watchVars,
                 storeVars, used>>

-----------------------------------------------------------------------------
(* shutdown()                                                              *)

\* Up to its first await.
BeginShutdown ==
  IF isShutdown
  THEN UNCHANGED <<looper, lifeVars>>
  ELSE /\ isShutdown' = TRUE
       /\ engineState' = "shutdown"
       /\ CallNative(<<MakeCall("releaseWakeLock", None, "release")>>)

Shutdown ==
  /\ Do("shutdown")
  /\ BeginShutdown
  /\ UNCHANGED <<platformVars, toDart, rows, watchVars, initPc, storeVars>>

\* Mutant: a shutdown that has been taken back waits half-way.
ShutdownNativeChecked ==
  /\ Resume("release")
  /\ isShutdown
  /\ CallNative(<<MakeCall("shutdown", None, "shutdown")>>)
  /\ UNCHANGED <<platformVars, dartVars>>

\* releaseWakeLock has returned.
ShutdownNative ==
  /\ Resume("release")
  /\ CallNative(<<MakeCall("shutdown", None, "shutdown")>>)
  /\ UNCHANGED <<platformVars, dartVars>>

\* Cancelling a subscription that initialize() has not made yet is a no-op.
Cancelled(sub) == IF sub = "listening" THEN "cancelled" ELSE sub

ShutdownEnd ==
  /\ Resume("shutdown")
  /\ CallNative(IF statusSub = "listening"
                THEN <<MakeCall("cancel", None, NoTag)>> ELSE << >>)
  /\ statusSub' = Cancelled(statusSub)
  /\ constraintSub' = Cancelled(constraintSub)
  /\ checker' = "closed"
  /\ UNCHANGED <<platformVars, rows, lifeVars, violated, initPc,
                 storeVars, used>>

\* _checkShutdownWhenComplete has read its setting.
ShutdownWhenDone ==
  /\ Executing("setting")
  /\ Head(dbQueue).tag = "finish"
  /\ dbQueue' = Tail(dbQueue)
  /\ \E enabled \in ShutdownWhenComplete :
       IF enabled /\ ~\E row \in rows : ToBlock(row)
       THEN BeginShutdown
       ELSE UNCHANGED <<looper, lifeVars>>
  /\ UNCHANGED <<platformVars, toDart, rows, watchVars, initPc, savers,
                 db, used>>

-----------------------------------------------------------------------------
(* The user's operations, from the screens and from the notification.      *)

\* addTorrent.  A source that shows the info hash of a listed torrent is
\* refused; one that does not (a file, a link, a base32 magnet) is not.  The
\* row itself comes with a later status list.
AddTorrent(id) ==
  /\ Do("add")
  /\ CallNative(<<MakeCall("addTorrent", id, NoTag)>>)
  /\ UNCHANGED <<platformVars, toDart, rows, lifeVars, watchVars,
                 initPc, storeVars>>

\* The play/pause button, offered on the rows that CanToggle.
ToggleTorrent(id) ==
  /\ Do("toggle")
  /\ \E row \in rows : row.id = id /\ CanToggle(row.status)
  /\ isShutdown' = FALSE
  /\ CallNative(<<MakeCall("toggleTorrent", id, NoTag)>>)
  /\ UNCHANGED <<platformVars, toDart, rows, engineState, watchVars,
                 initPc, storeVars>>

ResumeAll ==
  /\ Do("resumeAll")
  /\ isShutdown' = FALSE
  /\ CallNative(<<MakeCall("resumeAll", None, NoTag)>>)
  /\ UNCHANGED <<platformVars, toDart, rows, engineState, watchVars,
                 initPc, storeVars>>

PauseAll ==
  /\ Do("pauseAll")
  /\ CallNative(<<MakeCall("pauseAll", None, NoTag)>>)
  /\ UNCHANGED <<platformVars, toDart, rows, lifeVars, watchVars,
                 initPc, storeVars>>

\* Mutant: the table's row is deleted without waiting for the native side.
DeleteTorrentEarly(id) ==
  /\ Do("delete")
  /\ Listed(id)
  /\ CallNative(<<MakeCall("deleteTorrent", id, "delete")>>)
  /\ dbQueue' = Append(dbQueue, [op |-> "delete", id |-> id])
  /\ UNCHANGED <<platformVars, toDart, rows, lifeVars, watchVars, initPc,
                 savers, db>>

\* The delete button of a listed torrent's detail screen.
DeleteTorrent(id) ==
  /\ Do("delete")
  /\ Listed(id)
  /\ CallNative(<<MakeCall("deleteTorrent", id, "delete")>>)
  /\ UNCHANGED <<platformVars, toDart, rows, lifeVars, watchVars,
                 initPc, storeVars>>

\* The native side has removed it: removeWhere works in place.
DeleteRow ==
  /\ Resume("delete")
  /\ LET id == Head(toDart).id IN
     /\ rows' = {row \in rows : row.id # id}
     /\ savers' = IF Listed(id) THEN Shrunk(savers) ELSE savers
     /\ dbQueue' = Append(dbQueue, [op |-> "delete", id |-> id])
  /\ UNCHANGED <<platformVars, looper, lifeVars, watchVars, initPc, db,
                 used>>

\* reorderQueue: the rows are renumbered from 1 in the order of the editor;
\* rows it does not name come last.  The native side is not told.
ReorderQueue ==
  /\ Do("reorder")
  /\ SlotFree("reorder")
  /\ \A i \in DOMAIN dbQueue : dbQueue[i].op # "order"
  /\ \E ids \in SetToSeqs({row.id : row \in rows}) :
       LET pos == [id \in Ids |-> IF Listed(id)
                                  THEN CHOOSE i \in DOMAIN ids : ids[i] = id
                                  ELSE 0]
       IN /\ rows' = {[row EXCEPT !.queue = pos[row.id]] : row \in rows}
          /\ dbQueue' = Append(dbQueue, [op |-> "order", pos |-> pos])
  /\ savers' = Reassigned(savers)
  /\ UNCHANGED <<nativeVars, lifeVars, watchVars, initPc, db>>

-----------------------------------------------------------------------------
(* The database.                                                           *)

\* A write ends; a save loop goes on to its next row.  The loop of
\* initialize() returns to it.
DbUpsert ==
  /\ Executing("upsert")
  /\ LET slot == Head(dbQueue).slot IN
     /\ db' = Stored(db, Head(dbQueue).row)
     /\ IF slot \in Slots /\ savers[slot].todo # {}
        THEN \E row \in savers[slot].todo :
               /\ dbQueue' = Append(Tail(dbQueue), Upsert(row, slot))
               /\ savers' = [savers EXCEPT ![slot].todo = @ \ {row}]
               /\ UNCHANGED initPc
        ELSE /\ savers' = [s \in Slots |->
                             IF s = slot THEN SaverIdle ELSE savers[s]]
             /\ IF slot = "init"
                THEN /\ dbQueue' = Append(Tail(dbQueue),
                               [op |-> "setting", tag |-> "power"])
                     /\ initPc' = "power"
                ELSE /\ dbQueue' = Tail(dbQueue)
                     /\ UNCHANGED initPc
  /\ UNCHANGED <<nativeVars, rows, lifeVars, watchVars, used>>

DbDelete ==
  /\ Executing("delete")
  /\ db' = {row \in db : row.id # Head(dbQueue).id}
  /\ dbQueue' = Tail(dbQueue)
  /\ UNCHANGED <<nativeVars, rows, lifeVars, watchVars, initPc, savers,
                 used>>

\* The batch of updateQueueOrder, then saveTorrents(_torrents).
DbOrder ==
  /\ Executing("order")
  /\ LET pos == Head(dbQueue).pos IN
     db' = {IF pos[row.id] > 0
            THEN [row EXCEPT !.queue = pos[row.id]] ELSE row : row \in db}
  /\ StartSaving("reorder", rows, savers, Tail(dbQueue))
  /\ UNCHANGED <<nativeVars, rows, lifeVars, watchVars, initPc, used>>

-----------------------------------------------------------------------------
(* The app starts again: the table survives.  Either the process was       *)
(* killed, or only the activity and its Dart isolate were destroyed and    *)
(* the native session lives on until initialize() replaces it.             *)

\* main() makes the engine and calls its initialize().
FirstCall == MakeCall("initialize", None, "init")
NoSavers == [s \in Slots |-> SaverIdle]

Restart ==
  /\ Do("restart")
  /\ looper' = <<FirstCall>> /\ toDart' = << >>
  /\ polling' = FALSE /\ sink' = FALSE /\ poll' = PollIdle
  /\ wakeLock' = FALSE
  /\ rows' = {} /\ savers' = NoSavers /\ dbQueue' = << >>
  /\ engineState' = "initializing" /\ isShutdown' = FALSE
  /\ statusSub' = "none" /\ constraintSub' = "none"
  /\ checker' = "off" /\ violated' = FALSE
  /\ initPc' = "native"
  /\ UNCHANGED db
  /\ \/ UNCHANGED sessionVars
     \/ /\ alive' = FALSE
        /\ session' = EmptySession
        /\ order' = << >>
        /\ sessionPaused' = FALSE

-----------------------------------------------------------------------------

Init ==
  /\ alive = FALSE /\ session = EmptySession /\ order = << >>
  /\ sessionPaused = FALSE
  /\ looper = <<FirstCall>> /\ toDart = << >>
  /\ polling = FALSE /\ sink = FALSE /\ poll = PollIdle
  /\ wakeLock = FALSE
  /\ rows = {} /\ savers = NoSavers /\ dbQueue = << >>
  /\ engineState = "initializing" /\ isShutdown = FALSE
  /\ statusSub = "none" /\ constraintSub = "none"
  /\ checker = "off" /\ violated = FALSE
  /\ initPc = "native"
  /\ db = {}
  /\ used = [op \in UserOps |-> 0]

Native == NativeNext /\ UNCHANGED dartVars

\* The isolate takes the oldest reply or event that has reached it ...
Dart ==
  \/ InitNative \/ InitEnd
  \/ StatusUpdate
  \/ ShutdownNative \/ ShutdownEnd
  \/ DeleteRow

\* ... or goes on where a database request that has ended lets it.
Database ==
  \/ InitLoad \/ InitLoadFails \/ InitPower \/ ShutdownWhenDone
  \/ DbUpsert \/ DbDelete \/ DbOrder

User ==
  \/ \E id \in Ids : AddTorrent(id) \/ ToggleTorrent(id) \/ DeleteTorrent(id)
  \/ ResumeAll \/ PauseAll \/ ReorderQueue \/ Shutdown

\* The device's conditions.
Conditions == \E v \in BOOLEAN : InitChecked(v) \/ ConstraintsChecked(v)

Next == Native \/ Dart \/ Database \/ User \/ Conditions \/ Restart

\* The isolate, the looper, the timer and the database keep working, each
\* on its oldest item, and the first check of the constraints ends.  The
\* user, libtorrent's progress and the device's conditions owe nothing.
Fairness ==
  /\ WF_vars(HandleLooper /\ UNCHANGED dartVars)
  /\ WF_vars(Timer /\ UNCHANGED dartVars)
  /\ WF_vars(Dart)
  /\ WF_vars(Database)
  /\ WF_vars(\E v \in BOOLEAN : InitChecked(v))

Spec == Init /\ [][Next]_vars

FairSpec == Spec /\ Fairness

-----------------------------------------------------------------------------
(* Safety.                                                                 *)

\* The list never has two rows of one torrent, however status lists, adds,
\* deletes and reloads interleave: _onStatusUpdate appends a row only for an
\* info hash that no row of the list has.
OneRowPerTorrent == Keyed(rows)

\* Whatever is still to come out of the queue, a listed torrent ends up in
\* the table: the app may be killed and restarted and loses no row whose
\* writes were executed.  The writes of a row's appearance, of deletes and of
\* the save loops go through one queue.
WritesOf(id) ==
  {i \in DOMAIN dbQueue :
     \/ dbQueue[i].op = "upsert" /\ dbQueue[i].row.id = id
     \/ dbQueue[i].op = "delete" /\ dbQueue[i].id = id}

EndsUpStored(id) ==
  IF WritesOf(id) = {}
  THEN \E row \in db : row.id = id
  ELSE \E i \in WritesOf(id) :
         /\ \A j \in WritesOf(id) : j <= i
         /\ dbQueue[i].op = "upsert"

ListedIsPersisted == \A id \in Ids : Listed(id) => EndsUpStored(id)

\* While the engine listens to the checker, a row is blocked only as long as
\* a constraint is violated: _applyConstraints releases every blocked row
\* when the violations are gone, and nothing else blocks one.
BlockedOnlyUnderViolation ==
  checker = "on" /\ constraintSub = "listening" =>
    \A row \in rows : row.status = "blocked" => violated

\* A torrent of which nothing is left anywhere: no row, no table entry, no
\* pending write, and nothing of it in the native session, in a status list
\* under way or in a call to add it.
Mentions(statuses, id) == \E st \in statuses : st.id = id

Gone(id) ==
  /\ ~Listed(id)
  /\ \A row \in db : row.id # id
  /\ \A i \in DOMAIN dbQueue :
       dbQueue[i].op = "upsert" => dbQueue[i].row.id # id
  /\ \A s \in Slots : \A row \in savers[s].todo : row.id # id
  /\ id \notin DOMAIN session
  /\ ~Mentions(poll.statuses, id)
  /\ \A i \in DOMAIN looper :
       /\ looper[i].type = "post" => ~Mentions(looper[i].statuses, id)
       /\ looper[i].type = "call" /\ looper[i].method = "addTorrent"
            => looper[i].id # id
  /\ \A i \in DOMAIN toDart :
       toDart[i].type = "status" => ~Mentions(toDart[i].statuses, id)

\* A torrent that is gone comes back only when the user adds it: no loop,
\* late reply, poll or restart brings it back.
GoneStaysGone ==
  [][\A id \in Ids : Gone(id) => Gone(id)' \/ AddTorrent(id)]_vars

\* A shutdown() waits for the native side.
ShutdownUnderWay ==
  \/ \E i \in DOMAIN looper :
       looper[i].type = "call" /\ looper[i].tag \in {"release", "shutdown"}
  \/ \E i \in DOMAIN toDart :
       toDart[i].type = "reply" /\ toDart[i].tag \in {"release", "shutdown"}

\* A shutdown that has come to its end leaves no session, whatever the user
\* did meanwhile; and once the engine says it is shut down and nothing of the
\* shutdown or of initialize() is under way, the timer and the wake lock are
\* released and the stream of statuses is being closed.  (An initialize()
\* that a shutdown overtakes sets timer and wake lock up again, but then the
\* engine says it is running.)
ShutdownReleases ==
  /\ checker = "closed" => ~alive
  /\ engineState = "shutdown" /\ initPc = "ended" /\ ~ShutdownUnderWay =>
       /\ ~alive
       /\ ~wakeLock
       /\ ~polling
       /\ sink => \E i \in DOMAIN looper :
                    looper[i].type = "call" /\ looper[i].method = "cancel"

-----------------------------------------------------------------------------
(* Liveness.                                                               *)

\* A torrent the native session has taken gets its row, although addTorrent
\* makes none: the next status list brings it.
Watched == polling /\ sink /\ statusSub = "listening"

AddedIsListed ==
  \A id \in Ids :
    id \in DOMAIN session /\ Watched
      ~> Listed(id) \/ id \notin DOMAIN session \/ ~Watched

\* initialize() ends, whatever happens while it awaits.
InitializeEnds == initPc # "ended" ~> initPc = "ended"

\* A shutdown reaches the native session, even when another operation has
\* taken the flag back meanwhile.
ShutdownStopsSession == isShutdown ~> ~alive

=============================================================================

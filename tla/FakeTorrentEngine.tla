------------------------- MODULE FakeTorrentEngine -------------------------
(***************************************************************************)
(* The in-memory engine of Getzy, fake_torrent_engine.dart, which the      *)
(* screens run on where there is no Android side.  Every operation is one  *)
(* synchronous step over the list of rows; the queue is not kept as such:  *)
(* each row carries its queue number, the list has an order of its own,    *)
(* and the screens show what visibleTorrents sorts.                        *)
(***************************************************************************)
EXTENDS TorrentModels, Integers, Sequences, SequencesExt

CONSTANTS
  Seeds,     \* the rows of _seedTorrents
  Hashes,    \* the info hashes of the sources the user can add
  MaxQueue   \* bound: the highest queue number an add may make

SeedRow == [id : STRING, hash : STRING, queue : Nat \ {0}, status : TorrentStatus]

\* The four rows of _seedTorrents are in the order of their queue numbers, no
\* two are of one torrent, none is blocked; their ids have 20 digits, a hash 40.
ASSUME FakeAssumption ==
  /\ Seeds \in Seq(SeedRow)
  /\ Hashes \subseteq STRING
  /\ MaxQueue \in Nat
  /\ \A i, j \in DOMAIN Seeds :
       /\ i < j => Seeds[i].queue < Seeds[j].queue
       /\ Seeds[i].id = Seeds[j].id \/ Seeds[i].hash = Seeds[j].hash => i = j
  /\ \A i \in DOMAIN Seeds :
       Seeds[i].id \notin Hashes /\ Seeds[i].status # "blocked"

VARIABLES
  torrents,     \* _torrents, in the order of the list
  engineState,  \* _state
  isShutdown,   \* _isShutdown
  closed        \* _eventController.isClosed: no listener hears of anything

vars == <<torrents, engineState, isShutdown, closed>>

Ids == {Seeds[i].id : i \in DOMAIN Seeds} \cup Hashes
KnownHashes == {Seeds[i].hash : i \in DOMAIN Seeds} \cup Hashes
Row == [id : Ids, hash : KnownHashes, queue : Nat \ {0}, status : TorrentStatus]

TypeOK ==
  /\ torrents \in Seq(Row)
  /\ engineState \in {"running", "shutdown"}
  /\ isShutdown \in BOOLEAN
  /\ closed \in BOOLEAN

-----------------------------------------------------------------------------
(* The list as the screens see it.                                         *)

\* The order by queue number.  Dart's sort may change the order of rows with
\* equal numbers; QueueNumbersIncrease says that there are none.
Precedes(list, i, j) ==
  \/ list[i].queue < list[j].queue
  \/ list[i].queue = list[j].queue /\ i <= j

SortedByQueue(list) ==
  [k \in DOMAIN list |->
     list[CHOOSE i \in DOMAIN list :
            Cardinality({j \in DOMAIN list : Precedes(list, j, i)}) = k]]

\* visibleTorrents without a filter.
Visible == SortedByQueue(torrents)

IdsOf(list) == [i \in DOMAIN list |-> list[i].id]

\* The items at some places of a list, in the order of the list.
Nth(places, k) ==
  CHOOSE i \in places : Cardinality({j \in places : j <= i}) = k

Selected(list, places) ==
  [k \in 1..Cardinality(places) |-> list[Nth(places, k)]]

-----------------------------------------------------------------------------
(* The operations.                                                         *)

\* The rows with one of these statuses get another, in place.
Restatus(from, to) ==
  [i \in DOMAIN torrents |->
     IF torrents[i].status \in from THEN [torrents[i] EXCEPT !.status = to]
     ELSE torrents[i]]

RunningStatus == {status \in TorrentStatus : IsRunning(status)}
StoppedStatus == {status \in TorrentStatus : CanToggle(status)} \ RunningStatus

Initialize ==
  /\ engineState' = "running"
  /\ UNCHANGED <<torrents, isShutdown, closed>>

\* Mutant: the duplicate check looks at the ids, which seeded rows do not
\* share with their hashes.
AddTorrentById(hash) ==
  /\ \A i \in DOMAIN torrents : torrents[i].id # hash
  /\ \A i \in DOMAIN torrents : torrents[i].queue < MaxQueue
  /\ torrents' =
       <<[id |-> hash, hash |-> hash, queue |-> 1, status |-> "downloading"]>>
         \o [i \in DOMAIN torrents |-> [torrents[i] EXCEPT !.queue = @ + 1]]
  /\ UNCHANGED <<engineState, isShutdown, closed>>

\* Mutant: the queue number of a new torrent is taken from the list's length.
AddTorrentLast(hash) ==
  /\ \A i \in DOMAIN torrents : torrents[i].hash # hash
  /\ torrents' =
       Append(torrents, [id |-> hash, hash |-> hash,
                         queue |-> Len(torrents) + 1, status |-> "downloading"])
  /\ UNCHANGED <<engineState, isShutdown, closed>>

\* A hash no row has: the new row comes first and the others move up.
AddTorrent(hash) ==
  /\ \A i \in DOMAIN torrents : torrents[i].hash # hash
  /\ \A i \in DOMAIN torrents : torrents[i].queue < MaxQueue
  /\ torrents' =
       <<[id |-> hash, hash |-> hash, queue |-> 1, status |-> "downloading"]>>
         \o [i \in DOMAIN torrents |-> [torrents[i] EXCEPT !.queue = @ + 1]]
  /\ UNCHANGED <<engineState, isShutdown, closed>>

\* Mutant: a finished torrent can be toggled too.
ToggleTorrentAny(id) ==
  /\ \E i \in DOMAIN torrents :
       /\ torrents[i].id = id
       /\ torrents' = [torrents EXCEPT ![i].status =
                         IF IsRunning(@) THEN "paused" ELSE "downloading"]
  /\ UNCHANGED <<engineState, isShutdown, closed>>

ToggleTorrent(id) ==
  /\ \E i \in DOMAIN torrents :
       /\ torrents[i].id = id
       /\ CanToggle(torrents[i].status)
       /\ torrents' = [torrents EXCEPT ![i].status =
                         IF IsRunning(@) THEN "paused" ELSE "downloading"]
  /\ UNCHANGED <<engineState, isShutdown, closed>>

\* The state and the closed stream stay as a shutdown has left them.
ResumeAll ==
  /\ isShutdown' = FALSE
  /\ torrents' = Restatus(StoppedStatus, "downloading")
  /\ UNCHANGED <<engineState, closed>>

PauseAll ==
  /\ torrents' = Restatus(RunningStatus, "paused")
  /\ UNCHANGED <<engineState, isShutdown, closed>>

\* The stream is closed before the event that says so is added.
Shutdown ==
  /\ ~isShutdown
  /\ isShutdown' = TRUE
  /\ engineState' = "shutdown"
  /\ torrents' = Restatus(RunningStatus, "paused")
  /\ closed' = TRUE

DeleteTorrent(id) ==
  /\ \E i \in DOMAIN torrents : torrents[i].id = id
  /\ torrents' = Selected(torrents, {i \in DOMAIN torrents : torrents[i].id # id})
  /\ UNCHANGED <<engineState, isShutdown, closed>>

\* The named rows in the given order, each once, then the others in the order
\* of the list.
Named(ids) ==
  {i \in DOMAIN ids : /\ \E row \in ToSet(torrents) : row.id = ids[i]
                     /\ \A j \in 1..(i - 1) : ids[j] # ids[i]}

Order(ids) ==
  Selected(ids, Named(ids)) \o
    Selected(IdsOf(torrents), {i \in DOMAIN torrents : ~Contains(ids, torrents[i].id)})

\* Mutant: the rows are numbered from 0.
ReorderedFromZero(ids) ==
  LET order == Order(ids)
  IN [i \in DOMAIN order |->
        [(CHOOSE row \in ToSet(torrents) : row.id = order[i])
           EXCEPT !.queue = i - 1]]

\* reorderQueue: all rows are numbered from 1.
Reordered(ids) ==
  LET order == Order(ids)
  IN [i \in DOMAIN order |->
        [(CHOOSE row \in ToSet(torrents) : row.id = order[i])
           EXCEPT !.queue = i]]

\* The queue editor: the row at place i of the list sorted by queue number is
\* dragged to place k.  The editor covers the other screens, so its list is
\* the engine's.
DragRow(i, k) ==
  LET ids == IdsOf(Visible) IN
  /\ torrents' = Reordered(InsertAt(RemoveAt(ids, i), k, ids[i]))
  /\ UNCHANGED <<engineState, isShutdown, closed>>

-----------------------------------------------------------------------------

Init ==
  /\ torrents = Seeds
  /\ engineState = "running"
  /\ isShutdown = FALSE
  /\ closed = FALSE

Next ==
  \/ Initialize
  \/ \E hash \in Hashes : AddTorrent(hash)
  \/ \E id \in Ids : ToggleTorrent(id) \/ DeleteTorrent(id)
  \/ ResumeAll \/ PauseAll \/ Shutdown
  \/ \E i, k \in DOMAIN torrents : DragRow(i, k)

Spec == Init /\ [][Next]_vars

-----------------------------------------------------------------------------

\* The list is in the order of the queue numbers, no two of which are equal,
\* after any adds, removals, which leave gaps, and moves: the sort of
\* visibleTorrents, which is not stable, has one result.
QueueNumbersIncrease ==
  \A i, j \in DOMAIN torrents : i < j => torrents[i].queue < torrents[j].queue

\* No torrent is listed twice, although duplicates are looked for among the
\* info hashes and a seeded row's id is not its hash.
OneRowPerHash ==
  \A i, j \in DOMAIN torrents :
    torrents[i].hash = torrents[j].hash \/ torrents[i].id = torrents[j].id
      => i = j

\* The ids of the rows with one of these statuses.
IdsOfStatus(list, statuses) ==
  {list[i].id : i \in {j \in DOMAIN list : list[j].status \in statuses}}

\* The engine keeps the promises of TorrentQueue: what the screens sort by
\* queue number is the queue, what runs is what they may show as running.
Queue ==
  INSTANCE TorrentQueue WITH
    Torrents <- Ids,
    Start    <- IdsOf(Seeds),
    Running  <- IdsOfStatus(Seeds, RunningStatus),
    Done     <- IdsOfStatus(Seeds, {"finished"}),
    queue    <- IdsOf(Visible),
    active   <- IdsOfStatus(torrents, RunningStatus)

KeepsQueuePromises == Queue!QueueSpec

=============================================================================

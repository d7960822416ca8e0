--------------------------- MODULE NativeSession ---------------------------
(***************************************************************************)
(* The Android side of Getzy: TorrentEnginePlugin.kt, TorrentBridge.kt,    *)
(* the JNI bridge torrent_bridge.cpp and the libtorrent session it owns.   *)
(*                                                                         *)
(* Two threads work here.  The main looper runs one item at a time, in the *)
(* order of arrival: a method call of the Dart isolate, or a runnable      *)
(* posted by the other thread.  The status timer thread polls the session  *)
(* every second and posts what it read to the looper.  Replies and status  *)
(* events travel back to the Dart isolate in the order they were sent.     *)
(*                                                                         *)
(* The handlers that keep no state this module follows (setFilePriorities, *)
(* applySettings, reorderQueue, the service and the notification) are left *)
(* to other modules.                                                       *)
(***************************************************************************)
EXTENDS TorrentModels, Integers, Sequences, SequencesExt

CONSTANTS
  Ids,         \* the info hashes that can appear
  None,        \* stands for "no info hash" in a call
  Tags,        \* what a caller waits for: echoed in the reply to its call
  NoTag,       \* the tag of a call nobody awaits
  StateSteps,  \* pairs <<s, t>>: libtorrent may move a torrent from s to t
  MaxBacklog   \* bound: status lists under way between the timer and Dart

ASSUME NativeAssumption ==
  /\ None \notin Ids
  /\ NoTag \in Tags
  /\ StateSteps \subseteq NativeState \X NativeState
  /\ MaxBacklog \in Nat \ {0}

VARIABLES
  alive,          \* g_session # nullptr, nativePtr # 0 and sessionPtr # 0
  session,        \* the session's torrents: id -> [paused, state]
  order,          \* libtorrent's download queue: the incomplete ids, in order
  sessionPaused,  \* session-wide pause flag of libtorrent
  polling,        \* statusTimer # null
  sink,           \* eventSink # null
  poll,           \* what the timer thread is doing
  wakeLock,       \* the plugin's wake lock is held
  looper,         \* the main looper's queue
  toDart          \* replies and events on their way to the Dart isolate

nativeVars == <<alive, session, order, sessionPaused, polling, sink, poll,
                wakeLock, looper, toDart>>
sessionVars == <<alive, session, order, sessionPaused>>
pollVars == <<polling, sink, poll>>

TorrentMethod == {"addTorrent", "toggleTorrent", "deleteTorrent"}
EngineMethod == {"initialize", "shutdown", "resumeAll", "pauseAll",
                 "acquireWakeLock", "releaseWakeLock", "listen", "cancel"}

Handle == [paused : BOOLEAN, state : NativeState]
Status == [id : Ids, status : WireStatus, pos : Nat \cup {-1}]
Call   == [type : {"call"}, method : TorrentMethod, id : Ids, tag : Tags]
            \cup [type : {"call"}, method : EngineMethod, id : {None}, tag : Tags]
Post   == [type : {"post"}, statuses : SUBSET Status]
Reply  == [type : {"reply"}, tag : Tags, id : Ids \cup {None}, ok : BOOLEAN]
Event  == [type : {"status"}, statuses : SUBSET Status]

EmptySession == [id \in {} |-> [paused |-> FALSE, state |-> "downloading"]]
PollIdle == [pc |-> "idle", statuses |-> {}]

SessionTypeOK ==
  /\ alive \in BOOLEAN
  /\ DOMAIN session \subseteq Ids
  /\ session \in [DOMAIN session -> Handle]
  /\ order \in Seq(Ids)
  /\ sessionPaused \in BOOLEAN

TimerTypeOK ==
  /\ polling \in BOOLEAN
  /\ sink \in BOOLEAN
  /\ poll \in [pc : {"idle", "reading", "read"}, statuses : SUBSET Status]
  /\ wakeLock \in BOOLEAN

ChannelTypeOK ==
  /\ looper \in Seq(Call \cup Post)
  /\ toDart \in Seq(Reply \cup Event)

NativeTypeOK == SessionTypeOK /\ TimerTypeOK /\ ChannelTypeOK

\* No two elements of S are of one torrent.
Keyed(S) == \A x, y \in S : x.id = y.id => x = y

\* Every status list under way has one entry per torrent: the timer makes it
\* from the session's handles.
LooperKeyed ==
  \A i \in DOMAIN looper :
    looper[i].type = "post" => Keyed(looper[i].statuses)
ToDartKeyed ==
  \A i \in DOMAIN toDart :
    toDart[i].type = "status" => Keyed(toDart[i].statuses)
StatusesKeyed == Keyed(poll.statuses) /\ LooperKeyed /\ ToDartKeyed

-----------------------------------------------------------------------------
(* What the Dart side puts on the looper.                                  *)

MakeCall(method, id, tag) ==
  [type |-> "call", method |-> method, id |-> id, tag |-> tag]

-----------------------------------------------------------------------------
(* What the timer thread and toggleTorrent read of the session.            *)

QueuePosition(id) ==
  IF \E i \in 1..Len(order) : order[i] = id
  THEN (CHOOSE i \in 1..Len(order) : order[i] = id) - 1
  ELSE -1

\* The queue once the torrent has left it.
Unqueued(id) ==
  IF QueuePosition(id) = -1 THEN order ELSE RemoveAt(order, QueuePosition(id) + 1)

StatusOf(id) ==
  StatusString(session[id].paused, session[id].state)

Snapshot ==
  {[id |-> id, status |-> StatusOf(id), pos |-> QueuePosition(id)] :
     id \in DOMAIN session}

\* A torrent that moves data: neither it nor the session is paused.
Transferring(id) ==
  /\ id \in DOMAIN session
  /\ ~sessionPaused
  /\ ~session[id].paused
  /\ ~IsComplete(session[id].state)

-----------------------------------------------------------------------------
(* The method call handler, one action per method.  A handler takes the    *)
(* head of the looper's queue and answers before it returns.               *)

Handling(method) ==
  /\ looper # << >>
  /\ Head(looper).type = "call"
  /\ Head(looper).method = method
  /\ looper' = Tail(looper)

\* result.success / result.error, dropped when nobody waits for it.
Answer(ok) ==
  LET call == Head(looper) IN
  toDart' = IF call.tag = NoTag THEN toDart
            ELSE Append(toDart, [type |-> "reply", tag |-> call.tag,
                                 id |-> call.id, ok |-> ok])

\* A session that is already there (the process outlived its activity) is
\* deleted with its torrents; nothing is loaded into the new one.
HandleInitialize ==
  /\ Handling("initialize")
  /\ alive' = TRUE
  /\ session' = EmptySession
  /\ order' = << >>
  /\ sessionPaused' = FALSE
  /\ Answer(TRUE)
  /\ UNCHANGED <<pollVars, wakeLock>>

\* The native library did not load: no session.
HandleInitializeFails ==
  /\ Handling("initialize")
  /\ ~alive
  /\ Answer(FALSE)
  /\ UNCHANGED <<sessionVars, pollVars, wakeLock>>

\* Mutant: the timer is not cancelled.
HandleShutdownPolling ==
  /\ Handling("shutdown")
  /\ alive' = FALSE
  /\ session' = EmptySession
  /\ order' = << >>
  /\ sessionPaused' = FALSE
  /\ wakeLock' = FALSE
  /\ Answer(TRUE)
  /\ UNCHANGED pollVars

\* destroySession first, then the timer is cancelled: a timer task that has
\* started runs on.
HandleShutdown ==
  /\ Handling("shutdown")
  /\ alive' = FALSE
  /\ session' = EmptySession
  /\ order' = << >>
  /\ sessionPaused' = FALSE
  /\ polling' = FALSE
  /\ wakeLock' = FALSE
  /\ Answer(TRUE)
  /\ UNCHANGED <<sink, poll>>

\* Added neither paused nor auto-managed.  A torrent that is already there
\* is returned as it is: the bridge does not ask for duplicate_is_error.
HandleAddTorrent ==
  /\ Handling("addTorrent")
  /\ alive
  /\ LET id == Head(looper).id IN
     IF id \in DOMAIN session
     THEN UNCHANGED <<session, order>>
     ELSE /\ session' = [x \in DOMAIN session \cup {id} |->
                           IF x = id
                           THEN [paused |-> FALSE,
                                 state |-> "checking_resume_data"]
                           ELSE session[x]]
          /\ order' = Append(order, id)
  /\ Answer(TRUE)
  /\ UNCHANGED <<alive, sessionPaused, pollVars, wakeLock>>

\* No session, or libtorrent refuses the source.
HandleAddTorrentFails ==
  /\ Handling("addTorrent")
  /\ Answer(FALSE)
  /\ UNCHANGED <<sessionVars, pollVars, wakeLock>>

\* Mutant: a torrent the session does not have is made by naming it.
HandleToggleAny ==
  /\ Handling("toggleTorrent")
  /\ LET id == Head(looper).id IN
     session' = [x \in DOMAIN session \cup {id} |->
                   IF x \in DOMAIN session THEN session[x]
                   ELSE [paused |-> TRUE, state |-> "checking_resume_data"]]
  /\ Answer(TRUE)
  /\ UNCHANGED <<alive, order, sessionPaused, pollVars, wakeLock>>

\* Pause or resume by what the status string says now.
HandleToggleTorrent ==
  /\ Handling("toggleTorrent")
  /\ LET id == Head(looper).id IN
     session' =
       IF id \notin DOMAIN session THEN session
       ELSE IF StatusOf(id) \in {"paused", "queued"}
            THEN [session EXCEPT ![id].paused = FALSE]
       ELSE IF StatusOf(id) \in {"downloading", "checking"}
            THEN [session EXCEPT ![id].paused = TRUE]
       ELSE session
  /\ Answer(TRUE)
  /\ UNCHANGED <<alive, order, sessionPaused, pollVars, wakeLock>>

\* pauseAll and resumeAll set the session's flag, not the torrents'.
HandlePauseAll ==
  /\ Handling("pauseAll")
  /\ sessionPaused' = alive
  /\ Answer(TRUE)
  /\ UNCHANGED <<alive, session, order, pollVars, wakeLock>>

HandleResumeAll ==
  /\ Handling("resumeAll")
  /\ sessionPaused' = FALSE
  /\ Answer(TRUE)
  /\ UNCHANGED <<alive, session, order, pollVars, wakeLock>>

\* remove_torrent(h, delete_files): the downloaded files, which are not
\* followed here, go too.
HandleDeleteTorrent ==
  /\ Handling("deleteTorrent")
  /\ LET id == Head(looper).id IN
     /\ session' = [x \in DOMAIN session \ {id} |-> session[x]]
     /\ order' = Unqueued(id)
  /\ Answer(TRUE)
  /\ UNCHANGED <<alive, sessionPaused, pollVars, wakeLock>>

HandleWakeLock ==
  /\ \/ Handling("acquireWakeLock") /\ wakeLock' = TRUE
     \/ Handling("releaseWakeLock") /\ wakeLock' = FALSE
  /\ Answer(TRUE)
  /\ UNCHANGED <<sessionVars, pollVars>>

\* EventChannel onListen / onCancel.
HandleListen ==
  /\ Handling("listen")
  /\ sink' = TRUE
  /\ polling' = TRUE
  /\ Answer(TRUE)
  /\ UNCHANGED <<sessionVars, poll, wakeLock>>

HandleCancel ==
  /\ Handling("cancel")
  /\ sink' = FALSE
  /\ polling' = FALSE
  /\ Answer(TRUE)
  /\ UNCHANGED <<sessionVars, poll, wakeLock>>

\* The runnable of the timer task: eventSink?.success(...)
HandlePost ==
  /\ looper # << >>
  /\ Head(looper).type = "post"
  /\ looper' = Tail(looper)
  /\ toDart' = IF sink
               THEN Append(toDart, [type |-> "status",
                                    statuses |-> Head(looper).statuses])
               ELSE toDart
  /\ UNCHANGED <<sessionVars, pollVars, wakeLock>>

HandleLooper ==
  \/ HandleInitialize \/ HandleInitializeFails \/ HandleShutdown
  \/ HandleAddTorrent \/ HandleAddTorrentFails \/ HandleToggleTorrent
  \/ HandlePauseAll \/ HandleResumeAll \/ HandleDeleteTorrent
  \/ HandleWakeLock \/ HandleListen \/ HandleCancel \/ HandlePost

-----------------------------------------------------------------------------
(* The timer thread.  It shares nativePtr and g_session with the looper's  *)
(* thread and takes no lock.                                               *)

\* Status lists posted to the looper or sent to Dart and not yet handled.
Backlog ==
  Len(SelectSeq(looper, LAMBDA item : item.type = "post"))
    + Len(SelectSeq(toDart, LAMBDA item : item.type = "status"))

\* The task starts: nativePtr and g_session are tested once.
PollCheck ==
  /\ polling
  /\ Backlog < MaxBacklog
  /\ poll.pc = "idle"
  /\ alive
  /\ poll' = [poll EXCEPT !.pc = "reading"]
  /\ UNCHANGED <<sessionVars, polling, sink, wakeLock, looper, toDart>>

\* ... and read through: get_torrents() and status() of each handle.
PollRead ==
  /\ poll.pc = "reading"
  /\ alive
  /\ poll' = [pc |-> "read", statuses |-> Snapshot]
  /\ UNCHANGED <<sessionVars, polling, sink, wakeLock, looper, toDart>>

\* The looper's thread has deleted the session after the test: undefined
\* behaviour.  Here the outcome in which the read finds nothing; the outcome
\* in which the process dies is a kill of the process.
PollReadDangling ==
  /\ poll.pc = "reading"
  /\ ~alive
  /\ poll' = PollIdle
  /\ UNCHANGED <<sessionVars, polling, sink, wakeLock, looper, toDart>>

\* mainHandler.post, only for a non-empty list.
PollPost ==
  /\ poll.pc = "read"
  /\ poll' = PollIdle
  /\ looper' = IF poll.statuses = {} THEN looper
               ELSE Append(looper, [type |-> "post",
                                    statuses |-> poll.statuses])
  /\ UNCHANGED <<sessionVars, polling, sink, wakeLock, toDart>>

Timer == PollCheck \/ PollRead \/ PollReadDangling \/ PollPost

-----------------------------------------------------------------------------
(* libtorrent on its own threads.                                          *)

Advance(id) ==
  /\ Transferring(id)
  /\ \E step \in StateSteps :
       /\ step[1] = session[id].state
       /\ session' = [session EXCEPT ![id].state = step[2]]
       /\ order' = IF IsComplete(step[2])
                   THEN Unqueued(id) ELSE order
  /\ UNCHANGED <<alive, sessionPaused, pollVars, wakeLock, looper, toDart>>

NativeNext == HandleLooper \/ Timer \/ \E id \in Ids : Advance(id)

=============================================================================

---------------------- MODULE RealTorrentEngineProofs ----------------------
(***************************************************************************)
(* Theorems about the Dart engine, for every set of torrents and every     *)
(* bound, and lemmas about the Android side behind it: every step of it,   *)
(* and every call the Dart side puts on the looper, keeps the types of     *)
(* NativeSession.                                                          *)
(***************************************************************************)
EXTENDS RealTorrentEngine, FiniteSetTheorems, TLAPS

-----------------------------------------------------------------------------
(* The Android side: its data.                                             *)

\* A torrent's place in the download queue, or none.
LEMMA QueuePositionType ==
  ASSUME order \in Seq(Ids), NEW id
  PROVE  /\ QueuePosition(id) \in Nat \cup {-1}
         /\ QueuePosition(id) < Len(order)
<1>1. Len(order) \in Nat
  OBVIOUS
<1>2. QED
  BY <1>1 DEF QueuePosition

\* The queue without a torrent is a queue.
LEMMA UnqueuedType ==
  ASSUME order \in Seq(Ids), NEW id
  PROVE  Unqueued(id) \in Seq(Ids)
<1>1. CASE QueuePosition(id) = -1
  BY <1>1 DEF Unqueued
<1>2. CASE QueuePosition(id) # -1
  <2> DEFINE i == QueuePosition(id) + 1
  <2>1. i \in 1..Len(order)
    BY <1>2, QueuePositionType
  <2>2. SubSeq(order, 1, i - 1) \in Seq(Ids)
    BY <2>1
  <2>3. SubSeq(order, i + 1, Len(order)) \in Seq(Ids)
    BY <2>1
  <2>4. QED
    BY <1>2, <2>2, <2>3 DEF Unqueued, RemoveAt
<1>3. QED
  BY <1>1, <1>2

-----------------------------------------------------------------------------
(* Messages.                                                               *)

\* A step of the looper takes its head.
LEMMA TakeHead ==
  ASSUME ChannelTypeOK, LooperKeyed, looper # << >>, looper' = Tail(looper)
  PROVE  /\ Head(looper) \in Call \cup Post
         /\ Head(looper).type = "call" => Head(looper) \in Call
         /\ Head(looper).type = "post" => Head(looper) \in Post
         /\ Head(looper).type = "post" => Keyed(Head(looper).statuses)
         /\ looper' \in Seq(Call \cup Post)
         /\ LooperKeyed'
<1>1. looper \in Seq(Call \cup Post)
  BY DEF ChannelTypeOK
<1>2. /\ Head(looper) \in Call \cup Post
      /\ Tail(looper) \in Seq(Call \cup Post)
      /\ Head(looper) = looper[1] /\ 1 \in DOMAIN looper
      /\ \A i \in DOMAIN Tail(looper) :
           i + 1 \in DOMAIN looper /\ Tail(looper)[i] = looper[i + 1]
  BY <1>1
<1>3. \A x \in Call : x.type = "call"
  BY DEF Call
<1>4. \A x \in Post : x.type = "post"
  BY DEF Post
<1>5. Head(looper).type = "post" => Keyed(Head(looper).statuses)
  BY <1>2 DEF LooperKeyed
<1>6. LooperKeyed'
  BY <1>2 DEF LooperKeyed
<1>7. QED
  BY <1>2, <1>3, <1>4, <1>5, <1>6

\* A handler takes a call.
LEMMA TakeCall ==
  ASSUME ChannelTypeOK, LooperKeyed, NEW method, Handling(method)
  PROVE  /\ Head(looper) \in Call
         /\ looper' \in Seq(Call \cup Post)
         /\ LooperKeyed'
BY TakeHead DEF Handling

\* Appending a message to the isolate's keeps types and keys.
LEMMA SendToDart ==
  ASSUME ChannelTypeOK, ToDartKeyed, NEW msg \in Reply \cup Event,
         msg.type = "status" => Keyed(msg.statuses),
         toDart' = Append(toDart, msg)
  PROVE  toDart' \in Seq(Reply \cup Event) /\ ToDartKeyed'
<1>1. toDart \in Seq(Reply \cup Event)
  BY DEF ChannelTypeOK
<1>2. \A i \in DOMAIN Append(toDart, msg) :
        \/ i \in DOMAIN toDart /\ Append(toDart, msg)[i] = toDart[i]
        \/ Append(toDart, msg)[i] = msg
  BY <1>1
<1>3. ToDartKeyed'
  BY <1>2 DEF ToDartKeyed
<1>4. QED
  BY <1>1, <1>3

\* Appending a runnable to the looper's queue does, too ...
LEMMA PostOnLooper ==
  ASSUME ChannelTypeOK, LooperKeyed, NEW post \in Post, Keyed(post.statuses),
         looper' = Append(looper, post)
  PROVE  looper' \in Seq(Call \cup Post) /\ LooperKeyed'
<1>1. looper \in Seq(Call \cup Post)
  BY DEF ChannelTypeOK
<1>2. \A i \in DOMAIN Append(looper, post) :
        \/ i \in DOMAIN looper /\ Append(looper, post)[i] = looper[i]
        \/ Append(looper, post)[i] = post
  BY <1>1
<1>3. LooperKeyed'
  BY <1>2 DEF LooperKeyed
<1>4. QED
  BY <1>1, <1>3

\* ... and so does appending calls.
LEMMA CallsOnLooper ==
  ASSUME ChannelTypeOK, LooperKeyed, NEW calls \in Seq(Call),
         looper' = looper \o calls
  PROVE  looper' \in Seq(Call \cup Post) /\ LooperKeyed'
<1>1. looper \in Seq(Call \cup Post) /\ calls \in Seq(Call \cup Post)
  BY DEF ChannelTypeOK
<1>2. \A i \in DOMAIN (looper \o calls) :
        \/ i \in DOMAIN looper /\ (looper \o calls)[i] = looper[i]
        \/ (looper \o calls)[i] \in Call
  BY <1>1
<1>3. LooperKeyed'
  BY <1>2 DEF LooperKeyed, Call
<1>4. QED
  BY <1>1, <1>3

\* An answer, sent or dropped, does, too.
LEMMA AnswerSent ==
  ASSUME ChannelTypeOK, ToDartKeyed, Head(looper) \in Call, NEW ok \in BOOLEAN,
         Answer(ok)
  PROVE  toDart' \in Seq(Reply \cup Event) /\ ToDartKeyed'
<1> DEFINE msg == [type |-> "reply", tag |-> Head(looper).tag,
                   id |-> Head(looper).id, ok |-> ok]
<1>1. CASE toDart' = toDart
  BY <1>1 DEF ChannelTypeOK, ToDartKeyed
<1>2. CASE toDart' = Append(toDart, msg)
  <2>1. msg \in Reply /\ msg.type # "status"
    BY DEF Call, Reply
  <2>2. QED
    BY <1>2, <2>1, SendToDart
<1>3. QED
  BY <1>1, <1>2 DEF Answer

-----------------------------------------------------------------------------
(* The steps.                                                              *)

\* The parts a step can disturb, each with its keys.
TimerInv == TimerTypeOK /\ Keyed(poll.statuses)
ChannelInv == ChannelTypeOK /\ LooperKeyed /\ ToDartKeyed
NativeInv == SessionTypeOK /\ TimerInv /\ ChannelInv

\* What the timer reads is a list of statuses with one entry per torrent.
LEMMA SnapshotType ==
  ASSUME SessionTypeOK
  PROVE  Snapshot \in SUBSET Status /\ Keyed(Snapshot)
<1>1. ASSUME NEW id \in DOMAIN session
      PROVE  StatusOf(id) \in WireStatus
  BY DEF StatusOf, StatusString, WireStatus
<1>2. ASSUME NEW id \in DOMAIN session
      PROVE  /\ id \in Ids
             /\ QueuePosition(id) \in Nat \cup {-1}
  BY QueuePositionType DEF SessionTypeOK
<1>3. QED
  BY <1>1, <1>2 DEF Snapshot, Status, Keyed

\* A session without torrents is well typed.
LEMMA EmptySessionType ==
  ASSUME session' = EmptySession, order' = << >>, alive' \in BOOLEAN,
         sessionPaused' \in BOOLEAN
  PROVE  SessionTypeOK'
<1>1. DOMAIN session' = {} /\ session' \in [{} -> Handle]
  BY DEF EmptySession
<1>2. order' \in Seq(Ids)
  OBVIOUS
<1>3. QED
  BY <1>1, <1>2 DEF SessionTypeOK

\* What a step leaves alone stays well typed.
LEMMA SessionUnchanged ==
  ASSUME SessionTypeOK, UNCHANGED sessionVars
  PROVE  SessionTypeOK'
BY DEF SessionTypeOK, sessionVars

LEMMA TimerUnchanged ==
  ASSUME TimerInv, UNCHANGED <<pollVars, wakeLock>>
  PROVE  TimerInv'
BY DEF TimerInv, TimerTypeOK, pollVars

\* Every handler takes a call and answers it.
LEMMA CallAnswered ==
  ASSUME ChannelInv, NEW method, Handling(method), NEW ok \in BOOLEAN,
         Answer(ok)
  PROVE  Head(looper) \in Call /\ ChannelInv'
BY TakeCall, AnswerSent DEF ChannelInv, ChannelTypeOK

\* The handlers that change the session ...
LEMMA SessionHandlerStep ==
  ASSUME NativeInv,
         \/ HandleInitialize \/ HandleShutdown \/ HandleAddTorrent
         \/ HandleToggleTorrent \/ HandlePauseAll \/ HandleResumeAll
         \/ HandleDeleteTorrent
  PROVE  NativeInv'
<1> USE DEF NativeInv
<1>1. CASE HandleInitialize
  <2>1. ChannelInv'
    BY <1>1, CallAnswered DEF HandleInitialize
  <2>2. SessionTypeOK'
    BY <1>1, EmptySessionType DEF HandleInitialize, SessionTypeOK
  <2>3. TimerInv'
    BY <1>1, TimerUnchanged DEF HandleInitialize
  <2>4. QED
    BY <2>1, <2>2, <2>3
<1>2. CASE HandleShutdown
  <2>1. ChannelInv'
    BY <1>2, CallAnswered DEF HandleShutdown
  <2>2. SessionTypeOK'
    BY <1>2, EmptySessionType DEF HandleShutdown, SessionTypeOK
  <2>3. TimerInv'
    BY <1>2 DEF HandleShutdown, TimerInv, TimerTypeOK
  <2>4. QED
    BY <2>1, <2>2, <2>3
<1>3. CASE HandleAddTorrent
  <2> DEFINE id == Head(looper).id
  <2>1. Head(looper) \in Call /\ ChannelInv'
    BY <1>3, CallAnswered DEF HandleAddTorrent
  <2>2. SessionTypeOK'
    <3>1. CASE id \in DOMAIN session
      BY <1>3, <3>1 DEF HandleAddTorrent, SessionTypeOK
    <3>2. CASE id \notin DOMAIN session
      <4>1. id \in Ids
        BY <1>3, <2>1 DEF HandleAddTorrent, Handling, Call, EngineMethod
      <4>2. /\ session' = [x \in DOMAIN session \cup {id} |->
                             IF x = id
                             THEN [paused |-> FALSE,
                                   state |-> "checking_resume_data"]
                             ELSE session[x]]
            /\ order' = Append(order, id)
            /\ UNCHANGED <<alive, sessionPaused>>
        BY <1>3, <3>2 DEF HandleAddTorrent
      <4>3. [paused |-> FALSE, state |-> "checking_resume_data"] \in Handle
        BY DEF Handle, NativeState
      <4>4. /\ DOMAIN session' = DOMAIN session \cup {id}
            /\ session' \in [DOMAIN session \cup {id} -> Handle]
        BY <4>2, <4>3 DEF SessionTypeOK
      <4>5. QED
        BY <4>1, <4>2, <4>4 DEF SessionTypeOK
    <3>3. QED
      BY <3>1, <3>2
  <2>3. TimerInv'
    BY <1>3, TimerUnchanged DEF HandleAddTorrent
  <2>4. QED
    BY <2>1, <2>2, <2>3
<1>4. CASE HandleToggleTorrent
  <2> DEFINE id == Head(looper).id
  <2>1. ChannelInv'
    BY <1>4, CallAnswered DEF HandleToggleTorrent
  <2>2. \/ session' = session
        \/ \E p \in BOOLEAN :
             id \in DOMAIN session /\ session' = [session EXCEPT ![id].paused = p]
    BY <1>4 DEF HandleToggleTorrent
  <2>3. DOMAIN session' = DOMAIN session /\ session' \in [DOMAIN session -> Handle]
    BY <2>2 DEF SessionTypeOK, Handle
  <2>4. SessionTypeOK'
    BY <1>4, <2>3 DEF HandleToggleTorrent, SessionTypeOK
  <2>5. TimerInv'
    BY <1>4, TimerUnchanged DEF HandleToggleTorrent
  <2>6. QED
    BY <2>1, <2>4, <2>5
<1>5. CASE HandlePauseAll \/ HandleResumeAll
  <2>1. ChannelInv'
    BY <1>5, CallAnswered DEF HandlePauseAll, HandleResumeAll
  <2>2. SessionTypeOK'
    BY <1>5 DEF HandlePauseAll, HandleResumeAll, SessionTypeOK
  <2>3. TimerInv'
    BY <1>5, TimerUnchanged DEF HandlePauseAll, HandleResumeAll
  <2>4. QED
    BY <2>1, <2>2, <2>3
<1>6. CASE HandleDeleteTorrent
  <2> DEFINE id == Head(looper).id
  <2>1. ChannelInv'
    BY <1>6, CallAnswered DEF HandleDeleteTorrent
  <2>2. /\ session' = [x \in DOMAIN session \ {id} |-> session[x]]
        /\ order' = Unqueued(id)
        /\ UNCHANGED <<alive, sessionPaused>>
    BY <1>6 DEF HandleDeleteTorrent
  <2>3. Unqueued(id) \in Seq(Ids)
    BY UnqueuedType DEF SessionTypeOK
  <2>4. SessionTypeOK'
    BY <2>2, <2>3 DEF SessionTypeOK
  <2>5. TimerInv'
    BY <1>6, TimerUnchanged DEF HandleDeleteTorrent
  <2>6. QED
    BY <2>1, <2>4, <2>5
<1>7. QED
  BY <1>1, <1>2, <1>3, <1>4, <1>5, <1>6

\* ... and those that do not.
LEMMA OtherHandlerStep ==
  ASSUME NativeInv,
         \/ HandleInitializeFails \/ HandleAddTorrentFails \/ HandleWakeLock
         \/ HandleListen \/ HandleCancel
  PROVE  NativeInv'
<1> USE DEF NativeInv
<1>1. ChannelInv'
  BY CallAnswered DEF HandleInitializeFails, HandleAddTorrentFails,
     HandleWakeLock, HandleListen, HandleCancel
<1>2. SessionTypeOK'
  BY SessionUnchanged DEF HandleInitializeFails, HandleAddTorrentFails,
     HandleWakeLock, HandleListen, HandleCancel
<1>3. TimerInv'
  BY DEF HandleInitializeFails, HandleAddTorrentFails, HandleWakeLock,
     HandleListen, HandleCancel, TimerInv, TimerTypeOK, pollVars
<1>4. QED
  BY <1>1, <1>2, <1>3

\* The timer's runnable hands a list to the isolate.
LEMMA PostStep ==
  ASSUME NativeInv, HandlePost
  PROVE  NativeInv'
<1> USE DEF NativeInv
<1>1. SessionTypeOK' /\ TimerInv'
  BY SessionUnchanged, TimerUnchanged DEF HandlePost
<1>2. /\ Head(looper) \in Post /\ Keyed(Head(looper).statuses)
      /\ looper' \in Seq(Call \cup Post) /\ LooperKeyed'
  BY TakeHead DEF HandlePost, ChannelInv
<1>3. toDart' \in Seq(Reply \cup Event) /\ ToDartKeyed'
  <2> DEFINE msg == [type |-> "status", statuses |-> Head(looper).statuses]
  <2>1. msg \in Event /\ Keyed(msg.statuses)
    BY <1>2 DEF Post, Event
  <2>2. CASE toDart' = Append(toDart, msg)
    BY <2>1, <2>2, SendToDart DEF ChannelInv
  <2>3. CASE toDart' = toDart
    BY <2>3 DEF ChannelInv, ChannelTypeOK, ToDartKeyed
  <2>4. QED
    BY <2>2, <2>3 DEF HandlePost
<1>4. QED
  BY <1>1, <1>2, <1>3 DEF ChannelInv, ChannelTypeOK

\* The timer thread.
LEMMA TimerStep ==
  ASSUME NativeInv, Timer
  PROVE  NativeInv'
<1> USE DEF NativeInv
<1>1. SessionTypeOK'
  BY SessionUnchanged DEF Timer, PollCheck, PollRead, PollReadDangling, PollPost
<1>2. TimerInv'
  <2>1. CASE PollCheck
    BY <2>1 DEF PollCheck, TimerInv, TimerTypeOK
  <2>2. CASE PollRead
    <3>1. poll' = [pc |-> "read", statuses |-> Snapshot]
      BY <2>2 DEF PollRead
    <3>2. poll' \in [pc : {"idle", "reading", "read"}, statuses : SUBSET Status]
      BY <3>1, SnapshotType
    <3>3. QED
      BY <2>2, <3>1, <3>2, SnapshotType DEF PollRead, TimerInv, TimerTypeOK
  <2>3. CASE PollReadDangling \/ PollPost
    BY <2>3 DEF PollReadDangling, PollPost, PollIdle, TimerInv, TimerTypeOK,
       Keyed
  <2>4. QED
    BY <2>1, <2>2, <2>3 DEF Timer
<1>3. ChannelInv'
  <2>1. CASE UNCHANGED <<looper, toDart>>
    BY <2>1 DEF ChannelInv, ChannelTypeOK, LooperKeyed, ToDartKeyed
  <2>2. CASE PollPost /\ looper' # looper
    <3> DEFINE msg == [type |-> "post", statuses |-> poll.statuses]
    <3>1. msg \in Post /\ Keyed(msg.statuses)
      BY DEF TimerInv, TimerTypeOK, Post
    <3>2. looper' = Append(looper, msg)
      BY <2>2 DEF PollPost
    <3>3. looper' \in Seq(Call \cup Post) /\ LooperKeyed'
      BY <3>1, <3>2, PostOnLooper DEF ChannelInv
    <3>4. QED
      BY <2>2, <3>3 DEF PollPost, ChannelInv, ChannelTypeOK, ToDartKeyed
  <2>3. QED
    BY <2>1, <2>2 DEF Timer, PollCheck, PollRead, PollReadDangling, PollPost
<1>4. QED
  BY <1>1, <1>2, <1>3

\* A torrent moves on.
LEMMA AdvanceStep ==
  ASSUME NativeAssumption, NativeInv, NEW id \in Ids, Advance(id)
  PROVE  NativeInv'
<1> USE DEF NativeInv
<1>1. TimerInv' /\ ChannelInv'
  BY TimerUnchanged DEF Advance, ChannelInv, ChannelTypeOK, LooperKeyed,
     ToDartKeyed
<1>2. PICK step \in StateSteps :
        /\ session' = [session EXCEPT ![id].state = step[2]]
        /\ order' \in {order, Unqueued(id)}
  BY DEF Advance
<1>3. step[2] \in NativeState
  <2>1. step \in NativeState \X NativeState
    BY DEF NativeAssumption
  <2>2. QED
    BY <2>1
<1>4. DOMAIN session' = DOMAIN session /\ session' \in [DOMAIN session -> Handle]
  <2>1. id \in DOMAIN session /\ session \in [DOMAIN session -> Handle]
    BY DEF Advance, Transferring, SessionTypeOK
  <2>2. session[id] \in Handle
    BY <2>1
  <2>3. [session[id] EXCEPT !.state = step[2]] \in Handle
    BY <1>3, <2>2 DEF Handle
  <2>4. QED
    BY <1>2, <2>1, <2>3
<1>5. order' \in Seq(Ids)
  BY <1>2, UnqueuedType DEF SessionTypeOK
<1>6. SessionTypeOK'
  BY <1>2, <1>4, <1>5 DEF Advance, SessionTypeOK
<1>7. QED
  BY <1>1, <1>6

\* Every step of the Android side keeps its invariant.
THEOREM NativeStep ==
  ASSUME NativeAssumption, NativeInv, NativeNext
  PROVE  NativeInv'
BY SessionHandlerStep, OtherHandlerStep, PostStep, TimerStep, AdvanceStep
   DEF NativeNext, HandleLooper

-----------------------------------------------------------------------------
(* The Dart side: its data.                                                *)

\* A set with at most one element per torrent is finite.
LEMMA KeyedFinite ==
  ASSUME EngineAssumption, NEW S, \A x \in S : x.id \in Ids, Keyed(S)
  PROVE  IsFiniteSet(S)
<1> DEFINE f == [x \in S |-> x.id]
<1>1. f \in Injection(S, Ids)
  BY DEF Keyed, Injection, IsInjective
<1>2. QED
  BY <1>1, FS_Injection DEF EngineAssumption

\* An ordering of a finite set is a sequence of its elements, each of which
\* occurs once.
LEMMA OrderingType ==
  ASSUME NEW S, IsFiniteSet(S), NEW q \in SetToSeqs(S)
  PROVE  /\ q \in Seq(S)
         /\ DOMAIN q = 1..Len(q)
         /\ \A i, j \in DOMAIN q : q[i] = q[j] => i = j
         /\ \A x \in S : \E i \in DOMAIN q : q[i] = x
<1>1. Cardinality(S) \in Nat
  BY FS_CardinalityType
<1>2. q \in [1..Cardinality(S) -> S]
  BY DEF SetToSeqs
<1>3. \A i, j \in 1..Cardinality(S) : q[i] = q[j] => i = j
  BY DEF SetToSeqs
<1>4. q \in Injection(1..Cardinality(S), S)
  BY <1>2, <1>3 DEF Injection, IsInjective
<1>5. q \in Surjection(1..Cardinality(S), S)
  <2>1. Cardinality(1..Cardinality(S)) = Cardinality(S)
    BY <1>1, FS_Interval
  <2>2. QED
    BY <1>4, <2>1, FS_Injection
<1>6. QED
  BY <1>1, <1>2, <1>3, <1>5 DEF Surjection

\* What each kind of request carries.
LEMMA RequestFields ==
  ASSUME NEW r \in Request
  PROVE  /\ r.op = "upsert" => r.row \in Row /\ r.slot \in Slots \cup {NoSlot}
         /\ r.op = "order" => r.pos \in [Ids -> Nat]
         /\ r.op = "delete" => r.id \in Ids \cup {None}
<1>1. CASE r \in UpsertRequest
  BY <1>1 DEF UpsertRequest
<1>2. CASE r \in OrderRequest
  BY <1>2 DEF OrderRequest
<1>3. CASE r \in DeleteRequest
  BY <1>3 DEF DeleteRequest
<1>4. CASE r \in LoadRequest \cup SettingRequest
  BY <1>4 DEF LoadRequest, SettingRequest
<1>5. QED
  BY <1>1, <1>2, <1>3, <1>4 DEF Request

\* A request to write a row.
LEMMA UpsertType ==
  ASSUME NEW row \in Row, NEW slot \in Slots \cup {NoSlot}
  PROVE  Upsert(row, slot) \in Request
<1>1. Upsert(row, slot) \in UpsertRequest
  BY DEF Upsert, UpsertRequest
<1>2. UpsertRequest \subseteq Request
  BY DEF Request
<1>3. QED
  BY <1>1, <1>2

\* Requests to read the table or a setting, to delete a row, and to renumber.
LEMMA SettingType ==
  ASSUME NEW tag \in {"finish", "power"}
  PROVE  [op |-> "setting", tag |-> tag] \in Request
<1>1. [op |-> "setting", tag |-> tag] \in SettingRequest
  BY DEF SettingRequest
<1>2. SettingRequest \subseteq Request
  BY DEF Request
<1>3. QED
  BY <1>1, <1>2

LEMMA LoadType == [op |-> "load"] \in Request
<1>1. [op |-> "load"] \in LoadRequest
  BY DEF LoadRequest
<1>2. LoadRequest \subseteq Request
  BY DEF Request
<1>3. QED
  BY <1>1, <1>2

LEMMA DeleteType ==
  ASSUME NEW id \in Ids \cup {None}
  PROVE  [op |-> "delete", id |-> id] \in Request
<1>1. [op |-> "delete", id |-> id] \in DeleteRequest
  BY DEF DeleteRequest
<1>2. DeleteRequest \subseteq Request
  BY DEF Request
<1>3. QED
  BY <1>1, <1>2

LEMMA OrderType ==
  ASSUME NEW pos \in [Ids -> Nat]
  PROVE  [op |-> "order", pos |-> pos] \in Request
<1>1. [op |-> "order", pos |-> pos] \in OrderRequest
  BY DEF OrderRequest
<1>2. OrderRequest \subseteq Request
  BY DEF Request
<1>3. QED
  BY <1>1, <1>2

\* saveTorrents starts.
LEMMA StartSavingType ==
  ASSUME NEW slot \in Slots, NEW list \in SUBSET Row,
         NEW sv \in [Slots -> Saver], NEW before \in Seq(Request),
         StartSaving(slot, list, sv, before)
  PROVE  savers' \in [Slots -> Saver] /\ dbQueue' \in Seq(Request)
<1>1. CASE list = {}
  <2>1. SaverIdle \in Saver
    BY DEF SaverIdle, Saver
  <2>2. QED
    BY <1>1, <2>1 DEF StartSaving
<1>2. CASE list # {}
  <2>1. PICK row \in list :
          /\ savers' = [sv EXCEPT ![slot] =
                          [todo |-> list \ {row}, onList |-> TRUE]]
          /\ dbQueue' = Append(before, Upsert(row, slot))
    BY <1>2 DEF StartSaving
  <2>2. [todo |-> list \ {row}, onList |-> TRUE] \in Saver
    BY DEF Saver
  <2>3. Upsert(row, slot) \in Request
    BY UpsertType
  <2>4. QED
    BY <2>1, <2>2, <2>3
<1>3. QED
  BY <1>1, <1>2

\* The loops while the list is assigned anew, or loses a row.
LEMMA SaversType ==
  ASSUME NEW sv \in [Slots -> Saver]
  PROVE  Reassigned(sv) \in [Slots -> Saver] /\ Shrunk(sv) \in [Slots -> Saver]
<1>1. \A s \in Slots : [sv[s] EXCEPT !.onList = FALSE] \in Saver
  BY DEF Saver
<1>2. SaverIdle \in Saver
  BY DEF SaverIdle, Saver
<1>3. QED
  BY <1>1, <1>2 DEF Reassigned, Shrunk

\* A status list makes well-typed rows.
LEMMA StatusRowType ==
  ASSUME NEW st \in Status, NEW n \in Nat
  PROVE  /\ NewRow(st, n) \in Row
         /\ \A row \in Row : Updated(row, st) \in Row /\ Updated(row, st).id = row.id
         /\ NewRow(st, n).id = st.id
<1>1. ParseTorrentStatus(st.status) \in TorrentStatus
  BY DEF Status, WireStatus, ParseTorrentStatus, TorrentStatus
<1>2. st.id \in Ids /\ st.pos \in Int
  BY DEF Status
<1>3. NewRow(st, n) \in Row /\ NewRow(st, n).id = st.id
  BY <1>1, <1>2 DEF NewRow, Row
<1>4. ASSUME NEW row \in Row
      PROVE  Updated(row, st) \in Row /\ Updated(row, st).id = row.id
  <2> DEFINE n1 == IF st.pos > 0 THEN st.pos ELSE row.queue
  <2>1. n1 \in Nat
    BY <1>2 DEF Row
  <2>2. Updated(row, st) =
          [row EXCEPT !.status = ParseTorrentStatus(st.status), !.queue = n1]
    BY DEF Updated
  <2> HIDE DEF n1
  <2>3. QED
    BY <1>1, <2>1, <2>2 DEF Row
<1>5. QED
  BY <1>3, <1>4

\* Which rows a torrent's status turns into which.
LEMMA MergedRowType ==
  ASSUME NEW statuses \in SUBSET Status, NEW row \in Row
  PROVE  MergedRow(row, statuses) \in Row /\ MergedRow(row, statuses).id = row.id
<1>1. CASE \E st \in statuses : st.id = row.id
  <2> DEFINE st == CHOOSE st \in statuses : st.id = row.id
  <2>1. st \in Status
    BY <1>1
  <2> HIDE DEF st
  <2>2. Updated(row, st) \in Row /\ Updated(row, st).id = row.id
    BY <2>1, 0 \in Nat, StatusRowType
  <2>3. QED
    BY <1>1, <2>2 DEF MergedRow, st
<1>2. CASE ~\E st \in statuses : st.id = row.id
  BY <1>2 DEF MergedRow
<1>3. QED
  BY <1>1, <1>2

\* A check of the constraints keeps a row's torrent.
LEMMA AppliedRowType ==
  ASSUME NEW row \in Row, NEW v \in BOOLEAN
  PROVE  AppliedRow(row, v) \in Row /\ AppliedRow(row, v).id = row.id
<1>1. [row EXCEPT !.status = "blocked", !.reason = TRUE] \in Row
  BY DEF Row, TorrentStatus
<1>2. [row EXCEPT !.status = "paused"] \in Row
  BY DEF Row, TorrentStatus
<1>3. QED
  BY <1>1, <1>2 DEF AppliedRow, Row

\* Functions over an initial segment of the naturals are sequences.
LEMMA SegmentSeq ==
  ASSUME NEW S, NEW n \in Nat, NEW f, f \in [1..n -> S]
  PROVE  f \in Seq(S)
OBVIOUS

-----------------------------------------------------------------------------
(* Calls.                                                                  *)

LEMMA TorrentCall ==
  ASSUME NEW method \in TorrentMethod, NEW id \in Ids, NEW tag \in Tags
  PROVE  MakeCall(method, id, tag) \in Call
BY DEF MakeCall, Call

LEMMA EngineCall ==
  ASSUME NEW method \in EngineMethod, NEW tag \in Tags
  PROVE  MakeCall(method, None, tag) \in Call
BY DEF MakeCall, Call

\* What the isolate receives.
LEMMA Received ==
  ASSUME ChannelInv, toDart # << >>, toDart' = Tail(toDart)
  PROVE  /\ Head(toDart).type = "reply" => Head(toDart) \in Reply
         /\ Head(toDart).type = "status" =>
              Head(toDart) \in Event /\ Keyed(Head(toDart).statuses)
         /\ toDart' \in Seq(Reply \cup Event)
         /\ ToDartKeyed'
<1>1. toDart \in Seq(Reply \cup Event)
  BY DEF ChannelInv, ChannelTypeOK
<1>2. /\ Head(toDart) \in Reply \cup Event
      /\ Tail(toDart) \in Seq(Reply \cup Event)
      /\ Head(toDart) = toDart[1] /\ 1 \in DOMAIN toDart
      /\ \A i \in DOMAIN Tail(toDart) :
           i + 1 \in DOMAIN toDart /\ Tail(toDart)[i] = toDart[i + 1]
  BY <1>1
<1>3. \A x \in Reply : x.type = "reply"
  BY DEF Reply
<1>4. \A x \in Event : x.type = "status"
  BY DEF Event
<1>5. Head(toDart).type = "status" => Keyed(Head(toDart).statuses)
  BY <1>2 DEF ChannelInv, ToDartKeyed
<1>6. ToDartKeyed'
  BY <1>2 DEF ChannelInv, ToDartKeyed
<1>7. QED
  BY <1>2, <1>3, <1>4, <1>5, <1>6

\* A step of the isolate takes at most one message and makes some calls.
LEMMA IsolateStep ==
  ASSUME NativeInv, UNCHANGED platformVars,
         toDart' = toDart \/ (toDart # << >> /\ toDart' = Tail(toDart)),
         NEW calls \in Seq(Call), looper' = looper \/ CallNative(calls)
  PROVE  NativeInv'
<1>1. SessionTypeOK' /\ TimerInv'
  BY SessionUnchanged, TimerUnchanged DEF NativeInv, platformVars
<1>2. looper' \in Seq(Call \cup Post) /\ LooperKeyed'
  <2>1. CASE looper' = looper
    BY <2>1 DEF NativeInv, ChannelInv, ChannelTypeOK, LooperKeyed
  <2>2. CASE CallNative(calls)
    BY <2>2, CallsOnLooper DEF CallNative, NativeInv, ChannelInv
  <2>3. QED
    BY <2>1, <2>2
<1>3. toDart' \in Seq(Reply \cup Event) /\ ToDartKeyed'
  <2>1. CASE toDart' = toDart
    BY <2>1 DEF NativeInv, ChannelInv, ChannelTypeOK, ToDartKeyed
  <2>2. CASE toDart # << >> /\ toDart' = Tail(toDart)
    BY <2>2, Received DEF NativeInv
  <2>3. QED
    BY <2>1, <2>2
<1>4. QED
  BY <1>1, <1>2, <1>3 DEF NativeInv, ChannelInv, ChannelTypeOK

-----------------------------------------------------------------------------
(* The invariant.                                                          *)

\* The list and the table have one row per torrent.
ListInv == rows \in SUBSET Row /\ Keyed(rows)
StoreInv == StoreTypeOK /\ Keyed(db)

IInv == NativeInv /\ ListInv /\ LifeTypeOK /\ WatchTypeOK /\ StoreInv

\* What a step leaves alone.
LEMMA ListUnchanged ==
  ASSUME ListInv, UNCHANGED rows
  PROVE  ListInv'
BY DEF ListInv

LEMMA WatchUnchanged ==
  ASSUME WatchTypeOK, UNCHANGED watchVars
  PROVE  WatchTypeOK'
BY DEF WatchTypeOK, watchVars

LEMMA LifeUnchanged ==
  ASSUME LifeTypeOK, UNCHANGED <<lifeVars, initPc, used>>
  PROVE  LifeTypeOK'
BY DEF LifeTypeOK, lifeVars

LEMMA StoreUnchanged ==
  ASSUME StoreInv, UNCHANGED storeVars
  PROVE  StoreInv'
BY DEF StoreInv, StoreTypeOK, storeVars

\* A user operation is counted.
LEMMA UsedType ==
  ASSUME LifeTypeOK, NEW op \in UserOps, Do(op)
  PROVE  used' \in [UserOps -> Nat]
BY DEF LifeTypeOK, Do

\* The table after a write.
LEMMA StoredType ==
  ASSUME NEW table \in SUBSET Row, Keyed(table), NEW row \in Row
  PROVE  Stored(table, row) \in SUBSET Row /\ Keyed(Stored(table, row))
BY DEF Stored, Keyed

\* The initial state.
LEMMA InitIInv == EngineAssumption /\ Init => IInv
<1> SUFFICES ASSUME EngineAssumption, Init PROVE IInv
  OBVIOUS
<1>1. SessionTypeOK
  <2>1. DOMAIN session = {} /\ session \in [{} -> Handle]
    BY DEF Init, EmptySession
  <2>2. /\ alive \in BOOLEAN /\ sessionPaused \in BOOLEAN
        /\ order = << >>
    BY DEF Init
  <2>3. QED
    BY <2>1, <2>2 DEF SessionTypeOK
<1>2. TimerInv
  BY DEF Init, TimerInv, TimerTypeOK, PollIdle, Keyed
<1>3. ChannelInv
  <2>1. FirstCall \in Call
    BY EngineCall DEF FirstCall, EngineMethod, EngineAssumption, EngineTags
  <2>2. FirstCall.type = "call"
    BY DEF FirstCall, MakeCall
  <2>3. QED
    BY <2>1, <2>2 DEF Init, ChannelInv, ChannelTypeOK, LooperKeyed, ToDartKeyed
<1>4. ListInv /\ LifeTypeOK /\ WatchTypeOK
  BY DEF Init, ListInv, Keyed, LifeTypeOK, WatchTypeOK, Subscription
<1>5. StoreInv
  <2>1. NoSavers \in [Slots -> Saver]
    BY DEF NoSavers, SaverIdle, Saver
  <2>2. QED
    BY <2>1 DEF Init, StoreInv, StoreTypeOK, Keyed
<1>6. QED
  BY <1>1, <1>2, <1>3, <1>4, <1>5 DEF NativeInv, IInv

-----------------------------------------------------------------------------
(* The isolate's steps.                                                    *)

\* A step that changes neither the list, the savers nor the database.
LEMMA CallingStep ==
  ASSUME IInv, UNCHANGED <<platformVars, rows, storeVars>>,
         toDart' = toDart \/ (toDart # << >> /\ toDart' = Tail(toDart)),
         NEW calls \in Seq(Call), looper' = looper \/ CallNative(calls)
  PROVE  NativeInv' /\ ListInv' /\ StoreInv'
BY IsolateStep, ListUnchanged, StoreUnchanged DEF IInv

\* The statuses of torrents the list does not know are finitely many.
LEMMA UnknownFinite ==
  ASSUME EngineAssumption, NEW statuses \in SUBSET Status, Keyed(statuses)
  PROVE  IsFiniteSet(Unknown(statuses))
<1>1. \A st \in Unknown(statuses) : st.id \in Ids
  BY DEF Unknown, Status
<1>2. Keyed(Unknown(statuses))
  BY DEF Unknown, Keyed
<1>3. QED
  BY <1>1, <1>2, KeyedFinite

\* The list is finite.
LEMMA RowsFinite ==
  ASSUME EngineAssumption, ListInv
  PROVE  IsFiniteSet(rows) /\ Cardinality(rows) \in Nat
<1>1. \A row \in rows : row.id \in Ids
  BY DEF ListInv, Row
<1>2. QED
  BY <1>1, KeyedFinite, FS_CardinalityType DEF ListInv

\* _onStatusUpdate appends a row only for a torrent that no row of the list
\* has, and only one for it.
LEMMA StatusUpdateStep ==
  ASSUME EngineAssumption, IInv, StatusUpdate
  PROVE  IInv'
<1> DEFINE statuses == Head(toDart).statuses
<1>1. NativeInv'
  <2>1. << >> \in Seq(Call)
    OBVIOUS
  <2>2. QED
    BY <2>1, IsolateStep DEF StatusUpdate, Receive, IInv
<1>2. LifeTypeOK' /\ WatchTypeOK'
  BY LifeUnchanged, WatchUnchanged DEF StatusUpdate, IInv
<1>3. CASE statusSub # "listening"
  BY <1>1, <1>2, <1>3, ListUnchanged, StoreUnchanged
     DEF StatusUpdate, IInv, storeVars
<1>4. CASE statusSub = "listening"
  <2>1. statuses \in SUBSET Status /\ Keyed(statuses)
    <3>1. Head(toDart) \in Event /\ Keyed(Head(toDart).statuses)
      BY Received DEF StatusUpdate, Receive, IInv, NativeInv
    <3>2. QED
      BY <3>1 DEF Event
  <2> DEFINE added(new) == [i \in DOMAIN new |->
                              NewRow(new[i], Cardinality(rows) + i - 1)]
             saves(new) == [i \in DOMAIN new |-> Upsert(added(new)[i], NoSlot)]
             check == IF \E row \in rows : Finishes(row, statuses)
                      THEN <<[op |-> "setting", tag |-> "finish"]>>
                      ELSE << >>
  <2>2. PICK new \in SetToSeqs(Unknown(statuses)) :
          /\ rows' = {MergedRow(row, statuses) : row \in rows}
                       \cup {added(new)[i] : i \in DOMAIN new}
          /\ savers' = Reassigned(savers)
          /\ dbQueue' = dbQueue \o saves(new) \o check
    BY <1>4, Zenon DEF StatusUpdate
  <2>3. /\ new \in Seq(Unknown(statuses))
        /\ DOMAIN new = 1..Len(new)
        /\ \A i, j \in DOMAIN new : new[i] = new[j] => i = j
    BY <2>1, UnknownFinite, OrderingType
  <2>4. \A i \in DOMAIN new :
          /\ new[i] \in statuses
          /\ new[i] \in Status
          /\ ~Listed(new[i].id)
    BY <2>1, <2>3 DEF Unknown
  <2>5. \A i \in DOMAIN new :
          added(new)[i] \in Row /\ added(new)[i].id = new[i].id
    <3>1. TAKE i \in DOMAIN new
    <3>2. Cardinality(rows) + i - 1 \in Nat
      <4>1. Cardinality(rows) \in Nat
        BY RowsFinite DEF IInv
      <4>2. i \in 1..Len(new) /\ Len(new) \in Nat
        BY <2>3
      <4>3. QED
        BY <4>1, <4>2
    <3>3. QED
      BY <2>4, <3>2, StatusRowType
  <2>6. \A row \in rows : MergedRow(row, statuses) \in Row
                          /\ MergedRow(row, statuses).id = row.id
    BY <2>1, MergedRowType DEF IInv, ListInv
  <2> HIDE DEF statuses, added
  <2>7. ListInv'
    <3>1. rows' \in SUBSET Row
      BY <2>2, <2>5, <2>6
    <3>2. ASSUME NEW x \in rows', NEW y \in rows', x.id = y.id
          PROVE  x = y
      <4>1. CASE \E r1, r2 \in rows : /\ x = MergedRow(r1, statuses)
                                      /\ y = MergedRow(r2, statuses)
        BY <3>2, <4>1, <2>6 DEF IInv, ListInv, Keyed
      <4>2. CASE \E i, j \in DOMAIN new : x = added(new)[i] /\ y = added(new)[j]
        <5>1. PICK i \in DOMAIN new, j \in DOMAIN new :
                x = added(new)[i] /\ y = added(new)[j]
          BY <4>2
        <5>2. new[i].id = new[j].id
          BY <3>2, <5>1, <2>5
        <5>3. new[i] = new[j]
          BY <5>2, <2>4, <2>1 DEF Keyed
        <5>4. QED
          BY <5>1, <5>3, <2>3
      <4>3. ASSUME NEW row \in rows, NEW i \in DOMAIN new
            PROVE  MergedRow(row, statuses).id # added(new)[i].id
        BY <2>4, <2>5, <2>6 DEF Listed
      <4>4. QED
        BY <3>2, <2>2, <4>1, <4>2, <4>3
    <3>3. QED
      BY <3>1, <3>2 DEF ListInv, Keyed
  <2>8. StoreInv'
    <3>1. saves(new) \in Seq(Request)
      <4>1. \A i \in DOMAIN new : Upsert(added(new)[i], NoSlot) \in Request
        BY <2>5, UpsertType
      <4>2. saves(new) \in [1..Len(new) -> Request] /\ Len(new) \in Nat
        BY <2>3, <4>1
      <4>3. QED
        BY <4>2, SegmentSeq
    <3>2. check \in Seq(Request)
      <4>1. [op |-> "setting", tag |-> "finish"] \in Request
        BY SettingType
      <4>2. QED
        BY <4>1
    <3> HIDE DEF saves, check
    <3>3. dbQueue' \in Seq(Request)
      BY <2>2, <3>1, <3>2 DEF IInv, StoreInv, StoreTypeOK
    <3>4. savers' \in [Slots -> Saver]
      BY <2>2, SaversType DEF IInv, StoreInv, StoreTypeOK
    <3>5. QED
      BY <3>3, <3>4 DEF StatusUpdate, IInv, StoreInv, StoreTypeOK
  <2>9. QED
    BY <1>1, <1>2, <2>7, <2>8 DEF IInv
<1>5. QED
  BY <1>3, <1>4

-----------------------------------------------------------------------------
(* The constraints.                                                        *)

\* The calls _applyConstraints makes are toggles nobody awaits.
Toggles(calls) ==
  \A i \in DOMAIN calls :
    /\ calls[i].type = "call" /\ calls[i].method = "toggleTorrent"
    /\ calls[i].tag = NoTag

\* _applyConstraints replaces rows by rows of the same torrents.
LEMMA ApplyConstraintsType ==
  ASSUME NativeAssumption, EngineAssumption, IInv, NEW v \in BOOLEAN,
         NEW slot \in Slots,
         NEW before \in Seq(Request), ApplyConstraints(v, slot, before)
  PROVE  /\ ListInv'
         /\ savers' \in [Slots -> Saver]
         /\ dbQueue' \in Seq(Request)
         /\ \E calls \in Seq(Call) : CallNative(calls)
         /\ \E calls \in Seq(Call) : CallNative(calls) /\ Toggles(calls)
<1> DEFINE hit == {row.id : row \in {r \in rows : v /\ ToBlock(r)}}
           list == {AppliedRow(row, v) : row \in rows}
<1>1. /\ rows' = list
      /\ \E ids \in SetToSeqs(hit) :
           CallNative([i \in DOMAIN ids |->
                         MakeCall("toggleTorrent", ids[i], NoTag)])
      /\ StartSaving(slot, list, Reassigned(savers), before)
  BY Zenon DEF ApplyConstraints
<1>2. \A row \in rows :
        AppliedRow(row, v) \in Row /\ AppliedRow(row, v).id = row.id
  BY AppliedRowType DEF IInv, ListInv
<1>3. list \in SUBSET Row
  BY <1>2
<1>4. Keyed(list)
  BY <1>2 DEF IInv, ListInv, Keyed
<1>5. hit \subseteq Ids
  BY DEF IInv, ListInv, Row
<1>6. IsFiniteSet(hit)
  BY <1>5, FS_Subset DEF EngineAssumption
<1> HIDE DEF hit, list
<1>7. PICK ids \in SetToSeqs(hit) :
        CallNative([i \in DOMAIN ids |->
                      MakeCall("toggleTorrent", ids[i], NoTag)])
  BY <1>1
<1>8. [i \in DOMAIN ids |-> MakeCall("toggleTorrent", ids[i], NoTag)] \in Seq(Call)
  <2>1. ids \in Seq(hit) /\ DOMAIN ids = 1..Len(ids)
    BY <1>6, OrderingType
  <2>2. \A i \in DOMAIN ids : ids[i] \in Ids
    BY <2>1, <1>5
  <2>3. \A i \in DOMAIN ids : MakeCall("toggleTorrent", ids[i], NoTag) \in Call
    BY <2>2, TorrentCall DEF TorrentMethod, NativeAssumption
  <2>4. /\ [i \in DOMAIN ids |-> MakeCall("toggleTorrent", ids[i], NoTag)]
             \in [1..Len(ids) -> Call]
        /\ Len(ids) \in Nat
    BY <2>1, <2>3
  <2>5. QED
    BY <2>4, SegmentSeq
<1>9. savers' \in [Slots -> Saver] /\ dbQueue' \in Seq(Request)
  <2>1. Reassigned(savers) \in [Slots -> Saver]
    BY SaversType DEF IInv, StoreInv, StoreTypeOK
  <2>2. QED
    BY <1>1, <1>3, <2>1, StartSavingType
<1>10. Toggles([i \in DOMAIN ids |-> MakeCall("toggleTorrent", ids[i], NoTag)])
  BY DEF Toggles, MakeCall
<1>11. QED
  BY <1>1, <1>3, <1>4, <1>7, <1>8, <1>9, <1>10 DEF ListInv

LEMMA ConstraintsCheckedStep ==
  ASSUME NativeAssumption, EngineAssumption, IInv, NEW v \in BOOLEAN,
         ConstraintsChecked(v)
  PROVE  IInv'
<1>1. LifeTypeOK'
  BY UsedType DEF ConstraintsChecked, IInv, LifeTypeOK, lifeVars, UserOps
<1>2. WatchTypeOK'
  BY DEF ConstraintsChecked, IInv, WatchTypeOK
<1>3. "constraints" \in Slots
  BY DEF EngineAssumption
<1>4. CASE ApplyConstraints(v, "constraints", dbQueue)
  <2>1. /\ ListInv'
        /\ savers' \in [Slots -> Saver]
        /\ dbQueue' \in Seq(Request)
        /\ \E calls \in Seq(Call) : CallNative(calls)
    BY <1>3, <1>4, ApplyConstraintsType DEF IInv, StoreInv, StoreTypeOK
  <2>2. NativeInv'
    BY <2>1, IsolateStep DEF ConstraintsChecked, IInv
  <2>3. QED
    BY <1>1, <1>2, <2>1, <2>2
       DEF ConstraintsChecked, IInv, StoreInv, StoreTypeOK
<1>5. CASE UNCHANGED <<rows, looper, savers, dbQueue>>
  <2>1. << >> \in Seq(Call)
    OBVIOUS
  <2>2. NativeInv' /\ ListInv' /\ StoreInv'
    BY <1>5, <2>1, CallingStep DEF ConstraintsChecked, storeVars
  <2>3. QED
    BY <1>1, <1>2, <2>2 DEF IInv
<1>6. QED
  BY <1>4, <1>5 DEF ConstraintsChecked

LEMMA InitCheckedStep ==
  ASSUME NativeAssumption, EngineAssumption, IInv, NEW v \in BOOLEAN,
         InitChecked(v)
  PROVE  IInv'
<1>1. LifeTypeOK' /\ WatchTypeOK'
  BY DEF InitChecked, IInv, LifeTypeOK, lifeVars, WatchTypeOK, Subscription
<1>2. PICK before \in Seq(Request) : ApplyConstraints(v, "init", before)
  <2>1. dbQueue \in Seq(Request)
    BY DEF IInv, StoreInv, StoreTypeOK
  <2>2. Append(dbQueue, [op |-> "setting", tag |-> "power"]) \in Seq(Request)
    BY <2>1, SettingType
  <2>3. QED
    BY <2>1, <2>2 DEF InitChecked
<1>3. "init" \in Slots
  BY DEF EngineAssumption
<1>4. /\ ListInv'
      /\ savers' \in [Slots -> Saver]
      /\ dbQueue' \in Seq(Request)
      /\ \E calls \in Seq(Call) : CallNative(calls)
  BY <1>2, <1>3, ApplyConstraintsType
<1>5. NativeInv'
  BY <1>4, IsolateStep DEF InitChecked, IInv
<1>6. QED
  BY <1>1, <1>4, <1>5 DEF InitChecked, IInv, StoreInv, StoreTypeOK

-----------------------------------------------------------------------------
(* initialize() and shutdown().                                            *)

\* The calls of the engine without a torrent.
LEMMA EngineCalls ==
  ASSUME NativeAssumption, EngineAssumption
  PROVE  /\ << >> \in Seq(Call)
         /\ \A m \in EngineMethod : \A tag \in EngineTags \cup {NoTag} :
              <<MakeCall(m, None, tag)>> \in Seq(Call)
<1>1. \A m \in EngineMethod : \A tag \in EngineTags \cup {NoTag} :
        MakeCall(m, None, tag) \in Call
  BY EngineCall DEF EngineAssumption, NativeAssumption
<1>2. QED
  BY <1>1

LEMMA InitStep ==
  ASSUME NativeAssumption, EngineAssumption, IInv,
         InitNative \/ InitLoad \/ InitLoadFails \/ InitPower \/ InitEnd
  PROVE  IInv'
<1>1. dbQueue \in Seq(Request)
  BY DEF IInv, StoreInv, StoreTypeOK
<1>2. CASE InitNative
  <2>1. NativeInv'
    BY <1>2, EngineCalls, IsolateStep DEF InitNative, Resume, Receive, IInv
  <2>2. dbQueue' \in Seq(Request)
    BY <1>1, <1>2, LoadType DEF InitNative
  <2>3. StoreInv'
    BY <1>2, <2>2 DEF InitNative, IInv, StoreInv, StoreTypeOK
  <2>4. LifeTypeOK' /\ WatchTypeOK'
    BY <1>2, WatchUnchanged DEF InitNative, IInv, LifeTypeOK
  <2>5. ListInv'
    BY <1>2, ListUnchanged DEF InitNative, IInv
  <2>6. QED
    BY <2>1, <2>3, <2>4, <2>5 DEF IInv
<1>3. CASE InitLoad
  <2>1. NativeInv'
    BY <1>3, EngineCalls, IsolateStep DEF InitLoad, EngineMethod, IInv
  <2>2. Tail(dbQueue) \in Seq(Request)
    BY <1>1, <1>3 DEF InitLoad, Executing
  <2>3. Reassigned(savers) \in [Slots -> Saver]
    BY SaversType DEF IInv, StoreInv, StoreTypeOK
  <2>4. StoreInv' /\ ListInv'
    BY <1>3, <2>2, <2>3 DEF InitLoad, IInv, StoreInv, StoreTypeOK, ListInv
  <2>5. LifeTypeOK' /\ WatchTypeOK'
    BY <1>3 DEF InitLoad, IInv, LifeTypeOK, lifeVars, WatchTypeOK, Subscription
  <2>6. QED
    BY <2>1, <2>4, <2>5 DEF IInv
<1>4. CASE InitLoadFails
  <2>1. NativeInv'
    BY <1>4, EngineCalls, IsolateStep
       DEF InitLoadFails, nativeVars, platformVars, sessionVars, pollVars, IInv
  <2>2. Tail(dbQueue) \in Seq(Request)
    BY <1>1, <1>4 DEF InitLoadFails, Executing
  <2>3. StoreInv' /\ ListInv'
    BY <1>4, <2>2 DEF InitLoadFails, IInv, StoreInv, StoreTypeOK, ListInv
  <2>4. LifeTypeOK' /\ WatchTypeOK'
    BY <1>4, WatchUnchanged DEF InitLoadFails, IInv, LifeTypeOK
  <2>5. QED
    BY <2>1, <2>3, <2>4 DEF IInv
<1>5. CASE InitPower
  <2>1. PICK calls \in Seq(Call) : CallNative(calls)
    BY <1>5, EngineCalls DEF InitPower, EngineMethod, EngineTags
  <2>2. NativeInv'
    BY <1>5, <2>1, IsolateStep DEF InitPower, IInv
  <2>3. Tail(dbQueue) \in Seq(Request)
    BY <1>1, <1>5 DEF InitPower, Executing
  <2>4. StoreInv' /\ ListInv' /\ LifeTypeOK' /\ WatchTypeOK'
    BY <1>5, <2>3, WatchUnchanged, LifeUnchanged
       DEF InitPower, IInv, StoreInv, StoreTypeOK, ListInv
  <2>5. QED
    BY <2>2, <2>4 DEF IInv
<1>6. CASE InitEnd
  <2>1. NativeInv' /\ ListInv' /\ StoreInv'
    BY <1>6, EngineCalls, CallingStep DEF InitEnd, Resume, Receive
  <2>2. LifeTypeOK' /\ WatchTypeOK'
    BY <1>6, WatchUnchanged DEF InitEnd, IInv, LifeTypeOK
  <2>3. QED
    BY <2>1, <2>2 DEF IInv
<1>7. QED
  BY <1>2, <1>3, <1>4, <1>5, <1>6

\* shutdown() up to its first await.
LEMMA BeginShutdownType ==
  ASSUME NativeAssumption, EngineAssumption, LifeTypeOK, BeginShutdown
  PROVE  /\ \E calls \in Seq(Call) : looper' = looper \/ CallNative(calls)
         /\ engineState' \in {"initializing", "running", "shutdown", "crashed"}
         /\ isShutdown' \in BOOLEAN
BY EngineCalls DEF BeginShutdown, LifeTypeOK, lifeVars, EngineMethod, EngineTags

LEMMA ShutdownStep ==
  ASSUME NativeAssumption, EngineAssumption, IInv,
         Shutdown \/ ShutdownNative \/ ShutdownEnd \/ ShutdownWhenDone
  PROVE  IInv'
<1>1. CASE Shutdown
  <2>1. PICK calls \in Seq(Call) : looper' = looper \/ CallNative(calls)
    BY <1>1, BeginShutdownType DEF Shutdown, IInv
  <2>2. NativeInv' /\ ListInv' /\ StoreInv'
    BY <1>1, <2>1, CallingStep DEF Shutdown
  <2>3. LifeTypeOK'
    BY <1>1, BeginShutdownType, UsedType DEF Shutdown, IInv, LifeTypeOK, UserOps
  <2>4. QED
    BY <1>1, <2>2, <2>3, WatchUnchanged DEF Shutdown, IInv
<1>2. CASE ShutdownNative
  <2>1. <<MakeCall("shutdown", None, "shutdown")>> \in Seq(Call)
    BY EngineCalls DEF EngineMethod, EngineTags
  <2>2. UNCHANGED <<rows, lifeVars, watchVars, initPc, storeVars, used>>
    BY <1>2 DEF ShutdownNative, dartVars
  <2>3. NativeInv' /\ ListInv' /\ StoreInv'
    BY <1>2, <2>1, <2>2, CallingStep DEF ShutdownNative, Resume, Receive
  <2>4. QED
    BY <2>2, <2>3, LifeUnchanged, WatchUnchanged DEF IInv
<1>3. CASE ShutdownEnd
  <2>1. PICK calls \in Seq(Call) : CallNative(calls)
    BY <1>3, EngineCalls DEF ShutdownEnd, EngineMethod
  <2>2. NativeInv' /\ ListInv' /\ StoreInv'
    BY <1>3, <2>1, CallingStep DEF ShutdownEnd, Resume, Receive
  <2>3. LifeTypeOK' /\ WatchTypeOK'
    BY <1>3, LifeUnchanged
       DEF ShutdownEnd, IInv, WatchTypeOK, Subscription, Cancelled
  <2>4. QED
    BY <2>2, <2>3 DEF IInv
<1>4. CASE ShutdownWhenDone
  <2>1. BeginShutdown \/ UNCHANGED <<looper, lifeVars>>
    BY <1>4 DEF ShutdownWhenDone
  <2>2. PICK calls \in Seq(Call) : looper' = looper \/ CallNative(calls)
    BY <2>1, BeginShutdownType, EngineCalls DEF IInv
  <2>3. NativeInv'
    BY <1>4, <2>2, IsolateStep DEF ShutdownWhenDone, IInv
  <2>4. Tail(dbQueue) \in Seq(Request)
    BY <1>4 DEF ShutdownWhenDone, Executing, IInv, StoreInv, StoreTypeOK
  <2>5. StoreInv' /\ ListInv' /\ WatchTypeOK'
    BY <1>4, <2>4, WatchUnchanged
       DEF ShutdownWhenDone, IInv, StoreInv, StoreTypeOK, ListInv
  <2>6. LifeTypeOK'
    BY <1>4, <2>1, BeginShutdownType
       DEF ShutdownWhenDone, IInv, LifeTypeOK, lifeVars
  <2>7. QED
    BY <2>3, <2>5, <2>6 DEF IInv
<1>5. QED
  BY <1>1, <1>2, <1>3, <1>4

-----------------------------------------------------------------------------
(* The user's operations.                                                  *)

LEMMA UserCallStep ==
  ASSUME NativeAssumption, EngineAssumption, IInv,
         \/ \E id \in Ids : AddTorrent(id) \/ ToggleTorrent(id) \/ DeleteTorrent(id)
         \/ ResumeAll \/ PauseAll
  PROVE  IInv'
<1>1. UNCHANGED <<platformVars, toDart, rows, watchVars, initPc, storeVars>>
  BY DEF AddTorrent, ToggleTorrent, DeleteTorrent, ResumeAll, PauseAll
<1>2. \E calls \in Seq(Call) : CallNative(calls)
  <2>1. NoTag \in Tags /\ "delete" \in Tags
    BY DEF NativeAssumption, EngineAssumption, EngineTags
  <2>2. \A m \in TorrentMethod : \A id \in Ids :
          /\ <<MakeCall(m, id, NoTag)>> \in Seq(Call)
          /\ <<MakeCall(m, id, "delete")>> \in Seq(Call)
    BY <2>1, TorrentCall
  <2>3. QED
    BY <2>2, EngineCalls
       DEF AddTorrent, ToggleTorrent, DeleteTorrent, ResumeAll, PauseAll,
           TorrentMethod, EngineMethod
<1>3. NativeInv' /\ ListInv' /\ StoreInv'
  BY <1>1, <1>2, CallingStep
<1>4. LifeTypeOK'
  <2>1. used' \in [UserOps -> Nat]
    BY UsedType DEF AddTorrent, ToggleTorrent, DeleteTorrent, ResumeAll,
       PauseAll, IInv, UserOps
  <2>2. isShutdown' \in BOOLEAN /\ engineState' = engineState
    BY DEF AddTorrent, ToggleTorrent, DeleteTorrent, ResumeAll, PauseAll,
       IInv, LifeTypeOK, lifeVars
  <2>3. QED
    BY <1>1, <2>1, <2>2 DEF IInv, LifeTypeOK
<1>5. QED
  BY <1>1, <1>3, <1>4, WatchUnchanged DEF IInv

\* The rows of a deleted torrent leave the list.
LEMMA DeleteRowStep ==
  ASSUME NativeAssumption, EngineAssumption, IInv, DeleteRow
  PROVE  IInv'
<1> DEFINE id == Head(toDart).id
<1>1. NativeInv'
  BY EngineCalls, IsolateStep DEF DeleteRow, Resume, Receive, IInv
<1>2. id \in Ids \cup {None}
  BY Received DEF DeleteRow, Resume, Receive, IInv, NativeInv, Reply
<1>3. dbQueue' \in Seq(Request)
  BY <1>2, DeleteType DEF DeleteRow, IInv, StoreInv, StoreTypeOK
<1>4. savers' \in [Slots -> Saver]
  BY SaversType DEF DeleteRow, IInv, StoreInv, StoreTypeOK
<1>5. StoreInv'
  BY <1>3, <1>4 DEF DeleteRow, IInv, StoreInv, StoreTypeOK
<1>6. ListInv'
  BY DEF DeleteRow, IInv, ListInv, Keyed
<1>7. QED
  BY <1>1, <1>5, <1>6, LifeUnchanged, WatchUnchanged DEF DeleteRow, IInv

\* reorderQueue renumbers rows of the same torrents.
LEMMA ReorderQueueStep ==
  ASSUME NativeAssumption, EngineAssumption, IInv, ReorderQueue
  PROVE  IInv'
<1>1. NativeInv'
  BY EngineCalls, IsolateStep
     DEF ReorderQueue, nativeVars, platformVars, sessionVars, pollVars, IInv
<1>2. LifeTypeOK' /\ WatchTypeOK'
  BY UsedType, WatchUnchanged
     DEF ReorderQueue, IInv, LifeTypeOK, lifeVars, UserOps
<1> DEFINE listed == {row.id : row \in rows}
           pos(ids) == [id \in Ids |-> IF Listed(id)
                                       THEN CHOOSE i \in DOMAIN ids : ids[i] = id
                                       ELSE 0]
<1>3. PICK ids \in SetToSeqs(listed) :
        /\ rows' = {[row EXCEPT !.queue = pos(ids)[row.id]] : row \in rows}
        /\ dbQueue' = Append(dbQueue, [op |-> "order", pos |-> pos(ids)])
  BY Zenon DEF ReorderQueue
<1>4. pos(ids) \in [Ids -> Nat]
  <2>1. listed \subseteq Ids
    BY DEF IInv, ListInv, Row
  <2>2. IsFiniteSet(listed)
    BY <2>1, FS_Subset DEF EngineAssumption
  <2>3. /\ DOMAIN ids = 1..Len(ids)
        /\ \A id \in listed : \E i \in DOMAIN ids : ids[i] = id
    BY <2>2, OrderingType
  <2>4. ASSUME NEW id \in Ids, Listed(id)
        PROVE  (CHOOSE i \in DOMAIN ids : ids[i] = id) \in DOMAIN ids
    BY <2>3, <2>4 DEF Listed
  <2>5. \A i \in DOMAIN ids : i \in Nat
    BY <2>3
  <2>6. QED
    BY <2>4, <2>5
<1> HIDE DEF pos
<1> DEFINE renumbered(row) == [row EXCEPT !.queue = pos(ids)[row.id]]
<1>5. \A row \in rows : renumbered(row) \in Row /\ renumbered(row).id = row.id
  <2>1. TAKE row \in rows
  <2>2. row \in Row /\ pos(ids)[row.id] \in Nat
    BY <1>4 DEF IInv, ListInv, Row
  <2>3. QED
    BY <2>2 DEF Row
<1> HIDE DEF renumbered
<1>6. rows' = {renumbered(row) : row \in rows}
  BY <1>3, Zenon DEF renumbered
<1>7. ListInv'
  BY <1>5, <1>6 DEF IInv, ListInv, Keyed
<1>8. dbQueue' \in Seq(Request)
  BY <1>3, <1>4, OrderType DEF IInv, StoreInv, StoreTypeOK
<1>9. savers' \in [Slots -> Saver]
  BY SaversType DEF ReorderQueue, IInv, StoreInv, StoreTypeOK
<1>10. QED
  BY <1>1, <1>2, <1>7, <1>8, <1>9
     DEF ReorderQueue, IInv, StoreInv, StoreTypeOK

-----------------------------------------------------------------------------
(* The database.                                                           *)

\* The head of the queue is a request.
LEMMA TakeRequest ==
  ASSUME StoreInv, NEW op, Executing(op)
  PROVE  Head(dbQueue) \in Request /\ Tail(dbQueue) \in Seq(Request)
BY DEF StoreInv, StoreTypeOK, Executing

LEMMA DbUpsertStep ==
  ASSUME EngineAssumption, IInv, DbUpsert
  PROVE  IInv'
<1> DEFINE slot == Head(dbQueue).slot
<1>1. NativeInv' /\ ListInv' /\ WatchTypeOK'
  <2>1. << >> \in Seq(Call)
    OBVIOUS
  <2>2. QED
    BY <2>1, IsolateStep, ListUnchanged, WatchUnchanged
       DEF DbUpsert, nativeVars, platformVars, sessionVars, pollVars, IInv
<1>2. Head(dbQueue).row \in Row /\ slot \in Slots \cup {NoSlot}
  BY TakeRequest, RequestFields DEF DbUpsert, Executing, IInv
<1>3. db' \in SUBSET Row /\ Keyed(db')
  BY <1>2, StoredType DEF DbUpsert, IInv, StoreInv, StoreTypeOK
<1>4. Tail(dbQueue) \in Seq(Request)
  BY TakeRequest DEF DbUpsert, IInv
<1>5. savers \in [Slots -> Saver]
  BY DEF IInv, StoreInv, StoreTypeOK
<1>6. CASE slot \in Slots /\ savers[slot].todo # {}
  <2>1. PICK row \in savers[slot].todo :
          /\ dbQueue' = Append(Tail(dbQueue), Upsert(row, slot))
          /\ savers' = [savers EXCEPT ![slot].todo = @ \ {row}]
          /\ UNCHANGED initPc
    BY <1>6 DEF DbUpsert
  <2>2. savers[slot] \in Saver
    BY <1>5, <1>6
  <2>3. /\ row \in Row
        /\ [savers[slot] EXCEPT !.todo = savers[slot].todo \ {row}] \in Saver
    BY <2>2 DEF Saver
  <2>4. savers' \in [Slots -> Saver]
    BY <1>5, <1>6, <2>1, <2>3
  <2>5. dbQueue' \in Seq(Request)
    BY <1>2, <1>4, <2>1, <2>3, UpsertType
  <2>6. LifeTypeOK'
    BY <2>1, LifeUnchanged DEF DbUpsert, IInv
  <2>7. QED
    BY <1>1, <1>3, <2>4, <2>5, <2>6 DEF IInv, StoreInv, StoreTypeOK
<1>7. CASE ~(slot \in Slots /\ savers[slot].todo # {})
  <2>1. savers' = [s \in Slots |-> IF s = slot THEN SaverIdle ELSE savers[s]]
    BY <1>7 DEF DbUpsert
  <2>2. savers' \in [Slots -> Saver]
    <3>1. SaverIdle \in Saver
      BY DEF SaverIdle, Saver
    <3>2. QED
      BY <1>5, <2>1, <3>1
  <2>3. dbQueue' \in Seq(Request)
    <3>1. [op |-> "setting", tag |-> "power"] \in Request
      BY SettingType
    <3>2. Append(Tail(dbQueue), [op |-> "setting", tag |-> "power"])
            \in Seq(Request)
      BY <1>4, <3>1
    <3>3. \/ dbQueue' = Tail(dbQueue)
          \/ dbQueue' = Append(Tail(dbQueue), [op |-> "setting", tag |-> "power"])
      BY <1>7 DEF DbUpsert
    <3>4. QED
      BY <1>4, <3>2, <3>3
  <2>4. LifeTypeOK'
    BY <1>7 DEF DbUpsert, IInv, LifeTypeOK, lifeVars
  <2>5. QED
    BY <1>1, <1>3, <2>2, <2>3, <2>4 DEF IInv, StoreInv, StoreTypeOK
<1>8. QED
  BY <1>6, <1>7

LEMMA DbDeleteStep ==
  ASSUME IInv, DbDelete
  PROVE  IInv'
<1>1. NativeInv' /\ ListInv' /\ WatchTypeOK' /\ LifeTypeOK'
  <2>1. << >> \in Seq(Call)
    OBVIOUS
  <2>2. QED
    BY <2>1, IsolateStep, ListUnchanged, WatchUnchanged, LifeUnchanged
       DEF DbDelete, nativeVars, platformVars, sessionVars, pollVars, IInv
<1>2. Tail(dbQueue) \in Seq(Request)
  BY TakeRequest DEF DbDelete, IInv
<1>3. QED
  BY <1>1, <1>2 DEF DbDelete, IInv, StoreInv, StoreTypeOK, Keyed

LEMMA DbOrderStep ==
  ASSUME EngineAssumption, IInv, DbOrder
  PROVE  IInv'
<1> DEFINE pos == Head(dbQueue).pos
<1>1. NativeInv' /\ ListInv' /\ WatchTypeOK' /\ LifeTypeOK'
  <2>1. << >> \in Seq(Call)
    OBVIOUS
  <2>2. QED
    BY <2>1, IsolateStep, ListUnchanged, WatchUnchanged, LifeUnchanged
       DEF DbOrder, nativeVars, platformVars, sessionVars, pollVars, IInv
<1>2. pos \in [Ids -> Nat] /\ Tail(dbQueue) \in Seq(Request)
  BY TakeRequest, RequestFields DEF DbOrder, Executing, IInv
<1> DEFINE renumbered(row) ==
             IF pos[row.id] > 0 THEN [row EXCEPT !.queue = pos[row.id]] ELSE row
<1>3. db' = {renumbered(row) : row \in db}
  BY DEF DbOrder
<1>4. \A row \in db : renumbered(row) \in Row /\ renumbered(row).id = row.id
  <2>1. TAKE row \in db
  <2>2. row \in Row /\ pos[row.id] \in Nat
    BY <1>2 DEF IInv, StoreInv, StoreTypeOK, Row
  <2> HIDE DEF pos
  <2>3. QED
    BY <2>2 DEF Row
<1> HIDE DEF renumbered
<1>5. db' \in SUBSET Row /\ Keyed(db')
  BY <1>3, <1>4 DEF IInv, StoreInv, StoreTypeOK, Keyed
<1>6. savers' \in [Slots -> Saver] /\ dbQueue' \in Seq(Request)
  <2>1. "reorder" \in Slots
    BY DEF EngineAssumption
  <2>2. QED
    BY <1>2, <2>1, StartSavingType
       DEF DbOrder, IInv, ListInv, StoreInv, StoreTypeOK
<1>7. QED
  BY <1>1, <1>5, <1>6 DEF IInv, StoreInv, StoreTypeOK

-----------------------------------------------------------------------------
(* Restarts, the Android side, and all steps.                              *)

LEMMA RestartStep ==
  ASSUME NativeAssumption, EngineAssumption, IInv, Restart
  PROVE  IInv'
<1>1. SessionTypeOK'
  <2>1. CASE UNCHANGED sessionVars
    BY <2>1, SessionUnchanged DEF IInv, NativeInv
  <2>2. CASE /\ alive' = FALSE /\ session' = EmptySession
             /\ order' = << >> /\ sessionPaused' = FALSE
    BY <2>2, EmptySessionType DEF Restart, IInv, NativeInv, SessionTypeOK
  <2>3. QED
    BY <2>1, <2>2 DEF Restart
<1>2. TimerInv'
  BY DEF Restart, TimerInv, TimerTypeOK, PollIdle, Keyed
<1>3. ChannelInv'
  <2>1. FirstCall \in Call
    BY EngineCall DEF FirstCall, EngineMethod, EngineAssumption, EngineTags
  <2>2. FirstCall.type = "call"
    BY DEF FirstCall, MakeCall
  <2>3. QED
    BY <2>1, <2>2
       DEF Restart, ChannelInv, ChannelTypeOK, LooperKeyed, ToDartKeyed
<1>4. ListInv' /\ LifeTypeOK' /\ WatchTypeOK'
  BY UsedType
     DEF Restart, IInv, ListInv, Keyed, LifeTypeOK, WatchTypeOK, Subscription,
         UserOps
<1>5. StoreInv'
  <2>1. NoSavers \in [Slots -> Saver]
    BY DEF NoSavers, SaverIdle, Saver
  <2>2. QED
    BY <2>1 DEF Restart, IInv, StoreInv, StoreTypeOK, Keyed
<1>6. QED
  BY <1>1, <1>2, <1>3, <1>4, <1>5 DEF NativeInv, IInv

\* What a step of the Android side, or none, does to the isolate.
LEMMA DartUnchanged ==
  ASSUME IInv, UNCHANGED dartVars
  PROVE  ListInv' /\ LifeTypeOK' /\ WatchTypeOK' /\ StoreInv'
<1>1. UNCHANGED <<rows, lifeVars, watchVars, initPc, storeVars, used>>
  BY DEF dartVars
<1>2. QED
  BY <1>1, ListUnchanged, LifeUnchanged, WatchUnchanged, StoreUnchanged DEF IInv

\* The invariant is inductive.
LEMMA StepIInv ==
  ASSUME NativeAssumption, EngineAssumption, IInv, [Next]_vars
  PROVE  IInv'
<1>1. CASE Native
  BY <1>1, NativeStep, DartUnchanged DEF Native, IInv
<1>2. CASE Dart
  BY <1>2, InitStep, StatusUpdateStep, ShutdownStep, DeleteRowStep DEF Dart
<1>3. CASE Database
  BY <1>3, InitStep, ShutdownStep, DbUpsertStep, DbDeleteStep, DbOrderStep
     DEF Database
<1>4. CASE User
  BY <1>4, UserCallStep, ReorderQueueStep, ShutdownStep DEF User
<1>5. CASE Conditions
  BY <1>5, InitCheckedStep, ConstraintsCheckedStep DEF Conditions
<1>6. CASE Restart
  BY <1>6, RestartStep
<1>7. CASE UNCHANGED vars
  <2>1. UNCHANGED nativeVars /\ UNCHANGED dartVars
    BY <1>7 DEF vars
  <2>2. NativeInv'
    <3>1. << >> \in Seq(Call)
      OBVIOUS
    <3>2. QED
      BY <2>1, <3>1, IsolateStep
         DEF nativeVars, platformVars, sessionVars, pollVars, IInv
  <2>3. QED
    BY <2>1, <2>2, DartUnchanged DEF IInv
<1>8. QED
  BY <1>1, <1>2, <1>3, <1>4, <1>5, <1>6, <1>7 DEF Next

\* The invariant says what the model's invariants say.
LEMMA IInvMeans == IInv => TypeOK /\ OneRowPerTorrent
BY DEF IInv, NativeInv, TimerInv, ChannelInv, ListInv, StoreInv, TypeOK,
   NativeTypeOK, OneRowPerTorrent

\* The state of the engine and of the session behind it stays what the code
\* declares it to be, for every set of torrents and every bound.
THEOREM TypeCorrect ==
  Spec => []TypeOK
<1>1. Init => IInv
  BY InitIInv, EngineAssumption
<1>2. IInv /\ [Next]_vars => IInv'
  BY StepIInv, NativeAssumption, EngineAssumption
<1>3. IInv => TypeOK
  BY IInvMeans
<1>4. QED
  BY <1>1, <1>2, <1>3, PTL DEF Spec

\* The list never has two rows of one torrent: _onStatusUpdate looks each
\* status up in the list before it appends, every status list names a torrent
\* once, and the table initialize() reads has the id as its primary key.
THEOREM OneRow ==
  Spec => []OneRowPerTorrent
<1>1. Init => IInv
  BY InitIInv, EngineAssumption
<1>2. IInv /\ [Next]_vars => IInv'
  BY StepIInv, NativeAssumption, EngineAssumption
<1>3. IInv => OneRowPerTorrent
  BY IInvMeans
<1>4. QED
  BY <1>1, <1>2, <1>3, PTL DEF Spec

-----------------------------------------------------------------------------
(* Blocked rows.                                                           *)

\* initialize() subscribes to the violations only after its first check: until
\* then no result of the checker reaches the list, and the rows it loads may
\* be blocked from an earlier run.
SubscribesLast ==
  initPc \in {"native", "load", "checking"} => constraintSub # "listening"

BlockedInv == SubscribesLast /\ BlockedOnlyUnderViolation

NoneBlocked(list) == \A row \in list : row.status # "blocked"

\* _applyConstraints leaves no row blocked without a violation.
LEMMA AppliedNotBlocked ==
  ASSUME IInv, NEW v \in BOOLEAN, ~v, NEW slot, NEW before,
         ApplyConstraints(v, slot, before)
  PROVE  NoneBlocked(rows')
<1>1. rows' = {AppliedRow(row, v) : row \in rows}
  BY DEF ApplyConstraints
<1>2. \A row \in rows : AppliedRow(row, v).status # "blocked"
  BY DEF AppliedRow, IInv, ListInv, Row
<1>3. QED
  BY <1>1, <1>2 DEF NoneBlocked

\* A status list blocks no row: no string of the bridge stands for blocked.
LEMMA StatusUpdateBlocks ==
  ASSUME EngineAssumption, IInv, StatusUpdate, NoneBlocked(rows)
  PROVE  NoneBlocked(rows')
<1>1. \A string : ParseTorrentStatus(string) # "blocked"
  BY DEF ParseTorrentStatus
<1>2. CASE UNCHANGED rows
  BY <1>2 DEF NoneBlocked
<1>3. CASE statusSub = "listening"
  <2> DEFINE statuses == Head(toDart).statuses
             added(new) == [i \in DOMAIN new |->
                              NewRow(new[i], Cardinality(rows) + i - 1)]
  <2>1. PICK new : rows' = {MergedRow(row, statuses) : row \in rows}
                             \cup {added(new)[i] : i \in DOMAIN new}
    BY <1>3, Zenon DEF StatusUpdate
  <2>2. \A i \in DOMAIN new : added(new)[i].status # "blocked"
    BY <1>1 DEF NewRow
  <2>3. \A row \in rows : MergedRow(row, statuses).status # "blocked"
    <3>1. TAKE row \in rows
    <3>2. row \in Row /\ row.status # "blocked"
      BY DEF NoneBlocked, IInv, ListInv
    <3>3. \A st : Updated(row, st).status = ParseTorrentStatus(st.status)
      BY <3>2 DEF Updated, Row
    <3>4. QED
      BY <1>1, <3>2, <3>3 DEF MergedRow
  <2> HIDE DEF added, statuses
  <2>4. QED
    BY <2>1, <2>2, <2>3 DEF NoneBlocked
<1>4. QED
  BY <1>2, <1>3 DEF StatusUpdate

\* The steps that leave the checker and its subscription alone and block
\* nothing.
LEMMA BlockedUndisturbed ==
  ASSUME BlockedInv, UNCHANGED <<constraintSub, checker, violated>>,
         initPc' \in {"native", "load", "checking"} =>
           initPc \in {"native", "load", "checking"},
         NoneBlocked(rows) => NoneBlocked(rows')
  PROVE  BlockedInv'
BY DEF BlockedInv, SubscribesLast, BlockedOnlyUnderViolation, NoneBlocked

LEMMA BlockedStep ==
  ASSUME NativeAssumption, EngineAssumption, IInv, BlockedInv, [Next]_vars
  PROVE  BlockedInv'
<1>1. CASE Native \/ UNCHANGED vars
  BY <1>1, BlockedUndisturbed DEF Native, vars, dartVars, watchVars
<1>2. CASE StatusUpdate
  BY <1>2, StatusUpdateBlocks, BlockedUndisturbed DEF StatusUpdate, watchVars
<1>3. CASE InitNative \/ InitEnd \/ ShutdownNative
  BY <1>3, BlockedUndisturbed
     DEF InitNative, InitEnd, ShutdownNative, dartVars, watchVars
<1>4. CASE ShutdownEnd
  BY <1>4 DEF ShutdownEnd, BlockedInv, SubscribesLast,
     BlockedOnlyUnderViolation, Cancelled
<1>5. CASE DeleteRow
  BY <1>5, BlockedUndisturbed DEF DeleteRow, watchVars, NoneBlocked
<1>6. CASE InitLoad
  BY <1>6 DEF InitLoad, BlockedInv, SubscribesLast, BlockedOnlyUnderViolation
<1>7. CASE \/ InitLoadFails \/ InitPower \/ ShutdownWhenDone
           \/ DbUpsert \/ DbDelete \/ DbOrder
  BY <1>7, BlockedUndisturbed
     DEF InitLoadFails, InitPower, ShutdownWhenDone, DbUpsert, DbDelete,
         DbOrder, watchVars
<1>8. CASE \/ \E id \in Ids : AddTorrent(id) \/ ToggleTorrent(id) \/ DeleteTorrent(id)
           \/ ResumeAll \/ PauseAll \/ Shutdown
  BY <1>8, BlockedUndisturbed
     DEF AddTorrent, ToggleTorrent, DeleteTorrent, ResumeAll, PauseAll,
         Shutdown, watchVars
<1>9. CASE ReorderQueue
  <2>1. PICK pos : rows' = {[row EXCEPT !.queue = pos[row.id]] : row \in rows}
    BY <1>9, Zenon DEF ReorderQueue
  <2>2. \A row \in rows : [row EXCEPT !.queue = pos[row.id]].status = row.status
    BY DEF IInv, ListInv, Row
  <2>3. NoneBlocked(rows) => NoneBlocked(rows')
    BY <2>1, <2>2 DEF NoneBlocked
  <2>4. QED
    BY <1>9, <2>3, BlockedUndisturbed DEF ReorderQueue, watchVars
<1>10. ASSUME NEW v \in BOOLEAN, InitChecked(v)
       PROVE  BlockedInv'
  <2>1. violated' = v /\ initPc' \in {"power", "saving"}
    BY <1>10 DEF InitChecked
  <2>2. ~v => NoneBlocked(rows')
    BY <1>10, AppliedNotBlocked DEF InitChecked
  <2>3. QED
    BY <2>1, <2>2 DEF BlockedInv, SubscribesLast, BlockedOnlyUnderViolation,
       NoneBlocked
<1>11. ASSUME NEW v \in BOOLEAN, ConstraintsChecked(v)
       PROVE  BlockedInv'
  <2>1. violated' = v /\ UNCHANGED <<checker, constraintSub, initPc>>
    BY <1>11 DEF ConstraintsChecked
  <2>2. checker = "on" /\ constraintSub = "listening" /\ ~v =>
          NoneBlocked(rows')
    BY <1>11, AppliedNotBlocked DEF ConstraintsChecked
  <2>3. QED
    BY <2>1, <2>2 DEF BlockedInv, SubscribesLast, BlockedOnlyUnderViolation,
       NoneBlocked
<1>12. CASE Restart
  BY <1>12 DEF Restart, BlockedInv, SubscribesLast, BlockedOnlyUnderViolation
<1>13. QED
  BY <1>1, <1>2, <1>3, <1>4, <1>5, <1>6, <1>7, <1>8, <1>9, <1>10, <1>11, <1>12
     DEF Next, Dart, Database, User, Conditions

\* While the engine listens to the checker, a blocked row means a violation:
\* no toggle, status list, reload or reorder in between leaves one behind.
THEOREM BlockedMeansViolation == Spec => []BlockedOnlyUnderViolation
<1>1. Init => IInv /\ BlockedInv
  <2>1. Init => BlockedInv
    BY DEF Init, BlockedInv, SubscribesLast, BlockedOnlyUnderViolation
  <2>2. QED
    BY <2>1, InitIInv, EngineAssumption
<1>2. IInv /\ BlockedInv /\ [Next]_vars => (IInv /\ BlockedInv)'
  BY StepIInv, BlockedStep, NativeAssumption, EngineAssumption
<1>3. BlockedInv => BlockedOnlyUnderViolation
  BY DEF BlockedInv
<1>4. QED
  BY <1>1, <1>2, <1>3, PTL DEF Spec

=============================================================================

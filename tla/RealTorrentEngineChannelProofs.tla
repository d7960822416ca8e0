------------------- MODULE RealTorrentEngineChannelProofs -------------------
(***************************************************************************)
(* Theorems about what is under way between the Dart isolate, the Android  *)
(* side and the database: what a queue holds, and in which order, decides  *)
(* what becomes of a torrent and of a shutdown.                            *)
(***************************************************************************)
EXTENDS RealTorrentEngineProofs, WellFoundedInduction

-----------------------------------------------------------------------------
(* Queues.                                                                 *)

\* What a queue holds after its head was taken ...
LEMMA TailItems ==
  ASSUME NEW S, NEW q \in Seq(S), q # << >>
  PROVE  /\ ToSet(q) = {Head(q)} \cup ToSet(Tail(q))
         /\ Tail(q) \in Seq(S) /\ Head(q) \in S
<1>1. /\ Head(q) = q[1] /\ 1 \in DOMAIN q /\ Tail(q) \in Seq(S) /\ Head(q) \in S
      /\ \A i \in DOMAIN Tail(q) : i + 1 \in DOMAIN q /\ Tail(q)[i] = q[i + 1]
      /\ \A i \in DOMAIN q : i # 1 => i - 1 \in DOMAIN Tail(q) /\ Tail(q)[i - 1] = q[i]
  OBVIOUS
<1>2. ToSet(Tail(q)) \subseteq ToSet(q) /\ Head(q) \in ToSet(q)
  <2>1. ASSUME NEW i \in DOMAIN Tail(q) PROVE Tail(q)[i] \in ToSet(q)
    BY <1>1, Zenon DEF ToSet
  <2>2. Head(q) \in ToSet(q)
    BY <1>1, Zenon DEF ToSet
  <2>3. QED
    BY <2>1, <2>2 DEF ToSet
<1>3. ASSUME NEW i \in DOMAIN q PROVE q[i] \in {Head(q)} \cup ToSet(Tail(q))
  BY <1>1, Zenon DEF ToSet
<1>4. ToSet(q) \subseteq {Head(q)} \cup ToSet(Tail(q))
  BY <1>3 DEF ToSet
<1>5. QED
  BY <1>1, <1>2, <1>4

\* ... and after something was put at its end.
LEMMA ConcatItems ==
  ASSUME NEW S, NEW q \in Seq(S), NEW T, NEW r \in Seq(T)
  PROVE  ToSet(q \o r) = ToSet(q) \cup ToSet(r)
<1>1. /\ Len(q) \in Nat /\ DOMAIN q = 1..Len(q) /\ DOMAIN r = 1..Len(r)
      /\ DOMAIN (q \o r) = 1..(Len(q) + Len(r))
      /\ \A i \in DOMAIN q : i \in DOMAIN (q \o r) /\ (q \o r)[i] = q[i]
      /\ \A i \in DOMAIN r : Len(q) + i \in DOMAIN (q \o r) /\ (q \o r)[Len(q) + i] = r[i]
      /\ \A i \in DOMAIN (q \o r) :
           \/ i \in DOMAIN q /\ (q \o r)[i] = q[i]
           \/ i - Len(q) \in DOMAIN r /\ (q \o r)[i] = r[i - Len(q)]
  OBVIOUS
<1>2. ToSet(q) \subseteq ToSet(q \o r) /\ ToSet(r) \subseteq ToSet(q \o r)
  <2>1. ASSUME NEW i \in DOMAIN q PROVE q[i] \in ToSet(q \o r)
    BY <1>1, Zenon DEF ToSet
  <2>2. ASSUME NEW i \in DOMAIN r PROVE r[i] \in ToSet(q \o r)
    BY <1>1, Zenon DEF ToSet
  <2>3. QED
    BY <2>1, <2>2 DEF ToSet
<1>3. ToSet(q \o r) \subseteq ToSet(q) \cup ToSet(r)
  <2>1. ASSUME NEW i \in DOMAIN (q \o r) PROVE (q \o r)[i] \in ToSet(q) \cup ToSet(r)
    BY <1>1, Zenon DEF ToSet
  <2>2. QED
    BY <2>1 DEF ToSet
<1>4. QED
  BY <1>2, <1>3

LEMMA AppendItems ==
  ASSUME NEW S, NEW q \in Seq(S), NEW x
  PROVE  ToSet(Append(q, x)) = ToSet(q) \cup {x}
<1>1. /\ DOMAIN Append(q, x) = 1..(Len(q) + 1) /\ Len(q) \in Nat
      /\ \A i \in DOMAIN q : i \in DOMAIN Append(q, x) /\ Append(q, x)[i] = q[i]
      /\ Len(q) + 1 \in DOMAIN Append(q, x) /\ Append(q, x)[Len(q) + 1] = x
      /\ \A i \in DOMAIN Append(q, x) : i = Len(q) + 1 \/ i \in DOMAIN q
  OBVIOUS
<1>2. QED
  BY <1>1 DEF ToSet

LEMMA SingleItem ==
  ASSUME NEW x
  PROVE  ToSet(<<x>>) = {x} /\ <<x>> \in Seq({x})
BY DEF ToSet

LEMMA NoItems == ToSet(<< >>) = {} /\ << >> \in Seq({})
BY DEF ToSet

-----------------------------------------------------------------------------
(* A torrent of which nothing is left.                                     *)

\* An item of the looper, a message to the isolate, a request to the database
\* that does not bring the torrent back.
SilentOn(item, id) ==
  /\ item.type = "post" => ~Mentions(item.statuses, id)
  /\ item.type = "call" /\ item.method = "addTorrent" => item.id # id

SilentTo(message, id) == message.type = "status" => ~Mentions(message.statuses, id)

WritesNot(request, id) == request.op = "upsert" => request.row.id # id

\* Nothing of it on the Android side and in the channels ...
GoneThere(id) ==
  /\ id \notin DOMAIN session
  /\ ~Mentions(poll.statuses, id)
  /\ \A item \in ToSet(looper) : SilentOn(item, id)
  /\ \A message \in ToSet(toDart) : SilentTo(message, id)

\* ... and nothing in the list and the store.
Without(list, id) == \A row \in list : row.id # id

GoneHere(id) ==
  /\ Without(rows, id)
  /\ Without(db, id)
  /\ \A request \in ToSet(dbQueue) : WritesNot(request, id)
  /\ \A s \in Slots : Without(savers[s].todo, id)

LEMMA GoneParts ==
  ASSUME NEW id \in Ids
  PROVE  Gone(id) <=> GoneThere(id) /\ GoneHere(id)
BY DEF Gone, GoneThere, GoneHere, SilentOn, SilentTo, WritesNot, Without, Listed, ToSet

LEMMA GonePartsNext ==
  ASSUME NEW id \in Ids
  PROVE  Gone(id)' <=> GoneThere(id)' /\ GoneHere(id)'
BY DEF Gone, GoneThere, GoneHere, SilentOn, SilentTo, WritesNot, Without, Listed, ToSet

\* A call is taken and answered: nothing is added to the channels.
LEMMA AnsweredSilent ==
  ASSUME ChannelInv, NEW id \in Ids, NEW method, Handling(method), NEW ok \in BOOLEAN, Answer(ok),
         GoneThere(id)
  PROVE  /\ \A item \in ToSet(looper)' : SilentOn(item, id)
         /\ \A message \in ToSet(toDart)' : SilentTo(message, id)
         /\ method = "addTorrent" => Head(looper).id # id
<1>1. looper \in Seq(Call \cup Post) /\ toDart \in Seq(Reply \cup Event)
  BY DEF ChannelInv, ChannelTypeOK
<1>2. looper # << >> /\ looper' = Tail(looper)
  BY DEF Handling
<1>3. ToSet(looper) = {Head(looper)} \cup ToSet(looper')
  BY <1>1, <1>2, TailItems
<1>4. \A item \in ToSet(looper)' : SilentOn(item, id)
  BY <1>3 DEF GoneThere
<1>5. \A message \in ToSet(toDart)' : SilentTo(message, id)
  <2> DEFINE reply == [type |-> "reply", tag |-> Head(looper).tag,
                       id |-> Head(looper).id, ok |-> ok]
  <2>1. SilentTo(reply, id)
    BY DEF SilentTo
  <2>2. toDart' = toDart \/ toDart' = Append(toDart, reply)
    BY DEF Answer
  <2> HIDE DEF reply
  <2>3. ToSet(toDart') \subseteq ToSet(toDart) \cup {reply}
    BY <1>1, <2>2, AppendItems
  <2>4. QED
    BY <2>1, <2>3 DEF GoneThere
<1>6. method = "addTorrent" => Head(looper).id # id
  BY <1>3 DEF GoneThere, Handling, SilentOn
<1>7. QED
  BY <1>4, <1>5, <1>6

\* No step of the Android side brings it back.
LEMMA NativeGone ==
  ASSUME NativeInv, NEW id \in Ids, GoneThere(id), NativeNext
  PROVE  GoneThere(id)'
<1>0. /\ looper \in Seq(Call \cup Post) /\ toDart \in Seq(Reply \cup Event)
      /\ DOMAIN session \subseteq Ids /\ ChannelInv
  BY DEF NativeInv, ChannelInv, ChannelTypeOK, SessionTypeOK
<1>1. CASE HandleAddTorrent
  <2>1. /\ \A item \in ToSet(looper)' : SilentOn(item, id)
        /\ \A message \in ToSet(toDart)' : SilentTo(message, id)
        /\ Head(looper).id # id
    BY <1>0, <1>1, AnsweredSilent DEF HandleAddTorrent
  <2>2. DOMAIN session' \subseteq DOMAIN session \cup {Head(looper).id}
    BY <1>1 DEF HandleAddTorrent
  <2>3. QED
    BY <1>1, <2>1, <2>2 DEF HandleAddTorrent, GoneThere, pollVars
<1>2. CASE \/ HandleInitialize \/ HandleInitializeFails \/ HandleShutdown
           \/ HandleAddTorrentFails \/ HandleToggleTorrent
           \/ HandlePauseAll \/ HandleResumeAll \/ HandleDeleteTorrent
           \/ HandleWakeLock \/ HandleListen \/ HandleCancel
  <2>1. /\ \A item \in ToSet(looper)' : SilentOn(item, id)
        /\ \A message \in ToSet(toDart)' : SilentTo(message, id)
    BY <1>0, <1>2, AnsweredSilent
       DEF HandleInitialize, HandleInitializeFails, HandleShutdown, HandleAddTorrentFails,
           HandleToggleTorrent, HandlePauseAll, HandleResumeAll, HandleDeleteTorrent,
           HandleWakeLock, HandleListen, HandleCancel
  <2>2. DOMAIN session' \subseteq DOMAIN session /\ poll' = poll
    BY <1>2 DEF HandleInitialize, HandleInitializeFails, HandleShutdown,
           HandleAddTorrentFails, HandleToggleTorrent, HandlePauseAll, HandleResumeAll,
           HandleDeleteTorrent, HandleWakeLock, HandleListen, HandleCancel, EmptySession,
           sessionVars, pollVars
  <2>3. QED
    BY <2>1, <2>2 DEF GoneThere
<1>3. CASE HandlePost
  <2> DEFINE event == [type |-> "status", statuses |-> Head(looper).statuses]
  <2>1. ToSet(looper) = {Head(looper)} \cup ToSet(looper')
    BY <1>0, <1>3, TailItems DEF HandlePost
  <2>2. SilentTo(event, id)
    BY <1>3, <2>1 DEF HandlePost, GoneThere, SilentOn, SilentTo
  <2>3. toDart' = toDart \/ toDart' = Append(toDart, event)
    BY <1>3 DEF HandlePost
  <2> HIDE DEF event
  <2>4. ToSet(toDart') \subseteq ToSet(toDart) \cup {event}
    BY <1>0, <2>3, AppendItems
  <2>5. QED
    BY <1>3, <2>1, <2>2, <2>4 DEF HandlePost, GoneThere, sessionVars, pollVars
<1>4. CASE PollCheck \/ PollReadDangling
  BY <1>4 DEF PollCheck, PollReadDangling, PollIdle, GoneThere, Mentions, sessionVars,
              NativeInv, TimerInv, TimerTypeOK
<1>5. CASE PollRead
  <2>1. ~Mentions(Snapshot, id)
    BY DEF Mentions, Snapshot, GoneThere
  <2>2. QED
    BY <1>5, <2>1 DEF PollRead, GoneThere, sessionVars
<1>6. CASE PollPost
  <2> DEFINE post == [type |-> "post", statuses |-> poll.statuses]
  <2>1. SilentOn(post, id) /\ ~Mentions({}, id)
    BY DEF SilentOn, GoneThere, Mentions
  <2>2. looper' = looper \/ looper' = Append(looper, post)
    BY <1>6 DEF PollPost
  <2> HIDE DEF post
  <2>3. ToSet(looper') \subseteq ToSet(looper) \cup {post}
    BY <1>0, <2>2, AppendItems
  <2>4. QED
    BY <1>6, <2>1, <2>3 DEF PollPost, PollIdle, GoneThere, sessionVars
<1>7. CASE \E x \in Ids : Advance(x)
  <2>1. DOMAIN session' = DOMAIN session
    BY <1>7 DEF Advance
  <2>2. QED
    BY <1>7, <2>1 DEF Advance, GoneThere, pollVars
<1>8. QED
  BY <1>1, <1>2, <1>3, <1>4, <1>5, <1>6, <1>7 DEF NativeNext, HandleLooper, Timer

-----------------------------------------------------------------------------
(* The isolate and the database.                                           *)

\* A step of the isolate makes calls that do not bring the torrent back.
LEMMA CallsGone ==
  ASSUME IInv, NEW id \in Ids, GoneThere(id), UNCHANGED platformVars,
         toDart' = toDart \/ (toDart # << >> /\ toDart' = Tail(toDart)),
         NEW calls \in Seq(Call), \A i \in DOMAIN calls : SilentOn(calls[i], id),
         looper' = looper \/ CallNative(calls)
  PROVE  GoneThere(id)'
<1>1. looper \in Seq(Call \cup Post) /\ toDart \in Seq(Reply \cup Event)
  BY DEF IInv, NativeInv, ChannelInv, ChannelTypeOK
<1>2. ToSet(toDart') \subseteq ToSet(toDart)
  BY <1>1, TailItems
<1>3. ToSet(looper') \subseteq ToSet(looper) \cup ToSet(calls)
  BY <1>1, ConcatItems DEF CallNative
<1>4. \A item \in ToSet(calls) : SilentOn(item, id)
  BY DEF ToSet
<1>5. QED
  BY <1>2, <1>3, <1>4 DEF GoneThere, platformVars, sessionVars, pollVars

\* A single call, or none.
LEMMA CallGone ==
  ASSUME NativeAssumption, EngineAssumption, IInv, NEW id \in Ids, GoneThere(id),
         UNCHANGED platformVars,
         toDart' = toDart \/ (toDart # << >> /\ toDart' = Tail(toDart)),
         NEW call \in Call, SilentOn(call, id),
         looper' = looper \/ CallNative(<<call>>) \/ CallNative(<< >>)
  PROVE  GoneThere(id)'
<1>1. <<call>> \in Seq(Call) /\ << >> \in Seq(Call)
  OBVIOUS
<1>2. looper' = looper \/ CallNative(<< >>) => looper' = looper
  BY DEF CallNative, IInv, NativeInv, ChannelInv, ChannelTypeOK
<1>3. \A i \in DOMAIN <<call>> : SilentOn(<<call>>[i], id)
  OBVIOUS
<1>4. QED
  BY <1>1, <1>2, <1>3, CallsGone

\* Or none for certain.
LEMMA NoCallGone ==
  ASSUME IInv, NEW id \in Ids, GoneThere(id), UNCHANGED platformVars, looper' = looper,
         toDart' = toDart \/ (toDart # << >> /\ toDart' = Tail(toDart))
  PROVE  GoneThere(id)'
<1>1. << >> \in Seq(Call) /\ \A i \in DOMAIN << >> : SilentOn(<< >>[i], id)
  OBVIOUS
<1>2. QED
  BY <1>1, CallsGone

\* A request that does not bring the torrent back is put at the end.
LEMMA AppendWritesNot ==
  ASSUME NEW id, NEW q \in Seq(Request), \A r \in ToSet(q) : WritesNot(r, id),
         NEW x, WritesNot(x, id)
  PROVE  \A r \in ToSet(Append(q, x)) : WritesNot(r, id)
<1>1. ToSet(Append(q, x)) = ToSet(q) \cup {x}
  BY AppendItems, Zenon
<1>2. QED
  BY <1>1

\* saveTorrents writes rows of the list it was given.
LEMMA StartSavingRows ==
  ASSUME NEW slot \in Slots, NEW list \in SUBSET Row, NEW sv \in [Slots -> Saver],
         NEW before \in Seq(Request), StartSaving(slot, list, sv, before)
  PROVE  /\ \/ dbQueue' = before
            \/ \E row \in list : dbQueue' = Append(before, Upsert(row, slot))
         /\ \A s \in Slots : savers'[s].todo \subseteq sv[s].todo \cup list
<1>1. CASE list = {}
  BY <1>1 DEF StartSaving, SaverIdle
<1>2. CASE list # {}
  <2>1. PICK row \in list :
          /\ savers' = [sv EXCEPT ![slot] = [todo |-> list \ {row}, onList |-> TRUE]]
          /\ dbQueue' = Append(before, Upsert(row, slot))
    BY <1>2 DEF StartSaving
  <2>2. \A s \in Slots : savers'[s].todo \subseteq sv[s].todo \cup list
    BY <2>1
  <2>3. QED
    BY <2>1, <2>2
<1>3. QED
  BY <1>1, <1>2

\* A list given anew has the same left to write.
LEMMA TodoKept ==
  ASSUME NEW sv \in [Slots -> Saver]
  PROVE  \A s \in Slots : /\ Reassigned(sv)[s].todo = sv[s].todo
                          /\ Shrunk(sv)[s].todo \subseteq sv[s].todo
BY DEF Reassigned, Shrunk, SaverIdle, Saver

\* What a status list does to the list and the database's queue: rows keep
\* their torrents, and each new row is one of the status list and is written.
LEMMA StatusUpdateEffect ==
  ASSUME EngineAssumption, IInv, StatusUpdate, statusSub = "listening"
  PROVE  \E added \in Seq(Row), saves \in Seq(UpsertRequest),
            check \in Seq(SettingRequest) :
           /\ dbQueue' = dbQueue \o saves \o check
           /\ DOMAIN saves = DOMAIN added
           /\ \A i \in DOMAIN added :
                saves[i] = Upsert(added[i], NoSlot)
                /\ Mentions(Head(toDart).statuses, added[i].id)
           /\ rows' \subseteq Row
           /\ \A row \in rows' : \/ \E r \in rows : r.id = row.id
                                 \/ \E i \in DOMAIN added : row = added[i]
           /\ \A i \in DOMAIN check : check[i].tag = "finish"
<1> DEFINE statuses == Head(toDart).statuses
<1>1. statuses \in SUBSET Status /\ Keyed(statuses)
  <2>1. Head(toDart) \in Event /\ Keyed(Head(toDart).statuses)
    BY Received DEF StatusUpdate, Receive, IInv, NativeInv
  <2>2. QED
    BY <2>1 DEF Event
<1> DEFINE added(new) == [i \in DOMAIN new |->
                            NewRow(new[i], Cardinality(rows) + i - 1)]
           saves(new) == [i \in DOMAIN new |-> Upsert(added(new)[i], NoSlot)]
           check == IF \E row \in rows : Finishes(row, statuses)
                    THEN <<[op |-> "setting", tag |-> "finish"]>>
                    ELSE << >>
<1>2. PICK new \in SetToSeqs(Unknown(statuses)) :
        /\ rows' = {MergedRow(row, statuses) : row \in rows}
                     \cup {added(new)[i] : i \in DOMAIN new}
        /\ dbQueue' = dbQueue \o saves(new) \o check
  BY Zenon DEF StatusUpdate
<1>3. new \in Seq(Unknown(statuses)) /\ DOMAIN new = 1..Len(new) /\ Len(new) \in Nat
  BY <1>1, UnknownFinite, OrderingType
<1>4. \A i \in DOMAIN new : new[i] \in statuses /\ new[i] \in Status
  BY <1>1, <1>3 DEF Unknown
<1>5. ASSUME NEW i \in DOMAIN new
      PROVE  added(new)[i] \in Row /\ added(new)[i].id = new[i].id
  <2>1. Cardinality(rows) + i - 1 \in Nat
    BY <1>3, RowsFinite DEF IInv
  <2>2. QED
    BY <1>4, <2>1, StatusRowType
<1>6. \A row \in rows : MergedRow(row, statuses) \in Row
                        /\ MergedRow(row, statuses).id = row.id
  BY <1>1, MergedRowType DEF IInv, ListInv
<1> HIDE DEF statuses, added
<1>7. added(new) \in Seq(Row) /\ DOMAIN added(new) = DOMAIN new
  <2>1. DOMAIN added(new) = DOMAIN new /\ added(new) = [i \in DOMAIN new |-> added(new)[i]]
    BY DEF added
  <2>2. added(new) \in [1..Len(new) -> Row]
    BY <1>3, <1>5, <2>1
  <2>3. QED
    BY <1>3, <2>1, <2>2, SegmentSeq
<1>8. saves(new) \in Seq(UpsertRequest) /\ DOMAIN saves(new) = DOMAIN new
  <2>1. \A i \in DOMAIN new : Upsert(added(new)[i], NoSlot) \in UpsertRequest
    BY <1>5 DEF Upsert, UpsertRequest
  <2>2. saves(new) \in [1..Len(new) -> UpsertRequest]
    BY <1>3, <2>1
  <2>3. QED
    BY <1>3, <2>2, SegmentSeq
<1>9. check \in Seq(SettingRequest) /\ \A i \in DOMAIN check : check[i].tag = "finish"
  <2>1. [op |-> "setting", tag |-> "finish"] \in SettingRequest
    BY DEF SettingRequest
  <2>2. QED
    BY <2>1
<1>10. \A i \in DOMAIN added(new) :
         saves(new)[i] = Upsert(added(new)[i], NoSlot)
         /\ Mentions(Head(toDart).statuses, added(new)[i].id)
  BY <1>4, <1>5, <1>7 DEF Mentions, statuses
<1>11. /\ rows' \subseteq Row
       /\ \A row \in rows' : \/ \E r \in rows : r.id = row.id
                             \/ \E i \in DOMAIN added(new) : row = added(new)[i]
  BY <1>2, <1>5, <1>6, <1>7
<1> HIDE DEF saves, check
<1>12. added(new) \in Seq(Row) /\ saves(new) \in Seq(UpsertRequest) /\ check \in Seq(SettingRequest)
  BY <1>7, <1>8, <1>9
<1>13. /\ dbQueue' = dbQueue \o saves(new) \o check
       /\ DOMAIN saves(new) = DOMAIN added(new)
       /\ \A i \in DOMAIN check : check[i].tag = "finish"
  BY <1>2, <1>7, <1>8, <1>9
<1>14. QED
  BY <1>10, <1>11, <1>12, <1>13, Zenon

\* What _applyConstraints does to the list and the database's queue.
LEMMA ApplyConstraintsEffect ==
  ASSUME NativeAssumption, EngineAssumption, IInv, NEW v \in BOOLEAN,
         NEW slot \in Slots, NEW before \in Seq(Request),
         ApplyConstraints(v, slot, before)
  PROVE  /\ rows' \in SUBSET Row
         /\ \A row \in rows' : \E r \in rows : r.id = row.id
         /\ \/ dbQueue' = before /\ rows' = {}
            \/ \E row \in rows' : dbQueue' = Append(before, Upsert(row, slot))
         /\ \A s \in Slots : savers'[s].todo \subseteq savers[s].todo \cup rows'
<1> DEFINE list == {AppliedRow(row, v) : row \in rows}
<1>1. rows' = list /\ StartSaving(slot, list, Reassigned(savers), before)
  BY Zenon DEF ApplyConstraints
<1>2. \A row \in rows : AppliedRow(row, v) \in Row /\ AppliedRow(row, v).id = row.id
  BY AppliedRowType DEF IInv, ListInv
<1>3. list \in SUBSET Row /\ \A row \in list : \E r \in rows : r.id = row.id
  BY <1>2
<1> HIDE DEF list
<1>4. savers \in [Slots -> Saver] /\ Reassigned(savers) \in [Slots -> Saver]
  BY SaversType DEF IInv, StoreInv, StoreTypeOK
<1>5. /\ dbQueue' = before \/ \E row \in list : dbQueue' = Append(before, Upsert(row, slot))
      /\ \A s \in Slots : savers'[s].todo \subseteq Reassigned(savers)[s].todo \cup list
  BY <1>1, <1>3, <1>4, StartSavingRows
<1>6. list # {} => \E row \in list : dbQueue' = Append(before, Upsert(row, slot))
  BY <1>1 DEF StartSaving
<1>7. QED
  BY <1>1, <1>3, <1>4, <1>5, <1>6, TodoKept

\* Toggles, and calls to the engine as a whole, bring nothing back.
LEMMA SilentCalls ==
  ASSUME NativeAssumption, EngineAssumption, NEW id \in Ids
  PROVE  /\ \A m \in EngineMethod : \A tag \in EngineTags \cup {NoTag} :
              MakeCall(m, None, tag) \in Call /\ SilentOn(MakeCall(m, None, tag), id)
         /\ \A x \in Ids : \A tag \in EngineTags \cup {NoTag} :
              \A m \in {"toggleTorrent", "deleteTorrent"} :
                MakeCall(m, x, tag) \in Call /\ SilentOn(MakeCall(m, x, tag), id)
         /\ \A x \in Ids : x # id =>
              MakeCall("addTorrent", x, NoTag) \in Call
              /\ SilentOn(MakeCall("addTorrent", x, NoTag), id)
<1>1. \A tag \in EngineTags \cup {NoTag} : tag \in Tags
  BY DEF NativeAssumption, EngineAssumption
<1>2. ASSUME NEW m \in EngineMethod, NEW tag \in EngineTags \cup {NoTag}
      PROVE  MakeCall(m, None, tag) \in Call /\ SilentOn(MakeCall(m, None, tag), id)
  BY <1>1, EngineCall DEF MakeCall, SilentOn, EngineMethod
<1>3. ASSUME NEW x \in Ids, NEW tag \in EngineTags \cup {NoTag},
             NEW m \in {"toggleTorrent", "deleteTorrent"}
      PROVE  MakeCall(m, x, tag) \in Call /\ SilentOn(MakeCall(m, x, tag), id)
  BY <1>1, TorrentCall DEF MakeCall, SilentOn, TorrentMethod
<1>4. ASSUME NEW x \in Ids, x # id
      PROVE  MakeCall("addTorrent", x, NoTag) \in Call
             /\ SilentOn(MakeCall("addTorrent", x, NoTag), id)
  BY <1>1, <1>4, TorrentCall DEF MakeCall, SilentOn, TorrentMethod
<1>5. QED
  BY <1>2, <1>3, <1>4

\* Steps that write nothing and change no row.
LEMMA StoreLeftGone ==
  ASSUME IInv, NEW id \in Ids, GoneHere(id), rows' = rows, db' = db, savers' = savers,
         \/ dbQueue' = dbQueue
         \/ dbQueue # << >> /\ dbQueue' = Tail(dbQueue)
         \/ \E r \in Request : WritesNot(r, id) /\ dbQueue' = Append(dbQueue, r)
  PROVE  GoneHere(id)'
<1>1. dbQueue \in Seq(Request)
  BY DEF IInv, StoreInv, StoreTypeOK
<1>2. CASE dbQueue' = dbQueue
  BY <1>2 DEF GoneHere
<1>3. CASE dbQueue # << >> /\ dbQueue' = Tail(dbQueue)
  <2>1. ToSet(dbQueue') \subseteq ToSet(dbQueue)
    BY <1>1, <1>3, TailItems
  <2>2. QED
    BY <2>1 DEF GoneHere
<1>4. ASSUME NEW r \in Request, WritesNot(r, id), dbQueue' = Append(dbQueue, r)
      PROVE  GoneHere(id)'
  <2>1. ToSet(dbQueue') = ToSet(dbQueue) \cup {r}
    BY <1>1, <1>4, AppendItems
  <2>2. QED
    BY <1>4, <2>1 DEF GoneHere
<1>5. QED
  BY <1>2, <1>3, <1>4

\* The steps of initialize() and shutdown() between the first and the last
\* await, and the user's operations that only make a call.
LEMMA CallingGone ==
  ASSUME NativeAssumption, EngineAssumption, IInv, NEW id \in Ids,
         GoneThere(id), GoneHere(id),
         \/ InitNative \/ InitLoadFails \/ InitPower \/ InitEnd
         \/ Shutdown \/ ShutdownNative \/ ShutdownEnd \/ ShutdownWhenDone
         \/ ResumeAll \/ PauseAll
         \/ \E x \in Ids : ToggleTorrent(x) \/ DeleteTorrent(x) \/ (x # id /\ AddTorrent(x))
  PROVE  GoneThere(id)' /\ GoneHere(id)'
<1>1. /\ UNCHANGED platformVars
      /\ toDart' = toDart \/ (toDart # << >> /\ toDart' = Tail(toDart))
      /\ rows' = rows /\ db' = db /\ savers' = savers
  BY DEF InitNative, InitLoadFails, InitPower, InitEnd, Shutdown, ShutdownNative,
         ShutdownEnd, ShutdownWhenDone, ResumeAll, PauseAll, ToggleTorrent, DeleteTorrent,
         AddTorrent, Resume, Receive, dartVars, storeVars, nativeVars, platformVars,
         sessionVars, pollVars
<1>2. \E call \in Call : SilentOn(call, id)
        /\ (looper' = looper \/ CallNative(<<call>>) \/ CallNative(<< >>))
  <2>1. CASE InitNative \/ InitLoadFails \/ InitEnd
    <3>1. looper' = looper
      BY <2>1 DEF InitNative, InitLoadFails, InitEnd, nativeVars
    <3>2. QED
      BY <3>1, SilentCalls DEF EngineMethod, EngineTags
  <2>2. CASE InitPower
    <3>1. PICK m \in {"acquireWakeLock", "releaseWakeLock"} :
            CallNative(<<MakeCall(m, None, "power")>>)
      BY <2>2 DEF InitPower
    <3>2. QED
      BY <3>1, SilentCalls DEF EngineMethod, EngineTags
  <2>3. CASE Shutdown \/ ShutdownWhenDone
    <3>1. looper' = looper \/ CallNative(<<MakeCall("releaseWakeLock", None, "release")>>)
      BY <2>3 DEF Shutdown, ShutdownWhenDone, BeginShutdown
    <3>2. QED
      BY <3>1, SilentCalls DEF EngineMethod, EngineTags
  <2>4. CASE ShutdownNative
    <3>1. CallNative(<<MakeCall("shutdown", None, "shutdown")>>)
      BY <2>4 DEF ShutdownNative
    <3>2. QED
      BY <3>1, SilentCalls DEF EngineMethod, EngineTags
  <2>5. CASE ShutdownEnd
    <3>1. CallNative(<<MakeCall("cancel", None, NoTag)>>) \/ CallNative(<< >>)
      BY <2>5 DEF ShutdownEnd
    <3>2. QED
      BY <3>1, SilentCalls DEF EngineMethod
  <2>6. CASE ResumeAll \/ PauseAll
    <3>1. \/ CallNative(<<MakeCall("resumeAll", None, NoTag)>>)
          \/ CallNative(<<MakeCall("pauseAll", None, NoTag)>>)
      BY <2>6 DEF ResumeAll, PauseAll
    <3>2. QED
      BY <3>1, SilentCalls DEF EngineMethod
  <2>7. ASSUME NEW x \in Ids, ToggleTorrent(x) \/ DeleteTorrent(x) \/ (x # id /\ AddTorrent(x))
        PROVE  \E call \in Call : SilentOn(call, id) /\ CallNative(<<call>>)
    <3>1. \/ CallNative(<<MakeCall("toggleTorrent", x, NoTag)>>)
          \/ CallNative(<<MakeCall("deleteTorrent", x, "delete")>>)
          \/ (x # id /\ CallNative(<<MakeCall("addTorrent", x, NoTag)>>))
      BY <2>7 DEF ToggleTorrent, DeleteTorrent, AddTorrent
    <3>2. QED
      BY <3>1, SilentCalls DEF EngineTags
  <2>8. QED
    BY <2>1, <2>2, <2>3, <2>4, <2>5, <2>6, <2>7
<1>3. GoneThere(id)'
  BY <1>1, <1>2, CallGone
<1>4. \/ dbQueue' = dbQueue
      \/ dbQueue # << >> /\ dbQueue' = Tail(dbQueue)
      \/ \E r \in Request : WritesNot(r, id) /\ dbQueue' = Append(dbQueue, r)
  <2>1. WritesNot([op |-> "load"], id)
    BY DEF WritesNot
  <2>2. QED
    BY <2>1, LoadType
       DEF InitNative, InitLoadFails, InitPower, InitEnd, Shutdown, ShutdownNative,
           ShutdownEnd, ShutdownWhenDone, ResumeAll, PauseAll, ToggleTorrent, DeleteTorrent,
           AddTorrent, Executing, dartVars, storeVars
<1>5. GoneHere(id)'
  BY <1>1, <1>4, StoreLeftGone
<1>6. QED
  BY <1>3, <1>5

\* Nothing is read from the table that is not in it.
LEMMA InitLoadGone ==
  ASSUME NativeAssumption, EngineAssumption, IInv, NEW id \in Ids,
         GoneThere(id), GoneHere(id), InitLoad
  PROVE  GoneThere(id)' /\ GoneHere(id)'
<1>1. GoneThere(id)'
  <2>1. CallNative(<<MakeCall("listen", None, NoTag)>>) /\ toDart' = toDart
        /\ UNCHANGED platformVars
    BY DEF InitLoad
  <2>2. QED
    BY <2>1, SilentCalls, CallGone DEF EngineMethod
<1>2. GoneHere(id)'
  <2>1. dbQueue \in Seq(Request) /\ savers \in [Slots -> Saver]
    BY DEF IInv, StoreInv, StoreTypeOK
  <2>2. ToSet(dbQueue') \subseteq ToSet(dbQueue)
    BY <2>1, TailItems DEF InitLoad, Executing
  <2>3. \A s \in Slots : savers'[s].todo = savers[s].todo
    BY <2>1, TodoKept DEF InitLoad
  <2>4. QED
    BY <2>2, <2>3 DEF InitLoad, GoneHere
<1>3. QED
  BY <1>1, <1>2

\* Neither a status list nor a check of the constraints names it.
LEMMA StatusUpdateGone ==
  ASSUME NativeAssumption, EngineAssumption, IInv, NEW id \in Ids,
         GoneThere(id), GoneHere(id), StatusUpdate
  PROVE  GoneThere(id)' /\ GoneHere(id)'
<1>1. /\ toDart \in Seq(Reply \cup Event) /\ toDart # << >> /\ toDart' = Tail(toDart)
      /\ dbQueue \in Seq(Request) /\ savers \in [Slots -> Saver] /\ rows \in SUBSET Row
      /\ looper' = looper /\ UNCHANGED platformVars /\ db' = db
  BY DEF StatusUpdate, Receive, IInv, NativeInv, ChannelInv, ChannelTypeOK, StoreInv,
         StoreTypeOK, ListInv
<1>2. GoneThere(id)'
  BY <1>1, NoCallGone
<1>3. CASE statusSub # "listening"
  BY <1>1, <1>2, <1>3, StoreLeftGone DEF StatusUpdate
<1>4. CASE statusSub = "listening"
  <2>1. ~Mentions(Head(toDart).statuses, id)
    <3>1. Head(toDart) \in ToSet(toDart)
      BY <1>1, TailItems
    <3>2. QED
      BY <3>1 DEF StatusUpdate, Receive, GoneThere, SilentTo
  <2>2. PICK added \in Seq(Row), saves \in Seq(UpsertRequest), check \in Seq(SettingRequest) :
          /\ dbQueue' = dbQueue \o saves \o check
          /\ DOMAIN saves = DOMAIN added
          /\ \A i \in DOMAIN added :
               saves[i] = Upsert(added[i], NoSlot)
               /\ Mentions(Head(toDart).statuses, added[i].id)
          /\ \A row \in rows' : \/ \E r \in rows : r.id = row.id
                                \/ \E i \in DOMAIN added : row = added[i]
    BY <1>4, StatusUpdateEffect
  <2>3. \A i \in DOMAIN added : added[i].id # id
    BY <2>1, <2>2
  <2>4. Without(rows', id)
    BY <2>2, <2>3 DEF GoneHere, Without
  <2>5. \A request \in ToSet(dbQueue') : WritesNot(request, id)
    <3>1. \A request \in ToSet(saves) : WritesNot(request, id)
      BY <2>2, <2>3 DEF ToSet, WritesNot, Upsert
    <3>2. \A request \in ToSet(check) : WritesNot(request, id)
      <4>1. \A request \in SettingRequest : WritesNot(request, id)
        BY DEF SettingRequest, WritesNot
      <4>2. QED
        BY <4>1 DEF ToSet
    <3>3. dbQueue \o saves \in Seq(Request)
      BY <1>1 DEF Request
    <3>4. ToSet(dbQueue') = ToSet(dbQueue) \cup ToSet(saves) \cup ToSet(check)
      BY <1>1, <2>2, <3>3, ConcatItems
    <3>5. QED
      BY <3>1, <3>2, <3>4 DEF GoneHere
  <2>6. \A s \in Slots : savers'[s].todo = savers[s].todo
    BY <1>1, <1>4, TodoKept DEF StatusUpdate
  <2>7. GoneHere(id)'
    BY <1>1, <2>4, <2>5, <2>6 DEF GoneHere
  <2>8. QED
    BY <1>2, <2>7
<1>5. QED
  BY <1>3, <1>4

LEMMA ApplyConstraintsGone ==
  ASSUME NativeAssumption, EngineAssumption, IInv, NEW id \in Ids,
         GoneThere(id), GoneHere(id), NEW v \in BOOLEAN, NEW slot \in Slots,
         NEW before \in Seq(Request), \A r \in ToSet(before) : WritesNot(r, id),
         ApplyConstraints(v, slot, before), UNCHANGED <<platformVars, toDart, db>>
  PROVE  GoneThere(id)' /\ GoneHere(id)'
<1>1. GoneThere(id)'
  <2>1. PICK calls \in Seq(Call) : CallNative(calls) /\ Toggles(calls)
    BY ApplyConstraintsType
  <2>2. \A i \in DOMAIN calls : SilentOn(calls[i], id)
    BY <2>1 DEF Toggles, SilentOn
  <2>3. QED
    BY <2>1, <2>2, CallsGone
<1>2. /\ \A row \in rows' : \E r \in rows : r.id = row.id
      /\ dbQueue' = before \/ \E row \in rows' : dbQueue' = Append(before, Upsert(row, slot))
      /\ \A s \in Slots : savers'[s].todo \subseteq savers[s].todo \cup rows'
  BY ApplyConstraintsEffect
<1>3. Without(rows', id)
  BY <1>2 DEF GoneHere, Without
<1>4. \A request \in ToSet(dbQueue') : WritesNot(request, id)
  <2>1. ASSUME NEW row \in rows', dbQueue' = Append(before, Upsert(row, slot))
        PROVE  \A request \in ToSet(dbQueue') : WritesNot(request, id)
    <3>1. WritesNot(Upsert(row, slot), id)
      BY <1>3 DEF Without, WritesNot, Upsert
    <3>2. QED
      BY <2>1, <3>1, AppendWritesNot
  <2>2. QED
    BY <1>2, <2>1
<1>5. \A s \in Slots : Without(savers'[s].todo, id)
  BY <1>2, <1>3 DEF GoneHere, Without
<1>6. QED
  BY <1>1, <1>3, <1>4, <1>5 DEF GoneHere

LEMMA ConditionsGone ==
  ASSUME NativeAssumption, EngineAssumption, IInv, NEW id \in Ids,
         GoneThere(id), GoneHere(id), NEW v \in BOOLEAN,
         InitChecked(v) \/ ConstraintsChecked(v)
  PROVE  GoneThere(id)' /\ GoneHere(id)'
<1>0. dbQueue \in Seq(Request) /\ \A r \in ToSet(dbQueue) : WritesNot(r, id)
  BY DEF IInv, StoreInv, StoreTypeOK, GoneHere
<1>1. CASE UNCHANGED <<rows, looper, savers, dbQueue>> /\ ConstraintsChecked(v)
  BY <1>1, StoreLeftGone, NoCallGone DEF ConstraintsChecked
<1>2. CASE ConstraintsChecked(v) /\ ApplyConstraints(v, "constraints", dbQueue)
  BY <1>0, <1>2, ApplyConstraintsGone DEF ConstraintsChecked, EngineAssumption
<1>3. CASE InitChecked(v)
  <2>1. PICK before \in Seq(Request) :
          ApplyConstraints(v, "init", before) /\ \A r \in ToSet(before) : WritesNot(r, id)
    <3> DEFINE power == [op |-> "setting", tag |-> "power"]
    <3>1. power \in Request /\ WritesNot(power, id)
      BY SettingType DEF WritesNot
    <3> HIDE DEF power
    <3>2. /\ Append(dbQueue, power) \in Seq(Request)
          /\ \A r \in ToSet(Append(dbQueue, power)) : WritesNot(r, id)
      BY <1>0, <3>1, AppendWritesNot
    <3>3. \/ ApplyConstraints(v, "init", Append(dbQueue, power))
          \/ ApplyConstraints(v, "init", dbQueue)
      BY <1>3 DEF InitChecked, power
    <3>4. QED
      BY <1>0, <3>1, <3>2, <3>3
  <2>2. QED
    BY <1>3, <2>1, ApplyConstraintsGone DEF InitChecked, EngineAssumption
<1>4. QED
  BY <1>1, <1>2, <1>3 DEF ConstraintsChecked

\* Deleting another torrent, or this one again, and reordering the others.
LEMMA RowsGone ==
  ASSUME NativeAssumption, EngineAssumption, IInv, NEW id \in Ids,
         GoneThere(id), GoneHere(id), DeleteRow \/ ReorderQueue
  PROVE  GoneThere(id)' /\ GoneHere(id)'
<1>1. dbQueue \in Seq(Request) /\ savers \in [Slots -> Saver]
  BY DEF IInv, StoreInv, StoreTypeOK
<1>2. GoneThere(id)'
  BY NoCallGone
     DEF DeleteRow, Resume, Receive, ReorderQueue, nativeVars, platformVars, sessionVars,
         pollVars
<1>3. /\ db' = db
      /\ \A s \in Slots : savers'[s].todo \subseteq savers[s].todo
      /\ \A row \in rows' : \E r \in rows : r.id = row.id
      /\ \E r : r.op # "upsert" /\ dbQueue' = Append(dbQueue, r)
  <2>1. CASE DeleteRow
    BY <1>1, <2>1, TodoKept DEF DeleteRow
  <2>2. CASE ReorderQueue
    <3>1. PICK pos : /\ rows' = {[row EXCEPT !.queue = pos[row.id]] : row \in rows}
                     /\ dbQueue' = Append(dbQueue, [op |-> "order", pos |-> pos])
      BY <2>2, Zenon DEF ReorderQueue
    <3>2. \A row \in rows : [row EXCEPT !.queue = pos[row.id]].id = row.id
      BY DEF IInv, ListInv, Row
    <3>3. \A row \in rows' : \E r \in rows : r.id = row.id
      BY <3>1, <3>2
    <3>4. db' = db /\ savers' = Reassigned(savers)
      BY <2>2 DEF ReorderQueue
    <3>5. \E r : r.op # "upsert" /\ dbQueue' = Append(dbQueue, r)
      <4>1. [op |-> "order", pos |-> pos].op # "upsert"
        OBVIOUS
      <4>2. QED
        BY <3>1, <4>1, Zenon
    <3>6. QED
      BY <1>1, <3>3, <3>4, <3>5, TodoKept
  <2>3. QED
    BY <2>1, <2>2
<1>4. \A request \in ToSet(dbQueue') : WritesNot(request, id)
  <2>1. PICK r : r.op # "upsert" /\ dbQueue' = Append(dbQueue, r)
    BY <1>3
  <2>2. WritesNot(r, id)
    BY <2>1 DEF WritesNot
  <2>3. QED
    BY <1>1, <2>1, <2>2, AppendWritesNot DEF GoneHere
<1>5. QED
  BY <1>2, <1>3, <1>4 DEF GoneHere, Without

\* The database writes only what the queue and the loops hold.
LEMMA DatabaseGone ==
  ASSUME NativeAssumption, EngineAssumption, IInv, NEW id \in Ids,
         GoneThere(id), GoneHere(id), DbUpsert \/ DbDelete \/ DbOrder
  PROVE  GoneThere(id)' /\ GoneHere(id)'
<1>1. /\ dbQueue \in Seq(Request) /\ savers \in [Slots -> Saver] /\ dbQueue # << >>
      /\ rows \in SUBSET Row /\ db \in SUBSET Row
  BY DEF IInv, ListInv, StoreInv, StoreTypeOK, DbUpsert, DbDelete, DbOrder, Executing
<1>2. UNCHANGED <<nativeVars, rows>>
  BY DEF DbUpsert, DbDelete, DbOrder
<1>3. GoneThere(id)'
  BY <1>2, NoCallGone DEF nativeVars, platformVars, sessionVars, pollVars
<1>4. /\ \A r \in ToSet(Tail(dbQueue)) : WritesNot(r, id)
      /\ WritesNot(Head(dbQueue), id)
      /\ Tail(dbQueue) \in Seq(Request) /\ Head(dbQueue) \in Request
  BY <1>1, TailItems DEF GoneHere
<1>5. CASE DbUpsert
  <2> DEFINE slot == Head(dbQueue).slot
  <2>1. Without(db', id)
    BY <1>4, <1>5 DEF DbUpsert, Executing, Stored, Without, GoneHere, WritesNot
  <2>2. CASE slot \in Slots /\ savers[slot].todo # {}
    <3>1. PICK row \in savers[slot].todo :
            /\ dbQueue' = Append(Tail(dbQueue), Upsert(row, slot))
            /\ savers' = [savers EXCEPT ![slot].todo = @ \ {row}]
      BY <1>5, <2>2 DEF DbUpsert
    <3>2. WritesNot(Upsert(row, slot), id)
      BY <2>2 DEF WritesNot, Upsert, GoneHere, Without
    <3>3. \A r \in ToSet(dbQueue') : WritesNot(r, id)
      BY <1>4, <3>1, <3>2, AppendWritesNot
    <3>4. \A s \in Slots : savers'[s].todo \subseteq savers[s].todo
      BY <1>1, <3>1 DEF Saver
    <3>5. QED
      BY <1>2, <1>3, <2>1, <3>3, <3>4 DEF GoneHere, Without
  <2>3. CASE ~(slot \in Slots /\ savers[slot].todo # {})
    <3>1. savers' = [s \in Slots |-> IF s = slot THEN SaverIdle ELSE savers[s]]
      BY <1>5, <2>3 DEF DbUpsert
    <3>2. \A s \in Slots : savers'[s].todo \subseteq savers[s].todo
      BY <1>1, <3>1 DEF SaverIdle
    <3> DEFINE power == [op |-> "setting", tag |-> "power"]
    <3>3. dbQueue' = Tail(dbQueue) \/ dbQueue' = Append(Tail(dbQueue), power)
      BY <1>5, <2>3 DEF DbUpsert
    <3>4. WritesNot(power, id)
      BY DEF WritesNot
    <3> HIDE DEF power
    <3>5. \A r \in ToSet(dbQueue') : WritesNot(r, id)
      BY <1>4, <3>3, <3>4, AppendWritesNot
    <3>6. QED
      BY <1>2, <1>3, <2>1, <3>2, <3>5 DEF GoneHere, Without
  <2>4. QED
    BY <2>2, <2>3
<1>6. CASE DbDelete
  BY <1>2, <1>3, <1>4, <1>6 DEF DbDelete, GoneHere, Without
<1>7. CASE DbOrder
  <2>1. PICK pos : db' = {IF pos[row.id] > 0 THEN [row EXCEPT !.queue = pos[row.id]]
                          ELSE row : row \in db}
    BY <1>7 DEF DbOrder
  <2>2. \A row \in db : [row EXCEPT !.queue = pos[row.id]].id = row.id
    BY <1>1 DEF Row
  <2>3. Without(db', id)
    <3> DEFINE placed(row) == IF pos[row.id] > 0 THEN [row EXCEPT !.queue = pos[row.id]]
                              ELSE row
    <3>1. \A row \in db : placed(row).id = row.id
      BY <2>2
    <3>2. db' = {placed(row) : row \in db}
      BY <2>1
    <3> HIDE DEF placed
    <3>3. QED
      BY <3>1, <3>2 DEF GoneHere, Without
  <2>4. /\ dbQueue' = Tail(dbQueue)
           \/ \E row \in rows : dbQueue' = Append(Tail(dbQueue), Upsert(row, "reorder"))
        /\ \A s \in Slots : savers'[s].todo \subseteq savers[s].todo \cup rows
    <3>0. "reorder" \in Slots
      BY DEF EngineAssumption
    <3>1. StartSaving("reorder", rows, savers, Tail(dbQueue))
      BY <1>7, Zenon DEF DbOrder
    <3>2. QED
      BY <1>1, <1>4, <3>0, <3>1, StartSavingRows
  <2>5. \A row \in rows : WritesNot(Upsert(row, "reorder"), id)
    BY DEF WritesNot, Upsert, GoneHere, Without
  <2>6. \A r \in ToSet(dbQueue') : WritesNot(r, id)
    <3>1. ASSUME NEW row \in rows, dbQueue' = Append(Tail(dbQueue), Upsert(row, "reorder"))
          PROVE  \A r \in ToSet(dbQueue') : WritesNot(r, id)
      BY <1>4, <2>5, <3>1, AppendWritesNot
    <3>2. QED
      BY <1>4, <2>4, <3>1
  <2>7. QED
    BY <1>2, <1>3, <2>3, <2>4, <2>6 DEF GoneHere, Without
<1>8. QED
  BY <1>5, <1>6, <1>7

\* A restart forgets everything but the table, and perhaps the session.
LEMMA RestartGone ==
  ASSUME NEW id \in Ids, GoneThere(id), GoneHere(id), Restart
  PROVE  GoneThere(id)' /\ GoneHere(id)'
<1>1. /\ looper' = <<FirstCall>> /\ toDart' = << >> /\ poll' = PollIdle
      /\ rows' = {} /\ savers' = NoSavers /\ dbQueue' = << >> /\ db' = db
      /\ session' = session \/ session' = EmptySession
  BY DEF Restart, sessionVars
<1>2. SilentOn(FirstCall, id)
  BY DEF FirstCall, MakeCall, SilentOn
<1>3. ToSet(looper') = {FirstCall} /\ ToSet(toDart') = {} /\ ToSet(dbQueue') = {}
  BY <1>1, SingleItem, NoItems
<1>4. id \notin DOMAIN session'
  BY <1>1 DEF EmptySession, GoneThere
<1>5. GoneThere(id)'
  BY <1>1, <1>2, <1>3, <1>4 DEF GoneThere, PollIdle, Mentions
<1>6. GoneHere(id)'
  BY <1>1, <1>3 DEF GoneHere, Without, NoSavers, SaverIdle
<1>7. QED
  BY <1>5, <1>6

\* A torrent of which no row, no table entry, no pending write and nothing on
\* the Android side is left comes back only when the user adds it again: no
\* poll, late reply, save loop, check of the constraints or restart brings it
\* back.
THEOREM GoneForGood == Spec => GoneStaysGone
<1>1. IInv /\ [Next]_vars =>
        [\A id \in Ids : Gone(id) => Gone(id)' \/ AddTorrent(id)]_vars
  <2> SUFFICES ASSUME IInv, Next, NEW id \in Ids, Gone(id), ~AddTorrent(id)
               PROVE  Gone(id)'
    OBVIOUS
  <2>0. GoneThere(id) /\ GoneHere(id) /\ NativeAssumption /\ EngineAssumption
    BY GoneParts, NativeAssumption, EngineAssumption
  <2>1. CASE Native
    <3>1. GoneThere(id)'
      BY <2>0, <2>1, NativeGone DEF Native, IInv
    <3>2. GoneHere(id)'
      BY <2>0, <2>1, StoreLeftGone DEF Native, dartVars, storeVars
    <3>3. QED
      BY <3>1, <3>2, GonePartsNext
  <2>2. CASE Dart
    BY <2>0, <2>2, CallingGone, StatusUpdateGone, RowsGone, GonePartsNext DEF Dart
  <2>3. CASE Database
    BY <2>0, <2>3, CallingGone, InitLoadGone, DatabaseGone, GonePartsNext DEF Database
  <2>4. CASE User
    <3>1. ASSUME NEW x \in Ids, AddTorrent(x) PROVE x # id
      BY <3>1
    <3>2. QED
      BY <2>0, <2>4, <3>1, CallingGone, RowsGone, GonePartsNext DEF User
  <2>5. CASE Conditions
    BY <2>0, <2>5, ConditionsGone, GonePartsNext DEF Conditions
  <2>6. CASE Restart
    BY <2>0, <2>6, RestartGone, GonePartsNext
  <2>7. QED
    BY <2>1, <2>2, <2>3, <2>4, <2>5, <2>6 DEF Next
<1>2. Init => IInv
  BY InitIInv, EngineAssumption
<1>3. IInv /\ [Next]_vars => IInv'
  BY StepIInv, NativeAssumption, EngineAssumption
<1>4. QED
  BY <1>1, <1>2, <1>3, PTL DEF Spec, GoneStaysGone

-----------------------------------------------------------------------------
(* What the Android side does to the channels.                             *)

\* A call that is handled leaves the looper, and only its reply is new.
LEMMA AnswerMoves ==
  ASSUME ChannelInv, NEW method, Handling(method), NEW ok \in BOOLEAN, Answer(ok)
  PROVE  /\ ToSet(looper') \subseteq ToSet(looper)
         /\ \A m \in ToSet(toDart') :
              \/ m \in ToSet(toDart)
              \/ m.type = "reply" /\ \E c \in ToSet(looper) : c.type = "call" /\ c.tag = m.tag
<1>1. looper \in Seq(Call \cup Post) /\ toDart \in Seq(Reply \cup Event)
  BY DEF ChannelInv, ChannelTypeOK
<1>2. looper # << >> /\ looper' = Tail(looper) /\ Head(looper).type = "call"
  BY DEF Handling
<1>3. ToSet(looper) = {Head(looper)} \cup ToSet(looper')
  BY <1>1, <1>2, TailItems
<1> DEFINE reply == [type |-> "reply", tag |-> Head(looper).tag,
                     id |-> Head(looper).id, ok |-> ok]
<1>4. reply.type = "reply" /\ reply.tag = Head(looper).tag
  OBVIOUS
<1>5. toDart' = toDart \/ toDart' = Append(toDart, reply)
  BY DEF Answer
<1> HIDE DEF reply
<1>6. ToSet(toDart') \subseteq ToSet(toDart) \cup {reply}
  BY <1>1, <1>5, AppendItems
<1>7. QED
  BY <1>2, <1>3, <1>4, <1>6

\* The Android side makes no call, and replies to none that was not made.
LEMMA NativeMoves ==
  ASSUME ChannelInv, NativeNext
  PROVE  /\ \A item \in ToSet(looper') : item \in ToSet(looper) \/ item.type = "post"
         /\ \A m \in ToSet(toDart') :
              \/ m \in ToSet(toDart)
              \/ m.type = "status"
              \/ m.type = "reply" /\ \E c \in ToSet(looper) : c.type = "call" /\ c.tag = m.tag
<1>0. looper \in Seq(Call \cup Post) /\ toDart \in Seq(Reply \cup Event)
  BY DEF ChannelInv, ChannelTypeOK
<1>1. CASE \/ HandleInitialize \/ HandleInitializeFails \/ HandleShutdown
           \/ HandleAddTorrent \/ HandleAddTorrentFails \/ HandleToggleTorrent
           \/ HandlePauseAll \/ HandleResumeAll \/ HandleDeleteTorrent
           \/ HandleWakeLock \/ HandleListen \/ HandleCancel
  <2>1. \E method : \E ok \in BOOLEAN : Handling(method) /\ Answer(ok)
    BY <1>1
       DEF HandleInitialize, HandleInitializeFails, HandleShutdown, HandleAddTorrent,
           HandleAddTorrentFails, HandleToggleTorrent, HandlePauseAll, HandleResumeAll,
           HandleDeleteTorrent, HandleWakeLock, HandleListen, HandleCancel
  <2>2. QED
    BY <2>1, AnswerMoves
<1>2. CASE HandlePost
  <2> DEFINE event == [type |-> "status", statuses |-> Head(looper).statuses]
  <2>1. ToSet(looper) = {Head(looper)} \cup ToSet(looper')
    BY <1>0, <1>2, TailItems DEF HandlePost
  <2>2. event.type = "status"
    OBVIOUS
  <2>3. toDart' = toDart \/ toDart' = Append(toDart, event)
    BY <1>2 DEF HandlePost
  <2> HIDE DEF event
  <2>4. ToSet(toDart') \subseteq ToSet(toDart) \cup {event}
    BY <1>0, <2>3, AppendItems
  <2>5. QED
    BY <2>1, <2>2, <2>4
<1>3. CASE PollPost
  <2> DEFINE post == [type |-> "post", statuses |-> poll.statuses]
  <2>1. post.type = "post"
    OBVIOUS
  <2>2. looper' = looper \/ looper' = Append(looper, post)
    BY <1>3 DEF PollPost
  <2> HIDE DEF post
  <2>3. ToSet(looper') \subseteq ToSet(looper) \cup {post}
    BY <1>0, <2>2, AppendItems
  <2>4. QED
    BY <1>3, <2>1, <2>3 DEF PollPost
<1>4. CASE PollCheck \/ PollRead \/ PollReadDangling \/ \E x \in Ids : Advance(x)
  <2>1. looper' = looper /\ toDart' = toDart
    BY <1>4 DEF PollCheck, PollRead, PollReadDangling, Advance
  <2>2. QED
    BY <2>1
<1>5. QED
  BY <1>1, <1>2, <1>3, <1>4 DEF NativeNext, HandleLooper, Timer

-----------------------------------------------------------------------------
(* Until the table has been read the list is empty, nobody listens and no  *)
(* torrent is being deleted: what is read is all there is.                 *)

Loading == initPc \in {"native", "load"}

NotDeleting(item) == item.type = "call" => item.tag # "delete"
NotDeleted(message) == message.type = "reply" => message.tag # "delete"
NoDelete(request) == request.op # "delete"

NothingLoaded ==
  Loading =>
    /\ rows = {} /\ statusSub = "none" /\ constraintSub = "none"
    /\ \A item \in ToSet(looper) : NotDeleting(item)
    /\ \A message \in ToSet(toDart) : NotDeleted(message)
    /\ \A request \in ToSet(dbQueue) : NoDelete(request)

LEMMA NothingLoadedFirst == EngineAssumption /\ Init => NothingLoaded
<1> SUFFICES ASSUME EngineAssumption, Init PROVE NothingLoaded
  OBVIOUS
<1>1. ToSet(looper) = {FirstCall} /\ ToSet(toDart) = {} /\ ToSet(dbQueue) = {}
  BY SingleItem, NoItems DEF Init
<1>2. QED
  BY <1>1 DEF Init, NothingLoaded, NotDeleting, FirstCall, MakeCall

\* A step that leaves the list and the subscriptions, makes only calls that
\* delete nothing and asks the database for no delete.
LEMMA StillNothing ==
  ASSUME IInv, NothingLoaded, Loading,
         UNCHANGED <<rows, statusSub, constraintSub>>,
         toDart' = toDart \/ (toDart # << >> /\ toDart' = Tail(toDart)),
         NEW call \in Call, NotDeleting(call),
         looper' = looper \/ CallNative(<<call>>) \/ CallNative(<< >>),
         NEW request \in Request, NoDelete(request),
         \/ dbQueue' = dbQueue \/ dbQueue' = Append(dbQueue, request)
         \/ (dbQueue # << >> /\ dbQueue' = Tail(dbQueue))
  PROVE  NothingLoaded'
<1>1. /\ looper \in Seq(Call \cup Post) /\ toDart \in Seq(Reply \cup Event)
      /\ dbQueue \in Seq(Request)
  BY DEF IInv, NativeInv, ChannelInv, ChannelTypeOK, StoreInv, StoreTypeOK
<1>2. ToSet(toDart') \subseteq ToSet(toDart)
  BY <1>1, TailItems
<1>3. ToSet(looper') \subseteq ToSet(looper) \cup {call}
  <2>1. ToSet(<<call>>) = {call} /\ <<call>> \in Seq({call})
        /\ ToSet(<< >>) = {} /\ << >> \in Seq({})
    BY SingleItem, NoItems
  <2>2. ToSet(looper \o <<call>>) = ToSet(looper) \cup ToSet(<<call>>)
    BY <1>1, <2>1, ConcatItems
  <2>3. ToSet(looper \o << >>) = ToSet(looper) \cup ToSet(<< >>)
    BY <1>1, <2>1, ConcatItems
  <2>4. QED
    BY <2>1, <2>2, <2>3, Zenon DEF CallNative
<1>4. ToSet(dbQueue') \subseteq ToSet(dbQueue) \cup {request}
  <2>1. ToSet(Append(dbQueue, request)) = ToSet(dbQueue) \cup {request}
    BY <1>1, AppendItems
  <2>2. dbQueue # << >> => ToSet(Tail(dbQueue)) \subseteq ToSet(dbQueue)
    BY <1>1, TailItems
  <2>3. QED
    BY <2>1, <2>2
<1>5. QED
  BY <1>2, <1>3, <1>4 DEF NothingLoaded

\* Calls and requests that delete nothing.
LEMMA QuietCalls ==
  ASSUME NativeAssumption, EngineAssumption
  PROVE  /\ \A m \in EngineMethod : \A tag \in (EngineTags \cup {NoTag}) \ {"delete"} :
              MakeCall(m, None, tag) \in Call /\ NotDeleting(MakeCall(m, None, tag))
         /\ \A x \in Ids : \A m \in {"addTorrent", "toggleTorrent"} :
              MakeCall(m, x, NoTag) \in Call /\ NotDeleting(MakeCall(m, x, NoTag))
         /\ NoTag # "delete"
         /\ [op |-> "load"] \in Request /\ NoDelete([op |-> "load"])
<1>1. \A tag \in EngineTags \cup {NoTag} : tag \in Tags
  BY DEF NativeAssumption, EngineAssumption
<1>2. NoTag # "delete"
  BY DEF EngineAssumption, EngineTags
<1>3. ASSUME NEW m \in EngineMethod, NEW tag \in (EngineTags \cup {NoTag}) \ {"delete"}
      PROVE  MakeCall(m, None, tag) \in Call /\ NotDeleting(MakeCall(m, None, tag))
  BY <1>1, EngineCall DEF MakeCall, NotDeleting
<1>4. ASSUME NEW x \in Ids, NEW m \in {"addTorrent", "toggleTorrent"}
      PROVE  MakeCall(m, x, NoTag) \in Call /\ NotDeleting(MakeCall(m, x, NoTag))
  BY <1>1, <1>2, TorrentCall DEF MakeCall, NotDeleting, TorrentMethod
<1>5. [op |-> "load"] \in Request /\ NoDelete([op |-> "load"])
  BY LoadType DEF NoDelete
<1>6. QED
  BY <1>2, <1>3, <1>4, <1>5

\* The invariant is kept.
LEMMA NothingLoadedStep ==
  ASSUME NativeAssumption, EngineAssumption, IInv, NothingLoaded, Next
  PROVE  NothingLoaded'
<1>0. /\ looper \in Seq(Call \cup Post) /\ toDart \in Seq(Reply \cup Event)
      /\ dbQueue \in Seq(Request) /\ ChannelInv
  BY DEF IInv, NativeInv, ChannelInv, ChannelTypeOK, StoreInv, StoreTypeOK
<1>1. CASE Native
  <2>1. /\ \A item \in ToSet(looper') : item \in ToSet(looper) \/ item.type = "post"
        /\ \A m \in ToSet(toDart') :
             \/ m \in ToSet(toDart)
             \/ m.type = "status"
             \/ m.type = "reply" /\ \E c \in ToSet(looper) : c.type = "call" /\ c.tag = m.tag
    BY <1>0, <1>1, NativeMoves DEF Native
  <2>2. UNCHANGED <<rows, statusSub, constraintSub, initPc, dbQueue>>
    BY <1>1 DEF Native, dartVars, watchVars, storeVars
  <2>3. ASSUME Loading
        PROVE  /\ \A item \in ToSet(looper') : NotDeleting(item)
               /\ \A message \in ToSet(toDart') : NotDeleted(message)
    BY <2>1, <2>3 DEF NothingLoaded, NotDeleting, NotDeleted
  <2>4. QED
    BY <2>2, <2>3 DEF NothingLoaded, Loading
<1>2. CASE Restart
  <2>1. ToSet(looper') = {FirstCall} /\ ToSet(toDart') = {} /\ ToSet(dbQueue') = {}
    BY <1>2, SingleItem, NoItems DEF Restart
  <2>2. QED
    BY <1>2, <2>1 DEF Restart, NothingLoaded, NotDeleting, FirstCall, MakeCall
<1>3. CASE InitLoad \/ InitLoadFails \/ InitEnd \/ \E v \in BOOLEAN : InitChecked(v)
  <2>1. ~Loading'
    BY <1>3 DEF InitLoad, InitLoadFails, InitEnd, InitChecked, Loading
  <2>2. QED
    BY <2>1 DEF NothingLoaded
<1>5. CASE InitNative
  <2>1. CASE Loading'
    <3>1. /\ UNCHANGED <<rows, statusSub, constraintSub>> /\ looper' = looper
          /\ toDart # << >> /\ toDart' = Tail(toDart)
          /\ dbQueue' = dbQueue \/ dbQueue' = Append(dbQueue, [op |-> "load"])
          /\ Loading
      BY <1>5 DEF InitNative, Resume, Receive, watchVars, Loading
    <3>2. QED
      BY <3>1, StillNothing, QuietCalls DEF EngineMethod, EngineTags
  <2>2. QED
    BY <2>1 DEF NothingLoaded
<1>6. CASE StatusUpdate
  <2>1. CASE Loading
    <3>1. /\ UNCHANGED <<rows, statusSub, constraintSub, dbQueue>> /\ looper' = looper
          /\ toDart # << >> /\ toDart' = Tail(toDart)
      BY <1>6, <2>1 DEF StatusUpdate, Receive, watchVars, NothingLoaded
    <3>2. QED
      BY <2>1, <3>1, StillNothing, QuietCalls DEF EngineMethod, EngineTags
  <2>2. QED
    BY <1>6, <2>1 DEF NothingLoaded, StatusUpdate, Loading
<1>7. CASE ShutdownNative
  <2>1. CASE Loading
    <3>1. /\ UNCHANGED <<rows, statusSub, constraintSub, dbQueue>>
          /\ toDart # << >> /\ toDart' = Tail(toDart)
          /\ CallNative(<<MakeCall("shutdown", None, "shutdown")>>)
      BY <1>7 DEF ShutdownNative, Resume, Receive, dartVars, watchVars, storeVars
    <3>2. QED
      BY <2>1, <3>1, StillNothing, QuietCalls DEF EngineMethod, EngineTags
  <2>2. QED
    BY <1>7, <2>1 DEF NothingLoaded, ShutdownNative, Loading, dartVars
<1>8. CASE ShutdownEnd
  <2>1. CASE Loading
    <3>1. /\ rows' = rows /\ dbQueue' = dbQueue
          /\ toDart # << >> /\ toDart' = Tail(toDart)
          /\ CallNative(<< >>) /\ UNCHANGED <<statusSub, constraintSub>>
      BY <1>8, <2>1 DEF ShutdownEnd, Resume, Receive, storeVars, NothingLoaded, Cancelled
    <3>2. QED
      BY <2>1, <3>1, StillNothing, QuietCalls DEF EngineMethod, EngineTags
  <2>2. QED
    BY <1>8, <2>1 DEF NothingLoaded, ShutdownEnd, Loading
<1>9. CASE DeleteRow
  <2>1. ~Loading
    <3>1. Head(toDart) \in ToSet(toDart)
      BY <1>0, <1>9, TailItems DEF DeleteRow, Resume, Receive
    <3>2. QED
      BY <1>9, <3>1 DEF DeleteRow, Resume, Receive, NothingLoaded, NotDeleted
  <2>2. QED
    BY <1>9, <2>1 DEF NothingLoaded, DeleteRow, Loading
<1>10. CASE InitPower
  <2>1. CASE Loading
    <3>1. PICK m \in {"acquireWakeLock", "releaseWakeLock"} :
            CallNative(<<MakeCall(m, None, "power")>>)
      BY <1>10 DEF InitPower
    <3>2. /\ UNCHANGED <<rows, statusSub, constraintSub, toDart>>
          /\ dbQueue # << >> /\ dbQueue' = Tail(dbQueue)
      BY <1>10 DEF InitPower, Executing, watchVars
    <3>3. QED
      BY <2>1, <3>1, <3>2, StillNothing, QuietCalls DEF EngineMethod, EngineTags
  <2>2. QED
    BY <1>10, <2>1 DEF NothingLoaded, InitPower, Loading
<1>11. CASE Shutdown \/ ShutdownWhenDone
  <2>1. CASE Loading
    <3>1. looper' = looper \/ CallNative(<<MakeCall("releaseWakeLock", None, "release")>>)
      BY <1>11 DEF Shutdown, ShutdownWhenDone, BeginShutdown
    <3>2. /\ UNCHANGED <<rows, statusSub, constraintSub, toDart>>
          /\ dbQueue' = dbQueue \/ (dbQueue # << >> /\ dbQueue' = Tail(dbQueue))
      BY <1>11 DEF Shutdown, ShutdownWhenDone, Executing, watchVars, storeVars
    <3>3. QED
      BY <2>1, <3>1, <3>2, StillNothing, QuietCalls DEF EngineMethod, EngineTags
  <2>2. initPc' = initPc
    BY <1>11 DEF Shutdown, ShutdownWhenDone
  <2>3. QED
    BY <2>1, <2>2 DEF NothingLoaded, Loading
<1>12. CASE DbUpsert \/ DbDelete \/ DbOrder
  <2>1. CASE Loading
    <3>1. UNCHANGED <<rows, statusSub, constraintSub, looper, toDart>>
      BY <1>12 DEF DbUpsert, DbDelete, DbOrder, nativeVars, watchVars
    <3>2. ToSet(Tail(dbQueue)) \subseteq ToSet(dbQueue) /\ Tail(dbQueue) \in Seq(Request)
      BY <1>0, <1>12, TailItems DEF DbUpsert, DbDelete, DbOrder, Executing
    <3>3. \/ dbQueue' = Tail(dbQueue)
          \/ \E r : NoDelete(r) /\ dbQueue' = Append(Tail(dbQueue), r)
      BY <1>12, <2>1 DEF DbUpsert, DbDelete, DbOrder, StartSaving, NothingLoaded, NoDelete, Upsert
    <3>4. \A r \in ToSet(dbQueue') : NoDelete(r)
      <4>1. CASE dbQueue' = Tail(dbQueue)
        BY <2>1, <3>2, <4>1 DEF NothingLoaded
      <4>2. ASSUME NEW r, NoDelete(r), dbQueue' = Append(Tail(dbQueue), r)
            PROVE  \A x \in ToSet(dbQueue') : NoDelete(x)
        <5>1. ToSet(dbQueue') = ToSet(Tail(dbQueue)) \cup {r}
          BY <3>2, <4>2, AppendItems
        <5>2. QED
          BY <2>1, <3>2, <4>2, <5>1 DEF NothingLoaded
      <4>3. QED
        BY <3>3, <4>1, <4>2
    <3>5. QED
      BY <2>1, <3>1, <3>4 DEF NothingLoaded
  <2>2. Loading' => Loading
    BY <1>12 DEF DbUpsert, DbDelete, DbOrder, Loading
  <2>3. QED
    BY <2>1, <2>2 DEF NothingLoaded
<1>13. ASSUME NEW x \in Ids, AddTorrent(x) \/ ToggleTorrent(x) \/ DeleteTorrent(x)
       PROVE  NothingLoaded'
  <2>1. CASE Loading
    <3>1. ~DeleteTorrent(x)
      BY <2>1 DEF DeleteTorrent, Listed, NothingLoaded
    <3>2. PICK m \in {"addTorrent", "toggleTorrent"} : CallNative(<<MakeCall(m, x, NoTag)>>)
      BY <1>13, <3>1 DEF AddTorrent, ToggleTorrent
    <3>3. UNCHANGED <<rows, statusSub, constraintSub, toDart, dbQueue>>
      BY <1>13, <3>1 DEF AddTorrent, ToggleTorrent, watchVars, storeVars
    <3>4. QED
      BY <2>1, <3>2, <3>3, StillNothing, QuietCalls
  <2>2. initPc' = initPc
    BY <1>13 DEF AddTorrent, ToggleTorrent, DeleteTorrent
  <2>3. QED
    BY <2>1, <2>2 DEF NothingLoaded, Loading
<1>14. CASE ResumeAll \/ PauseAll
  <2>1. CASE Loading
    <3>1. PICK m \in {"resumeAll", "pauseAll"} : CallNative(<<MakeCall(m, None, NoTag)>>)
      BY <1>14 DEF ResumeAll, PauseAll
    <3>2. UNCHANGED <<rows, statusSub, constraintSub, toDart, dbQueue>>
      BY <1>14 DEF ResumeAll, PauseAll, watchVars, storeVars
    <3>3. QED
      BY <2>1, <3>1, <3>2, StillNothing, QuietCalls DEF EngineMethod
  <2>2. initPc' = initPc
    BY <1>14 DEF ResumeAll, PauseAll
  <2>3. QED
    BY <2>1, <2>2 DEF NothingLoaded, Loading
<1>15. CASE ReorderQueue
  <2>1. CASE Loading
    <3>1. UNCHANGED <<statusSub, constraintSub, looper, toDart>>
      BY <1>15 DEF ReorderQueue, nativeVars, watchVars
    <3>2. \E r : /\ NoDelete(r) /\ dbQueue' = Append(dbQueue, r)
      <4>1. PICK pos : dbQueue' = Append(dbQueue, [op |-> "order", pos |-> pos])
        BY <1>15, Zenon DEF ReorderQueue
      <4>2. NoDelete([op |-> "order", pos |-> pos])
        BY DEF NoDelete
      <4>3. QED
        BY <4>1, <4>2, Zenon
    <3>3. rows' = {}
      <4>1. PICK pos : rows' = {[row EXCEPT !.queue = pos[row.id]] : row \in rows}
        BY <1>15, Zenon DEF ReorderQueue
      <4>2. QED
        BY <2>1, <4>1 DEF NothingLoaded
    <3>4. \A r \in ToSet(dbQueue') : NoDelete(r)
      <4>1. PICK r : NoDelete(r) /\ dbQueue' = Append(dbQueue, r)
        BY <3>2
      <4>2. ToSet(dbQueue') = ToSet(dbQueue) \cup {r}
        BY <1>0, <4>1, AppendItems
      <4>3. QED
        BY <2>1, <4>1, <4>2 DEF NothingLoaded
    <3>5. QED
      BY <2>1, <3>1, <3>3, <3>4 DEF NothingLoaded
  <2>2. initPc' = initPc
    BY <1>15 DEF ReorderQueue
  <2>3. QED
    BY <2>1, <2>2 DEF NothingLoaded, Loading
<1>16. ASSUME NEW v \in BOOLEAN, ConstraintsChecked(v)
       PROVE  NothingLoaded'
  <2>1. CASE Loading
    <3>1. UNCHANGED <<rows, statusSub, constraintSub, toDart, looper, dbQueue>>
      BY <1>16, <2>1 DEF ConstraintsChecked, NothingLoaded
    <3>2. QED
      BY <2>1, <3>1 DEF NothingLoaded
  <2>2. initPc' = initPc
    BY <1>16 DEF ConstraintsChecked
  <2>3. QED
    BY <2>1, <2>2 DEF NothingLoaded, Loading
<1>17. QED
  BY <1>1, <1>2, <1>3, <1>5, <1>6, <1>7, <1>8, <1>9, <1>10, <1>11, <1>12, <1>13, <1>14,
     <1>15, <1>16
     DEF Next, Dart, Database, User, Conditions

-----------------------------------------------------------------------------
(* A listed torrent stays in the table, or is on its way there.            *)

Writes(request, id) == request.op = "upsert" /\ request.row.id = id
Deletes(request, id) == request.op = "delete" /\ request.id = id

\* The table has it and no request takes it out, or a request writes it that
\* no later one takes back.
Stays(table, queue, id) ==
  \/ /\ \E row \in table : row.id = id
     /\ \A i \in DOMAIN queue : ~Deletes(queue[i], id)
  \/ \E i \in DOMAIN queue :
       /\ Writes(queue[i], id)
       /\ \A j \in DOMAIN queue : j > i => ~Deletes(queue[j], id)

ListedStays == \A id \in Ids : Listed(id) => Stays(db, dbQueue, id)

\* Requests put at the end that do not delete it change nothing.
LEMMA StaysConcat ==
  ASSUME NEW table, NEW id, NEW q \in Seq(Request), Stays(table, q, id),
         NEW s \in Seq(Request), \A i \in DOMAIN s : ~Deletes(s[i], id)
  PROVE  Stays(table, q \o s, id)
<1>1. /\ Len(q) \in Nat /\ DOMAIN q = 1..Len(q)
      /\ \A i \in DOMAIN q : i \in DOMAIN (q \o s) /\ (q \o s)[i] = q[i]
      /\ \A i \in DOMAIN (q \o s) :
           \/ i \in DOMAIN q /\ (q \o s)[i] = q[i]
           \/ i - Len(q) \in DOMAIN s /\ (q \o s)[i] = s[i - Len(q)]
  OBVIOUS
<1>2. \A i \in DOMAIN (q \o s) : ~Deletes((q \o s)[i], id) \/ (i \in DOMAIN q /\ (q \o s)[i] = q[i])
  BY <1>1, Zenon
<1> DEFINE r == q \o s
<1> HIDE DEF r
<1>3. CASE \E i \in DOMAIN q : /\ Writes(q[i], id)
                               /\ \A j \in DOMAIN q : j > i => ~Deletes(q[j], id)
  <2>1. PICK i \in DOMAIN q : /\ Writes(q[i], id)
                              /\ \A j \in DOMAIN q : j > i => ~Deletes(q[j], id)
    BY <1>3
  <2>2. i \in DOMAIN r /\ Writes(r[i], id)
    BY <1>1, <2>1, Zenon DEF r
  <2>3. \A j \in DOMAIN r : j > i => ~Deletes(r[j], id)
    BY <1>2, <2>1, Zenon DEF r
  <2>4. QED
    BY <2>2, <2>3, Zenon DEF Stays, r
<1>4. CASE /\ \E row \in table : row.id = id
           /\ \A i \in DOMAIN q : ~Deletes(q[i], id)
  BY <1>2, <1>4, Zenon DEF Stays
<1>5. QED
  BY <1>3, <1>4 DEF Stays

\* A single request.
LEMMA StaysAppend ==
  ASSUME NEW table, NEW id, NEW q \in Seq(Request), Stays(table, q, id),
         NEW request \in Request, ~Deletes(request, id)
  PROVE  Stays(table, Append(q, request), id)
<1>1. <<request>> \in Seq(Request) /\ \A i \in DOMAIN <<request>> : ~Deletes(<<request>>[i], id)
  OBVIOUS
<1>2. Append(q, request) = q \o <<request>>
  OBVIOUS
<1>3. QED
  BY <1>1, <1>2, StaysConcat

\* Among the requests put at the end is one that writes it, and none deletes it.
LEMMA StaysWritten ==
  ASSUME NEW table, NEW id, NEW q \in Seq(Request),
         NEW s \in Seq(Request), \A i \in DOMAIN s : ~Deletes(s[i], id),
         \E i \in DOMAIN s : Writes(s[i], id)
  PROVE  Stays(table, q \o s, id)
<1>1. PICK k \in DOMAIN s : Writes(s[k], id)
  OBVIOUS
<1> DEFINE r == q \o s
           i == Len(q) + k
<1>2. /\ i \in DOMAIN r /\ r[i] = s[k] /\ k \in Nat
      /\ \A j \in DOMAIN r : j > i => j - Len(q) \in DOMAIN s /\ r[j] = s[j - Len(q)]
  OBVIOUS
<1> HIDE DEF i, r
<1>3. Writes(r[i], id)
  BY <1>1, <1>2
<1>4. \A j \in DOMAIN r : j > i => ~Deletes(r[j], id)
  BY <1>2, Zenon
<1>5. Stays(table, r, id)
  BY <1>2, <1>3, <1>4, Zenon DEF Stays
<1>6. QED
  BY <1>5 DEF r

\* The oldest request is executed.
LEMMA StaysExecuted ==
  ASSUME NEW table, NEW table1, NEW id, NEW q \in Seq(Request), q # << >>,
         Stays(table, q, id),
         Writes(Head(q), id) => \E row \in table1 : row.id = id,
         (\E row \in table : row.id = id) /\ ~Deletes(Head(q), id)
           => \E row \in table1 : row.id = id
  PROVE  Stays(table1, Tail(q), id)
<1> DEFINE r == Tail(q)
<1>1. /\ Head(q) = q[1] /\ 1 \in DOMAIN q
      /\ \A i \in DOMAIN r : i + 1 \in DOMAIN q /\ r[i] = q[i + 1] /\ i + 1 > 1
      /\ \A i \in DOMAIN q : i # 1 => i - 1 \in DOMAIN r /\ r[i - 1] = q[i]
      /\ DOMAIN q \subseteq Nat /\ DOMAIN r \subseteq Nat
  OBVIOUS
<1> HIDE DEF r
<1>2. CASE /\ \E row \in table : row.id = id
           /\ \A i \in DOMAIN q : ~Deletes(q[i], id)
  <2>1. \E row \in table1 : row.id = id
    BY <1>1, <1>2
  <2>2. \A i \in DOMAIN r : ~Deletes(r[i], id)
    BY <1>1, <1>2
  <2>3. QED
    BY <2>1, <2>2 DEF Stays, r
<1>3. CASE \E i \in DOMAIN q : /\ Writes(q[i], id)
                               /\ \A j \in DOMAIN q : j > i => ~Deletes(q[j], id)
  <2>1. PICK i \in DOMAIN q : /\ Writes(q[i], id)
                              /\ \A j \in DOMAIN q : j > i => ~Deletes(q[j], id)
    BY <1>3
  <2>2. CASE i = 1
    <3>1. \E row \in table1 : row.id = id
      BY <1>1, <2>1, <2>2
    <3>2. \A j \in DOMAIN r : ~Deletes(r[j], id)
      BY <1>1, <2>1, <2>2
    <3>3. QED
      BY <3>1, <3>2 DEF Stays, r
  <2>3. CASE i # 1
    <3>1. i - 1 \in DOMAIN r /\ Writes(r[i - 1], id)
      BY <1>1, <2>1, <2>3, Zenon
    <3>2. \A j \in DOMAIN r : j > i - 1 => j + 1 > i
      BY <1>1
    <3>3. \A j \in DOMAIN r : j > i - 1 => ~Deletes(r[j], id)
      BY <1>1, <2>1, <3>2, Zenon
    <3>4. QED
      BY <3>1, <3>3, Zenon DEF Stays, r
  <2>4. QED
    BY <2>2, <2>3
<1>4. QED
  BY <1>2, <1>3 DEF Stays

\* Every torrent listed after the step was listed before, and the step puts
\* at most one request into the queue, which does not delete it.
LEMMA StillStays ==
  ASSUME IInv, ListedStays, db' = db, \A row \in rows' : \E r \in rows : r.id = row.id,
         \/ dbQueue' = dbQueue
         \/ \E request \in Request :
              /\ dbQueue' = Append(dbQueue, request)
              /\ \A row \in rows' : ~Deletes(request, row.id)
  PROVE  ListedStays'
<1> SUFFICES ASSUME NEW id \in Ids, Listed(id)'
             PROVE  Stays(db', dbQueue', id)
  BY DEF ListedStays
<1>1. dbQueue \in Seq(Request)
  BY DEF IInv, StoreInv, StoreTypeOK
<1>2. Stays(db, dbQueue, id)
  BY DEF Listed, ListedStays
<1>3. ASSUME NEW request \in Request, dbQueue' = Append(dbQueue, request),
             \A row \in rows' : ~Deletes(request, row.id)
      PROVE  Stays(db', dbQueue', id)
  <2>1. ~Deletes(request, id)
    BY <1>3 DEF Listed
  <2>2. QED
    BY <1>1, <1>2, <1>3, <2>1, StaysAppend
<1>4. QED
  BY <1>2, <1>3

\* The database executes a request and puts at most one into the queue, which
\* deletes nothing.
LEMMA StaysServed ==
  ASSUME IInv, ListedStays, rows' = rows, dbQueue # << >>,
         \A id \in Ids : Writes(Head(dbQueue), id) => \E row \in db' : row.id = id,
         \A id \in Ids : (\E row \in db : row.id = id) /\ ~Deletes(Head(dbQueue), id)
                           => \E row \in db' : row.id = id,
         \/ dbQueue' = Tail(dbQueue)
         \/ \E request \in Request : /\ dbQueue' = Append(Tail(dbQueue), request)
                                     /\ NoDelete(request)
  PROVE  ListedStays'
<1> SUFFICES ASSUME NEW id \in Ids, Listed(id)'
             PROVE  Stays(db', dbQueue', id)
  BY DEF ListedStays
<1>1. dbQueue \in Seq(Request) /\ Tail(dbQueue) \in Seq(Request)
  BY DEF IInv, StoreInv, StoreTypeOK
<1>2. Stays(db, dbQueue, id)
  BY DEF Listed, ListedStays
<1>3. Stays(db', Tail(dbQueue), id)
  BY <1>1, <1>2, StaysExecuted
<1>4. ASSUME NEW request \in Request, dbQueue' = Append(Tail(dbQueue), request), NoDelete(request)
      PROVE  Stays(db', dbQueue', id)
  <2>1. ~Deletes(request, id)
    BY <1>4 DEF NoDelete, Deletes
  <2>2. QED
    BY <1>1, <1>3, <1>4, <2>1, StaysAppend
<1>5. QED
  BY <1>3, <1>4

\* A status list writes each row it adds.
LEMMA StatusUpdateStays ==
  ASSUME NativeAssumption, EngineAssumption, IInv, ListedStays, StatusUpdate
  PROVE  ListedStays'
<1>1. CASE statusSub # "listening"
  BY <1>1, StillStays DEF StatusUpdate
<1>2. CASE statusSub = "listening"
  <2>1. PICK added \in Seq(Row), saves \in Seq(UpsertRequest), check \in Seq(SettingRequest) :
          /\ dbQueue' = dbQueue \o saves \o check
          /\ DOMAIN saves = DOMAIN added
          /\ \A i \in DOMAIN added :
               saves[i] = Upsert(added[i], NoSlot)
               /\ Mentions(Head(toDart).statuses, added[i].id)
          /\ \A row \in rows' : \/ \E r \in rows : r.id = row.id
                                \/ \E i \in DOMAIN added : row = added[i]
    BY <1>2, StatusUpdateEffect
  <2>2. /\ dbQueue \in Seq(Request) /\ db' = db
        /\ saves \in Seq(Request) /\ check \in Seq(Request)
        /\ dbQueue \o saves \in Seq(Request)
    <3>1. UpsertRequest \subseteq Request /\ SettingRequest \subseteq Request
      BY DEF Request
    <3>2. dbQueue \in Seq(Request) /\ db' = db
      BY DEF IInv, StoreInv, StoreTypeOK, StatusUpdate
    <3>3. QED
      BY <2>1, <3>1, <3>2
  <2>3. ASSUME NEW id \in Ids, Listed(id)'
        PROVE  Stays(db', dbQueue', id)
    <3>1. \A i \in DOMAIN saves : ~Deletes(saves[i], id)
      BY <2>1 DEF Deletes, Upsert
    <3>2. \A i \in DOMAIN check : ~Deletes(check[i], id)
      <4>1. \A request \in SettingRequest : ~Deletes(request, id)
        BY DEF SettingRequest, Deletes
      <4>2. QED
        BY <4>1
    <3>3. Stays(db, dbQueue \o saves, id)
      <4>1. CASE \E r \in rows : r.id = id
        <5>1. Stays(db, dbQueue, id)
          BY <4>1 DEF ListedStays, Listed
        <5>2. QED
          BY <2>2, <3>1, <5>1, StaysConcat
      <4>2. CASE \E i \in DOMAIN added : added[i].id = id
        <5>1. PICK i \in DOMAIN added : added[i].id = id
          BY <4>2
        <5>2. i \in DOMAIN saves /\ saves[i] = Upsert(added[i], NoSlot)
          BY <2>1, Zenon
        <5>3. Writes(saves[i], id)
          BY <5>1, <5>2 DEF Writes, Upsert
        <5>4. QED
          BY <2>2, <3>1, <5>2, <5>3, StaysWritten
      <4>3. PICK row \in rows' : row.id = id
        BY <2>3 DEF Listed
      <4>4. \/ \E r \in rows : r.id = row.id
            \/ \E i \in DOMAIN added : row = added[i]
        BY <2>1, Zenon
      <4>5. QED
        BY <4>1, <4>2, <4>3, <4>4, Zenon
    <3>4. QED
      BY <2>1, <2>2, <3>2, <3>3, StaysConcat
  <2>4. QED
    BY <2>3 DEF ListedStays
<1>3. QED
  BY <1>1, <1>2

\* _applyConstraints writes rows and deletes none.
LEMMA ConditionsStay ==
  ASSUME NativeAssumption, EngineAssumption, IInv, ListedStays, NEW v \in BOOLEAN,
         InitChecked(v) \/ ConstraintsChecked(v)
  PROVE  ListedStays'
<1>0. dbQueue \in Seq(Request) /\ db' = db
  BY DEF IInv, StoreInv, StoreTypeOK, InitChecked, ConstraintsChecked
<1>1. CASE UNCHANGED <<rows, looper, savers, dbQueue>>
  BY <1>0, <1>1, StillStays
<1>2. ASSUME NEW slot \in Slots, NEW before \in Seq(Request), ApplyConstraints(v, slot, before),
             \A id \in Ids : Listed(id) => Stays(db, before, id)
      PROVE  ListedStays'
  <2>1. /\ \A row \in rows' : \E r \in rows : r.id = row.id
        /\ dbQueue' = before \/ \E row \in rows' : dbQueue' = Append(before, Upsert(row, slot))
        /\ rows' \in SUBSET Row
    BY <1>2, ApplyConstraintsEffect
  <2>2. SUFFICES ASSUME NEW id \in Ids, Listed(id)'
                 PROVE  Stays(db', dbQueue', id)
    BY DEF ListedStays
  <2>3. Stays(db, before, id)
    BY <1>2, <2>1, <2>2 DEF Listed
  <2>4. ASSUME NEW row \in rows', dbQueue' = Append(before, Upsert(row, slot))
        PROVE  Stays(db', dbQueue', id)
    <3>1. Upsert(row, slot) \in Request /\ ~Deletes(Upsert(row, slot), id)
      BY <2>1, UpsertType DEF Upsert, Deletes
    <3>2. QED
      BY <1>0, <2>3, <2>4, <3>1, StaysAppend
  <2>5. QED
    BY <1>0, <2>1, <2>3, <2>4
<1>3. CASE ConstraintsChecked(v) /\ ApplyConstraints(v, "constraints", dbQueue)
  BY <1>0, <1>2, <1>3 DEF EngineAssumption, ListedStays
<1>4. CASE InitChecked(v)
  <2> DEFINE power == [op |-> "setting", tag |-> "power"]
  <2>1. power \in Request /\ \A id \in Ids : ~Deletes(power, id)
    BY SettingType DEF Deletes
  <2>2. \/ ApplyConstraints(v, "init", Append(dbQueue, power))
        \/ ApplyConstraints(v, "init", dbQueue)
    BY <1>4 DEF InitChecked
  <2> HIDE DEF power
  <2>3. \A id \in Ids : Listed(id) => Stays(db, Append(dbQueue, power), id)
    BY <1>0, <2>1, StaysAppend DEF ListedStays
  <2>4. Append(dbQueue, power) \in Seq(Request) /\ "init" \in Slots
    BY <1>0, <2>1 DEF EngineAssumption
  <2>5. QED
    BY <1>0, <1>2, <2>2, <2>3, <2>4 DEF ListedStays
<1>5. QED
  BY <1>1, <1>3, <1>4 DEF ConstraintsChecked

\* The database's writes.
LEMMA DatabaseStays ==
  ASSUME NativeAssumption, EngineAssumption, IInv, ListedStays, DbUpsert \/ DbDelete \/ DbOrder
  PROVE  ListedStays'
<1>1. /\ dbQueue \in Seq(Request) /\ savers \in [Slots -> Saver] /\ dbQueue # << >>
      /\ rows \in SUBSET Row /\ db \in SUBSET Row /\ rows' = rows
  BY DEF IInv, ListInv, StoreInv, StoreTypeOK, DbUpsert, DbDelete, DbOrder, Executing
<1>2. CASE DbUpsert
  <2>1. db' = Stored(db, Head(dbQueue).row) /\ Head(dbQueue).op = "upsert"
    BY <1>2 DEF DbUpsert, Executing
  <2>2. \/ dbQueue' = Tail(dbQueue)
        \/ \E request \in Request : /\ dbQueue' = Append(Tail(dbQueue), request)
                                    /\ NoDelete(request)
    <3>1. [op |-> "setting", tag |-> "power"] \in Request
          /\ NoDelete([op |-> "setting", tag |-> "power"])
      BY SettingType DEF NoDelete
    <3>2. \A slot \in Slots : \A row \in savers[slot].todo :
            Upsert(row, slot) \in Request /\ NoDelete(Upsert(row, slot))
      BY <1>1, UpsertType DEF Saver, NoDelete, Upsert
    <3>3. QED
      BY <1>2, <3>1, <3>2 DEF DbUpsert
  <2>3. \A id \in Ids : Writes(Head(dbQueue), id) => \E row \in db' : row.id = id
    BY <2>1 DEF Writes, Stored
  <2>4. \A id \in Ids : (\E row \in db : row.id = id) => \E row \in db' : row.id = id
    BY <2>1 DEF Stored
  <2>5. QED
    BY <1>1, <2>2, <2>3, <2>4, StaysServed
<1>3. CASE DbDelete
  <2>1. /\ Head(dbQueue).op = "delete" /\ dbQueue' = Tail(dbQueue)
        /\ db' = {row \in db : row.id # Head(dbQueue).id}
    BY <1>3 DEF DbDelete, Executing
  <2>2. \A id \in Ids : ~Writes(Head(dbQueue), id)
    BY <2>1 DEF Writes
  <2>3. \A id \in Ids : (\E row \in db : row.id = id) /\ ~Deletes(Head(dbQueue), id)
          => \E row \in db' : row.id = id
    BY <2>1 DEF Deletes
  <2>4. QED
    BY <1>1, <2>1, <2>2, <2>3, StaysServed
<1>4. CASE DbOrder
  <2>1. Head(dbQueue).op = "order"
    BY <1>4 DEF DbOrder, Executing
  <2>2. PICK pos : db' = {IF pos[row.id] > 0 THEN [row EXCEPT !.queue = pos[row.id]]
                          ELSE row : row \in db}
    BY <1>4 DEF DbOrder
  <2> DEFINE placed(row) == IF pos[row.id] > 0 THEN [row EXCEPT !.queue = pos[row.id]]
                            ELSE row
  <2>3. \A row \in db : placed(row) \in db' /\ placed(row).id = row.id
    <3>1. \A row \in db : [row EXCEPT !.queue = pos[row.id]].id = row.id
      BY <1>1 DEF Row
    <3>2. QED
      BY <2>2, <3>1
  <2> HIDE DEF placed
  <2>4. \/ dbQueue' = Tail(dbQueue)
        \/ \E request \in Request : /\ dbQueue' = Append(Tail(dbQueue), request)
                                    /\ NoDelete(request)
    <3>1. "reorder" \in Slots /\ Tail(dbQueue) \in Seq(Request)
      BY <1>1 DEF EngineAssumption
    <3>2. StartSaving("reorder", rows, savers, Tail(dbQueue))
      BY <1>4, Zenon DEF DbOrder
    <3>3. \/ dbQueue' = Tail(dbQueue)
          \/ \E row \in rows : dbQueue' = Append(Tail(dbQueue), Upsert(row, "reorder"))
      <4>1. /\ dbQueue' = Tail(dbQueue)
               \/ \E row \in rows : dbQueue' = Append(Tail(dbQueue), Upsert(row, "reorder"))
            /\ \A s \in Slots : savers'[s].todo \subseteq savers[s].todo \cup rows
        BY <1>1, <3>1, <3>2, StartSavingRows
      <4>2. QED
        BY <4>1
    <3>4. \A row \in rows : /\ Upsert(row, "reorder") \in Request
                            /\ NoDelete(Upsert(row, "reorder"))
      BY <1>1, <3>1, UpsertType DEF NoDelete, Upsert
    <3>5. QED
      BY <3>3, <3>4
  <2>5. \A id \in Ids : ~Writes(Head(dbQueue), id)
    BY <2>1 DEF Writes
  <2>6. \A id \in Ids : (\E row \in db : row.id = id) => \E row \in db' : row.id = id
    BY <2>3
  <2>7. QED
    BY <1>1, <2>4, <2>5, <2>6, StaysServed
<1>5. QED
  BY <1>2, <1>3, <1>4

\* A deleted row has left the list; a reordered list has the same rows.
LEMMA RowsStay ==
  ASSUME NativeAssumption, EngineAssumption, IInv, ListedStays, DeleteRow \/ ReorderQueue
  PROVE  ListedStays'
<1>1. CASE DeleteRow
  <2>1. PICK x : /\ rows' = {row \in rows : row.id # x} /\ db' = db
                 /\ dbQueue' = Append(dbQueue, [op |-> "delete", id |-> x])
                 /\ x = Head(toDart).id
    BY <1>1 DEF DeleteRow
  <2>2. x \in Ids \cup {None}
    BY <1>1, <2>1, Received DEF DeleteRow, Resume, Receive, IInv, NativeInv, Reply
  <2>3. [op |-> "delete", id |-> x] \in Request
    BY <2>2, DeleteType
  <2>4. \A row \in rows' : ~Deletes([op |-> "delete", id |-> x], row.id)
    BY <2>1 DEF Deletes
  <2>5. QED
    BY <2>1, <2>3, <2>4, StillStays
<1>2. CASE ReorderQueue
  <2>1. PICK pos : /\ rows' = {[row EXCEPT !.queue = pos[row.id]] : row \in rows}
                   /\ dbQueue' = Append(dbQueue, [op |-> "order", pos |-> pos])
    BY <1>2, Zenon DEF ReorderQueue
  <2>2. \A row \in rows : [row EXCEPT !.queue = pos[row.id]].id = row.id
    BY DEF IInv, ListInv, Row
  <2>3. \A row \in rows' : \E r \in rows : r.id = row.id
    BY <2>1, <2>2
  <2>4. [op |-> "order", pos |-> pos] \in Request
    <3>1. dbQueue' \in Seq(Request)
      BY <1>2, ReorderQueueStep DEF IInv, StoreInv, StoreTypeOK
    <3>2. [op |-> "order", pos |-> pos] = dbQueue'[Len(dbQueue')] /\ Len(dbQueue') \in DOMAIN dbQueue'
      BY <2>1 DEF IInv, StoreInv, StoreTypeOK
    <3>3. QED
      BY <3>1, <3>2
  <2>5. \A id : ~Deletes([op |-> "order", pos |-> pos], id)
    BY DEF Deletes
  <2>6. db' = db
    BY <1>2 DEF ReorderQueue
  <2>7. QED
    BY <2>1, <2>3, <2>4, <2>5, <2>6, StillStays
<1>3. QED
  BY <1>1, <1>2

\* The invariant is kept.  Reading the table, which replaces the list, needs
\* that nothing is being deleted.
LEMMA ListedStaysStep ==
  ASSUME NativeAssumption, EngineAssumption, IInv, NothingLoaded, ListedStays, Next
  PROVE  ListedStays'
<1>0. dbQueue \in Seq(Request)
  BY DEF IInv, StoreInv, StoreTypeOK
<1>1. CASE \/ Native \/ InitEnd \/ ShutdownNative \/ ShutdownEnd
           \/ ResumeAll \/ PauseAll \/ Shutdown
           \/ \E x \in Ids : AddTorrent(x) \/ ToggleTorrent(x) \/ DeleteTorrent(x)
  <2>1. UNCHANGED <<rows, db, dbQueue>>
    BY <1>1 DEF Native, InitEnd, ShutdownNative, ShutdownEnd, ResumeAll, PauseAll, Shutdown,
       AddTorrent, ToggleTorrent, DeleteTorrent, dartVars, storeVars
  <2>2. QED
    BY <2>1, StillStays
<1>2. CASE InitNative
  <2>1. rows' = rows /\ db' = db
        /\ (dbQueue' = dbQueue \/ dbQueue' = Append(dbQueue, [op |-> "load"]))
    BY <1>2 DEF InitNative
  <2>2. [op |-> "load"] \in Request /\ \A id : ~Deletes([op |-> "load"], id)
    BY LoadType DEF Deletes
  <2>3. QED
    BY <2>1, <2>2, StillStays
<1>3. CASE InitLoad
  <2>1. rows' = db /\ db' = db /\ dbQueue' = Tail(dbQueue) /\ dbQueue # << >> /\ Loading
    BY <1>3 DEF InitLoad, Executing, Loading
  <2>2. ToSet(dbQueue') \subseteq ToSet(dbQueue)
    BY <1>0, <2>1, TailItems
  <2>3. \A i \in DOMAIN dbQueue' : \A id : ~Deletes(dbQueue'[i], id)
    <3>1. \A i \in DOMAIN dbQueue' : dbQueue'[i] \in ToSet(dbQueue')
      BY DEF ToSet
    <3>2. QED
      BY <2>1, <2>2, <3>1 DEF NothingLoaded, NoDelete, Deletes
  <2>4. QED
    BY <2>1, <2>3 DEF ListedStays, Listed, Stays
<1>4. CASE InitLoadFails \/ InitPower \/ ShutdownWhenDone
  <2>1. /\ rows' = rows /\ db' = db /\ dbQueue' = Tail(dbQueue) /\ dbQueue # << >>
        /\ Head(dbQueue).op # "upsert"
    BY <1>4 DEF InitLoadFails, InitPower, ShutdownWhenDone, Executing
  <2>2. \A id \in Ids : ~Writes(Head(dbQueue), id)
    BY <2>1 DEF Writes
  <2>3. QED
    BY <2>1, <2>2, StaysServed
<1>5. CASE StatusUpdate
  BY <1>5, StatusUpdateStays
<1>6. CASE DeleteRow \/ ReorderQueue
  BY <1>6, RowsStay
<1>7. CASE DbUpsert \/ DbDelete \/ DbOrder
  BY <1>7, DatabaseStays
<1>8. CASE Conditions
  BY <1>8, ConditionsStay DEF Conditions
<1>9. CASE Restart
  BY <1>9 DEF Restart, ListedStays, Listed
<1>10. QED
  BY <1>1, <1>2, <1>3, <1>4, <1>5, <1>6, <1>7, <1>8, <1>9 DEF Next, Dart, Database, User

\* The last of some places in a queue.
LEMMA LeastOf ==
  ASSUME NEW S \in SUBSET Nat, S # {}
  PROVE  \E m \in S : \A k \in S : m <= k
<1>1. PICK x \in S : \A y \in S : ~(<<y, x>> \in OpToRel(<, Nat))
  BY NatLessThanWellFounded, WFMin
<1>2. \A y \in S : ~(y < x)
  BY <1>1 DEF OpToRel
<1>3. QED
  BY <1>2

LEMMA GreatestOf ==
  ASSUME NEW n \in Nat, NEW S \in SUBSET (1..n), S # {}
  PROVE  \E m \in S : \A k \in S : k <= m
<1> DEFINE T == {n - k : k \in S}
<1>1. T \in SUBSET Nat /\ T # {}
  <2>1. \A k \in S : n - k \in Nat
    OBVIOUS
  <2>2. QED
    BY <2>1
<1>2. PICK x \in T : \A y \in T : x <= y
  BY <1>1, LeastOf
<1>3. PICK m \in S : x = n - m
  BY <1>2
<1>4. \A k \in S : n - m <= n - k
  BY <1>2, <1>3
<1>5. QED
  BY <1>4

\* What stays ends up stored: the last request about it writes it.
LEMMA StaysStored ==
  ASSUME IInv, NEW id \in Ids, Stays(db, dbQueue, id)
  PROVE  EndsUpStored(id)
<1>1. dbQueue \in Seq(Request) /\ DOMAIN dbQueue = 1..Len(dbQueue) /\ Len(dbQueue) \in Nat
  BY DEF IInv, StoreInv, StoreTypeOK
<1>2. WritesOf(id) = {i \in DOMAIN dbQueue : Writes(dbQueue[i], id) \/ Deletes(dbQueue[i], id)}
  BY DEF WritesOf, Writes, Deletes
<1>3. CASE WritesOf(id) = {}
  BY <1>2, <1>3 DEF Stays, EndsUpStored
<1>4. CASE WritesOf(id) # {}
  <2>1. PICK m \in WritesOf(id) : \A k \in WritesOf(id) : k <= m
    BY <1>1, <1>2, <1>4, GreatestOf
  <2>2. ~Deletes(dbQueue[m], id)
    <3>1. CASE \A i \in DOMAIN dbQueue : ~Deletes(dbQueue[i], id)
      BY <1>2, <2>1, <3>1
    <3>2. CASE \E i \in DOMAIN dbQueue :
                 /\ Writes(dbQueue[i], id)
                 /\ \A j \in DOMAIN dbQueue : j > i => ~Deletes(dbQueue[j], id)
      <4>1. PICK i \in DOMAIN dbQueue :
                 /\ Writes(dbQueue[i], id)
                 /\ \A j \in DOMAIN dbQueue : j > i => ~Deletes(dbQueue[j], id)
        BY <3>2
      <4>2. i <= m
        BY <1>2, <2>1, <4>1
      <4>3. i = m => ~Deletes(dbQueue[m], id)
        BY <4>1 DEF Writes, Deletes
      <4>4. i \in Nat /\ m \in Nat /\ m \in DOMAIN dbQueue
        BY <1>1, <1>2, <2>1
      <4>5. i = m \/ m > i
        BY <4>2, <4>4
      <4>6. QED
        BY <4>1, <4>3, <4>4, <4>5
    <3>3. QED
      BY <3>1, <3>2 DEF Stays
  <2>3. Writes(dbQueue[m], id)
    BY <1>2, <2>1, <2>2
  <2>4. QED
    BY <1>4, <2>1, <2>3 DEF EndsUpStored, Writes
<1>5. QED
  BY <1>3, <1>4

\* Every torrent of the list is in the table once the requests under way have
\* been executed, whatever the order in which status lists, deletes, save
\* loops and the first reading of the table meet: every write goes through one
\* queue, and each row is written in the step that lists it.
THEOREM ListedIsKept == Spec => []ListedIsPersisted
<1> DEFINE PInv == IInv /\ NothingLoaded /\ ListedStays
<1>1. Init => PInv
  BY InitIInv, NothingLoadedFirst, EngineAssumption DEF ListedStays, Listed, Init
<1>2. PInv /\ [Next]_vars => PInv'
  <2>1. ASSUME PInv, Next PROVE PInv'
    BY <2>1, StepIInv, NothingLoadedStep, ListedStaysStep, NativeAssumption, EngineAssumption
  <2>2. ASSUME PInv, UNCHANGED vars PROVE PInv'
    <3>1. IInv'
      BY <2>2, StepIInv, NativeAssumption, EngineAssumption
    <3>2. UNCHANGED <<rows, db, dbQueue, looper, toDart, initPc, statusSub, constraintSub>>
      BY <2>2 DEF vars, nativeVars, dartVars, storeVars, watchVars
    <3>3. NothingLoaded' /\ ListedStays'
      BY <2>2, <3>2 DEF NothingLoaded, Loading, ListedStays, Listed
    <3>4. QED
      BY <3>1, <3>3
  <2>3. QED
    BY <2>1, <2>2
<1>3. PInv => ListedIsPersisted
  BY StaysStored DEF ListedStays, ListedIsPersisted
<1>4. QED
  BY <1>1, <1>2, <1>3, PTL DEF Spec

-----------------------------------------------------------------------------
(* Places in a queue.                                                      *)

\* No item of S; at most one; only as the first; every one before those of T;
\* and one of T after all of S.
NoneIn(q, S) == \A i \in DOMAIN q : q[i] \notin S
OnceIn(q, S) == \A i, j \in DOMAIN q : q[i] \in S /\ q[j] \in S => i = j
FirstOnly(q, S) == \A i \in DOMAIN q : q[i] \in S => i = 1
Before(q, S, T) == \A i, j \in DOMAIN q : q[i] \in S /\ q[j] \in T => i < j
ClosedBy(q, S, T) ==
  \E j \in DOMAIN q : q[j] \in T /\ \A i \in DOMAIN q : q[i] \in S => i < j

\* What taking the head leaves of this ...
LEMMA TailPlaces ==
  ASSUME NEW X, NEW q \in Seq(X), q # << >>, NEW S, NEW T
  PROVE  /\ NoneIn(q, S) => NoneIn(Tail(q), S) /\ Head(q) \notin S
         /\ ~NoneIn(q, S) /\ Head(q) \notin S => ~NoneIn(Tail(q), S)
         /\ OnceIn(q, S) => OnceIn(Tail(q), S) /\ (Head(q) \in S => NoneIn(Tail(q), S))
         /\ FirstOnly(q, S) => NoneIn(Tail(q), S)
         /\ Before(q, S, T) => Before(Tail(q), S, T) /\ (Head(q) \in T => NoneIn(q, S))
         /\ ClosedBy(q, S, T) =>
              ClosedBy(Tail(q), S, T) \/ (Head(q) \in T /\ NoneIn(q, S))
<1> DEFINE r == Tail(q)
<1>1. /\ Head(q) = q[1] /\ 1 \in DOMAIN q
      /\ \A i \in DOMAIN r : i + 1 \in DOMAIN q /\ r[i] = q[i + 1] /\ i + 1 # 1
      /\ \A i \in DOMAIN q : i # 1 => i - 1 \in DOMAIN r /\ r[i - 1] = q[i]
      /\ DOMAIN q \subseteq Nat \ {0} /\ DOMAIN r \subseteq Nat \ {0}
  OBVIOUS
<1> HIDE DEF r
<1>2. NoneIn(q, S) => NoneIn(r, S) /\ Head(q) \notin S
  BY <1>1 DEF NoneIn
<1>3. ~NoneIn(q, S) /\ Head(q) \notin S => ~NoneIn(r, S)
  BY <1>1 DEF NoneIn
<1>4. OnceIn(q, S) => OnceIn(r, S) /\ (Head(q) \in S => NoneIn(r, S))
  BY <1>1 DEF NoneIn, OnceIn
<1>5. FirstOnly(q, S) => NoneIn(r, S)
  BY <1>1 DEF NoneIn, FirstOnly
<1>6. Before(q, S, T) => Before(r, S, T) /\ (Head(q) \in T => NoneIn(q, S))
  <2> SUFFICES ASSUME Before(q, S, T)
               PROVE  Before(r, S, T) /\ (Head(q) \in T => NoneIn(q, S))
    OBVIOUS
  <2>1. ASSUME NEW i \in DOMAIN r, NEW j \in DOMAIN r, r[i] \in S, r[j] \in T
        PROVE  i < j
    <3>1. i + 1 < j + 1
      BY <1>1, <2>1 DEF Before
    <3>2. QED
      BY <1>1, <3>1
  <2>2. ASSUME Head(q) \in T, NEW i \in DOMAIN q, q[i] \in S
        PROVE  FALSE
    <3>1. i < 1
      BY <1>1, <2>2 DEF Before
    <3>2. QED
      BY <1>1, <3>1
  <2>3. QED
    BY <2>1, <2>2 DEF Before, NoneIn
<1>7. ClosedBy(q, S, T) => ClosedBy(r, S, T) \/ (Head(q) \in T /\ NoneIn(q, S))
  <2> SUFFICES ASSUME NEW j \in DOMAIN q, q[j] \in T,
                      \A i \in DOMAIN q : q[i] \in S => i < j
               PROVE  ClosedBy(r, S, T) \/ (Head(q) \in T /\ NoneIn(q, S))
    BY DEF ClosedBy
  <2>1. CASE j = 1
    <3>1. ASSUME NEW i \in DOMAIN q, q[i] \in S PROVE FALSE
      BY <1>1, <2>1, <3>1
    <3>2. QED
      BY <1>1, <2>1, <3>1 DEF NoneIn
  <2>2. CASE j # 1
    <3>1. j - 1 \in DOMAIN r /\ r[j - 1] \in T
      BY <1>1, <2>2
    <3>2. ASSUME NEW i \in DOMAIN r, r[i] \in S PROVE i < j - 1
      <4>1. i + 1 < j
        BY <1>1, <3>2
      <4>2. QED
        BY <1>1, <4>1
    <3>3. QED
      BY <3>1, <3>2 DEF ClosedBy
  <2>3. QED
    BY <2>1, <2>2
<1>8. QED
  BY <1>2, <1>3, <1>4, <1>5, <1>6, <1>7 DEF r

\* ... and what more items at the end, none of them of S, change.
LEMMA ConcatPlaces ==
  ASSUME NEW X, NEW q \in Seq(X), NEW Y, NEW s \in Seq(Y), NEW S, NEW T, NoneIn(s, S)
  PROVE  /\ NoneIn(q, S) => NoneIn(q \o s, S)
         /\ ~NoneIn(q, T) => ~NoneIn(q \o s, T)
         /\ OnceIn(q, S) => OnceIn(q \o s, S)
         /\ FirstOnly(q, S) => FirstOnly(q \o s, S)
         /\ Before(q, S, T) => Before(q \o s, S, T)
         /\ ClosedBy(q, S, T) => ClosedBy(q \o s, S, T)
<1> DEFINE r == q \o s
<1>1. /\ Len(q) \in Nat /\ DOMAIN q = 1..Len(q)
      /\ \A i \in DOMAIN q : i \in DOMAIN r /\ r[i] = q[i]
      /\ \A i \in DOMAIN r : i \in Nat
           /\ (i \in DOMAIN q \/ (i > Len(q) /\ i - Len(q) \in DOMAIN s /\ r[i] = s[i - Len(q)]))
  OBVIOUS
<1> HIDE DEF r
<1>2. \A i \in DOMAIN r : r[i] \in S => i \in DOMAIN q /\ q[i] \in S
  BY <1>1 DEF NoneIn
<1>3. NoneIn(q, S) => NoneIn(r, S)
  BY <1>2 DEF NoneIn
<1>4. ~NoneIn(q, T) => ~NoneIn(r, T)
  BY <1>1 DEF NoneIn
<1>5. OnceIn(q, S) => OnceIn(r, S)
  BY <1>2 DEF OnceIn
<1>6. FirstOnly(q, S) => FirstOnly(r, S)
  BY <1>2 DEF FirstOnly
<1>7. Before(q, S, T) => Before(r, S, T)
  <2> SUFFICES ASSUME Before(q, S, T), NEW i \in DOMAIN r, NEW j \in DOMAIN r,
                      r[i] \in S, r[j] \in T
               PROVE  i < j
    BY DEF Before
  <2>1. i \in DOMAIN q /\ q[i] \in S
    BY <1>2
  <2>2. CASE j \in DOMAIN q
    BY <1>1, <2>1, <2>2 DEF Before
  <2>3. CASE j > Len(q)
    BY <1>1, <2>1, <2>3
  <2>4. QED
    BY <1>1, <2>2, <2>3
<1>8. ClosedBy(q, S, T) => ClosedBy(r, S, T)
  BY <1>1, <1>2 DEF ClosedBy
<1>9. QED
  BY <1>3, <1>4, <1>5, <1>6, <1>7, <1>8 DEF r

\* One item put at the end.
LEMMA AppendPlaces ==
  ASSUME NEW X, NEW q \in Seq(X), NEW x, NEW S, NEW T
  PROVE  /\ x \notin S =>
              /\ NoneIn(q, S) => NoneIn(Append(q, x), S)
              /\ OnceIn(q, S) => OnceIn(Append(q, x), S)
              /\ FirstOnly(q, S) => FirstOnly(Append(q, x), S)
              /\ Before(q, S, T) => Before(Append(q, x), S, T)
              /\ ClosedBy(q, S, T) => ClosedBy(Append(q, x), S, T)
         /\ ~NoneIn(q, S) \/ x \in S => ~NoneIn(Append(q, x), S)
         /\ NoneIn(q, S) => OnceIn(Append(q, x), S)
         /\ NoneIn(q, T) /\ x \notin T => Before(Append(q, x), S, T)
         /\ x \in T /\ x \notin S => ClosedBy(Append(q, x), S, T)
<1> DEFINE r == Append(q, x)
           n == Len(q) + 1
<1>1. /\ r = q \o <<x>> /\ <<x>> \in Seq({x})
      /\ \A i \in DOMAIN q : i \in DOMAIN r /\ r[i] = q[i] /\ i < n
      /\ n \in DOMAIN r /\ r[n] = x
      /\ \A i \in DOMAIN r : i = n \/ (i \in DOMAIN q /\ r[i] = q[i])
  OBVIOUS
<1>2. x \notin S => NoneIn(<<x>>, S)
  BY DEF NoneIn
<1> HIDE DEF r, n
<1>3. x \notin S =>
        /\ NoneIn(q, S) => NoneIn(r, S)
        /\ OnceIn(q, S) => OnceIn(r, S)
        /\ FirstOnly(q, S) => FirstOnly(r, S)
        /\ Before(q, S, T) => Before(r, S, T)
        /\ ClosedBy(q, S, T) => ClosedBy(r, S, T)
  BY <1>1, <1>2, ConcatPlaces
<1>4. ~NoneIn(q, S) \/ x \in S => ~NoneIn(r, S)
  BY <1>1 DEF NoneIn
<1>5. NoneIn(q, S) => OnceIn(r, S)
  BY <1>1 DEF NoneIn, OnceIn
<1>6. NoneIn(q, T) /\ x \notin T => Before(r, S, T)
  BY <1>1 DEF NoneIn, Before
<1>7. x \in T /\ x \notin S => ClosedBy(r, S, T)
  BY <1>1 DEF ClosedBy
<1>8. QED
  BY <1>3, <1>4, <1>5, <1>6, <1>7 DEF r

-----------------------------------------------------------------------------
(* A shutdown, and what it overtakes.                                      *)

Calls(method) == {c \in Call : c.method = method}
Awaited(tag) == {c \in Call : c.tag = tag}
Replies(tag) == {r \in Reply : r.tag = tag}
PowerRequests == {r \in Request : r.op = "setting" /\ r.tag = "power"}
InitWrites == {r \in Request : r.op = "upsert" /\ r.slot = "init"}

\* Only a call of shutdown is awaited as one, and only _updatePowerManagement
\* acquires the wake lock.
Misnamed ==
  {c \in Call : \/ c.tag = "shutdown" /\ c.method # "shutdown"
                \/ c.method = "acquireWakeLock" /\ c.tag # "power"}
NamedInv == NoneIn(looper, Misnamed)

\* The session is made before anything else happens.
FirstInv ==
  /\ FirstOnly(looper, Calls("initialize"))
  /\ ~NoneIn(looper, Calls("initialize")) =>
       toDart = << >> /\ initPc = "native" /\ checker # "closed"

ClosedInv ==
  checker = "closed" \/ ~NoneIn(toDart, Replies("shutdown")) => ~alive

\* initialize() has one write under way while its save loop runs, ...
SavingInv ==
  /\ OnceIn(dbQueue, InitWrites)
  /\ initPc # "saving" => NoneIn(dbQueue, InitWrites)

\* ... and after it one step of _updatePowerManagement: the reading of the
\* setting, or the call, or its reply.
PowerInv ==
  /\ OnceIn(dbQueue, PowerRequests)
  /\ OnceIn(looper, Awaited("power"))
  /\ OnceIn(toDart, Replies("power"))
  /\ \/ NoneIn(dbQueue, PowerRequests)
     \/ NoneIn(looper, Awaited("power")) /\ NoneIn(toDart, Replies("power"))
  /\ NoneIn(looper, Awaited("power")) \/ NoneIn(toDart, Replies("power"))
  /\ initPc # "power" =>
       /\ NoneIn(dbQueue, PowerRequests)
       /\ NoneIn(looper, Awaited("power"))
       /\ NoneIn(toDart, Replies("power"))

\* The stream of statuses was opened before: once initialize() has ended it
\* is open.
ListenInv ==
  /\ initPc \in {"native", "load", "ended"} \/ ~NoneIn(toDart, Replies("power"))
       => NoneIn(looper, Calls("listen"))
  /\ Before(looper, Calls("listen"), Awaited("power"))

\* A stream nobody listens to any more is being closed.
SinkInv ==
  statusSub # "listening" =>
    \/ NoneIn(looper, Calls("listen")) /\ ~sink
    \/ ClosedBy(looper, Calls("listen"), Calls("cancel"))

\* Where the shutdown is.
ShutInv ==
  engineState = "shutdown" /\ initPc = "ended" =>
    \/ ~NoneIn(looper, Awaited("release"))
    \/ ~NoneIn(looper, Awaited("shutdown"))
    \/ ~NoneIn(toDart, Replies("release"))
    \/ /\ ~alive /\ ~wakeLock /\ ~polling
       /\ ~NoneIn(toDart, Replies("shutdown")) \/ statusSub # "listening"

SInv ==
  /\ NamedInv /\ FirstInv /\ ClosedInv /\ SavingInv /\ PowerInv /\ ListenInv
  /\ SinkInv /\ ShutInv

\* Calls, replies and requests that are none of these.
Special ==
  Calls("initialize") \cup Calls("listen") \cup Calls("acquireWakeLock")
    \cup Awaited("power") \cup Awaited("shutdown")

SpecialReplies == Replies("power") \cup Replies("release") \cup Replies("shutdown")

LEMMA SpecialParts ==
  ASSUME NEW s, NoneIn(s, Special)
  PROVE  /\ NoneIn(s, Calls("initialize")) /\ NoneIn(s, Calls("listen"))
         /\ NoneIn(s, Awaited("power")) /\ NoneIn(s, Awaited("shutdown"))
         /\ NoneIn(s, Misnamed)
BY DEF NoneIn, Special, Misnamed, Calls, Awaited

\* The requests of S get no more.
NoMore(S) ==
  /\ NoneIn(dbQueue, S) => NoneIn(dbQueue', S)
  /\ OnceIn(dbQueue, S) => OnceIn(dbQueue', S)

\* A step that makes no special call, takes no special reply and leaves
\* alone what the invariant is about.
LEMMA QuietStep ==
  ASSUME IInv, SInv,
         NEW s \in Seq(Call \cup Post), NoneIn(s, Special),
         looper' = looper \/ looper' = looper \o s,
         \/ toDart' = toDart
         \/ /\ toDart # << >> /\ toDart' = Tail(toDart)
            /\ Head(toDart) \notin SpecialReplies,
         NoMore(PowerRequests), NoMore(InitWrites),
         UNCHANGED <<alive, wakeLock, polling, sink, engineState, initPc, statusSub, checker>>
  PROVE  SInv'
<1>1. looper \in Seq(Call \cup Post) /\ toDart \in Seq(Reply \cup Event)
  BY DEF IInv, NativeInv, ChannelInv, ChannelTypeOK
<1>2. /\ NoneIn(s, Calls("initialize")) /\ NoneIn(s, Calls("listen"))
      /\ NoneIn(s, Awaited("power")) /\ NoneIn(s, Awaited("shutdown"))
      /\ NoneIn(s, Misnamed)
  BY SpecialParts
<1>3. /\ NoneIn(looper, Misnamed) => NoneIn(looper', Misnamed)
      /\ FirstOnly(looper, Calls("initialize")) => FirstOnly(looper', Calls("initialize"))
      /\ NoneIn(looper, Calls("initialize")) => NoneIn(looper', Calls("initialize"))
      /\ NoneIn(looper, Calls("listen")) => NoneIn(looper', Calls("listen"))
      /\ NoneIn(looper, Awaited("power")) => NoneIn(looper', Awaited("power"))
      /\ OnceIn(looper, Awaited("power")) => OnceIn(looper', Awaited("power"))
      /\ Before(looper, Calls("listen"), Awaited("power"))
           => Before(looper', Calls("listen"), Awaited("power"))
      /\ ClosedBy(looper, Calls("listen"), Calls("cancel"))
           => ClosedBy(looper', Calls("listen"), Calls("cancel"))
      /\ ~NoneIn(looper, Awaited("release")) => ~NoneIn(looper', Awaited("release"))
      /\ ~NoneIn(looper, Awaited("shutdown")) => ~NoneIn(looper', Awaited("shutdown"))
  <2>1. CASE looper' = looper
    BY <2>1
  <2>2. CASE looper' = looper \o s
    <3> DEFINE q == looper \o s
    <3>1. /\ NoneIn(looper, Misnamed) => NoneIn(q, Misnamed)
          /\ FirstOnly(looper, Calls("initialize")) => FirstOnly(q, Calls("initialize"))
          /\ NoneIn(looper, Calls("initialize")) => NoneIn(q, Calls("initialize"))
          /\ NoneIn(looper, Calls("listen")) => NoneIn(q, Calls("listen"))
      BY <1>1, <1>2, ConcatPlaces, Zenon
    <3>2. /\ NoneIn(looper, Awaited("power")) => NoneIn(q, Awaited("power"))
          /\ OnceIn(looper, Awaited("power")) => OnceIn(q, Awaited("power"))
      BY <1>1, <1>2, ConcatPlaces, Zenon
    <3>3. /\ Before(looper, Calls("listen"), Awaited("power"))
               => Before(q, Calls("listen"), Awaited("power"))
          /\ ClosedBy(looper, Calls("listen"), Calls("cancel"))
               => ClosedBy(q, Calls("listen"), Calls("cancel"))
      BY <1>1, <1>2, ConcatPlaces, Zenon
    <3>4. /\ ~NoneIn(looper, Awaited("release")) => ~NoneIn(q, Awaited("release"))
          /\ ~NoneIn(looper, Awaited("shutdown")) => ~NoneIn(q, Awaited("shutdown"))
      BY <1>1, <1>2, ConcatPlaces, Zenon
    <3> HIDE DEF q
    <3>5. looper' = q
      BY <2>2 DEF q
    <3>6. QED
      BY <3>1, <3>2, <3>3, <3>4, <3>5
  <2>3. QED
    BY <2>1, <2>2
<1>4. /\ \A tag \in {"power", "release", "shutdown"} :
           /\ NoneIn(toDart, Replies(tag)) => NoneIn(toDart', Replies(tag))
           /\ ~NoneIn(toDart, Replies(tag)) => ~NoneIn(toDart', Replies(tag))
           /\ OnceIn(toDart, Replies(tag)) => OnceIn(toDart', Replies(tag))
      /\ toDart = << >> => toDart' = << >>
  <2>1. CASE toDart' = toDart
    BY <2>1
  <2>2. CASE /\ toDart # << >> /\ toDart' = Tail(toDart)
             /\ Head(toDart) \notin SpecialReplies
    <3>1. \A tag \in {"power", "release", "shutdown"} : Head(toDart) \notin Replies(tag)
      BY <2>2 DEF SpecialReplies
    <3>2. ASSUME NEW S, Head(toDart) \notin S
          PROVE  /\ NoneIn(toDart, S) => NoneIn(Tail(toDart), S)
                 /\ ~NoneIn(toDart, S) => ~NoneIn(Tail(toDart), S)
                 /\ OnceIn(toDart, S) => OnceIn(Tail(toDart), S)
      BY <1>1, <2>2, <3>2, TailPlaces, Zenon
    <3>3. QED
      BY <2>2, <3>1, <3>2
  <2>3. QED
    BY <2>1, <2>2
<1>5. NamedInv' /\ FirstInv'
  BY <1>3, <1>4 DEF SInv, NamedInv, FirstInv
<1>6. ClosedInv'
  BY <1>4 DEF SInv, ClosedInv
<1>7. SavingInv'
  BY DEF SInv, SavingInv, NoMore
<1>8. PowerInv'
  BY <1>3, <1>4 DEF SInv, PowerInv, NoMore
<1>9. ListenInv'
  BY <1>3, <1>4 DEF SInv, ListenInv
<1>10. SinkInv'
  BY <1>3 DEF SInv, SinkInv
<1>11. ShutInv'
  BY <1>3, <1>4 DEF SInv, ShutInv
<1>12. QED
  BY <1>5, <1>6, <1>7, <1>8, <1>9, <1>10, <1>11 DEF SInv

\* What a handler of the looper does: it takes the head, and sends m or
\* nothing.
Takes(m) ==
  /\ looper # << >> /\ looper' = Tail(looper)
  /\ toDart' = toDart \/ toDart' = Append(toDart, m)
  /\ \A tag \in EngineTags :
       /\ m \in Replies(tag) => Head(looper) \in Awaited(tag)
       /\ Head(looper) \in Awaited(tag) => m \in Replies(tag) /\ toDart' = Append(toDart, m)
  /\ alive' => alive \/ Head(looper) \in Calls("initialize")
  /\ wakeLock' => wakeLock \/ Head(looper) \in Calls("acquireWakeLock")
  /\ polling' => polling \/ Head(looper) \in Calls("listen")
  /\ sink' => sink \/ Head(looper) \in Calls("listen")
  /\ Head(looper) \in Calls("shutdown") => ~alive' /\ ~wakeLock' /\ ~polling'
  /\ Head(looper) \in Calls("cancel") => ~sink'

LEMMA HandlerTakes ==
  ASSUME NativeAssumption, EngineAssumption, NativeInv, HandleLooper
  PROVE  \E m : Takes(m)
<1>0. /\ looper \in Seq(Call \cup Post) /\ toDart \in Seq(Reply \cup Event)
      /\ alive \in BOOLEAN /\ wakeLock \in BOOLEAN /\ polling \in BOOLEAN /\ sink \in BOOLEAN
  BY DEF NativeInv, ChannelInv, ChannelTypeOK, TimerInv, TimerTypeOK, SessionTypeOK
<1>1. looper # << >> /\ looper' = Tail(looper)
  BY DEF HandleLooper, HandleInitialize, HandleInitializeFails, HandleShutdown,
     HandleAddTorrent, HandleAddTorrentFails, HandleToggleTorrent, HandlePauseAll,
     HandleResumeAll, HandleDeleteTorrent, HandleWakeLock, HandleListen, HandleCancel,
     HandlePost, Handling
<1>2. Head(looper) \in Call \cup Post
  BY <1>0, <1>1
<1>3. CASE HandlePost
  <2> DEFINE event == [type |-> "status", statuses |-> Head(looper).statuses]
  <2>1. \A tag : event \notin Replies(tag)
    BY DEF Replies, Reply
  <2>2. Head(looper) \notin Call
    BY <1>3 DEF HandlePost, Call
  <2>3. toDart' = toDart \/ toDart' = Append(toDart, event)
    BY <1>3 DEF HandlePost
  <2>4. UNCHANGED <<alive, wakeLock, polling, sink>>
    BY <1>3 DEF HandlePost, sessionVars, pollVars
  <2> HIDE DEF event
  <2>5. Takes(event)
    BY <1>1, <2>1, <2>2, <2>3, <2>4 DEF Takes, Awaited, Calls
  <2>6. QED
    BY <2>5
<1>4. ASSUME NEW method, Handling(method), NEW ok \in BOOLEAN, Answer(ok),
             alive' => alive \/ method = "initialize",
             wakeLock' => wakeLock \/ method = "acquireWakeLock",
             polling' => polling \/ method = "listen",
             sink' => sink \/ method = "listen",
             method = "shutdown" => ~alive' /\ ~wakeLock' /\ ~polling',
             method = "cancel" => ~sink'
      PROVE  \E m : Takes(m)
  <2> DEFINE h == Head(looper)
             reply == [type |-> "reply", tag |-> h.tag, id |-> h.id, ok |-> ok]
  <2>1. h \in Call /\ h.method = method
    <3>1. h.type = "call" /\ h.method = method
      BY <1>4 DEF Handling
    <3>2. h \notin Post
      BY <3>1 DEF Post
    <3>3. QED
      BY <1>2, <3>1, <3>2
  <2>2. reply \in Reply /\ reply.tag = h.tag
    <3>1. h.tag \in Tags /\ h.id \in Ids \cup {None}
      BY <2>1 DEF Call
    <3>2. QED
      BY <3>1 DEF Reply
  <2>3. toDart' = IF h.tag = NoTag THEN toDart ELSE Append(toDart, reply)
    BY <1>4 DEF Answer
  <2> HIDE DEF h, reply
  <2>4. \A tag \in EngineTags : tag # NoTag
    BY DEF EngineAssumption
  <2>5. \A tag \in EngineTags :
          /\ reply \in Replies(tag) => h \in Awaited(tag)
          /\ h \in Awaited(tag) => reply \in Replies(tag) /\ toDart' = Append(toDart, reply)
    BY <2>1, <2>2, <2>3, <2>4 DEF Replies, Awaited
  <2>6. \A x : h \in Calls(x) <=> method = x
    BY <2>1 DEF Calls
  <2>7. Takes(reply)
    BY <1>1, <1>4, <2>3, <2>5, <2>6 DEF Takes, h
  <2>8. QED
    BY <2>7
<1>5. CASE HandleInitialize \/ HandleInitializeFails
  <2>1. /\ Handling("initialize") /\ \E ok \in BOOLEAN : Answer(ok)
        /\ UNCHANGED <<wakeLock, polling, sink>>
    BY <1>5 DEF HandleInitialize, HandleInitializeFails, pollVars
  <2>2. QED
    BY <1>4, <2>1
<1>6. CASE HandleShutdown
  <2>1. /\ Handling("shutdown") /\ \E ok \in BOOLEAN : Answer(ok)
        /\ ~alive' /\ ~wakeLock' /\ ~polling' /\ sink' = sink
    BY <1>6 DEF HandleShutdown
  <2>2. QED
    BY <1>4, <2>1
<1>7. CASE HandleAddTorrent \/ HandleAddTorrentFails \/ HandleToggleTorrent
  <2>1. /\ \E ok \in BOOLEAN : Answer(ok)
        /\ Handling("addTorrent") \/ Handling("toggleTorrent")
        /\ UNCHANGED <<alive, wakeLock, polling, sink>>
    BY <1>7 DEF HandleAddTorrent, HandleAddTorrentFails, HandleToggleTorrent, sessionVars,
       pollVars
  <2>2. QED
    BY <1>4, <2>1
<1>8. CASE HandlePauseAll \/ HandleResumeAll \/ HandleDeleteTorrent
  <2>1. /\ \E ok \in BOOLEAN : Answer(ok)
        /\ Handling("pauseAll") \/ Handling("resumeAll") \/ Handling("deleteTorrent")
        /\ UNCHANGED <<alive, wakeLock, polling, sink>>
    BY <1>8 DEF HandlePauseAll, HandleResumeAll, HandleDeleteTorrent, pollVars
  <2>2. QED
    BY <1>4, <2>1
<1>9. CASE HandleWakeLock
  <2>1. /\ \E ok \in BOOLEAN : Answer(ok)
        /\ Handling("acquireWakeLock") \/ (Handling("releaseWakeLock") /\ ~wakeLock')
        /\ UNCHANGED <<alive, polling, sink>>
    BY <1>9 DEF HandleWakeLock, sessionVars, pollVars
  <2>2. QED
    BY <1>4, <2>1
<1>10. CASE HandleListen \/ HandleCancel
  <2>1. /\ \E ok \in BOOLEAN : Answer(ok)
        /\ Handling("listen") \/ (Handling("cancel") /\ ~polling' /\ ~sink')
        /\ UNCHANGED <<alive, wakeLock>>
    BY <1>10 DEF HandleListen, HandleCancel, sessionVars
  <2>2. QED
    BY <1>4, <2>1
<1>11. QED
  BY <1>3, <1>5, <1>6, <1>7, <1>8, <1>9, <1>10 DEF HandleLooper

\* The looper handles an item.
LEMMA TakesKeeps ==
  ASSUME EngineAssumption, IInv, SInv, NEW m, Takes(m), UNCHANGED dartVars
  PROVE  SInv'
<1>1. looper \in Seq(Call \cup Post) /\ toDart \in Seq(Reply \cup Event)
  BY DEF IInv, NativeInv, ChannelInv, ChannelTypeOK
<1>2. looper # << >> /\ looper' = Tail(looper)
  BY DEF Takes
<1> DEFINE h == Head(looper)
<1>3. /\ \A tag \in EngineTags :
           /\ m \in Replies(tag) => h \in Awaited(tag)
           /\ h \in Awaited(tag) => m \in Replies(tag) /\ toDart' = Append(toDart, m)
      /\ toDart' = toDart \/ toDart' = Append(toDart, m)
      /\ alive' => alive \/ h \in Calls("initialize")
      /\ wakeLock' => wakeLock \/ h \in Calls("acquireWakeLock")
      /\ polling' => polling \/ h \in Calls("listen")
      /\ sink' => sink \/ h \in Calls("listen")
      /\ h \in Calls("shutdown") => ~alive' /\ ~wakeLock' /\ ~polling'
      /\ h \in Calls("cancel") => ~sink'
  BY DEF Takes
<1>4. /\ "power" \in EngineTags /\ "release" \in EngineTags /\ "shutdown" \in EngineTags
  BY DEF EngineTags
<1>5. ASSUME NEW S, NEW T
      PROVE  /\ NoneIn(looper, S) => NoneIn(looper', S) /\ h \notin S
             /\ ~NoneIn(looper, S) /\ h \notin S => ~NoneIn(looper', S)
             /\ OnceIn(looper, S) => OnceIn(looper', S) /\ (h \in S => NoneIn(looper', S))
             /\ FirstOnly(looper, S) => NoneIn(looper', S)
             /\ Before(looper, S, T) => Before(looper', S, T) /\ (h \in T => NoneIn(looper, S))
             /\ ClosedBy(looper, S, T) =>
                  ClosedBy(looper', S, T) \/ (h \in T /\ NoneIn(looper, S))
             /\ h \in S => ~NoneIn(looper, S)
  <2>1. h \in S => ~NoneIn(looper, S)
    BY <1>1, <1>2, TailPlaces, Zenon
  <2>2. QED
    BY <1>1, <1>2, <2>1, TailPlaces
<1>6. ASSUME NEW S
      PROVE  /\ ~NoneIn(toDart, S) => ~NoneIn(toDart', S)
             /\ NoneIn(toDart, S) => OnceIn(toDart', S)
             /\ m \notin S /\ NoneIn(toDart, S) => NoneIn(toDart', S)
             /\ m \notin S /\ OnceIn(toDart, S) => OnceIn(toDart', S)
             /\ m \in S /\ toDart' = Append(toDart, m) => ~NoneIn(toDart', S)
  <2>1. toDart' = toDart \/ toDart' = Append(toDart, m)
    BY <1>3
  <2>2. NoneIn(toDart, S) => OnceIn(toDart, S)
    BY DEF NoneIn, OnceIn
  <2>3. /\ ~NoneIn(toDart, S) => ~NoneIn(Append(toDart, m), S)
        /\ NoneIn(toDart, S) => OnceIn(Append(toDart, m), S)
        /\ m \notin S /\ NoneIn(toDart, S) => NoneIn(Append(toDart, m), S)
        /\ m \notin S /\ OnceIn(toDart, S) => OnceIn(Append(toDart, m), S)
        /\ m \in S => ~NoneIn(Append(toDart, m), S)
    BY <1>1, AppendPlaces, Zenon
  <2>4. QED
    BY <2>1, <2>2, <2>3
<1>7. h \in Awaited("shutdown") => h \in Calls("shutdown")
  <2>1. h \notin Misnamed
    BY <1>5 DEF SInv, NamedInv
  <2>2. QED
    BY <2>1 DEF Misnamed, Awaited, Calls
<1>8. h \in Calls("acquireWakeLock") => h \in Awaited("power")
  <2>1. h \notin Misnamed
    BY <1>5 DEF SInv, NamedInv
  <2>2. QED
    BY <2>1 DEF Misnamed, Awaited, Calls
<1>9. h \in Calls("initialize") =>
        toDart = << >> /\ initPc = "native" /\ checker # "closed"
        /\ h \notin Awaited("shutdown")
  <2>1. h \in Calls("initialize") => h \notin Calls("shutdown")
    BY DEF Calls
  <2>2. QED
    BY <1>5, <1>7, <2>1 DEF SInv, FirstInv
<1>10. UNCHANGED <<dbQueue, initPc, statusSub, checker, engineState>>
  BY DEF dartVars, storeVars, watchVars, lifeVars
<1> HIDE DEF h
<1>11. NamedInv' /\ FirstInv'
  <2>1. NoneIn(looper', Calls("initialize")) /\ NoneIn(looper', Misnamed)
    BY <1>5 DEF SInv, NamedInv, FirstInv
  <2>2. FirstOnly(looper', Calls("initialize"))
    BY <2>1 DEF NoneIn, FirstOnly
  <2>3. QED
    BY <2>1, <2>2 DEF NamedInv, FirstInv
<1>12. ClosedInv'
  <2> SUFFICES ASSUME checker = "closed" \/ ~NoneIn(toDart', Replies("shutdown")), alive'
               PROVE  FALSE
    BY <1>10 DEF ClosedInv
  <2>1. CASE h \in Calls("initialize")
    <3>1. NoneIn(toDart, Replies("shutdown"))
      BY <1>9, <2>1 DEF NoneIn
    <3>2. m \notin Replies("shutdown")
      BY <1>3, <1>4, <1>9, <2>1
    <3>3. QED
      BY <1>6, <1>9, <2>1, <3>1, <3>2
  <2>2. CASE h \notin Calls("initialize")
    <3>1. checker # "closed" /\ NoneIn(toDart, Replies("shutdown"))
      BY <1>3, <2>2 DEF SInv, ClosedInv
    <3>2. m \in Replies("shutdown")
      BY <1>6, <3>1
    <3>3. QED
      BY <1>3, <1>4, <1>7, <3>2
  <2>3. QED
    BY <2>1, <2>2
<1>13. SavingInv'
  BY <1>10 DEF SInv, SavingInv
<1>14. PowerInv'
  <2>1. CASE h \in Awaited("power")
    <3>1. ~NoneIn(looper, Awaited("power")) /\ NoneIn(looper', Awaited("power"))
          /\ NoneIn(toDart, Replies("power")) /\ initPc = "power"
          /\ NoneIn(dbQueue, PowerRequests)
      BY <1>5, <2>1 DEF SInv, PowerInv
    <3>2. OnceIn(toDart', Replies("power")) /\ OnceIn(looper', Awaited("power"))
      BY <1>5, <1>6, <3>1 DEF SInv, PowerInv
    <3>3. QED
      BY <1>10, <3>1, <3>2 DEF SInv, PowerInv
  <2>2. CASE h \notin Awaited("power")
    <3>1. m \notin Replies("power")
      BY <1>3, <1>4, <2>2
    <3>2. /\ NoneIn(looper, Awaited("power")) => NoneIn(looper', Awaited("power"))
          /\ OnceIn(looper, Awaited("power")) => OnceIn(looper', Awaited("power"))
          /\ NoneIn(toDart, Replies("power")) => NoneIn(toDart', Replies("power"))
          /\ OnceIn(toDart, Replies("power")) => OnceIn(toDart', Replies("power"))
      BY <1>5, <1>6, <3>1
    <3>3. QED
      BY <1>10, <3>2 DEF SInv, PowerInv
  <2>3. QED
    BY <2>1, <2>2
<1>15. ListenInv'
  <2>1. Before(looper', Calls("listen"), Awaited("power"))
    BY <1>5 DEF SInv, ListenInv
  <2>2. CASE initPc \in {"native", "load", "ended"} \/ ~NoneIn(toDart, Replies("power"))
    <3>1. NoneIn(looper', Calls("listen"))
      BY <1>5, <2>2 DEF SInv, ListenInv
    <3>2. QED
      BY <2>1, <3>1 DEF ListenInv
  <2>3. CASE m \in Replies("power")
    <3>1. NoneIn(looper, Calls("listen"))
      BY <1>3, <1>4, <1>5, <2>3 DEF SInv, ListenInv
    <3>2. QED
      BY <1>5, <2>1, <3>1 DEF ListenInv
  <2>4. QED
    BY <1>6, <1>10, <2>1, <2>2, <2>3 DEF ListenInv
<1>16. SinkInv'
  <2> SUFFICES ASSUME statusSub # "listening"
               PROVE  \/ NoneIn(looper', Calls("listen")) /\ ~sink'
                      \/ ClosedBy(looper', Calls("listen"), Calls("cancel"))
    BY <1>10 DEF SinkInv
  <2>1. CASE NoneIn(looper, Calls("listen")) /\ ~sink
    BY <1>3, <1>5, <2>1
  <2>2. CASE ClosedBy(looper, Calls("listen"), Calls("cancel"))
    BY <1>3, <1>5, <2>2
  <2>3. QED
    BY <2>1, <2>2 DEF SInv, SinkInv
<1>17. ShutInv'
  <2> SUFFICES ASSUME engineState = "shutdown", initPc = "ended"
               PROVE  ShutInv'
    BY <1>10 DEF ShutInv
  <2>1. CASE ~NoneIn(looper, Awaited("release"))
    <3>1. CASE h \in Awaited("release")
      <4>1. ~NoneIn(toDart', Replies("release"))
        BY <1>3, <1>4, <1>6, <3>1
      <4>2. QED
        BY <4>1 DEF ShutInv
    <3>2. CASE h \notin Awaited("release")
      BY <1>5, <2>1, <3>2 DEF ShutInv
    <3>3. QED
      BY <3>1, <3>2
  <2>2. CASE ~NoneIn(looper, Awaited("shutdown"))
    <3>1. CASE h \in Awaited("shutdown")
      <4>1. ~NoneIn(toDart', Replies("shutdown")) /\ ~alive' /\ ~wakeLock' /\ ~polling'
        BY <1>3, <1>4, <1>6, <1>7, <3>1
      <4>2. QED
        BY <4>1 DEF ShutInv
    <3>2. CASE h \notin Awaited("shutdown")
      BY <1>5, <2>2, <3>2 DEF ShutInv
    <3>3. QED
      BY <3>1, <3>2
  <2>3. CASE ~NoneIn(toDart, Replies("release"))
    BY <1>6, <2>3 DEF ShutInv
  <2>4. CASE /\ ~alive /\ ~wakeLock /\ ~polling
             /\ ~NoneIn(toDart, Replies("shutdown")) \/ statusSub # "listening"
    <3>1. h \notin Calls("initialize")
      BY <1>9
    <3>2. h \notin Calls("acquireWakeLock")
      <4>1. NoneIn(looper, Awaited("power"))
        BY DEF SInv, PowerInv
      <4>2. QED
        BY <1>5, <1>8, <4>1
    <3>3. h \notin Calls("listen")
      <4>1. NoneIn(looper, Calls("listen"))
        BY DEF SInv, ListenInv
      <4>2. QED
        BY <1>5, <4>1
    <3>4. QED
      BY <1>3, <1>6, <1>10, <2>4, <3>1, <3>2, <3>3 DEF ShutInv
  <2>5. QED
    BY <2>1, <2>2, <2>3, <2>4 DEF SInv, ShutInv
<1>18. QED
  BY <1>11, <1>12, <1>13, <1>14, <1>15, <1>16, <1>17 DEF SInv

LEMMA NoMoreSame ==
  ASSUME NEW S, dbQueue' = dbQueue
  PROVE  NoMore(S)
BY DEF NoMore

\* A step of the Android side.
LEMMA NativeKeeps ==
  ASSUME NativeAssumption, EngineAssumption, IInv, SInv, Native
  PROVE  SInv'
<1>1. UNCHANGED dartVars /\ NativeNext /\ NativeInv
  BY DEF Native, IInv
<1>2. CASE HandleLooper
  <2>1. PICK m : Takes(m)
    BY <1>1, <1>2, HandlerTakes
  <2>2. QED
    BY <1>1, <2>1, TakesKeeps
<1>3. CASE Timer \/ \E x \in Ids : Advance(x)
  <2> DEFINE post == [type |-> "post", statuses |-> poll.statuses]
  <2>1. /\ UNCHANGED <<alive, wakeLock, polling, sink, toDart>>
        /\ looper' = looper \/ looper' = Append(looper, post)
    BY <1>3 DEF Timer, PollCheck, PollRead, PollReadDangling, PollPost, Advance, sessionVars,
       pollVars
  <2>2. post \in Post /\ post \notin Call
    BY <1>1 DEF NativeInv, TimerInv, TimerTypeOK, Post, Call
  <2> HIDE DEF post
  <2>3. <<post>> \in Seq(Call \cup Post) /\ NoneIn(<<post>>, Special)
    BY <2>2 DEF NoneIn, Special, Calls, Awaited
  <2>4. Append(looper, post) = looper \o <<post>>
    BY DEF IInv, NativeInv, ChannelInv, ChannelTypeOK
  <2>5. UNCHANGED <<dbQueue, engineState, initPc, statusSub, checker>>
    BY <1>1 DEF dartVars, storeVars, watchVars, lifeVars
  <2>6. QED
    BY <2>1, <2>3, <2>4, <2>5, NoMoreSame, QuietStep
<1>4. QED
  BY <1>1, <1>2, <1>3 DEF NativeNext

\* Requests that are taken from the queue or put into it.
LEMMA NoMoreServed ==
  ASSUME IInv, NEW S, dbQueue # << >>,
         \/ dbQueue' = Tail(dbQueue)
         \/ \E r : r \notin S /\ dbQueue' = Append(Tail(dbQueue), r)
  PROVE  NoMore(S)
<1>1. dbQueue \in Seq(Request) /\ Tail(dbQueue) \in Seq(Request)
  BY DEF IInv, StoreInv, StoreTypeOK
<1>2. /\ NoneIn(dbQueue, S) => NoneIn(Tail(dbQueue), S)
      /\ OnceIn(dbQueue, S) => OnceIn(Tail(dbQueue), S)
  BY <1>1, TailPlaces, Zenon
<1>3. ASSUME NEW r, r \notin S, dbQueue' = Append(Tail(dbQueue), r)
      PROVE  NoMore(S)
  <2>1. /\ NoneIn(Tail(dbQueue), S) => NoneIn(Append(Tail(dbQueue), r), S)
        /\ OnceIn(Tail(dbQueue), S) => OnceIn(Append(Tail(dbQueue), r), S)
    BY <1>1, <1>3, AppendPlaces, Zenon
  <2>2. QED
    BY <1>2, <1>3, <2>1 DEF NoMore
<1>4. QED
  BY <1>2, <1>3 DEF NoMore

LEMMA NoMoreAppend ==
  ASSUME IInv, NEW S, NEW r, r \notin S, dbQueue' = Append(dbQueue, r)
  PROVE  NoMore(S)
<1>1. dbQueue \in Seq(Request)
  BY DEF IInv, StoreInv, StoreTypeOK
<1>2. /\ NoneIn(dbQueue, S) => NoneIn(Append(dbQueue, r), S)
      /\ OnceIn(dbQueue, S) => OnceIn(Append(dbQueue, r), S)
  BY <1>1, AppendPlaces, Zenon
<1>3. QED
  BY <1>2 DEF NoMore

\* A step that makes one call, which is not special, or none, and takes no
\* message from the Android side.
LEMMA QuietCallStep ==
  ASSUME IInv, SInv, NEW call \in Call, call \notin Special,
         looper' = looper \/ CallNative(<<call>>), toDart' = toDart,
         NoMore(PowerRequests), NoMore(InitWrites),
         UNCHANGED <<platformVars, engineState, initPc, statusSub, checker>>
  PROVE  SInv'
<1>1. <<call>> \in Seq(Call \cup Post) /\ NoneIn(<<call>>, Special)
  BY DEF NoneIn
<1>2. looper' = looper \/ looper' = looper \o <<call>>
  BY DEF CallNative
<1>3. QED
  BY <1>1, <1>2, QuietStep DEF platformVars, sessionVars, pollVars

\* Calls that are not special.
LEMMA PlainCalls ==
  ASSUME NativeAssumption, EngineAssumption
  PROVE  /\ \A m \in EngineMethod \ {"initialize", "listen", "acquireWakeLock"} :
              \A tag \in (EngineTags \cup {NoTag}) \ {"power", "shutdown"} :
                MakeCall(m, None, tag) \in Call /\ MakeCall(m, None, tag) \notin Special
         /\ \A m \in TorrentMethod : \A x \in Ids :
              \A tag \in (EngineTags \cup {NoTag}) \ {"power", "shutdown"} :
                MakeCall(m, x, tag) \in Call /\ MakeCall(m, x, tag) \notin Special
         /\ \A m, x, tag : MakeCall(m, x, tag) \in Special =>
              m \in {"initialize", "listen", "acquireWakeLock"} \/ tag \in {"power", "shutdown"}
<1>1. \A tag \in EngineTags \cup {NoTag} : tag \in Tags
  BY DEF NativeAssumption, EngineAssumption
<1>2. ASSUME NEW m, NEW x, NEW tag, MakeCall(m, x, tag) \in Special
      PROVE  m \in {"initialize", "listen", "acquireWakeLock"} \/ tag \in {"power", "shutdown"}
  BY <1>2 DEF Special, Calls, Awaited, MakeCall
<1>3. ASSUME NEW m \in EngineMethod \ {"initialize", "listen", "acquireWakeLock"},
             NEW tag \in (EngineTags \cup {NoTag}) \ {"power", "shutdown"}
      PROVE  MakeCall(m, None, tag) \in Call /\ MakeCall(m, None, tag) \notin Special
  <2>1. MakeCall(m, None, tag) \in Call
    BY <1>1, EngineCall
  <2>2. QED
    BY <1>2, <2>1
<1>4. ASSUME NEW m \in TorrentMethod, NEW x \in Ids,
             NEW tag \in (EngineTags \cup {NoTag}) \ {"power", "shutdown"}
      PROVE  MakeCall(m, x, tag) \in Call /\ MakeCall(m, x, tag) \notin Special
  <2>1. MakeCall(m, x, tag) \in Call
    BY <1>1, TorrentCall
  <2>2. m \notin {"initialize", "listen", "acquireWakeLock"}
    BY DEF TorrentMethod
  <2>3. QED
    BY <1>2, <2>1, <2>2
<1>5. QED
  BY <1>2, <1>3, <1>4

\* Requests that are none of the two kinds.
LEMMA PlainRequests ==
  /\ \A x : [op |-> "delete", id |-> x] \notin PowerRequests \cup InitWrites
  /\ \A pos : [op |-> "order", pos |-> pos] \notin PowerRequests \cup InitWrites
  /\ [op |-> "setting", tag |-> "finish"] \notin PowerRequests \cup InitWrites
  /\ [op |-> "load"] \notin PowerRequests \cup InitWrites
  /\ \A row, slot : /\ Upsert(row, slot) \notin PowerRequests
                    /\ slot # "init" => Upsert(row, slot) \notin InitWrites
  /\ [op |-> "setting", tag |-> "power"] \notin InitWrites
BY DEF PowerRequests, InitWrites, Upsert

\* The user's operations, except shutdown and reorderQueue.
LEMMA UserKeeps ==
  ASSUME NativeAssumption, EngineAssumption, IInv, SInv,
         \/ ResumeAll \/ PauseAll
         \/ \E x \in Ids : AddTorrent(x) \/ ToggleTorrent(x) \/ DeleteTorrent(x)
  PROVE  SInv'
<1>1. /\ toDart' = toDart /\ dbQueue' = dbQueue
      /\ UNCHANGED <<platformVars, engineState, initPc, statusSub, checker>>
  BY DEF ResumeAll, PauseAll, AddTorrent, ToggleTorrent, DeleteTorrent, watchVars, lifeVars,
     storeVars
<1>2. NoMore(PowerRequests) /\ NoMore(InitWrites)
  BY <1>1, NoMoreSame
<1>3. CASE ResumeAll \/ PauseAll
  <2>1. PICK m \in {"resumeAll", "pauseAll"} : CallNative(<<MakeCall(m, None, NoTag)>>)
    BY <1>3 DEF ResumeAll, PauseAll
  <2>2. MakeCall(m, None, NoTag) \in Call /\ MakeCall(m, None, NoTag) \notin Special
    <3>1. NoTag \notin {"power", "shutdown"}
      BY DEF EngineAssumption, EngineTags
    <3>2. QED
      BY <3>1, PlainCalls DEF EngineMethod
  <2>3. QED
    BY <1>1, <1>2, <2>1, <2>2, QuietCallStep
<1>4. ASSUME NEW x \in Ids, AddTorrent(x) \/ ToggleTorrent(x) \/ DeleteTorrent(x)
      PROVE  SInv'
  <2>1. PICK m \in TorrentMethod, tag \in {NoTag, "delete"} : CallNative(<<MakeCall(m, x, tag)>>)
    BY <1>4 DEF AddTorrent, ToggleTorrent, DeleteTorrent, TorrentMethod
  <2>2. MakeCall(m, x, tag) \in Call /\ MakeCall(m, x, tag) \notin Special
    <3>1. tag \in (EngineTags \cup {NoTag}) \ {"power", "shutdown"}
      BY DEF EngineAssumption, EngineTags
    <3>2. QED
      BY <3>1, PlainCalls
  <2>3. QED
    BY <1>1, <1>2, <2>1, <2>2, QuietCallStep
<1>5. QED
  BY <1>3, <1>4

\* Steps that make no call.
LEMMA SilentStep ==
  ASSUME IInv, SInv, looper' = looper,
         \/ toDart' = toDart
         \/ /\ toDart # << >> /\ toDart' = Tail(toDart)
            /\ Head(toDart) \notin SpecialReplies,
         NoMore(PowerRequests), NoMore(InitWrites),
         UNCHANGED <<platformVars, engineState, initPc, statusSub, checker>>
  PROVE  SInv'
<1>1. << >> \in Seq(Call \cup Post) /\ NoneIn(<< >>, Special)
  BY DEF NoneIn
<1>2. QED
  BY <1>1, QuietStep DEF platformVars, sessionVars, pollVars

LEMMA UpsertsAreRequests ==
  ASSUME NEW s \in Seq(UpsertRequest)
  PROVE  s \in Seq(Request)
<1>1. UpsertRequest \subseteq Request
  BY DEF Request
<1>2. QED
  BY <1>1

\* Status lists, deleted rows and a new order.
LEMMA ListKeeps ==
  ASSUME NativeAssumption, EngineAssumption, IInv, SInv,
         StatusUpdate \/ DeleteRow \/ ReorderQueue
  PROVE  SInv'
<1>1. CASE StatusUpdate
  <2>1. /\ looper' = looper /\ toDart # << >> /\ toDart' = Tail(toDart)
        /\ UNCHANGED <<platformVars, engineState, initPc, statusSub, checker>>
    BY <1>1 DEF StatusUpdate, Receive, watchVars, lifeVars
  <2>2. Head(toDart) \notin SpecialReplies
    BY <1>1 DEF StatusUpdate, Receive, SpecialReplies, Replies, Reply
  <2>3. NoMore(PowerRequests) /\ NoMore(InitWrites)
    <3>1. CASE statusSub # "listening"
      BY <1>1, <3>1, NoMoreSame DEF StatusUpdate
    <3>2. CASE statusSub = "listening"
      <4>1. PICK added \in Seq(Row), saves \in Seq(UpsertRequest), check \in Seq(SettingRequest) :
              /\ dbQueue' = dbQueue \o saves \o check
              /\ DOMAIN saves = DOMAIN added
              /\ \A i \in DOMAIN added :
                   saves[i] = Upsert(added[i], NoSlot)
                   /\ Mentions(Head(toDart).statuses, added[i].id)
              /\ \A i \in DOMAIN check : check[i].tag = "finish"
        BY <1>1, <3>2, StatusUpdateEffect
      <4>2. ASSUME NEW S \in {PowerRequests, InitWrites}
            PROVE  NoMore(S)
        <5>1. NoneIn(saves, S)
          <6>1. NoSlot # "init"
            BY DEF EngineAssumption
          <6>2. QED
            BY <4>1, <6>1, PlainRequests DEF NoneIn
        <5>2. NoneIn(check, S)
          <6>1. \A r \in SettingRequest : r.tag = "finish" => r \notin S
            BY DEF SettingRequest, PowerRequests, InitWrites
          <6>2. QED
            BY <4>1, <6>1 DEF NoneIn
        <5>3. dbQueue \in Seq(Request) /\ dbQueue \o saves \in Seq(Request)
          BY UpsertsAreRequests DEF IInv, StoreInv, StoreTypeOK
        <5>4. /\ NoneIn(dbQueue, S) => NoneIn(dbQueue \o saves, S)
              /\ OnceIn(dbQueue, S) => OnceIn(dbQueue \o saves, S)
          BY <5>1, <5>3, ConcatPlaces, Zenon
        <5>5. /\ NoneIn(dbQueue \o saves, S) => NoneIn((dbQueue \o saves) \o check, S)
              /\ OnceIn(dbQueue \o saves, S) => OnceIn((dbQueue \o saves) \o check, S)
          BY <5>2, <5>3, ConcatPlaces, Zenon
        <5>6. QED
          BY <4>1, <5>4, <5>5 DEF NoMore
      <4>3. QED
        BY <4>2
    <3>3. QED
      BY <3>1, <3>2
  <2>4. QED
    BY <2>1, <2>2, <2>3, SilentStep
<1>2. CASE DeleteRow
  <2>1. /\ looper' = looper /\ toDart # << >> /\ toDart' = Tail(toDart)
        /\ UNCHANGED <<platformVars, engineState, initPc, statusSub, checker>>
        /\ dbQueue' = Append(dbQueue, [op |-> "delete", id |-> Head(toDart).id])
    BY <1>2 DEF DeleteRow, Resume, Receive, watchVars, lifeVars
  <2>2. Head(toDart) \notin SpecialReplies
    BY <1>2 DEF DeleteRow, Resume, SpecialReplies, Replies
  <2>3. NoMore(PowerRequests) /\ NoMore(InitWrites)
    BY <2>1, PlainRequests, NoMoreAppend
  <2>4. QED
    BY <2>1, <2>2, <2>3, SilentStep
<1>3. CASE ReorderQueue
  <2>1. /\ looper' = looper /\ toDart' = toDart
        /\ UNCHANGED <<platformVars, engineState, initPc, statusSub, checker>>
    BY <1>3 DEF ReorderQueue, watchVars, lifeVars, nativeVars, platformVars, sessionVars, pollVars
  <2>2. PICK pos : dbQueue' = Append(dbQueue, [op |-> "order", pos |-> pos])
    BY <1>3, Zenon DEF ReorderQueue
  <2>3. NoMore(PowerRequests) /\ NoMore(InitWrites)
    BY <2>2, PlainRequests, NoMoreAppend
  <2>4. QED
    BY <2>1, <2>3, SilentStep
<1>4. QED
  BY <1>1, <1>2, <1>3

\* _applyConstraints makes toggles, which are plain calls.
LEMMA TogglesPlain ==
  ASSUME NativeAssumption, EngineAssumption, NEW s \in Seq(Call), Toggles(s)
  PROVE  s \in Seq(Call \cup Post) /\ NoneIn(s, Special)
<1>1. NoTag \notin {"power", "shutdown"}
  BY DEF EngineAssumption, EngineTags
<1>2. QED
  BY <1>1 DEF Toggles, NoneIn, Special, Calls, Awaited

LEMMA ConstraintsKeep ==
  ASSUME NativeAssumption, EngineAssumption, IInv, SInv, NEW v \in BOOLEAN,
         ConstraintsChecked(v)
  PROVE  SInv'
<1>1. UNCHANGED <<platformVars, toDart, engineState, initPc, statusSub, checker>>
  BY DEF ConstraintsChecked, lifeVars
<1>2. CASE UNCHANGED <<rows, looper, savers, dbQueue>>
  BY <1>1, <1>2, NoMoreSame, SilentStep
<1>3. CASE ApplyConstraints(v, "constraints", dbQueue)
  <2>0. dbQueue \in Seq(Request) /\ "constraints" \in Slots
    BY DEF IInv, StoreInv, StoreTypeOK, EngineAssumption
  <2>1. PICK s \in Seq(Call) : CallNative(s) /\ Toggles(s)
    BY <1>3, <2>0, ApplyConstraintsType
  <2>2. s \in Seq(Call \cup Post) /\ NoneIn(s, Special)
    BY <2>1, TogglesPlain
  <2>3. \/ dbQueue' = dbQueue
        \/ \E row \in rows' : dbQueue' = Append(dbQueue, Upsert(row, "constraints"))
    BY <1>3, <2>0, ApplyConstraintsEffect
  <2>4. ASSUME NEW row, dbQueue' = Append(dbQueue, Upsert(row, "constraints"))
        PROVE  NoMore(PowerRequests) /\ NoMore(InitWrites)
    <3>1. /\ Upsert(row, "constraints") \notin PowerRequests
          /\ Upsert(row, "constraints") \notin InitWrites
      BY PlainRequests
    <3>2. QED
      BY <2>4, <3>1, NoMoreAppend
  <2>5. NoMore(PowerRequests) /\ NoMore(InitWrites)
    BY <2>3, <2>4, NoMoreSame
  <2>6. QED
    BY <1>1, <2>1, <2>2, <2>5, QuietStep DEF CallNative, platformVars, sessionVars, pollVars
<1>4. QED
  BY <1>2, <1>3 DEF ConstraintsChecked

\* The first check: the row's writes or the setting of _updatePowerManagement.
LEMMA FirstCheckKeeps ==
  ASSUME NativeAssumption, EngineAssumption, IInv, SInv, NEW v \in BOOLEAN, InitChecked(v)
  PROVE  SInv'
<1>0. dbQueue \in Seq(Request) /\ "init" \in Slots /\ looper \in Seq(Call \cup Post)
  BY DEF IInv, StoreInv, StoreTypeOK, EngineAssumption, NativeInv, ChannelInv, ChannelTypeOK
<1>1. /\ UNCHANGED <<alive, wakeLock, polling, sink, toDart, engineState, statusSub, checker>>
      /\ initPc = "checking" /\ initPc' \in {"power", "saving"}
  BY DEF InitChecked, lifeVars, platformVars, sessionVars, pollVars
<1> DEFINE power == [op |-> "setting", tag |-> "power"]
<1>2. power \in Request /\ power \notin InitWrites
  BY SettingType, PlainRequests
<1>3. PICK before \in Seq(Request) :
        /\ ApplyConstraints(v, "init", before)
        /\ \/ rows = {} /\ before = Append(dbQueue, power) /\ initPc' = "power"
           \/ rows # {} /\ before = dbQueue /\ initPc' = "saving"
  <2>1. CASE rows = {}
    <3>1. /\ ApplyConstraints(v, "init", Append(dbQueue, power)) /\ initPc' = "power"
          /\ Append(dbQueue, power) \in Seq(Request)
      BY <1>0, <1>2, <2>1 DEF InitChecked
    <3>2. QED
      BY <2>1, <3>1
  <2>2. CASE rows # {}
    <3>1. ApplyConstraints(v, "init", dbQueue) /\ initPc' = "saving"
      BY <2>2 DEF InitChecked
    <3>2. QED
      BY <1>0, <2>2, <3>1
  <2>3. QED
    BY <2>1, <2>2
<1> HIDE DEF power
<1>4. PICK s \in Seq(Call) : CallNative(s) /\ Toggles(s)
  BY <1>0, <1>3, ApplyConstraintsType
<1>5. s \in Seq(Call \cup Post) /\ NoneIn(s, Special)
  BY <1>4, TogglesPlain
<1>6. /\ \A row \in rows' : \E r \in rows : r.id = row.id
      /\ \/ dbQueue' = before /\ rows' = {}
         \/ \E row \in rows' : dbQueue' = Append(before, Upsert(row, "init"))
  BY <1>0, <1>3, ApplyConstraintsEffect
<1>7. /\ NoneIn(dbQueue, InitWrites) /\ NoneIn(dbQueue, PowerRequests)
      /\ NoneIn(looper, Awaited("power")) /\ NoneIn(toDart, Replies("power"))
      /\ NoneIn(looper, Calls("initialize")) /\ NoneIn(looper, Misnamed)
  BY <1>1 DEF SInv, SavingInv, PowerInv, FirstInv, NamedInv
<1>8. /\ NoneIn(s, Calls("initialize")) /\ NoneIn(s, Calls("listen"))
      /\ NoneIn(s, Awaited("power")) /\ NoneIn(s, Awaited("shutdown"))
      /\ NoneIn(s, Misnamed)
  BY <1>5, SpecialParts
<1>9. looper' = looper \o s
  BY <1>4 DEF CallNative
<1>10. /\ NoneIn(looper', Misnamed) /\ NoneIn(looper', Calls("initialize"))
       /\ NoneIn(looper', Awaited("power"))
  BY <1>0, <1>7, <1>8, <1>9, ConcatPlaces, Zenon
<1>11. NoneIn(looper, Calls("listen")) => NoneIn(looper', Calls("listen"))
  BY <1>0, <1>8, <1>9, ConcatPlaces, Zenon
<1>12. ClosedBy(looper, Calls("listen"), Calls("cancel"))
         => ClosedBy(looper', Calls("listen"), Calls("cancel"))
  BY <1>0, <1>8, <1>9, ConcatPlaces, Zenon
<1>13. NamedInv' /\ FirstInv'
  <2>1. FirstOnly(looper', Calls("initialize"))
    BY <1>10 DEF NoneIn, FirstOnly
  <2>2. QED
    BY <1>10, <2>1 DEF NamedInv, FirstInv
<1>14. ClosedInv'
  BY <1>1 DEF SInv, ClosedInv
<1>15. SavingInv' /\ OnceIn(dbQueue', PowerRequests)
       /\ (initPc' # "power" => NoneIn(dbQueue', PowerRequests))
  <2>1. CASE rows = {}
    <3>1. dbQueue' = Append(dbQueue, power) /\ initPc' = "power"
      BY <1>3, <1>6, <2>1
    <3>2. NoneIn(Append(dbQueue, power), InitWrites) /\ OnceIn(Append(dbQueue, power), PowerRequests)
      BY <1>0, <1>2, <1>7, AppendPlaces, Zenon
    <3>3. OnceIn(dbQueue', InitWrites)
      BY <3>1, <3>2 DEF NoneIn, OnceIn
    <3>4. QED
      BY <3>1, <3>2, <3>3 DEF SavingInv
  <2>2. CASE rows # {}
    <3>1. before = dbQueue /\ initPc' = "saving"
      BY <1>3, <2>2
    <3>2. rows' # {}
      BY <1>3, <2>2 DEF ApplyConstraints
    <3>3. PICK row \in rows' : dbQueue' = Append(dbQueue, Upsert(row, "init"))
      BY <1>6, <3>1, <3>2
    <3>4. Upsert(row, "init") \notin PowerRequests
      BY PlainRequests
    <3>5. /\ OnceIn(Append(dbQueue, Upsert(row, "init")), InitWrites)
          /\ NoneIn(Append(dbQueue, Upsert(row, "init")), PowerRequests)
      BY <1>0, <1>7, <3>4, AppendPlaces, Zenon
    <3>6. OnceIn(dbQueue', PowerRequests)
      BY <3>3, <3>5 DEF NoneIn, OnceIn
    <3>7. QED
      BY <3>1, <3>3, <3>5, <3>6 DEF SavingInv
  <2>3. QED
    BY <2>1, <2>2
<1>16. PowerInv'
  <2>1. OnceIn(looper', Awaited("power")) /\ OnceIn(toDart', Replies("power"))
    BY <1>1, <1>7, <1>10 DEF NoneIn, OnceIn
  <2>2. QED
    BY <1>1, <1>7, <1>10, <1>15, <2>1 DEF PowerInv
<1>17. ListenInv'
  <2>1. Before(looper', Calls("listen"), Awaited("power"))
    BY <1>10 DEF NoneIn, Before
  <2>2. QED
    BY <1>1, <1>7, <2>1 DEF ListenInv
<1>18. SinkInv'
  BY <1>1, <1>11, <1>12 DEF SInv, SinkInv
<1>19. ShutInv'
  BY <1>1 DEF ShutInv
<1>20. QED
  BY <1>13, <1>14, <1>15, <1>16, <1>17, <1>18, <1>19 DEF SInv

\* initialize() returns from the platform.
LEMMA InitNativeKeeps ==
  ASSUME NativeAssumption, EngineAssumption, IInv, SInv, InitNative
  PROVE  SInv'
<1>0. dbQueue \in Seq(Request) /\ toDart \in Seq(Reply \cup Event)
  BY DEF IInv, StoreInv, StoreTypeOK, NativeInv, ChannelInv, ChannelTypeOK
<1>1. /\ UNCHANGED <<alive, wakeLock, polling, sink, looper, statusSub, checker>>
      /\ initPc = "native" /\ toDart # << >> /\ toDart' = Tail(toDart)
      /\ \/ initPc' = "load" /\ dbQueue' = Append(dbQueue, [op |-> "load"])
         \/ initPc' = "ended" /\ engineState' = "crashed" /\ dbQueue' = dbQueue
  BY DEF InitNative, Resume, Receive, platformVars, sessionVars, pollVars, watchVars
<1>2. NoMore(PowerRequests) /\ NoMore(InitWrites)
  BY <1>1, PlainRequests, NoMoreAppend, NoMoreSame
<1>3. /\ NoneIn(toDart', Replies("power"))
      /\ NoneIn(toDart, Replies("shutdown")) => NoneIn(toDart', Replies("shutdown"))
  <2>1. NoneIn(toDart, Replies("power"))
    BY <1>1 DEF SInv, PowerInv
  <2>2. QED
    BY <1>0, <1>1, <2>1, TailPlaces, Zenon
<1>4. NamedInv' /\ FirstInv'
  BY <1>1 DEF SInv, NamedInv, FirstInv
<1>5. ClosedInv'
  BY <1>1, <1>3 DEF SInv, ClosedInv
<1>6. SavingInv'
  BY <1>1, <1>2 DEF SInv, SavingInv, NoMore
<1>7. PowerInv'
  <2>1. OnceIn(toDart', Replies("power"))
    BY <1>3 DEF NoneIn, OnceIn
  <2>2. QED
    BY <1>1, <1>2, <1>3, <2>1 DEF SInv, PowerInv, NoMore
<1>8. ListenInv'
  BY <1>1 DEF SInv, ListenInv
<1>9. SinkInv' /\ ShutInv'
  BY <1>1 DEF SInv, SinkInv, ShutInv
<1>10. QED
  BY <1>4, <1>5, <1>6, <1>7, <1>8, <1>9 DEF SInv

\* ... and ends.
LEMMA InitEndKeeps ==
  ASSUME NativeAssumption, EngineAssumption, IInv, SInv, InitEnd
  PROVE  SInv'
<1>0. toDart \in Seq(Reply \cup Event)
  BY DEF IInv, NativeInv, ChannelInv, ChannelTypeOK
<1>1. /\ UNCHANGED <<alive, wakeLock, polling, sink, looper, statusSub, checker, dbQueue>>
      /\ toDart # << >> /\ toDart' = Tail(toDart)
      /\ initPc' = "ended" /\ engineState' = "running"
  BY DEF InitEnd, Resume, Receive, platformVars, sessionVars, pollVars, watchVars, storeVars
<1>2. Head(toDart) \in Replies("power")
  <2>1. Head(toDart) \in Reply
    BY <1>1, Received DEF InitEnd, Resume, Receive, IInv, NativeInv
  <2>2. QED
    BY <2>1 DEF InitEnd, Resume, Replies
<1>3. ~NoneIn(toDart, Replies("power"))
  BY <1>0, <1>1, <1>2, TailPlaces, Zenon
<1>4. /\ NoneIn(toDart', Replies("power"))
      /\ NoneIn(toDart, Replies("shutdown")) => NoneIn(toDart', Replies("shutdown"))
  <2>1. OnceIn(toDart, Replies("power"))
    BY DEF SInv, PowerInv
  <2>2. NoneIn(Tail(toDart), Replies("power"))
    BY <1>0, <1>1, <1>2, <2>1, TailPlaces, Zenon
  <2>3. NoneIn(toDart, Replies("shutdown")) => NoneIn(Tail(toDart), Replies("shutdown"))
    BY <1>0, <1>1, TailPlaces, Zenon
  <2>4. QED
    BY <1>1, <2>2, <2>3
<1>5. /\ initPc = "power"
      /\ NoneIn(looper, Awaited("power")) /\ NoneIn(dbQueue, PowerRequests)
      /\ NoneIn(looper, Calls("listen"))
  BY <1>3 DEF SInv, PowerInv, ListenInv
<1>6. NamedInv' /\ FirstInv'
  BY <1>1, <1>5 DEF SInv, NamedInv, FirstInv
<1>7. ClosedInv'
  BY <1>1, <1>4 DEF SInv, ClosedInv
<1>8. SavingInv'
  BY <1>1, <1>5 DEF SInv, SavingInv
<1>9. PowerInv'
  <2>1. OnceIn(toDart', Replies("power"))
    BY <1>4 DEF NoneIn, OnceIn
  <2>2. QED
    BY <1>1, <1>4, <1>5, <2>1 DEF SInv, PowerInv
<1>10. ListenInv' /\ SinkInv' /\ ShutInv'
  BY <1>1, <1>5 DEF SInv, ListenInv, SinkInv, ShutInv
<1>11. QED
  BY <1>6, <1>7, <1>8, <1>9, <1>10 DEF SInv

\* The table is read, and the stream of statuses opened.
LEMMA InitLoadKeeps ==
  ASSUME NativeAssumption, EngineAssumption, IInv, SInv, InitLoad \/ InitLoadFails
  PROVE  SInv'
<1>0. looper \in Seq(Call \cup Post)
  BY DEF IInv, NativeInv, ChannelInv, ChannelTypeOK
<1>1. /\ UNCHANGED <<alive, wakeLock, polling, sink, toDart>>
      /\ checker' = "closed" => checker = "closed"
      /\ initPc = "load" /\ dbQueue # << >> /\ dbQueue' = Tail(dbQueue)
  BY DEF InitLoad, InitLoadFails, Executing, platformVars, sessionVars, pollVars, nativeVars,
     watchVars
<1>2. NoMore(PowerRequests) /\ NoMore(InitWrites)
  BY <1>1, NoMoreServed
<1>3. /\ NoneIn(looper, Misnamed) /\ NoneIn(looper, Calls("initialize"))
      /\ NoneIn(looper, Awaited("power")) /\ NoneIn(toDart, Replies("power"))
      /\ NoneIn(looper, Calls("listen"))
      /\ NoneIn(dbQueue', PowerRequests) /\ NoneIn(dbQueue', InitWrites)
  BY <1>1, <1>2 DEF SInv, NamedInv, FirstInv, PowerInv, ListenInv, SavingInv, NoMore
<1>4. CASE InitLoad
  <2> DEFINE call == MakeCall("listen", None, NoTag)
  <2>1. /\ looper' = Append(looper, call) /\ statusSub' = "listening" /\ initPc' = "checking"
        /\ engineState' = engineState
    <3>1. looper \o <<call>> = Append(looper, call)
      BY <1>0
    <3>2. QED
      BY <1>4, <3>1 DEF InitLoad, CallNative, lifeVars
  <2>2. call \notin Misnamed /\ call \notin Calls("initialize") /\ call \notin Awaited("power")
    BY DEF Misnamed, Calls, Awaited, MakeCall, EngineAssumption, EngineTags
  <2> HIDE DEF call
  <2>3. /\ NoneIn(looper', Misnamed) /\ NoneIn(looper', Calls("initialize"))
        /\ NoneIn(looper', Awaited("power"))
    BY <1>0, <1>3, <2>1, <2>2, AppendPlaces, Zenon
  <2>4. NamedInv' /\ FirstInv'
    <3>1. FirstOnly(looper', Calls("initialize"))
      BY <2>3 DEF NoneIn, FirstOnly
    <3>2. QED
      BY <2>3, <3>1 DEF NamedInv, FirstInv
  <2>5. ClosedInv'
    BY <1>1 DEF SInv, ClosedInv
  <2>6. SavingInv' /\ OnceIn(dbQueue', PowerRequests)
    BY <1>3 DEF SavingInv, NoneIn, OnceIn
  <2>7. PowerInv'
    <3>1. OnceIn(looper', Awaited("power")) /\ OnceIn(toDart', Replies("power"))
      BY <1>1, <1>3, <2>3 DEF NoneIn, OnceIn
    <3>2. QED
      BY <1>1, <1>3, <2>3, <2>6, <3>1 DEF PowerInv
  <2>8. ListenInv'
    <3>1. Before(looper', Calls("listen"), Awaited("power"))
      BY <2>3 DEF NoneIn, Before
    <3>2. QED
      BY <1>1, <1>3, <2>1, <3>1 DEF ListenInv
  <2>9. SinkInv' /\ ShutInv'
    BY <2>1 DEF SinkInv, ShutInv
  <2>10. QED
    BY <2>4, <2>5, <2>6, <2>7, <2>8, <2>9 DEF SInv
<1>5. CASE InitLoadFails
  <2>1. /\ UNCHANGED <<looper, statusSub, checker>> /\ initPc' = "ended"
        /\ engineState' = "crashed"
    BY <1>5 DEF InitLoadFails, nativeVars, watchVars
  <2>2. NamedInv' /\ FirstInv'
    BY <1>1, <1>3, <2>1 DEF SInv, NamedInv, FirstInv
  <2>3. ClosedInv' /\ SinkInv' /\ ShutInv'
    BY <1>1, <2>1 DEF SInv, ClosedInv, SinkInv, ShutInv
  <2>4. SavingInv'
    BY <1>2, <1>3 DEF SInv, SavingInv, NoMore
  <2>5. PowerInv'
    BY <1>1, <1>2, <1>3, <2>1 DEF SInv, PowerInv, NoMore
  <2>6. ListenInv'
    BY <1>1, <1>3, <2>1 DEF SInv, ListenInv
  <2>7. QED
    BY <2>2, <2>3, <2>4, <2>5, <2>6 DEF SInv
<1>6. QED
  BY <1>4, <1>5

\* _updatePowerManagement makes its call.
LEMMA InitPowerKeeps ==
  ASSUME NativeAssumption, EngineAssumption, IInv, SInv, InitPower
  PROVE  SInv'
<1>0. looper \in Seq(Call \cup Post) /\ dbQueue \in Seq(Request)
  BY DEF IInv, NativeInv, ChannelInv, ChannelTypeOK, StoreInv, StoreTypeOK
<1>1. /\ UNCHANGED <<alive, wakeLock, polling, sink, toDart, statusSub, checker, engineState,
                     initPc>>
      /\ dbQueue # << >> /\ dbQueue' = Tail(dbQueue)
      /\ Head(dbQueue).op = "setting" /\ Head(dbQueue).tag = "power"
  BY DEF InitPower, Executing, platformVars, sessionVars, pollVars, watchVars, lifeVars
<1>2. Head(dbQueue) \in PowerRequests
  BY <1>0, <1>1 DEF PowerRequests
<1>3. PICK m \in {"acquireWakeLock", "releaseWakeLock"} :
        looper' = looper \o <<MakeCall(m, None, "power")>>
  BY DEF InitPower, CallNative
<1> DEFINE call == MakeCall(m, None, "power")
<1>4. looper' = Append(looper, call)
  BY <1>0, <1>3
<1>5. /\ call \notin Misnamed /\ call \notin Calls("initialize") /\ call \notin Calls("listen")
  BY DEF Misnamed, Calls, MakeCall
<1> HIDE DEF call
<1>6. ~NoneIn(dbQueue, PowerRequests)
  BY <1>0, <1>1, <1>2, TailPlaces, Zenon
<1>7. /\ initPc = "power" /\ NoneIn(looper, Awaited("power")) /\ NoneIn(toDart, Replies("power"))
      /\ OnceIn(dbQueue, PowerRequests) /\ NoneIn(looper, Calls("initialize"))
      /\ NoneIn(looper, Misnamed) /\ Before(looper, Calls("listen"), Awaited("power"))
  BY <1>6 DEF SInv, PowerInv, FirstInv, NamedInv, ListenInv
<1>8. NoneIn(dbQueue', PowerRequests)
  BY <1>0, <1>1, <1>2, <1>7, TailPlaces, Zenon
<1>9. NoneIn(looper', Misnamed) /\ NoneIn(looper', Calls("initialize"))
  BY <1>0, <1>4, <1>5, <1>7, AppendPlaces, Zenon
<1>10. OnceIn(looper', Awaited("power"))
  BY <1>0, <1>4, <1>7, AppendPlaces, Zenon
<1>11. Before(looper', Calls("listen"), Awaited("power"))
  BY <1>0, <1>4, <1>5, <1>7, AppendPlaces, Zenon
<1>12. /\ NoneIn(looper, Calls("listen")) => NoneIn(looper', Calls("listen"))
       /\ ClosedBy(looper, Calls("listen"), Calls("cancel"))
            => ClosedBy(looper', Calls("listen"), Calls("cancel"))
  BY <1>0, <1>4, <1>5, AppendPlaces, Zenon
<1>13. NoMore(InitWrites)
  BY <1>1, NoMoreServed
<1>14. NamedInv' /\ FirstInv'
  <2>1. FirstOnly(looper', Calls("initialize"))
    BY <1>9 DEF NoneIn, FirstOnly
  <2>2. QED
    BY <1>9, <2>1 DEF NamedInv, FirstInv
<1>15. ClosedInv'
  BY <1>1 DEF SInv, ClosedInv
<1>16. SavingInv'
  BY <1>1, <1>13 DEF SInv, SavingInv, NoMore
<1>17. PowerInv'
  <2>1. OnceIn(dbQueue', PowerRequests) /\ OnceIn(toDart', Replies("power"))
    BY <1>1, <1>7, <1>8 DEF NoneIn, OnceIn
  <2>2. QED
    BY <1>1, <1>7, <1>8, <1>10, <2>1 DEF PowerInv
<1>18. ListenInv'
  BY <1>1, <1>7, <1>11 DEF ListenInv
<1>19. SinkInv'
  BY <1>1, <1>12 DEF SInv, SinkInv
<1>20. ShutInv'
  BY <1>1, <1>7 DEF ShutInv
<1>21. QED
  BY <1>14, <1>15, <1>16, <1>17, <1>18, <1>19, <1>20 DEF SInv

\* The database's writes.  The save loop of initialize() asks for the next one
\* or returns to it.
LEMMA DatabaseKeeps ==
  ASSUME NativeAssumption, EngineAssumption, IInv, SInv, DbUpsert \/ DbDelete \/ DbOrder
  PROVE  SInv'
<1>0. /\ dbQueue \in Seq(Request) /\ dbQueue # << >> /\ Tail(dbQueue) \in Seq(Request)
      /\ Head(dbQueue) \in Request
  BY DEF IInv, StoreInv, StoreTypeOK, DbUpsert, DbDelete, DbOrder, Executing
<1>1. UNCHANGED <<nativeVars, engineState, statusSub, checker>>
  BY DEF DbUpsert, DbDelete, DbOrder, watchVars, lifeVars
<1>2. ASSUME initPc' = initPc, NoMore(PowerRequests), NoMore(InitWrites)
      PROVE  SInv'
  BY <1>1, <1>2, SilentStep DEF nativeVars, platformVars, sessionVars, pollVars
<1>3. CASE DbDelete
  BY <1>0, <1>2, <1>3, NoMoreServed DEF DbDelete
<1>4. CASE DbOrder
  <2>1. \/ dbQueue' = Tail(dbQueue)
        \/ \E row \in rows : dbQueue' = Append(Tail(dbQueue), Upsert(row, "reorder"))
    BY <1>4 DEF DbOrder, StartSaving
  <2>2. \A row : Upsert(row, "reorder") \notin PowerRequests \cup InitWrites
    BY PlainRequests
  <2>3. NoMore(PowerRequests) /\ NoMore(InitWrites)
    BY <1>0, <2>1, <2>2, NoMoreServed
  <2>4. QED
    BY <1>2, <1>4, <2>3 DEF DbOrder
<1>5. CASE DbUpsert
  <2> DEFINE slot == Head(dbQueue).slot
  <2>1. CASE slot # "init"
    <3>1. /\ \/ dbQueue' = Tail(dbQueue)
             \/ \E row : dbQueue' = Append(Tail(dbQueue), Upsert(row, slot))
          /\ initPc' = initPc
      BY <1>5, <2>1 DEF DbUpsert
    <3>2. \A row : Upsert(row, slot) \notin PowerRequests \cup InitWrites
      BY <2>1, PlainRequests
    <3> HIDE DEF slot
    <3>3. NoMore(PowerRequests) /\ NoMore(InitWrites)
      BY <1>0, <3>1, <3>2, NoMoreServed
    <3>4. QED
      BY <1>2, <3>1, <3>3
  <2>2. CASE slot = "init"
    <3>1. Head(dbQueue) \in InitWrites
      BY <1>0, <1>5, <2>2 DEF DbUpsert, Executing, InitWrites
    <3>2. initPc = "saving" /\ OnceIn(dbQueue, InitWrites)
      <4>1. ~NoneIn(dbQueue, InitWrites)
        BY <1>0, <3>1, TailPlaces, Zenon
      <4>2. QED
        BY <4>1 DEF SInv, SavingInv
    <3>3. NoneIn(Tail(dbQueue), InitWrites)
      BY <1>0, <3>1, <3>2, TailPlaces, Zenon
    <3>4. /\ NoneIn(dbQueue, PowerRequests) /\ NoneIn(looper, Awaited("power"))
          /\ NoneIn(toDart, Replies("power"))
      BY <3>2 DEF SInv, PowerInv
    <3>5. NoneIn(Tail(dbQueue), PowerRequests)
      BY <1>0, <3>4, TailPlaces, Zenon
    <3> DEFINE power == [op |-> "setting", tag |-> "power"]
    <3>6. \/ /\ initPc' = "saving"
             /\ \E row : dbQueue' = Append(Tail(dbQueue), Upsert(row, "init"))
          \/ initPc' = "power" /\ dbQueue' = Append(Tail(dbQueue), power)
      BY <1>5, <2>2, <3>2 DEF DbUpsert
    <3>7. power \notin InitWrites
      BY PlainRequests
    <3> HIDE DEF power, slot
    <3>8. CASE /\ initPc' = "saving"
               /\ \E row : dbQueue' = Append(Tail(dbQueue), Upsert(row, "init"))
      <4>1. PICK row : dbQueue' = Append(Tail(dbQueue), Upsert(row, "init"))
        BY <3>8
      <4>2. Upsert(row, "init") \notin PowerRequests
        BY PlainRequests
      <4>3. OnceIn(dbQueue', InitWrites) /\ NoneIn(dbQueue', PowerRequests)
        BY <1>0, <3>3, <3>5, <4>1, <4>2, AppendPlaces, Zenon
      <4>4. NoMore(PowerRequests) /\ NoMore(InitWrites)
        <5>1. ~NoneIn(dbQueue, InitWrites)
          BY <1>0, <3>1, TailPlaces, Zenon
        <5>2. OnceIn(dbQueue', PowerRequests)
          BY <4>3 DEF NoneIn, OnceIn
        <5>3. QED
          BY <4>3, <5>1, <5>2 DEF NoMore
      <4>5. QED
        BY <1>2, <3>2, <3>8, <4>4
    <3>9. CASE initPc' = "power" /\ dbQueue' = Append(Tail(dbQueue), power)
      <4>1. NoneIn(dbQueue', InitWrites) /\ OnceIn(dbQueue', PowerRequests)
        BY <1>0, <3>3, <3>5, <3>7, <3>9, AppendPlaces, Zenon
      <4>2. looper' = looper /\ toDart' = toDart /\ UNCHANGED <<alive, sink, wakeLock, polling>>
        BY <1>1 DEF nativeVars
      <4>3. NamedInv' /\ FirstInv'
        BY <3>2, <4>2 DEF SInv, NamedInv, FirstInv
      <4>4. ClosedInv' /\ SinkInv' /\ ShutInv'
        BY <1>1, <3>9, <4>2 DEF SInv, ClosedInv, SinkInv, ShutInv
      <4>5. SavingInv'
        <5>1. OnceIn(dbQueue', InitWrites)
          BY <4>1 DEF NoneIn, OnceIn
        <5>2. QED
          BY <4>1, <5>1 DEF SavingInv
      <4>6. PowerInv'
        BY <3>4, <3>9, <4>1, <4>2 DEF SInv, PowerInv
      <4>7. ListenInv'
        BY <3>4, <3>9, <4>2 DEF SInv, ListenInv
      <4>8. QED
        BY <4>3, <4>4, <4>5, <4>6, <4>7 DEF SInv
    <3>10. QED
      BY <3>6, <3>8, <3>9
  <2>3. QED
    BY <2>1, <2>2
<1>6. QED
  BY <1>3, <1>4, <1>5

\* The isolate takes a reply other than that of _updatePowerManagement, and
\* makes calls that are none of initialize().
LEMMA ReplyStep ==
  ASSUME IInv, SInv,
         NEW s \in Seq(Call \cup Post),
         NoneIn(s, Calls("initialize")), NoneIn(s, Calls("listen")),
         NoneIn(s, Awaited("power")), NoneIn(s, Misnamed),
         looper' = looper \o s,
         toDart # << >>, toDart' = Tail(toDart), Head(toDart) \notin Replies("power"),
         UNCHANGED <<initPc, dbQueue>>
  PROVE  /\ NamedInv' /\ FirstInv' /\ SavingInv' /\ PowerInv' /\ ListenInv'
         /\ NoneIn(looper, Calls("initialize"))
         /\ NoneIn(looper, Calls("listen")) => NoneIn(looper', Calls("listen"))
         /\ ClosedBy(looper, Calls("listen"), Calls("cancel"))
              => ClosedBy(looper', Calls("listen"), Calls("cancel"))
         /\ \A S : ~NoneIn(looper, S) => ~NoneIn(looper', S)
         /\ \A S : NoneIn(toDart, S) => NoneIn(toDart', S)
         /\ \A S : ~NoneIn(toDart, S) /\ Head(toDart) \notin S => ~NoneIn(toDart', S)
<1>1. looper \in Seq(Call \cup Post) /\ toDart \in Seq(Reply \cup Event)
  BY DEF IInv, NativeInv, ChannelInv, ChannelTypeOK
<1>2. NoneIn(looper, Calls("initialize"))
  BY DEF SInv, FirstInv
<1>3. NoneIn(looper', Calls("initialize"))
  BY <1>1, <1>2, ConcatPlaces, Zenon
<1>4. /\ NoneIn(looper, Misnamed) => NoneIn(looper', Misnamed)
      /\ NoneIn(looper, Calls("listen")) => NoneIn(looper', Calls("listen"))
      /\ NoneIn(looper, Awaited("power")) => NoneIn(looper', Awaited("power"))
      /\ OnceIn(looper, Awaited("power")) => OnceIn(looper', Awaited("power"))
  BY <1>1, ConcatPlaces, Zenon
<1>5. /\ Before(looper, Calls("listen"), Awaited("power"))
           => Before(looper', Calls("listen"), Awaited("power"))
      /\ ClosedBy(looper, Calls("listen"), Calls("cancel"))
           => ClosedBy(looper', Calls("listen"), Calls("cancel"))
  BY <1>1, ConcatPlaces, Zenon
<1>6. ASSUME NEW S, ~NoneIn(looper, S) PROVE ~NoneIn(looper', S)
  BY <1>1, <1>6, ConcatPlaces, Zenon
<1>7. ASSUME NEW S
      PROVE  /\ NoneIn(toDart, S) => NoneIn(toDart', S)
             /\ ~NoneIn(toDart, S) /\ Head(toDart) \notin S => ~NoneIn(toDart', S)
             /\ OnceIn(toDart, S) => OnceIn(toDart', S)
  BY <1>1, TailPlaces, Zenon
<1>8. NamedInv'
  BY <1>4 DEF SInv, NamedInv
<1>9. FirstInv'
  <2>1. FirstOnly(looper', Calls("initialize"))
    BY <1>3 DEF NoneIn, FirstOnly
  <2>2. QED
    BY <1>3, <2>1 DEF FirstInv
<1>10. SavingInv'
  BY DEF SInv, SavingInv
<1>11. PowerInv'
  <2>1. /\ NoneIn(toDart, Replies("power")) => NoneIn(toDart', Replies("power"))
        /\ OnceIn(toDart, Replies("power")) => OnceIn(toDart', Replies("power"))
    BY <1>7
  <2>2. QED
    BY <1>4, <2>1 DEF SInv, PowerInv
<1>12. ListenInv'
  <2>1. NoneIn(toDart, Replies("power")) => NoneIn(toDart', Replies("power"))
    BY <1>7
  <2>2. QED
    BY <1>4, <1>5, <2>1 DEF SInv, ListenInv
<1>13. QED
  BY <1>2, <1>4, <1>5, <1>6, <1>7, <1>8, <1>9, <1>10, <1>11, <1>12

\* A shutdown begins: releaseWakeLock is called and awaited.
LEMMA BeginShutdownKeeps ==
  ASSUME NativeAssumption, EngineAssumption, IInv, SInv, BeginShutdown, toDart' = toDart,
         NoMore(PowerRequests), NoMore(InitWrites),
         UNCHANGED <<platformVars, initPc, statusSub, checker>>
  PROVE  SInv'
<1>1. CASE isShutdown
  BY <1>1, SilentStep DEF BeginShutdown, lifeVars
<1>2. CASE ~isShutdown
  <2> DEFINE call == MakeCall("releaseWakeLock", None, "release")
  <2>1. engineState' = "shutdown" /\ looper' = looper \o <<call>>
    BY <1>2 DEF BeginShutdown, CallNative
  <2>2. call \in Call /\ call \notin Special /\ call \in Awaited("release")
    <3>1. call \in Call
      <4>1. "release" \in Tags /\ "releaseWakeLock" \in EngineMethod
        BY DEF EngineAssumption, EngineTags, EngineMethod
      <4>2. QED
        BY <4>1, EngineCall
    <3>2. call \notin Special
      BY DEF Special, Calls, Awaited, MakeCall
    <3>3. call.tag = "release"
      BY DEF MakeCall
    <3>4. QED
      BY <3>1, <3>2, <3>3 DEF Awaited
  <2> HIDE DEF call
  <2>3. /\ looper \in Seq(Call \cup Post) /\ <<call>> \in Seq(Call \cup Post)
        /\ looper \o <<call>> = Append(looper, call)
    BY <2>2 DEF IInv, NativeInv, ChannelInv, ChannelTypeOK
  <2>4. NoneIn(<<call>>, Special)
    BY <2>2 DEF NoneIn
  <2>5. /\ NoneIn(<<call>>, Calls("initialize")) /\ NoneIn(<<call>>, Calls("listen"))
        /\ NoneIn(<<call>>, Awaited("power")) /\ NoneIn(<<call>>, Misnamed)
    BY <2>4, SpecialParts
  <2>6. /\ NoneIn(looper, Misnamed) => NoneIn(looper', Misnamed)
        /\ FirstOnly(looper, Calls("initialize")) => FirstOnly(looper', Calls("initialize"))
        /\ NoneIn(looper, Calls("initialize")) => NoneIn(looper', Calls("initialize"))
        /\ NoneIn(looper, Calls("listen")) => NoneIn(looper', Calls("listen"))
    BY <2>1, <2>3, <2>5, ConcatPlaces, Zenon
  <2>7. /\ NoneIn(looper, Awaited("power")) => NoneIn(looper', Awaited("power"))
        /\ OnceIn(looper, Awaited("power")) => OnceIn(looper', Awaited("power"))
    BY <2>1, <2>3, <2>5, ConcatPlaces, Zenon
  <2>8. /\ Before(looper, Calls("listen"), Awaited("power"))
             => Before(looper', Calls("listen"), Awaited("power"))
        /\ ClosedBy(looper, Calls("listen"), Calls("cancel"))
             => ClosedBy(looper', Calls("listen"), Calls("cancel"))
    BY <2>1, <2>3, <2>5, ConcatPlaces, Zenon
  <2>9. ~NoneIn(looper', Awaited("release"))
    <3>1. ~NoneIn(Append(looper, call), Awaited("release"))
      BY <2>2, <2>3, AppendPlaces, Zenon
    <3>2. QED
      BY <2>1, <2>3, <3>1
  <2>10. NamedInv' /\ FirstInv'
    BY <2>6 DEF SInv, NamedInv, FirstInv
  <2>11. ClosedInv' /\ SavingInv'
    BY DEF SInv, ClosedInv, SavingInv, NoMore, platformVars, sessionVars
  <2>12. PowerInv'
    BY <2>7 DEF SInv, PowerInv, NoMore
  <2>13. ListenInv'
    BY <2>6, <2>8 DEF SInv, ListenInv
  <2>14. SinkInv'
    BY <2>6, <2>8 DEF SInv, SinkInv, platformVars, pollVars
  <2>15. ShutInv'
    BY <2>9 DEF ShutInv
  <2>16. QED
    BY <2>10, <2>11, <2>12, <2>13, <2>14, <2>15 DEF SInv
<1>3. QED
  BY <1>1, <1>2

LEMMA ShutdownBegins ==
  ASSUME NativeAssumption, EngineAssumption, IInv, SInv, Shutdown \/ ShutdownWhenDone
  PROVE  SInv'
<1>1. CASE Shutdown
  <2>1. dbQueue' = dbQueue /\ toDart' = toDart /\ BeginShutdown
        /\ UNCHANGED <<platformVars, initPc, statusSub, checker>>
    BY <1>1 DEF Shutdown, storeVars, watchVars
  <2>2. NoMore(PowerRequests) /\ NoMore(InitWrites)
    BY <2>1, NoMoreSame
  <2>3. QED
    BY <2>1, <2>2, BeginShutdownKeeps
<1>2. CASE ShutdownWhenDone
  <2>1. /\ dbQueue # << >> /\ dbQueue' = Tail(dbQueue) /\ toDart' = toDart
        /\ UNCHANGED <<platformVars, initPc, statusSub, checker>>
        /\ BeginShutdown \/ UNCHANGED <<looper, lifeVars>>
    BY <1>2 DEF ShutdownWhenDone, Executing, watchVars
  <2>2. NoMore(PowerRequests) /\ NoMore(InitWrites)
    BY <2>1, NoMoreServed
  <2>3. CASE BeginShutdown
    BY <2>1, <2>2, <2>3, BeginShutdownKeeps
  <2>4. CASE UNCHANGED <<looper, lifeVars>>
    BY <2>1, <2>2, <2>4, SilentStep DEF lifeVars
  <2>5. QED
    BY <2>1, <2>3, <2>4
<1>3. QED
  BY <1>1, <1>2

\* releaseWakeLock has returned: shutdown is called.
LEMMA ShutdownNativeKeeps ==
  ASSUME NativeAssumption, EngineAssumption, IInv, SInv, ShutdownNative
  PROVE  SInv'
<1> DEFINE call == MakeCall("shutdown", None, "shutdown")
<1>1. /\ toDart # << >> /\ toDart' = Tail(toDart) /\ Head(toDart).tag = "release"
      /\ looper' = looper \o <<call>>
      /\ UNCHANGED <<alive, wakeLock, polling, sink, initPc, dbQueue, engineState, statusSub,
                     checker>>
  BY DEF ShutdownNative, Resume, Receive, CallNative, platformVars, sessionVars, pollVars,
     dartVars, lifeVars, watchVars, storeVars
<1>2. call \in Call /\ call.tag = "shutdown"
  <2>1. "shutdown" \in Tags /\ "shutdown" \in EngineMethod
    BY DEF EngineAssumption, EngineTags, EngineMethod
  <2>2. QED
    BY <2>1, EngineCall DEF MakeCall
<1>3. /\ call \notin Calls("initialize") /\ call \notin Calls("listen")
      /\ call \notin Awaited("power") /\ call \notin Misnamed
  BY DEF Calls, Awaited, Misnamed, MakeCall
<1> HIDE DEF call
<1>4. /\ <<call>> \in Seq(Call \cup Post)
      /\ NoneIn(<<call>>, Calls("initialize")) /\ NoneIn(<<call>>, Calls("listen"))
      /\ NoneIn(<<call>>, Awaited("power")) /\ NoneIn(<<call>>, Misnamed)
  BY <1>2, <1>3 DEF NoneIn
<1>5. Head(toDart) \notin Replies("power") /\ Head(toDart) \notin Replies("shutdown")
  BY <1>1 DEF Replies
<1>6. /\ NamedInv' /\ FirstInv' /\ SavingInv' /\ PowerInv' /\ ListenInv'
      /\ NoneIn(looper, Calls("listen")) => NoneIn(looper', Calls("listen"))
      /\ ClosedBy(looper, Calls("listen"), Calls("cancel"))
           => ClosedBy(looper', Calls("listen"), Calls("cancel"))
      /\ \A S : NoneIn(toDart, S) => NoneIn(toDart', S)
  BY <1>1, <1>4, <1>5, ReplyStep
<1>7. ClosedInv'
  BY <1>1, <1>6 DEF SInv, ClosedInv
<1>8. SinkInv'
  BY <1>1, <1>6 DEF SInv, SinkInv
<1>9. ShutInv'
  <2>1. looper \in Seq(Call \cup Post) /\ looper \o <<call>> = Append(looper, call)
    BY DEF IInv, NativeInv, ChannelInv, ChannelTypeOK
  <2>2. call \in Awaited("shutdown")
    BY <1>2 DEF Awaited
  <2>3. ~NoneIn(Append(looper, call), Awaited("shutdown"))
    BY <2>1, <2>2, AppendPlaces, Zenon
  <2>4. ~NoneIn(looper', Awaited("shutdown"))
    BY <1>1, <2>1, <2>3
  <2>5. QED
    BY <2>4 DEF ShutInv
<1>10. QED
  BY <1>6, <1>7, <1>8, <1>9 DEF SInv

\* shutdown has returned: the stream of statuses is closed.
LEMMA ShutdownEndKeeps ==
  ASSUME NativeAssumption, EngineAssumption, IInv, SInv, ShutdownEnd
  PROVE  SInv'
<1> DEFINE cancel == MakeCall("cancel", None, NoTag)
<1>1. /\ toDart # << >> /\ toDart' = Tail(toDart)
      /\ Head(toDart).type = "reply" /\ Head(toDart).tag = "shutdown"
      /\ UNCHANGED <<alive, wakeLock, polling, sink, initPc, dbQueue, engineState>>
      /\ statusSub' # "listening"
  BY DEF ShutdownEnd, Resume, Receive, Cancelled, platformVars, sessionVars, pollVars,
     lifeVars, storeVars
<1>2. looper' = looper \o (IF statusSub = "listening" THEN <<cancel>> ELSE << >>)
  BY DEF ShutdownEnd, CallNative
<1>3. cancel \in Call /\ cancel \in Calls("cancel") /\ cancel \notin Calls("listen")
  <2>1. NoTag \in Tags /\ "cancel" \in EngineMethod
    BY DEF NativeAssumption, EngineMethod
  <2>2. cancel \in Call
    BY <2>1, EngineCall
  <2>3. cancel.method = "cancel"
    BY DEF MakeCall
  <2>4. QED
    BY <2>2, <2>3 DEF Calls
<1>4. cancel \notin Calls("initialize") /\ cancel \notin Awaited("power") /\ cancel \notin Misnamed
  BY DEF Calls, Awaited, Misnamed, MakeCall, EngineAssumption, EngineTags
<1> HIDE DEF cancel
<1>5. looper \in Seq(Call \cup Post) /\ toDart \in Seq(Reply \cup Event)
  BY DEF IInv, NativeInv, ChannelInv, ChannelTypeOK
<1>6. PICK s \in Seq(Call \cup Post) :
        /\ looper' = looper \o s
        /\ s = IF statusSub = "listening" THEN <<cancel>> ELSE << >>
  <2> DEFINE t == IF statusSub = "listening" THEN <<cancel>> ELSE << >>
  <2>1. t \in Seq(Call \cup Post)
    <3>1. cancel \in Call \cup Post
      BY <1>3
    <3>2. <<cancel>> \in Seq(Call \cup Post) /\ << >> \in Seq(Call \cup Post)
      BY <3>1
    <3>3. QED
      BY <3>2, Zenon
  <2>2. looper' = looper \o t
    BY <1>2
  <2> HIDE DEF t
  <2>3. \E s \in Seq(Call \cup Post) : looper' = looper \o s /\ s = t
    BY <2>1, <2>2
  <2>4. QED
    BY <2>3 DEF t
<1>7. /\ NoneIn(s, Calls("initialize")) /\ NoneIn(s, Calls("listen"))
      /\ NoneIn(s, Awaited("power")) /\ NoneIn(s, Misnamed)
  <2>1. \A i \in DOMAIN s : s[i] = cancel
    BY <1>6
  <2>2. QED
    BY <1>3, <1>4, <2>1 DEF NoneIn
<1>8. /\ Head(toDart) \notin Replies("power") /\ Head(toDart) \notin Replies("release")
      /\ Head(toDart) \in Replies("shutdown")
  <2>1. Head(toDart) \in Reply
    BY <1>1, Received DEF IInv, NativeInv
  <2>2. QED
    BY <1>1, <2>1 DEF Replies
<1>9. /\ NamedInv' /\ FirstInv' /\ SavingInv' /\ PowerInv' /\ ListenInv'
      /\ NoneIn(looper, Calls("initialize"))
      /\ NoneIn(looper, Calls("listen")) => NoneIn(looper', Calls("listen"))
      /\ ClosedBy(looper, Calls("listen"), Calls("cancel"))
           => ClosedBy(looper', Calls("listen"), Calls("cancel"))
      /\ \A S : ~NoneIn(looper, S) => ~NoneIn(looper', S)
      /\ \A S : ~NoneIn(toDart, S) /\ Head(toDart) \notin S => ~NoneIn(toDart', S)
  BY <1>1, <1>6, <1>7, <1>8, ReplyStep
<1>10. ~alive'
  <2>1. ~NoneIn(toDart, Replies("shutdown"))
    BY <1>1, <1>5, <1>8, TailPlaces, Zenon
  <2>2. QED
    BY <1>1, <2>1 DEF SInv, ClosedInv
<1>11. ClosedInv'
  BY <1>10 DEF ClosedInv
<1>12. SinkInv'
  <2>1. CASE statusSub = "listening"
    <3>1. looper' = Append(looper, cancel)
      BY <1>5, <1>6, <2>1
    <3>2. ClosedBy(Append(looper, cancel), Calls("listen"), Calls("cancel"))
      BY <1>3, <1>5, AppendPlaces, Zenon
    <3>3. QED
      BY <3>1, <3>2 DEF SinkInv
  <2>2. CASE statusSub # "listening"
    BY <1>1, <1>9, <2>2 DEF SInv, SinkInv
  <2>3. QED
    BY <2>1, <2>2
<1>13. ShutInv'
  <2>1. /\ ~NoneIn(looper, Awaited("release")) => ~NoneIn(looper', Awaited("release"))
        /\ ~NoneIn(looper, Awaited("shutdown")) => ~NoneIn(looper', Awaited("shutdown"))
        /\ ~NoneIn(toDart, Replies("release")) => ~NoneIn(toDart', Replies("release"))
    BY <1>8, <1>9
  <2>2. QED
    BY <1>1, <2>1 DEF SInv, ShutInv
<1>14. QED
  BY <1>9, <1>11, <1>12, <1>13 DEF SInv

\* The app starts: the first call, and nothing else.
LEMMA FirstQueues ==
  /\ \A S : NoneIn(<< >>, S) /\ OnceIn(<< >>, S)
  /\ FirstOnly(<<FirstCall>>, Calls("initialize"))
  /\ NoneIn(<<FirstCall>>, Misnamed) /\ NoneIn(<<FirstCall>>, Awaited("power"))
  /\ NoneIn(<<FirstCall>>, Calls("listen"))
  /\ Before(<<FirstCall>>, Calls("listen"), Awaited("power"))
  /\ OnceIn(<<FirstCall>>, Awaited("power"))
<1>1. FirstCall \notin Misnamed /\ FirstCall \notin Awaited("power") /\ FirstCall \notin Calls("listen")
  BY DEF FirstCall, MakeCall, Misnamed, Awaited, Calls
<1>2. DOMAIN <<FirstCall>> = {1} /\ <<FirstCall>>[1] = FirstCall /\ DOMAIN << >> = {}
  OBVIOUS
<1>3. QED
  BY <1>1, <1>2 DEF NoneIn, OnceIn, FirstOnly, Before

LEMMA InitSInv == Init => SInv
<1> SUFFICES ASSUME Init PROVE SInv
  OBVIOUS
<1>1. /\ looper = <<FirstCall>> /\ toDart = << >> /\ dbQueue = << >> /\ ~alive /\ ~sink
      /\ initPc = "native" /\ checker = "off" /\ engineState = "initializing"
  BY DEF Init
<1>2. QED
  BY <1>1, FirstQueues
     DEF SInv, NamedInv, FirstInv, ClosedInv, SavingInv, PowerInv, ListenInv, SinkInv, ShutInv

LEMMA RestartKeeps ==
  ASSUME Restart
  PROVE  SInv'
<1>1. /\ looper' = <<FirstCall>> /\ toDart' = << >> /\ dbQueue' = << >> /\ ~sink'
      /\ initPc' = "native" /\ checker' = "off" /\ engineState' = "initializing"
  BY DEF Restart
<1>2. QED
  BY <1>1, FirstQueues
     DEF SInv, NamedInv, FirstInv, ClosedInv, SavingInv, PowerInv, ListenInv, SinkInv, ShutInv

LEMMA StepSInv ==
  ASSUME NativeAssumption, EngineAssumption, IInv, SInv, [Next]_vars
  PROVE  SInv'
<1>1. CASE Native
  BY <1>1, NativeKeeps
<1>2. CASE Dart
  BY <1>2, InitNativeKeeps, InitEndKeeps, ListKeeps, ShutdownNativeKeeps, ShutdownEndKeeps DEF Dart
<1>3. CASE Database
  BY <1>3, InitLoadKeeps, InitPowerKeeps, ShutdownBegins, DatabaseKeeps DEF Database
<1>4. CASE User
  BY <1>4, UserKeeps, ListKeeps, ShutdownBegins DEF User
<1>5. CASE Conditions
  BY <1>5, FirstCheckKeeps, ConstraintsKeep DEF Conditions
<1>6. CASE Restart
  BY <1>6, RestartKeeps
<1>7. CASE UNCHANGED vars
  <2>1. /\ looper' = looper /\ toDart' = toDart /\ dbQueue' = dbQueue
        /\ UNCHANGED <<platformVars, engineState, initPc, statusSub, checker>>
    BY <1>7 DEF vars, nativeVars, dartVars, storeVars, watchVars, lifeVars, platformVars,
       sessionVars, pollVars
  <2>2. NoMore(PowerRequests) /\ NoMore(InitWrites)
    BY <2>1, NoMoreSame
  <2>3. QED
    BY <2>1, <2>2, SilentStep
<1>8. QED
  BY <1>1, <1>2, <1>3, <1>4, <1>5, <1>6, <1>7 DEF Next

\* What is awaited is under way; what closes the stream is a call to cancel.
LEMMA UnderWay ==
  ASSUME SInv, engineState = "shutdown", initPc = "ended", ~ShutdownUnderWay
  PROVE  /\ ~alive /\ ~wakeLock /\ ~polling
         /\ sink => \E i \in DOMAIN looper :
                      looper[i].type = "call" /\ looper[i].method = "cancel"
<1>1. /\ \A c \in Call : c.type = "call"
      /\ \A r \in Reply : r.type = "reply"
  BY DEF Call, Reply
<1>2. /\ NoneIn(looper, Awaited("release")) /\ NoneIn(looper, Awaited("shutdown"))
      /\ NoneIn(toDart, Replies("release")) /\ NoneIn(toDart, Replies("shutdown"))
  BY <1>1 DEF ShutdownUnderWay, NoneIn, Awaited, Replies
<1>3. ~alive /\ ~wakeLock /\ ~polling /\ statusSub # "listening"
  BY <1>2 DEF SInv, ShutInv
<1>4. ~sink \/ ClosedBy(looper, Calls("listen"), Calls("cancel"))
  BY <1>3 DEF SInv, SinkInv
<1>5. ClosedBy(looper, Calls("listen"), Calls("cancel")) =>
        \E i \in DOMAIN looper : looper[i].type = "call" /\ looper[i].method = "cancel"
  BY <1>1 DEF ClosedBy, Calls
<1>6. QED
  BY <1>3, <1>4, <1>5

\* A shutdown that has come to its end leaves no session, whatever the user
\* did meanwhile; and once the engine says it is shut down, with nothing of
\* the shutdown or of initialize() under way, the timer and the wake lock are
\* released and the stream of statuses is closed or about to be.
THEOREM ShutdownLetsGo == Spec => []ShutdownReleases
<1>1. Init => IInv /\ SInv
  BY InitIInv, InitSInv, EngineAssumption
<1>2. IInv /\ SInv /\ [Next]_vars => (IInv /\ SInv)'
  BY StepIInv, StepSInv, NativeAssumption, EngineAssumption
<1>3. IInv /\ SInv => ShutdownReleases
  BY UnderWay DEF ShutdownReleases, SInv, ClosedInv
<1>4. QED
  BY <1>1, <1>2, <1>3, PTL DEF Spec

=============================================================================

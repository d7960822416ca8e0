-------------------------- MODULE FeedManagerProofs --------------------------
(***************************************************************************)
(* Theorems of FeedManager, for any feeds, openings of the screen and      *)
(* refreshes under way.                                                    *)
(*                                                                         *)
(* The inductive invariant says which request of the database a refresh    *)
(* waits for: at most one, and only while it is storing.  Without it a     *)
(* write that ends could let a refresh go on that waits for something      *)
(* else, or for nothing, and write a feed back to a list that is not       *)
(* there.                                                                  *)
(***************************************************************************)
EXTENDS FeedManager, FiniteSetTheorems, TLAPS

ListsOK == lists \in [1..Openings -> Seq(Feed)]
ScreenOK == opened \in 0..Openings /\ shown \in 0..opened
TableOK == table \subseteq Feed /\ IsFiniteSet(table)
QueueOK == dbQueue \in Seq(Request)
LoopsOK == loops \in [Loops -> LoopType]
UserOK == wish \in [Urls -> {"none", "kept", "removed"}] /\ ops \in 0..MaxOps

\* A refresh is of one of the lists.
LoopInv == \A l \in Loops : loops[l].pc # "idle" => loops[l].of \in 1..Openings

\* The writes a refresh waits for.
ForLoop(q, l) == {i \in DOMAIN q : q[i].op = "upsert" /\ q[i].loop = l}

WaitInv ==
  \A l \in Loops :
    /\ \A i, j \in ForLoop(dbQueue, l) : i = j
    /\ ForLoop(dbQueue, l) # {} => loops[l].pc = "storing"

FInv ==
  /\ ListsOK /\ ScreenOK /\ TableOK /\ QueueOK /\ LoopsOK
  /\ engine \subseteq Sources /\ UserOK
  /\ LoopInv /\ WaitInv

-----------------------------------------------------------------------------
(* Requests and sequences.                                                 *)

LEMMA RequestFields ==
  ASSUME NEW r \in Request
  PROVE  /\ r.op = "upsert" => r.feed \in Feed /\ r.loop \in Loops \cup {0}
         /\ r.op = "delete" => r.url \in Urls
         /\ r.op = "load" => r.of \in 1..Openings
<1>1. CASE r \in [op : {"upsert"}, feed : Feed, loop : Loops \cup {0}]
  BY <1>1
<1>2. CASE r \in [op : {"delete"}, url : Urls]
  BY <1>2
<1>3. CASE r \in [op : {"load"}, of : 1..Openings]
  BY <1>3
<1>4. QED
  BY <1>1, <1>2, <1>3 DEF Request

LEMMA RequestTypes ==
  /\ \A feed \in Feed : \A l \in Loops \cup {0} : Upsert(feed, l) \in Request
  /\ \A url \in Urls : Delete(url) \in Request
  /\ \A n \in 1..Openings : Load(n) \in Request
<1>1. /\ \A feed \in Feed : \A l \in Loops \cup {0} :
           Upsert(feed, l) \in [op : {"upsert"}, feed : Feed, loop : Loops \cup {0}]
      /\ \A url \in Urls : Delete(url) \in [op : {"delete"}, url : Urls]
      /\ \A n \in 1..Openings : Load(n) \in [op : {"load"}, of : 1..Openings]
  BY DEF Upsert, Delete, Load
<1>2. QED
  BY <1>1 DEF Request

\* RemoveAt leaves a sequence of the same.
LEMMA RemoveAtType ==
  ASSUME NEW X, NEW q \in Seq(X), NEW i \in DOMAIN q
  PROVE  RemoveAt(q, i) \in Seq(X)
<1>1. SubSeq(q, 1, i - 1) \in Seq(X) /\ SubSeq(q, i + 1, Len(q)) \in Seq(X)
  OBVIOUS
<1>2. QED
  BY <1>1 DEF RemoveAt

\* A place written to.
LEMMA WrittenType ==
  ASSUME NEW X, NEW q \in Seq(X), NEW i, NEW x \in X
  PROVE  [q EXCEPT ![i] = x] \in Seq(X)
<1>1. q \in [1..Len(q) -> X] /\ Len(q) \in Nat
  OBVIOUS
<1>2. [q EXCEPT ![i] = x] \in [1..Len(q) -> X]
  BY <1>1
<1>3. QED
  BY <1>1, <1>2

\* An order of a finite set is a sequence of it.
LEMMA OrderType ==
  ASSUME NEW X, NEW S \in SUBSET X, IsFiniteSet(S), NEW q \in SetToSeqs(S)
  PROVE  q \in Seq(X)
<1>1. Cardinality(S) \in Nat
  BY FS_CardinalityType
<1>2. q \in [1..Cardinality(S) -> S]
  BY DEF SetToSeqs
<1>3. QED
  BY <1>1, <1>2

\* What the tail of a queue, and the queue with one more item, hold.
LEMMA TailItems ==
  ASSUME NEW X, NEW q \in Seq(X), q # << >>
  PROVE  /\ Head(q) \in X /\ Tail(q) \in Seq(X) /\ 1 \in DOMAIN q /\ q[1] = Head(q)
         /\ \A i \in DOMAIN Tail(q) : i \in Nat \ {0} /\ i + 1 \in DOMAIN q /\ Tail(q)[i] = q[i + 1]
         /\ \A i \in DOMAIN q : i \in Nat \ {0}
              /\ (i # 1 => i - 1 \in DOMAIN Tail(q) /\ Tail(q)[i - 1] = q[i])
OBVIOUS

LEMMA AppendItems ==
  ASSUME NEW X, NEW q \in Seq(X), NEW x \in X
  PROVE  /\ Append(q, x) \in Seq(X)
         /\ Len(q) + 1 \in DOMAIN Append(q, x) /\ Append(q, x)[Len(q) + 1] = x
         /\ \A i \in DOMAIN q :
              i \in DOMAIN Append(q, x) /\ Append(q, x)[i] = q[i] /\ i \in Nat /\ i <= Len(q)
         /\ \A i \in DOMAIN Append(q, x) : i = Len(q) + 1 \/ i \in DOMAIN q
         /\ Len(q) \in Nat /\ Len(q) + 1 \notin DOMAIN q
OBVIOUS

-----------------------------------------------------------------------------
(* Who waits for what.                                                     *)

\* The queue gets a request no refresh waits for ...
LEMMA WaitsAppend ==
  ASSUME QueueOK, WaitInv, NEW r \in Request, \A l \in Loops : r.op = "upsert" => r.loop # l,
         dbQueue' = Append(dbQueue, r),
         \A l \in Loops : loops[l].pc = "storing" => loops'[l].pc = "storing"
  PROVE  WaitInv'
<1>1. \A l \in Loops : ForLoop(dbQueue', l) \subseteq ForLoop(dbQueue, l)
  BY AppendItems DEF ForLoop, QueueOK
<1>2. QED
  BY <1>1 DEF WaitInv

\* ... or none, and no refresh leaves the place where it waits.
LEMMA WaitsOn ==
  ASSUME WaitInv, dbQueue' = dbQueue,
         \A l \in Loops : loops[l].pc = "storing" => loops'[l].pc = "storing"
  PROVE  WaitInv'
BY DEF WaitInv, ForLoop

\* The database has executed its oldest request.
LEMMA WaitsServed ==
  ASSUME QueueOK, WaitInv, dbQueue # << >>, dbQueue' = Tail(dbQueue)
  PROVE  \A l \in Loops :
           /\ \A i, j \in ForLoop(dbQueue', l) : i = j
           /\ ForLoop(dbQueue', l) # {} => loops[l].pc = "storing"
           /\ 1 \in ForLoop(dbQueue, l) => ForLoop(dbQueue', l) = {}
<1>1. \A l \in Loops : \A i \in ForLoop(dbQueue', l) :
        i \in Nat \ {0} /\ i + 1 \in ForLoop(dbQueue, l)
  BY TailItems DEF ForLoop, QueueOK
<1> SUFFICES ASSUME NEW l \in Loops
             PROVE  /\ \A i, j \in ForLoop(dbQueue', l) : i = j
                    /\ ForLoop(dbQueue', l) # {} => loops[l].pc = "storing"
                    /\ 1 \in ForLoop(dbQueue, l) => ForLoop(dbQueue', l) = {}
  OBVIOUS
<1>2. \A i, j \in ForLoop(dbQueue, l) : i = j
  BY DEF WaitInv
<1>3. ASSUME NEW i \in ForLoop(dbQueue', l), NEW j \in ForLoop(dbQueue', l)
      PROVE  i = j
  <2>1. i + 1 = j + 1 /\ i \in Nat /\ j \in Nat
    BY <1>1, <1>2
  <2>2. QED
    BY <2>1
<1>4. ForLoop(dbQueue', l) # {} => loops[l].pc = "storing"
  BY <1>1 DEF WaitInv
<1>5. ASSUME 1 \in ForLoop(dbQueue, l), NEW i \in ForLoop(dbQueue', l)
      PROVE  FALSE
  <2>1. i + 1 = 1 /\ i \in Nat \ {0}
    BY <1>1, <1>2, <1>5
  <2>2. QED
    BY <2>1
<1>6. QED
  BY <1>3, <1>4, <1>5

LEMMA IdleType ==
  ASSUME FeedAssumption
  PROVE  Idle \in LoopType /\ Idle.pc = "idle" /\ <<Example>> \in Seq(Feed)
<1>1. Example \in Feed
  BY DEF Example, Feed, FeedAssumption
<1>2. 0 \in 0..Openings
  BY DEF FeedAssumption
<1>3. QED
  BY <1>1, <1>2 DEF Idle, LoopType

\* What a refresh turned to a place of a list is, and that the others stay.
LEMMA GoToStep ==
  ASSUME FeedAssumption, LoopsOK, NEW l \in Loops, loops[l].of \in 0..Openings,
         NEW i \in Nat \ {0}, NEW list \in Seq(Feed), GoTo(l, i, list)
  PROVE  /\ LoopsOK'
         /\ \A k \in Loops : k # l => loops'[k] = loops[k]
         /\ loops'[l].pc # "storing"
         /\ loops'[l].pc # "idle" => loops'[l].of = loops[l].of
<1> DEFINE next == IF i <= Len(list)
                   THEN [loops[l] EXCEPT !.pc = "fetching", !.index = i, !.feed = list[i],
                                         !.todo = {}]
                   ELSE Idle
<1>1. loops' = [loops EXCEPT ![l] = next]
  BY DEF GoTo
<1>2. CASE i <= Len(list)
  <2>1. list[i] \in Feed /\ loops[l] \in LoopType
    BY <1>2 DEF LoopsOK
  <2>2. /\ next = [loops[l] EXCEPT !.pc = "fetching", !.index = i, !.feed = list[i], !.todo = {}]
    BY <1>2
  <2>3. /\ next \in LoopType /\ next.pc = "fetching" /\ next.of = loops[l].of
    BY <2>1, <2>2 DEF LoopType
  <2> HIDE DEF next
  <2>4. QED
    BY <1>1, <2>3 DEF LoopsOK
<1>3. CASE ~(i <= Len(list))
  <2>1. next = Idle
    BY <1>3
  <2> HIDE DEF next
  <2>2. next.pc = "idle"
    BY <2>1, IdleType
  <2>3. next \in LoopType
    BY <2>1, IdleType
  <2>4. QED
    BY <1>1, <2>2, <2>3 DEF LoopsOK
<1>4. QED
  BY <1>2, <1>3

\* The refresh writes its feed back and turns to the next one.
LEMMA WriteBackStep ==
  ASSUME FeedAssumption, ListsOK, LoopsOK, LoopInv, NEW l \in Loops, loops[l].pc # "idle",
         WriteBack(l)
  PROVE  /\ ListsOK' /\ LoopsOK' /\ LoopInv'
         /\ \A k \in Loops : k # l => loops'[k] = loops[k]
         /\ loops'[l].pc # "storing"
<1> DEFINE n == loops[l].of
           i == loops[l].index
           list == IF i <= Len(lists[n]) THEN [lists[n] EXCEPT ![i] = loops[l].feed]
                   ELSE lists[n]
<1>1. n \in 1..Openings /\ i \in Nat /\ loops[l].feed \in Feed
  BY DEF LoopInv, LoopsOK, LoopType
<1>2. lists[n] \in Seq(Feed)
  BY <1>1 DEF ListsOK
<1>3. list \in Seq(Feed)
  <2>1. [lists[n] EXCEPT ![i] = loops[l].feed] \in Seq(Feed)
    BY <1>1, <1>2, WrittenType
  <2>2. QED
    BY <1>2, <2>1
<1>4. lists' = [lists EXCEPT ![n] = list] /\ GoTo(l, i + 1, list)
  BY DEF WriteBack
<1> HIDE DEF list
<1>5. ListsOK'
  BY <1>1, <1>3, <1>4 DEF ListsOK
<1>6. i + 1 \in Nat \ {0} /\ n \in 0..Openings
  BY <1>1
<1>7. /\ LoopsOK'
      /\ \A k \in Loops : k # l => loops'[k] = loops[k]
      /\ loops'[l].pc # "storing"
      /\ loops'[l].pc # "idle" => loops'[l].of = loops[l].of
  BY <1>3, <1>4, <1>6, GoToStep
<1>8. LoopInv'
  BY <1>1, <1>7 DEF LoopInv
<1>9. QED
  BY <1>5, <1>7, <1>8

-----------------------------------------------------------------------------
(* The steps.                                                              *)

LEMMA InitFInv == FeedAssumption /\ Init => FInv
<1> SUFFICES ASSUME FeedAssumption, Init PROVE FInv
  OBVIOUS
<1>1. ListsOK /\ ScreenOK
  BY DEF Init, ListsOK, ScreenOK, FeedAssumption
<1>2. TableOK /\ QueueOK
  BY FS_EmptySet DEF Init, TableOK, QueueOK
<1>3. LoopsOK /\ LoopInv
  BY IdleType DEF Init, LoopsOK, LoopInv
<1>4. UserOK
  BY DEF Init, UserOK, FeedAssumption
<1>5. WaitInv
  BY DEF Init, WaitInv, ForLoop
<1>6. QED
  BY <1>1, <1>2, <1>3, <1>4, <1>5 DEF FInv, Init

\* A feed is fetched: its write is asked for and waited for.
LEMMA FetchSucceedsStep ==
  ASSUME FInv, NEW l \in Loops, NEW items \in SUBSET Sources, FetchSucceeds(l, items)
  PROVE  FInv'
<1>1. /\ loops[l].pc = "fetching"
      /\ loops' = [loops EXCEPT ![l].pc = "storing", ![l].todo = items]
      /\ dbQueue' = Append(dbQueue, Upsert(loops[l].feed, l))
      /\ UNCHANGED <<lists, opened, shown, table, engine, wish, ops>>
  BY DEF FetchSucceeds
<1>2. loops \in [Loops -> LoopType] /\ loops[l] \in LoopType /\ loops[l].feed \in Feed
  BY DEF FInv, LoopsOK, LoopType
<1>3. /\ loops'[l] = [loops[l] EXCEPT !.pc = "storing", !.todo = items]
      /\ \A k \in Loops : k # l => loops'[k] = loops[k]
  BY <1>1, <1>2
<1>4. loops'[l] \in LoopType /\ loops'[l].pc = "storing" /\ loops'[l].of = loops[l].of
  BY <1>2, <1>3 DEF LoopType
<1>5. LoopsOK'
  BY <1>1, <1>2, <1>3, <1>4 DEF LoopsOK
<1>6. LoopInv'
  BY <1>1, <1>3, <1>4 DEF FInv, LoopInv
<1> DEFINE r == Upsert(loops[l].feed, l)
<1>7. r \in Request /\ r.op = "upsert" /\ r.loop = l
  BY <1>2, RequestTypes DEF Upsert
<1>8. ForLoop(dbQueue, l) = {}
  BY <1>1 DEF FInv, WaitInv
<1> HIDE DEF r
<1>9. dbQueue \in Seq(Request) /\ dbQueue' = Append(dbQueue, r)
  BY <1>1 DEF FInv, QueueOK, r
<1>10. QueueOK'
  BY <1>7, <1>9, AppendItems DEF QueueOK
<1>11. \A k \in Loops : k # l => ForLoop(dbQueue', k) \subseteq ForLoop(dbQueue, k)
  BY <1>7, <1>9, AppendItems DEF ForLoop
<1>12. ForLoop(dbQueue', l) \subseteq {Len(dbQueue) + 1}
  <2> SUFFICES ASSUME NEW i \in ForLoop(dbQueue', l), i # Len(dbQueue) + 1
               PROVE  FALSE
    OBVIOUS
  <2>1. i \in DOMAIN dbQueue /\ dbQueue'[i] = dbQueue[i]
    BY <1>7, <1>9, AppendItems DEF ForLoop
  <2>2. i \in ForLoop(dbQueue, l)
    BY <2>1 DEF ForLoop
  <2>3. QED
    BY <1>8, <2>2
<1>13. WaitInv'
  <2>1. \A i, j \in ForLoop(dbQueue', l) : i = j
    BY <1>12
  <2>2. ASSUME NEW k \in Loops, k # l
        PROVE  /\ \A i, j \in ForLoop(dbQueue', k) : i = j
               /\ ForLoop(dbQueue', k) # {} => loops'[k].pc = "storing"
    BY <1>3, <1>11, <2>2 DEF FInv, WaitInv
  <2>3. QED
    BY <1>4, <2>1, <2>2 DEF WaitInv
<1>14. QED
  BY <1>1, <1>5, <1>6, <1>10, <1>13 DEF FInv, ListsOK, ScreenOK, TableOK, UserOK

\* The other steps of a refresh, none of which happens while it is storing.
LEMMA LoopKeeps ==
  ASSUME FeedAssumption, FInv, NEW l \in Loops, FetchFails(l) \/ AddTorrent(l) \/ Refresh(l)
  PROVE  FInv'
<1>1. loops[l].pc # "storing" /\ dbQueue' = dbQueue
  BY DEF FetchFails, AddTorrent, Refresh
<1>2. ASSUME ListsOK', LoopsOK', LoopInv',
             \A k \in Loops : k # l => loops'[k] = loops[k],
             engine' \subseteq Sources, UserOK',
             UNCHANGED <<opened, shown, table>>
      PROVE  FInv'
  <2>1. \A k \in Loops : loops[k].pc = "storing" => loops'[k].pc = "storing"
    BY <1>1, <1>2
  <2>2. WaitInv'
    BY <1>1, <2>1, WaitsOn DEF FInv
  <2>3. QED
    BY <1>1, <1>2, <2>2 DEF FInv, ScreenOK, TableOK, QueueOK
<1>3. CASE FetchFails(l)
  <2>1. /\ GoTo(l, loops[l].index + 1, lists[loops[l].of]) /\ loops[l].pc = "fetching"
        /\ UNCHANGED <<lists, opened, shown, table, engine, wish, ops>>
    BY <1>3 DEF FetchFails
  <2>2. loops[l].of \in 1..Openings /\ loops[l].index \in Nat
    BY <2>1 DEF FInv, LoopInv, LoopsOK, LoopType
  <2>3. /\ lists[loops[l].of] \in Seq(Feed) /\ loops[l].of \in 0..Openings
        /\ loops[l].index + 1 \in Nat \ {0}
    BY <2>2 DEF FInv, ListsOK
  <2>4. /\ LoopsOK'
        /\ \A k \in Loops : k # l => loops'[k] = loops[k]
        /\ loops'[l].pc # "idle" => loops'[l].of = loops[l].of
    BY <2>1, <2>3, GoToStep DEF FInv
  <2>5. LoopInv'
    BY <2>2, <2>4 DEF FInv, LoopInv
  <2>6. ListsOK' /\ UserOK' /\ engine' \subseteq Sources
    BY <2>1 DEF FInv, ListsOK, UserOK
  <2>7. QED
    BY <1>2, <2>1, <2>4, <2>5, <2>6
<1>4. CASE AddTorrent(l)
  <2>1. PICK source \in loops[l].todo :
          /\ engine' \in {engine, engine \cup {source}}
          /\ \/ WriteBack(l)
             \/ loops' = [loops EXCEPT ![l].todo = loops[l].todo \ {source}] /\ lists' = lists
    BY <1>4 DEF AddTorrent
  <2>2. /\ UNCHANGED <<opened, shown, table, wish, ops>> /\ loops[l].pc = "adding"
        /\ loops \in [Loops -> LoopType] /\ loops[l] \in LoopType
    BY <1>4 DEF AddTorrent, FInv, LoopsOK
  <2>3. source \in Sources
    BY <2>1, <2>2 DEF LoopType
  <2>4. engine' \subseteq Sources /\ UserOK'
    BY <2>1, <2>2, <2>3 DEF FInv, UserOK
  <2>5. CASE WriteBack(l)
    BY <1>2, <2>2, <2>4, <2>5, WriteBackStep DEF FInv
  <2>6. CASE loops' = [loops EXCEPT ![l].todo = loops[l].todo \ {source}] /\ lists' = lists
    <3>1. /\ loops'[l] = [loops[l] EXCEPT !.todo = loops[l].todo \ {source}]
          /\ \A k \in Loops : k # l => loops'[k] = loops[k]
      BY <2>2, <2>6
    <3>2. loops'[l] \in LoopType /\ loops'[l].pc = loops[l].pc /\ loops'[l].of = loops[l].of
      BY <2>2, <3>1 DEF LoopType
    <3>3. LoopsOK' /\ LoopInv'
      BY <2>2, <2>6, <3>1, <3>2 DEF LoopsOK, LoopInv, FInv
    <3>4. ListsOK'
      BY <2>6 DEF FInv, ListsOK
    <3>5. QED
      BY <1>2, <2>2, <2>4, <3>1, <3>3, <3>4
  <2>7. QED
    BY <2>1, <2>5, <2>6
<1>5. CASE Refresh(l)
  <2>1. /\ shown # 0 /\ ops < MaxOps /\ ops' = ops + 1 /\ lists[shown] # << >>
        /\ loops' = [loops EXCEPT ![l] =
                       [pc |-> "fetching", of |-> shown, index |-> 1,
                        feed |-> lists[shown][1], todo |-> {}]]
        /\ UNCHANGED <<lists, opened, shown, table, engine, wish>>
    BY <1>5 DEF Refresh, Do
  <2>2. shown \in 1..Openings
    BY <2>1 DEF FInv, ScreenOK, FeedAssumption
  <2>3. lists[shown] \in Seq(Feed) /\ lists[shown][1] \in Feed
    BY <2>1, <2>2 DEF FInv, ListsOK
  <2> DEFINE next == [pc |-> "fetching", of |-> shown, index |-> 1,
                      feed |-> lists[shown][1], todo |-> {}]
  <2>4. next \in LoopType /\ next.of \in 1..Openings
    BY <2>2, <2>3 DEF LoopType
  <2>5. loops' = [loops EXCEPT ![l] = next] /\ loops \in [Loops -> LoopType]
    BY <2>1 DEF FInv, LoopsOK
  <2> HIDE DEF next
  <2>6. loops'[l] = next /\ \A k \in Loops : k # l => loops'[k] = loops[k]
    BY <2>5
  <2>7. LoopsOK' /\ LoopInv'
    BY <2>4, <2>5, <2>6 DEF FInv, LoopsOK, LoopInv
  <2>8. ListsOK' /\ UserOK' /\ engine' \subseteq Sources
    BY <2>1 DEF FInv, ListsOK, UserOK, FeedAssumption
  <2>9. QED
    BY <1>2, <2>1, <2>6, <2>7, <2>8
<1>6. QED
  BY <1>3, <1>4, <1>5

\* The database executes its oldest request.
LEMMA DatabaseStep ==
  ASSUME FeedAssumption, FInv, Database
  PROVE  FInv'
<1>1. /\ dbQueue # << >> /\ dbQueue' = Tail(dbQueue)
      /\ UNCHANGED <<opened, shown, engine, wish, ops>>
  BY DEF Database, DbUpsert, DbDelete, DbLoad, Executing
<1>2. dbQueue \in Seq(Request)
  BY DEF FInv, QueueOK
<1>3. /\ Head(dbQueue) \in Request /\ QueueOK'
      /\ 1 \in DOMAIN dbQueue /\ dbQueue[1] = Head(dbQueue)
  BY <1>1, <1>2, TailItems DEF QueueOK
<1>4. ScreenOK' /\ UserOK' /\ engine' \subseteq Sources
  BY <1>1 DEF FInv, ScreenOK, UserOK
<1>5. \A l \in Loops :
        /\ \A i, j \in ForLoop(dbQueue', l) : i = j
        /\ ForLoop(dbQueue', l) # {} => loops[l].pc = "storing"
        /\ 1 \in ForLoop(dbQueue, l) => ForLoop(dbQueue', l) = {}
  BY <1>1, WaitsServed DEF FInv
<1>6. CASE UNCHANGED loops
  <2>1. LoopsOK' /\ LoopInv' /\ WaitInv'
    BY <1>5, <1>6 DEF FInv, LoopsOK, LoopInv, WaitInv
  <2>2. TableOK' /\ ListsOK'
    <3>1. CASE DbUpsert
      <4>1. /\ table' = {f \in table : f.url # Head(dbQueue).feed.url} \cup {Head(dbQueue).feed}
            /\ Head(dbQueue).feed \in Feed
        BY <1>3, <3>1, RequestFields DEF DbUpsert, Executing
      <4>2. IsFiniteSet({f \in table : f.url # Head(dbQueue).feed.url})
        BY FS_Subset DEF FInv, TableOK
      <4>3. TableOK'
        BY <4>1, <4>2, FS_AddElement DEF FInv, TableOK
      <4>4. ListsOK'
        <5> DEFINE l == Head(dbQueue).loop
        <5>1. CASE lists' = lists
          BY <5>1 DEF FInv, ListsOK
        <5>2. CASE WriteBack(l) /\ l # 0
          <6>1. l \in Loops
            BY <1>3, <3>1, <5>2, RequestFields DEF DbUpsert, Executing
          <6>2. 1 \in ForLoop(dbQueue, l)
            BY <1>3, <3>1 DEF ForLoop, DbUpsert, Executing
          <6>3. loops[l].pc # "idle"
            BY <6>1, <6>2 DEF FInv, WaitInv
          <6> HIDE DEF l
          <6>4. QED
            BY <5>2, <6>1, <6>3, WriteBackStep DEF FInv
        <5>3. QED
          BY <3>1, <5>1, <5>2 DEF DbUpsert
      <4>5. QED
        BY <4>3, <4>4
    <3>2. CASE DbDelete
      <4>1. table' \subseteq table /\ lists' = lists
        BY <3>2 DEF DbDelete
      <4>2. QED
        BY <4>1, FS_Subset DEF FInv, TableOK, ListsOK
    <3>3. CASE DbLoad
      <4> DEFINE n == Head(dbQueue).of
      <4>1. table' = table /\ n \in 1..Openings
        BY <1>3, <3>3, RequestFields DEF DbLoad, Executing
      <4>2. TableOK'
        BY <4>1 DEF FInv, TableOK
      <4>3. CASE lists' = lists
        BY <4>2, <4>3 DEF FInv, ListsOK
      <4>4. ASSUME NEW rows \in IF table = {} THEN {<<Example>>} ELSE SetToSeqs(table),
                   lists' = [lists EXCEPT ![n] = rows]
            PROVE  ListsOK'
        <5>1. rows \in Seq(Feed)
          <6>1. CASE table = {}
            BY <4>4, <6>1, IdleType
          <6>2. CASE table # {}
            <7>1. rows \in SetToSeqs(table)
              BY <4>4, <6>2
            <7>2. QED
              BY <7>1, OrderType DEF FInv, TableOK
          <6>3. QED
            BY <6>1, <6>2
        <5> HIDE DEF n
        <5>2. QED
          BY <4>4, <5>1 DEF FInv, ListsOK
      <4>5. QED
        BY <3>3, <4>2, <4>3, <4>4 DEF DbLoad
    <3>4. QED
      BY <3>1, <3>2, <3>3 DEF Database
  <2>3. QED
    BY <1>3, <1>4, <2>1, <2>2 DEF FInv
<1>7. CASE ~UNCHANGED loops
  <2> DEFINE feed == Head(dbQueue).feed
             l == Head(dbQueue).loop
  <2>1. /\ Head(dbQueue).op = "upsert"
        /\ table' = {f \in table : f.url # feed.url} \cup {feed}
        /\ l # 0
        /\ \/ loops' = [loops EXCEPT ![l].pc = "adding"] /\ lists' = lists
           \/ WriteBack(l)
    BY <1>7 DEF Database, DbUpsert, DbDelete, DbLoad, Executing
  <2>2. feed \in Feed /\ l \in Loops
    BY <1>3, <2>1, RequestFields
  <2>3. 1 \in ForLoop(dbQueue, l)
    BY <1>3, <2>1 DEF ForLoop
  <2>4. loops[l].pc = "storing" /\ ForLoop(dbQueue', l) = {}
    BY <1>5, <2>2, <2>3 DEF FInv, WaitInv
  <2>5. TableOK'
    <3>1. IsFiniteSet({f \in table : f.url # feed.url})
      BY FS_Subset DEF FInv, TableOK
    <3> HIDE DEF feed
    <3>2. QED
      BY <2>1, <2>2, <3>1, FS_AddElement DEF FInv, TableOK
  <2> HIDE DEF feed, l
  <2>6. /\ ListsOK' /\ LoopsOK' /\ LoopInv'
        /\ \A k \in Loops : k # l => loops'[k] = loops[k]
    <3>1. CASE loops' = [loops EXCEPT ![l].pc = "adding"] /\ lists' = lists
      <4>1. loops \in [Loops -> LoopType] /\ loops[l] \in LoopType
        BY <2>2 DEF FInv, LoopsOK
      <4>2. /\ loops'[l] = [loops[l] EXCEPT !.pc = "adding"]
            /\ \A k \in Loops : k # l => loops'[k] = loops[k]
        BY <2>2, <3>1, <4>1
      <4>3. loops'[l] \in LoopType /\ loops'[l].of = loops[l].of
        BY <4>1, <4>2 DEF LoopType
      <4>4. LoopsOK' /\ LoopInv'
        BY <2>4, <3>1, <4>1, <4>2, <4>3 DEF FInv, LoopsOK, LoopInv
      <4>5. ListsOK'
        BY <3>1 DEF FInv, ListsOK
      <4>6. QED
        BY <4>2, <4>4, <4>5
    <3>2. CASE WriteBack(l)
      BY <2>2, <2>4, <3>2, WriteBackStep DEF FInv
    <3>3. QED
      BY <2>1, <3>1, <3>2
  <2>7. WaitInv'
    BY <1>5, <2>4, <2>6 DEF WaitInv
  <2>8. QED
    BY <1>3, <1>4, <2>5, <2>6, <2>7 DEF FInv
<1>8. QED
  BY <1>6, <1>7

\* The user.
LEMMA UserStep ==
  ASSUME FeedAssumption, FInv,
         \/ Open \/ Leave
         \/ \E feed \in [url : Urls \cup OtherText, auto : BOOLEAN] : AddFeed(feed)
         \/ \E i \in DOMAIN lists[shown] : shown \in 1..Openings /\ RemoveFeed(i)
  PROVE  FInv'
<1>1. UNCHANGED <<table, loops, engine>>
  BY DEF Open, Leave, AddFeed, RemoveFeed
<1>2. dbQueue \in Seq(Request) /\ shown \in 0..opened /\ opened \in 0..Openings /\ Openings \in Nat
  BY DEF FInv, QueueOK, ScreenOK, FeedAssumption
<1>3. ASSUME NEW r \in Request, r.op = "upsert" => r.loop = 0, dbQueue' = Append(dbQueue, r),
             ListsOK', ScreenOK', UserOK'
      PROVE  FInv'
  <2>1. \A l \in Loops : l # 0
    BY DEF FeedAssumption
  <2>2. WaitInv'
    BY <1>1, <1>3, <2>1, WaitsAppend DEF FInv
  <2>3. QueueOK'
    BY <1>2, <1>3, AppendItems DEF QueueOK
  <2>4. QED
    BY <1>1, <1>3, <2>2, <2>3 DEF FInv, TableOK, LoopsOK, LoopInv
<1>4. CASE Open
  <2> DEFINE r == Load(opened + 1)
  <2>1. /\ shown' = opened + 1 /\ opened' = opened + 1 /\ opened < Openings
        /\ dbQueue' = Append(dbQueue, r) /\ UNCHANGED <<lists, wish, ops>>
    BY <1>4 DEF Open
  <2>2. r \in Request /\ r.op = "load"
    BY <1>2, <2>1, RequestTypes DEF Load
  <2> HIDE DEF r
  <2>3. ListsOK' /\ ScreenOK' /\ UserOK'
    BY <1>2, <2>1 DEF FInv, ListsOK, ScreenOK, UserOK
  <2>4. QED
    BY <1>3, <2>1, <2>2, <2>3
<1>5. CASE Leave
  <2>1. ScreenOK'
    BY <1>2, <1>5 DEF Leave, ScreenOK
  <2>2. WaitInv'
    BY <1>1, <1>5, WaitsOn DEF FInv, Leave
  <2>3. QED
    BY <1>1, <1>5, <2>1, <2>2
       DEF Leave, FInv, ListsOK, TableOK, QueueOK, LoopsOK, UserOK, LoopInv
<1>6. CASE \E feed \in [url : Urls \cup OtherText, auto : BOOLEAN] : AddFeed(feed)
  <2>1. PICK feed \in [url : Urls \cup OtherText, auto : BOOLEAN] : AddFeed(feed)
    BY <1>6
  <2> DEFINE r == Upsert(feed, 0)
  <2>2. /\ shown # 0 /\ ops < MaxOps /\ ops' = ops + 1 /\ feed.url \in Urls
        /\ lists' = [lists EXCEPT ![shown] = Append(lists[shown], feed)]
        /\ dbQueue' = Append(dbQueue, r)
        /\ wish' = [wish EXCEPT ![feed.url] = "kept"]
        /\ UNCHANGED <<opened, shown>>
    BY <2>1 DEF AddFeed, Do
  <2>3. feed \in Feed
    BY <2>2 DEF Feed
  <2>4. r \in Request /\ r.loop = 0
    BY <2>3, RequestTypes DEF Upsert
  <2> HIDE DEF r
  <2>5. shown \in 1..Openings /\ lists[shown] \in Seq(Feed)
    BY <1>2, <2>2 DEF FInv, ListsOK
  <2>6. ListsOK'
    <3>1. Append(lists[shown], feed) \in Seq(Feed)
      BY <2>3, <2>5
    <3>2. QED
      BY <2>2, <2>5, <3>1 DEF FInv, ListsOK
  <2>7. ScreenOK' /\ UserOK'
    BY <2>2 DEF FInv, ScreenOK, UserOK, FeedAssumption
  <2>8. QED
    BY <1>3, <2>2, <2>4, <2>6, <2>7
<1>7. CASE \E i \in DOMAIN lists[shown] : shown \in 1..Openings /\ RemoveFeed(i)
  <2>1. PICK i \in DOMAIN lists[shown] : shown \in 1..Openings /\ RemoveFeed(i)
    BY <1>7
  <2> DEFINE url == lists[shown][i].url
             r == Delete(url)
  <2>2. /\ ops < MaxOps /\ ops' = ops + 1
        /\ lists' = [lists EXCEPT ![shown] = RemoveAt(lists[shown], i)]
        /\ dbQueue' = Append(dbQueue, r)
        /\ wish' = [wish EXCEPT ![url] = "removed"]
        /\ UNCHANGED <<opened, shown>>
    BY <2>1 DEF RemoveFeed, Do
  <2>3. lists[shown] \in Seq(Feed) /\ url \in Urls
    <3>1. lists[shown] \in Seq(Feed)
      BY <2>1 DEF FInv, ListsOK
    <3>2. lists[shown][i] \in Feed
      BY <2>1, <3>1
    <3>3. QED
      BY <3>1, <3>2 DEF Feed
  <2>4. r \in Request /\ r.op = "delete"
    BY <2>3, RequestTypes DEF Delete
  <2> HIDE DEF r, url
  <2>5. ListsOK'
    <3>1. RemoveAt(lists[shown], i) \in Seq(Feed)
      BY <2>1, <2>3, RemoveAtType
    <3>2. QED
      BY <2>1, <2>2, <3>1 DEF FInv, ListsOK
  <2>6. ScreenOK' /\ UserOK'
    <3>1. wish' \in [Urls -> {"none", "kept", "removed"}]
      BY <2>2 DEF FInv, UserOK
    <3>2. ops' \in 0..MaxOps
      BY <2>2 DEF FInv, UserOK, FeedAssumption
    <3>3. QED
      BY <2>2, <3>1, <3>2 DEF FInv, ScreenOK, UserOK
  <2>7. QED
    BY <1>3, <2>2, <2>4, <2>5, <2>6
<1>8. QED
  BY <1>4, <1>5, <1>6, <1>7

LEMMA StepFInv ==
  ASSUME FeedAssumption, FInv, [Next]_vars
  PROVE  FInv'
<1>1. CASE \E l \in Loops : LoopStep(l) \/ Refresh(l)
  BY <1>1, FetchSucceedsStep, LoopKeeps DEF LoopStep
<1>2. CASE Database
  BY <1>2, DatabaseStep
<1>3. CASE \/ Open \/ Leave
           \/ \E feed \in [url : Urls \cup OtherText, auto : BOOLEAN] : AddFeed(feed)
           \/ \E n \in 1..Openings : \E i \in DOMAIN lists[n] : n = shown /\ RemoveFeed(i)
  BY <1>3, UserStep
<1>4. CASE UNCHANGED vars
  BY <1>4 DEF vars, FInv, ListsOK, ScreenOK, TableOK, QueueOK, LoopsOK, UserOK, LoopInv, WaitInv,
              ForLoop
<1>5. QED
  BY <1>1, <1>2, <1>3, <1>4 DEF Next

\* The invariant of the feeds: every refresh is of a list that exists, and
\* waits for at most one write of its own, while it is storing.
THEOREM Invariance == Spec => []FInv
<1>1. Init => FInv
  BY InitFInv, FeedAssumption
<1>2. FInv /\ [Next]_vars => FInv'
  BY StepFInv, FeedAssumption
<1>3. QED
  BY <1>1, <1>2, PTL DEF Spec

\* Lists, table, queue and refreshes are what they should be.
THEOREM TypeCorrect == Spec => []TypeOK
<1>1. FInv => TypeOK
  BY DEF FInv, TypeOK, ListsOK, ScreenOK, TableOK, QueueOK, LoopsOK, UserOK
<1>2. QED
  BY <1>1, Invariance, PTL

-----------------------------------------------------------------------------
(* A feed the user wants is kept.                                          *)

Writes(r, url) ==
  \/ r.op = "upsert" /\ r.feed.url = url
  \/ r.op = "delete" /\ r.url = url

EndsUpStored(url) ==
  IF WritesOf(url) = {} THEN Stored(url)
  ELSE \E i \in WritesOf(url) :
         /\ \A j \in WritesOf(url) : j <= i
         /\ dbQueue[i].op = "upsert"

LEMMA WritesOfAre == \A url : WritesOf(url) = {i \in DOMAIN dbQueue : Writes(dbQueue[i], url)}
BY DEF WritesOf, Writes

\* A new request that writes the feed is the last to do so ...
LEMMA EndsWritten ==
  ASSUME QueueOK, NEW r \in Request, dbQueue' = Append(dbQueue, r),
         NEW url, Writes(r, url), r.op = "upsert"
  PROVE  EndsUpStored(url)'
<1>1. dbQueue \in Seq(Request)
  BY DEF QueueOK
<1>2. /\ Len(dbQueue) + 1 \in DOMAIN dbQueue' /\ dbQueue'[Len(dbQueue) + 1] = r
      /\ \A i \in DOMAIN dbQueue' : i = Len(dbQueue) + 1 \/ (i \in DOMAIN dbQueue /\ i <= Len(dbQueue))
      /\ Len(dbQueue) \in Nat /\ DOMAIN dbQueue \subseteq Nat
  BY <1>1, AppendItems
<1>3. WritesOf(url)' = {i \in DOMAIN dbQueue' : Writes(dbQueue'[i], url)}
  BY WritesOfAre DEF WritesOf, Writes
<1>4. Len(dbQueue) + 1 \in WritesOf(url)'
  BY <1>2, <1>3
<1>5. \A j \in WritesOf(url)' : j <= Len(dbQueue) + 1
  BY <1>2, <1>3
<1>6. QED
  BY <1>2, <1>4, <1>5 DEF EndsUpStored

\* ... one that does not changes nothing ...
LEMMA EndsUnwritten ==
  ASSUME QueueOK, NEW r \in Request, dbQueue' = Append(dbQueue, r), table' = table,
         NEW url, ~Writes(r, url), EndsUpStored(url)
  PROVE  EndsUpStored(url)'
<1>1. dbQueue \in Seq(Request)
  BY DEF QueueOK
<1>2. /\ Len(dbQueue) + 1 \in DOMAIN dbQueue' /\ dbQueue'[Len(dbQueue) + 1] = r
      /\ \A i \in DOMAIN dbQueue : i \in DOMAIN dbQueue' /\ dbQueue'[i] = dbQueue[i]
      /\ \A i \in DOMAIN dbQueue' : i = Len(dbQueue) + 1 \/ i \in DOMAIN dbQueue
  BY <1>1, AppendItems
<1>3. /\ WritesOf(url) = {i \in DOMAIN dbQueue : Writes(dbQueue[i], url)}
      /\ WritesOf(url)' = {i \in DOMAIN dbQueue' : Writes(dbQueue'[i], url)}
  BY WritesOfAre DEF WritesOf, Writes
<1>4. WritesOf(url)' = WritesOf(url)
  BY <1>2, <1>3
<1>5. \A i \in WritesOf(url) : dbQueue'[i] = dbQueue[i]
  BY <1>2, <1>3
<1>6. QED
  BY <1>4, <1>5 DEF EndsUpStored, Stored

\* ... and the oldest request is executed in its turn.
LEMMA EndsServed ==
  ASSUME QueueOK, dbQueue # << >>, dbQueue' = Tail(dbQueue), NEW url, EndsUpStored(url),
         ~Writes(Head(dbQueue), url) /\ Stored(url) => Stored(url)',
         Writes(Head(dbQueue), url) /\ Head(dbQueue).op = "upsert" => Stored(url)'
  PROVE  EndsUpStored(url)'
<1>1. dbQueue \in Seq(Request)
  BY DEF QueueOK
<1>2. /\ 1 \in DOMAIN dbQueue /\ dbQueue[1] = Head(dbQueue)
      /\ \A i \in DOMAIN dbQueue' :
           i \in Nat \ {0} /\ i + 1 \in DOMAIN dbQueue /\ dbQueue'[i] = dbQueue[i + 1]
      /\ \A i \in DOMAIN dbQueue :
           i \in Nat \ {0} /\ (i # 1 => i - 1 \in DOMAIN dbQueue' /\ dbQueue'[i - 1] = dbQueue[i])
  BY <1>1, TailItems
<1>3. /\ WritesOf(url) = {i \in DOMAIN dbQueue : Writes(dbQueue[i], url)}
      /\ WritesOf(url)' = {i \in DOMAIN dbQueue' : Writes(dbQueue'[i], url)}
  BY WritesOfAre DEF WritesOf, Writes
<1>4. \A i \in WritesOf(url)' : i \in Nat \ {0} /\ i + 1 \in WritesOf(url)
  BY <1>2, <1>3
<1>5. CASE WritesOf(url) = {}
  <2>1. WritesOf(url)' = {}
    BY <1>4, <1>5
  <2>2. ~Writes(Head(dbQueue), url)
    BY <1>2, <1>3, <1>5
  <2>3. QED
    BY <1>5, <2>1, <2>2 DEF EndsUpStored
<1>6. CASE WritesOf(url) # {}
  <2>1. PICK m \in WritesOf(url) :
          (\A j \in WritesOf(url) : j <= m) /\ dbQueue[m].op = "upsert"
    BY <1>6 DEF EndsUpStored
  <2>2. CASE m = 1
    <3>1. ASSUME NEW i \in WritesOf(url)' PROVE FALSE
      <4>1. i + 1 <= 1 /\ i \in Nat \ {0}
        BY <1>4, <2>1, <2>2
      <4>2. QED
        BY <4>1
    <3>2. Stored(url)'
      BY <1>2, <1>3, <2>1, <2>2
    <3>3. QED
      BY <3>1, <3>2 DEF EndsUpStored
  <2>3. CASE m # 1
    <3>1. m - 1 \in WritesOf(url)' /\ dbQueue'[m - 1].op = "upsert"
      BY <1>2, <1>3, <2>1, <2>3
    <3>2. ASSUME NEW j \in WritesOf(url)' PROVE j <= m - 1
      <4>1. j + 1 <= m /\ j \in Nat /\ m \in Nat
        BY <1>2, <1>3, <1>4, <2>1
      <4>2. QED
        BY <4>1
    <3>3. QED
      BY <3>1, <3>2 DEF EndsUpStored
  <2>4. QED
    BY <2>2, <2>3
<1>7. QED
  BY <1>5, <1>6

LEMMA KeptStep ==
  ASSUME FeedAssumption, FInv, Next, NEW url \in Urls,
         wish[url] = "kept" => EndsUpStored(url), wish'[url] = "kept"
  PROVE  EndsUpStored(url)'
<1>0. QueueOK /\ dbQueue \in Seq(Request) /\ wish \in [Urls -> {"none", "kept", "removed"}]
  BY DEF FInv, QueueOK, UserOK
<1>1. ASSUME UNCHANGED <<dbQueue, table, wish>> PROVE EndsUpStored(url)'
  BY <1>1 DEF EndsUpStored, WritesOf, Stored
<1>2. ASSUME NEW r \in Request, dbQueue' = Append(dbQueue, r), table' = table,
             Writes(r, url) \/ wish' = wish \/ wish[url] = "kept",
             Writes(r, url) => r.op = "upsert"
      PROVE  EndsUpStored(url)'
  BY <1>0, <1>2, EndsWritten, EndsUnwritten
<1>3. ASSUME NEW l \in Loops, LoopStep(l) \/ Refresh(l)
      PROVE  EndsUpStored(url)'
  <2>1. CASE \E items \in SUBSET Sources : FetchSucceeds(l, items)
    <3> DEFINE r == Upsert(loops[l].feed, l)
    <3>1. dbQueue' = Append(dbQueue, r) /\ table' = table /\ wish' = wish
      BY <2>1 DEF FetchSucceeds
    <3>2. loops[l].feed \in Feed
      BY DEF FInv, LoopsOK, LoopType
    <3>3. r \in Request /\ r.op = "upsert"
      BY <3>2, RequestTypes DEF Upsert
    <3> HIDE DEF r
    <3>4. QED
      BY <1>2, <3>1, <3>3
  <2>2. CASE FetchFails(l) \/ AddTorrent(l) \/ Refresh(l)
    BY <1>1, <2>2 DEF FetchFails, AddTorrent, Refresh
  <2>3. QED
    BY <1>3, <2>1, <2>2 DEF LoopStep
<1>4. CASE Database
  <2>1. dbQueue # << >> /\ dbQueue' = Tail(dbQueue) /\ wish' = wish
    BY <1>4 DEF Database, DbUpsert, DbDelete, DbLoad, Executing
  <2>2. /\ ~Writes(Head(dbQueue), url) /\ Stored(url) => Stored(url)'
        /\ Writes(Head(dbQueue), url) /\ Head(dbQueue).op = "upsert" => Stored(url)'
    <3>1. CASE DbUpsert
      <4>1. /\ Head(dbQueue).op = "upsert"
            /\ table' = {f \in table : f.url # Head(dbQueue).feed.url} \cup {Head(dbQueue).feed}
        BY <3>1 DEF DbUpsert, Executing
      <4>2. QED
        BY <4>1 DEF Writes, Stored
    <3>2. CASE DbDelete
      <4>1. /\ Head(dbQueue).op = "delete"
            /\ table' = {f \in table : f.url # Head(dbQueue).url}
        BY <3>2 DEF DbDelete, Executing
      <4>2. QED
        BY <4>1 DEF Writes, Stored
    <3>3. CASE DbLoad
      BY <3>3 DEF DbLoad, Executing, Writes, Stored
    <3>4. QED
      BY <1>4, <3>1, <3>2, <3>3 DEF Database
  <2>3. QED
    BY <1>0, <2>1, <2>2, EndsServed
<1>5. CASE Leave
  BY <1>1, <1>5 DEF Leave
<1>6. CASE Open
  <2> DEFINE r == Load(opened + 1)
  <2>1. dbQueue' = Append(dbQueue, r) /\ table' = table /\ wish' = wish /\ opened < Openings
    BY <1>6 DEF Open
  <2>2. r \in Request /\ ~Writes(r, url)
    BY <2>1, RequestTypes DEF FInv, ScreenOK, FeedAssumption, Load, Writes
  <2> HIDE DEF r
  <2>3. QED
    BY <1>2, <2>1, <2>2
<1>7. ASSUME NEW feed \in [url : Urls \cup OtherText, auto : BOOLEAN], AddFeed(feed)
      PROVE  EndsUpStored(url)'
  <2> DEFINE r == Upsert(feed, 0)
  <2>1. /\ dbQueue' = Append(dbQueue, r) /\ table' = table
        /\ wish' = [wish EXCEPT ![feed.url] = "kept"] /\ feed.url \in Urls
    BY <1>7 DEF AddFeed
  <2>2. feed \in Feed
    BY <2>1 DEF Feed
  <2>3. r \in Request /\ r.op = "upsert" /\ (Writes(r, url) <=> feed.url = url)
    BY <2>2, RequestTypes DEF Upsert, Writes
  <2>4. feed.url # url => wish'[url] = wish[url]
    BY <1>0, <2>1
  <2> HIDE DEF r
  <2>5. QED
    BY <1>2, <2>1, <2>3, <2>4
<1>8. ASSUME NEW i \in DOMAIN lists[shown], shown \in 1..Openings, RemoveFeed(i)
      PROVE  EndsUpStored(url)'
  <2> DEFINE gone == lists[shown][i].url
             r == Delete(gone)
  <2>1. /\ dbQueue' = Append(dbQueue, r) /\ table' = table
        /\ wish' = [wish EXCEPT ![gone] = "removed"]
    BY <1>8 DEF RemoveFeed
  <2>2. gone \in Urls
    <3>1. lists[shown] \in Seq(Feed)
      BY <1>8 DEF FInv, ListsOK
    <3>2. lists[shown][i] \in Feed
      BY <1>8, <3>1
    <3>3. QED
      BY <3>2 DEF Feed
  <2> HIDE DEF gone
  <2>3. r \in Request /\ (Writes(r, url) <=> gone = url)
    BY <2>2, RequestTypes DEF Delete, Writes
  <2>4. gone # url /\ wish[url] = "kept"
    BY <1>0, <2>1, <2>2
  <2> HIDE DEF r
  <2>5. QED
    BY <1>2, <2>1, <2>3, <2>4
<1>9. QED
  BY <1>3, <1>4, <1>5, <1>6, <1>7, <1>8 DEF Next

\* A feed the user has added and not removed since ends up in the table,
\* although refreshes of this and of earlier openings of the screen go on
\* writing the feeds of lists that are out of date: whatever they write stores a
\* feed, and only a removal by the user deletes one.
THEOREM KeptFeedStays == Spec => []KeptFeedIsStored
<1> DEFINE Kept == \A url \in Urls : wish[url] = "kept" => EndsUpStored(url)
<1>1. Init => Kept
  BY DEF Init
<1>2. FInv /\ Kept /\ [Next]_vars => Kept'
  <2>1. ASSUME FInv, Kept, Next PROVE Kept'
    BY <2>1, KeptStep, FeedAssumption
  <2>2. ASSUME Kept, UNCHANGED vars PROVE Kept'
    BY <2>2 DEF vars, EndsUpStored, WritesOf, Stored
  <2>3. QED
    BY <2>1, <2>2
<1>3. Kept => KeptFeedIsStored
  BY DEF KeptFeedIsStored, EndsUpStored
<1> HIDE DEF Kept
<1>4. QED
  BY <1>1, <1>2, <1>3, Invariance, PTL DEF Spec

=============================================================================

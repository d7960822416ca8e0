---------------------------- MODULE FeedManager ----------------------------
(***************************************************************************)
(* The RSS feeds of Getzy: feed_manager_screen.dart over FeedRepository    *)
(* and the feeds table.                                                    *)
(*                                                                         *)
(* Each opening of the screen has a list of its own, loaded from the       *)
(* table.  A refresh walks it by index, and for each feed awaits the       *)
(* fetch, the write to the table and the torrents it adds; the user adds   *)
(* and removes feeds meanwhile, starts another refresh, or leaves the      *)
(* screen, which stops nothing.                                            *)
(***************************************************************************)
EXTENDS Integers, Sequences, SequencesExt

CONSTANTS
  Urls,         \* what begins with "http"
  OtherText,    \* what else the user can type as a URL
  Placeholder,  \* the URL shown when the table is empty
  Sources,      \* the torrents that can be items of a feed
  Openings,     \* bound: the openings of the screen are 1..Openings
  Loops,        \* bound: the refreshes under way
  MaxOps        \* bound: adds, removals and refreshes by the user

ASSUME FeedAssumption ==
  /\ Placeholder \in Urls
  /\ OtherText \cap Urls = {}
  /\ Openings \in Nat /\ MaxOps \in Nat
  /\ 0 \notin Loops

VARIABLES
  lists,    \* _feeds of each opening
  opened,   \* the openings so far
  shown,    \* the one on the screen, or 0
  table,    \* the feeds table, whose primary key is the url
  dbQueue,  \* requests to the database, executed in this order
  loops,    \* the refreshes
  engine,   \* the torrents the engine was given and took
  wish,     \* history: what the user last did with a url
  ops       \* counts the user's operations

vars == <<lists, opened, shown, table, dbQueue, loops, engine, wish, ops>>

Feed == [url : Urls, auto : BOOLEAN]
Example == [url |-> Placeholder, auto |-> FALSE]

Idle == [pc |-> "idle", of |-> 0, index |-> 0, feed |-> Example, todo |-> {}]
LoopType ==
  [pc : {"idle", "fetching", "storing", "adding"}, of : 0..Openings,
   index : Nat, feed : Feed, todo : SUBSET Sources]

Upsert(feed, l) == [op |-> "upsert", feed |-> feed, loop |-> l]
Delete(url)     == [op |-> "delete", url |-> url]
Load(n)         == [op |-> "load", of |-> n]

Request ==
  [op : {"upsert"}, feed : Feed, loop : Loops \cup {0}]
    \cup [op : {"delete"}, url : Urls]
    \cup [op : {"load"}, of : 1..Openings]

TypeOK ==
  /\ lists \in [1..Openings -> Seq(Feed)]
  /\ opened \in 0..Openings
  /\ shown \in 0..opened
  /\ table \subseteq Feed
  /\ dbQueue \in Seq(Request)
  /\ loops \in [Loops -> LoopType]
  /\ engine \subseteq Sources
  /\ wish \in [Urls -> {"none", "kept", "removed"}]
  /\ ops \in 0..MaxOps

-----------------------------------------------------------------------------
(* The refresh of all feeds.                                               *)

\* Turns to the feed at an index of the list, or ends.
GoTo(l, i, list) ==
  loops' = [loops EXCEPT ![l] =
              IF i <= Len(list)
              THEN [@ EXCEPT !.pc = "fetching", !.index = i, !.feed = list[i],
                             !.todo = {}]
              ELSE Idle]

\* Mutant: a list that has become shorter is not met with an error.
WriteBackInRange(l) ==
  LET n == loops[l].of
      i == loops[l].index
      list == [lists[n] EXCEPT ![i] = loops[l].feed]
  IN /\ i <= Len(lists[n])
     /\ lists' = [lists EXCEPT ![n] = list]
     /\ GoTo(l, i + 1, list)

\* The feed is written back at the index it was read from; an index past the
\* end throws a RangeError, which counts as a failed feed.
WriteBack(l) ==
  LET n == loops[l].of
      i == loops[l].index
      list == IF i <= Len(lists[n]) THEN [lists[n] EXCEPT ![i] = loops[l].feed]
              ELSE lists[n]
  IN /\ lists' = [lists EXCEPT ![n] = list]
     /\ GoTo(l, i + 1, list)

FetchSucceeds(l, items) ==
  /\ loops[l].pc = "fetching"
  /\ loops' = [loops EXCEPT ![l].pc = "storing", ![l].todo = items]
  /\ dbQueue' = Append(dbQueue, Upsert(loops[l].feed, l))
  /\ UNCHANGED <<lists, opened, shown, table, engine, wish, ops>>

\* A status other than 200, no answer in 12 seconds, or no feed in it.
FetchFails(l) ==
  /\ loops[l].pc = "fetching"
  /\ GoTo(l, loops[l].index + 1, lists[loops[l].of])
  /\ UNCHANGED <<lists, opened, shown, table, dbQueue, engine, wish, ops>>

\* The engine is given the next torrent; that it has it already, or takes it
\* for invalid, is ignored.
AddTorrent(l) ==
  /\ loops[l].pc = "adding"
  /\ \E source \in loops[l].todo :
       /\ engine' \in {engine, engine \cup {source}}
       /\ LET left == loops[l].todo \ {source} IN
          IF left = {} THEN WriteBack(l)
          ELSE /\ loops' = [loops EXCEPT ![l].todo = left]
               /\ UNCHANGED lists
  /\ UNCHANGED <<opened, shown, table, dbQueue, wish, ops>>

-----------------------------------------------------------------------------
(* The database.                                                           *)

Executing(op) ==
  /\ dbQueue # << >>
  /\ Head(dbQueue).op = op
  /\ dbQueue' = Tail(dbQueue)

\* An upsert of a refresh lets it go on: to its torrents, for a feed that
\* downloads automatically, and then to the next feed.
DbUpsert ==
  /\ Executing("upsert")
  /\ LET feed == Head(dbQueue).feed
         l    == Head(dbQueue).loop
     IN /\ table' = {f \in table : f.url # feed.url} \cup {feed}
        /\ IF l = 0 THEN UNCHANGED <<lists, loops>>
           ELSE IF feed.auto /\ loops[l].todo # {}
           THEN /\ loops' = [loops EXCEPT ![l].pc = "adding"]
                /\ UNCHANGED lists
           ELSE WriteBack(l)
  /\ UNCHANGED <<opened, shown, engine, wish, ops>>

DbDelete ==
  /\ Executing("delete")
  /\ table' = {f \in table : f.url # Head(dbQueue).url}
  /\ UNCHANGED <<lists, opened, shown, loops, engine, wish, ops>>

\* The rows, in the order of their names, replace the list; with no row, the
\* example does.  For a screen that is gone setState throws: before it sets the
\* list in a debug build, after it in a release build.
DbLoad ==
  /\ Executing("load")
  /\ LET n == Head(dbQueue).of IN
     \/ \E rows \in IF table = {} THEN {<<Example>>} ELSE SetToSeqs(table) :
          lists' = [lists EXCEPT ![n] = rows]
     \/ shown # n /\ UNCHANGED lists
  /\ UNCHANGED <<opened, shown, table, loops, engine, wish, ops>>

-----------------------------------------------------------------------------
(* The user.                                                               *)

Open ==
  /\ shown = 0 /\ opened < Openings
  /\ opened' = opened + 1
  /\ shown' = opened + 1
  /\ dbQueue' = Append(dbQueue, Load(opened + 1))
  /\ UNCHANGED <<lists, table, loops, engine, wish, ops>>

Leave ==
  /\ shown # 0
  /\ shown' = 0
  /\ UNCHANGED <<lists, opened, table, dbQueue, loops, engine, wish, ops>>

Do == shown # 0 /\ ops < MaxOps /\ ops' = ops + 1

Refresh(l) ==
  /\ Do
  /\ loops[l].pc = "idle"
  /\ lists[shown] # << >>
  /\ loops' = [loops EXCEPT ![l] =
                 [pc |-> "fetching", of |-> shown, index |-> 1,
                  feed |-> lists[shown][1], todo |-> {}]]
  /\ UNCHANGED <<lists, opened, shown, table, dbQueue, engine, wish>>

\* Mutant: the dialog takes any text for a URL.
AddFeedUnchecked(feed) ==
  /\ Do
  /\ lists' = [lists EXCEPT ![shown] = Append(@, feed)]
  /\ dbQueue' = Append(dbQueue, Upsert(feed, 0))
  /\ wish' = [wish EXCEPT ![feed.url] = "kept"]
  /\ UNCHANGED <<opened, shown, table, loops, engine>>

\* Whether the list has the URL already is not looked at.
AddFeed(feed) ==
  /\ Do
  /\ feed.url \in Urls
  /\ lists' = [lists EXCEPT ![shown] = Append(@, feed)]
  /\ dbQueue' = Append(dbQueue, Upsert(feed, 0))
  /\ wish' = [wish EXCEPT ![feed.url] = "kept"]
  /\ UNCHANGED <<opened, shown, table, loops, engine>>

\* Mutant: the row to delete is read by its index, after the list has shrunk.
RemoveFeedLate(i) ==
  /\ Do
  /\ i \in DOMAIN lists[shown]
  /\ ~Contains(dbQueue, Load(shown))
  /\ LET left == RemoveAt(lists[shown], i) IN
     /\ lists' = [lists EXCEPT ![shown] = left]
     /\ dbQueue' = IF i \in DOMAIN left
                   THEN Append(dbQueue, Delete(left[i].url)) ELSE dbQueue
  /\ wish' = [wish EXCEPT ![lists[shown][i].url] = "removed"]
  /\ UNCHANGED <<opened, shown, table, loops, engine>>

\* While the list is loading there is no row to swipe away.
RemoveFeed(i) ==
  /\ Do
  /\ i \in DOMAIN lists[shown]
  /\ ~Contains(dbQueue, Load(shown))
  /\ lists' = [lists EXCEPT ![shown] = RemoveAt(@, i)]
  /\ dbQueue' = Append(dbQueue, Delete(lists[shown][i].url))
  /\ wish' = [wish EXCEPT ![lists[shown][i].url] = "removed"]
  /\ UNCHANGED <<opened, shown, table, loops, engine>>

-----------------------------------------------------------------------------

Init ==
  /\ lists = [n \in 1..Openings |-> << >>]
  /\ opened = 0 /\ shown = 0
  /\ table = {} /\ dbQueue = << >>
  /\ loops = [l \in Loops |-> Idle]
  /\ engine = {}
  /\ wish = [url \in Urls |-> "none"]
  /\ ops = 0

LoopStep(l) ==
  \/ \E items \in SUBSET Sources : FetchSucceeds(l, items)
  \/ FetchFails(l)
  \/ AddTorrent(l)

Database == DbUpsert \/ DbDelete \/ DbLoad

Next ==
  \/ \E l \in Loops : LoopStep(l) \/ Refresh(l)
  \/ Database
  \/ Open \/ Leave
  \/ \E feed \in [url : Urls \cup OtherText, auto : BOOLEAN] : AddFeed(feed)
  \/ \E n \in 1..Openings : \E i \in DOMAIN lists[n] : n = shown /\ RemoveFeed(i)

Spec == Init /\ [][Next]_vars

\* A fetch ends within its timeout, the engine answers, and the database
\* executes what it is given.
FairSpec ==
  /\ Spec
  /\ \A l \in Loops : WF_vars(LoopStep(l))
  /\ WF_vars(Database)

-----------------------------------------------------------------------------

WritesOf(url) ==
  {i \in DOMAIN dbQueue :
     \/ dbQueue[i].op = "upsert" /\ dbQueue[i].feed.url = url
     \/ dbQueue[i].op = "delete" /\ dbQueue[i].url = url}

Stored(url) == \E feed \in table : feed.url = url

\* A feed the user has added and not removed since ends up in the table,
\* whatever refreshes, over whichever list, are still writing.
KeptFeedIsStored ==
  \A url \in Urls :
    wish[url] = "kept" =>
      IF WritesOf(url) = {} THEN Stored(url)
      ELSE \E i \in WritesOf(url) :
             /\ \A j \in WritesOf(url) : j <= i
             /\ dbQueue[i].op = "upsert"

\* A refresh comes to its end although its list changes under it, feeds fail
\* and the screen may be gone.
RefreshEnds == \A l \in Loops : loops[l].pc # "idle" ~> loops[l].pc = "idle"

=============================================================================

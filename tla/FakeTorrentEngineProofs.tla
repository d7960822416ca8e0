---------------------- MODULE FakeTorrentEngineProofs ----------------------
(***************************************************************************)
(* Theorems about FakeTorrentEngine, for any seeded rows and any hashes:   *)
(* numbers stay in the order of the list, no torrent is listed twice, and  *)
(* the engine implements TorrentQueue.                                     *)
(*                                                                         *)
(* That numbers and list agree makes the sort of the screens the list      *)
(* itself.  That no hash is twice needs to know where a row comes from: a  *)
(* seeded row keeps the id it was given, any other has its hash as its id. *)
(***************************************************************************)
EXTENDS FakeTorrentEngine, FiniteSetTheorems, TLAPS

\* The torrents that are finished from the start.
Finished == IdsOfStatus(Seeds, {"finished"})

RowOK(row) ==
  /\ \/ \E i \in DOMAIN Seeds : row.id = Seeds[i].id /\ row.hash = Seeds[i].hash
     \/ row.id = row.hash /\ row.hash \in Hashes
  /\ row.status # "blocked"
  /\ row.status = "finished" <=> row.id \in Finished

Rising(list) == \A i, j \in DOMAIN list : i < j => list[i].queue < list[j].queue

Single(list) ==
  \A i, j \in DOMAIN list :
    list[i].hash = list[j].hash \/ list[i].id = list[j].id => i = j

ListOK(list) ==
  /\ list \in Seq(Row)
  /\ \A i \in DOMAIN list : RowOK(list[i])
  /\ Rising(list)
  /\ Single(list)

IInv ==
  /\ ListOK(torrents)
  /\ engineState \in {"running", "shutdown"}
  /\ isShutdown \in BOOLEAN /\ closed \in BOOLEAN

-----------------------------------------------------------------------------
(* Items of a list at some places.                                         *)

\* The place with k places up to it is the k-th.
LEMMA NthIs ==
  ASSUME NEW S \in SUBSET Int, IsFiniteSet(S), NEW i \in S
  PROVE  Nth(S, Cardinality({j \in S : j <= i})) = i
<1> DEFINE Upto(m) == {j \in S : j <= m}
           c == Nth(S, Cardinality(Upto(i)))
<1>1. c \in S /\ Cardinality(Upto(c)) = Cardinality(Upto(i))
  BY DEF Nth
<1>0. \A m \in S : m \in Int
  OBVIOUS
<1>2. ASSUME NEW l \in S, NEW m \in S, l < m,
             Cardinality(Upto(l)) = Cardinality(Upto(m))
      PROVE  FALSE
  <2>1. IsFiniteSet(Upto(m))
    BY FS_Subset
  <2>2. Upto(l) \in SUBSET Upto(m) /\ m \in Upto(m) /\ m \notin Upto(l)
    <3>1. l \in Int /\ m \in Int /\ \A j \in S : j \in Int
      BY <1>0
    <3>2. \A j \in S : j <= l => j <= m
      BY <1>2, <3>1
    <3>3. m <= m /\ ~(m <= l)
      BY <1>2, <3>1
    <3>4. QED
      BY <3>2, <3>3, Zenon
  <2>3. Upto(m) = Upto(l)
    BY <2>1, <2>2, <1>2, FS_Subset
  <2>4. QED
    BY <2>2, <2>3
<1>3. ~(c < i) /\ ~(i < c)
  BY <1>1, <1>2
<1>4. c \in Int /\ i \in Int
  BY <1>0, <1>1
<1> HIDE DEF c
<1>5. c = i
  BY <1>3, <1>4
<1>6. QED
  BY <1>5 DEF c

\* All places.
LEMMA NthOfAll ==
  ASSUME NEW n \in Nat
  PROVE  /\ Cardinality(1..n) = n
         /\ \A k \in 1..n : Nth(1..n, k) = k
<1>1. IsFiniteSet(1..n) /\ Cardinality(1..n) = n
  BY FS_Interval
<1>2. ASSUME NEW k \in 1..n PROVE Nth(1..n, k) = k
  <2>1. {j \in 1..n : j <= k} = 1..k
    OBVIOUS
  <2>2. Cardinality(1..k) = k
    BY FS_Interval
  <2>3. QED
    BY <1>1, <2>1, <2>2, NthIs
<1>3. QED
  BY <1>1, <1>2

\* All places but one.
LEMMA NthOfOthers ==
  ASSUME NEW n \in Nat, NEW i \in 1..n
  PROVE  LET S == (1..n) \ {i}
         IN  /\ Cardinality(S) = n - 1
             /\ \A k \in 1..(n - 1) : Nth(S, k) = IF k < i THEN k ELSE k + 1
<1> DEFINE S == (1..n) \ {i}
<1>1. IsFiniteSet(S) /\ Cardinality(S) = n - 1 /\ S \in SUBSET Int
  <2>1. IsFiniteSet(1..n) /\ Cardinality(1..n) = n
    BY FS_Interval
  <2>2. IsFiniteSet(S) /\ Cardinality(S) = Cardinality(1..n) - 1
    BY <2>1, FS_RemoveElement, Zenon
  <2>3. QED
    BY <2>1, <2>2
<1>2. ASSUME NEW k \in 1..(n - 1), k < i PROVE Nth(S, k) = k
  <2>1. {j \in S : j <= k} = 1..k /\ k \in S
    BY <1>2
  <2>2. Cardinality(1..k) = k
    BY FS_Interval
  <2>3. QED
    BY <1>1, <2>1, <2>2, NthIs
<1>3. ASSUME NEW k \in 1..(n - 1), ~(k < i) PROVE Nth(S, k) = k + 1
  <2>1. {j \in S : j <= k + 1} = (1..(k + 1)) \ {i} /\ k + 1 \in S
    BY <1>3
  <2>2. IsFiniteSet(1..(k + 1)) /\ Cardinality(1..(k + 1)) = k + 1
    BY FS_Interval
  <2>3. i \in 1..(k + 1)
    BY <1>3
  <2>4. Cardinality((1..(k + 1)) \ {i}) = Cardinality(1..(k + 1)) - 1
    BY <2>2, <2>3, FS_RemoveElement, Zenon
  <2>5. QED
    BY <1>1, <2>1, <2>2, <2>4, NthIs
<1>4. QED
  BY <1>1, <1>2, <1>3

\* One list after another.
LEMMA Joined ==
  ASSUME NEW T, NEW one \in Seq(T), NEW other \in Seq(T)
  PROVE  /\ one \o other \in Seq(T) /\ Len(one \o other) = Len(one) + Len(other)
         /\ \A k \in 1..(Len(one) + Len(other)) :
              (one \o other)[k] = IF k <= Len(one) THEN one[k] ELSE other[k - Len(one)]
OBVIOUS

\* A list without what follows its first f items.
LEMMA CutAfter ==
  ASSUME NEW T, NEW list \in Seq(T), NEW f \in Nat, f < Len(list),
         NEW cut, cut = SubSeq(list, 1, f) \o SubSeq(list, f + 2, Len(list))
  PROVE  /\ cut \in Seq(T) /\ Len(cut) = Len(list) - 1
         /\ \A k \in 1..(Len(list) - 1) :
              cut[k] = IF k <= f THEN list[k] ELSE list[k + 1]
<1>1. /\ SubSeq(list, 1, f) \in Seq(T) /\ Len(SubSeq(list, 1, f)) = f
      /\ \A k \in 1..f : SubSeq(list, 1, f)[k] = list[k]
  OBVIOUS
<1>2. /\ SubSeq(list, f + 2, Len(list)) \in Seq(T)
      /\ Len(SubSeq(list, f + 2, Len(list))) = Len(list) - f - 1
      /\ \A k \in 1..(Len(list) - f - 1) :
           SubSeq(list, f + 2, Len(list))[k] = list[k + f + 1]
  OBVIOUS
<1>3. PICK front : front = SubSeq(list, 1, f)
  OBVIOUS
<1>4. PICK back : back = SubSeq(list, f + 2, Len(list))
  OBVIOUS
<1>5. front \in Seq(T) /\ Len(front) = f /\ \A k \in 1..f : front[k] = list[k]
  BY <1>1, <1>3, Zenon
<1>6. /\ back \in Seq(T) /\ Len(back) = Len(list) - f - 1
      /\ \A k \in 1..(Len(list) - f - 1) : back[k] = list[k + f + 1]
  BY <1>2, <1>4, Zenon
<1>7. /\ front \o back \in Seq(T) /\ Len(front \o back) = Len(front) + Len(back)
      /\ \A k \in 1..(Len(front) + Len(back)) :
           (front \o back)[k] =
             IF k <= Len(front) THEN front[k] ELSE back[k - Len(front)]
  <2>1. front \in Seq(T) /\ back \in Seq(T)
    BY <1>5, <1>6
  <2>2. QED
    BY <2>1, Joined
<1>8. Len(list) \in Nat /\ Len(front) + Len(back) = Len(list) - 1
  <2>1. Len(list) \in Nat /\ f + (Len(list) - f - 1) = Len(list) - 1
    OBVIOUS
  <2>2. QED
    BY <2>1, <1>5, <1>6, Zenon
<1>9. ASSUME NEW k \in 1..(Len(list) - 1)
      PROVE  (front \o back)[k] = IF k <= f THEN list[k] ELSE list[k + 1]
  <2>1. (front \o back)[k] = IF k <= f THEN front[k] ELSE back[k - f]
    BY <1>5, <1>7, <1>8
  <2>2. CASE k <= f
    BY <2>1, <2>2, <1>5
  <2>3. CASE ~(k <= f)
    <3>1. k - f \in 1..(Len(list) - f - 1) /\ (k - f) + f + 1 = k + 1
      BY <2>3, <1>8
    <3>2. back[k - f] = list[(k - f) + f + 1]
      BY <3>1, <1>6, Zenon
    <3>3. QED
      BY <2>1, <2>3, <3>1, <3>2
  <2>4. QED
    BY <2>2, <2>3
<1>10. QED
  BY <1>3, <1>4, <1>7, <1>8, <1>9

LEMMA SelectedAll ==
  ASSUME NEW T, NEW list \in Seq(T)
  PROVE  Selected(list, DOMAIN list) = list
<1>1. Len(list) \in Nat /\ DOMAIN list = 1..Len(list)
  OBVIOUS
<1>2. /\ Cardinality(DOMAIN list) = Len(list)
      /\ \A k \in DOMAIN list : Nth(DOMAIN list, k) = k
  BY <1>1, NthOfAll
<1>3. QED
  BY <1>1, <1>2 DEF Selected

LEMMA SelectedNone ==
  ASSUME NEW list
  PROVE  Selected(list, {}) = << >>
<1>1. Cardinality({}) = 0
  BY FS_EmptySet
<1>2. QED
  BY <1>1 DEF Selected

\* Without the item at one place.
LEMMA RemovedAt ==
  ASSUME NEW T, NEW list \in Seq(T), NEW i \in DOMAIN list
  PROVE  /\ RemoveAt(list, i) \in Seq(T)
         /\ Len(RemoveAt(list, i)) = Len(list) - 1
         /\ \A k \in 1..(Len(list) - 1) :
              RemoveAt(list, i)[k] = list[IF k < i THEN k ELSE k + 1]
<1>1. PICK f \in Nat : i = f + 1 /\ f < Len(list)
  <2>1. i \in Int /\ 1 <= i /\ i <= Len(list)
    OBVIOUS
  <2>2. i - 1 \in Nat /\ i - 1 < Len(list) /\ i = (i - 1) + 1
    BY <2>1
  <2>3. QED
    BY <2>2
<1>2. i - 1 = f /\ i + 1 = f + 2 /\ \A k \in Int : k < i <=> k <= f
  BY <1>1
<1>3. RemoveAt(list, i) = SubSeq(list, 1, f) \o SubSeq(list, f + 2, Len(list))
  BY <1>2, Zenon DEF RemoveAt
<1>4. PICK cut : cut = RemoveAt(list, i)
  OBVIOUS
<1>5. /\ cut \in Seq(T) /\ Len(cut) = Len(list) - 1
      /\ \A k \in 1..(Len(list) - 1) :
           cut[k] = IF k <= f THEN list[k] ELSE list[k + 1]
  <2>1. f < Len(list) /\ cut = SubSeq(list, 1, f) \o SubSeq(list, f + 2, Len(list))
    BY <1>1, <1>3, <1>4
  <2>2. QED
    BY <2>1, CutAfter, Zenon
<1>6. ASSUME NEW k \in 1..(Len(list) - 1)
      PROVE  cut[k] = list[IF k < i THEN k ELSE k + 1]
  BY <1>2, <1>5
<1>7. QED
  BY <1>4, <1>5, <1>6

\* With one more item at one place.
Inserted(all, list, i, item) ==
  /\ Len(all) = Len(list) + 1
  /\ all[i] = item
  /\ \A k \in 1..(Len(list) + 1) : /\ k < i => all[k] = list[k]
                                   /\ k > i => all[k] = list[k - 1]

LEMMA InsertedAt ==
  ASSUME NEW T, NEW list \in Seq(T), NEW item \in T, NEW i \in 1..(Len(list) + 1),
         NEW all, all = InsertAt(list, i, item)
  PROVE  all \in Seq(T) /\ Inserted(all, list, i, item)
<1>1. PICK f \in Nat : i = f + 1 /\ f <= Len(list)
  <2>1. i \in Int /\ 1 <= i /\ i <= Len(list) + 1 /\ Len(list) \in Nat
    OBVIOUS
  <2>2. i - 1 \in Nat /\ i - 1 <= Len(list) /\ i = (i - 1) + 1
    BY <2>1
  <2>3. QED
    BY <2>2
<1>2. i - 1 = f /\ Len(list) \in Nat
  BY <1>1
<1>3. PICK front, middle, back :
        /\ front = SubSeq(list, 1, f) /\ middle = <<item>>
        /\ back = SubSeq(list, f + 1, Len(list))
  OBVIOUS
<1>4. InsertAt(list, i, item) = front \o middle \o back
  BY <1>1, <1>2, <1>3, Zenon DEF InsertAt
<1>5. front \in Seq(T) /\ Len(front) = f /\ \A k \in 1..f : front[k] = list[k]
  <2>1. /\ SubSeq(list, 1, f) \in Seq(T) /\ Len(SubSeq(list, 1, f)) = f
        /\ \A k \in 1..f : SubSeq(list, 1, f)[k] = list[k]
    BY <1>1
  <2>2. QED
    BY <2>1, <1>3, Zenon
<1>6. /\ back \in Seq(T) /\ Len(back) = Len(list) - f
      /\ \A k \in 1..(Len(list) - f) : back[k] = list[k + f]
  <2>1. /\ SubSeq(list, f + 1, Len(list)) \in Seq(T)
        /\ Len(SubSeq(list, f + 1, Len(list))) = Len(list) - f
        /\ \A k \in 1..(Len(list) - f) : SubSeq(list, f + 1, Len(list))[k] = list[k + f]
    BY <1>1
  <2>2. QED
    BY <2>1, <1>3, Zenon
<1>7. middle \in Seq(T) /\ Len(middle) = 1 /\ middle[1] = item
  BY <1>3
<1>8. PICK start : start = front \o middle
  OBVIOUS
<1>9. /\ start \in Seq(T) /\ Len(start) = f + 1
      /\ \A k \in 1..(f + 1) : start[k] = IF k = i THEN item ELSE list[k]
  <2>1. front \in Seq(T) /\ middle \in Seq(T)
    BY <1>5, <1>7
  <2>2. /\ start \in Seq(T) /\ Len(start) = Len(front) + Len(middle)
        /\ \A k \in 1..(Len(front) + Len(middle)) :
             start[k] = IF k <= Len(front) THEN front[k] ELSE middle[k - Len(front)]
    BY <2>1, <1>8, Joined
  <2>3. ASSUME NEW k \in 1..(f + 1) PROVE start[k] = IF k = i THEN item ELSE list[k]
    <3>1. start[k] = IF k <= f THEN front[k] ELSE middle[k - f]
      BY <2>2, <1>5, <1>7
    <3>2. CASE k <= f
      BY <3>1, <3>2, <1>1, <1>5
    <3>3. CASE ~(k <= f)
      <4>1. k = i /\ k - f = 1
        BY <3>3, <1>1
      <4>2. QED
        BY <4>1, <3>1, <3>3, <1>7
    <3>4. QED
      BY <3>2, <3>3
  <2>4. QED
    BY <2>2, <2>3, <1>5, <1>7
<1>10. all = start \o back
  BY <1>4, <1>8, Zenon
<1>11. /\ all \in Seq(T) /\ Len(all) = Len(start) + Len(back)
       /\ \A k \in 1..(Len(start) + Len(back)) :
            all[k] = IF k <= Len(start) THEN start[k] ELSE back[k - Len(start)]
  <2>1. start \in Seq(T) /\ back \in Seq(T)
    BY <1>6, <1>9
  <2>2. QED
    BY <2>1, <1>10, Joined
<1>12. Len(start) + Len(back) = Len(list) + 1
  <2>1. (f + 1) + (Len(list) - f) = Len(list) + 1
    BY <1>2
  <2>2. QED
    BY <2>1, <1>6, <1>9, Zenon
<1>13. ASSUME NEW k \in 1..(Len(list) + 1)
       PROVE  all[k] = IF k = i THEN item ELSE list[IF k < i THEN k ELSE k - 1]
  <2>1. all[k] = IF k <= f + 1 THEN start[k] ELSE back[k - (f + 1)]
    BY <1>9, <1>11, <1>12
  <2>2. CASE k <= f + 1
    BY <2>1, <2>2, <1>1, <1>9
  <2>3. CASE ~(k <= f + 1)
    <3>1. /\ k - (f + 1) \in 1..(Len(list) - f) /\ (k - (f + 1)) + f = k - 1
          /\ k # i /\ ~(k < i)
      BY <2>3, <1>1, <1>2
    <3>2. back[k - (f + 1)] = list[(k - (f + 1)) + f]
      BY <3>1, <1>6, Zenon
    <3>3. QED
      BY <2>1, <2>3, <3>1, <3>2
  <2>4. QED
    BY <2>2, <2>3
<1>14. /\ all[i] = item
       /\ \A k \in 1..(Len(list) + 1) : /\ k < i => all[k] = list[k]
                                        /\ k > i => all[k] = list[k - 1]
  <2>1. all[i] = item
    BY <1>13
  <2>2. ASSUME NEW k \in 1..(Len(list) + 1)
        PROVE  /\ k < i => all[k] = list[k]
               /\ k > i => all[k] = list[k - 1]
    <3>1. k < i => k # i
      BY <1>1
    <3>2. k > i => k # i /\ ~(k < i)
      BY <1>1
    <3>3. QED
      BY <3>1, <3>2, <1>13
  <2>3. QED
    BY <2>1, <2>2
<1>15. QED
  BY <1>11, <1>12, <1>14 DEF Inserted

LEMMA SelectedOthers ==
  ASSUME NEW T, NEW list \in Seq(T), NEW i \in DOMAIN list
  PROVE  Selected(list, DOMAIN list \ {i}) = RemoveAt(list, i)
<1>1. Len(list) \in Nat /\ i \in 1..Len(list) /\ DOMAIN list = 1..Len(list)
  OBVIOUS
<1>2. PICK others \in Seq(T) :
        /\ others = RemoveAt(list, i) /\ Len(others) = Len(list) - 1
        /\ \A k \in 1..(Len(list) - 1) :
             others[k] = list[IF k < i THEN k ELSE k + 1]
  BY RemovedAt
<1>3. others = [k \in 1..(Len(list) - 1) |-> list[IF k < i THEN k ELSE k + 1]]
  BY <1>1, <1>2
<1>4. Selected(list, (1..Len(list)) \ {i}) = others
  BY <1>1, <1>3, NthOfOthers DEF Selected
<1>5. QED
  BY <1>1, <1>2, <1>4

-----------------------------------------------------------------------------
(* The order of the rows.                                                  *)

\* While numbers rise along the list, to sort it changes nothing.
LEMMA SortedIsList ==
  ASSUME NEW list \in Seq(Row), Rising(list)
  PROVE  SortedByQueue(list) = list
<1>1. /\ Len(list) \in Nat /\ DOMAIN list = 1..Len(list)
      /\ \A k \in DOMAIN list : list[k].queue \in Int
  <2>1. \A k \in DOMAIN list : list[k] \in Row
    OBVIOUS
  <2>2. QED
    BY <2>1 DEF Row
<1>2. ASSUME NEW k \in DOMAIN list
      PROVE  Cardinality({j \in DOMAIN list : Precedes(list, j, k)}) = k
  <2>1. ASSUME NEW j \in DOMAIN list PROVE Precedes(list, j, k) <=> j <= k
    <3>1. j \in Int /\ k \in Int /\ list[j].queue \in Int /\ list[k].queue \in Int
      BY <1>1
    <3>2. CASE j < k
      <4>1. list[j].queue < list[k].queue
        BY <3>2 DEF Rising
      <4>2. QED
        BY <3>1, <3>2, <4>1 DEF Precedes
    <3>3. CASE k < j
      <4>1. list[k].queue < list[j].queue
        BY <3>3 DEF Rising
      <4>2. QED
        BY <3>1, <3>3, <4>1 DEF Precedes
    <3>4. CASE j = k
      BY <3>1, <3>4 DEF Precedes
    <3>5. QED
      BY <3>1, <3>2, <3>3, <3>4
  <2>2. {j \in DOMAIN list : Precedes(list, j, k)} = {j \in DOMAIN list : j <= k}
    BY <2>1, Zenon
  <2>3. {j \in DOMAIN list : j <= k} = 1..k /\ k \in Nat
    BY <1>1
  <2>4. Cardinality(1..k) = k
    BY <2>3, FS_Interval
  <2>5. QED
    BY <2>2, <2>3, <2>4
<1> DEFINE place(k) ==
             CHOOSE i \in DOMAIN list :
               Cardinality({j \in DOMAIN list : Precedes(list, j, i)}) = k
<1>3. \A k \in DOMAIN list : place(k) = k
  BY <1>2
<1>4. SortedByQueue(list) = [k \in DOMAIN list |-> list[place(k)]]
  BY Zenon DEF SortedByQueue
<1> HIDE DEF place
<1>5. QED
  BY <1>1, <1>3, <1>4

\* The place from which the item at place j comes when the one at place i is
\* dragged to place k.
From(i, k, j) ==
  IF j = k THEN i
  ELSE IF j < k THEN IF j < i THEN j ELSE j + 1
  ELSE IF j - 1 < i THEN j - 1 ELSE j

Dragged(list, i, k) == InsertAt(RemoveAt(list, i), k, list[i])

\* Every place is come from, by one place only.
Shuffles(n, i, k) ==
  /\ \A j \in 1..n : From(i, k, j) \in 1..n
  /\ \A j, l \in 1..n : From(i, k, j) = From(i, k, l) => j = l
  /\ \A m \in 1..n : \E j \in 1..n : From(i, k, j) = m

LEMMA FromAll ==
  ASSUME NEW n \in Nat, NEW i \in 1..n, NEW k \in 1..n
  PROVE  Shuffles(n, i, k)
<1>1. /\ \A j \in 1..n : From(i, k, j) \in 1..n
      /\ \A j, l \in 1..n : From(i, k, j) = From(i, k, l) => j = l
  BY DEF From
<1>2. ASSUME NEW m \in 1..n PROVE \E j \in 1..n : From(i, k, j) = m
  <2>1. CASE m = i
    BY <2>1 DEF From
  <2>2. CASE m < i
    <3>1. CASE m < k
      BY <2>2, <3>1 DEF From
    <3>2. CASE ~(m < k)
      <4>1. m + 1 \in 1..n /\ From(i, k, m + 1) = m
        BY <2>2, <3>2 DEF From
      <4>2. QED
        BY <4>1
    <3>3. QED
      BY <3>1, <3>2
  <2>3. CASE m > i
    <3>1. CASE m - 1 < k
      <4>1. m - 1 \in 1..n /\ From(i, k, m - 1) = m
        BY <2>3, <3>1 DEF From
      <4>2. QED
        BY <4>1
    <3>2. CASE ~(m - 1 < k)
      BY <2>3, <3>2 DEF From
    <3>3. QED
      BY <3>1, <3>2
  <2>4. QED
    BY <2>1, <2>2, <2>3
<1>3. QED
  BY <1>1, <1>2 DEF Shuffles

LEMMA DraggedIs ==
  ASSUME NEW T, NEW list \in Seq(T), NEW i \in DOMAIN list, NEW k \in DOMAIN list
  PROVE  /\ Dragged(list, i, k) \in Seq(T)
         /\ Len(Dragged(list, i, k)) = Len(list)
         /\ \A j \in DOMAIN list : Dragged(list, i, k)[j] = list[From(i, k, j)]
<1>1. /\ Len(list) \in Nat /\ DOMAIN list = 1..Len(list)
      /\ i \in 1..Len(list) /\ k \in 1..Len(list) /\ list[i] \in T
  OBVIOUS
<1>2. PICK others \in Seq(T) :
        /\ others = RemoveAt(list, i) /\ Len(others) = Len(list) - 1
        /\ \A m \in 1..(Len(list) - 1) :
             others[m] = list[IF m < i THEN m ELSE m + 1]
  BY RemovedAt
<1>3. k \in 1..(Len(others) + 1) /\ Len(others) + 1 = Len(list)
  BY <1>1, <1>2
<1>4. PICK all : all = InsertAt(others, k, list[i])
  OBVIOUS
<1>5. /\ all \in Seq(T) /\ Len(all) = Len(others) + 1
      /\ all[k] = list[i]
      /\ \A j \in 1..(Len(others) + 1) : /\ j < k => all[j] = others[j]
                                         /\ j > k => all[j] = others[j - 1]
  <2>1. list[i] \in T
    BY <1>1
  <2>2. k \in 1..(Len(others) + 1)
    BY <1>3
  <2>3. all \in Seq(T) /\ Inserted(all, others, k, list[i])
    BY <2>1, <2>2, <1>4, InsertedAt, Zenon
  <2>4. QED
    BY <2>3 DEF Inserted
<1>6. ASSUME NEW j \in 1..Len(list) PROVE all[j] = list[From(i, k, j)]
  <2>1. /\ j = k => all[j] = list[i]
        /\ j < k => all[j] = others[j]
        /\ j > k => all[j] = others[j - 1]
    <3>1. j \in 1..(Len(others) + 1)
      BY <1>3
    <3>2. QED
      BY <3>1, <1>5, Zenon
  <2>2. CASE j = k
    BY <2>1, <2>2 DEF From
  <2>3. CASE j < k
    <3>1. j \in 1..(Len(list) - 1) /\ j # k
      BY <2>3, <1>1
    <3>2. all[j] = others[j] /\ others[j] = list[IF j < i THEN j ELSE j + 1]
      BY <2>1, <2>3, <3>1, <1>2
    <3>3. From(i, k, j) = IF j < i THEN j ELSE j + 1
      BY <2>3, <3>1 DEF From
    <3>4. QED
      BY <3>2, <3>3
  <2>4. CASE j > k
    <3>1. j - 1 \in 1..(Len(list) - 1) /\ j # k /\ ~(j < k) /\ (j - 1) + 1 = j
      BY <2>4, <1>1
    <3>2. /\ all[j] = others[j - 1]
          /\ others[j - 1] = list[IF j - 1 < i THEN j - 1 ELSE (j - 1) + 1]
      BY <2>1, <2>4, <3>1, <1>2
    <3>3. From(i, k, j) = IF j - 1 < i THEN j - 1 ELSE j
      BY <3>1 DEF From
    <3>4. QED
      BY <3>1, <3>2, <3>3
  <2>5. QED
    BY <2>2, <2>3, <2>4, <1>1
<1>7. all = Dragged(list, i, k)
  BY <1>2, <1>4 DEF Dragged
<1>8. QED
  BY <1>1, <1>3, <1>5, <1>6, <1>7

-----------------------------------------------------------------------------
(* What the operations make of the list.                                   *)

\* The rows of a list that is in order, field by field.
LEMMA Fields ==
  ASSUME NEW list, ListOK(list)
  PROVE  /\ Len(list) \in Nat /\ DOMAIN list = 1..Len(list)
         /\ \A i \in DOMAIN list :
              /\ list[i] \in Row /\ RowOK(list[i])
              /\ list[i].id \in Ids /\ list[i].hash \in KnownHashes
              /\ list[i].queue \in Nat \ {0} /\ list[i].status \in TorrentStatus
<1>1. list \in Seq(Row)
  BY DEF ListOK
<1>2. Len(list) \in Nat /\ DOMAIN list = 1..Len(list) /\ \A i \in DOMAIN list : list[i] \in Row
  BY <1>1
<1>3. QED
  BY <1>2 DEF ListOK, Row

\* A torrent added by the user is not one of the finished ones.
LEMMA AddedIsNew ==
  ASSUME NEW hash \in Hashes
  PROVE  hash \notin Finished /\ hash \in Ids /\ hash \in KnownHashes
BY FakeAssumption DEF Finished, IdsOfStatus, Ids, KnownHashes

\* Rows that keep their identity and their number.
LEMMA Alike ==
  ASSUME NEW list, ListOK(list), NEW new \in Seq(Row), DOMAIN new = DOMAIN list,
         \A i \in DOMAIN list :
           /\ new[i].id = list[i].id /\ new[i].hash = list[i].hash
           /\ new[i].queue = list[i].queue /\ RowOK(new[i])
  PROVE  ListOK(new)
BY DEF ListOK, Rising, Single

LEMMA WithStatus ==
  ASSUME NEW row \in Row, RowOK(row), CanToggle(row.status),
         NEW status \in {"paused", "downloading"},
         NEW new, new = [row EXCEPT !.status = status]
  PROVE  /\ new \in Row /\ RowOK(new) /\ new.status = status
         /\ new.id = row.id /\ new.hash = row.hash /\ new.queue = row.queue
<1>1. /\ new \in Row /\ new.status = status
      /\ new.id = row.id /\ new.hash = row.hash /\ new.queue = row.queue
  BY DEF Row, TorrentStatus
<1>2. row.status # "finished" /\ status # "finished" /\ status # "blocked"
  BY DEF CanToggle
<1>3. QED
  BY <1>1, <1>2 DEF RowOK

LEMMA RestatusIs ==
  ASSUME ListOK(torrents), NEW from, \A status \in from : CanToggle(status),
         NEW to \in {"paused", "downloading"},
         NEW new, new = Restatus(from, to)
  PROVE  /\ ListOK(new)
         /\ DOMAIN new = DOMAIN torrents
         /\ \A i \in DOMAIN torrents :
              /\ new[i].id = torrents[i].id
              /\ new[i].status = IF torrents[i].status \in from THEN to
                                 ELSE torrents[i].status
<1>1. /\ DOMAIN new = DOMAIN torrents
      /\ \A i \in DOMAIN torrents :
           new[i] = IF torrents[i].status \in from
                    THEN [torrents[i] EXCEPT !.status = to] ELSE torrents[i]
  BY DEF Restatus
<1>2. ASSUME NEW i \in DOMAIN torrents
      PROVE  /\ new[i] \in Row /\ RowOK(new[i])
             /\ new[i].id = torrents[i].id /\ new[i].hash = torrents[i].hash
             /\ new[i].queue = torrents[i].queue
             /\ new[i].status = IF torrents[i].status \in from THEN to
                                ELSE torrents[i].status
  <2>1. torrents[i] \in Row /\ RowOK(torrents[i])
    BY Fields
  <2>2. CASE torrents[i].status \in from
    <3>1. new[i] = [torrents[i] EXCEPT !.status = to] /\ CanToggle(torrents[i].status)
      BY <1>1, <2>2
    <3>2. PICK row \in Row : row = torrents[i]
      BY <2>1
    <3>3. /\ new[i] \in Row /\ RowOK(new[i]) /\ new[i].status = to
          /\ new[i].id = row.id /\ new[i].hash = row.hash /\ new[i].queue = row.queue
      BY <2>1, <3>1, <3>2, WithStatus
    <3>4. QED
      BY <2>2, <3>2, <3>3
  <2>3. CASE torrents[i].status \notin from
    BY <1>1, <2>1, <2>3
  <2>4. QED
    BY <2>2, <2>3
<1>3. new \in Seq(Row)
  <2>1. Len(torrents) \in Nat /\ DOMAIN torrents = 1..Len(torrents)
    BY Fields
  <2>2. new \in [1..Len(torrents) -> Row]
    <3>1. new = [i \in 1..Len(torrents) |-> new[i]]
      BY <2>1 DEF Restatus
    <3>2. QED
      BY <2>1, <3>1, <1>2
  <2>3. QED
    BY <2>1, <2>2
<1>4. ListOK(new)
  BY <1>1, <1>2, <1>3, Alike
<1>5. QED
  BY <1>1, <1>2, <1>4

LEMMA WithNumber ==
  ASSUME NEW row \in Row, RowOK(row), NEW number \in Nat \ {0},
         NEW new, new = [row EXCEPT !.queue = number]
  PROVE  /\ new \in Row /\ RowOK(new) /\ new.queue = number
         /\ new.id = row.id /\ new.hash = row.hash /\ new.status = row.status
<1>1. /\ new \in Row /\ new.queue = number
      /\ new.id = row.id /\ new.hash = row.hash /\ new.status = row.status
  BY DEF Row
<1>2. QED
  BY <1>1 DEF RowOK

\* One item before a list.
First(all, item, list) ==
  /\ Len(all) = Len(list) + 1 /\ all[1] = item
  /\ \A i \in 1..Len(list) : all[i + 1] = list[i]

LEMMA Prepended ==
  ASSUME NEW T, NEW item \in T, NEW list \in Seq(T), NEW all, all = <<item>> \o list
  PROVE  all \in Seq(T) /\ First(all, item, list)
BY DEF First

\* A row before the others, whose numbers move up.
LEMMA FirstOK ==
  ASSUME NEW list, ListOK(list),
         NEW new \in Seq(Row), Len(new) = Len(list) + 1,
         RowOK(new[1]), new[1].queue = 1,
         \A i \in DOMAIN list :
           /\ RowOK(new[i + 1])
           /\ new[i + 1].id = list[i].id /\ new[1].id # list[i].id
           /\ new[i + 1].hash = list[i].hash /\ new[1].hash # list[i].hash
           /\ new[i + 1].queue = list[i].queue + 1
  PROVE  ListOK(new)
<1>1. Len(list) \in Nat /\ DOMAIN list = 1..Len(list) /\ DOMAIN new = 1..(Len(list) + 1)
  <2>1. Len(list) \in Nat /\ DOMAIN list = 1..Len(list)
    BY Fields
  <2>2. DOMAIN new = 1..Len(new)
    OBVIOUS
  <2>3. QED
    BY <2>1, <2>2
<1>2. ASSUME NEW j \in DOMAIN new, j # 1
      PROVE  j - 1 \in DOMAIN list /\ j = (j - 1) + 1 /\ j \in Int
  BY <1>1, <1>2
<1>3. ASSUME NEW j \in DOMAIN new PROVE RowOK(new[j])
  BY <1>2
<1>4. ASSUME NEW j \in DOMAIN new, NEW l \in DOMAIN new, j < l
      PROVE  new[j].queue < new[l].queue
  <2>1. j \in Int /\ l \in Int /\ l # 1
    BY <1>1, <1>4
  <2>2. PICK m \in DOMAIN list : l = m + 1 /\ m \in Int
    BY <1>2, <2>1
  <2>3. new[l].queue = list[m].queue + 1 /\ list[m].queue \in Nat \ {0}
    BY <2>2, Fields
  <2>4. CASE j = 1
    BY <2>3, <2>4
  <2>5. CASE j # 1
    <3>1. PICK i \in DOMAIN list : j = i + 1 /\ i \in Int
      BY <1>2, <2>1, <2>5
    <3>2. i < m
      BY <1>4, <2>2, <3>1
    <3>3. list[i].queue < list[m].queue
      BY <3>2 DEF ListOK, Rising
    <3>4. new[j].queue = list[i].queue + 1 /\ list[i].queue \in Nat
      BY <3>1, Fields
    <3>5. QED
      BY <2>3, <3>3, <3>4
  <2>6. QED
    BY <2>4, <2>5
<1>5. ASSUME NEW j \in DOMAIN new, NEW l \in DOMAIN new,
             new[j].hash = new[l].hash \/ new[j].id = new[l].id
      PROVE  j = l
  <2>1. CASE j = 1 /\ l # 1
    <3>1. PICK m \in DOMAIN list : l = m + 1
      BY <1>2, <2>1
    <3>2. QED
      BY <1>5, <2>1, <3>1
  <2>2. CASE j # 1 /\ l = 1
    <3>1. PICK i \in DOMAIN list : j = i + 1
      BY <1>2, <2>2
    <3>2. QED
      BY <1>5, <2>2, <3>1
  <2>3. CASE j # 1 /\ l # 1
    <3>1. PICK i \in DOMAIN list, m \in DOMAIN list : j = i + 1 /\ l = m + 1
      BY <1>2, <2>3
    <3>2. list[i].hash = list[m].hash \/ list[i].id = list[m].id
      BY <1>5, <3>1
    <3>3. i = m
      BY <3>2 DEF ListOK, Single
    <3>4. QED
      BY <3>1, <3>3
  <2>4. QED
    BY <2>1, <2>2, <2>3
<1>6. QED
  BY <1>3, <1>4, <1>5 DEF ListOK, Rising, Single

LEMMA AddIs ==
  ASSUME ListOK(torrents), NEW hash \in Hashes, AddTorrent(hash)
  PROVE  /\ ListOK(torrents') /\ Len(torrents') = Len(torrents) + 1
         /\ torrents'[1].id = hash /\ torrents'[1].status = "downloading"
         /\ \A i \in DOMAIN torrents :
              /\ torrents'[i + 1].id = torrents[i].id /\ torrents[i].id # hash
              /\ torrents'[i + 1].status = torrents[i].status
<1>1. PICK moved : moved = [i \in DOMAIN torrents |-> [torrents[i] EXCEPT !.queue = @ + 1]]
  OBVIOUS
<1>2. PICK row : row = [id |-> hash, hash |-> hash, queue |-> 1, status |-> "downloading"]
  OBVIOUS
<1>3. torrents' = <<row>> \o moved /\ \A i \in DOMAIN torrents : torrents[i].hash # hash
  BY <1>1, <1>2 DEF AddTorrent
<1>4. /\ row \in Row /\ RowOK(row) /\ row.status = "downloading"
      /\ row.id = hash /\ row.hash = hash /\ row.queue = 1
  BY <1>2, AddedIsNew DEF Row, RowOK, TorrentStatus
<1>5. Len(torrents) \in Nat /\ DOMAIN torrents = 1..Len(torrents)
  BY Fields
<1>6. ASSUME NEW i \in DOMAIN torrents
      PROVE  /\ moved[i] \in Row /\ RowOK(moved[i])
             /\ moved[i].id = torrents[i].id /\ moved[i].hash = torrents[i].hash
             /\ moved[i].status = torrents[i].status
             /\ moved[i].queue = torrents[i].queue + 1
             /\ torrents[i].id # hash /\ torrents[i].hash # hash
  <2>1. /\ torrents[i] \in Row /\ RowOK(torrents[i])
        /\ torrents[i].queue + 1 \in Nat \ {0}
    BY Fields
  <2>2. moved[i] = [torrents[i] EXCEPT !.queue = torrents[i].queue + 1]
    BY <1>1
  <2>3. PICK old \in Row, number \in Nat \ {0} :
          old = torrents[i] /\ number = torrents[i].queue + 1
    BY <2>1
  <2>4. /\ moved[i] \in Row /\ RowOK(moved[i]) /\ moved[i].queue = number
        /\ moved[i].id = old.id /\ moved[i].hash = old.hash
        /\ moved[i].status = old.status
    BY <2>1, <2>2, <2>3, WithNumber
  <2>5. torrents[i].hash # hash
    BY <1>3
  <2>6. torrents[i].id # hash
    BY <2>1, <2>5, FakeAssumption DEF RowOK
  <2>7. QED
    BY <2>3, <2>4, <2>5, <2>6
<1>7. moved \in Seq(Row) /\ Len(moved) = Len(torrents)
  <2>1. moved \in [1..Len(torrents) -> Row]
    <3>1. moved = [i \in 1..Len(torrents) |-> moved[i]]
      BY <1>1, <1>5
    <3>2. QED
      BY <1>5, <1>6, <3>1
  <2>2. QED
    BY <1>5, <2>1
<1>8. /\ torrents' \in Seq(Row) /\ Len(torrents') = Len(torrents) + 1
      /\ torrents'[1] = row
      /\ \A i \in DOMAIN torrents : torrents'[i + 1] = moved[i]
  <2>1. torrents' \in Seq(Row) /\ First(torrents', row, moved)
    <3>1. row \in Row /\ moved \in Seq(Row) /\ torrents' = <<row>> \o moved
      BY <1>3, <1>4, <1>7
    <3>2. QED
      BY <3>1, Prepended, Zenon
  <2>2. QED
    BY <2>1, <1>5, <1>7 DEF First
<1>9. ListOK(torrents')
  BY <1>4, <1>6, <1>8, FirstOK
<1>10. QED
  BY <1>4, <1>6, <1>8, <1>9

LEMMA ToggleIs ==
  ASSUME ListOK(torrents), NEW id, ToggleTorrent(id)
  PROVE  /\ ListOK(torrents') /\ DOMAIN torrents' = DOMAIN torrents
         /\ \E i \in DOMAIN torrents :
              /\ torrents[i].id = id /\ CanToggle(torrents[i].status)
              /\ torrents'[i].status = IF IsRunning(torrents[i].status) THEN "paused"
                                       ELSE "downloading"
              /\ \A j \in DOMAIN torrents :
                   /\ torrents'[j].id = torrents[j].id
                   /\ j # i => torrents'[j].status = torrents[j].status
<1>1. PICK i \in DOMAIN torrents :
        /\ torrents[i].id = id /\ CanToggle(torrents[i].status)
        /\ torrents' = [torrents EXCEPT ![i].status =
                          IF IsRunning(@) THEN "paused" ELSE "downloading"]
  BY DEF ToggleTorrent
<1>2. PICK row \in Row, status \in {"paused", "downloading"} :
        /\ row = torrents[i] /\ RowOK(row)
        /\ status = IF IsRunning(row.status) THEN "paused" ELSE "downloading"
  <2>1. torrents[i] \in Row /\ RowOK(torrents[i])
    BY Fields
  <2>2. QED
    BY <2>1
<1>3. PICK new : new = [row EXCEPT !.status = status]
  OBVIOUS
<1>4. /\ new \in Row /\ RowOK(new) /\ new.status = status
      /\ new.id = row.id /\ new.hash = row.hash /\ new.queue = row.queue
  BY <1>1, <1>2, <1>3, WithStatus
<1>5. torrents' = [torrents EXCEPT ![i] = new]
  BY <1>1, <1>2, <1>3
<1>6. /\ torrents' \in Seq(Row) /\ DOMAIN torrents' = DOMAIN torrents
      /\ torrents'[i] = new
      /\ \A j \in DOMAIN torrents : j # i => torrents'[j] = torrents[j]
  <2>1. torrents \in Seq(Row)
    BY DEF ListOK
  <2>2. QED
    BY <2>1, <1>4, <1>5
<1>7. ASSUME NEW j \in DOMAIN torrents
      PROVE  /\ torrents'[j].id = torrents[j].id /\ torrents'[j].hash = torrents[j].hash
             /\ torrents'[j].queue = torrents[j].queue /\ RowOK(torrents'[j])
  BY <1>2, <1>4, <1>6, Fields
<1>8. ListOK(torrents')
  BY <1>6, <1>7, Alike
<1>9. QED
  BY <1>1, <1>2, <1>4, <1>6, <1>7, <1>8

\* A list without one of its rows.
LEMMA WithoutOK ==
  ASSUME NEW list, ListOK(list), NEW i \in DOMAIN list,
         NEW new \in Seq(Row), Len(new) = Len(list) - 1,
         \A k \in 1..(Len(list) - 1) : new[k] = list[IF k < i THEN k ELSE k + 1]
  PROVE  ListOK(new)
<1> DEFINE from(k) == IF k < i THEN k ELSE k + 1
<1>1. Len(list) \in Nat /\ DOMAIN list = 1..Len(list) /\ DOMAIN new = 1..(Len(list) - 1)
  <2>1. Len(list) \in Nat /\ DOMAIN list = 1..Len(list)
    BY Fields
  <2>2. DOMAIN new = 1..Len(new)
    OBVIOUS
  <2>3. QED
    BY <2>1, <2>2
<1>2. \A k \in DOMAIN new : from(k) \in DOMAIN list /\ new[k] = list[from(k)]
  BY <1>1
<1>3. \A k, l \in DOMAIN new : /\ k < l => from(k) < from(l)
                               /\ from(k) = from(l) => k = l
  BY <1>1
<1> HIDE DEF from
<1>4. QED
  BY <1>2, <1>3 DEF ListOK, Rising, Single

LEMMA DeleteIs ==
  ASSUME ListOK(torrents), NEW id, DeleteTorrent(id)
  PROVE  /\ ListOK(torrents')
         /\ \E i \in DOMAIN torrents :
              torrents[i].id = id /\ torrents' = RemoveAt(torrents, i)
<1>1. PICK i \in DOMAIN torrents : torrents[i].id = id
  BY DEF DeleteTorrent
<1>2. {j \in DOMAIN torrents : torrents[j].id # id} = DOMAIN torrents \ {i}
  BY <1>1 DEF ListOK, Single
<1>3. torrents \in Seq(Row)
  BY DEF ListOK
<1>4. torrents' = RemoveAt(torrents, i)
  BY <1>2, <1>3, SelectedOthers DEF DeleteTorrent
<1>5. PICK new : new = torrents'
  OBVIOUS
<1>6. /\ new \in Seq(Row) /\ Len(new) = Len(torrents) - 1
      /\ \A k \in 1..(Len(torrents) - 1) :
           new[k] = torrents[IF k < i THEN k ELSE k + 1]
  BY <1>3, <1>4, <1>5, RemovedAt
<1>7. ListOK(new)
  BY <1>6, WithoutOK
<1>8. QED
  BY <1>1, <1>4, <1>5, <1>7

LEMMA IdsAre ==
  ASSUME NEW list, ListOK(list)
  PROVE  /\ IdsOf(list) \in Seq(Ids) /\ DOMAIN IdsOf(list) = DOMAIN list
         /\ \A j \in DOMAIN list : IdsOf(list)[j] = list[j].id
<1>1. Len(list) \in Nat /\ DOMAIN list = 1..Len(list) /\ \A j \in DOMAIN list : list[j].id \in Ids
  BY Fields
<1>2. IdsOf(list) = [j \in DOMAIN list |-> list[j].id]
  BY DEF IdsOf
<1>3. QED
  BY <1>1, <1>2

LEMMA Before ==
  ASSUME NEW n \in Nat, NEW j \in 1..n, NEW l \in 1..(j - 1)
  PROVE  l \in 1..n /\ l # j
OBVIOUS

\* The ids of all rows, each once, name the rows in just that order.
LEMMA OrderIs ==
  ASSUME ListOK(torrents), NEW ids \in Seq(Ids), DOMAIN ids = DOMAIN torrents,
         \A j \in DOMAIN ids : \E m \in DOMAIN torrents : ids[j] = torrents[m].id,
         \A j, l \in DOMAIN ids : ids[j] = ids[l] => j = l,
         \A m \in DOMAIN torrents : \E j \in DOMAIN ids : ids[j] = torrents[m].id
  PROVE  Order(ids) = ids
<1>1. /\ Len(torrents) \in Nat /\ DOMAIN torrents = 1..Len(torrents)
      /\ Len(ids) \in Nat /\ DOMAIN ids = 1..Len(ids)
  BY Fields
<1>2. Named(ids) = DOMAIN ids
  <2>1. ASSUME NEW j \in DOMAIN ids PROVE \E row \in ToSet(torrents) : row.id = ids[j]
    <3>1. PICK m \in DOMAIN torrents : ids[j] = torrents[m].id
      OBVIOUS
    <3>2. torrents[m] \in ToSet(torrents)
      BY DEF ToSet
    <3>3. QED
      BY <3>1, <3>2
  <2>2. ASSUME NEW j \in DOMAIN ids, NEW l \in 1..(j - 1) PROVE ids[l] # ids[j]
    <3>1. j \in 1..Len(ids) /\ Len(ids) \in Nat
      BY <1>1
    <3>2. l \in 1..Len(ids) /\ l # j
      <4>1. PICK n \in Nat : n = Len(ids)
        BY <3>1
      <4>2. j \in 1..n
        BY <3>1, <4>1
      <4>3. l \in 1..n /\ l # j
        BY <4>2, Before
      <4>4. QED
        BY <4>1, <4>3
    <3>3. QED
      BY <1>1, <3>2
  <2>3. QED
    BY <2>1, <2>2 DEF Named
<1>3. {m \in DOMAIN torrents : ~Contains(ids, torrents[m].id)} = {}
  <2>1. ASSUME NEW m \in DOMAIN torrents PROVE Contains(ids, torrents[m].id)
    <3>1. PICK j \in DOMAIN ids : ids[j] = torrents[m].id
      OBVIOUS
    <3>2. QED
      BY <1>1, <3>1 DEF Contains
  <2>2. QED
    BY <2>1
<1>4. Order(ids) = ids \o << >>
  <2>1. Selected(ids, DOMAIN ids) = ids
    BY SelectedAll
  <2>2. QED
    BY <1>2, <1>3, <2>1, SelectedNone DEF Order
<1>5. QED
  BY <1>4

\* Rows taken in another order and numbered from 1.
LEMMA NumberedOK ==
  ASSUME NEW list, ListOK(list), NEW new \in Seq(Row), DOMAIN new = DOMAIN list,
         NEW from, \A j \in DOMAIN list : from[j] \in DOMAIN list,
         \A j, l \in DOMAIN list : from[j] = from[l] => j = l,
         \A j \in DOMAIN list :
           /\ RowOK(new[j]) /\ new[j].queue = j
           /\ new[j].id = list[from[j]].id /\ new[j].hash = list[from[j]].hash
  PROVE  ListOK(new)
<1>1. Rising(new)
  BY DEF Rising
<1>2. ASSUME NEW j \in DOMAIN new, NEW l \in DOMAIN new,
             new[j].hash = new[l].hash \/ new[j].id = new[l].id
      PROVE  j = l
  <2>1. list[from[j]].hash = list[from[l]].hash \/ list[from[j]].id = list[from[l]].id
    BY <1>2
  <2>2. from[j] \in DOMAIN list /\ from[l] \in DOMAIN list
    OBVIOUS
  <2>3. from[j] = from[l]
    BY <2>1, <2>2 DEF ListOK, Single
  <2>4. QED
    BY <2>3
<1>3. QED
  BY <1>1, <1>2 DEF ListOK, Single

LEMMA DragIs ==
  ASSUME ListOK(torrents), NEW i \in DOMAIN torrents, NEW k \in DOMAIN torrents,
         DragRow(i, k)
  PROVE  /\ ListOK(torrents') /\ DOMAIN torrents' = DOMAIN torrents
         /\ \A j \in DOMAIN torrents :
              /\ torrents'[j].id = torrents[From(i, k, j)].id
              /\ torrents'[j].status = torrents[From(i, k, j)].status
<1>1. PICK ids \in Seq(Ids) : ids = IdsOf(torrents)
  BY IdsAre
<1>2. DOMAIN ids = DOMAIN torrents /\ \A j \in DOMAIN torrents : ids[j] = torrents[j].id
  BY <1>1, IdsAre
<1>3. PICK moved : moved = Dragged(ids, i, k)
  OBVIOUS
<1>4. torrents' = Reordered(moved)
  <2>1. SortedByQueue(torrents) = torrents
    BY SortedIsList DEF ListOK
  <2>2. QED
    BY <1>1, <1>3, <2>1 DEF DragRow, Visible, Dragged
<1>5. /\ Len(torrents) \in Nat /\ DOMAIN torrents = 1..Len(torrents)
      /\ Len(ids) = Len(torrents)
  <2>1. Len(torrents) \in Nat /\ DOMAIN torrents = 1..Len(torrents)
    BY Fields
  <2>2. DOMAIN ids = 1..Len(ids) /\ Len(ids) \in Nat
    OBVIOUS
  <2>3. QED
    BY <1>2, <2>1, <2>2
<1>6. /\ moved \in Seq(Ids) /\ DOMAIN moved = DOMAIN torrents
      /\ \A j \in DOMAIN torrents : moved[j] = ids[From(i, k, j)]
  <2>1. /\ moved \in Seq(Ids) /\ Len(moved) = Len(ids)
        /\ \A j \in DOMAIN ids : moved[j] = ids[From(i, k, j)]
    BY <1>2, <1>3, DraggedIs
  <2>2. DOMAIN moved = 1..Len(moved)
    BY <2>1
  <2>3. QED
    BY <1>2, <1>5, <2>1, <2>2
<1>7. PICK from : from = [j \in DOMAIN torrents |-> From(i, k, j)]
  OBVIOUS
<1>8. /\ \A j \in DOMAIN torrents : from[j] = From(i, k, j) /\ from[j] \in DOMAIN torrents
      /\ \A j, l \in DOMAIN torrents : from[j] = from[l] => j = l
      /\ \A m \in DOMAIN torrents : \E j \in DOMAIN torrents : from[j] = m
  <2>1. PICK n \in Nat : n = Len(torrents)
    BY <1>5
  <2>2. DOMAIN torrents = 1..n /\ i \in 1..n /\ k \in 1..n
    BY <1>5, <2>1
  <2>3. Shuffles(n, i, k)
    BY <2>2, FromAll, Zenon
  <2>4. QED
    BY <1>7, <2>2, <2>3 DEF Shuffles
<1>9. \A j \in DOMAIN torrents : moved[j] = torrents[from[j]].id
  BY <1>2, <1>6, <1>8
<1>10. \A j, l \in DOMAIN torrents : torrents[j].id = torrents[l].id => j = l
  BY DEF ListOK, Single
<1>11. Order(moved) = moved
  <2>1. \A j \in DOMAIN moved : \E m \in DOMAIN torrents : moved[j] = torrents[m].id
    BY <1>6, <1>8, <1>9
  <2>2. ASSUME NEW j \in DOMAIN moved, NEW l \in DOMAIN moved, moved[j] = moved[l]
        PROVE  j = l
    <3>1. torrents[from[j]].id = torrents[from[l]].id
      BY <1>6, <1>9, <2>2
    <3>2. from[j] = from[l]
      BY <1>6, <1>8, <1>10, <3>1
    <3>3. QED
      BY <1>6, <1>8, <3>2
  <2>3. ASSUME NEW m \in DOMAIN torrents
        PROVE  \E j \in DOMAIN moved : moved[j] = torrents[m].id
    <3>1. PICK j \in DOMAIN torrents : from[j] = m
      BY <1>8
    <3>2. QED
      BY <1>6, <1>9, <3>1
  <2>4. QED
    BY <1>6, <2>1, <2>2, <2>3, OrderIs
<1>12. PICK new : new = torrents'
  OBVIOUS
<1>13. /\ DOMAIN new = DOMAIN torrents
       /\ new = [j \in DOMAIN torrents |-> new[j]]
       /\ \A j \in DOMAIN torrents : new[j] = [torrents[from[j]] EXCEPT !.queue = j]
  <2>1. ASSUME NEW j \in DOMAIN torrents
        PROVE  (CHOOSE row \in ToSet(torrents) : row.id = moved[j]) = torrents[from[j]]
    <3>1. torrents[from[j]] \in ToSet(torrents) /\ torrents[from[j]].id = moved[j]
      BY <1>8, <1>9 DEF ToSet
    <3>2. ASSUME NEW row \in ToSet(torrents), row.id = moved[j] PROVE row = torrents[from[j]]
      <4>1. PICK m \in DOMAIN torrents : row = torrents[m]
        BY DEF ToSet
      <4>2. torrents[m].id = torrents[from[j]].id /\ from[j] \in DOMAIN torrents
        BY <1>8, <1>9, <3>2, <4>1
      <4>3. m = from[j]
        BY <1>10, <4>2
      <4>4. QED
        BY <4>1, <4>3
    <3>3. QED
      BY <3>1, <3>2
  <2>2. new = [j \in DOMAIN moved |->
                 [(CHOOSE row \in ToSet(torrents) : row.id = moved[j])
                    EXCEPT !.queue = j]]
    BY <1>4, <1>11, <1>12 DEF Reordered
  <2>3. QED
    BY <1>6, <2>1, <2>2
<1>14. ASSUME NEW j \in DOMAIN torrents
       PROVE  /\ new[j] \in Row /\ RowOK(new[j]) /\ new[j].queue = j
              /\ new[j].id = torrents[from[j]].id
              /\ new[j].hash = torrents[from[j]].hash
              /\ new[j].status = torrents[from[j]].status
  <2>1. PICK row \in Row, number \in Nat \ {0} :
          row = torrents[from[j]] /\ RowOK(row) /\ number = j
    <3>1. from[j] \in DOMAIN torrents
      BY <1>8
    <3>2. torrents[from[j]] \in Row /\ RowOK(torrents[from[j]])
      BY <3>1, Fields
    <3>3. j \in Nat \ {0}
      BY <1>5
    <3>4. QED
      BY <3>2, <3>3
  <2>2. new[j] = [row EXCEPT !.queue = number]
    BY <1>13, <2>1
  <2>3. QED
    BY <2>1, <2>2, WithNumber
<1>15. new \in Seq(Row)
  <2>1. new \in [1..Len(torrents) -> Row]
    BY <1>5, <1>13, <1>14
  <2>2. QED
    BY <1>5, <2>1
<1>16. ListOK(new)
  <2>1. \A j \in DOMAIN torrents : from[j] \in DOMAIN torrents
    BY <1>8
  <2>2. \A j, l \in DOMAIN torrents : from[j] = from[l] => j = l
    BY <1>8
  <2>3. \A j \in DOMAIN torrents :
          /\ RowOK(new[j]) /\ new[j].queue = j
          /\ new[j].id = torrents[from[j]].id /\ new[j].hash = torrents[from[j]].hash
    BY <1>14
  <2>4. DOMAIN new = DOMAIN torrents
    BY <1>13
  <2>5. QED
    BY <1>15, <2>1, <2>2, <2>3, <2>4, NumberedOK
<1>17. QED
  <2>1. ListOK(torrents') /\ DOMAIN torrents' = DOMAIN torrents
    BY <1>12, <1>13, <1>16
  <2>2. ASSUME NEW j \in DOMAIN torrents
        PROVE  /\ torrents'[j].id = torrents[From(i, k, j)].id
               /\ torrents'[j].status = torrents[From(i, k, j)].status
    <3>1. from[j] = From(i, k, j)
      BY <1>8
    <3>2. QED
      BY <1>12, <1>14, <3>1
  <2>3. QED
    BY <2>1, <2>2

-----------------------------------------------------------------------------
(* The invariant.                                                          *)

LEMMA SeedsOK == ListOK(Seeds)
<1>1. Seeds \in Seq(SeedRow) /\ Len(Seeds) \in Nat /\ DOMAIN Seeds = 1..Len(Seeds)
  BY FakeAssumption
<1>2. ASSUME NEW i \in DOMAIN Seeds PROVE Seeds[i] \in Row /\ RowOK(Seeds[i])
  <2>1. Seeds[i] \in SeedRow /\ Seeds[i].status # "blocked"
    BY <1>1, FakeAssumption
  <2>2. Seeds[i].id \in Ids /\ Seeds[i].hash \in KnownHashes
    BY DEF Ids, KnownHashes
  <2>3. Seeds[i] \in Row
    BY <2>1, <2>2 DEF SeedRow, Row
  <2>4. Seeds[i].status = "finished" <=> Seeds[i].id \in Finished
    <3>1. ASSUME NEW j \in DOMAIN Seeds, Seeds[j].id = Seeds[i].id PROVE j = i
      BY <3>1, FakeAssumption
    <3>2. QED
      BY <3>1 DEF Finished, IdsOfStatus
  <2>5. QED
    BY <2>1, <2>3, <2>4 DEF RowOK
<1>3. Seeds \in Seq(Row)
  <2>1. Seeds \in [1..Len(Seeds) -> Row]
    BY <1>1, <1>2
  <2>2. QED
    BY <1>1, <2>1
<1>4. Rising(Seeds) /\ Single(Seeds)
  BY FakeAssumption DEF Rising, Single
<1>5. QED
  BY <1>2, <1>3, <1>4 DEF ListOK

LEMMA Toggled ==
  /\ \A status \in RunningStatus : CanToggle(status)
  /\ \A status \in StoppedStatus : CanToggle(status)
BY DEF RunningStatus, StoppedStatus, IsRunning, CanToggle

LEMMA InitIInv == Init => IInv
BY SeedsOK DEF Init, IInv

LEMMA StepIInv ==
  ASSUME IInv, [Next]_vars
  PROVE  IInv'
<1>1. ListOK(torrents)
  BY DEF IInv
<1>2. ListOK(torrents')
  <2>1. CASE Initialize
    BY <1>1, <2>1 DEF Initialize
  <2>2. ASSUME NEW hash \in Hashes, AddTorrent(hash) PROVE ListOK(torrents')
    BY <1>1, <2>2, AddIs
  <2>3. ASSUME NEW id \in Ids, ToggleTorrent(id) PROVE ListOK(torrents')
    BY <1>1, <2>3, ToggleIs
  <2>4. ASSUME NEW id \in Ids, DeleteTorrent(id) PROVE ListOK(torrents')
    BY <1>1, <2>4, DeleteIs
  <2>5. CASE ResumeAll
    <3>1. torrents' = Restatus(StoppedStatus, "downloading")
      BY <2>5 DEF ResumeAll
    <3>2. QED
      BY <1>1, <3>1, Toggled, RestatusIs
  <2>6. CASE PauseAll \/ Shutdown
    <3>1. torrents' = Restatus(RunningStatus, "paused")
      BY <2>6 DEF PauseAll, Shutdown
    <3>2. QED
      BY <1>1, <3>1, Toggled, RestatusIs
  <2>7. ASSUME NEW i \in DOMAIN torrents, NEW k \in DOMAIN torrents, DragRow(i, k)
        PROVE  ListOK(torrents')
    BY <1>1, <2>7, DragIs
  <2>8. CASE UNCHANGED vars
    BY <1>1, <2>8 DEF vars
  <2>9. QED
    BY <2>1, <2>2, <2>3, <2>4, <2>5, <2>6, <2>7, <2>8 DEF Next
<1>3. /\ engineState' \in {"running", "shutdown"}
      /\ isShutdown' \in BOOLEAN /\ closed' \in BOOLEAN
  <2>1. /\ engineState \in {"running", "shutdown"}
        /\ isShutdown \in BOOLEAN /\ closed \in BOOLEAN
    BY DEF IInv
  <2>2. /\ engineState' \in {engineState, "running", "shutdown"}
        /\ isShutdown' \in {isShutdown, TRUE, FALSE}
        /\ closed' \in {closed, TRUE}
    BY DEF Next, vars, Initialize, AddTorrent, ToggleTorrent, DeleteTorrent, ResumeAll,
           PauseAll, Shutdown, DragRow
  <2>3. QED
    BY <2>1, <2>2
<1>4. QED
  BY <1>2, <1>3 DEF IInv

LEMMA Invariance == Spec => []IInv
BY InitIInv, StepIInv, PTL DEF Spec

\* Every row is a row, whatever the list went through: adding, removing and
\* dragging rows never leaves a hole in it or a number below one.
THEOREM TypeCorrect == Spec => []TypeOK
<1>1. IInv => TypeOK
  BY DEF IInv, ListOK, TypeOK
<1>2. QED
  BY <1>1, Invariance, PTL

\* The numbers rise along the list after any adds, removals and moves, so the
\* sort of visibleTorrents, which is not stable, has one result.
THEOREM NumbersIncrease == Spec => []QueueNumbersIncrease
<1>1. IInv => QueueNumbersIncrease
  BY DEF IInv, ListOK, Rising, QueueNumbersIncrease
<1>2. QED
  BY <1>1, Invariance, PTL

\* No torrent is twice in the list, by its id or by its hash, although
\* addTorrent looks for the hash only.
THEOREM OncePerHash == Spec => []OneRowPerHash
<1>1. IInv => OneRowPerHash
  BY DEF IInv, ListOK, Single, OneRowPerHash
<1>2. QED
  BY <1>1, Invariance, PTL

-----------------------------------------------------------------------------
(* The engine implements TorrentQueue.                                     *)

\* What the screens show is the list.
LEMMA ShownIs ==
  ASSUME NEW list, ListOK(list)
  PROVE  IdsOf(SortedByQueue(list)) = IdsOf(list)
BY SortedIsList DEF ListOK

\* A torrent that can be toggled is one that is not finished.
LEMMA TogglesIs ==
  ASSUME ListOK(torrents), NEW i \in DOMAIN torrents
  PROVE  CanToggle(torrents[i].status) <=> torrents[i].id \notin Finished
<1>1. RowOK(torrents[i])
  BY DEF ListOK
<1>2. QED
  BY <1>1 DEF RowOK, CanToggle

\* Two lists of the same rows show the same ids.
LEMMA SameIds ==
  ASSUME NEW list, NEW new, DOMAIN new = DOMAIN list,
         \A i \in DOMAIN list : new[i].id = list[i].id
  PROVE  IdsOf(new) = IdsOf(list)
BY DEF IdsOf

LEMMA InQueue ==
  ASSUME ListOK(torrents), NEW t
  PROVE  Queue!In(t) <=> \E i \in DOMAIN torrents : torrents[i].id = t
BY ShownIs, IdsAre DEF Queue!In, Visible

LEMMA InitMaps == Init => Queue!QueueInit
<1>1. SUFFICES ASSUME Init PROVE Queue!QueueInit
  OBVIOUS
<1>2. torrents = Seeds
  BY <1>1 DEF Init
<1>3. IdsOf(Visible) = IdsOf(Seeds)
  BY <1>2, SeedsOK, ShownIs DEF Visible
<1>4. QED
  BY <1>2, <1>3 DEF Queue!QueueInit

LEMMA AddMaps ==
  ASSUME ListOK(torrents), NEW hash \in Hashes, AddTorrent(hash)
  PROVE  Queue!Enqueue(hash)
<1>1. PICK new : new = torrents'
  OBVIOUS
<1>2. /\ ListOK(new) /\ Len(new) = Len(torrents) + 1
      /\ new[1].id = hash /\ new[1].status = "downloading"
      /\ \A i \in DOMAIN torrents :
           /\ new[i + 1].id = torrents[i].id /\ torrents[i].id # hash
           /\ new[i + 1].status = torrents[i].status
  BY <1>1, AddIs
<1>3. /\ Len(torrents) \in Nat /\ DOMAIN torrents = 1..Len(torrents)
      /\ DOMAIN new = 1..(Len(torrents) + 1)
  BY <1>2, Fields
<1>4. IdsOf(new) = <<hash>> \o IdsOf(torrents)
  <2>1. PICK ids : ids = IdsOf(torrents)
    OBVIOUS
  <2>2. ids \in Seq(Ids) /\ Len(ids) = Len(torrents) /\ \A j \in DOMAIN torrents : ids[j] = torrents[j].id
    <3>1. /\ ids \in Seq(Ids) /\ DOMAIN ids = DOMAIN torrents
          /\ \A j \in DOMAIN torrents : ids[j] = torrents[j].id
      BY <2>1, IdsAre
    <3>2. DOMAIN ids = 1..Len(ids) /\ Len(ids) \in Nat
      BY <3>1
    <3>3. QED
      BY <1>3, <3>1, <3>2
  <2>3. PICK all : all = <<hash>> \o ids
    OBVIOUS
  <2>4. all \in Seq(Ids) /\ First(all, hash, ids)
    <3>1. hash \in Ids
      BY AddedIsNew
    <3>2. QED
      BY <2>2, <2>3, <3>1, Prepended
  <2>5. DOMAIN all = 1..(Len(torrents) + 1)
    BY <2>2, <2>4 DEF First
  <2>6. ASSUME NEW j \in 1..(Len(torrents) + 1) PROVE all[j] = new[j].id
    <3>1. CASE j = 1
      BY <3>1, <2>4, <1>2 DEF First
    <3>2. CASE j # 1
      <4>1. j - 1 \in 1..Len(torrents) /\ (j - 1) + 1 = j
        BY <3>2, <1>3
      <4>2. PICK m \in 1..Len(torrents) : m + 1 = j
        BY <4>1
      <4>3. all[m + 1] = ids[m]
        BY <2>2, <2>4 DEF First
      <4>4. QED
        BY <1>2, <1>3, <2>2, <4>2, <4>3
    <3>3. QED
      BY <3>1, <3>2
  <2>7. IdsOf(new) = [j \in 1..(Len(torrents) + 1) |-> new[j].id]
    BY <1>3 DEF IdsOf
  <2>8. all = [j \in 1..(Len(torrents) + 1) |-> all[j]]
    BY <2>4, <2>5
  <2>9. QED
    BY <2>1, <2>3, <2>6, <2>7, <2>8
<1>5. IdsOfStatus(new, RunningStatus) = IdsOfStatus(torrents, RunningStatus) \cup {hash}
  <2>1. "downloading" \in RunningStatus
    BY DEF RunningStatus, TorrentStatus, IsRunning
  <2>2. ASSUME NEW j \in DOMAIN new, new[j].status \in RunningStatus
        PROVE  new[j].id \in IdsOfStatus(torrents, RunningStatus) \cup {hash}
    <3>1. CASE j = 1
      BY <3>1, <1>2
    <3>2. CASE j # 1
      <4>1. j - 1 \in DOMAIN torrents /\ (j - 1) + 1 = j
        BY <3>2, <1>3
      <4>2. PICK m \in DOMAIN torrents : m + 1 = j
        BY <4>1
      <4>3. new[j].id = torrents[m].id /\ torrents[m].status \in RunningStatus
        BY <1>2, <2>2, <4>2
      <4>4. QED
        BY <4>3 DEF IdsOfStatus
    <3>3. QED
      BY <3>1, <3>2
  <2>3. ASSUME NEW m \in DOMAIN torrents, torrents[m].status \in RunningStatus
        PROVE  torrents[m].id \in IdsOfStatus(new, RunningStatus)
    <3>1. m + 1 \in DOMAIN new
      BY <1>3
    <3>2. new[m + 1].id = torrents[m].id /\ new[m + 1].status \in RunningStatus
      BY <1>2, <2>3
    <3>3. QED
      BY <3>1, <3>2 DEF IdsOfStatus
  <2>4. hash \in IdsOfStatus(new, RunningStatus)
    <3>1. 1 \in DOMAIN new
      BY <1>3
    <3>2. QED
      BY <1>2, <2>1, <3>1 DEF IdsOfStatus
  <2>5. QED
    BY <2>2, <2>3, <2>4 DEF IdsOfStatus
<1>6. ~Queue!In(hash) /\ hash \notin Finished
  BY <1>2, InQueue, AddedIsNew
<1>7. IdsOf(Visible)' = <<hash>> \o IdsOf(Visible)
  BY <1>1, <1>2, <1>4, ShownIs DEF Visible
<1>8. QED
  BY <1>1, <1>5, <1>6, <1>7 DEF Queue!Enqueue, Finished

LEMMA ToggleMaps ==
  ASSUME ListOK(torrents), NEW id, ToggleTorrent(id)
  PROVE  Queue!Toggle(id)
<1>1. PICK new : new = torrents'
  OBVIOUS
<1>2. ListOK(new) /\ DOMAIN new = DOMAIN torrents
  BY <1>1, ToggleIs
<1>3. PICK i \in DOMAIN torrents :
        /\ torrents[i].id = id /\ CanToggle(torrents[i].status)
        /\ new[i].status = IF IsRunning(torrents[i].status) THEN "paused"
                           ELSE "downloading"
        /\ \A j \in DOMAIN torrents :
             /\ new[j].id = torrents[j].id
             /\ j # i => new[j].status = torrents[j].status
  BY <1>1, ToggleIs
<1>4. IdsOf(Visible)' = IdsOf(Visible)
  <2>1. IdsOf(new) = IdsOf(torrents)
    BY <1>2, <1>3, SameIds
  <2>2. QED
    BY <1>1, <1>2, <2>1, ShownIs DEF Visible
<1>5. Queue!Toggles(id)
  BY <1>3, InQueue, TogglesIs DEF Queue!Toggles, Finished
<1>6. \A j \in DOMAIN torrents : torrents[j].id = id => j = i
  BY <1>3 DEF ListOK, Single
<1>7. /\ torrents[i].status \in RunningStatus <=> IsRunning(torrents[i].status)
      /\ "paused" \notin RunningStatus /\ "downloading" \in RunningStatus
  BY Fields DEF RunningStatus, IsRunning, TorrentStatus
<1>8. id \in IdsOfStatus(torrents, RunningStatus) <=> IsRunning(torrents[i].status)
  BY <1>3, <1>6, <1>7 DEF IdsOfStatus
<1>9. \A j \in DOMAIN torrents :
        j # i => (new[j].status \in RunningStatus <=> torrents[j].status \in RunningStatus)
  BY <1>3
<1>10. IdsOfStatus(new, RunningStatus) =
         IF id \in IdsOfStatus(torrents, RunningStatus)
         THEN IdsOfStatus(torrents, RunningStatus) \ {id}
         ELSE IdsOfStatus(torrents, RunningStatus) \cup {id}
  <2>1. CASE IsRunning(torrents[i].status)
    <3>1. new[i].status \notin RunningStatus
      BY <1>3, <1>7, <2>1
    <3>2. QED
      BY <1>2, <1>3, <1>6, <1>8, <1>9, <2>1, <3>1 DEF IdsOfStatus
  <2>2. CASE ~IsRunning(torrents[i].status)
    <3>1. new[i].status \in RunningStatus
      BY <1>3, <1>7, <2>2
    <3>2. QED
      BY <1>2, <1>3, <1>6, <1>8, <1>9, <2>2, <3>1 DEF IdsOfStatus
  <2>3. QED
    BY <2>1, <2>2
<1>11. QED
  BY <1>1, <1>4, <1>5, <1>10 DEF Queue!Toggle

LEMMA DeleteMaps ==
  ASSUME ListOK(torrents), NEW id, DeleteTorrent(id)
  PROVE  Queue!Dequeue(id)
<1>1. PICK new : new = torrents'
  OBVIOUS
<1>2. PICK i \in DOMAIN torrents :
        ListOK(new) /\ torrents[i].id = id /\ new = RemoveAt(torrents, i)
  BY <1>1, DeleteIs
<1>3. PICK ids \in Seq(Ids) :
        /\ ids = IdsOf(torrents) /\ DOMAIN ids = DOMAIN torrents
        /\ \A j \in DOMAIN torrents : ids[j] = torrents[j].id
  BY IdsAre
<1>4. /\ Len(torrents) \in Nat /\ DOMAIN torrents = 1..Len(torrents)
      /\ Len(ids) = Len(torrents)
  <2>1. Len(torrents) \in Nat /\ DOMAIN torrents = 1..Len(torrents)
    BY Fields
  <2>2. DOMAIN ids = 1..Len(ids) /\ Len(ids) \in Nat
    OBVIOUS
  <2>3. QED
    BY <1>3, <2>1, <2>2
<1> DEFINE from(k) == IF k < i THEN k ELSE k + 1
<1>5. /\ DOMAIN new = 1..(Len(torrents) - 1)
      /\ \A k \in 1..(Len(torrents) - 1) : new[k] = torrents[from(k)]
  <2>1. torrents \in Seq(Row)
    BY DEF ListOK
  <2>2. /\ new \in Seq(Row) /\ Len(new) = Len(torrents) - 1
        /\ \A k \in 1..(Len(torrents) - 1) :
             new[k] = torrents[IF k < i THEN k ELSE k + 1]
    BY <1>2, <2>1, RemovedAt
  <2>3. DOMAIN new = 1..Len(new)
    BY <2>2
  <2>4. QED
    BY <2>2, <2>3
<1>6. PICK others \in Seq(Ids) :
        /\ others = RemoveAt(ids, i) /\ DOMAIN others = 1..(Len(torrents) - 1)
        /\ \A k \in 1..(Len(torrents) - 1) : others[k] = ids[from(k)]
  <2>1. PICK others : others = RemoveAt(ids, i)
    OBVIOUS
  <2>2. /\ others \in Seq(Ids) /\ Len(others) = Len(ids) - 1
        /\ \A k \in 1..(Len(ids) - 1) : others[k] = ids[IF k < i THEN k ELSE k + 1]
    BY <1>3, <2>1, RemovedAt
  <2>3. DOMAIN others = 1..Len(others)
    BY <2>2
  <2>4. QED
    BY <1>4, <2>1, <2>2, <2>3
<1>7. /\ \A k \in 1..(Len(torrents) - 1) : from(k) \in DOMAIN torrents /\ from(k) # i
      /\ \A j \in DOMAIN torrents :
           j # i => \E k \in 1..(Len(torrents) - 1) : from(k) = j
  <2>1. ASSUME NEW k \in 1..(Len(torrents) - 1)
        PROVE  from(k) \in DOMAIN torrents /\ from(k) # i
    BY <1>4
  <2>2. ASSUME NEW j \in DOMAIN torrents, j # i
        PROVE  \E k \in 1..(Len(torrents) - 1) : from(k) = j
    <3>1. CASE j < i
      <4>1. j \in 1..(Len(torrents) - 1) /\ from(j) = j
        BY <1>4, <3>1
      <4>2. QED
        BY <4>1
    <3>2. CASE ~(j < i)
      <4>1. j - 1 \in 1..(Len(torrents) - 1) /\ from(j - 1) = j
        BY <1>4, <2>2, <3>2
      <4>2. QED
        BY <4>1
    <3>3. QED
      BY <3>1, <3>2
  <2>3. QED
    BY <2>1, <2>2
<1> HIDE DEF from
<1>8. IdsOf(new) = others
  <2>1. \A k \in 1..(Len(torrents) - 1) : others[k] = new[k].id
    BY <1>3, <1>5, <1>6, <1>7
  <2>2. IdsOf(new) = [k \in 1..(Len(torrents) - 1) |-> new[k].id]
    BY <1>5 DEF IdsOf
  <2>3. others = [k \in 1..(Len(torrents) - 1) |-> others[k]]
    BY <1>6
  <2>4. QED
    BY <2>1, <2>2, <2>3
<1>9. IdsOfStatus(new, RunningStatus) = IdsOfStatus(torrents, RunningStatus) \ {id}
  <2>1. \A j \in DOMAIN torrents : torrents[j].id = id <=> j = i
    BY <1>2 DEF ListOK, Single
  <2>2. ASSUME NEW k \in DOMAIN new, new[k].status \in RunningStatus
        PROVE  new[k].id \in IdsOfStatus(torrents, RunningStatus) \ {id}
    <3>1. PICK j \in DOMAIN torrents : new[k] = torrents[j] /\ j # i
      BY <1>5, <1>7
    <3>2. QED
      BY <2>1, <2>2, <3>1 DEF IdsOfStatus
  <2>3. ASSUME NEW j \in DOMAIN torrents, torrents[j].status \in RunningStatus, j # i
        PROVE  torrents[j].id \in IdsOfStatus(new, RunningStatus)
    <3>1. PICK k \in 1..(Len(torrents) - 1) : from(k) = j
      BY <1>7, <2>3
    <3>2. k \in DOMAIN new /\ new[k] = torrents[j]
      BY <1>5, <3>1
    <3>3. QED
      BY <2>3, <3>2 DEF IdsOfStatus
  <2>4. QED
    BY <2>1, <2>2, <2>3 DEF IdsOfStatus
<1>10. IdsOf(Visible) = ids /\ IdsOf(Visible)' = others
  BY <1>1, <1>2, <1>3, <1>8, ShownIs DEF Visible
<1>11. i \in DOMAIN ids /\ ids[i] = id /\ others = RemoveAt(ids, i)
  BY <1>2, <1>3, <1>6
<1>12. RemoveAt(ids, i) = Queue!RemoveAt(ids, i)
  BY DEF RemoveAt, Queue!RemoveAt
<1>13. IdsOfStatus(torrents, RunningStatus)' = IdsOfStatus(torrents, RunningStatus) \ {id}
  BY <1>1, <1>9 DEF IdsOfStatus, RunningStatus
<1>14. \E j \in DOMAIN IdsOf(Visible) :
         /\ IdsOf(Visible)[j] = id
         /\ IdsOf(Visible)' = Queue!RemoveAt(IdsOf(Visible), j)
  BY <1>10, <1>11, <1>12
<1>15. QED
  BY <1>13, <1>14, Zenon DEF Queue!Dequeue

LEMMA DragMaps ==
  ASSUME ListOK(torrents), NEW i \in DOMAIN torrents, NEW k \in DOMAIN torrents,
         DragRow(i, k)
  PROVE  i \in DOMAIN IdsOf(Visible) /\ k \in DOMAIN IdsOf(Visible) /\ Queue!Move(i, k)
<1>1. PICK new : new = torrents'
  OBVIOUS
<1>2. /\ ListOK(new) /\ DOMAIN new = DOMAIN torrents
      /\ \A j \in DOMAIN torrents :
           /\ new[j].id = torrents[From(i, k, j)].id
           /\ new[j].status = torrents[From(i, k, j)].status
  BY <1>1, DragIs
<1>3. PICK ids \in Seq(Ids) :
        /\ ids = IdsOf(torrents) /\ DOMAIN ids = DOMAIN torrents
        /\ \A j \in DOMAIN torrents : ids[j] = torrents[j].id
  BY IdsAre
<1>4. PICK n \in Nat : DOMAIN torrents = 1..n /\ Len(ids) = n
  <2>1. Len(torrents) \in Nat /\ DOMAIN torrents = 1..Len(torrents)
    BY Fields
  <2>2. DOMAIN ids = 1..Len(ids) /\ Len(ids) \in Nat
    OBVIOUS
  <2>3. QED
    BY <1>3, <2>1, <2>2
<1>5. Shuffles(n, i, k)
  BY <1>4, FromAll
<1>6. PICK moved : moved = Dragged(ids, i, k)
  OBVIOUS
<1>7. /\ moved = [j \in 1..n |-> moved[j]]
      /\ \A j \in 1..n : moved[j] = ids[From(i, k, j)]
  <2>1. /\ moved \in Seq(Ids) /\ Len(moved) = Len(ids)
        /\ \A j \in DOMAIN ids : moved[j] = ids[From(i, k, j)]
    <3>1. i \in DOMAIN ids /\ k \in DOMAIN ids
      BY <1>3
    <3>2. QED
      BY <3>1, <1>6, DraggedIs
  <2>2. moved = [j \in 1..Len(moved) |-> moved[j]]
    BY <2>1
  <2>3. QED
    BY <1>3, <1>4, <2>1, <2>2
<1>8. IdsOf(new) = moved
  <2>1. ASSUME NEW j \in 1..n PROVE moved[j] = new[j].id
    <3>1. PICK m \in 1..n : m = From(i, k, j)
      BY <1>5 DEF Shuffles
    <3>2. moved[j] = ids[m] /\ ids[m] = torrents[m].id
      BY <1>3, <1>4, <1>7, <3>1
    <3>3. new[j].id = torrents[m].id
      BY <1>2, <1>4, <3>1
    <3>4. QED
      BY <3>2, <3>3
  <2>2. IdsOf(new) = [j \in 1..n |-> new[j].id]
    BY <1>2, <1>4 DEF IdsOf
  <2>3. QED
    BY <1>7, <2>1, <2>2
<1>9. IdsOfStatus(new, RunningStatus) = IdsOfStatus(torrents, RunningStatus)
  <2>1. ASSUME NEW j \in 1..n, new[j].status \in RunningStatus
        PROVE  new[j].id \in IdsOfStatus(torrents, RunningStatus)
    <3>1. PICK m \in 1..n : m = From(i, k, j)
      BY <1>5 DEF Shuffles
    <3>2. /\ new[j].id = torrents[From(i, k, j)].id
          /\ new[j].status = torrents[From(i, k, j)].status
      BY <1>2, <1>4, Zenon
    <3>3. new[j].id = torrents[m].id /\ torrents[m].status \in RunningStatus
      BY <2>1, <3>1, <3>2, Zenon
    <3>4. QED
      BY <1>4, <3>3 DEF IdsOfStatus
  <2>2. ASSUME NEW m \in 1..n, torrents[m].status \in RunningStatus
        PROVE  torrents[m].id \in IdsOfStatus(new, RunningStatus)
    <3>1. PICK j \in 1..n : m = From(i, k, j)
      BY <1>5 DEF Shuffles
    <3>2. /\ new[j].id = torrents[From(i, k, j)].id
          /\ new[j].status = torrents[From(i, k, j)].status
      BY <1>2, <1>4, Zenon
    <3>3. new[j].id = torrents[m].id /\ new[j].status \in RunningStatus
      BY <2>2, <3>1, <3>2, Zenon
    <3>4. QED
      BY <1>2, <1>4, <3>3 DEF IdsOfStatus
  <2>3. QED
    BY <1>2, <1>4, <2>1, <2>2 DEF IdsOfStatus
<1>10. IdsOf(Visible) = ids /\ IdsOf(Visible)' = moved
  BY <1>1, <1>2, <1>3, <1>8, ShownIs DEF Visible
<1>11. moved = Queue!InsertAt(Queue!RemoveAt(ids, i), k, ids[i])
  <2>1. RemoveAt(ids, i) = Queue!RemoveAt(ids, i)
    BY DEF RemoveAt, Queue!RemoveAt
  <2>2. \A list, item : InsertAt(list, k, item) = Queue!InsertAt(list, k, item)
    BY DEF InsertAt, Queue!InsertAt
  <2>3. QED
    BY <1>6, <2>1, <2>2 DEF Dragged
<1>12. UNCHANGED IdsOfStatus(torrents, RunningStatus)
  BY <1>1, <1>9 DEF IdsOfStatus, RunningStatus
<1>13. i \in DOMAIN IdsOf(Visible) /\ k \in DOMAIN IdsOf(Visible)
  BY <1>3, <1>10
<1>14. QED
  BY <1>10, <1>11, <1>12, <1>13 DEF Queue!Move

LEMMA ResumeMaps ==
  ASSUME ListOK(torrents), ResumeAll
  PROVE  Queue!ResumeAll
<1>1. PICK new : new = torrents'
  OBVIOUS
<1>2. /\ ListOK(new) /\ DOMAIN new = DOMAIN torrents
      /\ \A j \in DOMAIN torrents :
           /\ new[j].id = torrents[j].id
           /\ new[j].status = IF torrents[j].status \in StoppedStatus THEN "downloading"
                              ELSE torrents[j].status
  <2>1. new = Restatus(StoppedStatus, "downloading")
    BY <1>1 DEF ResumeAll
  <2>2. QED
    BY <2>1, Toggled, RestatusIs
<1>3. IdsOf(Visible)' = IdsOf(Visible)
  <2>1. IdsOf(new) = IdsOf(torrents)
    BY <1>2, SameIds
  <2>2. QED
    BY <1>1, <1>2, <2>1, ShownIs DEF Visible
<1>4. ASSUME NEW j \in DOMAIN torrents
      PROVE  new[j].status \in RunningStatus <=> torrents[j].id \notin Finished
  <2>1. torrents[j].status \in TorrentStatus
    BY Fields
  <2>2. new[j].status \in RunningStatus <=> CanToggle(torrents[j].status)
    BY <1>2, <2>1 DEF StoppedStatus, RunningStatus, CanToggle, IsRunning, TorrentStatus
  <2>3. QED
    BY <2>2, TogglesIs
<1>5. IdsOfStatus(new, RunningStatus) = {t \in Ids : Queue!Toggles(t)}
  <2>1. \A t : Queue!Toggles(t) <=>
                 /\ \E j \in DOMAIN torrents : torrents[j].id = t
                 /\ t \notin Finished
    BY InQueue DEF Queue!Toggles, Finished
  <2>2. \A j \in DOMAIN torrents : torrents[j].id \in Ids
    BY Fields
  <2>3. ASSUME NEW t
        PROVE  t \in IdsOfStatus(new, RunningStatus) <=> t \in Ids /\ Queue!Toggles(t)
    <3>1. t \in IdsOfStatus(new, RunningStatus) <=>
            \E j \in DOMAIN torrents : new[j].id = t /\ new[j].status \in RunningStatus
      BY <1>2 DEF IdsOfStatus
    <3>2. QED
      BY <1>2, <1>4, <2>1, <2>2, <3>1
  <2>4. QED
    BY <2>3
<1>6. IdsOfStatus(torrents, RunningStatus)' = {t \in Ids : Queue!Toggles(t)}
  BY <1>1, <1>5 DEF IdsOfStatus, RunningStatus
<1>7. QED
  BY <1>3, <1>6, Zenon DEF Queue!ResumeAll

LEMMA PauseMaps ==
  ASSUME ListOK(torrents), torrents' = Restatus(RunningStatus, "paused")
  PROVE  Queue!PauseAll
<1>1. PICK new : new = torrents'
  OBVIOUS
<1>2. /\ ListOK(new) /\ DOMAIN new = DOMAIN torrents
      /\ \A j \in DOMAIN torrents :
           /\ new[j].id = torrents[j].id
           /\ new[j].status = IF torrents[j].status \in RunningStatus THEN "paused"
                              ELSE torrents[j].status
  BY <1>1, Toggled, RestatusIs
<1>3. IdsOf(Visible)' = IdsOf(Visible)
  <2>1. IdsOf(new) = IdsOf(torrents)
    BY <1>2, SameIds
  <2>2. QED
    BY <1>1, <1>2, <2>1, ShownIs DEF Visible
<1>4. "paused" \notin RunningStatus
  BY DEF RunningStatus, IsRunning
<1>5. IdsOfStatus(new, RunningStatus) = {}
  BY <1>2, <1>4 DEF IdsOfStatus
<1>6. IdsOfStatus(torrents, RunningStatus)' = {}
  BY <1>1, <1>5 DEF IdsOfStatus, RunningStatus
<1>7. QED
  BY <1>3, <1>6 DEF Queue!PauseAll

LEMMA StepMaps ==
  ASSUME IInv, [Next]_vars
  PROVE  [Queue!QueueNext]_(Queue!queueVars)
<1>1. ListOK(torrents)
  BY DEF IInv
<1>2. CASE Initialize \/ UNCHANGED vars
  <2>1. torrents' = torrents
    BY <1>2 DEF Initialize, vars
  <2>2. UNCHANGED Queue!queueVars
    BY <2>1 DEF Queue!queueVars, Visible, IdsOf, SortedByQueue, Precedes, IdsOfStatus,
                RunningStatus
  <2>3. QED
    BY <2>2
<1>3. ASSUME NEW hash \in Hashes, AddTorrent(hash) PROVE Queue!QueueNext
  <2>1. hash \in Ids /\ Queue!Enqueue(hash)
    BY <1>1, <1>3, AddMaps, AddedIsNew
  <2>2. QED
    BY <2>1, Zenon DEF Queue!QueueNext
<1>4. ASSUME NEW id \in Ids, ToggleTorrent(id) \/ DeleteTorrent(id) PROVE Queue!QueueNext
  <2>1. Queue!Toggle(id) \/ Queue!Dequeue(id)
    BY <1>1, <1>4, ToggleMaps, DeleteMaps
  <2>2. QED
    BY <2>1, Zenon DEF Queue!QueueNext
<1>5. CASE ResumeAll
  BY <1>1, <1>5, ResumeMaps, Zenon DEF Queue!QueueNext
<1>6. CASE PauseAll \/ Shutdown
  <2>1. torrents' = Restatus(RunningStatus, "paused")
    BY <1>6 DEF PauseAll, Shutdown
  <2>2. Queue!PauseAll
    BY <1>1, <2>1, PauseMaps
  <2>3. QED
    BY <2>2, Zenon DEF Queue!QueueNext
<1>7. ASSUME NEW i \in DOMAIN torrents, NEW k \in DOMAIN torrents, DragRow(i, k)
      PROVE  Queue!QueueNext
  <2>1. i \in DOMAIN IdsOf(Visible) /\ k \in DOMAIN IdsOf(Visible) /\ Queue!Move(i, k)
    BY <1>1, <1>7, DragMaps
  <2>2. QED
    BY <2>1, Zenon DEF Queue!QueueNext
<1>8. QED
  BY <1>2, <1>3, <1>4, <1>5, <1>6, <1>7 DEF Next

\* The engine keeps the promises of TorrentQueue: an order that only the user
\* changes, in which an added torrent comes first and a dragged one alone
\* changes its place, and of those that can run the ones the user lets run.
THEOREM QueueIsKept == Spec => KeepsQueuePromises
BY InitMaps, StepMaps, Invariance, PTL DEF Spec, KeepsQueuePromises, Queue!QueueSpec

=============================================================================

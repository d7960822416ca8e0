----------------------- MODULE TorrentSchedulerProofs -----------------------
(***************************************************************************)
(* Theorems about TorrentScheduler, for a day of any length, any tables    *)
(* and any number of events: the armed timers stand for the times that     *)
(* were read, no timer fires at a minute nobody asked for, and a scheduler *)
(* disposed at rest stays silent.                                          *)
(*                                                                         *)
(* A kind's field is only settled once no read of that kind is to come:    *)
(* every run begins by cancelling both fields, so that the last run to     *)
(* read a time is the one whose timer the field refers to.                 *)
(***************************************************************************)
EXTENDS TorrentScheduler, TLAPS

\* A run under way will read the time of this kind.
Pending(kind) ==
  \E i \in DOMAIN reading : reading[i].kind = "start" \/ reading[i].kind = kind

\* A timer that is to fire after so many minutes does so at this time.
FiresAt(after) == (now + after) % Day

\* What was read last is armed, unless it is to be read again.
FieldOK(kind) ==
  ~disposed /\ Never("fault") /\ ~Pending(kind) =>
    /\ known[kind] = NoTime <=> field[kind] = NoTime
    /\ Never("shift") /\ field[kind] # NoTime => FiresAt(field[kind]) = known[kind]

\* A time that was never saved was never read, let alone armed.
UnsavedOK(kind) ==
  saved[kind] = NoTime => known[kind] = NoTime /\ field[kind] = NoTime

\* Every timer, in a field or not, fires at a time that was read once.
TimersOK(kind) ==
  Never("shift") =>
    /\ field[kind] # NoTime => FiresAt(field[kind]) \in everKnown[kind]
    /\ \A after \in 0..Day :
         orphans[kind][after] > 0 => FiresAt(after) \in everKnown[kind]

\* A scheduler that was disposed at rest has nothing left that could begin a
\* run: no timer fires, no read is answered, and initialize() is over.
Silent ==
  quiet => /\ field = Cancelled /\ orphans = NoOrphans
           /\ reading = << >> /\ initPc # "none"

IInv ==
  /\ TypeOK
  /\ \A kind \in Kinds : FieldOK(kind) /\ UnsavedOK(kind) /\ TimersOK(kind)
  /\ Silent

-----------------------------------------------------------------------------
(* Minutes.                                                                *)

\* What is less than two days away is at most one day ahead.
LEMMA WrapOnceAt ==
  ASSUME NEW d \in Nat, d > 0, NEW x \in 0..(2 * d - 1)
  PROVE  x % d = IF x < d THEN x ELSE x - d
<1>1. CASE x < d
  BY <1>1
<1>2. CASE ~(x < d)
  BY <1>2
<1>3. QED
  BY <1>1, <1>2

LEMMA WrapOnce ==
  ASSUME NEW x \in 0..(2 * Day - 1)
  PROVE  x % Day = IF x < Day THEN x ELSE x - Day
<1>1. Day \in Nat /\ Day > 0
  BY SchedulerAssumption
<1>2. QED
  BY <1>1, WrapOnceAt

\* The next occurrence of a time is within a day, and is of that time.
LEMMA NextOccurs ==
  ASSUME now \in Minutes, NEW time \in Minutes
  PROVE  /\ NextOccurrence(time) \in 1..Day
         /\ FiresAt(NextOccurrence(time)) = time
<1>1. Day \in Nat /\ now \in 0..(Day - 1) /\ time \in 0..(Day - 1)
  BY SchedulerAssumption DEF Minutes
<1>2. NextOccurrence(time) \in 1..Day
  BY <1>1 DEF NextOccurrence
<1>3. now + NextOccurrence(time) = IF time > now THEN time ELSE time + Day
  BY <1>1 DEF NextOccurrence
<1>4. now + NextOccurrence(time) \in 0..(2 * Day - 1)
  BY <1>1, <1>3
<1>5. QED
  BY <1>1, <1>2, <1>3, <1>4, WrapOnce DEF FiresAt

\* The minute after h, and a minute less to go from there.
LEMMA SameMinute ==
  ASSUME NEW d \in Nat, d >= 2, NEW h \in 0..(d - 1), NEW a \in 1..d,
         NEW n, n = (h + 1) % d
  PROVE  n \in 0..(d - 1) /\ (n + (a - 1)) % d = (h + a) % d
<1>1. n = IF h + 1 < d THEN h + 1 ELSE 0
  <2>1. h + 1 \in 0..(2 * d - 1) /\ d > 0
    OBVIOUS
  <2> DEFINE next == h + 1
  <2> HIDE DEF next
  <2>2. next % d = IF next < d THEN next ELSE next - d
    BY <2>1, WrapOnceAt DEF next
  <2>3. n = IF next < d THEN next ELSE next - d
    BY <2>2 DEF next
  <2>4. (IF next < d THEN next ELSE next - d) = (IF next < d THEN next ELSE 0)
    BY DEF next
  <2>5. QED
    BY <2>3, <2>4 DEF next
<1> DEFINE x == n + (a - 1)
           y == h + a
<1>2. /\ x \in 0..(2 * d - 1) /\ y \in 0..(2 * d - 1) /\ n \in 0..(d - 1)
      /\ (IF x < d THEN x ELSE x - d) = (IF y < d THEN y ELSE y - d)
  BY <1>1
<1> HIDE DEF x, y
<1>3. x % d = (IF x < d THEN x ELSE x - d) /\ y % d = (IF y < d THEN y ELSE y - d)
  BY <1>2, WrapOnceAt
<1>4. x % d = y % d
  BY <1>2, <1>3
<1>5. QED
  BY <1>2, <1>4 DEF x, y

\* A minute later a timer has a minute less and fires at the same time.
LEMMA MinutePasses ==
  ASSUME now \in Minutes, now' = (now + 1) % Day, NEW after \in 1..Day
  PROVE  FiresAt(after - 1)' = FiresAt(after) /\ now' \in Minutes
<1>1. Day \in Nat /\ Day >= 2 /\ now \in 0..(Day - 1)
  BY SchedulerAssumption DEF Minutes
<1>2. now' \in 0..(Day - 1) /\ (now' + (after - 1)) % Day = (now + after) % Day
  BY <1>1, SameMinute, Zenon
<1>3. QED
  BY <1>2, Zenon DEF FiresAt, Minutes

-----------------------------------------------------------------------------
(* Events and reads.                                                       *)

LEMMA KindsAre == Kinds = {"start", "shutdown"}
BY DEF Kinds

\* What has not happened by now had not happened before.
LEMMA Counted ==
  ASSUME TypeOK, NEW event \in Events, Happens(event)
  PROVE  /\ events' \in [Events -> Nat]
         /\ \A e \in Events : Never(e)' => Never(e)
         /\ ~Never(event)'
<1>1. events \in [Events -> Nat] /\ events' = [events EXCEPT ![event] = @ + 1]
  BY DEF TypeOK, Happens
<1>2. events' \in [Events -> Nat]
  BY <1>1
<1>3. ASSUME NEW e \in Events PROVE Never(e)' => Never(e)
  BY <1>1 DEF Never
<1>4. ~Never(event)'
  BY <1>1 DEF Never
<1>5. QED
  BY <1>2, <1>3, <1>4

\* A counter more.
LEMMA OneMore ==
  ASSUME NEW S, NEW f \in [S -> Nat], NEW x \in S
  PROVE  [f EXCEPT ![x] = @ + 1] \in [S -> Nat]
OBVIOUS

\* A counter less.
LEMMA OneLess ==
  ASSUME NEW S, NEW f \in [S -> Nat], NEW x \in S, f[x] > 0
  PROVE  /\ [f EXCEPT ![x] = @ - 1] \in [S -> Nat]
         /\ \A a \in S : [f EXCEPT ![x] = @ - 1][a] > 0 => f[a] > 0
OBVIOUS

LEMMA EventsAre == {"save", "command", "slow", "shift", "fault"} = Events
BY DEF Events

\* A run that begins has both times to read.
LEMMA BeginPending ==
  ASSUME reading \in Seq(ReadType), NEW first \in BOOLEAN, Begin(first)
  PROVE  /\ reading' \in Seq(ReadType)
         /\ reading' # << >>
         /\ field' \in [Kinds -> 0..Day \cup {NoTime}]
         /\ \A kind \in Kinds : Pending(kind)' /\ field'[kind] = NoTime
<1> DEFINE read == [kind |-> "start", first |-> first]
<1>1. read \in ReadType
  BY KindsAre DEF ReadType
<1>2. reading' = Append(reading, read)
  BY DEF Begin
<1>3. /\ reading' \in Seq(ReadType) /\ reading' # << >>
      /\ Len(reading) + 1 \in DOMAIN reading'
      /\ reading'[Len(reading) + 1] = read
  BY <1>1, <1>2
<1>4. \A kind \in Kinds : Pending(kind)'
  BY <1>3 DEF Pending
<1>5. QED
  BY <1>3, <1>4 DEF Begin, Cancelled

\* The reads that are left when the first has been answered.
LEMMA ReadsLeft ==
  ASSUME reading \in Seq(ReadType), reading # << >>
  PROVE  /\ Head(reading) \in ReadType
         /\ Tail(reading) \in Seq(ReadType)
         /\ \A i \in DOMAIN Tail(reading) :
              i + 1 \in DOMAIN reading /\ Tail(reading)[i] = reading[i + 1]
         /\ \A j \in DOMAIN reading :
              j = 1 \/ (j - 1 \in DOMAIN Tail(reading)
                         /\ Tail(reading)[j - 1] = reading[j])
         /\ Head(reading) = reading[1] /\ 1 \in DOMAIN reading
OBVIOUS

-----------------------------------------------------------------------------
(* The invariant holds at first.                                           *)

LEMMA InitInv == Init => IInv
<1> SUFFICES ASSUME Init PROVE IInv
  OBVIOUS
<1>1. /\ field \in [Kinds -> 0..Day \cup {NoTime}]
      /\ orphans \in [Kinds -> [0..Day -> Nat]]
  BY DEF Init, Cancelled, NoOrphans
<1>2. TypeOK
  <2>1. saved \in [Kinds -> Times] /\ known \in [Kinds -> Times]
    BY SchedulerAssumption DEF Init, Times
  <2>2. reading \in Seq(ReadType) /\ events \in [Events -> Nat]
    BY DEF Init
  <2>3. everKnown \in [Kinds -> SUBSET Minutes]
    BY DEF Init
  <2>4. QED
    BY <1>1, <2>1, <2>2, <2>3 DEF Init, TypeOK
<1>3. ASSUME NEW kind \in Kinds PROVE FieldOK(kind) /\ UnsavedOK(kind) /\ TimersOK(kind)
  BY DEF Init, FieldOK, UnsavedOK, TimersOK, Cancelled, NoOrphans
<1>4. Silent
  BY DEF Init, Silent
<1>5. QED
  BY <1>2, <1>3, <1>4 DEF IInv

-----------------------------------------------------------------------------
(* Steps that leave the timers and what was read alone.                    *)

LEMMA NothingTimed ==
  ASSUME IInv, UNCHANGED <<field, orphans, reading, readVars, initPc>>,
         \A kind \in Kinds : saved'[kind] = NoTime => saved[kind] = NoTime,
         now' = now \/ ~Never("shift")',
         disposed' = disposed, Never("fault")' => Never("fault"),
         Never("shift")' => Never("shift"), quiet' = quiet
  PROVE  /\ \A kind \in Kinds :
              FieldOK(kind)' /\ UnsavedOK(kind)' /\ TimersOK(kind)'
         /\ Silent'
<1>1. ASSUME NEW kind \in Kinds PROVE FieldOK(kind)' /\ UnsavedOK(kind)' /\ TimersOK(kind)'
  <2>1. FieldOK(kind) /\ UnsavedOK(kind) /\ TimersOK(kind)
    BY DEF IInv
  <2>2. Pending(kind)' <=> Pending(kind)
    BY DEF Pending
  <2>3. FieldOK(kind)'
    BY <2>1, <2>2 DEF FieldOK, FiresAt, readVars
  <2>4. UnsavedOK(kind)'
    BY <2>1 DEF UnsavedOK, readVars
  <2>5. TimersOK(kind)'
    BY <2>1 DEF TimersOK, FiresAt, readVars
  <2>6. QED
    BY <2>3, <2>4, <2>5
<1>2. Silent'
  BY DEF IInv, Silent, Cancelled, NoOrphans
<1>3. QED
  BY <1>1, <1>2

-----------------------------------------------------------------------------
(* The scheduler's steps.                                                  *)

LEMMA InitializeInv ==
  ASSUME IInv, Initialize
  PROVE  IInv'
<1>1. TypeOK /\ UNCHANGED <<saved, clockVars, orphans, engineVars, events, readVars>>
      /\ Begin(TRUE) /\ initPc' = "reading" /\ initPc = "none"
  BY DEF IInv, Initialize
<1>2. /\ reading' \in Seq(ReadType)
      /\ field' \in [Kinds -> 0..Day \cup {NoTime}]
      /\ \A kind \in Kinds : Pending(kind)' /\ field'[kind] = NoTime
  BY <1>1, BeginPending DEF TypeOK
<1>3. TypeOK'
  BY <1>1, <1>2 DEF TypeOK, clockVars, engineVars, readVars
<1>4. ASSUME NEW kind \in Kinds PROVE FieldOK(kind)' /\ UnsavedOK(kind)' /\ TimersOK(kind)'
  <2>1. FieldOK(kind)'
    BY <1>2 DEF FieldOK
  <2>2. UnsavedOK(kind)'
    BY <1>1, <1>2 DEF IInv, UnsavedOK, readVars
  <2>3. TimersOK(kind)'
    <3>1. TimersOK(kind)
      BY DEF IInv
    <3>2. QED
      BY <1>1, <1>2, <3>1 DEF TimersOK, Never, FiresAt, clockVars, readVars
  <2>4. QED
    BY <2>1, <2>2, <2>3
<1>5. Silent'
  BY <1>1 DEF IInv, Silent, engineVars
<1>6. QED
  BY <1>3, <1>4, <1>5 DEF IInv

\* A timer that is armed fires within a day at the time that was read; one
\* that the field referred to goes on to fire at its own.
LEMMA ArmOK ==
  ASSUME TypeOK, NEW kind \in Kinds, Arm(kind), TimersOK(kind), UnsavedOK(kind),
         known' = [known EXCEPT ![kind] = saved[kind]],
         everKnown' = [everKnown EXCEPT ![kind] = @ \cup ({saved[kind]} \ {NoTime})],
         now' = now, saved' = saved, events' = events
  PROVE  /\ field' \in [Kinds -> 0..Day \cup {NoTime}]
         /\ orphans' \in [Kinds -> [0..Day -> Nat]]
         /\ known'[kind] = NoTime <=> field'[kind] = NoTime
         /\ field'[kind] # NoTime => FiresAt(field[kind])' = known'[kind]
         /\ UnsavedOK(kind)' /\ TimersOK(kind)'
         /\ \A other \in Kinds \ {kind} :
              field'[other] = field[other] /\ orphans'[other] = orphans[other]
<1>1. /\ field \in [Kinds -> 0..Day \cup {NoTime}]
      /\ orphans \in [Kinds -> [0..Day -> Nat]]
      /\ saved[kind] \in Times /\ now \in Minutes
      /\ known'[kind] = saved[kind]
      /\ everKnown'[kind] = everKnown[kind] \cup ({saved[kind]} \ {NoTime})
  BY DEF TypeOK
<1>2. CASE saved[kind] = NoTime
  <2>1. UNCHANGED timers
    BY <1>2 DEF Arm
  <2>2. field[kind] = NoTime /\ field' = field /\ orphans' = orphans
    BY <1>2, <2>1 DEF UnsavedOK, timers
  <2>3. TimersOK(kind)'
    BY <1>1, <2>2 DEF TimersOK, FiresAt, Never
  <2>4. QED
    BY <1>1, <1>2, <2>2, <2>3 DEF UnsavedOK
<1>3. CASE saved[kind] # NoTime
  <2> DEFINE after == NextOccurrence(saved[kind])
             old == field[kind]
  <2>1. saved[kind] \in Minutes
    BY <1>1, <1>3 DEF Times
  <2>2. after \in 1..Day /\ FiresAt(after) = saved[kind]
    BY <1>1, <2>1, NextOccurs
  <2>3. after \in 0..Day /\ after # NoTime
    BY <2>2, SchedulerAssumption
  <2>4. /\ field' = [field EXCEPT ![kind] = after]
        /\ orphans' = IF old = NoTime THEN orphans
                      ELSE [orphans EXCEPT ![kind][old] = @ + 1]
    BY <1>3 DEF Arm
  <2> HIDE DEF after
  <2>5. field' \in [Kinds -> 0..Day \cup {NoTime}] /\ field'[kind] = after
        /\ \A other \in Kinds \ {kind} : field'[other] = field[other]
    BY <1>1, <2>3, <2>4
  <2>6. /\ orphans' \in [Kinds -> [0..Day -> Nat]]
        /\ \A other \in Kinds \ {kind} : orphans'[other] = orphans[other]
        /\ \A a \in 0..Day :
             orphans'[kind][a] > 0 => orphans[kind][a] > 0 \/ (a = old /\ old # NoTime)
    <3>1. CASE old = NoTime
      <4>1. orphans' = orphans
        BY <2>4, <3>1
      <4>2. QED
        BY <1>1, <4>1
    <3>2. CASE old # NoTime
      <4>1. old \in 0..Day
        BY <1>1, <3>2
      <4>2. orphans' = [orphans EXCEPT ![kind] = [orphans[kind] EXCEPT ![old] = @ + 1]]
        BY <2>4, <3>2
      <4>3. [orphans[kind] EXCEPT ![old] = @ + 1] \in [0..Day -> Nat]
        <5>1. orphans[kind] \in [0..Day -> Nat]
          BY <1>1
        <5>2. QED
          BY <4>1, <5>1, OneMore
      <4>4. orphans'[kind] = [orphans[kind] EXCEPT ![old] = @ + 1]
        BY <1>1, <4>2
      <4>5. orphans' \in [Kinds -> [0..Day -> Nat]]
        BY <1>1, <4>2, <4>3
      <4>6. \A other \in Kinds \ {kind} : orphans'[other] = orphans[other]
        BY <1>1, <4>2
      <4>7. ASSUME NEW a \in 0..Day, orphans'[kind][a] > 0, a # old
            PROVE  orphans[kind][a] > 0
        BY <1>1, <4>4, <4>7
      <4>8. QED
        BY <3>2, <4>5, <4>6, <4>7
    <3>3. QED
      BY <3>1, <3>2
  <2>7. UnsavedOK(kind)'
    BY <1>3 DEF UnsavedOK
  <2>8. FiresAt(field[kind])' = known'[kind]
    BY <1>1, <2>2, <2>5 DEF FiresAt
  <2>9. TimersOK(kind)'
    <3>1. SUFFICES ASSUME Never("shift")'
                   PROVE  /\ FiresAt(field[kind])' \in everKnown'[kind]
                          /\ \A a \in 0..Day : orphans'[kind][a] > 0 =>
                               FiresAt(a)' \in everKnown'[kind]
      BY DEF TimersOK
    <3>2. Never("shift")
      BY <3>1 DEF Never
    <3>3. FiresAt(field[kind])' \in everKnown'[kind]
      BY <1>1, <1>3, <2>8
    <3>4. \A a \in 0..Day : orphans'[kind][a] > 0 => FiresAt(a) \in everKnown[kind]
      BY <2>6, <3>2 DEF TimersOK
    <3>5. QED
      BY <1>1, <3>3, <3>4 DEF FiresAt
  <2>10. QED
    BY <1>1, <1>3, <2>3, <2>5, <2>6, <2>7, <2>8, <2>9
<1>4. QED
  BY <1>2, <1>3

\* The answered read has its timer, and leaves the other kind's alone.
LEMMA ReadTimeInv ==
  ASSUME IInv, ReadTime
  PROVE  IInv'
<1>0. Head(reading) \in ReadType
  BY ReadsLeft DEF IInv, TypeOK, ReadTime
<1> PICK read \in ReadType : read = Head(reading)
  BY <1>0
<1> PICK kind \in Kinds : kind = read.kind
  BY DEF ReadType
<1>1. /\ TypeOK /\ reading # << >> /\ Arm(kind)
      /\ known' = [known EXCEPT ![kind] = saved[kind]]
      /\ everKnown' = [everKnown EXCEPT ![kind] = @ \cup ({saved[kind]} \ {NoTime})]
      /\ saved' = saved /\ now' = now /\ called' = called /\ UNCHANGED engineVars
      /\ events' = events
  BY DEF IInv, ReadTime, clockVars
<1>2. IF kind = "start"
      THEN reading' = Append(Tail(reading), [read EXCEPT !.kind = "shutdown"]) /\ initPc' = initPc
      ELSE reading' = Tail(reading) /\ initPc' \in {initPc, "ended"}
  BY DEF ReadTime, EndRun
<1>3. /\ read \in ReadType /\ kind \in Kinds
      /\ Tail(reading) \in Seq(ReadType)
      /\ \A j \in DOMAIN reading :
           j = 1 \/ (j - 1 \in DOMAIN Tail(reading) /\ Tail(reading)[j - 1] = reading[j])
      /\ read = reading[1]
  BY <1>1, ReadsLeft DEF TypeOK, ReadType
<1>4. TimersOK(kind) /\ UnsavedOK(kind)
  BY <1>3 DEF IInv
<1>5. /\ field' \in [Kinds -> 0..Day \cup {NoTime}]
      /\ orphans' \in [Kinds -> [0..Day -> Nat]]
      /\ known'[kind] = NoTime <=> field'[kind] = NoTime
      /\ field'[kind] # NoTime => FiresAt(field[kind])' = known'[kind]
      /\ UnsavedOK(kind)' /\ TimersOK(kind)'
      /\ \A other \in Kinds \ {kind} :
           field'[other] = field[other] /\ orphans'[other] = orphans[other]
  BY <1>1, <1>3, <1>4, ArmOK
<1>6. TypeOK'
  <2>1. [read EXCEPT !.kind = "shutdown"] \in ReadType
    BY <1>3 DEF ReadType, Kinds
  <2>2. reading' \in Seq(ReadType)
    BY <1>2, <1>3, <2>1
  <2>3. known' \in [Kinds -> Times]
    BY <1>1, <1>3 DEF TypeOK
  <2>4. everKnown' \in [Kinds -> SUBSET Minutes]
    <3>1. {saved[kind]} \ {NoTime} \in SUBSET Minutes
      BY <1>1, <1>3 DEF TypeOK, Times
    <3>2. everKnown \in [Kinds -> SUBSET Minutes]
      BY <1>1 DEF TypeOK
    <3>3. everKnown[kind] \cup ({saved[kind]} \ {NoTime}) \in SUBSET Minutes
      BY <1>3, <3>1, <3>2
    <3>4. QED
      BY <1>1, <3>2, <3>3
  <2>5. initPc' \in {"none", "reading", "ended"}
    BY <1>1, <1>2 DEF TypeOK
  <2>6. QED
    BY <1>1, <1>5, <2>2, <2>3, <2>4, <2>5 DEF TypeOK, engineVars
<1>7. ASSUME NEW k \in Kinds PROVE FieldOK(k)' /\ UnsavedOK(k)' /\ TimersOK(k)'
  <2>1. CASE k = kind
    BY <1>5, <2>1 DEF FieldOK
  <2>2. CASE k # kind
    <3>1. /\ FieldOK(k) /\ UnsavedOK(k) /\ TimersOK(k)
          /\ field'[k] = field[k] /\ orphans'[k] = orphans[k]
      BY <1>5, <2>2 DEF IInv
    <3>2. known'[k] = known[k] /\ everKnown'[k] = everKnown[k]
      BY <1>1, <1>3, <2>2 DEF TypeOK
    <3>3. Pending(k) => Pending(k)'
      <4>1. CASE kind = "start"
        <5> DEFINE next == [read EXCEPT !.kind = "shutdown"]
        <5>1. k = "shutdown" /\ next \in ReadType /\ next.kind = "shutdown"
          BY <1>3, <2>2, <4>1 DEF Kinds, ReadType
        <5> HIDE DEF next
        <5>2. reading' = Append(Tail(reading), next)
          BY <1>2, <4>1 DEF next
        <5>3. /\ Len(Tail(reading)) + 1 \in DOMAIN reading'
              /\ reading'[Len(Tail(reading)) + 1] = next
          BY <1>3, <5>1, <5>2
        <5>4. QED
          BY <5>1, <5>3 DEF Pending
      <4>2. CASE kind # "start"
        <5>1. k = "start" /\ kind = "shutdown" /\ reading' = Tail(reading)
          BY <1>2, <1>3, <2>2, <4>2 DEF Kinds
        <5>2. ASSUME Pending(k) PROVE Pending(k)'
          <6>1. PICK i \in DOMAIN reading : reading[i].kind = "start"
            BY <5>1, <5>2 DEF Pending
          <6>2. i # 1
            BY <1>3, <5>1, <6>1
          <6>3. i - 1 \in DOMAIN reading' /\ reading'[i - 1].kind = "start"
            BY <1>3, <5>1, <6>1, <6>2
          <6>4. QED
            BY <6>3 DEF Pending
        <5>3. QED
          BY <5>2
      <4>3. QED
        BY <4>1, <4>2
    <3>4. FieldOK(k)'
      BY <1>1, <3>1, <3>2, <3>3 DEF FieldOK, FiresAt, Never, engineVars
    <3>5. UnsavedOK(k)' /\ TimersOK(k)'
      BY <1>1, <3>1, <3>2 DEF UnsavedOK, TimersOK, FiresAt, Never
    <3>6. QED
      BY <3>4, <3>5
  <2>3. QED
    BY <2>1, <2>2
<1>8. Silent'
  BY <1>1 DEF IInv, Silent, engineVars
<1>9. QED
  BY <1>6, <1>7, <1>8 DEF IInv

\* A failed read is counted: nothing is said of the fields from then on.
LEMMA ReadFailsInv ==
  ASSUME IInv, ReadFails
  PROVE  IInv'
<1>1. /\ TypeOK /\ reading # << >> /\ Happens("fault") /\ reading' = Tail(reading)
      /\ initPc' \in {initPc, "ended"} /\ quiet' = quiet
      /\ UNCHANGED <<saved, clockVars, field, orphans, engineVars, readVars>>
  BY DEF IInv, ReadFails, EndRun, timers, engineVars
<1>2. /\ events' \in [Events -> Nat] /\ ~Never("fault")'
      /\ Never("shift")' => Never("shift")
  BY <1>1, Counted, EventsAre
<1>3. Tail(reading) \in Seq(ReadType)
  BY <1>1, ReadsLeft DEF TypeOK
<1>4. TypeOK'
  BY <1>1, <1>2, <1>3 DEF TypeOK, clockVars, engineVars, readVars
<1>5. ASSUME NEW kind \in Kinds PROVE FieldOK(kind)' /\ UnsavedOK(kind)' /\ TimersOK(kind)'
  <2>1. UnsavedOK(kind) /\ TimersOK(kind)
    BY DEF IInv
  <2>2. QED
    BY <1>1, <1>2, <2>1
    DEF FieldOK, UnsavedOK, TimersOK, FiresAt, clockVars, readVars
<1>6. Silent'
  BY <1>1 DEF IInv, Silent
<1>7. QED
  BY <1>4, <1>5, <1>6 DEF IInv

-----------------------------------------------------------------------------
(* The engine's and the user's steps.                                      *)

LEMMA DisposeInv ==
  ASSUME IInv, Dispose
  PROVE  IInv'
<1>1. /\ TypeOK /\ disposed' = TRUE /\ quiet' = AtRest /\ field' = Cancelled
      /\ closing > 0 /\ closing' = closing - 1
      /\ UNCHANGED <<saved, clockVars, orphans, reading, initPc, shut, events, readVars>>
  BY DEF IInv, Dispose
<1>2. TypeOK'
  <2>1. field' \in [Kinds -> 0..Day \cup {NoTime}] /\ quiet' \in BOOLEAN
    BY <1>1 DEF Cancelled, AtRest
  <2>2. QED
    BY <1>1, <2>1 DEF TypeOK, clockVars, readVars
<1>3. ASSUME NEW kind \in Kinds PROVE FieldOK(kind)' /\ UnsavedOK(kind)' /\ TimersOK(kind)'
  <2>1. UnsavedOK(kind) /\ TimersOK(kind) /\ field'[kind] = NoTime
    BY <1>1 DEF IInv, Cancelled
  <2>2. QED
    BY <1>1, <2>1 DEF FieldOK, UnsavedOK, TimersOK, FiresAt, Never, clockVars, readVars
<1>4. Silent'
  BY <1>1 DEF Silent, AtRest, Cancelled, NoOrphans
<1>5. QED
  BY <1>2, <1>3, <1>4 DEF IInv

LEMMA CommandInv ==
  ASSUME IInv, UserShutdown \/ UserResumeAll
  PROVE  IInv'
<1>1. /\ TypeOK /\ Happens("command") /\ shut' \in BOOLEAN
      /\ closing' \in {closing, closing + 1}
      /\ UNCHANGED <<saved, clockVars, field, orphans, reading, initPc, disposed, quiet,
                     readVars>>
  BY DEF IInv, UserShutdown, UserResumeAll, EngineShutdown, timers
<1>2. events' \in [Events -> Nat] /\ (\A e \in Events : Never(e)' => Never(e))
  BY <1>1, Counted, EventsAre
<1>3. TypeOK'
  BY <1>1, <1>2 DEF TypeOK, clockVars, readVars
<1>4. QED
  BY <1>1, <1>2, <1>3, NothingTimed, EventsAre DEF IInv, clockVars

\* Only times are saved: what was never saved was not saved before.
LEMMA SaveTimeInv ==
  ASSUME IInv, NEW kind \in Kinds, NEW time \in Minutes, SaveTime(kind, time)
  PROVE  IInv'
<1>1. /\ TypeOK /\ Happens("save") /\ saved' = [saved EXCEPT ![kind] = time]
      /\ UNCHANGED <<clockVars, field, orphans, reading, initPc, engineVars, readVars>>
  BY DEF IInv, SaveTime, timers
<1>2. events' \in [Events -> Nat] /\ (\A e \in Events : Never(e)' => Never(e))
  BY <1>1, Counted, EventsAre
<1>3. time # NoTime
  BY SchedulerAssumption DEF Minutes
<1>4. /\ saved' \in [Kinds -> Times]
      /\ \A k \in Kinds : saved'[k] = NoTime => saved[k] = NoTime
  BY <1>1, <1>3 DEF TypeOK, Times
<1>5. TypeOK'
  BY <1>1, <1>2, <1>4 DEF TypeOK, clockVars, engineVars, readVars
<1>6. QED
  BY <1>1, <1>2, <1>4, <1>5, NothingTimed, EventsAre DEF IInv, clockVars, engineVars

-----------------------------------------------------------------------------
(* The steps of time.                                                      *)

\* A timer that fires is gone, and with it the fields; a run begins.
LEMMA FireInv ==
  ASSUME IInv, NEW kind \in Kinds, Fire(kind)
  PROVE  IInv'
<1>1. /\ TypeOK /\ Begin(FALSE) /\ Call(kind)
      /\ UNCHANGED <<saved, now, initPc, disposed, quiet, events, readVars>>
  BY DEF IInv, Fire
<1>2. /\ reading' \in Seq(ReadType)
      /\ field' \in [Kinds -> 0..Day \cup {NoTime}]
      /\ \A k \in Kinds : Pending(k)' /\ field'[k] = NoTime
  BY <1>1, BeginPending DEF TypeOK
<1>3. /\ orphans' \in [Kinds -> [0..Day -> Nat]]
      /\ \A k \in Kinds : \A a \in 0..Day : orphans'[k][a] > 0 => orphans[k][a] > 0
      /\ ~quiet
  <2>0. orphans \in [Kinds -> [0..Day -> Nat]]
    BY <1>1 DEF TypeOK
  <2>1. ASSUME NEW after \in DueOrphans(kind),
               orphans' = [orphans EXCEPT ![kind][after] = @ - 1]
        PROVE  /\ orphans' \in [Kinds -> [0..Day -> Nat]]
               /\ \A k \in Kinds : \A a \in 0..Day : orphans'[k][a] > 0 => orphans[k][a] > 0
               /\ ~quiet
    <3> DEFINE rest == [orphans[kind] EXCEPT ![after] = @ - 1]
    <3>1. after \in 0..Day /\ orphans[kind] \in [0..Day -> Nat] /\ orphans[kind][after] > 0
      BY <2>0, <2>1 DEF DueOrphans
    <3>2. /\ rest \in [0..Day -> Nat]
          /\ \A a \in 0..Day : rest[a] > 0 => orphans[kind][a] > 0
      BY <3>1, OneLess
    <3> HIDE DEF rest
    <3>3. orphans' = [orphans EXCEPT ![kind] = rest]
      BY <2>1 DEF rest
    <3>4. orphans' \in [Kinds -> [0..Day -> Nat]]
      BY <2>0, <3>2, <3>3
    <3>5. ASSUME NEW k \in Kinds, NEW a \in 0..Day, orphans'[k][a] > 0
          PROVE  orphans[k][a] > 0
      <4>1. CASE k = kind
        BY <2>0, <3>2, <3>3, <3>5, <4>1
      <4>2. CASE k # kind
        <5>1. orphans'[k] = orphans[k]
          BY <2>0, <3>3, <4>2
        <5>2. QED
          BY <3>5, <5>1
      <4>3. QED
        BY <4>1, <4>2
    <3>6. ~quiet
      <4>1. NoOrphans[kind][after] = 0
        BY <3>1 DEF NoOrphans
      <4>2. QED
        BY <3>1, <4>1 DEF IInv, Silent
    <3>7. QED
      BY <3>4, <3>5, <3>6
  <2>2. CASE DueInField(kind) /\ orphans' = orphans
    BY <2>0, <2>2 DEF DueInField, IInv, Silent, Cancelled
  <2>3. QED
    BY <2>1, <2>2 DEF Fire
<1>4. TypeOK'
  <2>1. /\ shut' \in BOOLEAN /\ closing' \in {closing, closing + 1}
        /\ called' \in {called, called \cup {kind}}
    BY <1>1, KindsAre DEF Call, EngineShutdown, TypeOK
  <2>2. QED
    BY <1>1, <1>2, <1>3, <2>1 DEF TypeOK, readVars
<1>5. ASSUME NEW k \in Kinds PROVE FieldOK(k)' /\ UnsavedOK(k)' /\ TimersOK(k)'
  <2>1. UnsavedOK(k) /\ TimersOK(k)
    BY DEF IInv
  <2>2. FieldOK(k)' /\ UnsavedOK(k)'
    BY <1>1, <1>2, <2>1 DEF FieldOK, UnsavedOK, readVars
  <2>3. TimersOK(k)'
    BY <1>1, <1>2, <1>3, <2>1 DEF TimersOK, FiresAt, Never, readVars
  <2>4. QED
    BY <2>2, <2>3
<1>6. Silent'
  BY <1>1, <1>3 DEF Silent
<1>7. QED
  BY <1>4, <1>5, <1>6 DEF IInv

\* A minute passes for the clock and for every timer alike.
LEMMA TickInv ==
  ASSUME IInv, Tick
  PROVE  IInv'
<1>1. /\ TypeOK /\ now' = (now + 1) % Day /\ called' = {}
      /\ field' = [kind \in Kinds |->
                     IF field[kind] = NoTime THEN NoTime ELSE field[kind] - 1]
      /\ orphans' = [kind \in Kinds |-> [after \in 0..Day |->
                       IF after = Day THEN 0 ELSE orphans[kind][after + 1]]]
      /\ \A kind \in Kinds : ~DueInField(kind)
      /\ UNCHANGED <<saved, reading, initPc, engineVars, readVars>>
      /\ events' = events \/ Happens("slow")
  BY DEF IInv, Tick
<1>2. /\ now \in Minutes /\ now' \in Minutes
      /\ \A after \in 1..Day : FiresAt(after - 1)' = FiresAt(after)
  <2>1. now \in Minutes /\ 1 \in 1..Day
    BY <1>1, SchedulerAssumption DEF TypeOK
  <2>2. \A after \in 1..Day : FiresAt(after - 1)' = FiresAt(after) /\ now' \in Minutes
    BY <1>1, <2>1, MinutePasses
  <2>3. QED
    BY <2>1, <2>2
<1>3. events' \in [Events -> Nat] /\ (\A e \in Events : Never(e)' => Never(e))
  BY <1>1, Counted, EventsAre DEF Never, TypeOK
<1>4. ASSUME NEW kind \in Kinds
      PROVE  /\ field[kind] = NoTime => field'[kind] = NoTime
             /\ field[kind] # NoTime => /\ field[kind] \in 1..Day
                                        /\ field'[kind] = field[kind] - 1
                                        /\ field'[kind] # NoTime
  <2>1. field[kind] \in 0..Day \cup {NoTime}
    BY <1>1 DEF TypeOK
  <2>2. field[kind] # NoTime => field[kind] # 0
    BY <1>1 DEF DueInField, Due
  <2>3. field'[kind] = IF field[kind] = NoTime THEN NoTime ELSE field[kind] - 1
    BY <1>1
  <2>4. Day \in Nat /\ NoTime \notin 0..Day
    BY SchedulerAssumption
  <2>5. field[kind] # NoTime => field[kind] \in 1..Day /\ field[kind] - 1 \in 0..Day
    BY <2>1, <2>2, <2>4
  <2>6. QED
    BY <2>3, <2>4, <2>5
<1>5. ASSUME NEW kind \in Kinds, NEW after \in 0..Day, orphans'[kind][after] > 0
      PROVE  after + 1 \in 1..Day /\ orphans[kind][after + 1] > 0
  BY <1>1, <1>5, SchedulerAssumption
<1>6. TypeOK'
  <2>1. field' \in [Kinds -> 0..Day \cup {NoTime}]
    <3>1. ASSUME NEW kind \in Kinds
          PROVE (IF field[kind] = NoTime THEN NoTime ELSE field[kind] - 1)
                  \in 0..Day \cup {NoTime}
      BY <1>4, SchedulerAssumption
    <3>2. QED
      BY <1>1, <3>1
  <2>2. orphans' \in [Kinds -> [0..Day -> Nat]]
    <3>1. ASSUME NEW kind \in Kinds, NEW after \in 0..Day
          PROVE  (IF after = Day THEN 0 ELSE orphans[kind][after + 1]) \in Nat
      <4>1. after # Day => after + 1 \in 0..Day
        BY SchedulerAssumption
      <4>2. QED
        BY <1>1, <4>1 DEF TypeOK
    <3>2. QED
      BY <1>1, <3>1
  <2>3. QED
    BY <1>1, <1>2, <1>3, <2>1, <2>2 DEF TypeOK, engineVars, readVars
<1>7. ASSUME NEW kind \in Kinds PROVE FieldOK(kind)' /\ UnsavedOK(kind)' /\ TimersOK(kind)'
  <2>1. FieldOK(kind) /\ UnsavedOK(kind) /\ TimersOK(kind)
    BY DEF IInv
  <2>2. /\ field'[kind] = NoTime <=> field[kind] = NoTime
        /\ field[kind] # NoTime => FiresAt(field[kind])' = FiresAt(field[kind])
    BY <1>2, <1>4 DEF FiresAt
  <2>3. Pending(kind)' <=> Pending(kind)
    BY <1>1 DEF Pending
  <2>4. known' = known /\ everKnown' = everKnown /\ saved' = saved /\ disposed' = disposed
    BY <1>1 DEF readVars, engineVars
  <2>5. (Never("fault")' => Never("fault")) /\ (Never("shift")' => Never("shift"))
    BY <1>3, EventsAre
  <2>6. FieldOK(kind)'
    BY <2>1, <2>2, <2>3, <2>4, <2>5, Zenon DEF FieldOK
  <2>7. UnsavedOK(kind)'
    BY <2>1, <2>2, <2>4 DEF UnsavedOK
  <2>8. TimersOK(kind)'
    <3>1. SUFFICES ASSUME Never("shift")'
                   PROVE  /\ field'[kind] # NoTime => FiresAt(field[kind])' \in everKnown[kind]
                          /\ \A after \in 0..Day : orphans'[kind][after] > 0 =>
                               FiresAt(after)' \in everKnown[kind]
      BY <2>4, Zenon DEF TimersOK
    <3>2. /\ field[kind] # NoTime => FiresAt(field[kind]) \in everKnown[kind]
          /\ \A after \in 0..Day :
               orphans[kind][after] > 0 => FiresAt(after) \in everKnown[kind]
      BY <2>1, <2>5, <3>1, Zenon DEF TimersOK
    <3>3. field'[kind] # NoTime => FiresAt(field[kind])' \in everKnown[kind]
      BY <2>2, <3>2, Zenon
    <3>4. ASSUME NEW after \in 0..Day, orphans'[kind][after] > 0
          PROVE  FiresAt(after)' \in everKnown[kind]
      <4> DEFINE before == after + 1
      <4>1. before \in 1..Day /\ before \in 0..Day /\ before - 1 = after
            /\ orphans[kind][before] > 0
        BY <1>5, <3>4, SchedulerAssumption
      <4> HIDE DEF before
      <4>2. FiresAt(before) \in everKnown[kind]
        BY <3>2, <4>1, Zenon
      <4>3. FiresAt(before - 1)' = FiresAt(before)
        BY <1>2, <4>1, Zenon
      <4>4. (now' + (before - 1)) % Day = (now' + after) % Day
        BY <4>1, Zenon
      <4>5. QED
        BY <4>2, <4>3, <4>4, Zenon DEF FiresAt
    <3>5. QED
      BY <3>3, <3>4, Zenon
  <2>9. QED
    BY <2>6, <2>7, <2>8
<1>8. Silent'
  <2>1. SUFFICES ASSUME quiet PROVE field' = Cancelled /\ orphans' = NoOrphans
    BY <1>1 DEF IInv, Silent, engineVars
  <2>2. field = Cancelled /\ orphans = NoOrphans
    BY <2>1 DEF IInv, Silent
  <2>3. \A kind \in Kinds : field[kind] = NoTime
    BY <2>2 DEF Cancelled
  <2>4. field' = Cancelled
    BY <1>1, <2>3 DEF Cancelled
  <2>5. ASSUME NEW kind \in Kinds, NEW after \in 0..Day
        PROVE  (IF after = Day THEN 0 ELSE orphans[kind][after + 1]) = 0
    <3>1. after # Day => after + 1 \in 0..Day
      BY SchedulerAssumption
    <3>2. QED
      BY <2>2, <3>1 DEF NoOrphans
  <2>6. orphans' = NoOrphans
    BY <1>1, <2>5, Zenon DEF NoOrphans
  <2>7. QED
    BY <2>4, <2>6
<1>9. QED
  BY <1>6, <1>7, <1>8 DEF IInv

LEMMA ShiftInv ==
  ASSUME IInv, NEW time \in Minutes, Shift(time)
  PROVE  IInv'
<1>1. /\ TypeOK /\ Happens("shift") /\ now' = time
      /\ UNCHANGED <<saved, called, field, orphans, reading, initPc, engineVars, readVars>>
  BY DEF IInv, Shift, timers
<1>2. /\ events' \in [Events -> Nat] /\ (\A e \in Events : Never(e)' => Never(e))
      /\ ~Never("shift")'
  BY <1>1, Counted, EventsAre
<1>3. TypeOK'
  BY <1>1, <1>2 DEF TypeOK, engineVars, readVars
<1>4. QED
  BY <1>1, <1>2, <1>3, NothingTimed, EventsAre DEF IInv, engineVars

-----------------------------------------------------------------------------
(* The theorems.                                                           *)

LEMMA StepInv == IInv /\ [Next]_vars => IInv'
<1> SUFFICES ASSUME IInv, [Next]_vars PROVE IInv'
  OBVIOUS
<1>1. CASE UNCHANGED vars
  <2>1. TypeOK'
    BY <1>1 DEF IInv, TypeOK, vars, clockVars, timers, engineVars, readVars
  <2>2. \A kind \in Kinds : FieldOK(kind)' /\ UnsavedOK(kind)' /\ TimersOK(kind)'
    BY <1>1, NothingTimed DEF vars, clockVars, timers, engineVars, readVars, Never
  <2>3. Silent'
    BY <1>1 DEF IInv, Silent, vars, timers, engineVars
  <2>4. QED
    BY <2>1, <2>2, <2>3 DEF IInv
<1>2. QED
  BY <1>1, InitializeInv, ReadTimeInv, ReadFailsInv, DisposeInv, CommandInv,
     SaveTimeInv, FireInv, TickInv, ShiftInv DEF Next

\* What the runs of _scheduleFromSettings leave behind, however they overlap.
THEOREM Invariance == Spec => []IInv
<1>1. QED
  BY InitInv, StepInv, PTL DEF Spec

\* Every variable keeps its type.
THEOREM TypeCorrect == Spec => []TypeOK
<1>1. IInv => TypeOK
  BY DEF IInv
<1>2. QED
  BY <1>1, Invariance, PTL

\* However the runs have overlapped, when none is under way the fields stand
\* for the times that were read last.
THEOREM ReadIsArmedAlways == Spec => []ReadIsArmed
<1>1. IInv => ReadIsArmed
  <2> SUFFICES ASSUME IInv, initPc = "ended", reading = << >>, ~disposed, Never("fault"),
                      NEW kind \in Kinds
               PROVE  /\ known[kind] = NoTime <=> field[kind] = NoTime
                      /\ Never("shift") /\ field[kind] # NoTime =>
                           (now + field[kind]) % Day = known[kind]
    BY DEF ReadIsArmed
  <2>1. ~Pending(kind)
    BY DEF Pending
  <2>2. QED
    BY <2>1, Zenon DEF IInv, FieldOK, FiresAt
<1>2. QED
  BY <1>1, Invariance, PTL

\* No timer calls the engine at a minute that was never read from the table,
\* the timers that no field refers to any more included.
THEOREM CalledAsSaved == Spec => CalledAtASavedTime
<1>1. IInv /\ [Next]_vars =>
        [\A kind \in called' \ called : Never("shift") => now \in everKnown[kind]]_vars
  <2> SUFFICES ASSUME IInv, Next, NEW kind \in called' \ called, Never("shift")
               PROVE  now \in everKnown[kind]
    BY DEF vars
  <2>1. PICK k \in Kinds : Fire(k)
    BY DEF Next, Initialize, ReadTime, ReadFails, Dispose, UserShutdown, UserResumeAll,
           SaveTime, Tick, Shift, clockVars
  <2>2. k = kind
    BY <2>1 DEF Fire, Call
  <2>3. TimersOK(kind) /\ TypeOK /\ kind \in Kinds
    BY <2>1, <2>2 DEF IInv
  <2>4. FiresAt(0) \in everKnown[kind]
    <3>1. CASE DueOrphans(kind) # {}
      <4>1. PICK after \in 0..Day : orphans[kind][after] > 0 /\ after = 0
        BY <3>1 DEF DueOrphans, Due
      <4>2. QED
        BY <2>3, <4>1, Zenon DEF TimersOK
    <3>2. CASE DueInField(kind)
      <4>1. field[kind] # NoTime /\ field[kind] = 0
        BY <3>2 DEF DueInField, Due
      <4>2. FiresAt(field[kind]) \in everKnown[kind]
        BY <2>3, <4>1, Zenon DEF TimersOK
      <4>3. QED
        BY <4>1, <4>2
    <3>3. QED
      BY <2>1, <2>2, <3>1, <3>2 DEF Fire
  <2>5. FiresAt(0) = now
    <3>1. now \in Minutes /\ Day \in Nat /\ Day > 0
      BY <2>3, SchedulerAssumption DEF TypeOK
    <3>2. QED
      BY <3>1 DEF FiresAt, Minutes
  <2>6. QED
    BY <2>4, <2>5
<1>2. QED
  BY <1>1, Invariance, PTL DEF Spec, CalledAtASavedTime

\* A scheduler that was disposed with no run under way and no timer out of its
\* reach never calls the engine again.
THEOREM SilentForGood == Spec => DisposedStaysSilent
<1>1. IInv /\ [Next]_vars => [quiet => called' \subseteq called]_vars
  <2> SUFFICES ASSUME IInv, Next, quiet PROVE called' \subseteq called
    BY DEF vars
  <2>1. field = Cancelled /\ orphans = NoOrphans
    BY DEF IInv, Silent
  <2>2. ASSUME NEW kind \in Kinds PROVE ~Fire(kind)
    <3>1. field[kind] = NoTime /\ \A after \in 0..Day : orphans[kind][after] = 0
      BY <2>1 DEF Cancelled, NoOrphans
    <3>2. DueOrphans(kind) = {} /\ ~DueInField(kind)
      BY <3>1 DEF DueOrphans, DueInField
    <3>3. QED
      BY <3>2 DEF Fire
  <2>3. CASE Tick
    BY <2>3 DEF Tick
  <2>4. CASE ~Tick
    BY <2>2, <2>4 DEF Next, Initialize, ReadTime, ReadFails, Dispose,
          UserShutdown, UserResumeAll, SaveTime, Shift, clockVars
  <2>5. QED
    BY <2>3, <2>4
<1>2. QED
  BY <1>1, Invariance, PTL DEF Spec, DisposedStaysSilent

=============================================================================

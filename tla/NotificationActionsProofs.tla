--------------------- MODULE NotificationActionsProofs ---------------------
(***************************************************************************)
(* Theorems about NotificationActions, for any number of presses and of    *)
(* changes of the activity.                                                *)
(*                                                                         *)
(* What is under way to the isolate rises from the press it has got last   *)
(* to the press the activity was given last, because the activity only     *)
(* ever sends again the action it has, and that is the newest.             *)
(***************************************************************************)
EXTENDS NotificationActions, TLAPS

\* The press the isolate has got last: the engine's, or the buffer's.
Latest == IF handler THEN heard ELSE buffered

Rising(q) == \A i, j \in 1..Len(q) : i <= j => q[i] <= q[j]
Between(q, low, high) == \A i \in 1..Len(q) : low <= q[i] /\ q[i] <= high

\* The way to the isolate is in order.
InOrder ==
  /\ Rising(messages)
  /\ Between(messages, Latest, shown)
  /\ Latest <= shown

\* The press given last is the last to arrive.
NewestLast ==
  shown # NoPress =>
    /\ messages = << >> => Latest = shown
    /\ messages # << >> => messages[Len(messages)] = shown

\* Presses are numbered as they come, the activity has no older one than it
\* was given last, and there is no isolate without an activity.
Bounded ==
  /\ shown <= Len(presses) /\ launched <= Len(presses)
  /\ intent \in {NoPress, shown}
  /\ handler => buffered = NoPress
  /\ ~handler => heard = NoPress
  /\ activity = "none" => ~handler /\ messages = << >>

IInv == TypeOK /\ InOrder /\ NewestLast /\ Bounded

-----------------------------------------------------------------------------
(* Sequences.                                                              *)

LEMMA EmptyLength ==
  ASSUME NEW q \in Seq(Nat)
  PROVE  q = << >> <=> Len(q) = 0
OBVIOUS

\* A newest element at the end keeps a sequence in order.
LEMMA AppendRises ==
  ASSUME NEW q \in Seq(Nat), NEW low \in Nat, NEW high \in Nat, NEW n \in Nat,
         Rising(q), Between(q, low, high), high <= n, low <= high
  PROVE  /\ Append(q, n) \in Seq(Nat)
         /\ Rising(Append(q, n))
         /\ Between(Append(q, n), low, n)
         /\ Append(q, n) # << >>
         /\ Append(q, n)[Len(Append(q, n))] = n
BY DEF Rising, Between

\* Taking the head leaves what is not below it.
LEMMA TailRises ==
  ASSUME NEW q \in Seq(Nat), q # << >>, NEW low \in Nat, NEW high \in Nat,
         Rising(q), Between(q, low, high)
  PROVE  /\ Rising(Tail(q))
         /\ Between(Tail(q), Head(q), high)
         /\ low <= Head(q) /\ Head(q) <= high
         /\ Tail(q) = << >> => Head(q) = q[Len(q)]
         /\ Tail(q) # << >> => Tail(q)[Len(Tail(q))] = q[Len(q)]
<1>1. /\ Len(q) \in Nat /\ Len(q) >= 1 /\ Head(q) = q[1]
      /\ Tail(q) \in Seq(Nat) /\ Len(Tail(q)) = Len(q) - 1
      /\ \A i \in 1..Len(Tail(q)) : Tail(q)[i] = q[i + 1]
  OBVIOUS
<1>2. \A i \in 1..Len(q) : q[i] \in Nat
  OBVIOUS
<1>3. Rising(Tail(q))
  BY <1>1, <1>2 DEF Rising
<1>4. Between(Tail(q), Head(q), high)
  BY <1>1, <1>2 DEF Rising, Between
<1>5. low <= Head(q) /\ Head(q) <= high
  BY <1>1 DEF Between
<1>6. ASSUME Tail(q) = << >> PROVE Head(q) = q[Len(q)]
  <2> DEFINE t == Tail(q)
  <2>1. Len(q) \in Nat
    OBVIOUS
  <2>2. t \in Seq(Nat) /\ Len(t) = Len(q) - 1 /\ t = << >>
    BY <1>1, <1>6
  <2> HIDE DEF t
  <2>3. Len(t) = 0
    BY <2>2, EmptyLength
  <2>4. Len(q) = 1
    BY <2>1, <2>2, <2>3
  <2>5. QED
    BY <1>1, <2>4
<1>7. ASSUME Tail(q) # << >> PROVE Tail(q)[Len(Tail(q))] = q[Len(q)]
  <2>1. Len(Tail(q)) # 0
    BY <1>1, <1>7, EmptyLength
  <2>2. Len(Tail(q)) \in 1..Len(Tail(q)) /\ Len(Tail(q)) + 1 = Len(q)
    BY <1>1, <2>1
  <2>3. Tail(q)[Len(Tail(q))] = q[Len(Tail(q)) + 1]
    BY <1>1, <2>2
  <2>4. QED
    BY <2>2, <2>3
<1>8. QED
  BY <1>3, <1>4, <1>5, <1>6, <1>7

-----------------------------------------------------------------------------
(* Messages to the isolate.                                                *)

\* What the activity sends, it sends after what it has sent before: the way
\* from the press the isolate has to the newest one stays in order.
LEMMA SendKeepsOrder ==
  ASSUME NEW q \in Seq(Press), NEW low \in Nat, NEW high \in Nat,
         NEW p \in Press \cup {NoPress}, Rising(q), Between(q, low, high),
         low <= high, p # NoPress => high <= p
  PROVE  /\ Send(q, p) \in Seq(Press)
         /\ Rising(Send(q, p))
         /\ p = NoPress => Send(q, p) = q
         /\ p # NoPress => /\ Between(Send(q, p), low, p)
                           /\ Send(q, p) # << >>
                           /\ Send(q, p)[Len(Send(q, p))] = p
<1>1. Press \subseteq Nat /\ q \in Seq(Nat)
  BY NotificationAssumption DEF Press
<1>2. CASE p = NoPress
  BY <1>2 DEF Send
<1>3. CASE p # NoPress
  <2>1. p \in Press /\ p \in Nat
    BY <1>1, <1>3 DEF NoPress
  <2>2. Append(q, p) \in Seq(Press)
    BY <2>1
  <2>3. QED
    BY <1>1, <1>3, <2>1, <2>2, AppendRises DEF Send
<1>4. QED
  BY <1>2, <1>3

\* The types the lemmas need.
LEMMA Numbers ==
  ASSUME TypeOK
  PROVE  /\ Press \subseteq Nat /\ messages \in Seq(Nat)
         /\ {launched, intent, buffered, heard, shown, Latest} \subseteq Nat
         /\ Len(presses) \in Nat
BY NotificationAssumption DEF TypeOK, Press, NoPress, Latest

-----------------------------------------------------------------------------
(* The steps.                                                              *)

\* A new activity, with an intent whose press is none of the future.
LEMMA CreateIInv ==
  ASSUME IInv, NEW p \in Press \cup {NoPress}, Create(p), service' \in BOOLEAN,
         presses' \in Seq(Button), moves' \in 0..MaxMoves,
         p <= Len(presses'), launched <= Len(presses')
  PROVE  IInv'
<1> DEFINE none == << >>
<1>1. /\ none \in Seq(Press) /\ Rising(none) /\ Between(none, 0, 0)
  BY DEF Rising, Between
<1>0. messages' = Send(none, p)
  BY DEF Create
<1> HIDE DEF none
<1>2. p \in Nat
  BY NotificationAssumption DEF Press, NoPress
<1>3. /\ messages' \in Seq(Press) /\ Rising(messages')
      /\ p = NoPress => messages' = none
      /\ p # NoPress => /\ Between(messages', 0, p)
                        /\ messages' # << >>
                        /\ messages'[Len(messages')] = p
  BY <1>0, <1>1, <1>2, SendKeepsOrder DEF NoPress
<1>4. TypeOK'
  BY <1>3 DEF IInv, TypeOK, Create, NoPress
<1>5. Latest' = 0 /\ shown' = p
  BY DEF Create, Latest, NoPress
<1>6. InOrder'
  BY <1>1, <1>2, <1>3, <1>5 DEF InOrder, Between, Rising, NoPress, none
<1>7. NewestLast'
  BY <1>3, <1>5 DEF NewestLast, NoPress
<1>8. Bounded'
  BY <1>2 DEF IInv, Bounded, Create, NoPress
<1>9. QED
  BY <1>4, <1>6, <1>7, <1>8 DEF IInv

\* The living activity, with a newer press or with none.
LEMMA NewIntentIInv ==
  ASSUME IInv, NEW p \in Press \cup {NoPress}, activity # "none",
         NewIntent(p), service' \in BOOLEAN,
         presses' \in Seq(Button), moves' \in 0..MaxMoves,
         Len(presses) <= Len(presses'), p <= Len(presses'),
         p # NoPress => shown <= p
  PROVE  IInv'
<1>1. /\ messages \in Seq(Press) /\ Rising(messages)
      /\ Between(messages, Latest, shown) /\ Latest <= shown
  BY DEF IInv, InOrder, TypeOK
<1>2. /\ Latest \in Nat /\ shown \in Nat /\ p \in Nat /\ Len(presses) \in Nat
      /\ Len(presses') \in Nat /\ launched \in Nat
  BY Numbers, NotificationAssumption DEF IInv, Press, NoPress
<1>3. Latest' = Latest
  BY DEF NewIntent, dartVars, Latest
<1>4. CASE p = NoPress
  <2>1. messages' = messages /\ shown' = shown /\ intent' = NoPress
    BY <1>4 DEF NewIntent, Send
  <2>2. TypeOK'
    BY <2>1 DEF IInv, TypeOK, NewIntent, dartVars
  <2>3. InOrder' /\ NewestLast'
    BY <1>1, <1>3, <2>1 DEF IInv, InOrder, NewestLast, Rising, Between
  <2>4. Bounded'
    BY <1>2, <2>1 DEF IInv, Bounded, NewIntent, dartVars, NoPress
  <2>5. QED
    BY <2>2, <2>3, <2>4 DEF IInv
<1>5. CASE p # NoPress
  <2> DEFINE once == Send(messages, p)
  <2>1. /\ once \in Seq(Press) /\ Rising(once) /\ Between(once, Latest, p)
    BY <1>1, <1>2, <1>5, SendKeepsOrder
  <2>2. Latest <= p
    BY <1>1, <1>2, <1>5
  <2>3. messages' = Send(once, p) /\ shown' = p /\ intent' = p
    BY <1>5 DEF NewIntent
  <2> HIDE DEF once
  <2>4. /\ messages' \in Seq(Press) /\ Rising(messages')
        /\ Between(messages', Latest, p)
        /\ messages' # << >> /\ messages'[Len(messages')] = p
    BY <1>2, <1>5, <2>1, <2>2, <2>3, SendKeepsOrder
  <2>5. TypeOK'
    BY <2>3, <2>4 DEF IInv, TypeOK, NewIntent, dartVars
  <2>6. InOrder' /\ NewestLast'
    BY <1>3, <2>2, <2>3, <2>4 DEF InOrder, NewestLast, Rising, Between
  <2>7. Bounded'
    BY <1>2, <2>3 DEF IInv, Bounded, NewIntent, dartVars, NoPress
  <2>8. QED
    BY <2>5, <2>6, <2>7 DEF IInv
<1>6. QED
  BY <1>4, <1>5

\* A button, and the launcher: both start the activity.
LEMMA StartIInv ==
  ASSUME IInv, NEW p \in Press \cup {NoPress}, StartActivity(p),
         service' \in BOOLEAN, presses' \in Seq(Button), moves' \in 0..MaxMoves,
         Len(presses) <= Len(presses'), p <= Len(presses'),
         p # NoPress => Len(presses) <= p
  PROVE  IInv'
<1>1. launched <= Len(presses') /\ (p # NoPress => shown <= p)
  <2>1. launched <= Len(presses) /\ shown <= Len(presses)
    BY DEF IInv, Bounded
  <2>2. /\ launched \in Nat /\ shown \in Nat /\ Len(presses) \in Nat
        /\ Len(presses') \in Nat /\ p \in Nat
    BY Numbers, NotificationAssumption DEF IInv, Press, NoPress
  <2>3. QED
    BY <2>1, <2>2
<1>2. CASE activity = "none"
  BY <1>1, <1>2, CreateIInv DEF StartActivity
<1>3. CASE activity # "none"
  BY <1>1, <1>3, NewIntentIInv DEF StartActivity
<1>4. QED
  BY <1>2, <1>3

LEMMA MoveTypes ==
  ASSUME TypeOK, Move
  PROVE  /\ moves' \in 0..MaxMoves /\ presses' = presses /\ service' = service
         /\ presses \in Seq(Button) /\ service \in BOOLEAN
         /\ Len(presses) \in Nat
BY NotificationAssumption DEF TypeOK, Move

LEMMA LaunchIInv == IInv /\ Launch => IInv'
<1> SUFFICES ASSUME IInv, Launch PROVE IInv'
  OBVIOUS
<1>1. /\ moves' \in 0..MaxMoves /\ presses' = presses /\ service' = service
      /\ presses \in Seq(Button) /\ service \in BOOLEAN
      /\ Len(presses) \in Nat
  BY MoveTypes DEF IInv, Launch
<1>2. NoPress \in Press \cup {NoPress} /\ NoPress <= Len(presses)
  BY <1>1 DEF NoPress
<1>3. QED
  BY <1>1, <1>2, StartIInv DEF Launch

LEMMA PressButtonIInv ==
  ASSUME IInv, NEW button \in Button, PressButton(button)
  PROVE  IInv'
<1>1. presses \in Seq(Button) /\ Len(presses) \in Nat
  BY DEF IInv, TypeOK
<1>2. presses' = Append(presses, button)
  BY DEF PressButton
<1>3. presses' \in Seq(Button) /\ Len(presses') = Len(presses) + 1
  BY <1>1, <1>2
<1>4. /\ service' \in BOOLEAN /\ moves' = moves
      /\ Len(presses) < MaxPresses
  BY DEF PressButton
<1>5. Len(presses') \in Press
  BY <1>1, <1>3, <1>4, NotificationAssumption DEF Press
<1>6. moves' \in 0..MaxMoves
  BY <1>4 DEF IInv, TypeOK
<1>7. CASE StartActivity(Len(presses'))
  BY <1>1, <1>3, <1>4, <1>5, <1>6, <1>7, StartIInv
<1>8. CASE UNCHANGED <<activity, intentVars, messages, dartVars>>
  <2>1. TypeOK'
    BY <1>3, <1>4, <1>6, <1>8 DEF IInv, TypeOK, intentVars, dartVars
  <2>2. InOrder' /\ NewestLast'
    BY <1>8 DEF IInv, InOrder, NewestLast, Latest, Rising, Between,
                intentVars, dartVars
  <2>3. shown \in Nat /\ launched \in Nat
    BY Numbers DEF IInv
  <2>4. Bounded'
    BY <1>1, <1>3, <1>8, <2>3 DEF IInv, Bounded, intentVars, dartVars
  <2>5. QED
    BY <2>1, <2>2, <2>4 DEF IInv
<1>9. QED
  BY <1>7, <1>8 DEF PressButton

LEMMA LeaveIInv == IInv /\ Leave => IInv'
<1> SUFFICES ASSUME IInv, Leave PROVE IInv'
  OBVIOUS
<1>1. /\ moves' \in 0..MaxMoves /\ presses' = presses /\ service' = service
  BY MoveTypes DEF IInv, Leave
<1>2. TypeOK'
  BY <1>1 DEF IInv, TypeOK, Leave, intentVars, dartVars
<1>3. InOrder' /\ NewestLast'
  BY DEF IInv, Leave, InOrder, NewestLast, Latest, Rising, Between, intentVars,
         dartVars
<1>4. Bounded'
  BY <1>1 DEF IInv, Leave, Bounded, intentVars, dartVars
<1>5. QED
  BY <1>2, <1>3, <1>4 DEF IInv

\* The action that is sent again is the one the activity was given last.
LEMMA ComeBackIInv == IInv /\ ComeBack => IInv'
<1> SUFFICES ASSUME IInv, ComeBack PROVE IInv'
  OBVIOUS
<1>1. /\ moves' \in 0..MaxMoves /\ presses' = presses /\ service' = service
  BY MoveTypes DEF IInv, ComeBack
<1>2. /\ messages \in Seq(Press) /\ Rising(messages)
      /\ Between(messages, Latest, shown) /\ Latest <= shown
      /\ Latest \in Nat /\ shown \in Nat
  BY Numbers DEF IInv, InOrder, TypeOK
<1>3. /\ intent \in Press \cup {NoPress} /\ intent \in {NoPress, shown}
      /\ messages' = Send(messages, intent)
  BY DEF IInv, TypeOK, Bounded, ComeBack
<1>4. /\ messages' \in Seq(Press) /\ Rising(messages')
      /\ intent = NoPress => messages' = messages
      /\ intent # NoPress => /\ Between(messages', Latest, shown)
                             /\ messages' # << >>
                             /\ messages'[Len(messages')] = shown
  BY <1>2, <1>3, SendKeepsOrder
<1>5. Latest' = Latest /\ shown' = shown
  BY DEF ComeBack, Latest, intentVars, dartVars
<1>6. TypeOK'
  BY <1>1, <1>4 DEF IInv, TypeOK, ComeBack, intentVars, dartVars
<1>7. InOrder'
  BY <1>2, <1>4, <1>5 DEF InOrder, Rising, Between
<1>8. NewestLast'
  BY <1>4, <1>5 DEF IInv, NewestLast
<1>9. Bounded'
  BY <1>1 DEF IInv, Bounded, ComeBack, intentVars, dartVars
<1>10. QED
  BY <1>6, <1>7, <1>8, <1>9 DEF IInv

LEMMA DestroyIInv == IInv /\ Destroy => IInv'
<1> SUFFICES ASSUME IInv, Destroy PROVE IInv'
  OBVIOUS
<1>1. /\ moves' \in 0..MaxMoves /\ presses' = presses /\ service' = service
      /\ Len(presses) \in Nat
  BY MoveTypes DEF IInv, Destroy
<1>2. TypeOK'
  <2>1. << >> \in Seq(Press)
    OBVIOUS
  <2>2. messages' \in Seq(Press)
    BY <2>1 DEF Destroy
  <2>3. QED
    BY <1>1, <2>2 DEF IInv, TypeOK, Destroy
<1>3. InOrder' /\ NewestLast'
  BY DEF Destroy, InOrder, NewestLast, Latest, Rising, Between, NoPress
<1>4. Bounded'
  BY <1>1 DEF IInv, Destroy, Bounded, NoPress
<1>5. QED
  BY <1>2, <1>3, <1>4 DEF IInv

\* The intent an activity is made again with is none of the future.
LEMMA RecreateIInv == IInv /\ Recreate => IInv'
<1> SUFFICES ASSUME IInv, Recreate PROVE IInv'
  OBVIOUS
<1>1. /\ moves' \in 0..MaxMoves /\ presses' = presses /\ service' = service
      /\ presses \in Seq(Button) /\ service \in BOOLEAN
  BY MoveTypes DEF IInv, Recreate
<1>2. launched \in Press \cup {NoPress} /\ launched <= Len(presses)
  BY DEF IInv, TypeOK, Bounded
<1>3. QED
  BY <1>1, <1>2, CreateIInv DEF Recreate

LEMMA UpdateNotificationIInv == IInv /\ UpdateNotification => IInv'
<1> SUFFICES ASSUME IInv, UpdateNotification PROVE IInv'
  OBVIOUS
<1>1. TypeOK'
  BY DEF IInv, TypeOK, UpdateNotification, intentVars, dartVars
<1>2. InOrder' /\ NewestLast' /\ Bounded'
  BY DEF IInv, UpdateNotification, InOrder, NewestLast, Bounded, Latest, Rising,
         Between, intentVars, dartVars
<1>3. QED
  BY <1>1, <1>2 DEF IInv

\* The press that arrives is not below the one before, nor above the newest.
LEMMA DeliverIInv ==
  ASSUME IInv, Deliver
  PROVE  IInv' /\ Latest <= Latest'
<1>1. /\ messages \in Seq(Nat) /\ messages # << >> /\ Rising(messages)
      /\ Between(messages, Latest, shown)
      /\ Latest \in Nat /\ shown \in Nat
  BY Numbers DEF IInv, InOrder, Deliver
<1>2. /\ Rising(Tail(messages))
      /\ Between(Tail(messages), Head(messages), shown)
      /\ Latest <= Head(messages) /\ Head(messages) <= shown
      /\ Tail(messages) = << >> => Head(messages) = messages[Len(messages)]
      /\ Tail(messages) # << >> =>
           Tail(messages)[Len(Tail(messages))] = messages[Len(messages)]
  BY <1>1, TailRises
<1>3. Head(messages) \in Press /\ Tail(messages) \in Seq(Press)
  BY <1>1 DEF IInv, TypeOK
<1>4. /\ messages' = Tail(messages) /\ Latest' = Head(messages)
      /\ shown' = shown /\ handler' = handler
  BY DEF Deliver, Latest, intentVars
<1>5. TypeOK'
  BY <1>3 DEF IInv, TypeOK, Deliver, intentVars
<1>6. InOrder'
  BY <1>2, <1>4 DEF InOrder, Rising, Between
<1>7. NewestLast'
  BY <1>1, <1>2, <1>4 DEF IInv, NewestLast
<1>8. Bounded'
  <2>1. activity # "none"
    BY DEF IInv, Bounded, Deliver
  <2>2. QED
    BY <2>1 DEF IInv, Bounded, Deliver, intentVars
<1>9. QED
  BY <1>2, <1>4, <1>5, <1>6, <1>7, <1>8 DEF IInv

LEMMA SetHandlerIInv ==
  ASSUME IInv, SetHandler
  PROVE  IInv' /\ Latest' = Latest
<1>1. Latest' = Latest
  BY DEF IInv, Bounded, SetHandler, Latest
<1>2. TypeOK'
  BY DEF IInv, TypeOK, SetHandler, intentVars
<1>3. InOrder' /\ NewestLast'
  BY <1>1 DEF IInv, InOrder, NewestLast, SetHandler, Rising, Between, intentVars
<1>4. Bounded'
  BY DEF IInv, Bounded, SetHandler, intentVars
<1>5. QED
  BY <1>1, <1>2, <1>3, <1>4 DEF IInv

LEMMA StutterIInv == IInv /\ UNCHANGED vars => IInv'
BY DEF IInv, TypeOK, InOrder, NewestLast, Bounded, Latest, Rising, Between,
       vars, intentVars, dartVars

LEMMA InitIInv == Init => IInv
<1> SUFFICES ASSUME Init PROVE IInv
  OBVIOUS
<1>1. TypeOK
  <2>1. << >> \in Seq(Press) /\ << >> \in Seq(Button)
    OBVIOUS
  <2>2. messages \in Seq(Press) /\ presses \in Seq(Button)
    BY <2>1 DEF Init
  <2>3. {launched, intent, buffered, heard, shown} \subseteq Press \cup {NoPress}
    BY DEF Init
  <2>4. moves \in 0..MaxMoves
    BY NotificationAssumption DEF Init
  <2>5. /\ activity \in {"none", "stopped", "resumed"}
        /\ handler \in BOOLEAN /\ service \in BOOLEAN
    BY DEF Init
  <2>6. QED
    BY <2>2, <2>3, <2>4, <2>5 DEF TypeOK
<1>2. InOrder /\ NewestLast /\ Bounded
  BY DEF Init, InOrder, NewestLast, Bounded, Latest, Rising, Between, NoPress
<1>3. QED
  BY <1>1, <1>2 DEF IInv

LEMMA StepIInv == IInv /\ [Next]_vars => IInv'
<1> SUFFICES ASSUME IInv, [Next]_vars PROVE IInv'
  OBVIOUS
<1>1. CASE Launch
  BY <1>1, LaunchIInv
<1>2. CASE Leave
  BY <1>2, LeaveIInv
<1>3. CASE ComeBack
  BY <1>3, ComeBackIInv
<1>4. CASE Destroy
  BY <1>4, DestroyIInv
<1>5. CASE Recreate
  BY <1>5, RecreateIInv
<1>6. ASSUME NEW button \in Button, PressButton(button) PROVE IInv'
  BY <1>6, PressButtonIInv
<1>7. CASE UpdateNotification
  BY <1>7, UpdateNotificationIInv
<1>8. CASE Deliver
  BY <1>8, DeliverIInv
<1>9. CASE SetHandler
  BY <1>9, SetHandlerIInv
<1>10. CASE UNCHANGED vars
  BY <1>10, StutterIInv
<1>11. QED
  BY <1>1, <1>2, <1>3, <1>4, <1>5, <1>6, <1>7, <1>8, <1>9, <1>10 DEF Next

-----------------------------------------------------------------------------

\* The invariant holds for every number of presses and changes.
THEOREM Invariance == Spec => []IInv
<1>1. QED
  BY InitIInv, StepIInv, PTL DEF Spec

\* The state of the activity, its intents and the channel stays well typed.
THEOREM TypeCorrect == Spec => []TypeOK
<1>1. IInv => TypeOK
  BY DEF IInv
<1>2. QED
  BY <1>1, Invariance, PTL

\* At rest the engine has been given, last of all, the press its activity was
\* given last, whatever onResume delivered again.
THEOREM LastPressCounts == Spec => []LastPressHeard
<1>1. IInv => LastPressHeard
  BY DEF IInv, NewestLast, LastPressHeard, Quiet, Latest
<1>2. QED
  BY <1>1, Invariance, PTL

\* Within the life of an isolate an older press never follows a newer one.
THEOREM InOrderOnly == Spec => NeverGoesBack
<1>1. IInv /\ [Next]_vars => [handler /\ handler' => heard' >= heard]_vars
  <2> SUFFICES ASSUME IInv, Next, handler, handler' PROVE heard' >= heard
    BY DEF vars
  <2>1. heard \in Nat
    BY Numbers DEF IInv
  <2>2. activity # "none"
    BY DEF IInv, Bounded
  <2>3. CASE Deliver
    BY <2>1, <2>3, DeliverIInv DEF Latest
  <2>4. CASE Destroy
    BY <2>4 DEF Destroy
  <2>5. CASE Launch \/ Leave \/ ComeBack \/ UpdateNotification \/ SetHandler
    BY <2>1, <2>2, <2>5 DEF Launch, Leave, ComeBack, UpdateNotification,
          SetHandler, StartActivity, NewIntent, dartVars
  <2>6. CASE \E button \in Button : PressButton(button)
    BY <2>1, <2>2, <2>6 DEF PressButton, StartActivity, NewIntent, dartVars
  <2>7. CASE Recreate
    BY <2>2, <2>7 DEF Recreate
  <2>8. QED
    BY <2>3, <2>4, <2>5, <2>6, <2>7 DEF Next
<1>2. QED
  BY <1>1, Invariance, PTL DEF Spec, NeverGoesBack

=============================================================================

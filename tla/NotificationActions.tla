------------------------ MODULE NotificationActions ------------------------
(***************************************************************************)
(* The way of a button of the notification to the engine: the receiver     *)
(* starts the activity with the action in an intent, the activity sends    *)
(* the action of its intent over the method channel, and the widget of the *)
(* app, once there is one, hands it to the engine.                         *)
(*                                                                         *)
(* A press is known by its number, so that an old one that is delivered    *)
(* again differs from a new one of the same button.                        *)
(***************************************************************************)
EXTENDS Integers, Sequences

CONSTANTS
  MaxPresses, \* bound: how often a button is pressed
  MaxMoves    \* bound: how often the activity changes its state

ASSUME NotificationAssumption == MaxPresses \in Nat /\ MaxMoves \in Nat

Press == 1..MaxPresses
NoPress == 0

\* addAction: the buttons, by the action of their intent.
Button == {"PAUSE_ALL", "RESUME_ALL", "SHUTDOWN"}

VARIABLES
  activity, \* of MainActivity
  launched, \* the action in the intent the activity was started with
  intent,   \* the action in its current intent: getIntent()
  messages, \* invokeMethod calls under way to the isolate
  buffered, \* the channel's buffer, which keeps one message
  handler,  \* the isolate has called setMethodCallHandler
  heard,    \* the action the engine was given last
  service,  \* the foreground service, and its notification, is there
  shown,    \* history: the press this activity was given last
  presses,  \* the buttons pressed so far
  moves     \* counts the changes of the activity

intentVars == <<launched, intent, shown>>
dartVars == <<buffered, handler, heard>>
vars == <<activity, intentVars, messages, dartVars, service, presses, moves>>

TypeOK ==
  /\ activity \in {"none", "stopped", "resumed"}
  /\ {launched, intent, buffered, heard, shown} \subseteq Press \cup {NoPress}
  /\ messages \in Seq(Press)
  /\ handler \in BOOLEAN
  /\ service \in BOOLEAN
  /\ presses \in Seq(Button)
  /\ moves \in 0..MaxMoves

-----------------------------------------------------------------------------
(* MainActivity.                                                           *)

\* Mutant: an intent without an action is sent, too.
SendAlways(queue, press) == Append(queue, press)

\* handleNotificationAction: an intent without an action is none.
Send(queue, press) ==
  IF press = NoPress THEN queue ELSE Append(queue, press)

\* A new activity gets this intent: onCreate, then onResume.
Create(press) ==
  /\ activity' = "resumed"
  /\ launched' = press /\ intent' = press /\ shown' = press
  /\ messages' = Send(<< >>, press)
  /\ handler' = FALSE /\ buffered' = NoPress /\ heard' = NoPress

\* The living activity gets it: onNewIntent, which keeps it, then onResume,
\* which handles the intent it has by then.
NewIntent(press) ==
  /\ activity' = "resumed"
  /\ intent' = press
  /\ messages' = Send(Send(messages, press), press)
  /\ shown' = IF press = NoPress THEN shown ELSE press
  /\ UNCHANGED <<launched, dartVars>>

StartActivity(press) ==
  IF activity = "none" THEN Create(press) ELSE NewIntent(press)

Move ==
  /\ moves < MaxMoves
  /\ moves' = moves + 1
  /\ UNCHANGED <<service, presses>>

\* The user starts the app from the launcher, whose intent has no action.
Launch == Move /\ StartActivity(NoPress)

\* The activity leaves the front, and comes back without a new intent: from
\* the recent apps, from another activity, from the screen saver.
Leave ==
  /\ Move
  /\ activity = "resumed"
  /\ activity' = "stopped"
  /\ UNCHANGED <<intentVars, messages, dartVars>>

\* Mutant: the activity handles the intent it was started with, too.
ComeBackLaunched ==
  /\ Move
  /\ activity = "stopped"
  /\ activity' = "resumed"
  /\ messages' = Send(Send(messages, launched), intent)
  /\ UNCHANGED <<intentVars, dartVars>>

ComeBack ==
  /\ Move
  /\ activity = "stopped"
  /\ activity' = "resumed"
  /\ messages' = Send(messages, intent)
  /\ UNCHANGED <<intentVars, dartVars>>

\* The activity is destroyed, and its isolate with it.
Destroy ==
  /\ Move
  /\ activity # "none"
  /\ activity' = "none"
  /\ messages' = << >>
  /\ handler' = FALSE /\ buffered' = NoPress /\ heard' = NoPress
  /\ intent' = NoPress /\ shown' = NoPress
  /\ UNCHANGED launched

\* The system makes it again from the recent apps, with the intent it was
\* first started with.
Recreate ==
  /\ Move
  /\ activity = "none"
  /\ Create(launched)

-----------------------------------------------------------------------------
(* The notification.                                                       *)

\* NotificationActionReceiver.onReceive: shutdown also stops the service,
\* before the engine hears of it.  Where the system does not let a receiver
\* start an activity, nothing else happens.
PressButton(button) ==
  /\ service
  /\ Len(presses) < MaxPresses
  /\ presses' = Append(presses, button)
  /\ service' = (button # "SHUTDOWN")
  /\ \/ StartActivity(Len(presses'))
     \/ UNCHANGED <<activity, intentVars, messages, dartVars>>
  /\ UNCHANGED moves

\* The engine updates the notification, which starts the service.
UpdateNotification ==
  /\ handler
  /\ service' = TRUE
  /\ UNCHANGED <<activity, intentVars, messages, dartVars, presses, moves>>

-----------------------------------------------------------------------------
(* The isolate.                                                            *)

\* Mutant: the buffer keeps its first message.
DeliverKeepingFirst ==
  /\ messages # << >>
  /\ messages' = Tail(messages)
  /\ IF handler
     THEN heard' = Head(messages) /\ UNCHANGED buffered
     ELSE /\ buffered' = IF buffered = NoPress THEN Head(messages) ELSE buffered
          /\ UNCHANGED heard
  /\ UNCHANGED <<activity, intentVars, handler, service, presses, moves>>

\* A message arrives: _handleNativeCall, or the channel's buffer, where it
\* takes the place of an older one.
Deliver ==
  /\ messages # << >>
  /\ messages' = Tail(messages)
  /\ IF handler
     THEN heard' = Head(messages) /\ UNCHANGED buffered
     ELSE buffered' = Head(messages) /\ UNCHANGED heard
  /\ UNCHANGED <<activity, intentVars, handler, service, presses, moves>>

\* Mutant: the app is only built while it is in front.
SetHandlerInFront ==
  /\ activity = "resumed"
  /\ ~handler
  /\ handler' = TRUE
  /\ heard' = IF buffered = NoPress THEN heard ELSE buffered
  /\ buffered' = NoPress
  /\ UNCHANGED <<activity, intentVars, messages, service, presses, moves>>

\* initState of the app's widget: initialize() is begun, and the handler is
\* set, which takes what the buffer holds.
SetHandler ==
  /\ activity # "none"
  /\ ~handler
  /\ handler' = TRUE
  /\ heard' = IF buffered = NoPress THEN heard ELSE buffered
  /\ buffered' = NoPress
  /\ UNCHANGED <<activity, intentVars, messages, service, presses, moves>>

Init ==
  /\ activity = "none"
  /\ launched = NoPress /\ intent = NoPress /\ shown = NoPress
  /\ messages = << >>
  /\ buffered = NoPress /\ handler = FALSE /\ heard = NoPress
  /\ service = FALSE
  /\ presses = << >> /\ moves = 0

Next ==
  \/ Launch \/ Leave \/ ComeBack \/ Destroy \/ Recreate
  \/ \E button \in Button : PressButton(button)
  \/ UpdateNotification
  \/ Deliver \/ SetHandler

\* Messages arrive and the app's widget is built.  The user and the system
\* owe nothing.
Fairness == WF_vars(Deliver) /\ WF_vars(SetHandler)

Spec == Init /\ [][Next]_vars
FairSpec == Spec /\ Fairness

-----------------------------------------------------------------------------

\* At rest the engine has been given, last of all, the press its activity
\* was given last: neither the second delivery by onResume nor one that was
\* buffered while the app started leaves an older action in force.
Quiet == handler /\ messages = << >>

LastPressHeard == Quiet /\ shown # NoPress => heard = shown

\* An older press never follows a newer one: within the life of an isolate,
\* what is delivered again is only ever the newest that was delivered.
NeverGoesBack == [][handler /\ handler' => heard' >= heard]_vars

\* A press that has reached the activity is heard, also when the app is only
\* starting, unless the activity is destroyed first.
PressIsHeard ==
  \A p \in Press : shown = p ~> heard >= p \/ activity = "none"

=============================================================================

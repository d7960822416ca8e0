------------------------- MODULE ConstraintChecker -------------------------
(***************************************************************************)
(* The checker of Getzy's transfer constraints, constraint_checker.dart.   *)
(*                                                                         *)
(* A check reads, one after the other and across awaits, a setting and the *)
(* state of the device it is about, for each kind of constraint.  Nothing  *)
(* keeps checks apart: an event of a plugin or a saved setting begins one  *)
(* while others are under way, and the one that ends last is believed.     *)
(***************************************************************************)
EXTENDS Integers, Sequences, SequencesExt

CONSTANTS
  Checks,      \* the checks that can be under way at a time
  Levels,      \* the battery levels
  Limits,      \* the limits the user can set
  Unset,       \* no limit was ever saved
  StartOn,     \* the switches the table may start with
  StartLevels, \* the battery levels the device may start with
  MaxChanges   \* bound: the changes of the settings and the device

\* The order in which a check goes through the kinds.
Order == <<"wifiOnly", "vpnOnly", "chargingOnly", "batteryLimit">>
Kinds == ToSet(Order)
Plugins == {"connectivity", "battery"}
PluginOf(kind) ==
  IF kind \in {"wifiOnly", "vpnOnly"} THEN "connectivity" ELSE "battery"

\* What checkConnectivity answers, Ethernet counted as Wi-Fi.
Networks == {"wifi", "vpn", "mobile"}

DefaultLimit == 25

ASSUME CheckerAssumption ==
  /\ Levels \subseteq 0..100
  /\ Limits \subseteq 0..100
  /\ Unset \notin 0..100
  /\ StartOn \subseteq SUBSET Kinds
  /\ StartLevels \subseteq Levels
  /\ MaxChanges \in Nat

VARIABLES
  settings,  \* the table: the kinds switched on, and the limit
  device,    \* what the plugins read
  plugins,   \* the plugins there are
  subs,      \* the plugins whose events are listened to
  opened,    \* _initialized
  closed,    \* the stream of results is closed
  due,       \* the events and saved settings that are to begin a check
  checks,    \* the checks under way
  current,   \* _currentViolations
  held,      \* history: for a check, what has held ever since it began
  changes    \* counts the changes

vars == <<settings, device, plugins, subs, opened, closed, due, checks,
          current, held, changes>>

\* at: the place in Order; reading: what is awaited.
Idle == [at |-> 0, reading |-> "setting", limit |-> 0, found |-> {}]
CheckType ==
  [at : 0..Len(Order), reading : {"setting", "limit", "device"},
   limit : 0..100, found : SUBSET Kinds]

TypeOK ==
  /\ settings \in [on : SUBSET Kinds, limit : Limits \cup {Unset}]
  /\ device \in [network : Networks, charging : BOOLEAN, level : Levels]
  /\ plugins \subseteq Plugins
  /\ subs \subseteq Plugins
  /\ opened \in BOOLEAN
  /\ closed \in BOOLEAN
  /\ due \subseteq Plugins \cup {"settings"}
  /\ checks \in [Checks -> CheckType]
  /\ current \subseteq Kinds
  /\ held \in [Checks -> [violated : SUBSET Kinds, off : SUBSET Kinds,
                          met : SUBSET Kinds]]
  /\ changes \in 0..MaxChanges

-----------------------------------------------------------------------------
(* What a constraint is about.                                             *)

\* Mutant: a limit that was never saved has no default.
LimitUnchecked(limit) == limit

LimitOf(limit) == IF limit = Unset THEN DefaultLimit ELSE limit

Met(kind, limit) ==
  CASE kind = "wifiOnly"     -> device.network = "wifi"
    [] kind = "vpnOnly"      -> device.network = "vpn"
    [] kind = "chargingOnly" -> device.charging
    [] kind = "batteryLimit" -> device.level >= limit

LimitNow == IF settings.limit = Unset THEN DefaultLimit ELSE settings.limit
MetNow(kind) == Met(kind, LimitNow)

\* No kind up to this one is switched on and needs a plugin there is not.
Readable(kind) ==
  \A i \in DOMAIN Order :
    /\ i <= (CHOOSE n \in DOMAIN Order : Order[n] = kind)
    /\ Order[i] \in settings.on
    => PluginOf(Order[i]) \in plugins

Violated(kind) == kind \in settings.on /\ ~MetNow(kind) /\ Readable(kind)

Now ==
  [violated |-> {k \in Kinds : Violated(k)},
   off      |-> Kinds \ settings.on,
   met      |-> {k \in Kinds : MetNow(k)}]

StillHeld(h, now) ==
  [violated |-> h.violated \cap now.violated,
   off      |-> h.off \cap now.off,
   met      |-> h.met \cap now.met]

-----------------------------------------------------------------------------
(* A check.                                                                *)

Running(c) == checks[c].at > 0

\* Mutant: a check adds to the list of the one before.
BeginAdding(c) ==
  /\ ~Running(c)
  /\ checks' = [checks EXCEPT ![c] = [Idle EXCEPT !.at = 1, !.found = current]]
  /\ held' = [held EXCEPT ![c] = Now]

Begin(c) ==
  /\ ~Running(c)
  /\ checks' = [checks EXCEPT ![c] = [Idle EXCEPT !.at = 1]]
  /\ held' = [held EXCEPT ![c] = Now]

\* The check is over: what it found is the list, and is added to the stream,
\* which throws once the stream is closed.
Publish(c, found) ==
  /\ current' = found
  /\ checks' = [checks EXCEPT ![c] = Idle]

\* The kind is decided, and the check goes on to the next one.
Decided(c, found) ==
  IF checks[c].at = Len(Order) THEN Publish(c, found)
  ELSE /\ checks' = [checks EXCEPT ![c] =
                       [Idle EXCEPT !.at = checks[c].at + 1, !.found = found]]
       /\ UNCHANGED current

KindOf(c) == Order[checks[c].at]

\* loadValue of the kind's switch answers.
ReadSetting(c) ==
  /\ Running(c) /\ checks[c].reading = "setting"
  /\ IF KindOf(c) \notin settings.on THEN Decided(c, checks[c].found)
     ELSE /\ checks' = [checks EXCEPT ![c].reading =
                          IF KindOf(c) = "batteryLimit" THEN "limit" ELSE "device"]
          /\ UNCHANGED current

\* loadValue('battery_level') answers.
ReadLimit(c) ==
  /\ Running(c) /\ checks[c].reading = "limit"
  /\ checks' = [checks EXCEPT ![c].reading = "device",
                              ![c].limit = LimitOf(settings.limit)]
  /\ UNCHANGED current

\* Mutant: only the last violation is kept.
ReadDeviceLast(c) ==
  /\ Running(c) /\ checks[c].reading = "device"
  /\ PluginOf(KindOf(c)) \in plugins
  /\ Decided(c, IF Met(KindOf(c), checks[c].limit) THEN checks[c].found
                ELSE {KindOf(c)})

\* The plugin answers.
ReadDevice(c) ==
  /\ Running(c) /\ checks[c].reading = "device"
  /\ PluginOf(KindOf(c)) \in plugins
  /\ Decided(c, IF Met(KindOf(c), checks[c].limit) THEN checks[c].found
                ELSE checks[c].found \cup {KindOf(c)})

\* Mutant: a check that fails publishes nothing.
ReadFailsSilently(c) ==
  /\ Running(c) /\ checks[c].reading = "device"
  /\ PluginOf(KindOf(c)) \notin plugins
  /\ checks' = [checks EXCEPT ![c] = Idle]
  /\ UNCHANGED current

\* There is no such plugin: the check ends with what it has found.
ReadFails(c) ==
  /\ Running(c) /\ checks[c].reading = "device"
  /\ PluginOf(KindOf(c)) \notin plugins
  /\ Publish(c, checks[c].found)

CheckStep(c) ==
  /\ ReadSetting(c) \/ ReadLimit(c) \/ ReadDevice(c) \/ ReadFails(c)
  /\ UNCHANGED <<settings, device, plugins, subs, opened, closed, due, held,
                 changes>>

-----------------------------------------------------------------------------
(* What begins a check, and the end of the checker.                        *)

Initialize(c) ==
  /\ ~opened
  /\ opened' = TRUE
  /\ subs' = plugins
  /\ Begin(c)
  /\ UNCHANGED <<settings, device, plugins, closed, due, current, changes>>

\* An event of a plugin, or triggerCheck once a switch is saved.
CheckDue(c) ==
  /\ \E source \in due :
       /\ due' = due \ {source}
       /\ IF source \in subs \cup {"settings"} THEN Begin(c)
          ELSE UNCHANGED <<checks, held>>
  /\ UNCHANGED <<settings, device, plugins, subs, opened, closed, current,
                 changes>>

\* dispose() cancels the one subscription, then the other, then closes the
\* stream.  An initialize() still under way subscribes again.
CancelConnectivity ==
  /\ "connectivity" \in subs
  /\ subs' = subs \ {"connectivity"}
  /\ UNCHANGED <<settings, device, plugins, opened, closed, due, checks,
                 current, held, changes>>

CancelBattery ==
  /\ "battery" \in subs /\ "connectivity" \notin subs
  /\ subs' = subs \ {"battery"}
  /\ UNCHANGED <<settings, device, plugins, opened, closed, due, checks,
                 current, held, changes>>

Close ==
  /\ ~closed /\ subs = {}
  /\ closed' = TRUE
  /\ UNCHANGED <<settings, device, plugins, subs, opened, due, checks,
                 current, held, changes>>

-----------------------------------------------------------------------------
(* The user and the device.                                                *)

\* The bounds: few changes, and one event of a source under way.
MayChange(source) == changes < MaxChanges /\ source \notin due

Changed(source) ==
  /\ changes' = changes + 1
  /\ due' = IF source \in subs \cup {"settings"} THEN due \cup {source} ELSE due
  /\ UNCHANGED <<plugins, subs, opened, closed, checks, current>>
  /\ held' = [c \in Checks |-> StillHeld(held[c], Now')]

\* A switch is saved, and the screen asks for a check.
SaveSwitch(kind) ==
  /\ MayChange("settings")
  /\ settings' = [settings EXCEPT !.on =
                    IF kind \in @ THEN @ \ {kind} ELSE @ \cup {kind}]
  /\ UNCHANGED device
  /\ Changed("settings")

NetworkChanges(network) ==
  /\ MayChange("connectivity")
  /\ device' = [device EXCEPT !.network = network]
  /\ UNCHANGED settings
  /\ Changed("connectivity")

ChargingChanges ==
  /\ MayChange("battery")
  /\ device' = [device EXCEPT !.charging = ~@]
  /\ UNCHANGED settings
  /\ Changed("battery")

\* Neither a new limit nor a new level begins a check.  A check reads the
\* limit before the level: of a limit that changes under it nothing holds.
SaveLimit(limit) ==
  /\ changes < MaxChanges
  /\ settings' = [settings EXCEPT !.limit = limit]
  /\ changes' = changes + 1
  /\ UNCHANGED <<device, plugins, subs, opened, closed, due, checks, current>>
  /\ held' = [c \in Checks |->
                [held[c] EXCEPT !.violated = @ \ {"batteryLimit"},
                                !.met = @ \ {"batteryLimit"}]]

LevelChanges(level) ==
  /\ changes < MaxChanges
  /\ device' = [device EXCEPT !.level = level]
  /\ changes' = changes + 1
  /\ UNCHANGED <<settings, plugins, subs, opened, closed, due, checks, current>>
  /\ held' = [c \in Checks |-> StillHeld(held[c], Now')]

-----------------------------------------------------------------------------

Init ==
  /\ settings \in [on : StartOn, limit : {Unset}]
  /\ device \in [network : {"mobile"}, charging : {FALSE}, level : StartLevels]
  /\ plugins \in SUBSET Plugins
  /\ subs = {}
  /\ opened = FALSE
  /\ closed = FALSE
  /\ due = {}
  /\ checks = [c \in Checks |-> Idle]
  /\ current = {}
  /\ held = [c \in Checks |-> Now]
  /\ changes = 0

Next ==
  \/ \E c \in Checks : Initialize(c) \/ CheckDue(c) \/ CheckStep(c)
  \/ CancelConnectivity \/ CancelBattery \/ Close
  \/ \E kind \in Kinds : SaveSwitch(kind)
  \/ \E network \in Networks : NetworkChanges(network)
  \/ ChargingChanges
  \/ \E limit \in Limits : SaveLimit(limit)
  \/ \E level \in Levels : LevelChanges(level)

Spec == Init /\ [][Next]_vars

\* The engine awaits initialize(); the isolate runs what is due, and every
\* read is answered.
FairSpec ==
  /\ Spec
  /\ WF_vars(\E c \in Checks : Initialize(c))
  /\ \A source \in Plugins \cup {"settings"} :
       WF_vars(\E c \in Checks : CheckDue(c) /\ source \in due \ due')
  /\ \A c \in Checks : WF_vars(CheckStep(c))

-----------------------------------------------------------------------------

Ends(c) == Running(c) /\ ~Running(c)'

\* A check that ends reports every constraint that was violated all along,
\* whatever changed under it, whichever checks overlap it and whichever
\* plugin fails on a later kind.
FoundWhatLasts ==
  [][\A c \in Checks : Ends(c) => held[c].violated \subseteq current']_vars

\* A check that ends reports no constraint that was switched off, or met, all
\* along.  One that was neither may be reported although it was never
\* violated at any single moment: switch and device are read apart.
NothingInvented ==
  [][\A c \in Checks :
       Ends(c) => current' \cap (held[c].off \cup held[c].met) = {}]_vars

\* While the checker listens, an event or a saved switch under which a network
\* or charging constraint is violated is answered by a result that reports
\* it, unless the violation ends before, or an earlier kind's plugin fails.
\* A later result may drop it again: that of an older check that ends last.
Standing(kind) == subs = plugins /\ opened /\ Violated(kind)
ChangeIsReported ==
  \A kind \in Kinds \ {"batteryLimit"} :
    due # {} /\ Standing(kind) ~> (kind \in current \/ ~Standing(kind))

=============================================================================

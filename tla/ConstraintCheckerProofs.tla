---------------------- MODULE ConstraintCheckerProofs ----------------------
(***************************************************************************)
(* Theorems about ConstraintChecker, for any number of overlapping checks, *)
(* any levels and limits, and any number of changes: a check that ends     *)
(* reports what was violated all along and nothing that was off or met all *)
(* along.                                                                  *)
(*                                                                         *)
(* The argument follows one check through the order of the kinds.  What    *)
(* lasts is judged at every moment, what the check has read at one: the    *)
(* two are tied by what a check knows once a switch has answered, and once *)
(* the limit has.                                                          *)
(***************************************************************************)
EXTENDS ConstraintChecker, TLAPS

\* The kinds a check has passed, and those it has still to decide.
Passed(c) == {Order[i] : i \in 1..(checks[c].at - 1)}
Ahead(c)  == {Order[i] : i \in checks[c].at..Len(Order)}

\* What has held all along holds now.
HoldsNow(c) ==
  /\ held[c].violated \subseteq Now.violated
  /\ held[c].off \subseteq Now.off
  /\ held[c].met \subseteq Now.met

\* What a check has found so far is right about the kinds it has passed.
FoundSoFar(c) ==
  /\ checks[c].found \subseteq Passed(c)
  /\ held[c].violated \cap Passed(c) \subseteq checks[c].found
  /\ checks[c].found \cap (held[c].off \cup held[c].met) = {}

\* Once the switch has answered that it is on, it was not off all along; and
\* if the plugin is missing, nothing from here on was readable all along.
SwitchWasOn(c) ==
  checks[c].reading # "setting" =>
    /\ KindOf(c) \notin held[c].off
    /\ PluginOf(KindOf(c)) \notin plugins => held[c].violated \cap Ahead(c) = {}

\* Once the limit has answered, it is that of every moment, or nothing is
\* said of the battery.
LimitWasRead(c) ==
  /\ checks[c].reading = "limit" => KindOf(c) = "batteryLimit"
  /\ /\ checks[c].reading = "device" /\ KindOf(c) = "batteryLimit"
     /\ "batteryLimit" \in held[c].violated \cup held[c].met
     => checks[c].limit = LimitNow

CheckOK(c) ==
  Running(c) => FoundSoFar(c) /\ SwitchWasOn(c) /\ LimitWasRead(c)

IInv ==
  /\ TypeOK
  /\ \A c \in Checks : HoldsNow(c) /\ CheckOK(c)

-----------------------------------------------------------------------------
(* The kinds and their order.                                              *)

LEMMA OrderFacts ==
  /\ Len(Order) = 4 /\ DOMAIN Order = 1..4
  /\ Order[1] = "wifiOnly" /\ Order[2] = "vpnOnly"
  /\ Order[3] = "chargingOnly" /\ Order[4] = "batteryLimit"
  /\ Kinds = {"wifiOnly", "vpnOnly", "chargingOnly", "batteryLimit"}
  /\ \A i, j \in 1..4 : Order[i] = Order[j] => i = j
<1>1. /\ Len(Order) = 4 /\ DOMAIN Order = 1..4
      /\ Order[1] = "wifiOnly" /\ Order[2] = "vpnOnly"
      /\ Order[3] = "chargingOnly" /\ Order[4] = "batteryLimit"
  BY DEF Order
<1>2. Kinds = {Order[i] : i \in 1..4}
  BY <1>1 DEF Kinds, ToSet
<1>3. \A i \in 1..4 : i = 1 \/ i = 2 \/ i = 3 \/ i = 4
  OBVIOUS
<1>4. Kinds = {"wifiOnly", "vpnOnly", "chargingOnly", "batteryLimit"}
  BY <1>1, <1>2, <1>3
<1>5. \A i, j \in 1..4 : Order[i] = Order[j] => i = j
  BY <1>1, <1>3
<1>6. QED
  BY <1>1, <1>4, <1>5

\* A kind is not readable behind one that is switched on and has no plugin.
LEMMA ReadableUpTo ==
  ASSUME NEW i \in 1..4, NEW k \in i..4,
         Order[i] \in settings.on, PluginOf(Order[i]) \notin plugins
  PROVE  Order[k] \notin Now.violated
<1>1. k \in DOMAIN Order /\ i \in DOMAIN Order
  BY OrderFacts
<1>2. (CHOOSE n \in DOMAIN Order : Order[n] = Order[k]) = k
  BY <1>1, OrderFacts
<1>3. ~Readable(Order[k])
  BY <1>1, <1>2 DEF Readable
<1>4. QED
  BY <1>3 DEF Now, Violated

\* What holds is a matter of the table, the device and the plugins.
LEMMA SameNow ==
  ASSUME settings' = settings, device' = device, plugins' = plugins
  PROVE  Now' = Now /\ LimitNow' = LimitNow
BY DEF Now, Violated, MetNow, Met, Readable, LimitNow

\* A limit changes only what holds of the battery.
LEMMA LimitMatters ==
  ASSUME settings'.on = settings.on, device' = device, plugins' = plugins
  PROVE  /\ Now.violated \ {"batteryLimit"} \subseteq Now'.violated
         /\ Now.off \subseteq Now'.off
         /\ Now.met \ {"batteryLimit"} \subseteq Now'.met
<1>1. \A k \in Kinds \ {"batteryLimit"} : MetNow(k)' <=> MetNow(k)
  BY OrderFacts DEF MetNow, Met
<1>2. \A k \in Kinds : Readable(k)' <=> Readable(k)
  BY DEF Readable
<1>3. QED
  BY <1>1, <1>2 DEF Now, Violated

-----------------------------------------------------------------------------
(* Types.                                                                  *)

LEMMA NowType ==
  Now \in [violated : SUBSET Kinds, off : SUBSET Kinds, met : SUBSET Kinds]
BY DEF Now

LEMMA IdleType == Idle \in CheckType
BY OrderFacts DEF Idle, CheckType

LEMMA LimitType ==
  ASSUME NEW limit \in Limits \cup {Unset}
  PROVE  LimitOf(limit) \in 0..100
BY CheckerAssumption DEF LimitOf, DefaultLimit

LEMMA InitInv == Init => IInv
<1> SUFFICES ASSUME Init PROVE IInv
  OBVIOUS
<1>1. TypeOK
  <2>1. settings \in [on : SUBSET Kinds, limit : Limits \cup {Unset}]
    BY CheckerAssumption DEF Init
  <2>2. device \in [network : Networks, charging : BOOLEAN, level : Levels]
    BY CheckerAssumption DEF Init, Networks
  <2>3. checks \in [Checks -> CheckType]
    BY IdleType DEF Init
  <2>4. held \in [Checks -> [violated : SUBSET Kinds, off : SUBSET Kinds,
                             met : SUBSET Kinds]]
    BY NowType DEF Init
  <2>5. changes \in 0..MaxChanges
    BY CheckerAssumption DEF Init
  <2>6. QED
    BY <2>1, <2>2, <2>3, <2>4, <2>5 DEF Init, TypeOK
<1>2. ASSUME NEW c \in Checks PROVE HoldsNow(c) /\ CheckOK(c)
  <2>1. held[c] = Now /\ checks[c] = Idle
    BY DEF Init
  <2>2. QED
    BY <2>1 DEF HoldsNow, CheckOK, Running, Idle
<1>3. QED
  BY <1>1, <1>2 DEF IInv

-----------------------------------------------------------------------------
(* A check.                                                                *)

\* What a check reports when it ends.
Reports(c) ==
  Ends(c) => /\ held[c].violated \subseteq current'
             /\ current' \cap (held[c].off \cup held[c].met) = {}

\* A check that nothing happens to.
LEMMA Untouched ==
  ASSUME NEW c \in Checks, HoldsNow(c), CheckOK(c),
         checks'[c] = checks[c], held'[c] = held[c],
         settings' = settings, device' = device, plugins' = plugins
  PROVE  HoldsNow(c)' /\ CheckOK(c)'
<1>1. Now' = Now /\ LimitNow' = LimitNow
  BY SameNow
<1>2. HoldsNow(c)'
  BY <1>1 DEF HoldsNow
<1>3. CheckOK(c)'
  BY <1>1 DEF CheckOK, Running, FoundSoFar, SwitchWasOn, LimitWasRead, KindOf,
     Passed, Ahead
<1>4. QED
  BY <1>2, <1>3

\* A check that runs is at one of the kinds.
LEMMA AtKind ==
  ASSUME TypeOK, NEW c \in Checks, Running(c)
  PROVE  /\ checks[c] \in CheckType
         /\ checks[c].at \in 1..4
         /\ KindOf(c) = Order[checks[c].at]
         /\ KindOf(c) \in Kinds
         /\ KindOf(c) \notin Passed(c)
         /\ Kinds = Passed(c) \cup Ahead(c)
         /\ KindOf(c) \in Ahead(c)
<1>1. checks[c] \in CheckType
  BY DEF TypeOK
<1>2. checks[c].at \in 1..4
  BY <1>1, OrderFacts DEF CheckType, Running
<1>3. Kinds = {Order[i] : i \in 1..4}
  BY OrderFacts DEF Kinds, ToSet
<1>4. KindOf(c) = Order[checks[c].at]
  BY DEF KindOf
<1>5. KindOf(c) \in Kinds /\ KindOf(c) \in Ahead(c)
  BY <1>2, <1>3, <1>4, OrderFacts DEF Ahead
<1>6. KindOf(c) \notin Passed(c)
  BY <1>2, <1>4, OrderFacts DEF Passed
<1>7. Kinds = Passed(c) \cup Ahead(c)
  BY <1>2, <1>3, OrderFacts DEF Passed, Ahead
<1>8. QED
  BY <1>1, <1>2, <1>4, <1>5, <1>6, <1>7

\* A new check has passed nothing and found nothing.
LEMMA BeginOK ==
  ASSUME IInv, NEW c \in Checks, Begin(c),
         settings' = settings, device' = device, plugins' = plugins
  PROVE  /\ checks' \in [Checks -> CheckType]
         /\ held' \in [Checks -> [violated : SUBSET Kinds, off : SUBSET Kinds,
                                  met : SUBSET Kinds]]
         /\ \A d \in Checks : HoldsNow(d)' /\ CheckOK(d)'
         /\ \A d \in Checks : ~Ends(d)
<1>1. [Idle EXCEPT !.at = 1] \in CheckType
  BY OrderFacts DEF Idle, CheckType
<1>2. TypeOK
  BY DEF IInv
<1>3. checks' \in [Checks -> CheckType]
  BY <1>1, <1>2 DEF Begin, TypeOK
<1>4. held' \in [Checks -> [violated : SUBSET Kinds, off : SUBSET Kinds,
                            met : SUBSET Kinds]]
  BY <1>2, NowType DEF Begin, TypeOK
<1>5. /\ checks'[c] = [Idle EXCEPT !.at = 1] /\ held'[c] = Now
      /\ \A d \in Checks \ {c} : checks'[d] = checks[d] /\ held'[d] = held[d]
  BY <1>2 DEF Begin, TypeOK
<1>6. HoldsNow(c)' /\ CheckOK(c)'
  <2>1. HoldsNow(c)'
    BY <1>5, SameNow DEF HoldsNow
  <2>2. checks'[c].at = 1 /\ checks'[c].reading = "setting" /\ checks'[c].found = {}
    BY <1>5 DEF Idle
  <2>3. Passed(c)' = {}
    BY <2>2 DEF Passed
  <2>4. QED
    BY <2>1, <2>2, <2>3 DEF CheckOK, FoundSoFar, SwitchWasOn, LimitWasRead
<1>7. \A d \in Checks \ {c} : HoldsNow(d)' /\ CheckOK(d)'
  BY <1>5, Untouched DEF IInv
<1>8. \A d \in Checks : ~Ends(d)
  <2>1. checks'[c].at = 1
    BY <1>5 DEF Idle
  <2>2. ~Ends(c)
    BY <2>1 DEF Ends, Running
  <2>3. \A d \in Checks \ {c} : ~Ends(d)
    BY <1>5 DEF Ends, Running
  <2>4. QED
    BY <2>2, <2>3
<1>9. QED
  BY <1>3, <1>4, <1>6, <1>7, <1>8

\* A decision that is right about the kind it is about, added to what is
\* right so far, is right: the check goes on, or ends and reports.
LEMMA DecidedOK ==
  ASSUME IInv, NEW c \in Checks, Running(c), NEW found, Decided(c, found),
         found \subseteq Passed(c) \cup {KindOf(c)},
         held[c].violated \cap (Passed(c) \cup {KindOf(c)}) \subseteq found,
         found \cap (held[c].off \cup held[c].met) = {},
         UNCHANGED <<settings, device, plugins, held>>
  PROVE  /\ checks' \in [Checks -> CheckType]
         /\ current' \in SUBSET Kinds
         /\ \A d \in Checks : HoldsNow(d)' /\ CheckOK(d)' /\ Reports(d)
<1> DEFINE a == checks[c].at
<1>1. TypeOK
  BY DEF IInv
<1>2. a \in 1..4 /\ KindOf(c) = Order[a] /\ Kinds = Passed(c) \cup Ahead(c)
      /\ KindOf(c) \in Kinds
  BY <1>1, AtKind
<1>3. found \subseteq Kinds
  BY <1>2
<1>4. CASE a = 4
  <2>1. current' = found /\ checks' = [checks EXCEPT ![c] = Idle]
    BY <1>4, OrderFacts DEF Decided, Publish
  <2>2. checks' \in [Checks -> CheckType]
    BY <1>1, <2>1, IdleType DEF TypeOK
  <2>3. /\ checks'[c] = Idle
        /\ \A d \in Checks \ {c} : checks'[d] = checks[d]
    BY <1>1, <2>1 DEF TypeOK
  <2>4. Kinds = Passed(c) \cup {KindOf(c)}
    BY <1>2, <1>4, OrderFacts DEF Ahead
  <2>5. held[c].violated \subseteq Kinds
    BY <1>1 DEF TypeOK
  <2>6. Reports(c)
    BY <2>1, <2>4, <2>5 DEF Reports
  <2>7. ~Running(c)'
    BY <2>3 DEF Running, Idle
  <2>8. HoldsNow(c)'
    BY SameNow DEF HoldsNow, IInv
  <2>9. \A d \in Checks \ {c} : HoldsNow(d)' /\ CheckOK(d)'
    BY <2>3, Untouched DEF IInv
  <2>10. \A d \in Checks \ {c} : Reports(d)
    BY <2>3 DEF Reports, Ends, Running
  <2>11. CheckOK(c)'
    BY <2>7 DEF CheckOK
  <2>12. current' \in SUBSET Kinds
    BY <1>3, <2>1
  <2>13. QED
    BY <2>2, <2>6, <2>8, <2>9, <2>10, <2>11, <2>12
<1>5. CASE a # 4
  <2>1. /\ current' = current
        /\ checks' = [checks EXCEPT ![c] = [Idle EXCEPT !.at = a + 1, !.found = found]]
    BY <1>5, OrderFacts DEF Decided
  <2>2. [Idle EXCEPT !.at = a + 1, !.found = found] \in CheckType
    <3>1. a + 1 \in 0..Len(Order) /\ found \in SUBSET Kinds
      BY <1>2, <1>3, <1>5, OrderFacts
    <3>2. QED
      BY <3>1, IdleType DEF CheckType
  <2>3. checks' \in [Checks -> CheckType]
    BY <1>1, <2>1, <2>2 DEF TypeOK
  <2>4. /\ checks'[c].at = a + 1 /\ checks'[c].found = found
        /\ checks'[c].reading = "setting"
        /\ \A d \in Checks \ {c} : checks'[d] = checks[d]
    BY <1>1, <2>1 DEF TypeOK, Idle
  <2>5. Passed(c)' = Passed(c) \cup {KindOf(c)}
    BY <1>2, <2>4 DEF Passed
  <2>6. FoundSoFar(c)'
    BY <2>4, <2>5 DEF FoundSoFar
  <2>7. HoldsNow(c)' /\ CheckOK(c)'
    BY <2>4, <2>6, SameNow DEF IInv, HoldsNow, CheckOK, SwitchWasOn, LimitWasRead
  <2>8. \A d \in Checks \ {c} : HoldsNow(d)' /\ CheckOK(d)'
    BY <2>4, Untouched DEF IInv
  <2>9. \A d \in Checks : ~Ends(d)
    BY <1>2, <2>4 DEF Ends, Running
  <2>10. QED
    BY <1>1, <2>1, <2>3, <2>7, <2>8, <2>9 DEF Reports, TypeOK
<1>6. QED
  BY <1>4, <1>5

\* Whether the check is told that the kind is met, when that lasted.
LEMMA Judged ==
  ASSUME IInv, NEW c \in Checks, Running(c), checks[c].reading = "device",
         KindOf(c) \in held[c].violated \cup held[c].met
  PROVE  Met(KindOf(c), checks[c].limit) <=> MetNow(KindOf(c))
<1>1. KindOf(c) \in Kinds
  BY AtKind DEF IInv
<1>2. CASE KindOf(c) = "batteryLimit"
  <2>1. checks[c].limit = LimitNow
    BY <1>2 DEF IInv, CheckOK, LimitWasRead
  <2>2. QED
    BY <2>1 DEF MetNow
<1>3. CASE KindOf(c) # "batteryLimit"
  BY <1>1, <1>3, OrderFacts DEF MetNow, Met
<1>4. QED
  BY <1>2, <1>3

\* A switch answers.
LEMMA ReadSettingOK ==
  ASSUME IInv, NEW c \in Checks, ReadSetting(c),
         UNCHANGED <<settings, device, plugins, held>>
  PROVE  /\ checks' \in [Checks -> CheckType]
         /\ current' \in SUBSET Kinds
         /\ \A d \in Checks : HoldsNow(d)' /\ CheckOK(d)' /\ Reports(d)
<1>1. Running(c) /\ TypeOK /\ HoldsNow(c) /\ FoundSoFar(c)
  BY DEF ReadSetting, IInv, CheckOK
<1>2. /\ checks[c] \in CheckType /\ checks[c].at \in 1..4
      /\ KindOf(c) = Order[checks[c].at] /\ KindOf(c) \in Kinds
  BY <1>1, AtKind
<1>3. CASE KindOf(c) \notin settings.on
  <2>1. KindOf(c) \notin held[c].violated
    BY <1>1, <1>3 DEF HoldsNow, Now, Violated
  <2>2. Decided(c, checks[c].found)
    BY <1>3 DEF ReadSetting
  <2>3. QED
    BY <1>1, <2>1, <2>2, DecidedOK DEF FoundSoFar
<1>4. CASE KindOf(c) \in settings.on
  <2> DEFINE next == IF KindOf(c) = "batteryLimit" THEN "limit" ELSE "device"
  <2>1. checks' = [checks EXCEPT ![c].reading = next] /\ current' = current
    BY <1>4 DEF ReadSetting
  <2>2. checks' \in [Checks -> CheckType]
    <3>1. [checks[c] EXCEPT !.reading = next] \in CheckType
      BY <1>2 DEF CheckType
    <3>2. checks' = [checks EXCEPT ![c] = [checks[c] EXCEPT !.reading = next]]
      BY <2>1
    <3>3. QED
      BY <1>1, <3>1, <3>2 DEF TypeOK
  <2>3. /\ checks'[c].at = checks[c].at /\ checks'[c].found = checks[c].found
        /\ checks'[c].reading = next
        /\ \A d \in Checks \ {c} : checks'[d] = checks[d]
    BY <1>1, <1>2, <2>1 DEF TypeOK, CheckType
  <2>4. /\ KindOf(c)' = KindOf(c) /\ Passed(c)' = Passed(c)
        /\ Ahead(c)' = Ahead(c)
    BY <2>3 DEF KindOf, Passed, Ahead
  <2>5. FoundSoFar(c)'
    BY <1>1, <2>3, <2>4 DEF FoundSoFar
  <2>6. SwitchWasOn(c)'
    <3>1. KindOf(c) \notin held[c].off
      BY <1>1, <1>4 DEF HoldsNow, Now
    <3>2. PluginOf(KindOf(c)) \notin plugins => held[c].violated \cap Ahead(c) = {}
      BY <1>1, <1>2, <1>4, ReadableUpTo, OrderFacts DEF HoldsNow, Ahead
    <3>3. QED
      BY <2>4, <3>1, <3>2 DEF SwitchWasOn
  <2>7. LimitWasRead(c)'
    BY <2>3, <2>4 DEF LimitWasRead
  <2>8. HoldsNow(c)'
    BY <1>1, SameNow DEF HoldsNow
  <2>9. CheckOK(c)'
    BY <2>5, <2>6, <2>7 DEF CheckOK
  <2>10. \A d \in Checks \ {c} : HoldsNow(d)' /\ CheckOK(d)'
    BY <2>3, Untouched DEF IInv
  <2>11. Reports(c)
    BY <1>1, <2>3 DEF Reports, Ends, Running
  <2>12. \A d \in Checks \ {c} : Reports(d)
    BY <2>3 DEF Reports, Ends, Running
  <2>13. current' \in SUBSET Kinds
    BY <1>1, <2>1 DEF TypeOK
  <2>14. QED
    BY <2>2, <2>8, <2>9, <2>10, <2>11, <2>12, <2>13
<1>5. QED
  BY <1>3, <1>4

\* The limit answers.
LEMMA ReadLimitOK ==
  ASSUME IInv, NEW c \in Checks, ReadLimit(c),
         UNCHANGED <<settings, device, plugins, held>>
  PROVE  /\ checks' \in [Checks -> CheckType]
         /\ current' \in SUBSET Kinds
         /\ \A d \in Checks : HoldsNow(d)' /\ CheckOK(d)' /\ Reports(d)
<1>1. /\ Running(c) /\ checks[c].reading = "limit" /\ TypeOK
      /\ HoldsNow(c) /\ FoundSoFar(c) /\ SwitchWasOn(c)
  BY DEF ReadLimit, IInv, CheckOK
<1>2. checks[c] \in CheckType /\ settings.limit \in Limits \cup {Unset}
  BY <1>1, AtKind DEF TypeOK
<1>3. LimitOf(settings.limit) \in 0..100 /\ LimitOf(settings.limit) = LimitNow
  BY <1>2, LimitType DEF LimitOf, LimitNow
<1>4. checks' = [checks EXCEPT ![c] =
                   [checks[c] EXCEPT !.reading = "device",
                                     !.limit = LimitOf(settings.limit)]]
  BY <1>1, <1>2 DEF ReadLimit, TypeOK, CheckType
<1>5. checks' \in [Checks -> CheckType]
  BY <1>1, <1>2, <1>3, <1>4 DEF TypeOK, CheckType
<1>6. /\ checks'[c].at = checks[c].at /\ checks'[c].found = checks[c].found
      /\ checks'[c].reading = "device" /\ checks'[c].limit = LimitNow
      /\ \A d \in Checks \ {c} : checks'[d] = checks[d]
  BY <1>1, <1>2, <1>3, <1>4 DEF TypeOK, CheckType
<1>7. KindOf(c)' = KindOf(c) /\ Passed(c)' = Passed(c) /\ Ahead(c)' = Ahead(c)
  BY <1>6 DEF KindOf, Passed, Ahead
<1>8. FoundSoFar(c)' /\ SwitchWasOn(c)'
  BY <1>1, <1>6, <1>7 DEF FoundSoFar, SwitchWasOn
<1>9. LimitWasRead(c)'
  BY <1>6, SameNow DEF LimitWasRead
<1>10. HoldsNow(c)'
  BY <1>1, SameNow DEF HoldsNow
<1>11. CheckOK(c)'
  BY <1>8, <1>9 DEF CheckOK
<1>12. \A d \in Checks \ {c} : HoldsNow(d)' /\ CheckOK(d)'
  BY <1>6, Untouched DEF IInv
<1>13. Reports(c)
  BY <1>1, <1>6 DEF Reports, Ends, Running
<1>14. \A d \in Checks \ {c} : Reports(d)
  BY <1>6 DEF Reports, Ends, Running
<1>15. current' \in SUBSET Kinds
  BY <1>1 DEF ReadLimit, TypeOK
<1>16. QED
  BY <1>5, <1>10, <1>11, <1>12, <1>13, <1>14, <1>15

\* The plugin answers: what lasted is judged as it was.
LEMMA ReadDeviceOK ==
  ASSUME IInv, NEW c \in Checks, ReadDevice(c),
         UNCHANGED <<settings, device, plugins, held>>
  PROVE  /\ checks' \in [Checks -> CheckType]
         /\ current' \in SUBSET Kinds
         /\ \A d \in Checks : HoldsNow(d)' /\ CheckOK(d)' /\ Reports(d)
<1>1. /\ Running(c) /\ checks[c].reading = "device" /\ TypeOK
      /\ HoldsNow(c) /\ FoundSoFar(c) /\ SwitchWasOn(c)
  BY DEF ReadDevice, IInv, CheckOK
<1>2. CASE Met(KindOf(c), checks[c].limit)
  <2>1. KindOf(c) \notin held[c].violated
    BY <1>1, <1>2, Judged DEF HoldsNow, Now, Violated
  <2>2. Decided(c, checks[c].found)
    BY <1>2 DEF ReadDevice
  <2>3. QED
    BY <1>1, <2>1, <2>2, DecidedOK DEF FoundSoFar
<1>3. CASE ~Met(KindOf(c), checks[c].limit)
  <2>1. KindOf(c) \notin held[c].met \cup held[c].off
    BY <1>1, <1>3, Judged DEF HoldsNow, Now, SwitchWasOn
  <2>2. Decided(c, checks[c].found \cup {KindOf(c)})
    BY <1>3 DEF ReadDevice
  <2>3. QED
    BY <1>1, <2>1, <2>2, DecidedOK DEF FoundSoFar
<1>4. QED
  BY <1>2, <1>3

\* There is no plugin: nothing the check has not come to was readable all
\* along.
LEMMA ReadFailsOK ==
  ASSUME IInv, NEW c \in Checks, ReadFails(c),
         UNCHANGED <<settings, device, plugins, held>>
  PROVE  /\ checks' \in [Checks -> CheckType]
         /\ current' \in SUBSET Kinds
         /\ \A d \in Checks : HoldsNow(d)' /\ CheckOK(d)' /\ Reports(d)
<1>1. /\ Running(c) /\ checks[c].reading = "device" /\ TypeOK
      /\ HoldsNow(c) /\ FoundSoFar(c) /\ SwitchWasOn(c)
  BY DEF ReadFails, IInv, CheckOK
<1>2. /\ current' = checks[c].found
      /\ checks' = [checks EXCEPT ![c] = Idle]
  BY DEF ReadFails, Publish
<1>3. Kinds = Passed(c) \cup Ahead(c) /\ checks[c] \in CheckType
  BY <1>1, AtKind
<1>4. held[c].violated \cap Ahead(c) = {}
  BY <1>1 DEF ReadFails, SwitchWasOn
<1>5. held[c].violated \subseteq Kinds
  BY <1>1 DEF TypeOK
<1>6. Reports(c)
  BY <1>1, <1>2, <1>3, <1>4, <1>5 DEF Reports, FoundSoFar
<1>7. checks' \in [Checks -> CheckType]
  BY <1>1, <1>2, IdleType DEF TypeOK
<1>8. checks'[c] = Idle /\ \A d \in Checks \ {c} : checks'[d] = checks[d]
  BY <1>1, <1>2 DEF TypeOK
<1>9. CheckOK(c)'
  BY <1>8 DEF CheckOK, Running, Idle
<1>10. HoldsNow(c)'
  BY <1>1, SameNow DEF HoldsNow
<1>11. \A d \in Checks \ {c} : HoldsNow(d)' /\ CheckOK(d)'
  BY <1>8, Untouched DEF IInv
<1>12. \A d \in Checks \ {c} : Reports(d)
  BY <1>8 DEF Reports, Ends, Running
<1>13. current' \in SUBSET Kinds
  BY <1>2, <1>3 DEF CheckType
<1>14. QED
  BY <1>6, <1>7, <1>9, <1>10, <1>11, <1>12, <1>13

-----------------------------------------------------------------------------
(* Changes.                                                                *)

\* What lasts grows fewer as the settings and the device change.
LEMMA Fewer ==
  ASSUME IInv, checks' = checks, plugins' = plugins,
         \A c \in Checks :
           /\ held'[c].violated \subseteq held[c].violated
           /\ held'[c].off \subseteq held[c].off
           /\ held'[c].met \subseteq held[c].met
           /\ \/ LimitNow' = LimitNow
              \/ "batteryLimit" \notin held'[c].violated \cup held'[c].met
  PROVE  \A c \in Checks : CheckOK(c)' /\ ~Ends(c)
<1> SUFFICES ASSUME NEW c \in Checks PROVE CheckOK(c)' /\ ~Ends(c)
  OBVIOUS
<1>1. CheckOK(c) /\ (Running(c)' <=> Running(c))
  BY DEF IInv, Running
<1>2. KindOf(c)' = KindOf(c) /\ Passed(c)' = Passed(c) /\ Ahead(c)' = Ahead(c)
  BY DEF KindOf, Passed, Ahead
<1>3. FoundSoFar(c) => FoundSoFar(c)'
  BY <1>2 DEF FoundSoFar
<1>4. SwitchWasOn(c) => SwitchWasOn(c)'
  BY <1>2 DEF SwitchWasOn
<1>5. LimitWasRead(c) => LimitWasRead(c)'
  BY <1>2 DEF LimitWasRead
<1>6. QED
  BY <1>1, <1>3, <1>4, <1>5 DEF CheckOK, Ends

\* What still holds after a change was held and holds.
LEMMA StillOK ==
  ASSUME IInv, held' = [c \in Checks |-> StillHeld(held[c], Now')],
         checks' = checks, plugins' = plugins, LimitNow' = LimitNow
  PROVE  /\ held' \in [Checks -> [violated : SUBSET Kinds, off : SUBSET Kinds,
                                  met : SUBSET Kinds]]
         /\ \A c \in Checks : HoldsNow(c)' /\ CheckOK(c)' /\ ~Ends(c)
<1> DEFINE HeldType == [violated : SUBSET Kinds, off : SUBSET Kinds,
                         met : SUBSET Kinds]
<1>1. ASSUME NEW h \in HeldType, NEW now
      PROVE  /\ StillHeld(h, now) \in HeldType
             /\ StillHeld(h, now).violated = h.violated \cap now.violated
             /\ StillHeld(h, now).off = h.off \cap now.off
             /\ StillHeld(h, now).met = h.met \cap now.met
  BY DEF StillHeld
<1>2. \A c \in Checks :
        held[c] \in HeldType /\ held'[c] = StillHeld(held[c], Now')
  BY DEF IInv, TypeOK
<1>3. held' \in [Checks -> HeldType]
  BY <1>1, <1>2
<1>4. ASSUME NEW c \in Checks
      PROVE  /\ held'[c].violated = held[c].violated \cap Now'.violated
             /\ held'[c].off = held[c].off \cap Now'.off
             /\ held'[c].met = held[c].met \cap Now'.met
  BY <1>1, <1>2
<1>5. \A c \in Checks : HoldsNow(c)'
  BY <1>4 DEF HoldsNow
<1>6. \A c \in Checks :
        /\ held'[c].violated \subseteq held[c].violated
        /\ held'[c].off \subseteq held[c].off
        /\ held'[c].met \subseteq held[c].met
  BY <1>4
<1>7. \A c \in Checks : CheckOK(c)' /\ ~Ends(c)
  BY <1>6, Fewer
<1>8. QED
  BY <1>3, <1>5, <1>7

\* The other events change neither what a check reads nor what it has held.
LEMMA LimitSavedOK ==
  ASSUME IInv, NEW limit \in Limits, SaveLimit(limit)
  PROVE  /\ held' \in [Checks -> [violated : SUBSET Kinds, off : SUBSET Kinds,
                                  met : SUBSET Kinds]]
         /\ \A c \in Checks : HoldsNow(c)' /\ CheckOK(c)' /\ ~Ends(c)
<1> DEFINE HeldType == [violated : SUBSET Kinds, off : SUBSET Kinds,
                         met : SUBSET Kinds]
           Without(h) == [h EXCEPT !.violated = @ \ {"batteryLimit"},
                                   !.met = @ \ {"batteryLimit"}]
<1>1. ASSUME NEW h \in HeldType
      PROVE  /\ Without(h) \in HeldType
             /\ Without(h).violated = h.violated \ {"batteryLimit"}
             /\ Without(h).off = h.off
             /\ Without(h).met = h.met \ {"batteryLimit"}
  OBVIOUS
<1>2. \A c \in Checks : held[c] \in HeldType /\ held'[c] = Without(held[c])
  BY DEF IInv, TypeOK, SaveLimit
<1>3. held' = [c \in Checks |-> Without(held[c])]
  BY DEF SaveLimit
<1> HIDE DEF Without
<1>4. held' \in [Checks -> HeldType]
  BY <1>1, <1>2, <1>3
<1>5. ASSUME NEW c \in Checks
      PROVE  /\ held'[c].violated = held[c].violated \ {"batteryLimit"}
             /\ held'[c].off = held[c].off
             /\ held'[c].met = held[c].met \ {"batteryLimit"}
  BY <1>1, <1>2
<1>6. /\ settings'.on = settings.on /\ device' = device /\ plugins' = plugins
      /\ checks' = checks
  BY DEF SaveLimit, IInv, TypeOK
<1>7. /\ Now.violated \ {"batteryLimit"} \subseteq Now'.violated
      /\ Now.off \subseteq Now'.off
      /\ Now.met \ {"batteryLimit"} \subseteq Now'.met
  BY <1>6, LimitMatters
<1>8. \A c \in Checks : HoldsNow(c)'
  BY <1>5, <1>7 DEF HoldsNow, IInv
<1>9. \A c \in Checks : CheckOK(c)' /\ ~Ends(c)
  BY <1>5, <1>6, Fewer
<1>10. QED
  BY <1>4, <1>8, <1>9

-----------------------------------------------------------------------------
(* Every step.                                                             *)

\* The checks and what they report, step by step.
LEMMA StepInv ==
  ASSUME IInv, [Next]_vars
  PROVE  IInv' /\ \A c \in Checks : Reports(c)
<1> DEFINE Goal == IInv' /\ \A c \in Checks : Reports(c)
<1>1. TypeOK
  BY DEF IInv
<1>2. ASSUME NEW c \in Checks, Initialize(c) PROVE Goal
  <2>1. Begin(c) /\ UNCHANGED <<settings, device, plugins>>
    BY <1>2 DEF Initialize
  <2>2. TypeOK'
    BY <1>1, <1>2, <2>1, BeginOK DEF Initialize, TypeOK
  <2>3. QED
    BY <2>1, <2>2, BeginOK DEF IInv, Reports
<1>3. ASSUME NEW c \in Checks, CheckDue(c) PROVE Goal
  <2>1. /\ UNCHANGED <<settings, device, plugins, subs, opened, closed, current,
                       changes>>
        /\ due' \subseteq due
        /\ Begin(c) \/ UNCHANGED <<checks, held>>
    BY <1>3 DEF CheckDue
  <2>2. CASE Begin(c)
    <3>1. TypeOK'
      BY <1>1, <2>1, <2>2, BeginOK DEF TypeOK
    <3>2. QED
      BY <2>1, <2>2, <3>1, BeginOK DEF IInv, Reports
  <2>3. CASE UNCHANGED <<checks, held>>
    <3>1. TypeOK'
      BY <1>1, <2>1, <2>3 DEF TypeOK
    <3>2. \A d \in Checks : HoldsNow(d)' /\ CheckOK(d)'
      BY <2>1, <2>3, Untouched DEF IInv
    <3>3. \A d \in Checks : Reports(d)
      BY <2>3 DEF Reports, Ends, Running
    <3>4. QED
      BY <3>1, <3>2, <3>3 DEF IInv
  <2>4. QED
    BY <2>1, <2>2, <2>3
<1>4. ASSUME NEW c \in Checks, CheckStep(c) PROVE Goal
  <2>1. UNCHANGED <<settings, device, plugins, subs, opened, closed, due, held,
                    changes>>
    BY <1>4 DEF CheckStep
  <2>2. /\ checks' \in [Checks -> CheckType]
        /\ current' \in SUBSET Kinds
        /\ \A d \in Checks : HoldsNow(d)' /\ CheckOK(d)' /\ Reports(d)
    BY <1>4, <2>1, ReadSettingOK, ReadLimitOK, ReadDeviceOK, ReadFailsOK
       DEF CheckStep
  <2>3. TypeOK'
    BY <1>1, <2>1, <2>2 DEF TypeOK
  <2>4. QED
    BY <2>2, <2>3 DEF IInv
<1>5. ASSUME UNCHANGED <<settings, device, plugins, opened, due, checks,
                         current, held, changes>>,
             subs' \subseteq subs, closed' \in BOOLEAN
      PROVE  Goal
  <2>1. TypeOK'
    BY <1>1, <1>5 DEF TypeOK
  <2>2. \A d \in Checks : HoldsNow(d)' /\ CheckOK(d)'
    BY <1>5, Untouched DEF IInv
  <2>3. \A d \in Checks : Reports(d)
    BY <1>5 DEF Reports, Ends, Running
  <2>4. QED
    BY <2>1, <2>2, <2>3 DEF IInv
<1>6. CASE CancelConnectivity \/ CancelBattery \/ Close
  <2>1. /\ UNCHANGED <<settings, device, plugins, opened, due, checks,
                       current, held, changes>>
        /\ subs' \subseteq subs /\ closed' \in BOOLEAN
    BY <1>1, <1>6 DEF CancelConnectivity, CancelBattery, Close, TypeOK
  <2>2. QED
    BY <1>5, <2>1
<1>7. ASSUME settings' \in [on : SUBSET Kinds, limit : Limits \cup {Unset}],
             device' \in [network : Networks, charging : BOOLEAN, level : Levels],
             due' \subseteq Plugins \cup {"settings"},
             changes' \in 0..MaxChanges,
             UNCHANGED <<plugins, subs, opened, closed, checks, current>>,
             held' \in [Checks -> [violated : SUBSET Kinds, off : SUBSET Kinds,
                                   met : SUBSET Kinds]],
             \A c \in Checks : HoldsNow(c)' /\ CheckOK(c)' /\ ~Ends(c)
      PROVE  Goal
  <2>1. TypeOK'
    BY <1>1, <1>7 DEF TypeOK
  <2>2. QED
    BY <1>7, <2>1 DEF IInv, Reports
<1>8. ASSUME NEW source \in Plugins \cup {"settings"}, MayChange(source),
             Changed(source)
      PROVE  /\ due' \subseteq Plugins \cup {"settings"}
             /\ changes' \in 0..MaxChanges
  <2>1. changes' = changes + 1 /\ changes \in 0..MaxChanges /\ changes < MaxChanges
    BY <1>1, <1>8 DEF MayChange, Changed, TypeOK
  <2>2. changes' \in 0..MaxChanges
    BY <2>1, CheckerAssumption
  <2>3. QED
    BY <1>1, <1>8, <2>2 DEF Changed, TypeOK
<1>9. ASSUME NEW kind \in Kinds, SaveSwitch(kind) PROVE Goal
  <2>1. settings' \in [on : SUBSET Kinds, limit : Limits \cup {Unset}]
    BY <1>1, <1>9 DEF SaveSwitch, TypeOK
  <2>2. settings'.limit = settings.limit
    BY <1>1, <1>9 DEF SaveSwitch, TypeOK
  <2>3. LimitNow' = LimitNow
    BY <2>2 DEF LimitNow
  <2>4. device' = device /\ MayChange("settings") /\ Changed("settings")
    BY <1>9 DEF SaveSwitch
  <2>5. QED
    BY <1>1, <1>7, <1>8, <2>1, <2>3, <2>4, StillOK DEF Changed, TypeOK
<1>10. ASSUME NEW network \in Networks, NetworkChanges(network) PROVE Goal
  <2>1. device' \in [network : Networks, charging : BOOLEAN, level : Levels]
    BY <1>1, <1>10 DEF NetworkChanges, TypeOK
  <2>2. /\ settings' = settings /\ MayChange("connectivity")
        /\ Changed("connectivity") /\ "connectivity" \in Plugins
    BY <1>10 DEF NetworkChanges, Plugins
  <2>3. LimitNow' = LimitNow
    BY <2>2 DEF LimitNow
  <2>4. QED
    BY <1>1, <1>7, <1>8, <2>1, <2>2, <2>3, StillOK DEF Changed, TypeOK
<1>11. CASE ChargingChanges
  <2>1. device' \in [network : Networks, charging : BOOLEAN, level : Levels]
    BY <1>1, <1>11 DEF ChargingChanges, TypeOK
  <2>2. /\ settings' = settings /\ MayChange("battery")
        /\ Changed("battery") /\ "battery" \in Plugins
    BY <1>11 DEF ChargingChanges, Plugins
  <2>3. LimitNow' = LimitNow
    BY <2>2 DEF LimitNow
  <2>4. QED
    BY <1>1, <1>7, <1>8, <2>1, <2>2, <2>3, StillOK DEF Changed, TypeOK
<1>12. ASSUME NEW limit \in Limits, SaveLimit(limit) PROVE Goal
  <2>1. settings' \in [on : SUBSET Kinds, limit : Limits \cup {Unset}]
    BY <1>1, <1>12 DEF SaveLimit, TypeOK
  <2>2. changes' \in 0..MaxChanges
    <3>1. changes < MaxChanges /\ changes' = changes + 1
      BY <1>12 DEF SaveLimit
    <3>2. changes \in 0..MaxChanges
      BY <1>1 DEF TypeOK
    <3>3. QED
      BY <3>1, <3>2, CheckerAssumption
  <2>3. UNCHANGED <<device, plugins, subs, opened, closed, due, checks, current>>
    BY <1>12 DEF SaveLimit
  <2>4. device' \in [network : Networks, charging : BOOLEAN, level : Levels]
        /\ due' \subseteq Plugins \cup {"settings"}
    BY <1>1, <2>3 DEF TypeOK
  <2>5. QED
    BY <1>7, <1>12, <2>1, <2>2, <2>3, <2>4, LimitSavedOK
<1>13. ASSUME NEW level \in Levels, LevelChanges(level) PROVE Goal
  <2>1. device' \in [network : Networks, charging : BOOLEAN, level : Levels]
    BY <1>1, <1>13 DEF LevelChanges, TypeOK
  <2>2. changes' \in 0..MaxChanges
    BY <1>1, <1>13, CheckerAssumption DEF LevelChanges, TypeOK
  <2>3. LimitNow' = LimitNow
    BY <1>13 DEF LevelChanges, LimitNow
  <2>4. QED
    BY <1>1, <1>7, <1>13, <2>1, <2>2, <2>3, StillOK DEF LevelChanges, TypeOK
<1>14. CASE UNCHANGED vars
  <2>1. /\ UNCHANGED <<settings, device, plugins, opened, due, checks,
                       current, held, changes>>
        /\ subs' \subseteq subs /\ closed' \in BOOLEAN
    BY <1>1, <1>14 DEF vars, TypeOK
  <2>2. QED
    BY <1>5, <2>1
<1>15. QED
  BY <1>2, <1>3, <1>4, <1>6, <1>9, <1>10, <1>11, <1>12, <1>13, <1>14 DEF Next

-----------------------------------------------------------------------------
(* The theorems.                                                           *)

\* What ties the moments at which a check reads to what lasts is invariant.
THEOREM Invariance == Spec => []IInv
BY InitInv, StepInv, PTL DEF Spec

\* The checker's state stays well typed: limits and levels are percentages,
\* no check finds anything but the four kinds.
THEOREM TypeCorrect == Spec => []TypeOK
<1>1. IInv => TypeOK
  BY DEF IInv
<1>2. QED
  BY <1>1, Invariance, PTL

\* A check that ends reports every constraint that was violated all along.
THEOREM LastingIsFound == Spec => FoundWhatLasts
<1>1. IInv /\ [Next]_vars =>
        [\A c \in Checks : Ends(c) => held[c].violated \subseteq current']_vars
  BY StepInv DEF Reports
<1>2. QED
  BY <1>1, Invariance, PTL DEF Spec, FoundWhatLasts

\* A check that ends reports nothing that was off or met all along.
THEOREM NothingIsInvented == Spec => NothingInvented
<1>1. IInv /\ [Next]_vars =>
        [\A c \in Checks :
           Ends(c) => current' \cap (held[c].off \cup held[c].met) = {}]_vars
  BY StepInv DEF Reports
<1>2. QED
  BY <1>1, Invariance, PTL DEF Spec, NothingInvented

=============================================================================

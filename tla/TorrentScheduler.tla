-------------------------- MODULE TorrentScheduler --------------------------
(***************************************************************************)
(* The scheduled start and shutdown, torrent_scheduler.dart, with what the *)
(* engine does with it.                                                    *)
(*                                                                         *)
(* _scheduleFromSettings() cancels both timers, then reads the two saved   *)
(* times one after the other, arming a timer for each; a timer that fires  *)
(* calls the engine and schedules again.  Runs of it may overlap: a timer  *)
(* that is armed over another one can no longer be cancelled.  reload(),   *)
(* which would begin another run, has no caller and no action here.        *)
(*                                                                         *)
(* Time passes in minutes.  A timer counts down whatever the clock shows:  *)
(* a change of the time zone moves the clock and not the timers.           *)
(***************************************************************************)
EXTENDS Integers, Sequences, Functions

CONSTANTS
  Day,          \* the minutes of a day
  NoTime,       \* no time was ever saved; no timer
  Given,        \* the tables the app may start with
  MaxEvents     \* bound: how many Events there are

Kinds == {"start", "shutdown"}
Other(kind) == IF kind = "start" THEN "shutdown" ELSE "start"

Minutes == 0..(Day - 1)
Times == Minutes \cup {NoTime}

ASSUME SchedulerAssumption ==
  /\ Day \in Nat /\ Day >= 2
  /\ NoTime \notin 0..Day
  /\ Given \subseteq [Kinds -> Times]
  /\ MaxEvents \in Nat

\* What does not happen of itself: the user saves a time, or calls
\* shutdown() or resumeAll(); a minute ends while a time is being read or the
\* engine is shutting down; the clock is changed; a read fails.
Events == {"save", "command", "slow", "shift", "fault"}

VARIABLES
  saved,      \* the table: the time of each kind
  now,        \* what DateTime.now() shows
  field,      \* _startTimer and _shutdownTimer: the minutes until each fires
  orphans,    \* how many other timers fire after so many minutes
  reading,    \* the reads under way, in the order the database answers them
  initPc,     \* initialize(), and the callbacks set after it
  shut,       \* the engine's _isShutdown
  closing,    \* the engine's shutdown()s that have not come to dispose()
  disposed,   \* dispose() was called
  events,     \* how often each event has happened
  known,      \* history: the time of each kind read last
  everKnown,  \* history: the times of each kind ever read
  called,     \* history: the callbacks called in this minute
  quiet       \* history: dispose() found no run and only timers it cancels

clockVars == <<now, called>>
engineVars == <<shut, closing, disposed, quiet>>
timers == <<field, orphans>>
readVars == <<known, everKnown>>
vars == <<saved, clockVars, timers, reading, initPc, engineVars, events, readVars>>

Happens(event) ==
  /\ FoldFunction(+, 0, events) < MaxEvents
  /\ events' = [events EXCEPT ![event] = @ + 1]

Never(event) == events[event] = 0

\* A run that waits for the time of a kind; first: that of initialize().
ReadType == [kind : Kinds, first : BOOLEAN]

TypeOK ==
  /\ saved \in [Kinds -> Times]
  /\ now \in Minutes
  /\ field \in [Kinds -> 0..Day \cup {NoTime}]
  /\ orphans \in [Kinds -> [0..Day -> Nat]]
  /\ reading \in Seq(ReadType)
  /\ initPc \in {"none", "reading", "ended"}
  /\ shut \in BOOLEAN
  /\ closing \in Nat
  /\ disposed \in BOOLEAN
  /\ events \in [Events -> Nat]
  /\ known \in [Kinds -> Times]
  /\ everKnown \in [Kinds -> SUBSET Minutes]
  /\ called \subseteq Kinds
  /\ quiet \in BOOLEAN

-----------------------------------------------------------------------------
(* _scheduleFromSettings().                                                *)

\* Mutant: a time of this minute is still to come.
NextOccurrenceNow(time) == IF time >= now THEN time - now ELSE time - now + Day

\* Mutant: no day is added to a time that has passed, so the timer fires at
\* once.
NextOccurrencePast(time) == IF time > now THEN time - now ELSE 0

\* Mutant: a day is added to every time.
NextOccurrenceTomorrow(time) == time - now + Day

\* _nextOccurrence: a time of this minute has passed.
NextOccurrence(time) == IF time > now THEN time - now ELSE time - now + Day

\* Both fields are cancelled; a timer no field refers to is not.
Cancelled == [kind \in Kinds |-> NoTime]
NoOrphans == [kind \in Kinds |-> [after \in 0..Day |-> 0]]

\* The run up to its first await.
Begin(first) ==
  /\ field' = Cancelled
  /\ reading' = Append(reading, [kind |-> "start", first |-> first])

\* The field refers to the new timer; one it referred to goes on alone.
Arm(kind) ==
  IF saved[kind] = NoTime THEN UNCHANGED timers
  ELSE /\ field' = [field EXCEPT ![kind] = NextOccurrence(saved[kind])]
       /\ orphans' = IF field[kind] = NoTime THEN orphans
                     ELSE [orphans EXCEPT ![kind][field[kind]] = @ + 1]

\* After the run: initialize() is over, and the engine sets the callbacks.
EndRun(first) == initPc' = IF first THEN "ended" ELSE initPc

Initialize ==
  /\ initPc = "none"
  /\ initPc' = "reading"
  /\ Begin(TRUE)
  /\ UNCHANGED <<saved, clockVars, orphans, engineVars, events, readVars>>

\* The database answers the read that has waited longest.
ReadTime ==
  /\ reading # << >>
  /\ LET read == Head(reading)
     IN /\ Arm(read.kind)
        /\ known' = [known EXCEPT ![read.kind] = saved[read.kind]]
        /\ everKnown' = [everKnown EXCEPT
                           ![read.kind] = @ \cup ({saved[read.kind]} \ {NoTime})]
        /\ IF read.kind = "start"
             THEN /\ reading' = Append(Tail(reading), [read EXCEPT !.kind = "shutdown"])
                  /\ UNCHANGED initPc
             ELSE /\ reading' = Tail(reading)
                  /\ EndRun(read.first)
  /\ UNCHANGED <<saved, clockVars, engineVars, events>>

\* A read that fails ends its run; initialize() catches the error.
ReadFails ==
  /\ reading # << >>
  /\ Happens("fault")
  /\ reading' = Tail(reading)
  /\ EndRun(Head(reading).first)
  /\ UNCHANGED <<saved, clockVars, timers, engineVars, readVars>>

-----------------------------------------------------------------------------
(* The engine.                                                             *)

\* RealTorrentEngine.shutdown up to its first await.
EngineShutdown ==
  /\ shut' = TRUE
  /\ closing' = IF shut THEN closing ELSE closing + 1

\* Nothing is under way that dispose() does not reach.
AtRest == reading = << >> /\ orphans = NoOrphans /\ initPc # "none"

\* Mutant: the shutdown timer is not cancelled.
DisposeStartOnly ==
  /\ closing > 0
  /\ closing' = closing - 1
  /\ disposed' = TRUE
  /\ quiet' = AtRest
  /\ field' = [field EXCEPT !["start"] = NoTime]
  /\ UNCHANGED <<saved, clockVars, orphans, reading, initPc, shut, events, readVars>>

\* Its end.
Dispose ==
  /\ closing > 0
  /\ closing' = closing - 1
  /\ disposed' = TRUE
  /\ quiet' = AtRest
  /\ field' = Cancelled
  /\ UNCHANGED <<saved, clockVars, orphans, reading, initPc, shut, events, readVars>>

\* The user, the notification, or anything else that is not the scheduler.
UserShutdown ==
  /\ Happens("command")
  /\ EngineShutdown
  /\ UNCHANGED <<saved, clockVars, timers, reading, initPc, disposed, quiet,
                 readVars>>

UserResumeAll ==
  /\ Happens("command")
  /\ shut' = FALSE
  /\ UNCHANGED <<saved, clockVars, timers, reading, initPc, closing, disposed,
                 quiet, readVars>>

\* The time picker saves a time; nothing schedules again.
SaveTime(kind, time) ==
  /\ Happens("save")
  /\ time # saved[kind]
  /\ saved' = [saved EXCEPT ![kind] = time]
  /\ UNCHANGED <<clockVars, timers, reading, initPc, engineVars, readVars>>

-----------------------------------------------------------------------------
(* Time.                                                                   *)

\* Mutant: a timer fires in the minute before.
DueSoon(after) == after <= 1

Due(after) == after = 0

DueOrphans(kind) == {after \in 0..Day : orphans[kind][after] > 0 /\ Due(after)}
DueInField(kind) == field[kind] # NoTime /\ Due(field[kind])

\* onScheduledStart and onScheduledShutdown, null until initialize() is over.
Call(kind) ==
  IF initPc # "ended" THEN UNCHANGED <<shut, closing, called>>
  ELSE /\ called' = called \cup {kind}
       /\ CASE kind = "start"    -> shut' = FALSE /\ UNCHANGED closing
            [] kind = "shutdown" -> EngineShutdown

\* Of the timers of a kind the one armed first fires first: that of the
\* field is the youngest.
Fire(kind) ==
  /\ \/ \E after \in DueOrphans(kind) :
          orphans' = [orphans EXCEPT ![kind][after] = @ - 1]
     \/ /\ DueInField(kind) /\ DueOrphans(kind) = {}
        /\ UNCHANGED orphans
  /\ Begin(FALSE)
  /\ Call(kind)
  /\ UNCHANGED <<saved, now, initPc, disposed, quiet, events, readVars>>

\* A minute ends; reads and shutdowns seldom take that long.
Tick ==
  /\ \A kind \in Kinds : DueOrphans(kind) = {} /\ ~DueInField(kind)
  /\ IF reading = << >> /\ closing = 0 THEN UNCHANGED events
     ELSE Happens("slow")
  /\ now' = (now + 1) % Day
  /\ called' = {}
  /\ field' = [kind \in Kinds |->
                 IF field[kind] = NoTime THEN NoTime ELSE field[kind] - 1]
  /\ orphans' = [kind \in Kinds |-> [after \in 0..Day |->
                   IF after = Day THEN 0 ELSE orphans[kind][after + 1]]]
  /\ UNCHANGED <<saved, reading, initPc, engineVars, readVars>>

\* The time zone, daylight saving or the clock changes.
Shift(time) ==
  /\ Happens("shift")
  /\ time # now
  /\ now' = time
  /\ UNCHANGED <<saved, called, timers, reading, initPc, engineVars, readVars>>

-----------------------------------------------------------------------------

Init ==
  /\ saved \in Given
  /\ now \in Minutes
  /\ field = Cancelled /\ orphans = NoOrphans
  /\ reading = << >>
  /\ initPc = "none"
  /\ shut = FALSE /\ closing = 0 /\ disposed = FALSE /\ quiet = FALSE
  /\ events = [event \in Events |-> 0]
  /\ known = [kind \in Kinds |-> NoTime]
  /\ everKnown = [kind \in Kinds |-> {}]
  /\ called = {}

Next ==
  \/ Initialize \/ ReadTime \/ ReadFails
  \/ Dispose \/ UserShutdown \/ UserResumeAll
  \/ Tick
  \/ \E kind \in Kinds :
       \/ Fire(kind)
       \/ \E time \in Minutes : SaveTime(kind, time)
  \/ \E time \in Minutes : Shift(time)

Spec == Init /\ [][Next]_vars

\* The engine initializes the scheduler and ends its shutdowns, the database
\* answers, the event loop fires what is due, and time passes.
FairSpec ==
  /\ Spec
  /\ WF_vars(Initialize) /\ WF_vars(ReadTime) /\ WF_vars(Dispose)
  /\ \A kind \in Kinds : WF_vars(Fire(kind))
  /\ WF_vars(Tick)

-----------------------------------------------------------------------------
(* Properties.                                                             *)

\* Whatever runs have overlapped: when none is under way and the scheduler is
\* not disposed, the field of a kind refers to a timer exactly if the time
\* read last is one, and the timer fires at that time, unless the clock was
\* changed.  A failed read breaks this until the next run.
ReadIsArmed ==
  /\ initPc = "ended" /\ reading = << >> /\ ~disposed
  /\ Never("fault")
  => \A kind \in Kinds :
       /\ known[kind] = NoTime <=> field[kind] = NoTime
       /\ Never("shift") /\ field[kind] # NoTime =>
            (now + field[kind]) % Day = known[kind]

\* While the clock is not changed, a timer that no field refers to any more
\* calls the engine at a time that was saved once, too: no callback comes at
\* a minute the user never asked for.
CalledAtASavedTime ==
  [][\A kind \in called' \ called :
       Never("shift") => now \in everKnown[kind]]_vars

\* A scheduler that was disposed with no run under way and no timer out of
\* its reach never calls the engine again: a shut down engine stays so until
\* the user starts it.  (One that is disposed during a run arms its timers.)
DisposedStaysSilent ==
  [][quiet => called' \subseteq called]_vars

\* A time that the scheduler has read comes up day after day, as long as the
\* engine runs, unless the user saves another one, a read fails, or both
\* kinds have the same minute: then the one that fires first cancels the
\* other.
ScheduleRecurs ==
  \A kind \in Kinds :
    []<>(\/ kind \in called
         \/ saved[kind] = NoTime
         \/ saved[kind] = saved[Other(kind)]
         \/ shut \/ disposed
         \/ ~Never("fault"))

=============================================================================

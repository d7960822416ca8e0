---------------------------- MODULE TorrentQueue ----------------------------
(***************************************************************************)
(* What every torrent engine of Getzy promises of its queue, whatever rows *)
(* and queue numbers it keeps: an order of the torrents that only the user *)
(* changes, and the set of those that run.                                 *)
(*                                                                         *)
(* The promises are those the conformance test asks of an engine: a new    *)
(* torrent comes first and runs, a torrent is there once, a move takes one *)
(* torrent to its new place and keeps the order of the others, pause and   *)
(* resume act on the torrents that can be toggled, a shutdown pauses.      *)
(***************************************************************************)
EXTENDS Integers, Sequences, SequencesExt

CONSTANTS
  Torrents,  \* the torrents that can be in the queue
  Start,     \* the queue an engine starts with
  Running,   \* those of them that run
  Done       \* those of them that are finished

VARIABLES
  queue,   \* the torrents in the order of their queue numbers
  active   \* those that run

queueVars == <<queue, active>>

In(t) == \E i \in DOMAIN queue : queue[i] = t

\* A torrent that finished has no play/pause button and does not run again.
Toggles(t) == In(t) /\ t \notin Done

QueueInit == queue = Start /\ active = Running

Enqueue(t) ==
  /\ ~In(t)
  /\ t \notin Done
  /\ queue' = <<t>> \o queue
  /\ active' = active \cup {t}

Toggle(t) ==
  /\ Toggles(t)
  /\ active' = IF t \in active THEN active \ {t} ELSE active \cup {t}
  /\ UNCHANGED queue

Dequeue(t) ==
  /\ \E i \in DOMAIN queue : queue[i] = t /\ queue' = RemoveAt(queue, i)
  /\ active' = active \ {t}

\* The torrent at place i is taken to place k.
Move(i, k) ==
  /\ queue' = InsertAt(RemoveAt(queue, i), k, queue[i])
  /\ UNCHANGED active

ResumeAll ==
  /\ active' = {t \in Torrents : Toggles(t)}
  /\ UNCHANGED queue

\* Also what a shutdown does.
PauseAll ==
  /\ active' = {}
  /\ UNCHANGED queue

QueueNext ==
  \/ \E t \in Torrents : Enqueue(t) \/ Toggle(t) \/ Dequeue(t)
  \/ \E i, k \in DOMAIN queue : Move(i, k)
  \/ ResumeAll
  \/ PauseAll

QueueSpec == QueueInit /\ [][QueueNext]_queueVars

=============================================================================

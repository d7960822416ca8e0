--------------------------- MODULE EngineContract ---------------------------
(***************************************************************************)
(* What Getzy's documents promise of every torrent engine and the real     *)
(* engine does not keep.  Each formula below states one sentence of them;  *)
(* TLC finds a behaviour of RealTorrentEngine that violates it.            *)
(***************************************************************************)
EXTENDS RealTorrentEngine

\* Nothing is under way: only a poll, the user or the device can act.
Settled ==
  /\ engineState = "running"
  /\ looper = << >> /\ toDart = << >> /\ dbQueue = << >>
  /\ poll.pc = "idle"

\* "Remove torrent stops transfer and updates persistence": a row appears
\* only for a torrent the session has, or when the table is loaded.  A status
\* list read before the removal and delivered after it lists the torrent
\* again and saves it.
RemovedStaysRemoved ==
  [][\A id \in Ids :
       ~Listed(id) /\ Listed(id)' /\ initPc' = initPc => id \in DOMAIN session]_vars

\* "Wi-Fi-only blocks transfers on mobile data": a torrent shown as blocked
\* does not transfer.  The native toggle resumes a torrent that is paused or
\* queued there while its row says it runs.
BlockedDoesNotTransfer ==
  Settled => \A row \in rows : row.status = "blocked" => ~Transferring(row.id)

\* "Engine reconnect replays current torrent and session state": once the
\* engine runs again, every listed torrent is in the session.  initialize()
\* makes an empty session and adds none of the rows it has read to it.
ListedIsInSession ==
  Settled => \A row \in rows : row.id \in DOMAIN session

=============================================================================

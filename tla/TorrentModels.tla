--------------------------- MODULE TorrentModels ---------------------------
(***************************************************************************)
(* The torrent statuses of Getzy and the pure functions over them:         *)
(* lib/features/torrents/torrent_models.dart (TorrentStatus and its        *)
(* getters), the status strings the JNI bridge prints and the parser the   *)
(* Dart engine reads them with.                                            *)
(***************************************************************************)

\* enum TorrentStatus: the status of a row of the Dart list.
TorrentStatus ==
  {"queued", "downloading", "paused", "checking", "finished", "blocked"}

\* TorrentStatusLabels.isRunning
IsRunning(status) == status \in {"downloading", "checking"}

\* TorrentStatusLabels.canToggle: the home screen offers the play/pause
\* button only on these rows.
CanToggle(status) == status \notin {"finished", "blocked"}

\* The states of a torrent inside libtorrent that the bridge tells apart.
NativeState ==
  {"checking_resume_data", "checking_files", "downloading_metadata",
   "downloading", "finished", "seeding"}

\* States in which every wanted piece is there: libtorrent gives such a
\* torrent no queue position.
IsComplete(state) == state \in {"finished", "seeding"}

\* The status string nativeGetTorrentStatuses prints.  The torrent's own
\* paused flag hides its state; a paused session does not set it.
StatusString(paused, state) ==
  IF paused THEN "paused"
  ELSE IF state \in {"downloading", "downloading_metadata"} THEN "downloading"
  ELSE IF state = "checking_files" THEN "checking"
  ELSE IF state \in {"finished", "seeding"} THEN state
  ELSE "queued"

\* The strings StatusString can print.
WireStatus ==
  {"paused", "downloading", "checking", "finished", "seeding", "queued"}

\* _parseTorrentStatus of the Dart engine.
ParseTorrentStatus(string) ==
  IF string \in {"downloading", "paused", "checking"} THEN string
  ELSE IF string \in {"seeding", "finished"} THEN "finished"
  ELSE "queued"

=============================================================================

------------------------ MODULE MCFakeTorrentEngine ------------------------
(***************************************************************************)
(* The seeded engine with the four rows of _seedTorrents, to which the     *)
(* user adds a torrent that is seeded, before or after its removal.        *)
(***************************************************************************)
EXTENDS FakeTorrentEngine

MCSeeds ==
  <<[id |-> "s1", hash |-> "h1", queue |-> 1, status |-> "downloading"],
    [id |-> "s2", hash |-> "h2", queue |-> 2, status |-> "paused"],
    [id |-> "s3", hash |-> "h3", queue |-> 3, status |-> "queued"],
    [id |-> "s4", hash |-> "h4", queue |-> 4, status |-> "finished"]>>

MCHashes == {"h1"}

=============================================================================

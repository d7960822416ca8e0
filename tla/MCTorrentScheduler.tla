------------------------- MODULE MCTorrentScheduler -------------------------
(***************************************************************************)
(* A day of four minutes.                                                  *)
(***************************************************************************)
EXTENDS TorrentScheduler

\* Only a start, both a minute apart, and both at once.
MCGiven == {[start |-> 1, shutdown |-> NoTime],
            [start |-> 1, shutdown |-> 2],
            [start |-> 1, shutdown |-> 1]}

=============================================================================

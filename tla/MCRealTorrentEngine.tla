------------------------ MODULE MCRealTorrentEngine ------------------------
(***************************************************************************)
(* Instances of RealTorrentEngine for TLC.  Each run gives its budget of   *)
(* user operations with one of the *Limit definitions.                     *)
(***************************************************************************)
EXTENDS EngineContract

CONSTANTS a, b

MCTags == EngineTags \cup {"none"}
MCSlots == {"init", "constraints", "reorder"}

\* A torrent checks its resume data, downloads and seeds.
MCStateSteps == {<<"checking_resume_data", "downloading">>,
                 <<"downloading", "seeding">>}

NoSteps == {}
Nothing == {}
OnlyFalse == {FALSE}
OnlyTrue == {TRUE}

NoOps == [op \in UserOps |-> 0]

\* Adds and deletes racing the poll, the database queue, a reorder and a
\* check, and the app starting again in between.
RowsLimit ==
  [NoOps EXCEPT !["add"] = 2, !["delete"] = 1, !["reorder"] = 1,
                !["constraints"] = 1, !["restart"] = 1]

\* A scheduled or automatic shutdown, what the user does while initialize()
\* is still running, and what follows it.
LifecycleLimit ==
  [NoOps EXCEPT !["add"] = 1, !["toggle"] = 1, !["pauseAll"] = 1,
                !["resumeAll"] = 1, !["shutdown"] = 1]
Early == {"add", "shutdown", "resumeAll"}

\* One budget per promise of EngineContract: the fewest operations in which
\* the sentence can be put to the test.
RemoveLimit     == [NoOps EXCEPT !["add"] = 1, !["delete"] = 1]
CheckLimit      == [NoOps EXCEPT !["add"] = 1, !["constraints"] = 2]
ReconnectLimit  == [NoOps EXCEPT !["add"] = 1, !["restart"] = 1]

=============================================================================

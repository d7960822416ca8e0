--------------------------- MODULE MCFeedManager ---------------------------
(***************************************************************************)
(* Two feeds, one of them the example's URL, and two refreshes, in two     *)
(* openings of the screen.                                                 *)
(***************************************************************************)
EXTENDS FeedManager

CONSTANTS u, v, text, s

MCUrls == {u, v}
MCText == {text}
MCSources == {s}

=============================================================================

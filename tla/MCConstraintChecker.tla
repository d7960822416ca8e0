------------------------ MODULE MCConstraintChecker ------------------------
(***************************************************************************)
(* Two overlapping checks, a level on each side of the default limit and a *)
(* limit that both levels meet.                                            *)
(***************************************************************************)
EXTENDS ConstraintChecker

MCLevels == {20, 30}
MCLimits == {10}
MCStartOn == {{"wifiOnly", "batteryLimit"}}

=============================================================================

---------------------------- MODULE MCModeSwitch ----------------------------
(* The automatic script alone or beside the manual one, which runs to its   *)
(* end; and the manual one alone, interrupted.                              *)
EXTENDS ModeSwitch

WithAuto == {{"auto"}, {"auto", "manual"}}
ManualOnly == {{"manual"}}
OnlyAuto == {"auto"}
OnlyManual == {"manual"}
=============================================================================

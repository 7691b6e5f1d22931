------------------------------ MODULE MCService ------------------------------
(* Two bridge processes; the bridges, or the bridges and the script, may    *)
(* die by themselves.                                                       *)
EXTENDS Service

FaultSets == {{"bridge"}, {"bridge", "shell"}}
=============================================================================

---------------------------- MODULE MCEventBattle ----------------------------
(* Every tabulated event script, with one or two players. *)
EXTENDS EventBattle
A == INSTANCE EventScriptsA
N == INSTANCE EventScriptsN
MCScripts == A!EventScriptsA \cup N!EventScriptsN
==============================================================================

-------------------------- MODULE MCNPCConversation --------------------------
(* Instances of NPCConversation for TLC. *)
EXTENDS NPCConversation, NPCScripts1, NPCScripts2, NPCScripts3,
        NPCTalks1, NPCTalks2, NPCTalks3

(* Every script, one player, nothing but his own session. *)
AllScripts == Scripts1 \o Scripts2 \o Scripts3 \o Talks1 \o Talks2 \o Talks3
OneThread == {"session"}
Nobody == {}

(* A few scripts: one that opens a shop, pays and gives and goes on where  *)
(* it was left, the job selector, and the keeper of Monster Park, whose    *)
(* portals ask for it under the names MP0 to MP3, which are no files.      *)
FewScripts == <<N9010038, Nrandom_job, N9071000>>
TheServers == {2, 3}
MonsterPark == {3}
TwoThreads == {"session", "timer"}
==============================================================================

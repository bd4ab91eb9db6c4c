--------------------------- MODULE NPCConversation ---------------------------
(***************************************************************************)
(* One player's conversations with scripts: scripting/NPCScriptManager.java*)
(* with the packets of NPCHandler (NPCTalk, NPCMoreTalk, closing a shop or *)
(* the storage) and what MapleClient and MapleCharacter keep for them.     *)
(*                                                                         *)
(* A client has one current manager (cms), one engine per script file      *)
(* (cached until a dispose of that script's conversation), the flag chat   *)
(* and two instants: the last call of a script, within 100 ms of which     *)
(* start() refuses, and the cool down of 500 ms a dispose begins.  The     *)
(* player's session starts scripts; so do tasks of EventTimer and events   *)
(* (MapScriptMethods, executeJob), and nothing but action() takes the lock.*)
(*                                                                         *)
(* "npc" is the script of the NPC the player clicked, "server" one that    *)
(* the server starts of its own accord or for a command.  What a script    *)
(* does is a table (ScriptPages).  A box that is shown and disposed in the *)
(* same call needs no answer and is left out, and so are forged packets.   *)
(***************************************************************************)
EXTENDS ScriptPages

CONSTANTS
    Scripts,    \* a sequence of scripts: what an NPC's file may do
    Own,        \* the indexes of those the server starts
    Misnamed,   \* those of them it asks for under a file name that is not there
    Threads,    \* "session", and "timer" where the server's tasks run too
    None

ASSUME ScriptsAssumption ==
    /\ \A i \in DOMAIN Scripts : WellFormed(Scripts[i])
    /\ Own \subseteq DOMAIN Scripts
    /\ "session" \in Threads
    /\ None \notin {"npc", "server"}

Role == {"npc", "server"}
CLICK == 1      \* canClickNPC: 100 ms; only that it is the shorter one counts
COOL == 2       \* dispose: 500 ms
Loaded == -6    \* an engine whose script was not started yet
NoBox == [who |-> None, page |-> 0]

VARIABLES
    script,     \* which script stands for each role
    cms,        \* the current manager
    cached,     \* MapleClient.engines: whose engine is kept
    at,         \* where each engine waits
    chat,       \* MapleClient.chat
    clicked, cooling,   \* lastNpcClick and npcCoolDown, in units left
    screen,     \* the box the player sees
    window,     \* getShop() is set, or storage is open
    pc,         \* each thread's place in start() or action()
    last,       \* history: the last call's effects and whether it was asked for
    replaced,   \* history: setCMS put a manager over another one
    crossed,    \* history: setCMS ran under a box or beside another thread
    locks       \* history: what left chat set with nothing open

client == <<cms, cached, chat, cooling, locks>>
history == <<last, replaced, crossed>>
vars == <<script, client, at, clicked, screen, window, pc, history>>

Place(a, r, n, f) == [at |-> a, who |-> r, page |-> n, flag |-> f]
Step(a, r) == Place(a, r, 0, FALSE)
Idle == Step("idle", None)
Goes(t, place) == pc' = [pc EXCEPT ![t] = place]
Busy(t) == \E u \in Threads \ {t} : pc[u].at # "idle"
Script(r) == Scripts[script[r]]

TypeOK ==
    /\ script \in [Role -> DOMAIN Scripts]
    /\ cms \in Role \cup {None}
    /\ cached \in [Role -> BOOLEAN]
    /\ at \in [Role -> Int]
    /\ chat \in BOOLEAN
    /\ clicked \in 0 .. CLICK /\ cooling \in 0 .. COOL
    /\ screen \in [who : Role \cup {None}, page : Int]
    /\ window \in {"none", "shop", "storage"}
    /\ pc \in [Threads -> [at : {"idle", "start", "open", "run",
                                 "answer", "reply"},
                           who : Role \cup {None}, page : Int, flag : BOOLEAN]]
    /\ last \in [asked : BOOLEAN, does : SUBSET Effects]
    /\ replaced \in BOOLEAN /\ crossed \in BOOLEAN
    /\ locks \subseteq {"refused", "moved"}

Init ==
    /\ \E i \in DOMAIN Scripts : \E j \in IF Own = {} THEN {i} ELSE Own :
         script = [r \in Role |-> IF r = "npc" THEN i ELSE j]
    /\ cms = None /\ cached = [r \in Role |-> FALSE]
    /\ at = [r \in Role |-> Loaded]
    /\ chat = FALSE /\ clicked = 0 /\ cooling = 0
    /\ screen = NoBox /\ window = "none"
    /\ pc = [t \in Threads |-> Idle]
    /\ last = [asked |-> TRUE, does |-> {}]
    /\ replaced = FALSE /\ crossed = FALSE /\ locks = {}

------------------------------------------------------------------------------
setChat_Ignored(b) == chat' = FALSE
setChat_Stuck(b) == chat' = TRUE
setChat(b) == chat' = b

(* NPCScriptManager.dispose: it ends the current conversation, whoever     *)
(* calls, and forgets the engine of the file the manager was asked for.    *)
Forgotten_Never(r) == FALSE
Forgotten(r) == r = cms /\ ~(r = "server" /\ script[r] \in Misnamed)
dispose ==
    /\ cms' = None
    /\ cached' = [r \in Role |-> cached[r] /\ ~Forgotten(r)]
    /\ setChat(FALSE)
    /\ cooling' = COOL
    /\ locks' = {}

(* if (c.getCMS() != null) c.getCMS().dispose()                            *)
disposeIfOpen_Never == UNCHANGED client
disposeIfOpen == IF cms = None THEN UNCHANGED client ELSE dispose

(* changeMapInternal: only an open conversation is disposed, while the     *)
(* shop is forgotten (leaveMap) with chat still set.                       *)
changeMapInternal ==
    /\ screen' = NoBox /\ window' = "none"
    /\ IF cms = None /\ chat /\ window # "none"
         THEN locks' = locks \cup {"moved"} /\ UNCHANGED <<cms, cached, chat, cooling>>
         ELSE disposeIfOpen

(* NPCTalk: a click on an NPC, refused while a conversation is open, while *)
(* it cools down and while chat is set.                                    *)
MayTalk == screen = NoBox /\ window = "none" /\ cooling = 0 /\ cms = None /\ ~chat
NPCTalk ==
    /\ pc["session"].at = "idle" /\ MayTalk
    /\ Goes("session", Step("start", "npc"))
    /\ UNCHANGED <<script, client, at, clicked, screen, window, history>>

(* NPCTalk with an NPC that has a shop: MapleShop.sendShop.                *)
sendShop ==
    /\ pc["session"].at = "idle" /\ MayTalk
    /\ window' = "shop" /\ setChat(TRUE)
    /\ UNCHANGED <<script, cms, cached, cooling, locks, at, clicked, screen, pc,
                   history>>

(* The server starts a script: a command or executeJob as it is, openNpc   *)
(* and most commands only if there is no conversation (startNPC), a map's  *)
(* script after a dispose, most often with removeClickedNPC.               *)
StartServer(t) ==
    /\ Own # {} /\ pc[t].at = "idle"
    /\ Goes(t, Step("start", "server"))
    /\ UNCHANGED <<script, at, screen, window, history>>
    /\ \/ UNCHANGED <<client, clicked>>
       \/ dispose /\ clicked' \in {0, clicked}

startNPC(t) ==
    /\ Own # {} /\ pc[t].at = "idle" /\ cms = None
    /\ Goes(t, Step("start", "server"))
    /\ UNCHANGED <<script, client, at, clicked, screen, window, history>>

(* start(): chat is set before canClickNPC is asked, and stays when start  *)
(* refuses.                                                                *)
start(t) ==
    /\ pc[t].at = "start"
    /\ setChat(TRUE)
    /\ IF clicked > 0
         THEN Goes(t, Idle) /\ locks' = locks \cup {"refused"}
         ELSE Goes(t, Step("open", pc[t].who)) /\ locks' = locks
    /\ UNCHANGED <<script, cms, cached, cooling, at, clicked, screen, window, history>>

(* getInvocable, setCMS and setClickedNPC, in one step: the engine the     *)
(* client kept, or a new one that it keeps, for the new current manager.   *)
setCMS(t) ==
    /\ pc[t].at = "open"
    /\ LET r == pc[t].who
           new == ~cached[r] \/ at[r] = Loaded
       IN /\ Goes(t, Place("run", r, 0, new))
          /\ cms' = r
          /\ cached' = [cached EXCEPT ![r] = TRUE]
          /\ at' = [at EXCEPT ![r] = IF new THEN Loaded ELSE @]
    /\ clicked' = CLICK
    /\ replaced' = (replaced \/ cms # None)
    /\ crossed' = (crossed \/ screen # NoBox \/ Busy(t))
    /\ UNCHANGED <<script, chat, cooling, locks, screen, window, last>>

(* Where a call to the script of r leaves the conversation.  dispose and   *)
(* the Java the script calls act on the current manager, not on r's.       *)
Leaves(r, o) ==
    IF "shop" \in o.does /\ window # "none"
      THEN (UNCHANGED client \/ dispose) /\ UNCHANGED <<window, screen>>
    ELSE IF "shop" \in o.does
      THEN /\ cms' = None
           /\ cached' = [x \in Role |-> cached[x] /\ ~Forgotten(x)]
           /\ chat' \in BOOLEAN   \* sendShop sets it, a later dispose clears it
           /\ cooling' = IF cms = None /\ chat' THEN cooling ELSE COOL
           /\ locks' = {}
           /\ window' = "shop" /\ screen' = NoBox
    ELSE IF "warp" \in o.does
      THEN changeMapInternal
    ELSE IF o.to \in {Bye.to, Error.to}
      THEN dispose /\ UNCHANGED <<window, screen>>
      ELSE /\ UNCHANGED client
           /\ screen' = IF o.to > 0 \/ o.to = OkBox.to
                          THEN [who |-> r, page |-> o.to] ELSE screen
           /\ window' = IF o.to = Window.to THEN "storage" ELSE window

Finish(t, r, asked, o) ==
    /\ Leaves(r, o)
    /\ at' = [at EXCEPT ![r] = o.to]
    /\ last' = [asked |-> asked, does |-> o.does]
    /\ Goes(t, Idle)
    /\ UNCHANGED <<script, clicked, replaced, crossed>>

RunStart(t) ==
    /\ pc[t].at = "run"
    /\ LET r == pc[t].who
           s == Script(r)
       IN \E o \in IF pc[t].flag THEN s.start ELSE s.again :
            Finish(t, r, pc[t].flag, o)

(* NPCMoreTalk: the answer to the box on the screen.  One to an OkBox, one *)
(* beside an open window, and one that leaves, end the conversation.       *)
NPCMoreTalk(more) ==
    /\ pc["session"].at = "idle" /\ screen # NoBox /\ cms # None
    /\ screen.page # OkBox.to /\ at[cms] # OkBox.to /\ window = "none"
    /\ more \/ Script(screen.who).pages[screen.page].back # {}
    /\ Goes("session", Place("answer", screen.who, screen.page, more))
    /\ screen' = NoBox
    /\ UNCHANGED <<script, client, at, clicked, window, history>>

EndTalk ==
    /\ pc["session"].at = "idle" /\ screen # NoBox
    /\ screen' = NoBox
    /\ disposeIfOpen
    /\ UNCHANGED <<script, at, clicked, window, pc, history>>

(* action(): the manager is read again.                                    *)
action ==
    /\ pc["session"].at = "answer"
    /\ IF cms = None \/ ~chat
         THEN Goes("session", Idle) /\ UNCHANGED clicked
         ELSE LET p == pc["session"]
                  asked == p.who = cms /\ p.page = at[cms]
              IN /\ clicked' = CLICK
                 /\ Goes("session", Place("reply", cms, IF asked THEN p.page ELSE 0, p.flag))
    /\ UNCHANGED <<script, client, at, screen, window, history>>

(* invokeFunction("action"): what the page has for this answer, or what    *)
(* the script makes of an answer to another question.                      *)
RunAction ==
    /\ pc["session"].at = "reply"
    /\ LET p == pc["session"]
           s == Script(p.who)
       IN \E o \in IF p.page = 0 THEN Stray(s)
                   ELSE IF p.flag THEN s.pages[p.page].more ELSE s.pages[p.page].back :
            Finish("session", p.who, p.page # 0, o)

(* An exception of the Java a script calls: start() catches every          *)
(* Exception and disposes, action() only those of the engine.              *)
Throws(t) ==
    /\ pc[t].at \in {"run", "reply"}
    /\ IF pc[t].at = "run"
         THEN dispose /\ UNCHANGED at
         ELSE UNCHANGED client /\ at' = [at EXCEPT ![pc[t].who] = Mute.to]
    /\ Goes(t, Idle)
    /\ UNCHANGED <<script, clicked, screen, window, history>>

(* delayNPC, delayRewardNPC: sendOkS of the manager that asked for it,     *)
(* which does nothing while a box of that manager waits (lastMsg).         *)
NoBoxOf_Unasked(r) == TRUE
NoBoxOf(r) == at[r] = Later.to
delayNPC(r) ==
    /\ NoBoxOf(r)
    /\ at' = [at EXCEPT ![r] = OkBox.to]
    /\ screen' = [who |-> r, page |-> OkBox.to]
    /\ UNCHANGED <<script, client, clicked, window, pc, history>>

(* The player closes the shop or the storage.                              *)
CloseWindow ==
    /\ pc["session"].at = "idle" /\ window # "none"
    /\ window' = "none"
    /\ IF cms = None
         THEN setChat(FALSE) /\ locks' = {} /\ UNCHANGED <<cms, cached, cooling>>
         ELSE dispose
    /\ UNCHANGED <<script, at, clicked, screen, pc, history>>

(* A portal, an event or another player moves this one.                    *)
changeMap(t) ==
    /\ pc[t].at = "idle"
    /\ changeMapInternal
    /\ UNCHANGED <<script, at, clicked, pc, history>>

(* MapleCharacter.fix, the player's @fix.                                  *)
fix ==
    /\ pc["session"].at = "idle" /\ screen = NoBox
    /\ dispose
    /\ clicked' = 0
    /\ window' = IF window = "storage" THEN "none" ELSE window
    /\ UNCHANGED <<script, at, screen, pc, history>>

(* Time passes: lastNpcClick and npcCoolDown are compared with the clock.  *)
Shorter_Below(units) == units - 1
Shorter(units) == IF units > 0 THEN units - 1 ELSE 0
Elapse ==
    /\ clicked > 0 \/ cooling > 0
    /\ clicked' = Shorter(clicked)
    /\ cooling' = Shorter(cooling)
    /\ UNCHANGED <<script, cms, cached, chat, locks, at, screen, window, pc, history>>

Next ==
    \/ NPCTalk \/ sendShop \/ EndTalk \/ action \/ RunAction
    \/ \E more \in BOOLEAN : NPCMoreTalk(more)
    \/ \E t \in Threads : \/ StartServer(t) \/ startNPC(t) \/ start(t)
                          \/ setCMS(t) \/ RunStart(t)
                          \/ Throws(t) \/ changeMap(t)
    \/ \E r \in Role : delayNPC(r)
    \/ CloseWindow \/ fix \/ Elapse

Spec == Init /\ [][Next]_vars

(* A thread goes on; time passes; the boxes a player keeps closing and the *)
(* windows he keeps closing are closed.                                    *)
Fairness ==
    /\ \A t \in Threads : WF_vars(start(t) \/ setCMS(t) \/ RunStart(t))
    /\ WF_vars(action \/ RunAction)
    /\ \A r \in Role : WF_vars(delayNPC(r))
    /\ SF_vars(EndTalk) /\ WF_vars(CloseWindow)

FairSpec == Spec /\ Fairness
------------------------------------------------------------------------------
(* An engine outlives its conversation only if another conversation was    *)
(* put over it, or its script was asked for under another name: otherwise  *)
(* a script that is started runs from its first line.                      *)
EnginesForgotten ==
    \A r \in Role : cached[r] =>
        \/ cms = r \/ replaced
        \/ r = "server" /\ script[r] \in Misnamed

(* The answer a player gives is handed to the script whose box he saw, at  *)
(* the page he saw, unless a conversation opened under his box or while    *)
(* another thread was in a call.                                           *)
AnswerReachesAsker ==
    pc["session"].at = "reply" => pc["session"].page # 0 \/ crossed

(* Nothing is given or taken by a script that resumes an old conversation  *)
(* or that answers another box, unless conversations were mixed up.        *)
GiftsOnlyWhenAsked ==
    last.does \cap {"pay", "gain"} # {} =>
        last.asked \/ replaced \/ crossed \/ script["server"] \in Misnamed

(* chat stays set, and every click on an NPC is refused, with no           *)
(* conversation and no window open only after a refused start or a move    *)
(* out of an open shop.                                                    *)
LockedOut ==
    /\ chat /\ cms = None /\ window = "none"
    /\ \A t \in Threads : pc[t].at = "idle"
LockedOutOnlyByKnownCauses == LockedOut => locks # {}

(* An open conversation is listened to: action() would drop the answers of *)
(* one that is open with chat unset.                                       *)
OpenMeansHeard == cms # None => chat

(* A player who keeps closing boxes gets out of every conversation, but    *)
(* for a script that neither asks nor disposes.                            *)
Stuck == \E r \in Role : cms = r /\ at[r] = Mute.to
EveryConversationEnds == cms # None ~> (cms = None \/ Stuck)
==============================================================================

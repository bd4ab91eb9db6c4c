----------------------------- MODULE ScriptPages -----------------------------
(***************************************************************************)
(* What a script of scripts/npc does, as a table.  A script runs only when *)
(* the server calls start() or action(mode, type, selection); between two  *)
(* calls it waits, with a box on the player's screen, in a state kept in   *)
(* the global variables of its engine (status, sel, ...).  A page is such  *)
(* a state: the kind of its box and what the next call may come to.        *)
(*                                                                         *)
(* A test on something the table does not follow (a level, an item count,  *)
(* a quest, a random number) may go either way, a loop may run any number  *)
(* of times, and a menu is answered with a number the script looks for or  *)
(* with some other one.                                                    *)
(***************************************************************************)
EXTENDS Integers, Sequences

(* Where a call leaves the conversation: page n waits for an answer, or... *)
Ask(n) == [to |-> n, does |-> {}]
Bye == [to |-> 0, does |-> {}]        \* cm.dispose() was called
OkBox == [to |-> -1, does |-> {}]     \* cm.sendOk: any answer disposes
Mute == [to |-> -2, does |-> {}]      \* no box and no dispose
Later == [to |-> -3, does |-> {}]     \* cm.delayNPC: a timer shows an OkBox
Window == [to |-> -4, does |-> {}]    \* cm.sendStorage
Error == [to |-> -5, does |-> {}]     \* the engine throws a ScriptException

(* What else it does: takes or gives items or mesos, moves the player to   *)
(* another map or into an event instance, opens a shop.                    *)
Effects == {"pay", "gain", "warp", "shop"}
Pay(o) == [o EXCEPT !.does = @ \cup {"pay"}]
Gain(o) == [o EXCEPT !.does = @ \cup {"gain"}]
Warp(o) == [o EXCEPT !.does = @ \cup {"warp"}]
Shop(o) == [o EXCEPT !.does = @ \cup {"shop"}]

(* The boxes.  Only Turns and Accept send their left button to the script: *)
(* NPCMoreTalk ends the conversation when the others are not agreed to.    *)
Box(more, back) == [more |-> more, back |-> back]
Says(more) == Box(more, {})             \* sendNext
Turns(more, back) == Box(more, back)    \* sendPrev, sendNextPrev
YesNo(more) == Box(more, {})            \* sendYesNo
Accept(more, back) == Box(more, back)   \* sendAcceptDecline
Menu(more) == Box(more, {})             \* sendSimple
Style(more) == Box(more, {})            \* sendStyle, askAvatar
Number(more) == Box(more, {})           \* sendGetNumber
Text(more) == Box(more, {})             \* sendGetText
Map(more) == Box(more, {})              \* askMapSelection

(* A script: what start() does in a new engine, what it does in one that   *)
(* an earlier conversation left behind, and its pages.                     *)
Resume(start, again, pages) ==
    [start |-> start, again |-> again, pages |-> pages]
Talk(start, pages) == Resume(start, start, pages)

(* What a call can come to that answers something else than was asked.     *)
Stray(s) == s.again \cup UNION {s.pages[i].more \cup s.pages[i].back :
                                  i \in DOMAIN s.pages}

(* Every page a script names is there, and no answer is left without one.  *)
Outcomes(n) == [to : -5 .. n, does : SUBSET Effects]
WellFormed(s) ==
    /\ s.start # {} /\ s.start \subseteq Outcomes(Len(s.pages))
    /\ s.again # {} /\ s.again \subseteq Outcomes(Len(s.pages))
    /\ s.pages \in Seq([more : (SUBSET Outcomes(Len(s.pages))) \ {{}},
                        back : SUBSET Outcomes(Len(s.pages))])
==============================================================================

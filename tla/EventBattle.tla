----------------------------- MODULE EventBattle -----------------------------
(***************************************************************************)
(* One event instance and the script that runs it, from the setup() that   *)
(* made it to its dispose().  The script's functions are called, without a *)
(* lock, by the sessions of the players (they leave, die, move, kill), by  *)
(* the pool thread that tells a death once the mob's last animation is     *)
(* over, by the scheduler of the instance and by its timers.  A call reads *)
(* what the script remembers, picks an outcome of the table, and has its   *)
(* effects at once or, when its thread is preempted, after other calls: as *)
(* a whole, or from the place on where victory, defeat or unregisterPlayer *)
(* acts on what it has looked at without a lock.                           *)
(* The maps of an instance are one field here; how many mobs of a kind are *)
(* on it, deaths are still to be told and runs of a function are scheduled *)
(* is counted up to Several.  Whether a mob was the last of its map is     *)
(* left open.                                                              *)
(***************************************************************************)
EXTENDS EventTable

CONSTANTS
    Scripts, Players,
    MaxDying,   \* bound on the kinds of mobs dying at once
    AllTwice    \* whether any mob may be killed twice, or only one that decides
                \* the battle: a boss of a chain would double all that follow
ASSUME ScriptsAssumption == \A s \in Scripts : WellFormed(s)
ASSUME PlayersAssumption == Players \in Nat
Several == 2

VARIABLES script,     \* the table of the script
          battle,     \* EventInstanceManager, and what the script stored in it
          dying,      \* deaths still to be told, by kind of mob
          call,       \* a preempted call: what of it is still to come
          overlap,    \* history: a mob died twice, or while a death or a call was under way
          cut         \* history: the end of a clock dismissed the event timer
vars == <<script, battle, dying, call, overlap, cut>>

\* A thread past its look at ending; one that has taken a player out and has
\* not yet looked who is left.
Ending == Does({"end"})
Looking == Does({"look"})
None == [out |-> Nothing, dead |-> FALSE, who |-> 0]
Kinds == 0 .. Len(script.kills)
NoMobs == [k \in Kinds |-> 0]
Upto(n) == IF n > Several THEN Several ELSE n
OneLess(n) == IF n = Several THEN {1, Several} ELSE {n - 1}
Killed(k) == IF k = 0 THEN script.other ELSE script.kills[k]
\* deaths some function asks for
Asked(k) == k # 0 \/ \E h \in {"other", "allMonstersDead", "allMonstersKilled"} :
                         script[h] # Idles

Landing(field, mobs) ==
    [k \in DOMAIN field |-> Upto(field[k] + Cardinality({i \in DOMAIN mobs : mobs[i] = k}))]
schedule(tasks, more) == [t \in DOMAIN tasks |-> Upto(tasks[t] + (IF t \in more THEN 1 ELSE 0))]

(* victory and defeat: whoever finds no end begun clears the maps and starts *)
(* 45 seconds.                                                             *)
Ends(b, o) == "end" \in o.does \/ (~b.ending /\ o.does \cap {"win", "lose"} # {})
Arms_NotAtTheEnd(b, o) == "timer" \in o.does
Arms(b, o) == "timer" \in o.does \/ Ends(b, o)
\* startEventTimer and createEventTimer begin with dismissEventTimer
eventTimer_Dismissed(b, o) ==
    IF Ends(b, o) THEN "off" ELSE IF "timer" \in o.does THEN "armed" ELSE b.timer
eventTimer(b, o) == IF Arms(b, o) THEN "armed" ELSE IF "clock" \in o.does THEN "off" ELSE b.timer
clockTimer(b, o) ==
    IF "clock" \in o.does THEN "set" ELSE IF Arms(b, o) /\ b.clock = "set" THEN "off" ELSE b.clock
\* who is left when p, or everybody, is taken out
exitPlayer(b, o, p) ==
    IF "out" \in o.does THEN {} ELSE IF "leave" \in o.does THEN b.inside \ {p} ELSE b.inside
(* unregisterPlayer removes, also one who is out already, and then looks;  *)
(* exitParty unregisters nobody when nobody is left.                       *)
LeavesNobody_SeenBefore(b, o, p) ==
    \/ "leave" \in o.does /\ Cardinality(b.inside) = 1
    \/ "look" \in o.does /\ b.inside = {}
    \/ "out" \in o.does /\ b.inside # {}
LeavesNobody(b, o, p) ==
    /\ o.does \cap {"leave", "look"} # {} \/ ("out" \in o.does /\ b.inside # {})
    /\ exitPlayer(b, o, p) = {}
setValue_NotAtTheEnd(b, o) == IF Ends(b, o) THEN b.mem ELSE Recall(o, b.mem)
setValue(b, o) == Recall(o, b.mem)
(* What the calls an outcome stands for do to the instance, but for its    *)
(* disposal.  The maps are emptied before the mobs of the outcome come,    *)
(* victory comes after them.                                               *)
Acted(b, o, p) ==
    [mem      |-> setValue(b, o),
     field    |-> IF Ends(b, o) THEN NoMobs
                  ELSE Landing(IF "wipe" \in o.does THEN NoMobs ELSE b.field, o.mobs),
     tasks    |-> schedule(b.tasks, o.tasks),
     timer    |-> eventTimer(b, o),
     clock    |-> clockTimer(b, o),
     ending   |-> b.ending \/ Ends(b, o),
     inside   |-> exitPlayer(b, o, p),
     disposed |-> b.disposed,
     paid     |-> IF "prize" \in o.does THEN Upto(b.paid + 1) ELSE b.paid]
\* dispose: it finds nobody to put out, since nobody enters after setup
Gone(b) == [b EXCEPT !.field = NoMobs, !.tasks = [t \in DOMAIN b.tasks |-> 0],
                     !.timer = "off", !.clock = "off", !.disposed = TRUE]
Effect(b, o, p) ==
    CASE b.disposed -> b
      [] ~b.disposed /\ LeavesNobody(b, o, p) -> Gone(Acted(b, o, p))
      [] OTHER -> Acted(b, o, p)
\* monsterKilled, and allMonstersDead when the map was found empty
Results(b, c) ==
    LET e == Effect(b, c.out, c.who) IN
    IF c.dead THEN {Effect(e, d, 0) : d \in At(script.allMonstersDead, e.mem)} ELSE {e}

\* setup, then registerPlayer for each player
Fresh(n) == [mem |-> 1, field |-> NoMobs, tasks |-> [t \in DOMAIN script.tasks |-> 0],
             timer |-> "off", clock |-> "off", ending |-> FALSE, inside |-> 1 .. n,
             disposed |-> FALSE, paid |-> 0]
Init ==
    /\ script \in Scripts
    /\ \E n \in 1 .. Players : \E o \in script.setup :
          LET b == Effect(Fresh(n), o, 0) IN
          \E e \in At(script.playerEntry, b.mem) :
             battle = IF n = 1 THEN Effect(b, e, 1) ELSE Effect(Effect(b, e, 1), e, 2)
    /\ dying = NoMobs
    /\ call = None
    /\ overlap = FALSE
    /\ cut = FALSE

(* invokeScriptFunction on a thread that runs on, or is preempted: before  *)
(* its effects, past its look at ending, or before its look who is left.   *)
Beside(o) == [mem |-> o.mem, does |-> o.does \ {"win", "lose"}, mobs |-> o.mobs, tasks |-> o.tasks]
Invoke(b, o, dead, p) ==
    \/ battle' \in Results(b, [out |-> o, dead |-> dead, who |-> p]) /\ UNCHANGED call
    \/ /\ call = None
       /\ \/ /\ o # Nothing \/ dead
             /\ call' = [out |-> o, dead |-> dead, who |-> p]
             /\ battle' = b
          \/ /\ Ends(b, o)
             /\ call' = [out |-> Ending, dead |-> dead, who |-> 0]
             /\ battle' = Effect(b, Beside(o), p)
          \/ /\ LeavesNobody(b, o, p)
             /\ call' = [out |-> Looking, dead |-> dead, who |-> 0]
             /\ battle' = Acted(b, o, p)
\* the preempted thread goes on
Resume ==
    /\ call # None
    /\ battle' \in Results(battle, call)
    /\ call' = None
    /\ UNCHANGED <<script, dying, overlap, cut>>

(* MapleMonster.kill: the mob leaves the map; its death is told when its   *)
(* animation is over.  A map found empty calls allMonstersKilled at once.  *)
(* Nothing guards deadProcessed: two sessions may both kill a mob.         *)
Decides(k) == \E o \in UNION Range(Killed(k)) : o.does \cap {"win", "lose"} # {}
FoundEmpty(b) == {Effect(b, o, 0) : o \in {Nothing} \cup At(script.allMonstersKilled, b.mem)}
kill(k) ==
    /\ ~battle.disposed
    /\ Asked(k) /\ battle.field[k] > 0
    /\ Cardinality({i \in Kinds : dying[i] > 0}) < MaxDying
    /\ \E n \in OneLess(battle.field[k]), times \in {1, 2} :
          LET b == [battle EXCEPT !.field[k] = n] IN
          /\ \E e \in FoundEmpty(b) : battle' \in IF times = 1 THEN {e} ELSE FoundEmpty(e)
          /\ times = 2 => AllTwice \/ Decides(k)
          /\ dying[k] + times <= Several
          /\ dying' = [dying EXCEPT ![k] = @ + times]
          /\ overlap' = (overlap \/ times = 2 \/ call # None \/ \E i \in Kinds : dying[i] > 0)
    /\ UNCHANGED <<script, call, cut>>
monsterKilled(k) ==
    /\ ~battle.disposed
    /\ dying[k] > 0
    /\ dying' = [dying EXCEPT ![k] = @ - 1]
    /\ \E o \in At(Killed(k), battle.mem), dead \in BOOLEAN : Invoke(battle, o, dead, 0)
    /\ UNCHANGED <<script, overlap, cut>>
respawn_AfterTheEnd(k) ==
    /\ ~battle.disposed
    /\ k \in script.wild \/ (k = 0 /\ Asked(0))
    /\ battle.field[k] < Several
    /\ battle' = [battle EXCEPT !.field[k] = @ + 1]
    /\ UNCHANGED <<script, dying, call, overlap, cut>>
\* spawn points, and mobs that come out of dead ones, until setEventClear
respawn(k) ==
    /\ ~battle.disposed /\ ~battle.ending
    /\ k \in script.wild \/ (k = 0 /\ Asked(0))
    /\ battle.field[k] < Several
    /\ battle' = [battle EXCEPT !.field[k] = @ + 1]
    /\ UNCHANGED <<script, dying, call, overlap, cut>>

\* the action EventInstanceManager.schedule registered
RunTask(t) ==
    /\ ~battle.disposed
    /\ battle.tasks[t] > 0
    /\ \E n \in OneLess(battle.tasks[t]), o \in At(script.tasks[t], battle.mem) :
          Invoke([battle EXCEPT !.tasks[t] = n], o, FALSE, 0)
    /\ UNCHANGED <<script, dying, overlap, cut>>
scheduledTimeout ==
    /\ ~battle.disposed
    /\ battle.timer = "armed"
    /\ \E o \in At(script.scheduledTimeout, battle.mem) :
          Invoke([battle EXCEPT !.timer = "off"], o, FALSE, 0)
    /\ UNCHANGED <<script, dying, overlap, cut>>
(* The clock createEventTimer shows: cancel(false) does not stop a run     *)
(* that has begun, and the run dismisses whichever timer is there by then. *)
ClockRings ==
    /\ ~battle.disposed
    /\ battle.clock = "set"
    /\ battle' = [battle EXCEPT !.clock = "rings"]
    /\ UNCHANGED <<script, dying, call, overlap, cut>>
dismissEventTimer ==
    /\ ~battle.disposed
    /\ battle.clock = "rings"
    /\ battle' = [battle EXCEPT !.clock = "off", !.timer = "off"]
    /\ cut' = (cut \/ battle.timer = "armed")
    /\ UNCHANGED <<script, dying, call, overlap>>

\* what a player does: leave, log off, break up the party, revive, walk
PlayerActs(h) ==
    /\ ~battle.disposed
    /\ \E o \in At(script[h], battle.mem), p \in battle.inside :
          Invoke(battle, o, FALSE, IF "leave" \in o.does THEN p ELSE 0)
    /\ UNCHANGED <<script, dying, overlap, cut>>

Next ==
    \/ \E k \in Kinds : kill(k) \/ monsterKilled(k) \/ respawn(k)
    \/ \E t \in DOMAIN battle.tasks : RunTask(t)
    \/ scheduledTimeout
    \/ ClockRings
    \/ dismissEventTimer
    \/ \E h \in Exits : PlayerActs(h)
    \/ Resume

(* TimerManager's threads run what is due; players do as they like. *)
Fairness ==
    /\ WF_vars(scheduledTimeout)
    /\ WF_vars(Resume)
    /\ WF_vars(ClockRings)
    /\ WF_vars(dismissEventTimer)
Spec == Init /\ [][Next]_vars /\ Fairness

(* The variables keep their types.  No player's exit disposes an instance  *)
(* another is in, though the same player be taken out twice; and when      *)
(* nobody is left it is disposed, or the thread that took the last one out *)
(* is still to look.  (Nobody registers after setup here: that race is     *)
(* EventInstanceManager's.)                                                *)
TypeOK ==
    /\ script \in Scripts
    /\ battle.mem \in 1 .. Memories(script)
    /\ battle.field \in [Kinds -> 0 .. Several]
    /\ battle.tasks \in [DOMAIN script.tasks -> 0 .. Several]
    /\ battle.timer \in {"off", "armed"} /\ battle.clock \in {"off", "set", "rings"}
    /\ battle.inside \subseteq 1 .. Players /\ battle.paid \in 0 .. Several
    /\ battle.disposed => battle.inside = {}
    /\ battle.inside = {} => battle.disposed \/ "look" \in call.out.does
    /\ dying \in [Kinds -> 0 .. Several]

(* Players whose battle has ended are never left without a way out: the 45 *)
(* seconds run, or the thread that saw them run out is about to put        *)
(* everybody out.  A clock may dismiss that timer (cut).                   *)
NeverStranded ==
    battle.ending /\ battle.inside # {} =>
        battle.timer = "armed" \/ cut \/ "out" \in call.out.does

(* A battle with a time limit ends, whatever the players do and whichever  *)
(* function restarts the timer, unless a clock dismissed it.               *)
EveryBattleEnds == battle.timer = "armed" ~> battle.disposed \/ cut

(* A script that pays only where it declares the victory, and for a mob it *)
(* names, pays once: no death, timer or exit leads to a second prize       *)
(* unless two deaths overlap.                                              *)
PaysAtTheEnd ==
    /\ script.other = Idles
    /\ \A o \in Outcomes(script) : "prize" \in o.does => "win" \in o.does
PaidOnce == battle.paid > 1 /\ PaysAtTheEnd => overlap

(* A script that remembers its end - whatever declares a victory or defeat *)
(* leaves it in a state in which no loop of it spawns - fills no map       *)
(* during the 45 seconds, unless a death overlapped another call.          *)
Loops == DOMAIN script.tasks \ {"start"}
Calm(m) == \A t \in Loops : \A o \in At(script.tasks[t], m) : o.mobs = <<>>
RemembersItsEnd ==
    \A h \in Handlers(script), m \in 1 .. Memories(script) : \A o \in At(h, m) :
        o.does \cap {"win", "lose"} # {} => Calm(Recall(o, m))
LoopsStop ==
    [][~overlap /\ battle.ending /\ (\E t \in Loops : RunTask(t)) /\ RemembersItsEnd =>
           \A k \in Kinds : battle'.field[k] <= battle.field[k]]_vars
==============================================================================

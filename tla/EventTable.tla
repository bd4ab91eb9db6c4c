----------------------------- MODULE EventTable ------------------------------
(***************************************************************************)
(* The form of the tables of the event scripts.  A function of a script is *)
(* a sequence of sets of outcomes: the outcomes open to it in each of the  *)
(* states the script can remember (the values of the properties its        *)
(* functions compare), or one set when what it remembers does not matter.  *)
(* An outcome says what the script remembers afterwards, what it does to   *)
(* the event instance, which mobs it spawns and which of its functions it  *)
(* schedules.  Mobs are told apart by what their death makes the script    *)
(* do: kind 0 stands for those no function asks for.                       *)
(***************************************************************************)
EXTENDS Naturals, Sequences, FiniteSets, Functions, FiniteSetsExt

Effects == {"wipe", "prize", "win", "lose", "timer", "clock", "leave", "out"}

Acts(does, mobs, tasks) == [mem |-> <<>>, does |-> does, mobs |-> mobs, tasks |-> tasks]
Nothing == Acts({}, <<>>, {})
Does(effects) == Acts(effects, <<>>, {})
Spawns(mobs) == Acts({}, mobs, {})
Later(tasks) == Acts({}, <<>>, tasks)
\* setValue, setIntProperty: the state afterwards, or one for each state found
To(m, o) == [o EXCEPT !.mem = <<m>>]
Moves(ms, o) == [o EXCEPT !.mem = ms]

Any(outcomes) == <<outcomes>>
Only(o) == <<{o}>>
At(handler, m) == IF Len(handler) = 1 THEN handler[1] ELSE handler[m]
Recall(o, m) ==
    CASE o.mem = <<>>      -> m
      [] Len(o.mem) = 1    -> o.mem[1]
      [] OTHER             -> o.mem[m]

\* what most scripts do when a player goes, dies, moves or is late
Leaves == Only(Does({"leave"}))
AllOut == Only(Does({"out"}))
Idles == Only(Nothing)

\* kills: monsterKilled for each kind of mob; wild: the kinds that come with
\* the maps or out of other mobs and not from the script
Battle(setup, kills, tasks) ==
    [setup |-> setup, kills |-> kills, tasks |-> tasks, other |-> Idles, wild |-> {},
     playerEntry |-> Idles, scheduledTimeout |-> AllOut, playerExit |-> Leaves,
     leftParty |-> Leaves, disbandParty |-> AllOut, playerRevive |-> Leaves,
     changedMap |-> Any({Nothing, Does({"leave"})}), afterChangedMap |-> Idles,
     allMonstersDead |-> Idles, allMonstersKilled |-> Idles]

\* the functions of a script, what they may do, and how many states they tell apart
Exits == {"playerExit", "leftParty", "disbandParty", "playerRevive", "changedMap",
          "afterChangedMap"}
Others == Exits \cup {"playerEntry", "scheduledTimeout", "allMonstersDead",
                      "allMonstersKilled", "other"}
Handlers(s) == {s[h] : h \in Others} \cup Range(s.kills) \cup Range(s.tasks)
Outcomes(s) == s.setup \cup UNION {UNION Range(h) : h \in Handlers(s)}
Memories(s) == Max({Len(h) : h \in Handlers(s)})

\* what every table keeps to: only setup shows a clock, a timeout empties the instance
WellFormed(s) ==
    /\ Memories(s) \in Nat \ {0}
    /\ s.kills \in Seq(Handlers(s))
    /\ \A h \in Handlers(s) :
          /\ h \in Seq(SUBSET Outcomes(s))
          /\ Len(h) \in {1, Memories(s)}
          /\ \A o \in UNION Range(h) : "clock" \notin o.does
    /\ \A o \in UNION Range(s.scheduledTimeout) : "out" \in o.does
    /\ \A o \in Outcomes(s) :
          /\ o.mem \in Seq(1 .. Memories(s)) /\ Len(o.mem) \in {0, 1, Memories(s)}
          /\ o.mobs \in Seq(Nat) /\ o.does \subseteq Effects
==============================================================================

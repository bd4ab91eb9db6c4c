-------------------------- MODULE EventBattle_proofs --------------------------
(***************************************************************************)
(* Proofs about EventBattle, for any well-formed tables of scripts and any *)
(* number of players: the types; that an instance whose end has begun is   *)
(* never left without a way to end; that scripts which keep calm after     *)
(* their end fill no map, and scripts which pay for bosses pay once.       *)
(***************************************************************************)
EXTENDS EventBattle, FiniteSetTheorems, TLAPS

Callable == UNION {UNION Range(h) : h \in Handlers(script)}
Battles ==
    [mem : 1 .. Memories(script), field : [Kinds -> 0 .. Several],
     tasks : [DOMAIN script.tasks -> 0 .. Several], timer : {"off", "armed"},
     clock : {"off", "set", "rings"}, ending : BOOLEAN, inside : SUBSET (1 .. Players),
     disposed : BOOLEAN, paid : 0 .. Several]
Sound(b) == b \in Battles /\ (b.disposed => b.inside = {})
Calls == Callable \cup {Nothing, Ending, Looking}
\* the end has begun, and no timer will bring it
Stuck(b) == b.ending /\ b.inside # {} /\ b.timer # "armed"
\* nobody is left, and nobody has looked
Empty(b) == b.inside = {} /\ ~b.disposed

IndInv ==
    /\ script \in Scripts
    /\ Sound(battle)
    /\ dying \in [Kinds -> 0 .. Several]
    /\ call.out \in Calls
    /\ Stuck(battle) => cut \/ "out" \in call.out.does
    /\ Empty(battle) => "look" \in call.out.does

LEMMA Implied == IndInv => TypeOK /\ NeverStranded
BY DEF IndInv, TypeOK, NeverStranded, Sound, Battles, Stuck, Empty

------------------------------------------------------------------------------
(* What a well-formed table contains.                                      *)
LEMMA Called ==
    ASSUME script \in Scripts, NEW h \in Handlers(script), NEW m \in 1 .. Memories(script),
           NEW o \in At(h, m)
    PROVE  o \in Callable /\ o \in UNION Range(h)
<1>1. /\ Memories(script) \in Nat \ {0}
      /\ h \in Seq(SUBSET Outcomes(script)) /\ Len(h) \in {1, Memories(script)}
  BY ScriptsAssumption DEF WellFormed
<1>2. \E i \in DOMAIN h : At(h, m) = h[i]
  BY <1>1 DEF At
<1>3. At(h, m) \in Range(h)
  BY <1>2 DEF Range
<1> QED
  BY <1>3 DEF Callable

\* An outcome as a table, or a preempted thread, may have it.
Proper(o) ==
    /\ \A m \in 1 .. Memories(script) : Recall(o, m) \in 1 .. Memories(script)
    /\ IsFiniteSet(DOMAIN o.mobs)

LEMMA Tables ==
    ASSUME script \in Scripts, NEW o \in Calls \cup script.setup
    PROVE  /\ Proper(o) /\ Proper(Beside(o))
           /\ o \in Calls => "clock" \notin o.does
           /\ o \notin {Ending, Looking} => o.does \cap {"end", "look"} = {}
<1>1. CASE o \in {Nothing, Ending, Looking}
  <2>1. o.mem = <<>> /\ o.mobs = <<>> /\ o.does \in {{}, {"end"}, {"look"}} /\ (o = Nothing => o.does = {})
    BY <1>1 DEF Nothing, Ending, Looking, Does, Acts
  <2>2. DOMAIN o.mobs = {}
    BY <2>1
  <2> QED
    BY <1>1, <2>1, <2>2, FS_EmptySet DEF Recall, Proper, Beside
<1>2. CASE o \notin {Nothing, Ending, Looking}
  <2>1. o \in Outcomes(script)
    BY <1>2 DEF Outcomes, Callable, Calls
  <2>2. /\ o.mem \in Seq(1 .. Memories(script)) /\ Len(o.mem) \in {0, 1, Memories(script)}
        /\ o.mobs \in Seq(Nat) /\ o.does \subseteq Effects
        /\ Memories(script) \in Nat \ {0}
    BY <2>1, ScriptsAssumption DEF WellFormed
  <2>3. \A m \in 1 .. Memories(script) : Recall(o, m) \in 1 .. Memories(script)
    BY <2>2 DEF Recall
  <2>4. IsFiniteSet(DOMAIN o.mobs)
    <3>1. DOMAIN o.mobs = 1 .. Len(o.mobs) /\ Len(o.mobs) \in Nat
      BY <2>2
    <3>2. IsFiniteSet(1 .. Len(o.mobs))
      <4>1. 1 \in Int /\ Len(o.mobs) \in Int
        BY <3>1
      <4> QED
        BY ONLY <4>1, FS_Interval
    <3> QED
      BY <3>1, <3>2
  <2>5. o \in Callable => "clock" \notin o.does
    BY ScriptsAssumption DEF WellFormed, Callable
  <2>6. Proper(o) /\ Proper(Beside(o))
    BY <2>3, <2>4 DEF Proper, Beside, Recall
  <2>7. o.does \cap {"end", "look"} = {}
    BY <2>2 DEF Effects
  <2> QED
    BY <1>2, <2>5, <2>6, <2>7 DEF Calls
<1> QED
  BY <1>1, <1>2

LEMMA Rows ==
    ASSUME script \in Scripts
    PROVE  /\ \A h \in Others : script[h] \in Handlers(script)
           /\ \A k \in Kinds : Killed(k) \in Handlers(script)
           /\ \A t \in DOMAIN script.tasks : script.tasks[t] \in Handlers(script)
<1>1. script.kills \in Seq(Handlers(script))
  BY ScriptsAssumption DEF WellFormed
<1>2. \A h \in Others : script[h] \in Handlers(script)
  BY DEF Handlers
<1>3. \A k \in Kinds : Killed(k) \in Handlers(script)
  BY <1>1, <1>2 DEF Kinds, Killed, Others
<1>4. \A t \in DOMAIN script.tasks : script.tasks[t] \in Handlers(script)
  BY DEF Handlers, Range
<1> QED
  BY <1>2, <1>3, <1>4

------------------------------------------------------------------------------
(* Effects keep an instance sound, and only the end of a timer gets it     *)
(* stuck.                                                                  *)
LEMMA ActedTyped ==
    ASSUME script \in Scripts, NEW b \in Battles, NEW o, Proper(o), NEW p
    PROVE  Acted(b, o, p) \in Battles
<1> USE DEF Several
<1> DEFINE mem == setValue(b, o)
           field == IF Ends(b, o) THEN NoMobs
                    ELSE Landing(IF "wipe" \in o.does THEN NoMobs ELSE b.field, o.mobs)
           tasks == schedule(b.tasks, o.tasks)
           timer == eventTimer(b, o)
           clock == clockTimer(b, o)
           ending == b.ending \/ Ends(b, o)
           paid == IF "prize" \in o.does THEN Upto(b.paid + 1) ELSE b.paid
           inside == exitPlayer(b, o, p)
<1>1. Acted(b, o, p) = [mem |-> mem, field |-> field, tasks |-> tasks, timer |-> timer,
                        clock |-> clock, ending |-> ending, inside |-> inside,
                        disposed |-> b.disposed, paid |-> paid]
  BY DEF Acted
<1>2. mem \in 1 .. Memories(script)
  BY DEF setValue, Battles, Proper
<1>3. field \in [Kinds -> 0 .. Several]
  <2>1. NoMobs \in [Kinds -> 0 .. Several] /\ b.field \in [Kinds -> 0 .. Several]
    BY DEF NoMobs, Battles
  <2>2. ASSUME NEW f \in [Kinds -> 0 .. Several]
        PROVE  Landing(f, o.mobs) \in [Kinds -> 0 .. Several]
    <3>1. ASSUME NEW k \in Kinds
          PROVE  Upto(f[k] + Cardinality({i \in DOMAIN o.mobs : o.mobs[i] = k}))
                     \in 0 .. Several
      <4>1. IsFiniteSet({i \in DOMAIN o.mobs : o.mobs[i] = k})
        BY FS_Subset DEF Proper
      <4>2. Cardinality({i \in DOMAIN o.mobs : o.mobs[i] = k}) \in Nat
        BY <4>1, FS_CardinalityType
      <4> QED
        BY <4>2 DEF Upto
    <3> QED
      BY <3>1 DEF Landing
  <2> QED
    BY <2>1, <2>2
<1>4. tasks \in [DOMAIN script.tasks -> 0 .. Several]
  BY DEF schedule, Upto, Battles
<1>5. timer \in {"off", "armed"} /\ clock \in {"off", "set", "rings"}
  BY DEF eventTimer, clockTimer, Battles
<1>6. ending \in BOOLEAN /\ b.disposed \in BOOLEAN
  BY DEF Ends, Battles
<1>7. inside \in SUBSET (1 .. Players)
  BY DEF exitPlayer, Battles
<1>8. paid \in 0 .. Several
  BY DEF Upto, Battles
<1> HIDE DEF mem, field, tasks, timer, clock, ending, paid, inside
<1> QED
  BY <1>1, <1>2, <1>3, <1>4, <1>5, <1>6, <1>7, <1>8 DEF Battles

\* the fields of what an outcome has done, and of a disposed instance
LEMMA ActedFields ==
    ASSUME NEW b, NEW o, NEW p
    PROVE  /\ Acted(b, o, p).mem = setValue(b, o)
           /\ Acted(b, o, p).field = IF Ends(b, o) THEN NoMobs
                  ELSE Landing(IF "wipe" \in o.does THEN NoMobs ELSE b.field, o.mobs)
           /\ Acted(b, o, p).tasks = schedule(b.tasks, o.tasks)
           /\ Acted(b, o, p).timer = eventTimer(b, o)
           /\ Acted(b, o, p).ending = (b.ending \/ Ends(b, o))
           /\ Acted(b, o, p).inside = exitPlayer(b, o, p)
           /\ Acted(b, o, p).disposed = b.disposed
           /\ Acted(b, o, p).paid = IF "prize" \in o.does THEN Upto(b.paid + 1) ELSE b.paid
BY DEF Acted

LEMMA GoneFields ==
    ASSUME NEW b \in Battles
    PROVE  /\ Gone(b) \in Battles /\ Gone(b).disposed
           /\ Gone(b).mem = b.mem /\ Gone(b).ending = b.ending
           /\ Gone(b).inside = b.inside /\ Gone(b).paid = b.paid
           /\ Gone(b).field = NoMobs /\ Gone(b).tasks = [t \in DOMAIN b.tasks |-> 0]
<1> DEFINE none == [t \in DOMAIN b.tasks |-> 0]
<1>1. NoMobs \in [Kinds -> 0 .. Several] /\ none \in [DOMAIN script.tasks -> 0 .. Several]
  BY DEF NoMobs, Battles, Several
<1> HIDE DEF none
<1>2. Gone(b) = [b EXCEPT !.field = NoMobs, !.tasks = none, !.timer = "off", !.clock = "off",
                          !.disposed = TRUE]
  BY DEF Gone, none
<1>3. Gone(b) \in Battles
  BY <1>1, <1>2 DEF Battles
<1>4. /\ Gone(b).disposed /\ Gone(b).mem = b.mem /\ Gone(b).ending = b.ending
      /\ Gone(b).inside = b.inside /\ Gone(b).paid = b.paid
      /\ Gone(b).field = NoMobs /\ Gone(b).tasks = none
  BY <1>2 DEF Battles
<1> QED
  BY <1>3, <1>4 DEF none

LEMMA EffectSound ==
    ASSUME script \in Scripts, NEW b, Sound(b), NEW o, Proper(o), NEW p
    PROVE  Sound(Effect(b, o, p))
<1> DEFINE e == Acted(b, o, p)
<1>1. e \in Battles /\ e.inside = exitPlayer(b, o, p) /\ e.disposed = b.disposed
  BY ActedTyped, ActedFields DEF Sound
<1> HIDE DEF e
<1>2. CASE b.disposed
  BY <1>2 DEF Effect
<1>3. CASE ~b.disposed /\ LeavesNobody(b, o, p)
  <2>1. Effect(b, o, p) = Gone(e)
    BY <1>3 DEF Effect, e
  <2>2. e.inside = {}
    BY <1>1, <1>3 DEF LeavesNobody
  <2> QED
    BY <1>1, <2>1, <2>2, GoneFields DEF Sound
<1>4. CASE ~b.disposed /\ ~LeavesNobody(b, o, p)
  <2>1. Effect(b, o, p) = e
    BY <1>4 DEF Effect, e
  <2> QED
    BY <1>1, <1>4, <2>1 DEF Sound
<1> QED
  BY <1>2, <1>3, <1>4

\* It disposes the instance, or it is all that the outcome does.
LEMMA EffectForms ==
    ASSUME script \in Scripts, NEW b, Sound(b), NEW o, Proper(o), NEW p
    PROVE  \/ b.disposed /\ Effect(b, o, p) = b
           \/ /\ ~b.disposed
              /\ Effect(b, o, p).disposed
              /\ Effect(b, o, p).inside = {}
              /\ Effect(b, o, p).field = NoMobs
              /\ Effect(b, o, p).tasks = [t \in DOMAIN b.tasks |-> 0]
              /\ Effect(b, o, p).mem = Acted(b, o, p).mem
              /\ Effect(b, o, p).ending = Acted(b, o, p).ending
              /\ Effect(b, o, p).paid = Acted(b, o, p).paid
           \/ ~b.disposed /\ ~LeavesNobody(b, o, p) /\ Effect(b, o, p) = Acted(b, o, p)
<1> DEFINE e == Acted(b, o, p)
<1>1. e \in Battles /\ e.inside = exitPlayer(b, o, p) /\ e.tasks = schedule(b.tasks, o.tasks)
  BY ActedTyped, ActedFields DEF Sound
<1>0. DOMAIN e.tasks = DOMAIN b.tasks
  BY <1>1 DEF schedule
<1>2. CASE b.disposed
  BY <1>2 DEF Effect
<1>3. CASE ~b.disposed /\ LeavesNobody(b, o, p)
  <2>1. Effect(b, o, p) = Gone(e)
    BY <1>3 DEF Effect
  <2> HIDE DEF e
  <2>2. e.inside = {}
    BY <1>1, <1>3 DEF LeavesNobody
  <2>3. /\ Effect(b, o, p).disposed /\ Effect(b, o, p).inside = {}
        /\ Effect(b, o, p).field = NoMobs
        /\ Effect(b, o, p).tasks = [t \in DOMAIN b.tasks |-> 0]
        /\ Effect(b, o, p).mem = e.mem /\ Effect(b, o, p).ending = e.ending
        /\ Effect(b, o, p).paid = e.paid
    BY <1>0, <1>1, <2>1, <2>2, GoneFields
  <2> QED
    BY <1>3, <2>3 DEF e
<1>4. CASE ~b.disposed /\ ~LeavesNobody(b, o, p)
  BY <1>4 DEF Effect
<1> QED
  BY <1>2, <1>3, <1>4

LEMMA EffectStuck ==
    ASSUME script \in Scripts, NEW b, Sound(b), NEW o, Proper(o), NEW p, Stuck(Effect(b, o, p))
    PROVE  /\ b.ending /\ "out" \notin o.does
           /\ "clock" \notin o.does => Stuck(b)
<1>1. ~b.disposed /\ Effect(b, o, p) = Acted(b, o, p)
  BY EffectForms DEF Stuck, Sound
<1> DEFINE e == Acted(b, o, p)
<1>0. /\ e.timer = eventTimer(b, o) /\ e.inside = exitPlayer(b, o, p)
      /\ e.ending = (b.ending \/ Ends(b, o))
  BY ActedFields
<1> HIDE DEF e
<1>2. /\ eventTimer(b, o) # "armed" /\ exitPlayer(b, o, p) # {}
      /\ b.ending \/ Ends(b, o)
  <2>1. Stuck(e)
    BY <1>1 DEF e
  <2> QED
    BY <1>0, <2>1 DEF Stuck
<1>3. ~Arms(b, o)
  BY <1>2 DEF eventTimer
<1>4. b.ending
  BY <1>2, <1>3 DEF Arms
<1>5. "out" \notin o.does /\ b.inside # {}
  BY <1>2 DEF exitPlayer
<1>6. "clock" \notin o.does => b.timer # "armed"
  BY <1>2, <1>3 DEF eventTimer
<1> QED
  BY <1>4, <1>5, <1>6 DEF Stuck

LEMMA EffectEmpty ==
    ASSUME script \in Scripts, NEW b, Sound(b), NEW o, Proper(o), NEW p, Empty(Effect(b, o, p))
    PROVE  Empty(b) /\ "look" \notin o.does
<1>1. CASE b.disposed
  BY <1>1, EffectForms DEF Empty
<1>2. CASE ~b.disposed
  <2>1. Effect(b, o, p) = Acted(b, o, p) /\ ~LeavesNobody(b, o, p)
    BY <1>2, EffectForms DEF Empty
  <2>2. exitPlayer(b, o, p) = {}
    BY <2>1, ActedFields DEF Empty
  <2>3. o.does \cap {"leave", "look"} = {} /\ ("out" \in o.does => b.inside = {})
    BY <2>1, <2>2 DEF LeavesNobody
  <2>4. b.inside = {}
    BY <2>2, <2>3 DEF exitPlayer
  <2> QED
    BY <1>2, <2>3, <2>4 DEF Empty
<1> QED
  BY <1>1, <1>2

(* A call with what follows it, allMonstersDead.                           *)
LEMMA ResultsOK ==
    ASSUME script \in Scripts, NEW b, Sound(b), NEW c, c.out \in Calls,
           NEW r \in Results(b, c)
    PROVE  /\ Sound(r)
           /\ Stuck(r) => Stuck(b) /\ "out" \notin c.out.does
           /\ Empty(r) => Empty(b) /\ "look" \notin c.out.does
<1> DEFINE e == Effect(b, c.out, c.who)
<1>1. /\ Sound(e)
      /\ Stuck(e) => Stuck(b) /\ "out" \notin c.out.does
      /\ Empty(e) => Empty(b) /\ "look" \notin c.out.does
  BY EffectSound, EffectStuck, EffectEmpty, Tables
<1> HIDE DEF e
<1>2. CASE c.dead
  <2>1. PICK d \in At(script.allMonstersDead, e.mem) : r = Effect(e, d, 0)
    BY <1>2 DEF Results, e
  <2>2. script.allMonstersDead \in Handlers(script)
    BY Rows DEF Others
  <2>3. e.mem \in 1 .. Memories(script)
    BY <1>1 DEF Sound, Battles
  <2>4. d \in Calls
    BY <2>1, <2>2, <2>3, Called DEF Calls
  <2>5. Sound(r) /\ (Stuck(r) => Stuck(e)) /\ (Empty(r) => Empty(e))
    BY <1>1, <2>1, <2>4, EffectSound, EffectStuck, EffectEmpty, Tables
  <2> QED
    BY <1>1, <2>5
<1>3. CASE ~c.dead
  <2>1. r = e
    BY <1>3 DEF Results, e
  <2> QED
    BY <1>1, <2>1
<1> QED
  BY <1>2, <1>3

LEMMA FoundEmptyOK ==
    ASSUME script \in Scripts, NEW b, Sound(b), NEW e \in FoundEmpty(b)
    PROVE  Sound(e) /\ (Stuck(e) => Stuck(b)) /\ (Empty(e) => Empty(b))
<1>1. PICK o \in {Nothing} \cup At(script.allMonstersKilled, b.mem) : e = Effect(b, o, 0)
  BY DEF FoundEmpty
<1>2. b.mem \in 1 .. Memories(script)
  BY DEF Sound, Battles
<1>3. o \in Calls
  BY <1>1, <1>2, Rows, Called DEF Others, Calls
<1> QED
  BY <1>1, <1>3, EffectSound, EffectStuck, EffectEmpty, Tables

LEMMA InvokeOK ==
    ASSUME IndInv, NEW b, Sound(b), NEW o \in Callable, NEW dead, NEW p,
           Invoke(b, o, dead, p), UNCHANGED <<script, cut>>, ~b.disposed,
           Stuck(b) => Stuck(battle) \/ "out" \in o.does,
           Empty(b) => Empty(battle)
    PROVE  /\ Sound(battle')
           /\ call'.out \in Calls
           /\ Stuck(battle') => cut \/ "out" \in call'.out.does
           /\ Empty(battle') => "look" \in call'.out.does
<1> DEFINE c == [out |-> o, dead |-> dead, who |-> p]
<1>0. c.out = o /\ o \in Calls /\ script \in Scripts
  BY DEF Calls, IndInv
<1> HIDE DEF c
<1>1. CASE battle' \in Results(b, c) /\ UNCHANGED call
  <2>1. /\ Sound(battle')
        /\ Stuck(battle') => Stuck(b) /\ "out" \notin o.does
        /\ Empty(battle') => Empty(b)
    BY <1>0, <1>1, ResultsOK
  <2> QED
    BY <1>1, <2>1 DEF IndInv
<1>2. CASE /\ call = None
           /\ \/ call' = c /\ battle' = b
              \/ Ends(b, o) /\ call'.out = Ending /\ battle' = Effect(b, Beside(o), p)
              \/ LeavesNobody(b, o, p) /\ call'.out = Looking /\ battle' = Acted(b, o, p)
  <2>0. /\ "out" \notin call.out.does /\ "look" \notin call.out.does
        /\ ~Empty(b) /\ (Stuck(b) => cut \/ "out" \in o.does)
    BY <1>2 DEF None, Nothing, Acts, IndInv
  <2>1. CASE call' = c /\ battle' = b
    BY <1>0, <2>0, <2>1
  <2>2. CASE Ends(b, o) /\ call'.out = Ending /\ battle' = Effect(b, Beside(o), p)
    <3>1. Proper(Beside(o)) /\ "clock" \notin o.does
      BY <1>0, Tables
    <3>2. Beside(o).does = o.does \ {"win", "lose"}
      BY DEF Beside
    <3>3. Sound(battle')
      BY <1>0, <2>2, <3>1, EffectSound
    <3>4. Stuck(battle') => Stuck(b) /\ "out" \notin o.does
      BY <1>0, <2>2, <3>1, <3>2, EffectStuck
    <3>5. ~Empty(battle')
      BY <1>0, <2>0, <2>2, <3>1, EffectEmpty
    <3> QED
      BY <2>0, <2>2, <3>3, <3>4, <3>5 DEF Calls
  <2>3. CASE LeavesNobody(b, o, p) /\ call'.out = Looking /\ battle' = Acted(b, o, p)
    <3>1. battle' \in Battles
      BY <1>0, <2>3, ActedTyped, Tables DEF Sound
    <3>2. battle'.inside = {} /\ ~battle'.disposed
      BY <2>3, ActedFields DEF LeavesNobody
    <3>3. "look" \in call'.out.does
      BY <2>3 DEF Looking, Does, Acts
    <3> QED
      BY <2>3, <3>1, <3>2, <3>3 DEF Calls, Sound, Stuck
  <2> QED
    BY <1>2, <2>1, <2>2, <2>3
<1> QED
  BY <1>1, <1>2 DEF Invoke, c

------------------------------------------------------------------------------
THEOREM InitIndInv == Init => IndInv
<1> SUFFICES ASSUME Init PROVE IndInv
  OBVIOUS
<1> USE DEF Several
<1>1. script \in Scripts /\ dying = NoMobs /\ call = None
  BY DEF Init
<1>2. PICK n \in 1 .. Players : \E o \in script.setup :
          \E e \in At(script.playerEntry, Effect(Fresh(n), o, 0).mem) :
             battle = IF n = 1 THEN Effect(Effect(Fresh(n), o, 0), e, 1)
                      ELSE Effect(Effect(Effect(Fresh(n), o, 0), e, 1), e, 2)
  BY DEF Init
<1>3. PICK o \in script.setup :
          \E e \in At(script.playerEntry, Effect(Fresh(n), o, 0).mem) :
             battle = IF n = 1 THEN Effect(Effect(Fresh(n), o, 0), e, 1)
                      ELSE Effect(Effect(Effect(Fresh(n), o, 0), e, 1), e, 2)
  BY <1>2
<1> DEFINE b == Effect(Fresh(n), o, 0)
<1>4. PICK e \in At(script.playerEntry, b.mem) :
          battle = IF n = 1 THEN Effect(b, e, 1) ELSE Effect(Effect(b, e, 1), e, 2)
  BY <1>3
<1>5. Sound(Fresh(n)) /\ ~Fresh(n).ending /\ ~Empty(Fresh(n))
  <2>1. Memories(script) \in Nat \ {0}
    BY <1>1, ScriptsAssumption DEF WellFormed
  <2> QED
    BY <2>1, PlayersAssumption DEF Fresh, Sound, Battles, NoMobs, Empty
<1>6. Sound(b) /\ ~Stuck(b) /\ ~Empty(b)
  BY <1>1, <1>5, EffectSound, EffectStuck, EffectEmpty, Tables
<1> HIDE DEF b
<1>7. e \in Calls
  <2>1. script.playerEntry \in Handlers(script)
    BY <1>1, Rows DEF Others
  <2>2. b.mem \in 1 .. Memories(script)
    BY <1>6 DEF Sound, Battles
  <2> QED
    BY <1>1, <1>4, <2>1, <2>2, Called DEF Calls
<1> DEFINE b1 == Effect(b, e, 1)
           b2 == Effect(b1, e, 2)
<1>8. Sound(b1) /\ ~Stuck(b1) /\ ~Empty(b1)
  BY <1>1, <1>6, <1>7, EffectSound, EffectStuck, EffectEmpty, Tables
<1> HIDE DEF b1
<1>9. Sound(b2) /\ ~Stuck(b2) /\ ~Empty(b2)
  BY <1>1, <1>7, <1>8, EffectSound, EffectStuck, EffectEmpty, Tables
<1>10. Sound(battle) /\ ~Stuck(battle) /\ ~Empty(battle)
  BY <1>4, <1>8, <1>9 DEF b1
<1>11. dying \in [Kinds -> 0 .. Several] /\ call.out = Nothing
  BY <1>1 DEF NoMobs, None
<1> QED
  BY <1>1, <1>10, <1>11 DEF IndInv, Calls

THEOREM NextIndInv == IndInv /\ [Next]_vars => IndInv'
<1> SUFFICES ASSUME IndInv, [Next]_vars PROVE IndInv'
  OBVIOUS
<1> USE DEF Several
<1>1. script' = script
  BY DEF Next, vars, kill, monsterKilled, respawn, RunTask, scheduledTimeout, ClockRings,
         dismissEventTimer, PlayerActs, Resume
<1>2. Battles' = Battles /\ Calls' = Calls /\ Kinds' = Kinds
  BY <1>1 DEF Battles, Callable, Calls, Kinds
<1>3. SUFFICES /\ Sound(battle')
               /\ dying' \in [Kinds -> 0 .. Several]
               /\ call'.out \in Calls
               /\ Stuck(battle') => cut' \/ "out" \in call'.out.does
               /\ Empty(battle') => "look" \in call'.out.does
  BY <1>1, <1>2 DEF IndInv, Sound, Stuck, Empty
<1>4. /\ Sound(battle) /\ dying \in [Kinds -> 0 .. Several] /\ script \in Scripts
      /\ battle.mem \in 1 .. Memories(script)
      /\ battle \in Battles
  BY DEF IndInv, Sound, Battles
<1>5. CASE UNCHANGED vars
  BY <1>1, <1>5 DEF vars, IndInv, Stuck, Sound, Empty
<1>6. ASSUME NEW k \in Kinds, kill(k) PROVE Sound(battle') /\ dying' \in [Kinds -> 0 .. Several]
               /\ call'.out \in Calls
               /\ (Stuck(battle') => cut' \/ "out" \in call'.out.does)
               /\ (Empty(battle') => "look" \in call'.out.does)
  <2>1. PICK n \in OneLess(battle.field[k]), times \in {1, 2} :
           /\ \E e \in FoundEmpty([battle EXCEPT !.field[k] = n]) :
                 battle' \in IF times = 1 THEN {e} ELSE FoundEmpty(e)
           /\ dying[k] + times <= Several
           /\ dying' = [dying EXCEPT ![k] = @ + times]
    BY <1>4, <1>6 DEF kill, Battles
  <2> DEFINE b == [battle EXCEPT !.field[k] = n]
  <2>2. PICK e \in FoundEmpty(b) : battle' \in IF times = 1 THEN {e} ELSE FoundEmpty(e)
    BY <2>1
  <2>3. n \in 0 .. Several
    BY <1>4, <1>6, <2>1 DEF OneLess, kill, Battles
  <2>4. Sound(b) /\ (Stuck(b) => Stuck(battle)) /\ (Empty(b) => Empty(battle))
    BY <1>4, <2>3 DEF Sound, Battles, Stuck, Empty
  <2> HIDE DEF b
  <2>5. Sound(e) /\ (Stuck(e) => Stuck(b)) /\ (Empty(e) => Empty(b))
    BY <1>4, <2>2, <2>4, FoundEmptyOK
  <2>6. Sound(battle') /\ (Stuck(battle') => Stuck(e)) /\ (Empty(battle') => Empty(e))
    BY <1>4, <2>2, <2>5, FoundEmptyOK
  <2>7. dying' \in [Kinds -> 0 .. Several]
    BY <1>4, <2>1
  <2>8. call' = call /\ cut' = cut
    BY <1>6 DEF kill
  <2> QED
    BY <2>4, <2>5, <2>6, <2>7, <2>8 DEF IndInv
<1>7. ASSUME NEW k \in Kinds, monsterKilled(k) PROVE Sound(battle')
               /\ dying' \in [Kinds -> 0 .. Several]
               /\ call'.out \in Calls
               /\ (Stuck(battle') => cut' \/ "out" \in call'.out.does)
               /\ (Empty(battle') => "look" \in call'.out.does)
  <2>1. PICK o \in At(Killed(k), battle.mem), dead \in BOOLEAN : Invoke(battle, o, dead, 0)
    BY <1>7 DEF monsterKilled
  <2>2. o \in Callable
    BY <1>4, <2>1, Rows, Called
  <2>3. UNCHANGED <<script, cut>> /\ ~battle.disposed
    BY <1>7 DEF monsterKilled
  <2>4. dying' \in [Kinds -> 0 .. Several]
    BY <1>4, <1>7 DEF monsterKilled
  <2> QED
    BY <1>4, <2>1, <2>2, <2>3, <2>4, InvokeOK
<1>8. ASSUME NEW k \in Kinds, respawn(k) PROVE Sound(battle')
               /\ dying' \in [Kinds -> 0 .. Several]
               /\ call'.out \in Calls
               /\ (Stuck(battle') => cut' \/ "out" \in call'.out.does)
               /\ (Empty(battle') => "look" \in call'.out.does)
  <2>1. battle.field[k] + 1 \in 0 .. Several
    BY <1>4, <1>8 DEF respawn, Battles
  <2>2. battle' = [battle EXCEPT !.field[k] = battle.field[k] + 1]
    BY <1>8 DEF respawn
  <2>3. Sound(battle') /\ (Stuck(battle') => Stuck(battle)) /\ (Empty(battle') => Empty(battle))
    BY <1>4, <2>1, <2>2 DEF Sound, Battles, Stuck, Empty
  <2> QED
    BY <1>4, <1>8, <2>3 DEF respawn, IndInv
<1>9. ASSUME NEW t \in DOMAIN battle.tasks, RunTask(t) PROVE Sound(battle')
               /\ dying' \in [Kinds -> 0 .. Several]
               /\ call'.out \in Calls
               /\ (Stuck(battle') => cut' \/ "out" \in call'.out.does)
               /\ (Empty(battle') => "look" \in call'.out.does)
  <2>1. PICK n \in OneLess(battle.tasks[t]), o \in At(script.tasks[t], battle.mem) :
           Invoke([battle EXCEPT !.tasks[t] = n], o, FALSE, 0)
    BY <1>9 DEF RunTask
  <2> DEFINE b == [battle EXCEPT !.tasks[t] = n]
  <2>2. t \in DOMAIN script.tasks
    BY <1>4, <1>9 DEF Battles
  <2>3. n \in 0 .. Several
    BY <1>4, <1>9, <2>1, <2>2 DEF OneLess, RunTask, Battles
  <2>4. Sound(b) /\ (Stuck(b) => Stuck(battle)) /\ (Empty(b) => Empty(battle)) /\ ~b.disposed
    BY <1>4, <1>9, <2>2, <2>3 DEF Sound, Battles, Stuck, Empty, RunTask
  <2>5. o \in Callable
    BY <1>4, <2>1, <2>2, Rows, Called
  <2>6. Invoke(b, o, FALSE, 0) /\ UNCHANGED <<script, cut>> /\ dying' = dying
    BY <1>9, <2>1 DEF RunTask
  <2> HIDE DEF b
  <2> QED
    BY <1>4, <2>4, <2>5, <2>6, InvokeOK
<1>10. ASSUME scheduledTimeout PROVE Sound(battle')
               /\ dying' \in [Kinds -> 0 .. Several]
               /\ call'.out \in Calls
               /\ (Stuck(battle') => cut' \/ "out" \in call'.out.does)
               /\ (Empty(battle') => "look" \in call'.out.does)
  <2> DEFINE b == [battle EXCEPT !.timer = "off"]
  <2>1. PICK o \in At(script.scheduledTimeout, battle.mem) : Invoke(b, o, FALSE, 0)
    BY <1>10 DEF scheduledTimeout
  <2>2. script.scheduledTimeout \in Handlers(script)
    BY <1>4, Rows DEF Others
  <2>3. o \in Callable /\ o \in UNION Range(script.scheduledTimeout)
    BY <1>4, <2>1, <2>2, Called
  <2>4. "out" \in o.does
    BY <1>4, <2>3, ScriptsAssumption DEF WellFormed
  <2>5. Sound(b) /\ (Empty(b) => Empty(battle)) /\ ~b.disposed
    BY <1>4, <1>10 DEF Sound, Battles, Empty, scheduledTimeout
  <2>6. UNCHANGED <<script, cut>> /\ dying' = dying
    BY <1>10 DEF scheduledTimeout
  <2> HIDE DEF b
  <2> QED
    BY <1>4, <2>1, <2>3, <2>4, <2>5, <2>6, InvokeOK
<1>11. CASE ClockRings
  <2>1. Sound(battle') /\ (Stuck(battle') => Stuck(battle)) /\ (Empty(battle') => Empty(battle))
    BY <1>4, <1>11 DEF ClockRings, Sound, Battles, Stuck, Empty
  <2> QED
    BY <1>4, <1>11, <2>1 DEF ClockRings, IndInv
<1>12. CASE dismissEventTimer
  <2>1. Sound(battle') /\ (Empty(battle') => Empty(battle))
    BY <1>4, <1>12 DEF dismissEventTimer, Sound, Battles, Empty
  <2>2. Stuck(battle') => Stuck(battle) \/ battle.timer = "armed"
    BY <1>4, <1>12 DEF dismissEventTimer, Sound, Battles, Stuck
  <2> QED
    BY <1>4, <1>12, <2>1, <2>2 DEF dismissEventTimer, IndInv
<1>13. ASSUME NEW h \in Exits, PlayerActs(h) PROVE Sound(battle')
               /\ dying' \in [Kinds -> 0 .. Several]
               /\ call'.out \in Calls
               /\ (Stuck(battle') => cut' \/ "out" \in call'.out.does)
               /\ (Empty(battle') => "look" \in call'.out.does)
  <2>1. PICK o \in At(script[h], battle.mem), p \in battle.inside :
           Invoke(battle, o, FALSE, IF "leave" \in o.does THEN p ELSE 0)
    BY <1>13 DEF PlayerActs
  <2>2. o \in Callable
    BY <1>4, <2>1, Rows, Called DEF Others
  <2>3. UNCHANGED <<script, cut>> /\ dying' = dying /\ ~battle.disposed
    BY <1>13 DEF PlayerActs
  <2> QED
    BY <1>4, <2>1, <2>2, <2>3, InvokeOK
<1>14. CASE Resume
  <2>1. battle' \in Results(battle, call) /\ call' = None /\ UNCHANGED <<script, dying, cut>>
    BY <1>14 DEF Resume
  <2>2. call'.out = Nothing
    BY <2>1 DEF None
  <2>3. /\ Sound(battle')
        /\ Stuck(battle') => Stuck(battle) /\ "out" \notin call.out.does
        /\ Empty(battle') => Empty(battle) /\ "look" \notin call.out.does
    BY <1>4, <2>1, ResultsOK DEF IndInv
  <2> QED
    BY <1>4, <2>1, <2>2, <2>3 DEF IndInv, Calls
<1> QED
  BY <1>5, <1>6, <1>7, <1>8, <1>9, <1>10, <1>11, <1>12, <1>13, <1>14 DEF Next

(* The inductive invariant holds throughout.                               *)
THEOREM IndInvHolds == Spec => []IndInv
BY InitIndInv, NextIndInv, PTL DEF Spec

(* The variables keep their types.  No player's exit disposes an instance  *)
(* another is in, even if the same player is taken out twice; when nobody  *)
(* is left it is disposed, or the thread that took the last player out has *)
(* still to look - however exits, deaths and timers interleave, for every  *)
(* well-formed table of a script and any number of players.                *)
THEOREM TypeCorrect == Spec => []TypeOK
BY IndInvHolds, Implied, PTL

(* No interleaving of deaths, tasks, exits and timers leaves an instance   *)
(* whose end has begun without a timer or a thread that ends it, unless a  *)
(* clock cut the timer.                                                    *)
THEOREM EndedIsNeverStranded == Spec => []NeverStranded
BY IndInvHolds, Implied, PTL

------------------------------------------------------------------------------
(* What a script remembers of its end.  It keeps calm if some of its       *)
(* states are ones in which no loop spawns, if whatever declares the end   *)
(* leads into them, and if nothing leads out of them.                      *)
Rests(S) ==
    /\ \A m \in S : Calm(m)
    /\ \A o \in Outcomes(script), m \in 1 .. Memories(script) :
          o.does \cap {"win", "lose"} # {} => Recall(o, m) \in S
    /\ \A o \in Callable, m \in S : Recall(o, m) \in S
KeepsCalm == \E S \in SUBSET (1 .. Memories(script)) : Rests(S)

\* pending: what a preempted call still has to do
Rested(b, pending, S) == b.ending \/ "end" \in pending.does => b.mem \in S
CalmInv ==
    \E S \in SUBSET (1 .. Memories(script)) : Rests(S) /\ Rested(battle, call.out, S)

LEMMA CallableDoes ==
    ASSUME script \in Scripts, NEW o \in Callable \cup script.setup \cup {Nothing}
    PROVE  o.does \cap {"end", "look"} = {}
<1>1. CASE o = Nothing
  BY <1>1 DEF Nothing, Acts
<1>2. CASE o # Nothing
  <2>1. o \in Outcomes(script)
    BY <1>2 DEF Outcomes, Callable
  <2> QED
    BY <2>1, ScriptsAssumption DEF WellFormed, Effects
<1> QED
  BY <1>1, <1>2

LEMMA Recalls ==
    ASSUME NEW S \in SUBSET (1 .. Memories(script)), Rests(S), NEW o \in Calls \cup script.setup,
           NEW m \in 1 .. Memories(script)
    PROVE  /\ o.does \cap {"win", "lose"} # {} => Recall(o, m) \in S
           /\ o \in Calls /\ m \in S => Recall(o, m) \in S
<1>1. CASE o \in {Nothing, Ending, Looking}
  <2>1. o.mem = <<>> /\ o.does \cap {"win", "lose"} = {}
    BY <1>1 DEF Nothing, Ending, Looking, Does, Acts
  <2> QED
    BY <2>1 DEF Recall
<1>2. CASE o \notin {Nothing, Ending, Looking}
  <2>1. o \in Outcomes(script) /\ (o \in Calls => o \in Callable)
    BY <1>2 DEF Outcomes, Calls, Callable
  <2> QED
    BY <2>1 DEF Rests
<1> QED
  BY <1>1, <1>2

\* what an outcome leaves in the memory
LEMMA ActedRested ==
    ASSUME script \in Scripts, NEW S \in SUBSET (1 .. Memories(script)), Rests(S),
           NEW b, Sound(b), NEW pending, Rested(b, pending, S), NEW e,
           NEW o \in Calls \cup script.setup,
           o \in Calls \/ ~(b.ending \/ "end" \in pending.does), "end" \in o.does => b.mem \in S,
           e.mem = Recall(o, b.mem), e.ending = (b.ending \/ Ends(b, o))
    PROVE  Rested(e, pending, S)
<1>1. b.mem \in 1 .. Memories(script)
  BY DEF Sound, Battles
<1>2. CASE b.ending \/ "end" \in pending.does
  BY <1>1, <1>2, Recalls DEF Rested
<1>3. CASE Ends(b, o)
  <2>1. CASE o.does \cap {"win", "lose"} # {}
    BY <1>1, <2>1, Recalls DEF Rested
  <2>2. CASE "end" \in o.does
    <3>1. o \in Calls
      BY <2>2, CallableDoes
    <3> QED
      BY <1>1, <2>2, <3>1, Recalls DEF Rested
  <2> QED
    BY <1>3, <2>1, <2>2 DEF Ends
<1> QED
  BY <1>2, <1>3 DEF Rested

LEMMA EffectRested ==
    ASSUME script \in Scripts, NEW S \in SUBSET (1 .. Memories(script)), Rests(S),
           NEW b, Sound(b), NEW pending, Rested(b, pending, S), NEW o \in Calls \cup script.setup,
           o \in Calls \/ ~(b.ending \/ "end" \in pending.does), "end" \in o.does => b.mem \in S,
           NEW p
    PROVE  Rested(Effect(b, o, p), pending, S)
<1> DEFINE e == Effect(b, o, p)
           a == Acted(b, o, p)
<1>1. a.mem = Recall(o, b.mem) /\ a.ending = (b.ending \/ Ends(b, o))
  BY ActedFields DEF setValue
<1> HIDE DEF a
<1>2. e = b \/ (e.mem = a.mem /\ e.ending = a.ending)
  BY EffectForms, Tables DEF a
<1> HIDE DEF e
<1>3. e = b => Rested(e, pending, S)
  OBVIOUS
<1>4. ASSUME e.mem = a.mem, e.ending = a.ending PROVE Rested(e, pending, S)
  <2>1. e.mem = Recall(o, b.mem) /\ e.ending = (b.ending \/ Ends(b, o))
    BY <1>1, <1>4
  <2> QED
    BY <2>1, ActedRested
<1> QED
  BY <1>2, <1>3, <1>4 DEF e

LEMMA ResultsRested ==
    ASSUME script \in Scripts, NEW S \in SUBSET (1 .. Memories(script)), Rests(S),
           NEW b, Sound(b), NEW pending, Rested(b, pending, S), NEW c, c.out \in Calls,
           "end" \in c.out.does => b.mem \in S, NEW r \in Results(b, c)
    PROVE  Rested(r, pending, S)
<1> DEFINE e == Effect(b, c.out, c.who)
<1>1. Sound(e) /\ Rested(e, pending, S)
  BY EffectSound, EffectRested, Tables
<1> HIDE DEF e
<1>2. CASE c.dead
  <2>1. PICK d \in At(script.allMonstersDead, e.mem) : r = Effect(e, d, 0)
    BY <1>2 DEF Results, e
  <2>2. e.mem \in 1 .. Memories(script)
    BY <1>1 DEF Sound, Battles
  <2>3. d \in Callable
    BY <2>1, <2>2, Rows, Called DEF Others
  <2>4. d \in Calls /\ "end" \notin d.does
    BY <2>3, CallableDoes DEF Calls
  <2> QED
    BY <1>1, <2>1, <2>4, EffectRested
<1>3. CASE ~c.dead
  BY <1>1, <1>3 DEF Results, e
<1> QED
  BY <1>2, <1>3

LEMMA FoundEmptyRested ==
    ASSUME script \in Scripts, NEW S \in SUBSET (1 .. Memories(script)), Rests(S),
           NEW b, Sound(b), NEW pending, Rested(b, pending, S), NEW e \in FoundEmpty(b)
    PROVE  Rested(e, pending, S)
<1>1. PICK o \in {Nothing} \cup At(script.allMonstersKilled, b.mem) : e = Effect(b, o, 0)
  BY DEF FoundEmpty
<1>2. b.mem \in 1 .. Memories(script)
  BY DEF Sound, Battles
<1>3. o \in Callable \cup {Nothing}
  BY <1>1, <1>2, Rows, Called DEF Others
<1>4. o \in Calls /\ "end" \notin o.does
  BY <1>3, CallableDoes DEF Calls
<1> QED
  BY <1>1, <1>4, EffectRested

LEMMA InvokeRested ==
    ASSUME script \in Scripts, NEW S \in SUBSET (1 .. Memories(script)), Rests(S),
           NEW b, Sound(b), ~b.disposed, Rested(b, call.out, S), NEW o \in Callable,
           NEW dead, NEW p, Invoke(b, o, dead, p)
    PROVE  Rested(battle', call'.out, S)
<1> DEFINE c == [out |-> o, dead |-> dead, who |-> p]
<1>0. c.out = o /\ o \in Calls /\ "end" \notin o.does
  BY CallableDoes DEF Calls
<1> HIDE DEF c
<1>1. CASE battle' \in Results(b, c) /\ UNCHANGED call
  BY <1>0, <1>1, ResultsRested
<1>2. CASE call' = c /\ battle' = b
  BY <1>0, <1>2 DEF Rested
<1>3. CASE Ends(b, o) /\ call'.out = Ending /\ battle' = Effect(b, Beside(o), p)
  <2>0. Proper(Beside(o)) /\ Acted(b, Beside(o), p).mem = Recall(Beside(o), b.mem)
    BY <1>0, ActedFields, Tables DEF setValue
  <2>1. battle'.mem = Recall(Beside(o), b.mem)
    <3> DEFINE e == Effect(b, Beside(o), p)
    <3>1. e.mem = Acted(b, Beside(o), p).mem
      BY <2>0, EffectForms
    <3> QED
      BY <1>3, <2>0, <3>1
  <2>2. Recall(Beside(o), b.mem) = Recall(o, b.mem)
    BY DEF Recall, Beside
  <2>3. o.does \cap {"win", "lose"} # {} /\ b.mem \in 1 .. Memories(script)
    BY <1>0, <1>3 DEF Ends, Sound, Battles
  <2>4. Recall(o, b.mem) \in S
    BY <1>0, <2>3, Recalls
  <2>5. battle'.mem \in S
    BY <2>1, <2>2, <2>4
  <2> QED
    BY <2>5 DEF Rested
<1>4. CASE call = None /\ call'.out = Looking /\ battle' = Acted(b, o, p)
  <2> DEFINE a == Acted(b, o, p)
  <2>1. a.mem = Recall(o, b.mem) /\ a.ending = (b.ending \/ Ends(b, o))
    BY ActedFields DEF setValue
  <2> HIDE DEF a
  <2>2. Rested(a, call.out, S)
    BY <1>0, <2>1, ActedRested
  <2>3. "end" \notin Looking.does
    BY DEF Looking, Does, Acts
  <2> QED
    BY <1>4, <2>2, <2>3 DEF Rested, a
<1> QED
  BY <1>1, <1>2, <1>3, <1>4 DEF Invoke, c

LEMMA ScriptStays == Next => script' = script
BY DEF Next, kill, monsterKilled, respawn, RunTask, scheduledTimeout, ClockRings,
       dismissEventTimer, PlayerActs, Resume

LEMMA StepRested ==
    ASSUME IndInv, Next, NEW S \in SUBSET (1 .. Memories(script)), Rests(S),
           Rested(battle, call.out, S)
    PROVE  Rested(battle', call'.out, S)
<1> USE DEF Several
<1>2. /\ Sound(battle) /\ script \in Scripts /\ battle.mem \in 1 .. Memories(script)
      /\ battle \in Battles
  BY DEF IndInv, Sound, Battles
<1>3. ASSUME NEW k \in Kinds, kill(k) PROVE Rested(battle', call'.out, S)
  <2>1. PICK n \in OneLess(battle.field[k]), times \in {1, 2} :
           \E e \in FoundEmpty([battle EXCEPT !.field[k] = n]) :
              battle' \in IF times = 1 THEN {e} ELSE FoundEmpty(e)
    BY <1>3 DEF kill
  <2> DEFINE b == [battle EXCEPT !.field[k] = n]
  <2>2. PICK e \in FoundEmpty(b) : battle' \in IF times = 1 THEN {e} ELSE FoundEmpty(e)
    BY <2>1
  <2>3. n \in 0 .. Several
    BY <1>2, <1>3, <2>1 DEF OneLess, kill, Battles
  <2>4. Sound(b) /\ Rested(b, call.out, S)
    BY <1>2, <2>3 DEF Sound, Battles, Rested
  <2> HIDE DEF b
  <2>5. Sound(e) /\ Rested(e, call.out, S)
    BY <1>2, <2>2, <2>4, FoundEmptyOK, FoundEmptyRested
  <2>6. Rested(battle', call.out, S)
    BY <1>2, <2>2, <2>5, FoundEmptyRested
  <2> QED
    BY <1>3, <2>6 DEF kill
<1>4. ASSUME NEW k \in Kinds, monsterKilled(k) PROVE Rested(battle', call'.out, S)
  <2>1. PICK o \in At(Killed(k), battle.mem), dead \in BOOLEAN : Invoke(battle, o, dead, 0)
    BY <1>4 DEF monsterKilled
  <2>2. o \in Callable /\ ~battle.disposed
    BY <1>2, <1>4, <2>1, Rows, Called DEF monsterKilled
  <2> QED
    BY <1>2, <2>1, <2>2, InvokeRested
<1>5. ASSUME NEW t \in DOMAIN battle.tasks, RunTask(t) PROVE Rested(battle', call'.out, S)
  <2>1. PICK n \in OneLess(battle.tasks[t]), o \in At(script.tasks[t], battle.mem) :
           Invoke([battle EXCEPT !.tasks[t] = n], o, FALSE, 0)
    BY <1>5 DEF RunTask
  <2>2. t \in DOMAIN script.tasks /\ n \in 0 .. Several
    BY <1>2, <1>5, <2>1 DEF OneLess, RunTask, Battles
  <2> DEFINE b == [battle EXCEPT !.tasks[t] = n]
  <2>3. Sound(b) /\ Rested(b, call.out, S) /\ ~b.disposed
    BY <1>2, <1>5, <2>2 DEF Sound, Battles, Rested, RunTask
  <2>4. o \in Callable
    BY <1>2, <2>1, <2>2, Rows, Called
  <2>5. Invoke(b, o, FALSE, 0)
    BY <2>1
  <2> HIDE DEF b
  <2> QED
    BY <1>2, <2>3, <2>4, <2>5, InvokeRested
<1>6. CASE scheduledTimeout
  <2> DEFINE b == [battle EXCEPT !.timer = "off"]
  <2>1. PICK o \in At(script.scheduledTimeout, battle.mem) : Invoke(b, o, FALSE, 0)
    BY <1>6 DEF scheduledTimeout
  <2>2. Sound(b) /\ Rested(b, call.out, S) /\ ~b.disposed
    BY <1>2, <1>6 DEF Sound, Battles, Rested, scheduledTimeout
  <2>3. o \in Callable
    BY <1>2, <2>1, Rows, Called DEF Others
  <2> HIDE DEF b
  <2> QED
    BY <1>2, <2>1, <2>2, <2>3, InvokeRested
<1>7. ASSUME NEW h \in Exits, PlayerActs(h) PROVE Rested(battle', call'.out, S)
  <2>1. PICK o \in At(script[h], battle.mem), p \in battle.inside :
           Invoke(battle, o, FALSE, IF "leave" \in o.does THEN p ELSE 0)
    BY <1>7 DEF PlayerActs
  <2>2. o \in Callable /\ ~battle.disposed
    BY <1>2, <1>7, <2>1, Rows, Called DEF Others, PlayerActs
  <2> QED
    BY <1>2, <2>1, <2>2, InvokeRested
<1>8. CASE Resume
  <2>1. battle' \in Results(battle, call) /\ call'.out = Nothing
    BY <1>8 DEF Resume, None
  <2>2. Rested(battle, Nothing, S) /\ call.out \in Calls /\ ("end" \in call.out.does => battle.mem \in S)
    BY DEF IndInv, Rested, Nothing, Acts
  <2> QED
    BY <1>2, <2>1, <2>2, ResultsRested
<1>9. ASSUME ClockRings \/ dismissEventTimer \/ \E k \in Kinds : respawn(k)
      PROVE  Rested(battle', call'.out, S)
  <2>1. battle'.mem = battle.mem /\ battle'.ending = battle.ending /\ call' = call
    BY <1>2, <1>9 DEF ClockRings, dismissEventTimer, respawn, Battles
  <2> QED
    BY <2>1 DEF Rested
<1> QED
  BY <1>3, <1>4, <1>5, <1>6, <1>7, <1>8, <1>9 DEF Next

LEMMA InitCalm == Init /\ KeepsCalm => CalmInv
<1> SUFFICES ASSUME Init, KeepsCalm PROVE CalmInv
  OBVIOUS
<1>1. PICK S \in SUBSET (1 .. Memories(script)) : Rests(S)
  BY DEF KeepsCalm
<1>2. script \in Scripts /\ call.out = Nothing /\ "end" \notin Nothing.does
  BY DEF Init, None, Nothing, Acts
<1>3. PICK n \in 1 .. Players, o \in script.setup :
          \E e \in At(script.playerEntry, Effect(Fresh(n), o, 0).mem) :
             battle = IF n = 1 THEN Effect(Effect(Fresh(n), o, 0), e, 1)
                      ELSE Effect(Effect(Effect(Fresh(n), o, 0), e, 1), e, 2)
  BY DEF Init
<1> DEFINE b == Effect(Fresh(n), o, 0)
<1>4. Sound(b) /\ Rested(b, Nothing, S)
  <2>1. Sound(Fresh(n)) /\ ~Fresh(n).ending
    <3>1. Memories(script) \in Nat \ {0}
      BY <1>2, ScriptsAssumption DEF WellFormed
    <3> QED
      BY <3>1, PlayersAssumption DEF Fresh, Sound, Battles, NoMobs, Several
  <2>2. "end" \notin o.does /\ Rested(Fresh(n), Nothing, S)
    BY <1>2, <2>1, CallableDoes DEF Rested
  <2> QED
    BY <1>1, <1>2, <2>1, <2>2, EffectSound, EffectRested, Tables
<1>5. PICK e \in At(script.playerEntry, b.mem) :
          battle = IF n = 1 THEN Effect(b, e, 1) ELSE Effect(Effect(b, e, 1), e, 2)
  BY <1>3
<1> HIDE DEF b
<1>6. e \in Callable
  <2>1. b.mem \in 1 .. Memories(script)
    BY <1>4 DEF Sound, Battles
  <2> QED
    BY <1>2, <1>5, <2>1, Rows, Called DEF Others
<1>7. e \in Calls /\ "end" \notin e.does
  BY <1>2, <1>6, CallableDoes DEF Calls
<1> DEFINE b1 == Effect(b, e, 1)
<1>8. Sound(b1) /\ Rested(b1, Nothing, S)
  BY <1>1, <1>2, <1>4, <1>7, EffectSound, EffectRested, Tables
<1> HIDE DEF b1
<1>9. Rested(Effect(b1, e, 2), Nothing, S)
  BY <1>1, <1>2, <1>7, <1>8, EffectRested
<1> QED
  BY <1>1, <1>2, <1>5, <1>8, <1>9 DEF CalmInv, b1

LEMMA NextCalm == IndInv /\ CalmInv /\ [Next]_vars => CalmInv'
<1> SUFFICES ASSUME IndInv, CalmInv, [Next]_vars PROVE CalmInv'
  OBVIOUS
<1>1. PICK S \in SUBSET (1 .. Memories(script)) : Rests(S) /\ Rested(battle, call.out, S)
  BY DEF CalmInv
<1>2. CASE Next
  <2>1. script' = script
    BY <1>2, ScriptStays
  <2>2. Rests(S)' /\ S \in SUBSET (1 .. Memories(script))'
    BY <1>1, <2>1 DEF Rests, Calm, Loops, Callable
  <2>3. Rested(battle', call'.out, S)
    BY <1>1, <1>2, StepRested
  <2> QED
    BY <2>2, <2>3 DEF CalmInv, Rested
<1>3. CASE UNCHANGED vars
  BY <1>1, <1>3 DEF vars, CalmInv, Rests, Rested, Calm, Loops, Callable
<1> QED
  BY <1>2, <1>3

(* A script that keeps calm fills no map once its end has begun: however   *)
(* its functions overlap, no run of a loop spawns again.                   *)
THEOREM CalmScriptsStop == Spec /\ KeepsCalm => LoopsStop
<1>1. ASSUME IndInv, CalmInv, NEW t \in Loops, RunTask(t), battle.ending, NEW k \in Kinds
      PROVE  battle'.field[k] <= battle.field[k]
  <2>1. PICK S \in SUBSET (1 .. Memories(script)) : Rests(S) /\ Rested(battle, call.out, S)
    BY <1>1 DEF CalmInv
  <2>2. script \in Scripts /\ battle \in Battles /\ Sound(battle) /\ battle.mem \in 1 .. Memories(script)
    BY <1>1 DEF IndInv, Sound, Battles
  <2>3. PICK n \in OneLess(battle.tasks[t]), o \in At(script.tasks[t], battle.mem) :
           Invoke([battle EXCEPT !.tasks[t] = n], o, FALSE, 0)
    BY <1>1 DEF RunTask
  <2>4. o.mobs = <<>>
    BY <1>1, <2>1, <2>3 DEF Rested, Rests, Calm
  <2>5. o \in Callable /\ "end" \notin o.does /\ Proper(o)
    BY <1>1, <2>2, <2>3, Rows, Called, CallableDoes, Tables DEF Loops, Calls
  <2>6. t \in DOMAIN script.tasks /\ n \in 0 .. Several
    BY <1>1, <2>2, <2>3 DEF Loops, OneLess, RunTask, Battles, Several
  <2> DEFINE b == [battle EXCEPT !.tasks[t] = n]
  <2>7. b.field = battle.field /\ b.ending /\ Sound(b)
    BY <1>1, <2>2, <2>6 DEF Battles, Sound
  <2>8. b.field \in [Kinds -> 0 .. Several]
    BY <2>2, <2>7 DEF Battles
  <2>9. Invoke(b, o, FALSE, 0)
    BY <2>3
  <2> HIDE DEF b
  <2>10. ~Ends(b, o)
    BY <2>5, <2>7 DEF Ends
  <2>11. battle' \in {b, Effect(b, o, 0), Acted(b, o, 0)}
    BY <2>9, <2>10 DEF Invoke, Results
  <2>12. ASSUME NEW f \in [Kinds -> 0 .. Several] PROVE Landing(f, o.mobs)[k] = f[k]
    <3>1. {i \in DOMAIN o.mobs : o.mobs[i] = k} = {}
      BY <2>4
    <3>2. Cardinality({i \in DOMAIN o.mobs : o.mobs[i] = k}) = 0
      BY <3>1, FS_EmptySet
    <3>3. Landing(f, o.mobs)[k] = Upto(f[k] + 0)
      BY <1>1, <3>2 DEF Landing
    <3> QED
      BY <1>1, <3>3 DEF Upto, Several
  <2>13. NoMobs \in [Kinds -> 0 .. Several] /\ NoMobs[k] <= b.field[k]
    BY <1>1, <2>8 DEF NoMobs, Several
  <2>14. Acted(b, o, 0).field[k] <= b.field[k]
    <3>1. Acted(b, o, 0).field = Landing(IF "wipe" \in o.does THEN NoMobs ELSE b.field, o.mobs)
      BY <2>10, ActedFields
    <3> QED
      BY <1>1, <2>8, <2>12, <2>13, <3>1 DEF Several
  <2>15. Effect(b, o, 0).field[k] <= b.field[k]
    <3>1. Effect(b, o, 0) \in {b, Acted(b, o, 0)} \/ Effect(b, o, 0).field = NoMobs
      BY <2>2, <2>5, <2>7, EffectForms
    <3> QED
      BY <1>1, <2>8, <2>13, <2>14, <3>1 DEF Several
  <2> QED
    BY <1>1, <2>7, <2>8, <2>11, <2>14, <2>15 DEF Several
<1>2. IndInv /\ CalmInv /\ [Next]_vars =>
        [~overlap /\ battle.ending /\ (\E t \in Loops : RunTask(t)) /\ RemembersItsEnd =>
           \A k \in Kinds : battle'.field[k] <= battle.field[k]]_vars
  BY <1>1
<1>3. Spec /\ KeepsCalm => []CalmInv
  BY InitCalm, NextCalm, IndInvHolds, PTL DEF Spec
<1> QED
  BY <1>2, <1>3, IndInvHolds, PTL DEF Spec, LoopsStop

------------------------------------------------------------------------------
(* Prizes.  A script pays for bosses if it pays only where their deaths    *)
(* declare the victory, and if either the bosses are there from the        *)
(* beginning or with the map (early), or they come with the one run of     *)
(* start and nothing but their deaths ends the battle (late).              *)
Open(h) == UNION Range(h)
Bosses == {k \in 1 .. Len(script.kills) : \E o \in Open(script.kills[k]) : "prize" \in o.does}
Brings(o) == \E i \in DOMAIN o.mobs : o.mobs[i] \in Bosses
Declares(o) == o.does \cap {"win", "lose", "end"} # {}

Early == \A o \in Callable : ~Brings(o)
Late ==
    /\ "start" \in DOMAIN script.tasks
    /\ \A o \in Callable : "start" \notin o.tasks
    /\ \A h \in Others : \A o \in Open(script[h]) : ~Brings(o) /\ ~Declares(o)
    /\ \A t \in DOMAIN script.tasks : \A o \in Open(script.tasks[t]) :
          ~Declares(o) /\ (t # "start" => ~Brings(o))
    /\ \A k \in 1 .. Len(script.kills) : \A o \in Open(script.kills[k]) :
          ~Brings(o) /\ (k \notin Bosses => ~Declares(o))
    /\ \A o \in script.setup : ~Brings(o) /\ ~Declares(o)
    /\ script.wild \cap Bosses = {}
PaysForBosses ==
    /\ PaysAtTheEnd
    /\ \A h \in Others : \A o \in Open(script[h]) : "prize" \notin o.does
    /\ \A t \in DOMAIN script.tasks : \A o \in Open(script.tasks[t]) : "prize" \notin o.does
    /\ \A o \in script.setup : "prize" \notin o.does
    /\ Early \/ Late

(* Bosses are still to come: start has not run, or what it did is still to *)
(* take effect.                                                            *)
Ahead(b, o) == ~Early /\ (b.tasks["start"] > 0 \/ Brings(o))
BossIn(mobs) == \E k \in Bosses : mobs[k] > 0
\* the prize paid was the last
Over(b, o) == b.ending \/ b.disposed \/ "end" \in o.does

(* With deaths that do not overlap, one mob is dying at most, no prize is  *)
(* due besides its own, and after the end no boss is left or will come.    *)
(* d: the deaths still to be told; o: the call still to take effect.       *)
Fair(b, d, o) ==
    /\ \A j, k \in Kinds : d[j] > 0 /\ d[k] > 0 => j = k /\ d[k] = 1
    /\ "prize" \in o.does => \A k \in Kinds : d[k] = 0
    /\ b.paid <= 1
    /\ b.paid = 1 => Over(b, o) /\ "prize" \notin o.does /\ ~BossIn(d)
    /\ b.ending => ~BossIn(b.field)
    /\ Ahead(b, o) => ~b.ending /\ ~BossIn(b.field) /\ ~BossIn(d) /\ ~Declares(o)
    /\ ~Early => b.tasks["start"] <= 1 /\ (b.tasks["start"] = 1 => ~Brings(o))

(* An outcome o may take effect beside the call c.                         *)
Apt(b, d, c, o) ==
    /\ Fair(b, d, c)
    /\ "prize" \in o.does => (\A k \in Kinds : d[k] = 0) /\ "prize" \notin c.does /\ b.paid = 0
    /\ Brings(o) => /\ ~b.ending /\ ~BossIn(b.field) /\ ~BossIn(d)
                    /\ ~Declares(o) /\ ~Ahead(b, c)
    /\ Declares(o) => ~Ahead(b, c)
Plain(o) == "prize" \notin o.does /\ ~Brings(o) /\ (Declares(o) => Early)

FairInv == PaysForBosses /\ ~overlap => Fair(battle, dying, call.out)

LEMMA PseudoOutcomes ==
    /\ \A o \in {Nothing, Ending, Looking} : "prize" \notin o.does /\ ~Brings(o) /\ o.tasks = {}
    /\ ~Declares(Nothing) /\ ~Declares(Looking) /\ Declares(Ending) /\ "end" \in Ending.does
    /\ "end" \notin Nothing.does /\ "end" \notin Looking.does
BY DEF Brings, Declares, Nothing, Ending, Looking, Does, Acts

LEMMA NothingIsPlain == Plain(Nothing)
BY PseudoOutcomes DEF Plain

LEMMA PlainIsApt ==
    ASSUME NEW b, NEW d, NEW c, Fair(b, d, c), NEW o, Plain(o)
    PROVE  Apt(b, d, c, o)
BY DEF Apt, Plain, Ahead

LEMMA AptPends ==
    ASSUME NEW b, Sound(b), NEW d, NEW o, Apt(b, d, Nothing, o)
    PROVE  Fair(b, d, o)
<1>1. ~Brings(Nothing) /\ "end" \notin Nothing.does
  BY PseudoOutcomes
<1>2. Fair(b, d, Nothing)
  BY DEF Apt
<1>3. ~Early => b.tasks["start"] <= 1 /\ (b.tasks["start"] = 1 => ~Brings(o))
  BY <1>2 DEF Apt, Fair, Ahead
<1>4. Ahead(b, o) => ~b.ending /\ ~BossIn(b.field) /\ ~BossIn(d) /\ ~Declares(o)
  BY <1>1, <1>2 DEF Apt, Fair, Ahead
<1>5. b.paid = 1 => Over(b, o) /\ "prize" \notin o.does /\ ~BossIn(d)
  BY <1>1, <1>2 DEF Apt, Fair, Over
<1> QED
  BY <1>2, <1>3, <1>4, <1>5 DEF Apt, Fair

\* a thread that has not looked who is left has nothing else to do
LEMMA LookingIsFair ==
    ASSUME NEW b, NEW d, Fair(b, d, Nothing)
    PROVE  Fair(b, d, Looking)
BY PseudoOutcomes DEF Fair, Ahead, Over

LEMMA PendingIsApt ==
    ASSUME NEW b, Sound(b), NEW d, NEW o \in Calls, "end" \notin o.does, Fair(b, d, o), Late \/ Early
    PROVE  Apt(b, d, Nothing, o)
<1>1. ~Brings(Nothing) /\ "prize" \notin Nothing.does /\ ~Declares(Nothing)
  BY PseudoOutcomes
<1>2. Ahead(b, Nothing) => Ahead(b, o)
  BY <1>1 DEF Ahead
<1>3. b.paid \in 0 .. 2 /\ ("start" \in DOMAIN script.tasks => b.tasks["start"] \in 0 .. 2)
  BY DEF Sound, Battles, Several
<1>4. Fair(b, d, Nothing)
  BY <1>1, <1>2 DEF Fair, Over
<1>5. "prize" \in o.does => (\A k \in Kinds : d[k] = 0) /\ "prize" \notin Nothing.does /\ b.paid = 0
  BY <1>1, <1>3 DEF Fair
<1>6. Declares(o) => ~Ahead(b, Nothing)
  BY <1>2 DEF Fair
<1>7. ASSUME Brings(o), ~Early PROVE ~Ahead(b, Nothing) /\ Ahead(b, o)
  <2>1. b.tasks["start"] \in 0 .. 2
    BY <1>3, <1>7 DEF Late
  <2>2. b.tasks["start"] <= 1 /\ b.tasks["start"] # 1
    BY <1>7 DEF Fair
  <2> QED
    BY <1>1, <1>7, <2>1, <2>2 DEF Ahead
<1>8. Brings(o) => ~Early
  BY PseudoOutcomes DEF Early, Calls
<1> QED
  BY <1>4, <1>5, <1>6, <1>7, <1>8 DEF Apt, Fair

------------------------------------------------------------------------------
(* What takes effect where it may leaves the rest as fair as it was.       *)
LEMMA NoBossInNoMobs == ~BossIn(NoMobs)
BY DEF BossIn, NoMobs, Bosses, Kinds

\* start is scheduled by nobody but setup
LEMMA StartIsLeft ==
    ASSUME Late, NEW b, Sound(b), NEW o \in Calls
    PROVE  /\ "start" \in DOMAIN b.tasks /\ b.tasks["start"] \in 0 .. 2
           /\ schedule(b.tasks, o.tasks)["start"] = b.tasks["start"]
<1>1. "start" \in DOMAIN b.tasks /\ b.tasks["start"] \in 0 .. 2
  BY DEF Late, Sound, Battles, Several
<1>2. "start" \notin o.tasks
  BY PseudoOutcomes DEF Late, Calls
<1> QED
  BY <1>1, <1>2 DEF schedule, Upto, Several

LEMMA ActedFair ==
    ASSUME script \in Scripts, PaysAtTheEnd, Late \/ Early, NEW b, Sound(b), NEW d, NEW c,
           NEW o \in Calls, Apt(b, d, c, o), NEW p
    PROVE  Fair(Acted(b, o, p), d, c)
<1> DEFINE e == Acted(b, o, p)
<1>1. /\ e.field = IF Ends(b, o) THEN NoMobs
                   ELSE Landing(IF "wipe" \in o.does THEN NoMobs ELSE b.field, o.mobs)
      /\ e.paid = IF "prize" \in o.does THEN Upto(b.paid + 1) ELSE b.paid
      /\ e.ending = (b.ending \/ Ends(b, o))
      /\ e.tasks = schedule(b.tasks, o.tasks)
      /\ e.disposed = b.disposed
  BY ActedFields
<1> HIDE DEF e
<1>2. "prize" \in o.does => Declares(o) /\ e.ending
  <2>1. "prize" \in o.does => "win" \in o.does
    BY PseudoOutcomes DEF PaysAtTheEnd, Outcomes, Callable, Calls
  <2> QED
    BY <1>1, <2>1 DEF Ends, Declares
<1>3. e.paid <= 1 /\ (e.paid = 1 => Over(e, c) /\ "prize" \notin c.does /\ ~BossIn(d))
  <2>1. CASE "prize" \in o.does
    <3>1. e.paid = 1
      BY <1>1, <2>1 DEF Apt, Upto, Several
    <3>2. ~BossIn(d)
      BY <2>1 DEF Apt, BossIn, Bosses, Kinds
    <3> QED
      BY <1>2, <2>1, <3>1, <3>2 DEF Apt, Over
  <2>2. CASE "prize" \notin o.does
    BY <1>1, <2>2 DEF Apt, Fair, Over
  <2> QED
    BY <2>1, <2>2
<1>4. ~Brings(o) /\ ~BossIn(b.field) => ~BossIn(e.field)
  <2> SUFFICES ASSUME ~Brings(o), ~BossIn(b.field), NEW k \in Bosses, e.field[k] > 0
               PROVE  FALSE
    BY DEF BossIn
  <2>1. k \in Kinds
    BY DEF Bosses, Kinds
  <2> DEFINE base == IF "wipe" \in o.does THEN NoMobs ELSE b.field
  <2>2. base[k] = 0 /\ DOMAIN base = Kinds
    BY <2>1 DEF BossIn, NoMobs, Sound, Battles, Several
  <2>3. {i \in DOMAIN o.mobs : o.mobs[i] = k} = {}
    BY DEF Brings
  <2>4. Cardinality({i \in DOMAIN o.mobs : o.mobs[i] = k}) = 0
    BY <2>3, FS_EmptySet
  <2>5. Landing(base, o.mobs)[k] = 0
    BY <2>1, <2>2, <2>4 DEF Landing, Upto, Several
  <2>6. NoMobs[k] = 0
    BY <2>1 DEF NoMobs
  <2> QED
    BY <1>1, <2>5, <2>6
<1>5. e.ending => ~BossIn(e.field)
  <2>1. CASE Ends(b, o)
    BY <1>1, <2>1, NoBossInNoMobs
  <2>2. CASE ~Ends(b, o) /\ b.ending
    BY <1>4, <2>2 DEF Apt, Fair
  <2> QED
    BY <1>1, <2>1, <2>2
<1>6. ~Early => e.tasks["start"] = b.tasks["start"]
  BY <1>1, StartIsLeft
<1>7. Ahead(e, c) => ~e.ending /\ ~BossIn(e.field) /\ ~BossIn(d) /\ ~Declares(c)
  <2> SUFFICES ASSUME Ahead(e, c)
               PROVE  ~e.ending /\ ~BossIn(e.field) /\ ~BossIn(d) /\ ~Declares(c)
    OBVIOUS
  <2>1. Ahead(b, c)
    BY <1>6 DEF Ahead
  <2>2. ~b.ending /\ ~BossIn(b.field) /\ ~BossIn(d) /\ ~Declares(c)
    BY <2>1 DEF Apt, Fair
  <2>3. ~Declares(o) /\ ~Brings(o)
    BY <2>1 DEF Apt
  <2> QED
    BY <1>1, <1>4, <2>2, <2>3 DEF Ends, Declares
<1> HIDE DEF Late
<1>8. Fair(e, d, c)
  BY <1>3, <1>5, <1>6, <1>7 DEF Apt, Fair
<1> QED
  BY <1>8 DEF e

\* a disposed instance: no mob is left and nothing is scheduled
LEMMA GoneFair ==
    ASSUME Late \/ Early, NEW b, Sound(b), NEW a, NEW d, NEW c, Fair(a, d, c), NEW g,
           g.disposed, g.field = NoMobs, g.tasks = [t \in DOMAIN b.tasks |-> 0],
           g.ending = a.ending, g.paid = a.paid
    PROVE  Fair(g, d, c)
<1>1. ~Early => g.tasks["start"] = 0
  BY DEF Late, Sound, Battles
<1>2. Ahead(g, c) => Ahead(a, c)
  BY <1>1 DEF Ahead
<1> QED
  BY <1>1, <1>2, NoBossInNoMobs DEF Fair, Over

LEMMA EffectFair ==
    ASSUME script \in Scripts, PaysAtTheEnd, Late \/ Early, NEW b, Sound(b), NEW d, NEW c,
           NEW o \in Calls, Apt(b, d, c, o), NEW p
    PROVE  Fair(Effect(b, o, p), d, c)
<1> DEFINE e == Effect(b, o, p)
           a == Acted(b, o, p)
<1>1. Fair(a, d, c)
  BY ActedFair
<1>2. \/ e \in {a, b}
      \/ /\ e.disposed /\ e.field = NoMobs /\ e.tasks = [t \in DOMAIN b.tasks |-> 0]
         /\ e.ending = a.ending /\ e.paid = a.paid
  BY EffectForms, Tables
<1>3. Fair(b, d, c)
  BY DEF Apt
<1> HIDE DEF e, a
<1>4. Fair(e, d, c)
  BY <1>1, <1>2, <1>3, GoneFair
<1> QED
  BY <1>4 DEF e

(* The preempted rest of a victory: nobody but the end empties the maps.   *)
LEMMA EndingFair ==
    ASSUME script \in Scripts, Late \/ Early, NEW b, Sound(b), NEW d, Fair(b, d, Ending), NEW p
    PROVE  Fair(Effect(b, Ending, p), d, Nothing)
<1> DEFINE e == Effect(b, Ending, p)
           a == Acted(b, Ending, p)
<1>0. Ending \in Calls /\ Proper(Ending)
  BY Tables DEF Calls
<1>1. ~Ahead(b, Ending) /\ Ends(b, Ending) /\ ~Ahead(b, Nothing)
  BY PseudoOutcomes DEF Fair, Ahead, Ends
<1>2. /\ a.field = NoMobs /\ a.paid = b.paid /\ a.ending
      /\ a.tasks = schedule(b.tasks, Ending.tasks)
  <2>1. /\ a.field = IF Ends(b, Ending) THEN NoMobs
                     ELSE Landing(IF "wipe" \in Ending.does THEN NoMobs ELSE b.field, Ending.mobs)
        /\ a.paid = IF "prize" \in Ending.does THEN Upto(b.paid + 1) ELSE b.paid
        /\ a.ending = (b.ending \/ Ends(b, Ending)) /\ a.tasks = schedule(b.tasks, Ending.tasks)
    BY ActedFields
  <2> HIDE DEF a
  <2> QED
    BY <1>1, <2>1, PseudoOutcomes
<1>3. \/ b.disposed /\ e = b
      \/ e = a
      \/ /\ e.disposed /\ e.field = NoMobs /\ e.tasks = [t \in DOMAIN b.tasks |-> 0]
         /\ e.ending = a.ending /\ e.paid = a.paid
  BY <1>0, EffectForms
<1> HIDE DEF e, a
<1>4. ~Early => a.tasks["start"] = b.tasks["start"]
  BY <1>0, <1>2, StartIsLeft
<1>5. ~Brings(Nothing) /\ "prize" \notin Nothing.does
  BY PseudoOutcomes
<1>6. Fair(a, d, Nothing)
  <2>1. ~Ahead(a, Nothing)
    BY <1>1, <1>4 DEF Ahead
  <2> QED
    BY <1>2, <1>4, <1>5, <2>1, NoBossInNoMobs DEF Fair, Over
<1>7. b.disposed => Fair(b, d, Nothing)
  BY <1>1, <1>5 DEF Fair, Over
<1>8. Fair(e, d, Nothing)
  BY <1>3, <1>6, <1>7, GoneFair
<1> QED
  BY <1>8 DEF e

(* What a victory does beside its end.                                     *)
LEMMA BesideFair ==
    ASSUME script \in Scripts, Late \/ Early, NEW b, Sound(b), ~b.disposed, NEW d,
           NEW o \in Callable, Apt(b, d, Nothing, o), Ends(b, o), NEW p
    PROVE  Fair(Effect(b, Beside(o), p), d, Ending)
<1> DEFINE e == Effect(b, Beside(o), p)
           a == Acted(b, Beside(o), p)
<1>1. Proper(Beside(o)) /\ "end" \notin o.does /\ o \in Calls
  BY Tables, CallableDoes DEF Calls
<1>2. ~b.ending /\ Declares(o) /\ ~Ends(b, Beside(o))
  BY <1>1 DEF Ends, Declares, Beside
<1>3. /\ a.paid = IF "prize" \in o.does THEN Upto(b.paid + 1) ELSE b.paid
      /\ ~a.ending /\ a.tasks = schedule(b.tasks, o.tasks)
  <2>1. "prize" \in Beside(o).does <=> "prize" \in o.does
    BY DEF Beside
  <2>2. Beside(o).tasks = o.tasks
    BY DEF Beside
  <2>3. /\ a.paid = IF "prize" \in Beside(o).does THEN Upto(b.paid + 1) ELSE b.paid
        /\ a.ending = (b.ending \/ Ends(b, Beside(o))) /\ a.tasks = schedule(b.tasks, Beside(o).tasks)
    BY ActedFields
  <2> HIDE DEF a
  <2> QED
    BY <1>2, <2>1, <2>2, <2>3
<1>4. \/ e = a
      \/ e.tasks = [t \in DOMAIN b.tasks |-> 0] /\ e.ending = a.ending /\ e.paid = a.paid
  BY <1>1, EffectForms
<1> HIDE DEF e, a
<1>5. ~Early => b.tasks["start"] = 0 /\ e.tasks["start"] = 0
  <2> SUFFICES ASSUME ~Early PROVE b.tasks["start"] = 0 /\ e.tasks["start"] = 0
    OBVIOUS
  <2>1. "start" \in DOMAIN b.tasks /\ b.tasks["start"] \in 0 .. 2
        /\ schedule(b.tasks, o.tasks)["start"] = b.tasks["start"]
    BY <1>1, StartIsLeft
  <2>2. ~Ahead(b, Nothing)
    BY <1>2 DEF Apt
  <2>3. b.tasks["start"] = 0
    BY <2>1, <2>2 DEF Ahead
  <2> QED
    BY <1>3, <1>4, <2>1, <2>3
<1>6. b.paid = 0
  <2>1. b.paid \in 0 .. 2
    BY DEF Sound, Battles, Several
  <2>2. b.paid <= 1 /\ b.paid # 1
    BY <1>2, PseudoOutcomes DEF Apt, Fair, Over
  <2> QED
    BY <2>1, <2>2
<1>7. e.paid = (IF "prize" \in o.does THEN 1 ELSE 0) /\ ~e.ending
  BY <1>3, <1>4, <1>6 DEF Upto, Several
<1>8. "prize" \in o.does => ~BossIn(d)
  BY DEF Apt, BossIn, Bosses, Kinds
<1>9. "prize" \notin Ending.does /\ ~Brings(Ending) /\ "end" \in Ending.does
  BY PseudoOutcomes
<1>10. ~Ahead(e, Ending)
  BY <1>5, <1>9 DEF Ahead
<1>11. Fair(e, d, Ending)
  BY <1>5, <1>7, <1>8, <1>9, <1>10 DEF Apt, Fair, Over
<1> QED
  BY <1>11 DEF e

LEMMA OthersArePlain ==
    ASSUME script \in Scripts, PaysForBosses, NEW h \in Others, NEW m \in 1 .. Memories(script),
           NEW o \in At(script[h], m)
    PROVE  o \in Callable /\ Plain(o)
<1>1. o \in Callable /\ o \in Open(script[h])
  BY Rows, Called DEF Open
<1> QED
  BY <1>1 DEF PaysForBosses, Plain, Early, Late

LEMMA ResultsFair ==
    ASSUME script \in Scripts, PaysForBosses, NEW b, Sound(b), NEW d, NEW c, NEW q, q.out \in Calls,
           Fair(Effect(b, q.out, q.who), d, c), NEW r \in Results(b, q)
    PROVE  Fair(r, d, c)
<1> DEFINE e == Effect(b, q.out, q.who)
<1>1. Fair(e, d, c) /\ Sound(e)
  BY EffectSound, Tables
<1> HIDE DEF e
<1>2. CASE q.dead
  <2>1. PICK o \in At(script.allMonstersDead, e.mem) : r = Effect(e, o, 0)
    BY <1>2 DEF Results, e
  <2>2. e.mem \in 1 .. Memories(script)
    BY <1>1 DEF Sound, Battles
  <2>3. o \in Calls /\ Plain(o)
    BY <2>1, <2>2, OthersArePlain DEF Others, Calls
  <2> QED
    BY <1>1, <2>1, <2>3, PlainIsApt, EffectFair DEF PaysForBosses
<1>3. CASE ~q.dead
  BY <1>1, <1>3 DEF Results, e
<1> QED
  BY <1>2, <1>3

LEMMA InvokeFair ==
    ASSUME script \in Scripts, PaysForBosses, NEW b, Sound(b), ~b.disposed, NEW d,
           NEW o \in Callable, NEW dead, NEW p, Apt(b, d, call.out, o), Invoke(b, o, dead, p)
    PROVE  Fair(battle', d, call'.out)
<1> DEFINE q == [out |-> o, dead |-> dead, who |-> p]
<1>0. q.out = o /\ q.who = p /\ o \in Calls /\ PaysAtTheEnd /\ (Late \/ Early)
  BY DEF Calls, PaysForBosses
<1> HIDE DEF q
<1>1. CASE battle' \in Results(b, q) /\ UNCHANGED call
  <2>1. Fair(Effect(b, o, p), d, call.out)
    BY <1>0, EffectFair
  <2> QED
    BY <1>0, <1>1, <2>1, ResultsFair
<1>2. CASE call = None /\ call' = q /\ battle' = b
  <2>1. call.out = Nothing /\ call'.out = o
    BY <1>0, <1>2 DEF None
  <2> QED
    BY <1>2, <2>1, AptPends
<1>3. CASE call = None /\ Ends(b, o) /\ call'.out = Ending /\ battle' = Effect(b, Beside(o), p)
  BY <1>0, <1>3, BesideFair DEF None
<1>4. CASE call = None /\ call'.out = Looking /\ battle' = Acted(b, o, p)
  <2>1. call.out = Nothing
    BY <1>4 DEF None
  <2>2. Fair(Acted(b, o, p), d, Nothing)
    BY <1>0, <2>1, ActedFair
  <2> QED
    BY <1>4, <2>2, LookingIsFair
<1> QED
  BY <1>1, <1>2, <1>3, <1>4 DEF Invoke, q

LEMMA InitFair == Init /\ PaysForBosses => Fair(battle, dying, call.out)
<1> SUFFICES ASSUME Init, PaysForBosses PROVE Fair(battle, dying, call.out)
  OBVIOUS
<1>1. script \in Scripts /\ dying = NoMobs /\ call.out = Nothing /\ PaysAtTheEnd /\ (Late \/ Early)
  BY DEF Init, None, PaysForBosses
<1>2. PICK n \in 1 .. Players, o \in script.setup :
          \E e \in At(script.playerEntry, Effect(Fresh(n), o, 0).mem) :
             battle = IF n = 1 THEN Effect(Effect(Fresh(n), o, 0), e, 1)
                      ELSE Effect(Effect(Effect(Fresh(n), o, 0), e, 1), e, 2)
  BY DEF Init
<1> DEFINE new == Fresh(n)
<1>3. /\ Sound(new) /\ ~new.ending /\ ~new.disposed /\ new.paid = 0
      /\ new.field = NoMobs /\ new.tasks = [t \in DOMAIN script.tasks |-> 0]
  <2>1. Memories(script) \in Nat \ {0}
    BY <1>1, ScriptsAssumption DEF WellFormed
  <2> QED
    BY <2>1, PlayersAssumption DEF Fresh, Sound, Battles, NoMobs, Several
<1> HIDE DEF new
<1> DEFINE b == Effect(new, o, 0)
           a == Acted(new, o, 0)
<1>4. Sound(b) /\ Proper(o)
  BY <1>1, <1>3, EffectSound, Tables
<1>5. /\ a.field = IF Ends(new, o) THEN NoMobs
                   ELSE Landing(IF "wipe" \in o.does THEN NoMobs ELSE new.field, o.mobs)
      /\ a.paid = IF "prize" \in o.does THEN Upto(new.paid + 1) ELSE new.paid
      /\ a.ending = (new.ending \/ Ends(new, o))
      /\ a.tasks = schedule(new.tasks, o.tasks)
  BY ActedFields
<1>6. \/ b = a
      \/ /\ b.field = NoMobs /\ b.tasks = [t \in DOMAIN new.tasks |-> 0]
         /\ b.ending = a.ending /\ b.paid = a.paid
  BY <1>1, <1>3, <1>4, EffectForms
<1> HIDE DEF a, b
<1>7. Fair(b, dying, Nothing)
  <2>1. b.paid = 0
    <3>1. "prize" \notin o.does
      BY DEF PaysForBosses
    <3> QED
      BY <1>3, <1>5, <1>6, <3>1
  <2>2. ~Brings(Nothing) /\ "prize" \notin Nothing.does /\ ~Declares(Nothing)
    BY PseudoOutcomes
  <2>3. ~BossIn(dying) /\ \A k \in Kinds : dying[k] = 0
    BY <1>1, NoBossInNoMobs DEF NoMobs
  <2>4. b.ending => b.field = NoMobs
    BY <1>3, <1>5, <1>6
  <2>5. CASE ~Early
    <3>1. Late /\ ~Brings(o) /\ ~Declares(o)
      BY <1>1, <2>5 DEF Late
    <3>2. ~b.ending
      BY <1>3, <1>5, <1>6, <3>1 DEF Ends, Declares
    <3>3. b.tasks["start"] <= 1
      <4>1. "start" \in DOMAIN new.tasks /\ new.tasks["start"] = 0
        BY <1>3, <3>1 DEF Late
      <4>2. a.tasks["start"] <= 1
        BY <1>5, <4>1 DEF schedule, Upto, Several
      <4> QED
        BY <1>6, <4>1, <4>2
    <3>4. ~BossIn(b.field)
      <4> SUFFICES ASSUME NEW k \in Bosses PROVE ~(b.field[k] > 0)
        BY DEF BossIn
      <4>1. k \in Kinds /\ NoMobs[k] = 0 /\ DOMAIN NoMobs = Kinds
        BY DEF Bosses, Kinds, NoMobs
      <4>2. {i \in DOMAIN o.mobs : o.mobs[i] = k} = {}
        BY <3>1 DEF Brings
      <4>3. Cardinality({i \in DOMAIN o.mobs : o.mobs[i] = k}) = 0
        BY <4>2, FS_EmptySet
      <4>4. Landing(NoMobs, o.mobs)[k] = 0
        BY <4>1, <4>3 DEF Landing, Upto, Several
      <4>5. b.field = NoMobs \/ b.field = Landing(NoMobs, o.mobs)
        BY <1>3, <1>5, <1>6
      <4> QED
        BY <4>1, <4>4, <4>5
    <3> QED
      BY <2>1, <2>2, <2>3, <3>2, <3>3, <3>4 DEF Fair
  <2>6. CASE Early
    BY <2>1, <2>2, <2>3, <2>4, <2>6, NoBossInNoMobs DEF Fair, Ahead
  <2> QED
    BY <2>5, <2>6
<1>8. PICK e \in At(script.playerEntry, b.mem) :
          battle = IF n = 1 THEN Effect(b, e, 1) ELSE Effect(Effect(b, e, 1), e, 2)
  BY <1>2 DEF b, new
<1>9. e \in Calls /\ Plain(e)
  <2>1. b.mem \in 1 .. Memories(script)
    BY <1>4 DEF Sound, Battles
  <2> QED
    BY <1>1, <1>8, <2>1, OthersArePlain DEF Others, Calls
<1> DEFINE b1 == Effect(b, e, 1)
<1>10. Fair(b1, dying, Nothing) /\ Sound(b1)
  BY <1>1, <1>4, <1>7, <1>9, PlainIsApt, EffectFair, EffectSound, Tables
<1> HIDE DEF b1
<1>11. Fair(Effect(b1, e, 2), dying, Nothing)
  BY <1>1, <1>9, <1>10, PlainIsApt, EffectFair
<1> QED
  BY <1>1, <1>8, <1>10, <1>11 DEF b1

(* Only what prizes depend on counts.                                      *)
LEMMA FairAlike ==
    ASSUME NEW b, NEW e, NEW d, NEW o, Fair(b, d, o), e.field = b.field, e.tasks = b.tasks,
           e.paid = b.paid, e.ending = b.ending, e.disposed = b.disposed
    PROVE  Fair(e, d, o)
BY DEF Fair, Ahead, Over

LEMMA StepFair ==
    ASSUME IndInv, PaysForBosses, ~overlap, Fair(battle, dying, call.out), Next, ~overlap'
    PROVE  Fair(battle', dying', call'.out)
<1> USE DEF Several
<1>6. /\ PaysForBosses /\ Fair(battle, dying, call.out) /\ PaysAtTheEnd /\ (Late \/ Early)
      /\ script \in Scripts /\ Sound(battle) /\ battle \in Battles
      /\ battle.mem \in 1 .. Memories(script)
      /\ dying \in [Kinds -> 0 .. Several] /\ Bosses \subseteq Kinds \ {0}
      /\ call.out \in Calls
  BY DEF IndInv, Sound, Battles, Bosses, Kinds, PaysForBosses
<1>7. ASSUME NEW k \in Kinds, kill(k) PROVE Fair(battle', dying', call'.out)
  <2>0. call = None /\ ~\E j \in Kinds : dying[j] > 0
    BY <1>7 DEF kill
  <2>1. PICK n \in OneLess(battle.field[k]), times \in {1, 2} :
           /\ \E e \in FoundEmpty([battle EXCEPT !.field[k] = n]) :
                 battle' \in IF times = 1 THEN {e} ELSE FoundEmpty(e)
           /\ dying' = [dying EXCEPT ![k] = dying[k] + times]
           /\ overlap' = (overlap \/ times = 2 \/ call # None \/ \E i \in Kinds : dying[i] > 0)
    BY <1>6, <1>7 DEF kill
  <2>2. times = 1
    BY <2>1
  <2> DEFINE b == [battle EXCEPT !.field[k] = n]
  <2>3. PICK o \in {Nothing} \cup At(script.allMonstersKilled, b.mem) : battle' = Effect(b, o, 0)
    BY <2>1, <2>2 DEF FoundEmpty
  <2>4. n \in 0 .. Several /\ battle.field[k] > 0 /\ ~battle.disposed
    BY <1>6, <1>7, <2>1 DEF OneLess, kill, Battles
  <2>5. /\ Sound(b) /\ b.tasks = battle.tasks /\ b.paid = battle.paid /\ b.ending = battle.ending
        /\ b.field = [battle.field EXCEPT ![k] = n] /\ b.disposed = battle.disposed
        /\ b.mem = battle.mem
    BY <1>6, <2>4 DEF Sound, Battles
  <2> HIDE DEF b
  <2>6. o \in Calls /\ Plain(o)
    BY <1>6, <2>3, <2>5, OthersArePlain, NothingIsPlain DEF Others, Calls
  <2>7. call'.out = Nothing /\ call.out = Nothing
    BY <1>7, <2>0 DEF kill, None
  <2>8. dying' = [dying EXCEPT ![k] = 1] /\ \A j \in Kinds : dying[j] = 0
    <3>1. \A j \in Kinds : dying[j] = 0
      BY <1>6, <2>0
    <3>2. dying[k] + times = 1
      BY <2>2, <3>1
    <3> QED
      BY <2>1, <3>1, <3>2
  <2>9. Fair(b, dying', Nothing)
    <3>1. \A i, j \in Kinds : dying'[i] > 0 /\ dying'[j] > 0 => i = j /\ dying'[j] = 1
      BY <1>6, <2>8
    <3>2. BossIn(dying') => BossIn(battle.field)
      BY <1>6, <2>4, <2>8 DEF BossIn
    <3>3. BossIn(b.field) => BossIn(battle.field)
      BY <1>6, <2>4, <2>5 DEF BossIn, Battles
    <3>4. "prize" \notin Nothing.does /\ "end" \notin Nothing.does
      BY PseudoOutcomes
    <3>5. Ahead(b, Nothing) => Ahead(battle, Nothing)
      BY <2>5 DEF Ahead
    <3>6. battle.paid = 1 => battle.ending
      BY <1>6, <2>4, <2>7, <3>4 DEF Fair, Over
    <3> QED
      BY <1>6, <2>5, <2>7, <3>1, <3>2, <3>3, <3>4, <3>5, <3>6 DEF Fair, Over
  <2>10. Fair(Effect(b, o, 0), dying', Nothing)
    BY <1>6, <2>5, <2>6, <2>9, PlainIsApt, EffectFair
  <2> QED
    BY <2>3, <2>7, <2>10
<1>8. ASSUME NEW k \in Kinds, monsterKilled(k) PROVE Fair(battle', dying', call'.out)
  <2>1. PICK o \in At(Killed(k), battle.mem), dead \in BOOLEAN : Invoke(battle, o, dead, 0)
    BY <1>8 DEF monsterKilled
  <2>2. o \in Callable /\ o \in Open(Killed(k)) /\ ~battle.disposed
    BY <1>6, <1>8, <2>1, Rows, Called DEF Open, monsterKilled
  <2>3. dying[k] > 0 /\ dying' = [dying EXCEPT ![k] = @ - 1]
    BY <1>8 DEF monsterKilled
  <2>4. /\ "prize" \notin call.out.does
        /\ \A j \in Kinds : dying'[j] = 0
    BY <1>6, <2>3 DEF Fair
  <2>5. ~BossIn(dying')
    BY <1>6, <2>4 DEF BossIn
  <2>6. Fair(battle, dying', call.out)
    BY <1>6, <2>4, <2>5 DEF Fair
  <2>7. CASE k \in Bosses
    <3>1. BossIn(dying)
      BY <2>3, <2>7 DEF BossIn
    <3>2. ~Ahead(battle, call.out) /\ battle.paid = 0
      <4>1. battle.paid \in 0 .. 2
        BY <1>6 DEF Battles
      <4> QED
        BY <1>6, <3>1, <4>1 DEF Fair
    <3>3. ~Brings(o)
      BY <1>6, <2>2, <2>7 DEF Killed, Bosses, PaysForBosses, Early, Late
    <3>4. Apt(battle, dying', call.out, o)
      BY <2>4, <2>6, <3>2, <3>3 DEF Apt
    <3> QED
      BY <1>6, <2>1, <2>2, <3>4, InvokeFair
  <2>8. CASE k \notin Bosses
    <3>1. Plain(o)
      <4>1. CASE k = 0
        BY <1>6, <2>2, <4>1 DEF Killed, PaysForBosses, Early, Late, Others, Plain
      <4>2. CASE k # 0
        <5>1. k \in 1 .. Len(script.kills) /\ Killed(k) = script.kills[k]
          BY <4>2 DEF Kinds, Killed
        <5> QED
          BY <1>6, <2>2, <2>8, <5>1 DEF PaysForBosses, Early, Late, Bosses, Plain
      <4> QED
        BY <4>1, <4>2
    <3>2. Apt(battle, dying', call.out, o)
      BY <2>6, <3>1, PlainIsApt
    <3> QED
      BY <1>6, <2>1, <2>2, <3>2, InvokeFair
  <2> QED
    BY <2>7, <2>8
<1>9. ASSUME NEW k \in Kinds, respawn(k) PROVE Fair(battle', dying', call'.out)
  <2>1. /\ battle' = [battle EXCEPT !.field[k] = @ + 1] /\ ~battle.ending
        /\ dying' = dying /\ call' = call
        /\ k \in script.wild \/ k = 0
    BY <1>9 DEF respawn
  <2>2. /\ battle'.tasks = battle.tasks /\ battle'.paid = battle.paid /\ battle'.ending = battle.ending
        /\ battle'.field = [battle.field EXCEPT ![k] = @ + 1] /\ battle'.disposed = battle.disposed
    BY <1>6, <2>1 DEF Battles
  <2>3. ~Early => k \notin Bosses
    BY <1>6, <2>1 DEF Late
  <2>4. ~Early /\ BossIn(battle'.field) => BossIn(battle.field)
    BY <1>6, <2>2, <2>3 DEF BossIn, Battles
  <2>5. Ahead(battle', call.out) => Ahead(battle, call.out) /\ ~Early
    BY <2>2 DEF Ahead
  <2> QED
    BY <1>6, <2>1, <2>2, <2>4, <2>5 DEF Fair, Over
<1>10. ASSUME NEW t \in DOMAIN battle.tasks, RunTask(t) PROVE Fair(battle', dying', call'.out)
  <2>1. PICK n \in OneLess(battle.tasks[t]), o \in At(script.tasks[t], battle.mem) :
           Invoke([battle EXCEPT !.tasks[t] = n], o, FALSE, 0)
    BY <1>10 DEF RunTask
  <2>2. /\ t \in DOMAIN script.tasks /\ n \in 0 .. Several
        /\ (battle.tasks[t] = 1 => n = 0) /\ battle.tasks[t] \in 1 .. 2
    BY <1>6, <1>10, <2>1 DEF OneLess, RunTask, Battles
  <2> DEFINE b == [battle EXCEPT !.tasks[t] = n]
  <2>3. /\ Sound(b) /\ b.field = battle.field /\ b.paid = battle.paid /\ b.ending = battle.ending
        /\ b.tasks = [battle.tasks EXCEPT ![t] = n] /\ b.disposed = battle.disposed /\ ~b.disposed
    BY <1>6, <1>10, <2>2 DEF Sound, Battles, RunTask
  <2>4. o \in Callable /\ o \in Open(script.tasks[t])
    BY <1>6, <2>1, <2>2, Rows, Called DEF Open
  <2>5. Invoke(b, o, FALSE, 0) /\ dying' = dying
    BY <1>10, <2>1 DEF RunTask
  <2> HIDE DEF b
  <2>6. /\ "prize" \notin o.does /\ (t # "start" => Plain(o)) /\ (Early => Plain(o))
        /\ (~Early => ~Declares(o))
    BY <1>6, <2>2, <2>4 DEF PaysForBosses, Plain, Early, Late
  <2>7. CASE t # "start" \/ Early
    <3>1. ~Early => b.tasks["start"] = battle.tasks["start"]
      BY <1>6, <2>3, <2>7 DEF Battles, Late
    <3>2. Ahead(b, call.out) => Ahead(battle, call.out)
      BY <3>1 DEF Ahead
    <3>3. Fair(b, dying, call.out)
      BY <1>6, <2>3, <3>1, <3>2 DEF Fair, Over
    <3>4. Apt(b, dying, call.out, o)
      BY <2>6, <2>7, <3>3, PlainIsApt
    <3> QED
      BY <1>6, <2>3, <2>4, <2>5, <3>4, InvokeFair
  <2>8. CASE t = "start" /\ ~Early
    <3>1. battle.tasks["start"] = 1 /\ n = 0
      BY <1>6, <2>2, <2>8 DEF Fair
    <3>2. b.tasks["start"] = 0 /\ ~Brings(call.out) /\ Ahead(battle, call.out)
      BY <1>6, <2>2, <2>3, <2>8, <3>1 DEF Fair, Ahead, Battles
    <3>3. ~Ahead(b, call.out)
      BY <3>2 DEF Ahead
    <3>4. ~battle.ending /\ ~BossIn(battle.field) /\ ~BossIn(dying)
      BY <1>6, <3>2 DEF Fair
    <3>5. Fair(b, dying, call.out)
      BY <1>6, <2>3, <3>2, <3>3, <3>4 DEF Fair, Over
    <3>6. Apt(b, dying, call.out, o)
      BY <2>3, <2>6, <2>8, <3>3, <3>4, <3>5 DEF Apt
    <3> QED
      BY <1>6, <2>3, <2>4, <2>5, <3>6, InvokeFair
  <2> QED
    BY <2>7, <2>8
<1>11. ASSUME scheduledTimeout PROVE Fair(battle', dying', call'.out)
  <2> DEFINE b == [battle EXCEPT !.timer = "off"]
  <2>1. PICK o \in At(script.scheduledTimeout, battle.mem) : Invoke(b, o, FALSE, 0)
    BY <1>11 DEF scheduledTimeout
  <2>2. o \in Callable /\ Plain(o)
    BY <1>6, <2>1, OthersArePlain DEF Others
  <2>3. /\ Sound(b) /\ b.field = battle.field /\ b.paid = battle.paid /\ b.ending = battle.ending
        /\ b.tasks = battle.tasks /\ b.disposed = battle.disposed /\ ~b.disposed
    BY <1>6, <1>11 DEF Sound, Battles, scheduledTimeout
  <2>4. dying' = dying
    BY <1>11 DEF scheduledTimeout
  <2> HIDE DEF b
  <2>5. Apt(b, dying, call.out, o)
    BY <1>6, <2>2, <2>3, FairAlike, PlainIsApt
  <2> QED
    BY <1>6, <2>1, <2>2, <2>3, <2>4, <2>5, InvokeFair
<1>12. ASSUME ClockRings \/ dismissEventTimer PROVE Fair(battle', dying', call'.out)
  <2>1. /\ battle'.field = battle.field /\ battle'.paid = battle.paid /\ battle'.ending = battle.ending
        /\ battle'.tasks = battle.tasks /\ battle'.disposed = battle.disposed
        /\ dying' = dying /\ call' = call
    BY <1>6, <1>12 DEF ClockRings, dismissEventTimer, Battles
  <2> QED
    BY <1>6, <2>1, FairAlike
<1>13. ASSUME NEW h \in Exits, PlayerActs(h) PROVE Fair(battle', dying', call'.out)
  <2>1. PICK o \in At(script[h], battle.mem), p \in battle.inside :
           Invoke(battle, o, FALSE, IF "leave" \in o.does THEN p ELSE 0)
    BY <1>13 DEF PlayerActs
  <2>2. o \in Callable /\ Plain(o)
    BY <1>6, <2>1, OthersArePlain DEF Others
  <2>3. dying' = dying /\ ~battle.disposed
    BY <1>13 DEF PlayerActs
  <2>4. Apt(battle, dying, call.out, o)
    BY <1>6, <2>2, PlainIsApt
  <2> QED
    BY <1>6, <2>1, <2>2, <2>3, <2>4, InvokeFair
<1>14. ASSUME Resume PROVE Fair(battle', dying', call'.out)
  <2>1. battle' \in Results(battle, call) /\ call'.out = Nothing /\ dying' = dying
    BY <1>14 DEF Resume, None
  <2>2. CASE "end" \in call.out.does
    <3>1. call.out = Ending
      BY <1>6, <2>2, CallableDoes, PseudoOutcomes DEF Calls
    <3>2. Fair(Effect(battle, Ending, call.who), dying, Nothing)
      BY <1>6, <3>1, EndingFair
    <3> QED
      BY <1>6, <2>1, <3>1, <3>2, ResultsFair
  <2>3. CASE "end" \notin call.out.does
    <3>1. Apt(battle, dying, Nothing, call.out)
      BY <1>6, <2>3, PendingIsApt
    <3>2. Fair(Effect(battle, call.out, call.who), dying, Nothing)
      BY <1>6, <3>1, EffectFair
    <3> QED
      BY <1>6, <2>1, <3>2, ResultsFair
  <2> QED
    BY <2>2, <2>3
<1> QED
  BY <1>7, <1>8, <1>9, <1>10, <1>11, <1>12, <1>13, <1>14 DEF Next

LEMMA NextFair == IndInv /\ FairInv /\ [Next]_vars => FairInv'
<1> SUFFICES ASSUME IndInv, FairInv, [Next]_vars, PaysForBosses', ~overlap'
             PROVE  Fair(battle, dying, call.out)'
  BY DEF FairInv
<1>1. script' = script /\ ~overlap
  <2>1. CASE UNCHANGED vars
    BY <2>1 DEF vars
  <2>2. CASE Next
    <3>1. script' = script
      BY <2>2, ScriptStays
    <3>2. ASSUME NEW k \in Kinds, kill(k) PROVE ~overlap
      BY <3>2 DEF kill
    <3>3. overlap' = overlap \/ \E k \in Kinds : kill(k)
      BY <2>2 DEF Next, monsterKilled, respawn, RunTask, scheduledTimeout, ClockRings,
                  dismissEventTimer, PlayerActs, Resume
    <3> QED
      BY <3>1, <3>2, <3>3
  <2> QED
    BY <2>1, <2>2
<1>2. /\ PaysForBosses' <=> PaysForBosses
      /\ Early' <=> Early
      /\ Bosses' = Bosses /\ Kinds' = Kinds
  BY <1>1 DEF PaysForBosses, PaysAtTheEnd, Late, Early, Callable, Bosses, Brings, Kinds
<1>3. Fair(battle, dying, call.out)
  BY <1>1, <1>2 DEF FairInv
<1>4. Fair(battle', dying', call'.out)
  <2>1. CASE Next
    BY <1>1, <1>2, <1>3, <2>1, StepFair
  <2>2. CASE UNCHANGED vars
    BY <1>3, <2>2 DEF vars
  <2> QED
    BY <2>1, <2>2
<1> QED
  BY <1>2, <1>4 DEF Fair, Ahead, BossIn, Brings, Over

(* A script that pays for bosses pays once: whatever deaths, runs of its   *)
(* functions, exits and timers there are and however long they take to     *)
(* have their effects, unless a mob dies twice or while a death or a call  *)
(* is still under way.                                                     *)
THEOREM BossesPayOnce == Spec /\ PaysForBosses => []PaidOnce
<1>1. Init /\ PaysForBosses => FairInv /\ PaysForBosses
  BY InitFair DEF FairInv
<1>2. IndInv /\ PaysForBosses /\ [Next]_vars => PaysForBosses'
  <2> SUFFICES ASSUME PaysForBosses, [Next]_vars PROVE PaysForBosses'
    OBVIOUS
  <2>1. script' = script
    BY ScriptStays DEF vars
  <2> QED
    BY <2>1 DEF PaysForBosses, PaysAtTheEnd, Late, Early, Callable, Bosses, Brings
<1>3. IndInv /\ FairInv /\ PaysForBosses => PaidOnce
  <2> SUFFICES ASSUME IndInv, FairInv, PaysForBosses, battle.paid > 1, ~overlap PROVE FALSE
    BY DEF PaidOnce
  <2>1. battle.paid <= 1 /\ battle.paid \in 0 .. 2
    BY DEF FairInv, Fair, IndInv, Sound, Battles, Several
  <2> QED
    BY <2>1
<1> QED
  BY <1>1, <1>2, <1>3, NextFair, IndInvHolds, PTL DEF Spec
===============================================================================

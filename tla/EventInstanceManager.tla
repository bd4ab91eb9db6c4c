------------------------ MODULE EventInstanceManager ------------------------
(***************************************************************************)
(* scripting/EventInstanceManager.java with the start and the end of an    *)
(* instance in scripting/EventManager.java: who is in which instance, and  *)
(* how session threads, the instance's timers and the sweepers close it.   *)
(*                                                                         *)
(* registerPlayer and dispose hold the instance's monitor, registerPlayer  *)
(* also while the script runs playerEntry.  unregisterPlayer, the timers   *)
(* and the sweepers hold nothing between seeing the instance empty and     *)
(* calling dispose.  A thread's place in such a call is kept per instance. *)
(*                                                                         *)
(* The script's functions are external: playerExit calls exitPlayer and    *)
(* scheduledTimeout calls exitParty, as the scripts under src/scripts do;  *)
(* setup starts the event timer, or schedules start to do so later, most   *)
(* often behind a clock of createEventTimer, or does neither.              *)
(* A guarded call (invokeScriptFunction) tests disposed and runs in one    *)
(* step; the actions a script takes may still come after a disposal.       *)
(***************************************************************************)
EXTENDS Integers

CONSTANTS
    Player,
    Instance,   \* the instances the scripts' setup functions may create
    None,       \* no player, no instance
    MaxClosers  \* bound: threads counted between seeing it empty and dispose

ASSUME ClosersAssumption == MaxClosers \in Nat
ASSUME NoneAssumption == None \notin Player /\ None \notin Instance

VARIABLES
    phase,          \* per instance: unborn, setup, joining or started
    starter,        \* who called startPlayerInstance
    toRegister,     \* registerGroup: members still to be registered
    chars,          \* the map of the same name
    eventInstance,  \* MapleCharacter.eventInstance
    entering,       \* whose playerEntry runs while the monitor is held
    leaving,        \* unregisterPlayer: taken out of chars, not finished
    expelling,      \* exitParty: players of its list not yet handled
    exitRead,       \* a session's copy of its eventInstance before exitPlayer
    closing,        \* how many threads saw it empty and will dispose
    disposed, ending,
    watching,       \* timer(): the poll is registered
    eventTimer,     \* what the pending future of this field is
    ringing,        \* timer lambdas begun: cancel(false) comes too late
    timing,         \* the field timer
    starting,       \* ess holds the script's start
    scheduled,      \* ess holds another script method
    kickJob, unloadJob,   \* the +5s and +10s jobs of dispose
    registered,     \* EventManager.instances and ChannelServer.allEvents
    late,           \* history: players put in while closing
    limitless,      \* history: no startEventTimer since the last loss of one
    orphanCalls     \* history: instances whose script ran once disposed

seats == <<chars, eventInstance>>
calls == <<toRegister, entering, leaving, expelling, exitRead>>
clock == <<eventTimer, ringing, timing, limitless>>
methods == <<starting, scheduled>>
timers == <<watching, clock, methods, kickJob, unloadJob>>
life == <<phase, starter, disposed, ending, registered>>
vars == <<phase, starter, toRegister, chars, eventInstance, entering, leaving,
          expelling, exitRead, closing, disposed, ending, watching, eventTimer,
          ringing, timing, starting, scheduled, kickJob, unloadJob, registered,
          late, limitless, orphanCalls>>

TypeOK ==
    /\ phase \in [Instance -> {"unborn", "setup", "joining", "started"}]
    /\ starter \in [Instance -> Player \cup {None}]
    /\ eventInstance \in [Player -> Instance \cup {None}]
    /\ exitRead \in [Player -> Instance \cup {None}]
    /\ entering \in [Instance -> Player \cup {None}]
    /\ toRegister \in [Instance -> SUBSET Player]
    /\ chars \in [Instance -> SUBSET Player]
    /\ leaving \in [Instance -> SUBSET Player]
    /\ expelling \in [Instance -> SUBSET Player]
    /\ late \in [Instance -> SUBSET Player]
    /\ closing \in [Instance -> 0..MaxClosers]
    /\ disposed \subseteq Instance
    /\ ending \subseteq Instance /\ watching \subseteq Instance
    /\ eventTimer \in [Instance -> {"none", "clock", "event"}]
    /\ ringing \in [Instance -> SUBSET {"clock", "event"}]
    /\ timing \subseteq Instance /\ limitless \subseteq Instance
    /\ starting \subseteq Instance /\ scheduled \subseteq Instance
    /\ kickJob \subseteq Instance /\ unloadJob \subseteq Instance
    /\ registered \subseteq Instance /\ orphanCalls \subseteq Instance

Init ==
    /\ phase = [i \in Instance |-> "unborn"]
    /\ starter = [i \in Instance |-> None]
    /\ eventInstance = [p \in Player |-> None]
    /\ exitRead = [p \in Player |-> None]
    /\ entering = [i \in Instance |-> None]
    /\ toRegister = [i \in Instance |-> {}]
    /\ chars = [i \in Instance |-> {}]
    /\ leaving = [i \in Instance |-> {}]
    /\ expelling = [i \in Instance |-> {}]
    /\ late = [i \in Instance |-> {}]
    /\ closing = [i \in Instance |-> 0]
    /\ disposed = {} /\ ending = {}
    /\ eventTimer = [i \in Instance |-> "none"]
    /\ ringing = [i \in Instance |-> {}]
    /\ timing = {} /\ limitless = {}
    /\ watching = {} /\ starting = {} /\ scheduled = {}
    /\ kickJob = {} /\ unloadJob = {} /\ registered = {} /\ orphanCalls = {}

(* getPlayers: nobody once disposed. *)
getPlayers(i) == IF i \in disposed THEN {} ELSE chars[i]

(* The test every closer makes before it calls dispose without a lock. *)
SeenEmpty_AnyState(i) == i \notin disposed
SeenEmpty(i) == i \notin disposed /\ getPlayers(i) = {}

(* One more thread is about to call dispose. *)
WillDispose(i) ==
    closing' = [closing EXCEPT ![i] = IF @ < MaxClosers THEN @ + 1 ELSE @]

-----------------------------------------------------------------------------
(* The one timer field.  A future that is replaced or dismissed is         *)
(* cancelled, but a lambda that has begun goes on and dismisses whatever   *)
(* future it then finds in the field.                                      *)

(* A time limit is on its way: its future is pending, or its lambda has    *)
(* begun and will find the flag set.                                       *)
HasLimit(i) == eventTimer[i] = "event" \/ ("event" \in ringing[i] /\ i \in timing)

dismissEventTimer(i) ==
    /\ eventTimer' = [eventTimer EXCEPT ![i] = "none"]
    /\ timing' = timing \ {i}

startEventTimer_ThenDismiss(i) == dismissEventTimer(i) /\ limitless' = limitless \ {i}
startEventTimer(i) ==
    /\ eventTimer' = [eventTimer EXCEPT ![i] = "event"]
    /\ timing' = timing \cup {i}
    /\ limitless' = limitless \ {i}

(* Called by setup only: no time limit is there to be lost. *)
createEventTimer(i) ==
    /\ eventTimer' = [eventTimer EXCEPT ![i] = "clock"]
    /\ timing' = timing \ {i}
    /\ UNCHANGED limitless

(* What setup does about time: the limit at once, start later with a clock *)
(* or without one, or nothing at all.                                      *)
SetTimers(i) ==
    \/ startEventTimer(i) /\ UNCHANGED starting
    \/ createEventTimer(i) /\ starting' = starting \cup {i}
    \/ starting' = starting \cup {i} /\ UNCHANGED <<eventTimer, timing, limitless>>
    \/ limitless' = limitless \cup {i} /\ UNCHANGED <<eventTimer, timing, starting>>

-----------------------------------------------------------------------------
(* Starting: the caller's check of eventInstance, the script's setup with  *)
(* newInstance and startEventTimer, register and startEvent.               *)

(* p's thread runs startPlayerInstance; its group had no event when the    *)
(* script asked getEligibleParty.                                          *)
startPlayerInstance(p, group, i) ==
    /\ eventInstance[p] = None
    /\ \A q \in group : eventInstance[q] = None
    /\ \A j \in Instance : starter[j] = p => phase[j] = "started"
    /\ phase[i] = "unborn"
    /\ phase' = [phase EXCEPT ![i] = "setup"]
    /\ starter' = [starter EXCEPT ![i] = p]
    /\ toRegister' = [toRegister EXCEPT ![i] = group \cup {p}]
    /\ registered' = registered \cup {i}
    /\ watching' = watching \cup {i}
    /\ SetTimers(i)
    /\ UNCHANGED <<disposed, ending, seats, entering, leaving, expelling, exitRead, closing,
                   ringing, scheduled, kickJob, unloadJob, late, orphanCalls>>

(* setup throws after newInstance: createInstance returns nothing. *)
FailSetup(i) ==
    /\ phase[i] = "setup"
    /\ phase' = [phase EXCEPT ![i] = "started"]
    /\ toRegister' = [toRegister EXCEPT ![i] = {}]
    /\ UNCHANGED <<starter, disposed, ending, registered, seats, entering, leaving, expelling,
                   exitRead, timers, closing, late, orphanCalls>>

registerGroup(i) ==
    /\ phase[i] = "setup"
    /\ phase' = [phase EXCEPT ![i] = "joining"]
    /\ toRegister' = [toRegister EXCEPT ![i] = IF i \in disposed THEN {} ELSE @]
    /\ UNCHANGED <<starter, disposed, ending, registered, seats, entering, leaving, expelling,
                   exitRead, timers, closing, late, orphanCalls>>

(* registerPlayer enters the monitor.  Nothing is put once disposed. *)
MayEnter_Unchecked(i, p) == p \notin chars[i]
MayEnter(i, p) == i \notin disposed /\ p \notin chars[i]

registerPlayer(i, p) ==
    /\ phase[i] = "joining"
    /\ p \in toRegister[i]
    /\ entering[i] = None
    /\ toRegister' = [toRegister EXCEPT ![i] = @ \ {p}]
    /\ \/ /\ MayEnter(i, p)
          /\ chars' = [chars EXCEPT ![i] = @ \cup {p}]
          /\ eventInstance' = [eventInstance EXCEPT ![p] = i]
          /\ entering' = [entering EXCEPT ![i] = p]
          /\ late' = [late EXCEPT ![i] = IF closing[i] > 0 THEN @ \cup {p} ELSE @]
       \/ ~MayEnter(i, p) /\ UNCHANGED <<seats, entering, late>>
    /\ UNCHANGED <<life, leaving, expelling, exitRead, timers, closing, orphanCalls>>

(* playerEntry returns and the monitor is released; the script may have    *)
(* scheduled one of its methods.                                           *)
PlayerEntry(i) ==
    /\ entering[i] # None
    /\ entering' = [entering EXCEPT ![i] = None]
    /\ \/ UNCHANGED scheduled
       \/ i \notin disposed /\ scheduled' = scheduled \cup {i}
    /\ orphanCalls' = IF i \in disposed THEN orphanCalls \cup {i} ELSE orphanCalls
    /\ UNCHANGED <<life, seats, toRegister, leaving, expelling, exitRead, closing, watching, clock,
                   starting, kickJob, unloadJob, late>>

startEvent(i) ==
    /\ phase[i] = "joining"
    /\ toRegister[i] = {}
    /\ entering[i] = None
    /\ phase' = [phase EXCEPT ![i] = "started"]
    /\ UNCHANGED <<starter, disposed, ending, registered, seats, calls, timers, closing, late, orphanCalls>>

-----------------------------------------------------------------------------
(* Leaving. *)

(* unregisterPlayer, first part: chars.remove. *)
Without_NullValue(i, p) == (chars[i] \ {p}) \cup {None}
Without(i, p) == chars[i] \ {p}

Detach(i, p) ==
    /\ chars' = [chars EXCEPT ![i] = Without(i, p)]
    /\ leaving' = [leaving EXCEPT ![i] = IF p \in chars[i] THEN @ \cup {p} ELSE @]
    /\ IF p \notin chars[i] /\ SeenEmpty(i) THEN WillDispose(i) ELSE UNCHANGED closing

ClearField_Forgotten(p) == UNCHANGED eventInstance
ClearField(p) == eventInstance' = [eventInstance EXCEPT ![p] = None]

(* unregisterPlayer, second part: the player's field is cleared and the    *)
(* instance is looked at again.                                            *)
unregisterPlayer(i, p) ==
    /\ p \in leaving[i]
    /\ leaving' = [leaving EXCEPT ![i] = @ \ {p}]
    /\ ClearField(p)
    /\ IF SeenEmpty(i) THEN WillDispose(i) ELSE UNCHANGED closing
    /\ UNCHANGED <<life, chars, toRegister, entering, expelling, exitRead, timers, late, orphanCalls>>

(* MapleClient's disconnect, MaplePortal and Start test the player's field *)
(* and then call exitPlayer on what they read.                             *)
ReadEventInstance(p) ==
    /\ eventInstance[p] # None
    /\ exitRead[p] = None
    /\ exitRead' = [exitRead EXCEPT ![p] = eventInstance[p]]
    /\ UNCHANGED <<life, seats, toRegister, entering, leaving, expelling, timers, closing, late, orphanCalls>>

(* exitPlayer(chr) runs the script's playerExit whatever disposed says. *)
exitPlayer(p) ==
    /\ exitRead[p] # None
    /\ Detach(exitRead[p], p)
    /\ exitRead' = [exitRead EXCEPT ![p] = None]
    /\ orphanCalls' = orphanCalls \cup ({exitRead[p]} \cap disposed)
    /\ UNCHANGED <<life, eventInstance, toRegister, entering, expelling, timers, late>>

(* One turn of exitParty's loop: exitPlayer(chr, map). *)
exitParty(i, p) ==
    /\ p \in expelling[i]
    /\ expelling' = [expelling EXCEPT ![i] = @ \ {p}]
    /\ Detach(i, p)
    /\ UNCHANGED <<life, eventInstance, toRegister, entering, exitRead, timers, late, orphanCalls>>

-----------------------------------------------------------------------------
(* Timers and sweepers. *)

(* victory and defeat, called by the script of a killed monster. *)
victory(i) ==
    /\ phase[i] = "started"
    /\ i \notin ending
    /\ ending' = ending \cup {i}
    /\ startEventTimer(i)
    /\ UNCHANGED <<phase, starter, disposed, registered, seats, calls, closing, watching, ringing,
                   methods, kickJob, unloadJob, late, orphanCalls>>

(* ess calls start, which starts the time limit of a known instance. *)
RunStart(i) ==
    /\ i \in starting
    /\ starting' = starting \ {i}
    /\ IF i \in registered \ disposed
       THEN startEventTimer(i)
       ELSE UNCHANGED <<eventTimer, timing, limitless>>
    /\ UNCHANGED <<life, seats, calls, closing, watching, ringing, scheduled, kickJob, unloadJob,
                   late, orphanCalls>>

(* stopEventTimer, called by a script once the event is cleared. *)
stopEventTimer(i) ==
    /\ phase[i] = "started"
    /\ eventTimer[i] # "none"
    /\ eventTimer' = [eventTimer EXCEPT ![i] = "none"]
    /\ limitless' = IF eventTimer[i] = "event" THEN limitless \cup {i} ELSE limitless
    /\ UNCHANGED <<life, seats, calls, closing, watching, ringing, timing, methods, kickJob, unloadJob,
                   late, orphanCalls>>

(* The pending future is due and its lambda begins; a time limit takes     *)
(* minutes, the start has long returned.                                   *)
Ring(i) ==
    /\ eventTimer[i] # "none"
    /\ eventTimer[i] \notin ringing[i]
    /\ eventTimer[i] = "event" => phase[i] = "started"
    /\ ringing' = [ringing EXCEPT ![i] = @ \cup {eventTimer[i]}]
    /\ eventTimer' = [eventTimer EXCEPT ![i] = "none"]
    /\ UNCHANGED <<life, seats, calls, closing, watching, timing, limitless, methods, kickJob,
                   unloadJob, late, orphanCalls>>

(* The lambda of startEventTimer: nothing if the flag was reset meanwhile. *)
scheduledTimeout(i) ==
    /\ "event" \in ringing[i]
    /\ ringing' = [ringing EXCEPT ![i] = @ \ {"event"}]
    /\ \/ /\ i \in timing
          /\ dismissEventTimer(i)
          /\ expelling' = [expelling EXCEPT ![i] = @ \cup getPlayers(i)]
       \/ i \notin timing /\ UNCHANGED <<eventTimer, timing, expelling>>
    /\ UNCHANGED <<life, seats, toRegister, entering, leaving, exitRead, closing, watching, limitless,
                   methods, kickJob, unloadJob, late, orphanCalls>>

(* The lambda of createEventTimer, which may find a time limit by now. *)
ClockRunsOut(i) ==
    /\ "clock" \in ringing[i]
    /\ ringing' = [ringing EXCEPT ![i] = @ \ {"clock"}]
    /\ dismissEventTimer(i)
    /\ limitless' = IF HasLimit(i) THEN limitless \cup {i} ELSE limitless
    /\ UNCHANGED <<life, seats, calls, closing, watching, methods, kickJob, unloadJob, late, orphanCalls>>

(* A method handed to ess runs if the instance is still known; it may end  *)
(* the event.                                                              *)
RunScheduled(i) ==
    /\ i \in scheduled
    /\ scheduled' = scheduled \ {i}
    /\ \/ UNCHANGED expelling
       \/ /\ i \in registered \ disposed
          /\ expelling' = [expelling EXCEPT ![i] = @ \cup getPlayers(i)]
    /\ UNCHANGED <<life, seats, toRegister, entering, leaving, exitRead, closing, watching, clock,
                   starting, kickJob, unloadJob, late, orphanCalls>>

(* timer(): every five seconds until the instance is seen empty. *)
timer(i) ==
    /\ i \in watching
    /\ SeenEmpty(i)
    /\ WillDispose(i)
    /\ watching' = watching \ {i}
    /\ UNCHANGED <<life, seats, calls, clock, methods, kickJob, unloadJob, late, orphanCalls>>

(* BuffWorker and ChannelServer.disposeEvents go through allEvents. *)
Sweep(i) ==
    /\ i \in registered
    /\ SeenEmpty(i)
    /\ WillDispose(i)
    /\ UNCHANGED <<life, seats, calls, timers, late, orphanCalls>>

(* dispose enters the monitor, which no playerEntry holds.  getPlayers is  *)
(* already empty when the loops over it run, so nobody is sent out.        *)
MonitorFree(i) == entering[i] = None

MarkDisposed_Forgotten(i) == UNCHANGED disposed
MarkDisposed(i) == disposed' = disposed \cup {i}

CleanupJobs(i) ==
    /\ kickJob' = IF i \in disposed THEN kickJob ELSE kickJob \cup {i}
    /\ unloadJob' = IF i \in disposed THEN unloadJob ELSE unloadJob \cup {i}

dispose(i) ==
    /\ closing[i] > 0
    /\ MonitorFree(i)
    /\ closing' = [closing EXCEPT ![i] = @ - 1]
    /\ MarkDisposed(i)
    /\ watching' = watching \ {i}
    /\ eventTimer' = [eventTimer EXCEPT ![i] = IF i \in disposed THEN @ ELSE "none"]
    /\ CleanupJobs(i)
    /\ UNCHANGED <<phase, starter, ending, registered, seats, calls, ringing, timing, limitless, methods,
                   late, orphanCalls>>

(* After five seconds: ess.forceDispose and chars.clear. *)
KickJob(i) ==
    /\ i \in kickJob
    /\ kickJob' = kickJob \ {i}
    /\ scheduled' = scheduled \ {i}
    /\ starting' = starting \ {i}
    /\ chars' = [chars EXCEPT ![i] = {}]
    /\ UNCHANGED <<life, eventInstance, calls, watching, clock, unloadJob, closing, late, orphanCalls>>

(* After ten seconds: the maps go and the instance is forgotten. *)
UnloadJob(i) ==
    /\ i \in unloadJob
    /\ unloadJob' = unloadJob \ {i}
    /\ registered' = registered \ {i}
    /\ UNCHANGED <<phase, starter, disposed, ending, seats, calls, watching, clock, methods,
                   kickJob, closing, late, orphanCalls>>

-----------------------------------------------------------------------------
Next ==
    \/ \E p \in Player, group \in SUBSET Player, i \in Instance : startPlayerInstance(p, group, i)
    \/ \E i \in Instance : FailSetup(i) \/ registerGroup(i) \/ PlayerEntry(i) \/ startEvent(i)
    \/ \E i \in Instance, p \in Player : registerPlayer(i, p) \/ unregisterPlayer(i, p) \/ exitParty(i, p)
    \/ \E p \in Player : ReadEventInstance(p) \/ exitPlayer(p)
    \/ \E i \in Instance : victory(i) \/ RunStart(i) \/ RunScheduled(i) \/ stopEventTimer(i)
    \/ \E i \in Instance : Ring(i) \/ scheduledTimeout(i) \/ ClockRunsOut(i)
    \/ \E i \in Instance : timer(i) \/ Sweep(i) \/ dispose(i) \/ KickJob(i) \/ UnloadJob(i)

Spec == Init /\ [][Next]_vars

(* Calls under way return, the executors run what is due.  Players need    *)
(* not leave, win or start anything, and no sweeper is relied upon.        *)
Fairness == \A i \in Instance :
    /\ WF_vars(registerGroup(i)) /\ WF_vars(PlayerEntry(i)) /\ WF_vars(startEvent(i))
    /\ \A p \in Player : WF_vars(registerPlayer(i, p)) /\ WF_vars(unregisterPlayer(i, p)) /\ WF_vars(exitParty(i, p))
    /\ WF_vars(RunStart(i)) /\ WF_vars(Ring(i)) /\ WF_vars(scheduledTimeout(i)) /\ WF_vars(timer(i)) /\ WF_vars(dispose(i))
    /\ WF_vars(KickJob(i)) /\ WF_vars(UnloadJob(i))

FairSpec == Spec /\ Fairness

-----------------------------------------------------------------------------
(* A character that points to an instance is in its chars, or on its way   *)
(* out of it, until the +5s job clears the instance: nobody is left        *)
(* pointing to a running instance that no longer knows them.               *)
PointerHasSeat ==
    \A p \in Player, i \in Instance :
        eventInstance[p] = i => p \in chars[i] \cup leaving[i] \/ i \in disposed \ kickJob

(* The playerEntry of a disposed instance never runs: it is covered by the *)
(* monitor dispose needs, from the check of disposed until it returns.     *)
EntryIntoLiveInstance == \A i \in Instance : entering[i] # None => i \notin disposed

(* dispose was only ever called on an empty instance: a player inside a    *)
(* disposed one was registered between a closer's look and its dispose.    *)
DisposedWithPlayersOnlyByRace ==
    \A i \in disposed : chars[i] \subseteq late[i]

(* The cleanup jobs of an instance run once: whatever number of sessions,  *)
(* timers and sweepers found it empty, an instance that was unloaded has   *)
(* no job pending, and it stays unloaded.                                  *)
UnloadedOnce ==
    \A i \in disposed \ registered : i \notin unloadJob

(* An instance is forgotten by its EventManager and its channel only after *)
(* it was disposed, and is never known again.                              *)
ForgottenForGood ==
    [][\A i \in Instance : phase[i] # "unborn" /\ i \notin registered
            => i \in disposed /\ i \notin registered']_vars

(* Every event ends, also when its start failed halfway, the victory       *)
(* restarts its timer and nobody ever leaves on his own.  The exceptions   *)
(* are named: players may stay in an instance that has no time limit,      *)
(* because its script never set one, stopped it, or had it dismissed by    *)
(* the clock of createEventTimer that ran out while start replaced it.     *)
EveryEventEnds ==
    \A i \in Instance :
        i \in registered ~> i \notin registered \/ (i \in limitless /\ chars[i] # {})

(* What the comment on dispose says: no method of the event script is      *)
(* triggered after the instance was disposed.                              *)
NoScriptAfterDispose == orphanCalls = {}

-----------------------------------------------------------------------------
(* The strengthening that makes the safety properties inductive. *)

(* Nothing refers to an instance before newInstance made it. *)
UnbornUntouched ==
    \A i \in Instance : phase[i] = "unborn" =>
        /\ i \notin registered \cup disposed \cup watching
        /\ closing[i] = 0 /\ entering[i] = None
        /\ toRegister[i] = {} /\ chars[i] = {} /\ leaving[i] = {} /\ expelling[i] = {}
        /\ \A p \in Player : eventInstance[p] # i /\ exitRead[p] # i

(* A running instance is known, and the two jobs of dispose are pending    *)
(* only for a disposed one, the second until it is forgotten.              *)
CleanupOrder ==
    /\ kickJob \subseteq disposed
    /\ unloadJob \subseteq disposed \cap registered
    /\ \A i \in Instance : phase[i] # "unborn" => i \in registered \cup disposed

(* A thread about to dispose saw the instance empty. *)
ClosersSawEmpty ==
    \A i \in Instance : closing[i] > 0 => chars[i] \subseteq late[i]

IndInv ==
    /\ TypeOK
    /\ PointerHasSeat
    /\ EntryIntoLiveInstance
    /\ DisposedWithPlayersOnlyByRace
    /\ UnbornUntouched
    /\ CleanupOrder
    /\ ClosersSawEmpty
=============================================================================

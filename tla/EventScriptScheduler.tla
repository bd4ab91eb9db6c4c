------------------------ MODULE EventScriptScheduler ------------------------
(***************************************************************************)
(* scripting/EventScriptScheduler.java: the timer every event instance     *)
(* owns.  A periodic monitor task, driven by TimerManager, takes a copy of *)
(* the registered actions under schedulerLock, runs the overdue ones       *)
(* without the lock and removes what it ran under the lock again.          *)
(* register, cancel and dispose are jobs handed to ThreadManager's pool,   *)
(* so they take effect later and in any order.                             *)
(*                                                                         *)
(* schedulerLock is held across straight-line code that acquires no other  *)
(* lock, hence every critical section is one step.  Each Runnable handed   *)
(* to registerEntry is a fresh lambda (EventInstanceManager.schedule), so  *)
(* an Entry is submitted once.  A deadline is abstracted to whether it has *)
(* passed.                                                                 *)
(***************************************************************************)
EXTENDS Integers, FiniteSets

CONSTANTS
    Entry,      \* the Runnables handed to registerEntry
    Task,       \* ScheduledFutures; a cancelled, idle one may be reused
    NoTask,     \* schedulerTask == null
    Life,       \* ServerConstants.MOB_STATUS_MONITOR_LIFE
    MayThrow    \* the entries whose action may end in an unchecked exception

ASSUME LifeAssumption   == Life \in Nat \ {0}
ASSUME TaskAssumption   == NoTask \notin Task
ASSUME ThrowAssumption  == MayThrow \subseteq Entry

VARIABLES
    disposed, idleProcs,    \* the fields of the same name
    registeredEntries,      \* the keys of the map
    ripe,                   \* the entries whose deadline lies in the past
    schedulerTask,          \* the current future, or NoTask
    live,                   \* the futures TimerManager still repeats
    pass,                   \* per future: idle, before the lock, or running
    todo,                   \* overdue entries of the copy still to be run
    toRemove,               \* entries this pass has run
    registering, cancelling,    \* entries with a job queued in ThreadManager
    disposing, unlocking,   \* a dispose job, a disposeLocks call is under way
    collected,              \* LockCollector holds this scheduler's action
    submitted,              \* history: entries handed to registerEntry
    ran,                    \* history: entries run at least once
    cut                     \* history: of these, the ones whose last run was
                            \* in a pass an exception ended before the removal

control == <<disposed, idleProcs, schedulerTask, live>>
running == <<pass, todo, toRemove>>
jobs    == <<registering, cancelling, disposing, unlocking>>
history == <<submitted, ran, cut>>
vars == <<disposed, idleProcs, registeredEntries, ripe, schedulerTask, live,
          pass, todo, toRemove, registering, cancelling, disposing, unlocking,
          collected, submitted, ran, cut>>

TypeOK ==
    /\ disposed \in BOOLEAN
    /\ idleProcs \in 0..Life
    /\ registeredEntries \subseteq Entry
    /\ ripe \subseteq Entry
    /\ schedulerTask \in Task \cup {NoTask}
    /\ live \subseteq Task
    /\ pass \in [Task -> {"idle", "waiting", "running"}]
    /\ todo \in [Task -> SUBSET Entry]
    /\ toRemove \in [Task -> SUBSET Entry]
    /\ registering \subseteq Entry
    /\ cancelling \subseteq Entry
    /\ disposing \in BOOLEAN
    /\ unlocking \in BOOLEAN
    /\ collected \in BOOLEAN
    /\ submitted \subseteq Entry
    /\ ran \subseteq Entry
    /\ cut \subseteq ran

Init ==
    /\ disposed = FALSE
    /\ idleProcs = 0
    /\ registeredEntries = {}
    /\ ripe = {}
    /\ schedulerTask = NoTask
    /\ live = {}
    /\ pass = [t \in Task |-> "idle"]
    /\ todo = [t \in Task |-> {}]
    /\ toRemove = [t \in Task |-> {}]
    /\ registering = {}
    /\ cancelling = {}
    /\ disposing = FALSE
    /\ unlocking = FALSE
    /\ collected = FALSE
    /\ submitted = {}
    /\ ran = {}
    /\ cut = {}

-----------------------------------------------------------------------------
(* The callers: each only hands a job to the pool. *)

registerEntry(e) ==
    /\ e \notin submitted
    /\ submitted' = submitted \cup {e}
    /\ registering' = registering \cup {e}
    /\ UNCHANGED <<cancelling, disposing, unlocking, control, running, registeredEntries, ripe, collected, ran, cut>>

cancelEntry(e) ==
    /\ e \in submitted
    /\ cancelling' = cancelling \cup {e}
    /\ UNCHANGED <<registering, disposing, unlocking, control, running, history, registeredEntries, ripe, collected>>

dispose ==
    /\ disposing' = TRUE
    /\ UNCHANGED <<registering, cancelling, unlocking, control, running, history, registeredEntries, ripe, collected>>

(* schedulerTask.cancel(false); schedulerTask = null *)
StopTask_KeepsField == live' = live \ {schedulerTask} /\ UNCHANGED schedulerTask
StopTask ==
    /\ live' = live \ {schedulerTask}
    /\ schedulerTask' = NoTask

(* The critical section dispose() and forceDispose() share. *)
Shutdown_StaysOpen == StopTask /\ registeredEntries' = {} /\ UNCHANGED disposed
Shutdown ==
    /\ StopTask
    /\ registeredEntries' = {}
    /\ disposed' = TRUE

forceDispose ==
    /\ Shutdown
    /\ unlocking' = TRUE
    /\ UNCHANGED <<registering, cancelling, disposing, running, history, idleProcs, ripe, collected>>

-----------------------------------------------------------------------------
(* The jobs, each on some thread of the pool. *)

(* Have a task that will look at the entry: keep the current one, or start *)
(* one if none was started yet or idling had stopped it.                   *)
Register ==
    \E t \in {u \in Task : u \notin live /\ pass[u] = "idle"} :
        /\ schedulerTask' = t
        /\ live' = live \cup {t}

EnsureTask_AfterDispose ==
    \/ schedulerTask # NoTask /\ UNCHANGED <<schedulerTask, live>>
    \/ schedulerTask = NoTask /\ Register
EnsureTask ==
    \/ schedulerTask # NoTask /\ UNCHANGED <<schedulerTask, live>>
    \/ schedulerTask = NoTask /\ ~disposed /\ Register

RegisterJob(e) ==
    /\ e \in registering
    /\ registering' = registering \ {e}
    /\ idleProcs' = 0
    /\ \/ EnsureTask /\ registeredEntries' = registeredEntries \cup {e}
       \/ /\ schedulerTask = NoTask
          /\ disposed
          /\ UNCHANGED <<schedulerTask, live, registeredEntries>>
    /\ UNCHANGED <<cancelling, disposing, unlocking, running, history, disposed, ripe, collected>>

CancelJob(e) ==
    /\ e \in cancelling
    /\ cancelling' = cancelling \ {e}
    /\ registeredEntries' = registeredEntries \ {e}
    /\ UNCHANGED <<registering, disposing, unlocking, control, running, history, ripe, collected>>

DisposeJob ==
    /\ disposing
    /\ Shutdown
    /\ disposing' = FALSE
    /\ unlocking' = TRUE
    /\ UNCHANGED <<registering, cancelling, running, history, idleProcs, ripe, collected>>

disposeLocks ==
    /\ unlocking
    /\ unlocking' = FALSE
    /\ collected' = TRUE
    /\ UNCHANGED <<registering, cancelling, disposing, control, running, history, registeredEntries, ripe>>

-----------------------------------------------------------------------------
(* The monitor task.  A future never runs twice at a time, but a pass that *)
(* has begun outlives the cancel(false) of its future.                     *)

Ripen(e) ==
    /\ e \in registeredEntries \ ripe
    /\ ripe' = ripe \cup {e}
    /\ UNCHANGED <<control, running, history, registeredEntries, jobs, collected>>

Fire(t) ==
    /\ t \in live
    /\ pass[t] = "idle"
    /\ pass' = [pass EXCEPT ![t] = "waiting"]
    /\ UNCHANGED <<control, history, todo, toRemove, registeredEntries, ripe, jobs, collected>>

LastIdleRound_Late == idleProcs + 1 > Life
LastIdleRound == idleProcs + 1 >= Life

(* The first critical section with nothing registered: count an idle round *)
(* and stop the task at the last one.                                      *)
IdlePass(t) ==
    /\ pass[t] = "waiting"
    /\ registeredEntries = {}
    /\ idleProcs' = idleProcs + 1
    /\ IF LastIdleRound THEN StopTask ELSE UNCHANGED <<live, schedulerTask>>
    /\ pass' = [pass EXCEPT ![t] = "idle"]
    /\ UNCHANGED <<history, disposed, todo, toRemove, registeredEntries, ripe, jobs, collected>>

Due_StaleCopy == ripe
Due == registeredEntries \cap ripe

(* The first critical section with work, and the clock read after it: an   *)
(* entry that ripens between the two counts as ripe before the copy.       *)
CopyEntries(t) ==
    /\ pass[t] = "waiting"
    /\ registeredEntries # {}
    /\ idleProcs' = 0
    /\ pass' = [pass EXCEPT ![t] = "running"]
    /\ todo' = [todo EXCEPT ![t] = Due]
    /\ UNCHANGED <<history, disposed, schedulerTask, live, toRemove, registeredEntries, ripe, jobs, collected>>

RunEntry(t, e) ==
    /\ pass[t] = "running"
    /\ e \in todo[t]
    /\ ran' = ran \cup {e}
    /\ cut' = cut \ {e}
    /\ todo' = [todo EXCEPT ![t] = @ \ {e}]
    /\ toRemove' = [toRemove EXCEPT ![t] = @ \cup {e}]
    /\ UNCHANGED <<control, pass, submitted, registeredEntries, ripe, jobs, collected>>

(* The action throws what EventInstanceManager's lambda does not catch:    *)
(* LoggingSaveRunnable swallows it and toRemove dies with the pass.  What  *)
(* threw stays registered and may throw in every pass to come.             *)
AbortPass(t, e) ==
    /\ pass[t] = "running"
    /\ e \in todo[t] \cap MayThrow
    /\ ran' = ran \cup {e}
    /\ cut' = cut \cup toRemove[t] \cup {e}
    /\ pass' = [pass EXCEPT ![t] = "idle"]
    /\ todo' = [todo EXCEPT ![t] = {}]
    /\ toRemove' = [toRemove EXCEPT ![t] = {}]
    /\ UNCHANGED <<control, submitted, registeredEntries, ripe, jobs, collected>>

Retained_All(t) == registeredEntries
Retained(t) == registeredEntries \ toRemove[t]

(* The second critical section. *)
RemoveRun(t) ==
    /\ pass[t] = "running"
    /\ todo[t] = {}
    /\ registeredEntries' = Retained(t)
    /\ toRemove' = [toRemove EXCEPT ![t] = {}]
    /\ pass' = [pass EXCEPT ![t] = "idle"]
    /\ UNCHANGED <<control, history, todo, ripe, jobs, collected>>

runBaseSchedule(t) ==
    IdlePass(t) \/ CopyEntries(t) \/ (\E e \in Entry : RunEntry(t, e)) \/ RemoveRun(t)

-----------------------------------------------------------------------------
Next ==
    \/ \E e \in Entry : registerEntry(e) \/ cancelEntry(e) \/ Ripen(e)
    \/ \E e \in Entry : RegisterJob(e) \/ CancelJob(e)
    \/ dispose \/ forceDispose \/ DisposeJob \/ disposeLocks
    \/ \E t \in Task : Fire(t) \/ runBaseSchedule(t)
    \/ \E t \in Task, e \in Entry : AbortPass(t, e)

Spec == Init /\ [][Next]_vars

(* The pool starts a thread when its queue is full, so every job runs; the *)
(* executor repeats a live future; a script function returns; time passes. *)
Fairness ==
    /\ \A e \in Entry : WF_vars(RegisterJob(e)) /\ WF_vars(CancelJob(e)) /\ WF_vars(Ripen(e))
    /\ WF_vars(DisposeJob) /\ WF_vars(disposeLocks)
    /\ \A t \in Task : WF_vars(Fire(t)) /\ WF_vars(runBaseSchedule(t))

FairSpec == Spec /\ Fairness

-----------------------------------------------------------------------------
(* At most one pass is past the monitor's tick at any time, although       *)
(* futures are cancelled and replaced: what runBaseSchedule assumes when   *)
(* it runs actions and removes them without holding schedulerLock between. *)
NoOverlappingPasses ==
    \A t, u \in Task : pass[t] # "idle" /\ pass[u] # "idle" => t = u

(* Whatever the order of idle shutdown, registration and removal, a        *)
(* registered entry has a live future that will look at it.                *)
WorkHasDriver == registeredEntries # {} => schedulerTask \in live

(* An entry runs once: a pass is about to run it again only if the last    *)
(* pass that ran it was cut off by an exception before it could remove     *)
(* what it had run.                                                        *)
RunsOnceUnlessCut == \A t \in Task : todo[t] \cap ran \subseteq cut

(* Entry e can no longer be reached: its registration was processed, it is *)
(* not in the map and no pass still holds it in its copy.                  *)
Gone(e) ==
    /\ e \in submitted
    /\ e \notin registering
    /\ e \notin registeredEntries
    /\ \A t \in Task : e \notin todo[t]

(* Once removed, cancelled or cleared, and out of every copy, an entry is  *)
(* never run again and never comes back.                                   *)
GoneStaysGone ==
    [][\A e \in Entry : Gone(e) => Gone(e)' /\ (e \in ran' => e \in ran)]_vars

(* dispose is final: a late registration job neither restarts the monitor  *)
(* nor leaves an entry behind, and no future is left ticking.              *)
DisposeIsFinal ==
    [][disposed => /\ disposed'
                   /\ registeredEntries' = {}
                   /\ schedulerTask' = NoTask
                   /\ live' = {}]_vars

(* A registration is not lost: unless it is cancelled or the scheduler     *)
(* disposed, the action is eventually run.  The exception: an action that  *)
(* keeps throwing what the lambda around it does not catch stays           *)
(* registered and cuts off pass after pass, and those behind it wait       *)
(* forever; passes cut off only finitely often do no such harm.            *)
RegisteredIsServed ==
    \A e \in Entry :
        [](~disposed /\ e \notin cancelling) =>
            \/ e \in registering ~> e \in ran
            \/ []<><<\E t \in Task, f \in MayThrow : AbortPass(t, f)>>_vars

(* The monitor does not tick forever over an empty map: after Life idle    *)
(* rounds in a row it is stopped.                                          *)
IdleMonitorStops ==
    <>[](registeredEntries = {} /\ \A e \in Entry : e \notin registering)
        => <>[](schedulerTask = NoTask /\ live = {})

-----------------------------------------------------------------------------
(* What a caller of registerEntry may rely on while no action throws: see  *)
(* OneShotTimer.  An entry that a pass still holds counts as accepted.     *)
entryState == [e \in Entry |->
    CASE e \in ran -> "fired"
      [] e \notin ran /\ (e \in registeredEntries \/ \E t \in Task : e \in todo[t]) -> "accepted"
      [] e \notin ran /\ Gone(e) -> "dropped"
      [] OTHER -> "new"]

Timer == INSTANCE OneShotTimer WITH state <- entryState, closed <- disposed

(* The scheduler implements the one-shot timer: an accepted action fires   *)
(* once or is dropped, and nothing is accepted after dispose.              *)
ImplementsOneShotTimer == Timer!Spec

-----------------------------------------------------------------------------
(* The strengthening that makes the safety properties inductive. *)

(* The current future is the only one that may start another pass; there   *)
(* is none after dispose and none is needed when nothing is registered.    *)
OneFuture ==
    /\ live \subseteq {schedulerTask}
    /\ schedulerTask # NoTask => schedulerTask \in live /\ idleProcs < Life
    /\ schedulerTask = NoTask => registeredEntries = {}
    /\ disposed => schedulerTask = NoTask

(* A pass belongs to the current future or outlived dispose. *)
PassOwner ==
    /\ \A t \in Task : pass[t] # "idle" => t = schedulerTask \/ disposed
    /\ \A t \in Task : pass[t] = "waiting" => idleProcs < Life
    /\ \A t \in Task : pass[t] # "running" => todo[t] = {} /\ toRemove[t] = {}

(* An entry not yet registered was neither run nor copied. *)
FreshEntries ==
    /\ registering \subseteq submitted
    /\ \A e \in Entry : e \notin submitted \/ e \in registering =>
          /\ e \notin ran
          /\ e \notin registeredEntries
          /\ \A t \in Task : e \notin todo[t]

(* What ran and was not cut off is removed at the end of its pass at the   *)
(* latest, and is in no copy before that.                                  *)
RunsCounted ==
    /\ \A t \in Task : toRemove[t] \subseteq ran
    /\ \A e \in ran \ cut :
          /\ \A t \in Task : e \notin todo[t]
          /\ e \in registeredEntries => \E t \in Task : e \in toRemove[t]

IndInv ==
    /\ TypeOK
    /\ NoOverlappingPasses
    /\ OneFuture
    /\ PassOwner
    /\ FreshEntries
    /\ RunsCounted
=============================================================================

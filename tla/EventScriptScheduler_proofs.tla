-------------------- MODULE EventScriptScheduler_proofs --------------------
(***************************************************************************)
(* The safety properties of EventScriptScheduler for any set of entries    *)
(* and futures, any idle limit and any number of failing actions, and that *)
(* it implements OneShotTimer as long as no action fails.                  *)
(***************************************************************************)
EXTENDS EventScriptScheduler, TLAPS

(* The fields start consistent: no future, no entry, nothing run. *)
LEMMA InitEstablishesIndInv == Init => IndInv
<1> SUFFICES ASSUME Init PROVE IndInv
    OBVIOUS
<1> USE LifeAssumption, ThrowAssumption DEF Init
<1>1. TypeOK
    <2>1. idleProcs \in 0..Life
        OBVIOUS
    <2>2. pass \in [Task -> {"idle", "waiting", "running"}]
        OBVIOUS
    <2>3. todo \in [Task -> SUBSET Entry] /\ toRemove \in [Task -> SUBSET Entry]
        OBVIOUS
    <2>4. QED
        BY <2>1, <2>2, <2>3 DEF TypeOK
<1>2. NoOverlappingPasses /\ PassOwner
    BY DEF NoOverlappingPasses, PassOwner
<1>3. OneFuture
    BY DEF OneFuture
<1>4. FreshEntries /\ RunsCounted
    BY DEF FreshEntries, RunsCounted
<1>5. QED
    BY <1>1, <1>2, <1>3, <1>4 DEF IndInv

(* Every handler, job and monitor step, the failing ones included, keeps   *)
(* the future, the passes and the record of runs consistent.               *)
LEMMA NextPreservesIndInv == IndInv /\ [Next]_vars => IndInv'
<1> SUFFICES ASSUME IndInv, [Next]_vars PROVE IndInv'
    OBVIOUS
<1> USE LifeAssumption, TaskAssumption, ThrowAssumption DEF
    IndInv, TypeOK, NoOverlappingPasses, OneFuture, PassOwner, FreshEntries, RunsCounted
<1>1. ASSUME NEW e \in Entry, registerEntry(e) PROVE IndInv'
    BY <1>1 DEF registerEntry, control, running
<1>2. ASSUME NEW e \in Entry, cancelEntry(e) PROVE IndInv'
    BY <1>2 DEF cancelEntry, control, running, history
<1>3. ASSUME NEW e \in Entry, Ripen(e) PROVE IndInv'
    BY <1>3 DEF Ripen, control, running, history, jobs
<1>4. ASSUME NEW e \in Entry, RegisterJob(e) PROVE IndInv'
    BY <1>4 DEF RegisterJob, EnsureTask, Register, running, history
<1>5. ASSUME NEW e \in Entry, CancelJob(e) PROVE IndInv'
    BY <1>5 DEF CancelJob, control, running, history
<1>6. CASE dispose
    BY <1>6 DEF dispose, control, running, history
<1>7. CASE forceDispose
    BY <1>7 DEF forceDispose, Shutdown, StopTask, running, history
<1>8. CASE DisposeJob
    BY <1>8 DEF DisposeJob, Shutdown, StopTask, running, history
<1>9. CASE disposeLocks
    BY <1>9 DEF disposeLocks, control, running, history
<1>10. ASSUME NEW t \in Task, Fire(t) PROVE IndInv'
    BY <1>10 DEF Fire, control, history, jobs
<1>11. ASSUME NEW t \in Task, IdlePass(t) PROVE IndInv'
    BY <1>11 DEF IdlePass, LastIdleRound, StopTask, history, jobs
<1>12. ASSUME NEW t \in Task, CopyEntries(t) PROVE IndInv'
    BY <1>12 DEF CopyEntries, Due, history, jobs
<1>13. ASSUME NEW t \in Task, NEW e \in Entry, RunEntry(t, e) PROVE IndInv'
    BY <1>13 DEF RunEntry, control, jobs
<1>14. ASSUME NEW t \in Task, RemoveRun(t) PROVE IndInv'
    BY <1>14 DEF RemoveRun, Retained, control, history, jobs
<1>15. ASSUME NEW t \in Task, NEW e \in Entry, AbortPass(t, e) PROVE IndInv'
    BY <1>15 DEF AbortPass, control, jobs
<1>16. CASE UNCHANGED vars
    BY <1>16 DEF vars
<1>17. QED
    BY <1>1, <1>2, <1>3, <1>4, <1>5, <1>6, <1>7, <1>8, <1>9, <1>10, <1>11,
       <1>12, <1>13, <1>14, <1>15, <1>16 DEF Next, runBaseSchedule

(* The inductive invariant holds in every reachable state. *)
THEOREM IndInvHolds == Spec => []IndInv
BY InitEstablishesIndInv, NextPreservesIndInv, PTL DEF Spec

(* Every field keeps its type, and idleProcs never passes its limit. *)
THEOREM TypeCorrect == Spec => []TypeOK
BY IndInvHolds, PTL DEF IndInv

(* No two passes of the monitor overlap. *)
THEOREM PassesDoNotOverlap == Spec => []NoOverlappingPasses
BY IndInvHolds, PTL DEF IndInv

(* A registered entry always has a live future. *)
THEOREM WorkAlwaysDriven == Spec => []WorkHasDriver
<1>1. IndInv => WorkHasDriver
    BY DEF IndInv, OneFuture, WorkHasDriver
<1>2. QED
    BY <1>1, IndInvHolds, PTL

(* No pass runs an entry again, except what a pass was cut off from removing. *)
THEOREM RunsBounded == Spec => []RunsOnceUnlessCut
<1>1. IndInv => RunsOnceUnlessCut
    BY DEF IndInv, TypeOK, RunsCounted, RunsOnceUnlessCut
<1>2. QED
    BY <1>1, IndInvHolds, PTL

(* An entry that left the map and every copy never runs again. *)
THEOREM GoneIsFinal == Spec => GoneStaysGone
<1> DEFINE Stays(e) == Gone(e)' /\ (e \in ran' => e \in ran)
<1>1. ASSUME IndInv, Next, NEW e \in Entry, Gone(e) PROVE Stays(e)
    <2> USE <1>1 DEF IndInv, TypeOK, Gone, control, running, history, jobs
    <2>handlers. ASSUME NEW f \in Entry, registerEntry(f) \/ cancelEntry(f) PROVE Stays(e)
        BY <2>handlers DEF registerEntry, cancelEntry
    <2>jobs. ASSUME NEW f \in Entry, Ripen(f) \/ RegisterJob(f) \/ CancelJob(f) PROVE Stays(e)
        BY <2>jobs DEF Ripen, RegisterJob, EnsureTask, Register, CancelJob
    <2>disposal. ASSUME dispose \/ forceDispose \/ DisposeJob \/ disposeLocks PROVE Stays(e)
        BY <2>disposal DEF dispose, forceDispose, DisposeJob, disposeLocks, Shutdown, StopTask
    <2>rounds. ASSUME NEW t \in Task, Fire(t) \/ IdlePass(t) \/ CopyEntries(t) \/ RemoveRun(t) PROVE Stays(e)
        BY <2>rounds DEF Fire, IdlePass, StopTask, CopyEntries, Due, RemoveRun, Retained
    <2>runs. ASSUME NEW t \in Task, NEW f \in Entry, RunEntry(t, f) \/ AbortPass(t, f) PROVE Stays(e)
        BY <2>runs DEF RunEntry, AbortPass
    <2> HIDE DEF Stays
    <2> QED
        BY <2>handlers, <2>jobs, <2>disposal, <2>rounds, <2>runs DEF Next, runBaseSchedule
<1>2. IndInv /\ [Next]_vars => [\A e \in Entry : Gone(e) => Gone(e)' /\ (e \in ran' => e \in ran)]_vars
    BY <1>1
<1> QED
    BY <1>2, IndInvHolds, PTL DEF Spec, GoneStaysGone

(* dispose is final: nothing that runs later registers or restarts. *)
THEOREM DisposalIsFinal == Spec => DisposeIsFinal
<1> DEFINE Closed == /\ disposed'
                     /\ registeredEntries' = {}
                     /\ schedulerTask' = NoTask
                     /\ live' = {}
<1>1. IndInv /\ [Next]_vars => [disposed => Closed]_vars
    <2> SUFFICES ASSUME IndInv, Next, disposed PROVE Closed
        BY DEF vars
    <2>1. IndInv'
        BY NextPreservesIndInv
    <2>2. disposed'
        BY DEF Next, runBaseSchedule, registerEntry, cancelEntry, Ripen, RegisterJob, CancelJob,
               dispose, forceDispose, DisposeJob, disposeLocks, Shutdown, Fire, IdlePass,
               CopyEntries, RunEntry, AbortPass, RemoveRun, control
    <2>3. QED
        BY <2>1, <2>2, TaskAssumption DEF IndInv, OneFuture, TypeOK
<1>2. QED
    BY <1>1, IndInvHolds, PTL DEF Spec, DisposeIsFinal

-----------------------------------------------------------------------------
(* The refinement.  While no action may throw, no pass is cut off. *)
NothingCut == MayThrow = {} => cut = {}

LEMMA NextCutsNothing == NothingCut /\ [Next]_vars => NothingCut'
<1> SUFFICES ASSUME NothingCut, [Next]_vars PROVE NothingCut'
    OBVIOUS
<1> USE DEF NothingCut
<1>1. CASE UNCHANGED cut
    BY <1>1
<1>2. ASSUME NEW t \in Task, NEW e \in Entry, RunEntry(t, e) \/ AbortPass(t, e) PROVE NothingCut'
    BY <1>2 DEF RunEntry, AbortPass
<1>3. QED
    BY <1>1, <1>2 DEF Next, runBaseSchedule, registerEntry, cancelEntry, Ripen, RegisterJob, CancelJob, RemoveRun,
       dispose, forceDispose, DisposeJob, disposeLocks, Fire, IdlePass, CopyEntries, history, vars

(* The four states of an entry, told apart. *)
Held(e) == e \in registeredEntries \/ \E t \in Task : e \in todo[t]
Processed == submitted \ registering
StatesTold ==
    \A e \in Entry :
        /\ e \in ran => entryState[e] = "fired"
        /\ e \notin ran /\ Held(e) => entryState[e] = "accepted"
        /\ e \notin ran /\ ~Held(e) /\ e \in Processed => entryState[e] = "dropped"
        /\ e \notin Processed => entryState[e] = "new" /\ e \notin ran /\ ~Held(e)
LEMMA StatesOfEntries == IndInv => StatesTold
<1> SUFFICES ASSUME IndInv, NEW e \in Entry
             PROVE  /\ e \in ran => entryState[e] = "fired"
                    /\ e \notin ran /\ Held(e) => entryState[e] = "accepted"
                    /\ e \notin ran /\ ~Held(e) /\ e \in Processed => entryState[e] = "dropped"
                    /\ e \notin Processed => entryState[e] = "new" /\ e \notin ran /\ ~Held(e)
    BY DEF StatesTold
<1>1. e \notin Processed => e \notin ran /\ ~Held(e)
    BY DEF IndInv, FreshEntries, Held, Processed
<1>2. ~Held(e) /\ e \in Processed <=> Gone(e)
    BY <1>1 DEF Gone, Held, Processed
<1>3. entryState[e] = CASE e \in ran -> "fired"
                        [] e \notin ran /\ Held(e) -> "accepted"
                        [] e \notin ran /\ Gone(e) -> "dropped"
                        [] OTHER -> "new"
    BY DEF entryState, Held
<1>4. Gone(e) => ~Held(e)
    BY DEF Gone, Held
<1> QED BY <1>1, <1>2, <1>3, <1>4

(* An entry to which nothing happens keeps its state. *)
LEMMA StatesKept ==
    ASSUME StatesTold, StatesTold', NEW e \in Entry,
           e \in ran' <=> e \in ran, Held(e)' <=> Held(e), e \in Processed' <=> e \in Processed
    PROVE  entryState'[e] = entryState[e]
<1>1. CASE e \in ran
    BY <1>1 DEF StatesTold
<1>2. CASE e \notin ran /\ Held(e)
    BY <1>2 DEF StatesTold
<1>3. CASE e \notin ran /\ ~Held(e) /\ e \in Processed
    BY <1>3 DEF StatesTold
<1>4. CASE e \notin Processed
    BY <1>4 DEF StatesTold
<1> QED BY <1>1, <1>2, <1>3, <1>4

(* One entry changes its state, at most: an abstract step, or none. *)
LEMMA OneEntryMoves ==
    ASSUME NEW e \in Entry, \A f \in Entry \ {e} : entryState'[f] = entryState[f], NEW s, entryState'[e] = s
    PROVE  entryState' = [entryState EXCEPT ![e] = s]
<1>1. entryState = [f \in Entry |-> entryState[f]] /\ entryState' = [f \in Entry |-> entryState'[f]]
    BY DEF entryState
<1> HIDE DEF entryState
<1> QED BY <1>1

LEMMA NoEntryMoves ==
    ASSUME \A f \in Entry : entryState'[f] = entryState[f]
    PROVE  entryState' = entryState
BY DEF entryState

(* Closing drops what is in the map only. *)
LEMMA ShutdownCloses ==
    ASSUME IndInv, IndInv', Shutdown, UNCHANGED <<registering, running, history>>
    PROVE  Timer!Next
<1>1. StatesTold /\ StatesTold'
    BY StatesOfEntries, PTL
<1> DEFINE Dropped == {e \in registeredEntries : e \notin ran /\ \A t \in Task : e \notin todo[t]}
<1>2. Dropped \in SUBSET Entry
    BY DEF IndInv, TypeOK
<1>3. UNCHANGED <<ran, todo, submitted, registering>> /\ registeredEntries' = {} /\ disposed' = TRUE
    BY DEF Shutdown, StopTask, running, history
<1>4. ASSUME NEW e \in Dropped PROVE entryState[e] = "accepted" /\ entryState'[e] = "dropped"
    <2>1. e \in Entry /\ e \notin ran /\ Held(e) /\ e \notin ran' /\ ~Held(e)'
        BY <1>2, <1>3 DEF Held
    <2>2. e \in Processed'
        BY <1>1, <1>3, <2>1 DEF StatesTold, Processed
    <2> QED BY <1>1, <2>1, <2>2 DEF StatesTold
<1>5. ASSUME NEW e \in Entry \ Dropped PROVE entryState'[e] = entryState[e]
    <2>1. e \in Processed' <=> e \in Processed
        BY <1>3 DEF Processed
    <2>2. CASE Held(e)' <=> Held(e)
        BY <1>1, <1>3, <2>1, <2>2, StatesKept
    <2>3. CASE ~(Held(e)' <=> Held(e))
        <3>1. e \in registeredEntries /\ \A t \in Task : e \notin todo[t]
            BY <1>3, <2>3 DEF Held
        <3>2. e \in ran /\ e \in ran'
            BY <1>1, <1>3, <3>1 DEF StatesTold
        <3> QED BY <1>1, <3>2 DEF StatesTold
    <2> QED BY <2>2, <2>3
<1>6. entryState' = [e \in Entry |-> IF e \in Dropped THEN "dropped" ELSE entryState[e]]
    BY <1>4, <1>5 DEF entryState
<1>7. Timer!Close(Dropped)
    BY <1>3, <1>4, <1>6 DEF Timer!Close
<1> QED BY <1>2, <1>7 DEF Timer!Next

(* Every step of the scheduler is one step of the one-shot timer, or none, *)
(* as long as no action throws.                                            *)
LEMMA StepsImplementTimer ==
    ASSUME IndInv, IndInv', NothingCut, MayThrow = {}, Next
    PROVE  Timer!Next \/ UNCHANGED <<entryState, disposed>>
<1>1. StatesTold /\ StatesTold'
    BY StatesOfEntries, PTL
<1>2. CASE /\ UNCHANGED <<ran, todo, registeredEntries, disposed>>
           /\ Processed' = Processed
    <2>1. \A f \in Entry : entryState'[f] = entryState[f]
        BY <1>1, <1>2, StatesKept DEF Held
    <2> QED BY <1>2, <2>1, NoEntryMoves
<1>3. ASSUME NEW e \in Entry, registerEntry(e) PROVE Processed' = Processed
    <2>1. registering \subseteq submitted
        BY DEF IndInv, FreshEntries
    <2> QED BY <1>3, <2>1 DEF registerEntry, Processed
<1>4. ASSUME NEW e \in Entry, RegisterJob(e) PROVE Timer!Next
    <2>1. e \notin Processed /\ e \in Processed' /\ UNCHANGED <<ran, todo, disposed>>
        BY <1>4 DEF RegisterJob, Processed, running, history, IndInv, FreshEntries
    <2>2. entryState[e] = "new" /\ e \notin ran /\ ~Held(e)
        BY <1>1, <2>1 DEF StatesTold
    <2>3. \A f \in Entry \ {e} : entryState'[f] = entryState[f]
        <3> SUFFICES ASSUME NEW f \in Entry, f # e PROVE entryState'[f] = entryState[f]
            OBVIOUS
        <3>1. (f \in Processed' <=> f \in Processed) /\ (Held(f)' <=> Held(f))
            BY <1>4, <2>1 DEF RegisterJob, Processed, Held, history
        <3> QED BY <1>1, <2>1, <3>1, StatesKept
    <2>4. CASE EnsureTask /\ registeredEntries' = registeredEntries \cup {e}
        <3>1. ~disposed
            BY <2>4 DEF EnsureTask, IndInv, OneFuture
        <3>2. entryState'[e] = "accepted"
            BY <1>1, <2>1, <2>2, <2>4 DEF StatesTold, Held
        <3>3. Timer!Accept(e)
            BY <2>1, <2>2, <2>3, <3>1, <3>2, OneEntryMoves DEF Timer!Accept
        <3> QED BY <3>3 DEF Timer!Next
    <2>5. CASE disposed /\ UNCHANGED registeredEntries
        <3>1. entryState'[e] = "dropped"
            <4>1. e \notin ran' /\ ~Held(e)'
                BY <2>1, <2>2, <2>5 DEF Held
            <4> QED BY <1>1, <2>1, <4>1 DEF StatesTold
        <3>2. Timer!Reject(e)
            BY <2>1, <2>2, <2>3, <2>5, <3>1, OneEntryMoves DEF Timer!Reject
        <3> QED BY <3>2 DEF Timer!Next
    <2> QED BY <1>4, <2>4, <2>5 DEF RegisterJob
<1>5. ASSUME NEW e \in Entry, CancelJob(e) PROVE Timer!Next \/ UNCHANGED <<entryState, disposed>>
    <2>1. registeredEntries' = registeredEntries \ {e} /\ UNCHANGED <<ran, todo, disposed>> /\ Processed' = Processed
        BY <1>5 DEF CancelJob, running, history, control, Processed
    <2>2. \A f \in Entry \ {e} : entryState'[f] = entryState[f]
        <3> SUFFICES ASSUME NEW f \in Entry, f # e PROVE entryState'[f] = entryState[f]
            OBVIOUS
        <3>1. Held(f)' <=> Held(f)
            BY <2>1 DEF Held
        <3> QED BY <1>1, <2>1, <3>1, StatesKept
    <2>3. CASE e \notin ran /\ Held(e) /\ ~Held(e)'
        <3>1. entryState[e] = "accepted"
            BY <1>1, <2>3 DEF StatesTold
        <3>2. e \in Processed' /\ e \notin ran'
            BY <1>1, <2>1, <2>3 DEF StatesTold
        <3>3. entryState'[e] = "dropped"
            BY <1>1, <2>3, <3>2 DEF StatesTold
        <3>4. Timer!Cancel(e)
            BY <2>1, <2>2, <3>1, <3>3, OneEntryMoves DEF Timer!Cancel
        <3> QED BY <3>4 DEF Timer!Next
    <2>4. CASE ~(e \notin ran /\ Held(e) /\ ~Held(e)')
        <3>1. entryState'[e] = entryState[e]
            <4>1. CASE e \in ran
                BY <1>1, <2>1, <4>1 DEF StatesTold
            <4>2. CASE Held(e)' <=> Held(e)
                BY <1>1, <2>1, <4>2, StatesKept
            <4>3. Held(e)' => Held(e)
                BY <2>1 DEF Held
            <4> QED BY <1>1, <2>4, <4>1, <4>2, <4>3 DEF StatesTold
        <3> QED BY <2>1, <2>2, <3>1, NoEntryMoves
    <2> QED BY <2>3, <2>4
<1>6. CASE forceDispose \/ DisposeJob
    BY <1>6, ShutdownCloses DEF forceDispose, DisposeJob
<1>7. ASSUME NEW t \in Task, CopyEntries(t) PROVE UNCHANGED <<entryState, disposed>>
    <2>1. todo' = [todo EXCEPT ![t] = Due] /\ UNCHANGED <<ran, registeredEntries, disposed>> /\ Processed' = Processed
        BY <1>7 DEF CopyEntries, history, jobs, Processed
    <2>2. todo[t] = {} /\ todo \in [Task -> SUBSET Entry]
        BY <1>7 DEF CopyEntries, IndInv, PassOwner, TypeOK
    <2>3. ASSUME NEW f \in Entry PROVE entryState'[f] = entryState[f]
        <3>1. Held(f)' <=> Held(f)
            BY <2>1, <2>2 DEF Held, Due
        <3> QED BY <1>1, <2>1, <3>1, StatesKept
    <2> QED BY <2>1, <2>3, NoEntryMoves
<1>8. ASSUME NEW t \in Task, NEW e \in Entry, RunEntry(t, e) PROVE Timer!Next
    <2>1. /\ ran' = ran \cup {e} /\ todo' = [todo EXCEPT ![t] = @ \ {e}] /\ e \in todo[t]
          /\ UNCHANGED <<registeredEntries, disposed>> /\ Processed' = Processed
        BY <1>8 DEF RunEntry, jobs, control, Processed
    <2>2. ran \subseteq Entry /\ todo \in [Task -> SUBSET Entry]
        BY DEF IndInv, TypeOK
    <2>3. e \notin ran
        BY <2>1 DEF IndInv, RunsCounted, NothingCut
    <2>4. entryState[e] = "accepted" /\ entryState'[e] = "fired"
        BY <1>1, <2>1, <2>2, <2>3 DEF StatesTold, Held
    <2>5. \A f \in Entry \ {e} : entryState'[f] = entryState[f]
        <3> SUFFICES ASSUME NEW f \in Entry, f # e PROVE entryState'[f] = entryState[f]
            OBVIOUS
        <3>1. (f \in ran' <=> f \in ran) /\ (Held(f)' <=> Held(f))
            BY <2>1, <2>2 DEF Held
        <3> QED BY <1>1, <2>1, <3>1, StatesKept
    <2>6. Timer!Fire(e)
        BY <2>1, <2>4, <2>5, OneEntryMoves DEF Timer!Fire
    <2> QED BY <2>6 DEF Timer!Next
<1>9. ASSUME NEW t \in Task, RemoveRun(t) PROVE UNCHANGED <<entryState, disposed>>
    <2>1. registeredEntries' = registeredEntries \ toRemove[t] /\ UNCHANGED <<ran, todo, disposed>> /\ Processed' = Processed
        BY <1>9 DEF RemoveRun, Retained, history, jobs, control, Processed
    <2>2. ASSUME NEW f \in Entry PROVE entryState'[f] = entryState[f]
        <3>1. CASE f \in toRemove[t]
            BY <1>1, <2>1, <3>1 DEF StatesTold, IndInv, RunsCounted
        <3>2. CASE f \notin toRemove[t]
            <4>1. Held(f)' <=> Held(f)
                BY <2>1, <3>2 DEF Held
            <4> QED BY <1>1, <2>1, <4>1, StatesKept
        <3> QED BY <3>1, <3>2
    <2> QED BY <2>1, <2>2, NoEntryMoves
<1>10. ASSUME NEW t \in Task, NEW e \in Entry, AbortPass(t, e) PROVE FALSE
    BY <1>10 DEF AbortPass
<1>11. CASE \/ \E e \in Entry : registerEntry(e) \/ cancelEntry(e) \/ Ripen(e)
            \/ dispose \/ disposeLocks
            \/ \E t \in Task : Fire(t) \/ IdlePass(t)
    <2>1. UNCHANGED <<ran, todo, registeredEntries, disposed>>
        BY <1>11 DEF registerEntry, cancelEntry, Ripen, dispose, disposeLocks, Fire, IdlePass, running, history, control
    <2>2. Processed' = Processed
        BY <1>3, <1>11 DEF cancelEntry, Ripen, dispose, disposeLocks, Fire, IdlePass, history, jobs, Processed
    <2> QED BY <1>2, <2>1, <2>2
<1> QED BY <1>4, <1>5, <1>6, <1>7, <1>8, <1>9, <1>10, <1>11 DEF Next, runBaseSchedule

(* As long as no action throws, the scheduler is the one-shot timer: what  *)
(* it accepts fires once or is dropped, and it accepts nothing once closed.*)
THEOREM RefinesOneShotTimer == ASSUME MayThrow = {} PROVE Spec => ImplementsOneShotTimer
<1>1. Init => Timer!Init /\ NothingCut
    <2> SUFFICES ASSUME Init PROVE Timer!Init /\ NothingCut
        OBVIOUS
    <2>1. StatesTold
        BY InitEstablishesIndInv, StatesOfEntries
    <2>2. \A e \in Entry : entryState[e] = "new"
        BY <2>1 DEF StatesTold, Init, Processed
    <2>3. entryState = [e \in Entry |-> "new"]
        BY <2>2 DEF entryState
    <2> QED BY <2>3 DEF Timer!Init, Init, NothingCut
<1>2. IndInv /\ IndInv' /\ NothingCut /\ [Next]_vars
      => [Timer!Next]_<<entryState, disposed>>
    <2> SUFFICES ASSUME IndInv, IndInv', NothingCut, [Next]_vars
                 PROVE  Timer!Next \/ UNCHANGED <<entryState, disposed>>
        OBVIOUS
    <2>1. CASE Next
        BY <2>1, StepsImplementTimer
    <2>2. CASE UNCHANGED vars
        BY <2>2 DEF vars, entryState, Gone
    <2> QED BY <2>1, <2>2
<1>3. Spec => []NothingCut
    BY <1>1, NextCutsNothing, IndInvHolds, PTL DEF Spec
<1> QED BY <1>1, <1>2, <1>3, IndInvHolds, PTL DEF Spec, ImplementsOneShotTimer, Timer!Spec, Timer!vars
=============================================================================

--------------------------- MODULE RuleSync_proofs ---------------------------
(***************************************************************************)
(* Proofs about RuleSync for every set of keys and specs, every judgement  *)
(* of the specs, and any number of edits, failures, crashes and reloads.   *)
(***************************************************************************)
EXTENDS RuleSync, Informer_proofs

USE DEF configVars

\* The steps of the informer, the handlers and the queue's timer.
EnvStep ==
  \/ \E k \in Keys : \/ EditRuleGroup(k) \/ ObserveRuleGroup(k)
                     \/ QueueDelayElapses(k)
  \/ ResyncRuleGroups
  \/ \E n \in Notifications : HandleNotification(n)

LEMMA EnvShape == EnvStep => InformerStep /\ UNCHANGED others
BY DEF EnvStep, InformerStep, EditRuleGroup, ObserveRuleGroup, QueueDelayElapses,
       ResyncRuleGroups, HandleNotification

-----------------------------------------------------------------------------
(***************************************************************************)
(* Type correctness.  The loop over the listed objects writes a status for *)
(* listed objects only, which Types alone does not say.                   *)
(***************************************************************************)
TypeInv == Types /\ todo \subseteq Present(snap)

\* A status computed for an object is an object.
LEMMA WithStatusType ==
  ASSUME NEW o \in Objects
  PROVE  WithStatus(o) \in Objects
<1>1. o.spec \in Specs /\ o.errs \in Seq(Specs) /\ o.count \in Nat
  BY DEF Objects
<1>2. ErrorsOf(o.spec) \in Seq(Specs)
  BY <1>1 DEF ErrorsOf
<1>3. o.errs \o ErrorsOf(o.spec) \in Seq(Specs)
  BY <1>1, <1>2
<1>4. RuleCountOf(o.spec) \in Nat
  BY <1>1, RuleCountAssumption
<1> QED BY <1>1, <1>3, <1>4 DEF WithStatus, Objects

\* A rendering lists a spec or nothing for every key.
LEMMA RenderType ==
  ASSUME NEW objs \in [Keys -> Objects \cup {Absent}]
  PROVE  Render(objs) \in Renderings
BY DEF Render, Renderings, Objects

LEMMA TypeInit == Init => TypeInv
<1> SUFFICES ASSUME Init PROVE TypeInv
  OBVIOUS
<1>1. QueueTypeOK
  BY DEF Init, QueueInit, QueueTypeOK
<1>2. InformerTypeOK
  BY DEF Init, InformerInit, InformerTypeOK
<1>3. Types
  BY <1>1, <1>2 DEF Init, Types, PCs, NoObjects, Contents
<1>4. todo \subseteq Present(snap)
  BY DEF Init
<1> QED BY <1>3, <1>4 DEF TypeInv

\* The steps of the informer, the handlers and the queue.
LEMMA TypeEnvironment ==
  ASSUME TypeInv, EnvStep
  PROVE  TypeInv'
<1>1. QueueTypeOK' /\ InformerTypeOK' /\ UNCHANGED others
  BY EnvShape, InformerStepType DEF TypeInv, Types
<1> QED BY <1>1 DEF TypeInv, Types, others, syncVars, outVars, promVars, restVars,
                    Present

\* The end of a process.
LEMMA TypeDie ==
  ASSUME TypeInv, Die, fails' \in Nat, crashes' \in Nat
  PROVE  TypeInv'
<1> USE DEF TypeInv, Types, Die
<1>1. QueueTypeOK'
  BY DEF QueueReset, QueueTypeOK
<1>2. InformerTypeOK'
  BY DEF InformerReset, InformerTypeOK
<1> QED BY <1>1, <1>2 DEF outVars, PCs, NoObjects, Reasons

\* How a sync goes on or ends.
LEMMA TypeReturn ==
  ASSUME TypeInv, NEW b,
         \/ ReturnOK(b) \/ ReturnErr(b) \/ (lastErr \in BOOLEAN /\ Finish(lastErr))
         \/ \E l \in PCs : Goto(l)
  PROVE  /\ QueueTypeOK'
         /\ phase' \in {"down", "boot", "initial", "running"}
         /\ pc' \in PCs
         /\ lastErr' \in BOOLEAN
BY DEF TypeInv, Types, QueueTypeOK, queueVars, ReturnOK, ReturnErr, Finish,
       DoneAll, Goto, PCs

\* The steps of the sync.
LEMMA TypeSync ==
  ASSUME TypeInv, SyncRules
  PROVE  TypeInv'
<1> USE DEF TypeInv, Types
<1>1. CASE ListRuleGroups
  BY <1>1 DEF ListRuleGroups, InformerTypeOK, QueueTypeOK, queueVars, outVars,
              promVars, restVars, Present, PCs
<1>2. ASSUME NEW k \in Keys, UpdateRGStatus(k) PROVE TypeInv'
  <2>1. snap[k] \in Objects
    BY <1>2 DEF UpdateRGStatus, Present
  <2>2. WithStatus(snap[k]) \in Objects
    BY <2>1, WithStatusType
  <2>3. InformerTypeOK'
    BY <1>2, <2>2 DEF UpdateRGStatus, InformerTypeOK
  <2>4. fails' \in Nat
    BY <1>2 DEF UpdateRGStatus, Fail
  <2> QED BY <1>2, <2>3, <2>4 DEF UpdateRGStatus, QueueTypeOK, queueVars, outVars,
                                  promVars, Present, PCs
<1>3. CASE RenderRules
  BY <1>3 DEF RenderRules, informerVars, InformerTypeOK, QueueTypeOK, queueVars,
              outVars, promVars, restVars, Present, PCs
<1>4. CASE Panic
  BY <1>4, TypeDie DEF Panic
<1> DEFINE R == Render(snap)
<1>5. R \in Renderings
  BY RenderType
<1> HIDE DEF R
<1>6. CASE GetConfigMap
  <2>1. UNCHANGED <<informerVars, snap, todo, outVars, promVars, crashes,
                    configVars>>
    BY <1>6 DEF GetConfigMap
  <2>2. fails' \in Nat /\ changed' = changed
    BY <1>6 DEF GetConfigMap, FailSync, Fail, Goto
  <2>3. (\E l \in PCs : Goto(l)) \/ ReturnErr(changed)
    BY <1>6 DEF GetConfigMap, FailSync, PCs
  <2> QED BY <2>1, <2>2, <2>3, TypeReturn DEF informerVars, InformerTypeOK,
             outVars, promVars, Present
<1>7. CASE CreateConfigMap
  <2>1. UNCHANGED <<informerVars, snap, todo, file, mount, promVars, crashes,
                    configVars>>
    BY <1>7 DEF CreateConfigMap
  <2>2. fails' \in Nat /\ changed' = changed /\ cm' \in {cm, NoKey}
    BY <1>7 DEF CreateConfigMap, FailSync, Fail, Goto
  <2>3. (\E l \in PCs : Goto(l)) \/ ReturnErr(changed)
    BY <1>7 DEF CreateConfigMap, FailSync, PCs
  <2> QED BY <2>1, <2>2, <2>3, TypeReturn DEF informerVars, InformerTypeOK,
             promVars, Present
<1>8. CASE UpdateConfigMap
  <2>1. UNCHANGED <<informerVars, snap, todo, file, mount, promVars, crashes,
                    configVars>>
    BY <1>8 DEF UpdateConfigMap
  <2>2. fails' \in Nat /\ changed' \in BOOLEAN /\ cm' \in {cm, R}
    <3>1. fails' \in Nat /\ cm' \in {cm, R}
      BY <1>8 DEF UpdateConfigMap, FailSync, Fail, R
    <3>2. changed' = TRUE \/ changed' = changed
      BY <1>8, Zenon DEF UpdateConfigMap, FailSync
    <3>3. changed' \in BOOLEAN
      BY <3>2, Zenon
    <3> QED BY <3>1, <3>3
  <2>3. ReturnErr(changed) \/ (pc' = "readfile" /\ UNCHANGED <<phase, lastErr, queueVars>>)
    BY <1>8 DEF UpdateConfigMap, FailSync
  <2>4. QueueTypeOK' /\ phase' \in {"down", "boot", "initial", "running"}
        /\ pc' \in PCs /\ lastErr' \in BOOLEAN
    BY <2>3, TypeReturn DEF QueueTypeOK, queueVars, PCs
  <2> QED BY <1>5, <2>1, <2>2, <2>4 DEF informerVars, InformerTypeOK,
             promVars, Present
<1>9. CASE ReadFile
  <2>1. UNCHANGED <<informerVars, snap, todo, outVars, promVars, crashes,
                    configVars>>
    BY <1>9 DEF ReadFile
  <2>2. fails' \in Nat /\ changed' = changed
    BY <1>9 DEF ReadFile, FailSync, Fail, Goto
  <2>3. (\E l \in PCs : Goto(l)) \/ ReturnErr(changed) \/ ReturnOK(changed)
    BY <1>9 DEF ReadFile, FailSync, PCs
  <2> QED BY <2>1, <2>2, <2>3, TypeReturn DEF informerVars, InformerTypeOK,
             outVars, promVars, Present
<1>10. CASE TruncateFile
  <2>1. UNCHANGED <<informerVars, snap, todo, cm, mount, promVars, crashes,
                    configVars>>
    BY <1>10 DEF TruncateFile
  <2>2. fails' \in Nat /\ changed' = changed /\ file' \in {file, Torn}
    BY <1>10 DEF TruncateFile, FailSync, Fail, Goto
  <2>3. (\E l \in PCs : Goto(l)) \/ ReturnErr(changed)
    BY <1>10 DEF TruncateFile, FailSync, PCs
  <2> QED BY <2>1, <2>2, <2>3, TypeReturn DEF informerVars, InformerTypeOK,
             promVars, Present
<1>11. CASE WriteFile
  <2>1. UNCHANGED <<informerVars, snap, todo, cm, mount, prom, inflight, crashes,
                    configVars>>
    BY <1>11 DEF WriteFile
  <2>2. fails' \in Nat /\ changed' \in BOOLEAN /\ file' \in {Torn, R}
        /\ lost' \in SUBSET Reasons
    <3>1. fails' \in Nat
      <4>1. Fail \/ fails' = fails
        BY <1>11, Zenon DEF WriteFile, FailSync
      <4> QED BY <4>1 DEF Fail
    <3>2. file' \in {Torn, R}
      BY <1>11, Zenon DEF WriteFile, R
    <3>3. changed' = TRUE \/ changed' = changed
      BY <1>11, Zenon DEF WriteFile, FailSync
    <3>4. changed' \in BOOLEAN
      BY <3>3, Zenon
    <3>5. lost' = lost \/ lost' = lost \cup {"error"}
      BY <1>11, Zenon DEF WriteFile
    <3> QED BY <3>1, <3>2, <3>4, <3>5 DEF Reasons
  <2>3. ReturnErr(changed) \/ ReturnOK(TRUE)
    BY <1>11 DEF WriteFile, FailSync
  <2> QED BY <1>5, <2>1, <2>2, <2>3, TypeReturn DEF informerVars, InformerTypeOK,
             Present
<1>12. CASE Reload
  <2>1. Finish(lastErr)
    BY <1>12 DEF Reload
  <2> QED BY <1>12, <2>1, TypeReturn DEF Reload, informerVars, InformerTypeOK,
             outVars, restVars, Present
<1> QED BY <1>1, <1>2, <1>3, <1>4, <1>6, <1>7, <1>8, <1>9, <1>10, <1>11, <1>12
        DEF SyncRules

\* TypeInv is inductive.
LEMMA TypeStep == TypeInv /\ [Next]_vars => TypeInv'
<1> SUFFICES ASSUME TypeInv, [Next]_vars PROVE TypeInv'
  OBVIOUS
<1> USE DEF TypeInv, Types
<1>1. CASE UNCHANGED vars
  BY <1>1 DEF vars, informerVars, queueVars, syncVars, outVars, promVars,
              restVars, InformerTypeOK, QueueTypeOK, Present
<1>2. ASSUME NEW k \in Keys, ProcessNextWorkItem(k) PROVE TypeInv'
  BY <1>2 DEF ProcessNextWorkItem, Get, QueueTypeOK, InformerTypeOK,
              informerVars, outVars, promVars, restVars, Present, PCs
<1>3. CASE Start
  BY <1>3 DEF Start, InformerStart, QueueTypeOK, InformerTypeOK, queueVars,
              outVars, promVars, restVars, Present, PCs
<1>4. CASE WaitForCacheSync
  BY <1>4 DEF WaitForCacheSync, QueueTypeOK, InformerTypeOK, informerVars,
              queueVars, outVars, promVars, restVars, Present, PCs
<1>5. CASE OtherReload
  BY <1>5 DEF OtherReload, QueueTypeOK, InformerTypeOK, informerVars, queueVars,
              syncVars, outVars, Present
<1>6. CASE PromLoads
  BY <1>6 DEF PromLoads, QueueTypeOK, InformerTypeOK, informerVars, queueVars,
              syncVars, outVars, restVars, Present, Source, Contents
<1>7. CASE ReloadGivesUp
  BY <1>7 DEF ReloadGivesUp, QueueTypeOK, InformerTypeOK, informerVars,
              queueVars, syncVars, outVars, Present, Fail, Reasons
<1>8. CASE Propagate
  BY <1>8 DEF Propagate, QueueTypeOK, InformerTypeOK, informerVars, queueVars,
              syncVars, promVars, restVars, Present
<1>9. CASE Crash
  BY <1>9, TypeDie DEF Crash
<1>10. CASE EditScrape
  BY <1>10 DEF EditScrape, QueueTypeOK, InformerTypeOK, queueVars, syncVars,
               outVars, promVars, Present
<1>11. CASE ConfigWorkerPanics
  BY <1>11, TypeDie DEF ConfigWorkerPanics
<1>12. CASE FirstConfigSync
  <2>1. CASE Die /\ UNCHANGED <<fails, crashes>>
    BY <2>1, TypeDie
  <2>2. CASE ~Die
    <3>1. /\ pc' = "list"
          /\ UNCHANGED <<informerVars, queueVars, phase, snap, todo, changed,
                         lastErr, outVars, promVars, restVars>>
      BY <1>12, <2>2, Zenon DEF FirstConfigSync
    <3>2. InformerTypeOK' /\ QueueTypeOK' /\ Present(snap)' = Present(snap)
      BY <3>1 DEF QueueTypeOK, InformerTypeOK, informerVars, queueVars, Present
    <3> QED BY <3>1, <3>2 DEF outVars, promVars, restVars, PCs
  <2> QED BY <1>12, <2>1, <2>2 DEF FirstConfigSync, restVars
<1> QED BY <1>1, <1>2, <1>3, <1>4, <1>5, <1>6, <1>7, <1>8, <1>9, <1>10, <1>11,
           <1>12, TypeEnvironment, TypeSync DEF Next, EnvStep

-----------------------------------------------------------------------------
(***************************************************************************)
(* The goroutine that syncs is idle until the caches have synced, and the  *)
(* initial sync is never idle.                                             *)
(***************************************************************************)
PhaseInv ==
  /\ phase \in {"down", "boot"} => pc = "idle"
  /\ phase = "initial" => pc # "idle"

LEMMA PhaseStep == TypeInv /\ PhaseInv /\ [Next]_vars => PhaseInv'
<1> SUFFICES ASSUME TypeInv, PhaseInv, [Next]_vars PROVE PhaseInv'
  OBVIOUS
<1>1. ASSUME pc # "idle", NEW b,
             \/ ReturnOK(b) \/ ReturnErr(b) \/ Finish(b)
             \/ \E l \in PCs \ {"idle"} : Goto(l)
      PROVE  PhaseInv'
  BY <1>1 DEF PhaseInv, ReturnOK, ReturnErr, Finish, Goto, TypeInv, Types
<1>2. CASE SyncRules
  <2>1. CASE Panic
    BY <2>1 DEF Panic, Die, PhaseInv
  <2>2. ASSUME ListRuleGroups \/ (\E k \in Keys : UpdateRGStatus(k)) \/ RenderRules
        PROVE  PhaseInv'
    BY <2>2 DEF ListRuleGroups, UpdateRGStatus, RenderRules, PhaseInv
  <2>3. ASSUME GetConfigMap \/ CreateConfigMap \/ TruncateFile
        PROVE  PhaseInv'
    <3>1. pc # "idle" /\ (ReturnErr(changed) \/ \E l \in PCs \ {"idle"} : Goto(l))
      BY <2>3 DEF GetConfigMap, CreateConfigMap, TruncateFile, FailSync, PCs
    <3> QED BY <1>1, <3>1
  <2>4. CASE ReadFile
    <3>1. pc # "idle" /\ (ReturnErr(changed) \/ ReturnOK(changed)
                           \/ \E l \in PCs \ {"idle"} : Goto(l))
      BY <2>4 DEF ReadFile, FailSync, PCs
    <3> QED BY <1>1, <3>1
  <2>5. CASE UpdateConfigMap
    <3>1. pc # "idle" /\ (ReturnErr(changed)
                           \/ (pc' = "readfile" /\ phase' = phase))
      BY <2>5 DEF UpdateConfigMap, FailSync
    <3> QED BY <1>1, <3>1 DEF PhaseInv
  <2>6. CASE WriteFile
    <3>1. pc # "idle" /\ (ReturnErr(changed) \/ ReturnOK(TRUE))
      BY <2>6 DEF WriteFile, FailSync
    <3> QED BY <1>1, <3>1
  <2>7. CASE Reload
    BY <2>7 DEF Reload, Finish, PhaseInv
  <2> QED BY <1>2, <2>1, <2>2, <2>3, <2>4, <2>5, <2>6, <2>7 DEF SyncRules
<1>3. CASE Crash
  BY <1>3 DEF Crash, Die, PhaseInv
<1>4. ASSUME NEW k \in Keys, ProcessNextWorkItem(k) PROVE PhaseInv'
  BY <1>4 DEF ProcessNextWorkItem, PhaseInv
<1>5. CASE Start \/ WaitForCacheSync \/ FirstConfigSync \/ ConfigWorkerPanics
  BY <1>5 DEF Start, WaitForCacheSync, FirstConfigSync, ConfigWorkerPanics, Die,
              PhaseInv
<1>6. ASSUME \/ \E k \in Keys : \/ EditRuleGroup(k) \/ ObserveRuleGroup(k)
                                \/ QueueDelayElapses(k)
             \/ ResyncRuleGroups
             \/ \E n \in Notifications : HandleNotification(n)
             \/ OtherReload \/ PromLoads \/ ReloadGivesUp \/ Propagate
             \/ EditScrape \/ UNCHANGED vars
      PROVE  PhaseInv'
  BY <1>6 DEF EditScrape, EditRuleGroup, ObserveRuleGroup, QueueDelayElapses,
     ResyncRuleGroups, HandleNotification, OtherReload, PromLoads,
     ReloadGivesUp, Propagate, vars, others, syncVars, PhaseInv
<1> QED BY <1>2, <1>3, <1>4, <1>5, <1>6 DEF Next

-----------------------------------------------------------------------------
(***************************************************************************)
(* The loop of syncRuleHandler is over when the sync goes on.              *)
(***************************************************************************)
LoopInv == todo # {} => pc = "status"

LEMMA LoopStep == Types /\ PhaseInv /\ LoopInv /\ [Next]_vars => LoopInv'
<1> SUFFICES ASSUME Types, PhaseInv, LoopInv, [Next]_vars PROVE LoopInv'
  OBVIOUS
<1>1. ASSUME Die PROVE LoopInv'
  BY <1>1 DEF Die, LoopInv
<1>2. CASE ListRuleGroups \/ (\E k \in Keys : UpdateRGStatus(k))
  BY <1>2 DEF ListRuleGroups, UpdateRGStatus, LoopInv
<1>3. CASE Panic \/ Crash \/ ConfigWorkerPanics
  BY <1>1, <1>3 DEF Panic, Crash, ConfigWorkerPanics
<1>4. CASE FirstConfigSync
  <2>1. (todo' = todo /\ pc = "config") \/ Die
    BY <1>4 DEF FirstConfigSync
  <2> QED BY <1>1, <2>1 DEF LoopInv
<1>5. CASE RenderRules \/ GetConfigMap \/ CreateConfigMap \/ UpdateConfigMap
           \/ ReadFile \/ TruncateFile \/ WriteFile \/ Reload
  <2>1. todo' = todo /\ (todo = {} \/ pc # "status")
    BY <1>5 DEF RenderRules, GetConfigMap, CreateConfigMap, UpdateConfigMap,
       ReadFile, TruncateFile, WriteFile, Reload
  <2> QED BY <2>1 DEF LoopInv
<1>6. CASE Start \/ WaitForCacheSync \/ (\E k \in Keys : ProcessNextWorkItem(k))
  <2>1. todo' = todo /\ pc = "idle"
    BY <1>6 DEF Start, WaitForCacheSync, ProcessNextWorkItem, PhaseInv
  <2> QED BY <2>1 DEF LoopInv
<1>7. ASSUME \/ \E k \in Keys : \/ EditRuleGroup(k) \/ ObserveRuleGroup(k)
                                \/ QueueDelayElapses(k)
             \/ ResyncRuleGroups
             \/ \E n \in Notifications : HandleNotification(n)
             \/ OtherReload \/ PromLoads \/ ReloadGivesUp \/ Propagate
             \/ EditScrape \/ UNCHANGED vars
      PROVE  LoopInv'
  <2>1. UNCHANGED <<todo, pc>>
    BY <1>7 DEF EditScrape, EditRuleGroup, ObserveRuleGroup, QueueDelayElapses,
       ResyncRuleGroups, HandleNotification, OtherReload, PromLoads,
       ReloadGivesUp, Propagate, vars, others, syncVars
  <2> QED BY <2>1 DEF LoopInv
<1> QED BY <1>2, <1>3, <1>4, <1>5, <1>6, <1>7 DEF Next, SyncRules

\* In every reachable state every variable has its type, the loop of
\* syncRuleHandler handles listed objects only, and it has handled all of them
\* before the sync publishes anything.
THEOREM TypeCorrect == Spec => []TypeOK
<1>1. Init => PhaseInv /\ LoopInv
  BY DEF Init, PhaseInv, LoopInv
<1>2. TypeInv /\ LoopInv => TypeOK
  BY DEF TypeInv, LoopInv, TypeOK
<1>3. TypeInv => Types
  BY DEF TypeInv
<1> QED BY <1>1, <1>2, <1>3, TypeInit, TypeStep, PhaseStep, LoopStep, PTL DEF Spec

-----------------------------------------------------------------------------
(***************************************************************************)
(* Every change of the file is covered by a reload.  Quietness plays no    *)
(* part: the debt is carried by a reload in flight, by the sync that is    *)
(* about to start one, or has been written off in `lost'.                  *)
(***************************************************************************)
ReloadInv ==
  HasFile /\ prom # file /\ file # Torn
    => lost # {} \/ inflight > 0 \/ pc = "reload"

LEMMA ReloadDie == ASSUME TypeInv, ReloadInv, Die PROVE ReloadInv'
BY DEF ReloadInv, Die, outVars, Source

LEMMA ReloadSync ==
  ASSUME TypeInv, ReloadInv, SyncRules
  PROVE  ReloadInv'
<1>1. CASE Panic
  BY <1>1, ReloadDie DEF Panic
<1>2. CASE TruncateFile
  <2>1. file' = Torn \/ file' = file
    BY <1>2, Zenon DEF TruncateFile
  <2>2. UNCHANGED <<prom, inflight, lost>> /\ pc = "writefile"
    BY <1>2 DEF TruncateFile, promVars
  <2> QED BY <2>1, <2>2 DEF ReloadInv
<1>3. CASE WriteFile
  <2>1. pc = "writing" /\ UNCHANGED <<prom, inflight>>
    BY <1>3 DEF WriteFile
  <2>2. CASE /\ ReturnOK(TRUE)
             /\ UNCHANGED lost
    <3>1. pc' = "reload"
      BY <2>2 DEF ReturnOK
    <3> QED BY <3>1 DEF ReloadInv
  <2>3. CASE lost' = IF file' = Torn \/ pc' = "reload" THEN lost
                     ELSE lost \cup {"error"}
    BY <2>3 DEF ReloadInv
  <2> QED BY <1>3, <2>2, <2>3, Zenon DEF WriteFile
<1>4. CASE Reload
  <2>1. inflight' > 0
    BY <1>4 DEF Reload, TypeInv, Types
  <2> QED BY <2>1 DEF ReloadInv
<1>5. ASSUME ListRuleGroups \/ (\E k \in Keys : UpdateRGStatus(k)) \/ RenderRules
             \/ GetConfigMap \/ CreateConfigMap \/ UpdateConfigMap \/ ReadFile
      PROVE  ReloadInv'
  <2>1. UNCHANGED <<file, prom, inflight, lost>> /\ pc # "reload"
    BY <1>5 DEF ListRuleGroups, UpdateRGStatus, RenderRules, GetConfigMap,
       CreateConfigMap, UpdateConfigMap, ReadFile, outVars, promVars
  <2> QED BY <2>1 DEF ReloadInv
<1> QED BY <1>1, <1>2, <1>3, <1>4, <1>5 DEF SyncRules

LEMMA ReloadStep == TypeInv /\ PhaseInv /\ ReloadInv /\ [Next]_vars => ReloadInv'
<1> SUFFICES ASSUME TypeInv, PhaseInv, ReloadInv, [Next]_vars PROVE ReloadInv'
  OBVIOUS
<1>1. CASE SyncRules
  BY <1>1, ReloadSync
<1>2. CASE OtherReload
  <2>1. inflight' > 0
    BY <1>2 DEF OtherReload, TypeInv, Types
  <2> QED BY <2>1 DEF ReloadInv
<1>3. CASE PromLoads
  BY <1>3 DEF PromLoads, ReloadInv, Source, outVars
<1>4. CASE ReloadGivesUp
  BY <1>4 DEF ReloadGivesUp, ReloadInv, Source, outVars
<1>5. CASE Crash \/ ConfigWorkerPanics \/ (FirstConfigSync /\ Die)
  BY <1>5, ReloadDie DEF Crash, ConfigWorkerPanics
<1>6. ASSUME \/ \E k \in Keys : \/ EditRuleGroup(k) \/ ObserveRuleGroup(k)
                                \/ QueueDelayElapses(k)
                                \/ ProcessNextWorkItem(k)
             \/ ResyncRuleGroups
             \/ \E n \in Notifications : HandleNotification(n)
             \/ Start \/ WaitForCacheSync \/ Propagate \/ EditScrape
             \/ (FirstConfigSync /\ ~Die)
             \/ UNCHANGED vars
      PROVE  ReloadInv'
  <2>1. /\ UNCHANGED <<file, prom, inflight, lost>>
        /\ pc' = pc \/ pc \in {"idle", "config"}
    BY <1>6 DEF EditScrape, FirstConfigSync, EditRuleGroup, ObserveRuleGroup, QueueDelayElapses,
       ProcessNextWorkItem, ResyncRuleGroups, HandleNotification, Start,
       WaitForCacheSync, Propagate, vars, others, syncVars, outVars, promVars,
       PhaseInv
  <2> QED BY <2>1 DEF ReloadInv
<1> QED BY <1>1, <1>2, <1>3, <1>4, <1>5, <1>6 DEF Next

\* The rules file and what Prometheus runs agree whenever no reload is owed,
\* whatever the worker, the config worker, Prometheus and crashes did before.
THEOREM ReloadCorrect == Spec => []ReloadCovers
<1>1. Init => PhaseInv /\ ReloadInv
  BY DEF Init, PhaseInv, ReloadInv
<1>2. TypeInv /\ ReloadInv => ReloadCovers
  BY DEF TypeInv, Types, ReloadInv, ReloadCovers
<1> QED BY <1>1, <1>2, TypeInit, TypeStep, PhaseStep, ReloadStep, PTL DEF Spec

-----------------------------------------------------------------------------
(***************************************************************************)
(* The refinement of ReloadPromise.  Whether a debt ends well cannot be    *)
(* seen from the step alone: a crash with nothing owed must find           *)
(* Prometheus up to date or the loss on record, which is ReloadInv.        *)
(***************************************************************************)
LEMMA PromisedInit == Init => ReloadPromised!Init
BY DEF Init, ReloadPromised!Init, ReloadPending, WrittenOff

\* Without a file there is nobody to reload.
LEMMA PromisedNobody ==
  ~HasFile => ReloadPromised!Change
BY DEF ReloadPromised!Change, Servers

\* The kinds of steps there are, in terms of the one Prometheus.
LEMMA PromisedChange ==
  ASSUME HasFile, prom' = prom, ReloadPending', WrittenOff' => WrittenOff
  PROVE  ReloadPromised!Change
BY DEF ReloadPromised!Change, Servers

LEMMA PromisedUnasked ==
  ASSUME HasFile, prom' = prom, ReloadPending, WrittenOff'
  PROVE  ReloadPromised!ChangeUnasked
BY DEF ReloadPromised!ChangeUnasked, Servers

LEMMA PromisedWriteOff ==
  ASSUME HasFile, file' = file, prom' = prom, ReloadPending,
         WrittenOff => WrittenOff',
         ~ReloadPending' => WrittenOff' \/ prom = file
  PROVE  ReloadPromised!Next
<1>1. CASE WrittenOff'
  <2>1. ReloadPromised!WriteOff(Servers)
    BY <1>1 DEF ReloadPromised!WriteOff, Servers
  <2> QED BY <2>1 DEF ReloadPromised!Next
<1>2. CASE ~WrittenOff'
  <2>1. ReloadPromised!WriteOff({})
    BY <1>2 DEF ReloadPromised!WriteOff, Servers
  <2> QED BY <2>1 DEF ReloadPromised!Next
<1> QED BY <1>1, <1>2

LEMMA PromisedStutter ==
  ASSUME file' = file, prom' = prom, ReloadPending' <=> ReloadPending,
         WrittenOff' <=> WrittenOff
  PROVE  UNCHANGED ReloadPromised!vars
BY DEF ReloadPromised!vars

\* The end of a process.
LEMMA PromisedDie ==
  ASSUME TypeInv, ReloadInv, HasFile, Die
  PROVE  ReloadPromised!Next \/ UNCHANGED ReloadPromised!vars
<1>1. /\ file' = file /\ prom' = prom /\ ~ReloadPending'
      /\ lost' = IF file \in {prom, Torn} THEN lost ELSE lost \cup {"crash"}
      /\ pc' = "idle"
  BY DEF Die, outVars, Source, ReloadPending, TypeInv, Types
<1>2. /\ WrittenOff => WrittenOff'
      /\ WrittenOff' \/ prom = file
  BY <1>1 DEF WrittenOff
<1>3. CASE ReloadPending
  BY <1>1, <1>2, <1>3, PromisedWriteOff
<1>4. CASE ~ReloadPending
  <2>1. pc \notin {"writing", "reload"} /\ ~(inflight > 0)
    BY <1>4 DEF ReloadPending
  <2>2. WrittenOff' => WrittenOff
    BY <1>1, <2>1 DEF WrittenOff, ReloadInv
  <2> QED BY <1>1, <1>2, <1>4, <2>2, PromisedStutter
<1> QED BY <1>3, <1>4

\* A file that is being written has been truncated.
OpenInv == pc = "writing" => file = Torn

LEMMA OpenStep == TypeInv /\ OpenInv /\ [Next]_vars => OpenInv'
<1> SUFFICES ASSUME TypeInv, OpenInv, [Next]_vars PROVE OpenInv'
  OBVIOUS
<1>1. CASE TruncateFile
  <2>1. file' = Torn \/ pc' # "writing"
    BY <1>1, Zenon DEF TruncateFile, FailSync, ReturnErr, Finish
  <2> QED BY <2>1 DEF OpenInv
<1>2. ASSUME ReturnOK(changed) \/ ReturnOK(TRUE) \/ ReturnErr(changed)
             \/ Finish(lastErr)
      PROVE  pc' # "writing"
  BY <1>2 DEF ReturnOK, ReturnErr, Finish
<1>3. CASE WriteFile
  BY <1>2, <1>3, Zenon DEF WriteFile, FailSync, OpenInv
<1>4. CASE GetConfigMap \/ CreateConfigMap \/ UpdateConfigMap \/ ReadFile \/ Reload
  <2>1. \/ pc' \in {"readfile", "createcm", "updatecm", "writefile"}
        \/ ReturnOK(changed) \/ ReturnErr(changed) \/ Finish(lastErr)
    BY <1>4 DEF GetConfigMap, CreateConfigMap, UpdateConfigMap, ReadFile, Reload,
                FailSync, Goto
  <2>2. pc' # "writing"
    BY <2>1 DEF ReturnOK, ReturnErr, Finish
  <2> QED BY <2>2 DEF OpenInv
<1>5. CASE ListRuleGroups \/ RenderRules \/ Panic \/ Crash \/ WaitForCacheSync
           \/ FirstConfigSync \/ ConfigWorkerPanics
           \/ \E k \in Keys : ProcessNextWorkItem(k)
  BY <1>5 DEF ListRuleGroups, RenderRules, Panic, Crash, Die, WaitForCacheSync,
              FirstConfigSync, ConfigWorkerPanics, ProcessNextWorkItem, OpenInv
<1>6. ASSUME \/ \E k \in Keys : \/ EditRuleGroup(k) \/ ObserveRuleGroup(k)
                                \/ QueueDelayElapses(k) \/ UpdateRGStatus(k)
             \/ ResyncRuleGroups
             \/ \E n \in Notifications : HandleNotification(n)
             \/ Start \/ OtherReload \/ PromLoads \/ ReloadGivesUp \/ Propagate
             \/ EditScrape \/ UNCHANGED vars
      PROVE  OpenInv'
  <2>1. UNCHANGED <<pc, file>>
    BY <1>6 DEF EditScrape, EditRuleGroup, ObserveRuleGroup, QueueDelayElapses, UpdateRGStatus,
       ResyncRuleGroups, HandleNotification, Start, OtherReload, PromLoads,
       ReloadGivesUp, Propagate, vars, others, syncVars, outVars
  <2> QED BY <2>1 DEF OpenInv
<1> QED BY <1>1, <1>3, <1>4, <1>5, <1>6 DEF Next, SyncRules

\* A sync ends, or goes on without touching the file.
LEMMA PromisedReturn ==
  ASSUME HasFile, UNCHANGED <<file, prom, inflight, lost>>,
         pc \notin {"writing", "reload"}, pc' # "writing"
  PROVE  ReloadPromised!Next \/ UNCHANGED ReloadPromised!vars
<1>1. WrittenOff' <=> WrittenOff
  BY DEF WrittenOff
<1>2. CASE ReloadPending'
  BY <1>1, <1>2, PromisedChange DEF ReloadPromised!Next
<1>3. CASE ~ReloadPending'
  <2>1. ~ReloadPending
    BY <1>3 DEF ReloadPending
  <2> QED BY <1>1, <1>3, <2>1, PromisedStutter
<1> QED BY <1>2, <1>3

LEMMA PromisedTruncate ==
  ASSUME HasFile, TruncateFile
  PROVE  ReloadPromised!Next \/ UNCHANGED ReloadPromised!vars
<1>1. UNCHANGED <<prom, inflight, lost>> /\ pc = "writefile"
  BY DEF TruncateFile, promVars
<1>2. CASE file' = Torn /\ Goto("writing")
  <2>1. ReloadPending' /\ (WrittenOff' => WrittenOff)
    BY <1>1, <1>2 DEF Goto, ReloadPending, WrittenOff
  <2> QED BY <1>1, <2>1, PromisedChange DEF ReloadPromised!Next
<1>3. CASE file' = file /\ FailSync
  <2>1. pc' # "writing"
    BY <1>3 DEF FailSync, ReturnErr, Finish
  <2> QED BY <1>1, <1>3, <2>1, PromisedReturn
<1> QED BY <1>2, <1>3, Zenon DEF TruncateFile

LEMMA PromisedWrite ==
  ASSUME TypeInv, OpenInv, HasFile, WriteFile
  PROVE  ReloadPromised!Next \/ UNCHANGED ReloadPromised!vars
<1>1. pc = "writing" /\ UNCHANGED <<prom, inflight>> /\ ReloadPending
  BY DEF WriteFile, ReloadPending
<1> DEFINE R == Render(snap)
<1>2. R # Torn
  BY RenderType, SentinelAssumption DEF TypeInv, Types
<1>3. \/ file' = R /\ ReturnOK(TRUE) /\ UNCHANGED lost
      \/ /\ file' \in {Torn, R} /\ FailSync
         /\ lost' = IF file' = Torn \/ pc' = "reload" THEN lost
                    ELSE lost \cup {"error"}
  BY Zenon DEF WriteFile
<1> HIDE DEF R
<1>4. CASE file' = R /\ ReturnOK(TRUE) /\ UNCHANGED lost
  <2>1. pc' = "reload"
    BY <1>4 DEF ReturnOK
  <2>2. ReloadPending' /\ (WrittenOff' => WrittenOff)
    BY <1>1, <1>2, <1>4, <2>1 DEF ReloadPending, WrittenOff
  <2> QED BY <1>1, <2>2, PromisedChange DEF ReloadPromised!Next
<1>5. CASE /\ file' \in {Torn, R} /\ FailSync
           /\ lost' = IF file' = Torn \/ pc' = "reload" THEN lost
                      ELSE lost \cup {"error"}
  <2>1. pc' \in {"idle", "reload"}
    BY <1>5 DEF FailSync, ReturnErr, Finish
  <2>2. CASE file' = Torn
    <3>1. (WrittenOff => WrittenOff') /\ (WrittenOff' \/ prom = file)
      BY <1>1, <1>5, <2>1, <2>2 DEF WrittenOff, OpenInv
    <3>2. file' = file
      BY <1>1, <2>2 DEF OpenInv
    <3> QED BY <1>1, <3>1, <3>2, PromisedWriteOff
  <2>3. CASE file' = R /\ pc' = "reload"
    <3>1. ReloadPending' /\ (WrittenOff' => WrittenOff)
      BY <1>1, <1>2, <1>5, <2>3 DEF ReloadPending, WrittenOff
    <3> QED BY <1>1, <3>1, PromisedChange DEF ReloadPromised!Next
  <2>4. CASE file' = R /\ pc' = "idle"
    <3>1. WrittenOff'
      BY <1>2, <1>5, <2>4 DEF WrittenOff
    <3> QED BY <1>1, <3>1, PromisedUnasked DEF ReloadPromised!Next
  <2> QED BY <1>5, <2>1, <2>2, <2>3, <2>4
<1> QED BY <1>3, <1>4, <1>5

LEMMA PromisedStep ==
  TypeInv /\ PhaseInv /\ ReloadInv /\ OpenInv /\ [Next]_vars
    => [ReloadPromised!Next]_(ReloadPromised!vars)
<1> SUFFICES ASSUME TypeInv, PhaseInv, ReloadInv, OpenInv, [Next]_vars
             PROVE  ReloadPromised!Next \/ UNCHANGED ReloadPromised!vars
  OBVIOUS
<1>1. CASE ~HasFile
  BY <1>1, PromisedNobody DEF ReloadPromised!Next
<1> SUFFICES ASSUME HasFile
             PROVE  ReloadPromised!Next \/ UNCHANGED ReloadPromised!vars
  BY <1>1
<1>2. CASE Panic \/ Crash \/ ConfigWorkerPanics \/ (FirstConfigSync /\ Die)
  BY <1>2, PromisedDie DEF Panic, Crash, ConfigWorkerPanics
<1>3. CASE TruncateFile
  BY <1>3, PromisedTruncate
<1>4. CASE WriteFile
  BY <1>4, PromisedWrite
<1>5. CASE Reload
  <2>1. /\ UNCHANGED <<file, prom, lost>> /\ ReloadPending /\ ReloadPending'
        /\ pc # "writing" /\ pc' # "writing"
    BY <1>5 DEF Reload, Finish, ReloadPending, TypeInv, Types, outVars
  <2>2. WrittenOff' <=> WrittenOff
    BY <2>1 DEF WrittenOff
  <2> QED BY <2>1, <2>2, PromisedStutter
<1>6. CASE GetConfigMap \/ CreateConfigMap \/ UpdateConfigMap \/ ReadFile
  <2>1. UNCHANGED <<file, prom, inflight, lost>> /\ pc \notin {"writing", "reload"}
    BY <1>6 DEF GetConfigMap, CreateConfigMap, UpdateConfigMap, ReadFile, outVars,
                promVars
  <2>2. \/ pc' \in {"readfile", "createcm", "updatecm", "writefile"}
        \/ ReturnOK(changed) \/ ReturnErr(changed)
    BY <1>6 DEF GetConfigMap, CreateConfigMap, UpdateConfigMap, ReadFile, FailSync,
                Goto
  <2>3. pc' # "writing"
    BY <2>2 DEF ReturnOK, ReturnErr, Finish
  <2> QED BY <2>1, <2>3, PromisedReturn
<1>7. CASE ListRuleGroups \/ RenderRules \/ WaitForCacheSync
           \/ (FirstConfigSync /\ ~Die)
           \/ \E k \in Keys : ProcessNextWorkItem(k)
  <2>1. /\ UNCHANGED <<file, prom, inflight, lost>>
        /\ pc \notin {"writing", "reload"} /\ pc' # "writing"
    BY <1>7 DEF ListRuleGroups, RenderRules, WaitForCacheSync, FirstConfigSync,
                ProcessNextWorkItem, outVars, promVars, PhaseInv
  <2> QED BY <2>1, PromisedReturn
<1>8. CASE OtherReload
  <2>1. /\ UNCHANGED <<file, prom, lost, pc>> /\ ReloadPending'
    BY <1>8 DEF OtherReload, ReloadPending, TypeInv, Types, syncVars, outVars
  <2>2. WrittenOff' <=> WrittenOff
    BY <2>1 DEF WrittenOff
  <2> QED BY <2>1, <2>2, PromisedChange DEF ReloadPromised!Next
<1>9. CASE PromLoads
  <2>1. /\ file' = file /\ prom' = file /\ lost' = {} /\ pc' = pc
        /\ ReloadPending /\ (ReloadPending' => ReloadPending)
    BY <1>9 DEF PromLoads, Source, ReloadPending, syncVars, outVars
  <2>2. ~WrittenOff'
    BY <2>1 DEF WrittenOff
  <2>3. ReloadPromised!Load("prometheus")
    BY <2>1, <2>2 DEF ReloadPromised!Load, Servers
  <2> QED BY <2>3 DEF ReloadPromised!Next, Servers
<1>10. CASE ReloadGivesUp
  <2>1. /\ UNCHANGED <<file, prom, pc>> /\ ReloadPending
        /\ lost' = IF prom = file THEN lost ELSE lost \cup {"gaveup"}
    BY <1>10 DEF ReloadGivesUp, Source, ReloadPending, syncVars, outVars
  <2>2. (WrittenOff => WrittenOff') /\ (WrittenOff' \/ prom = file)
    BY <2>1 DEF WrittenOff
  <2> QED BY <2>1, <2>2, PromisedWriteOff
<1>11. ASSUME \/ \E k \in Keys : \/ EditRuleGroup(k) \/ ObserveRuleGroup(k)
                                 \/ QueueDelayElapses(k) \/ UpdateRGStatus(k)
              \/ ResyncRuleGroups
              \/ \E n \in Notifications : HandleNotification(n)
              \/ Start \/ Propagate \/ EditScrape \/ UNCHANGED vars
       PROVE  UNCHANGED ReloadPromised!vars
  <2>1. UNCHANGED <<pc, file, prom, inflight, lost>>
    BY <1>11 DEF EditScrape, EditRuleGroup, ObserveRuleGroup, QueueDelayElapses,
       UpdateRGStatus, ResyncRuleGroups, HandleNotification, Start, Propagate, vars,
       others, syncVars, outVars, promVars
  <2> QED BY <2>1, PromisedStutter DEF WrittenOff, ReloadPending
<1> QED BY <1>2, <1>3, <1>4, <1>5, <1>6, <1>7, <1>8, <1>9, <1>10, <1>11
        DEF Next, SyncRules

\* The rules half implements the promise: each change of the rules file is
\* followed by a load of what the file then holds, or is given up on record,
\* however syncs, errors, crashes and the reloads of both workers overlap.
THEOREM KeepsReloadPromiseCorrect == Spec => KeepsReloadPromise
<1>1. Init => PhaseInv /\ ReloadInv /\ OpenInv
  BY DEF Init, PhaseInv, ReloadInv, OpenInv
<1> QED BY <1>1, PromisedInit, PromisedStep, TypeInit, TypeStep, PhaseStep,
           ReloadStep, OpenStep, PTL
        DEF Spec, KeepsReloadPromise, ReloadPromised!Spec


-----------------------------------------------------------------------------
(***************************************************************************)
(* Freshness.  Between two syncs, each key whose cached spec differs from  *)
(* the one listed last is notified, delayed or dirty, so another sync will *)
(* come; and a sync that returned without an error has published what it   *)
(* listed.  Only the two together say anything of a quiet controller.      *)
(***************************************************************************)
Synced == phase \in {"initial", "running"} /\ pc \notin {"config", "list"}

LinkInv ==
  Synced => \A k \in Keys :
              Render(cache)[k] # Render(snap)[k] => Pending(k) \/ k \in missed

OutputInv ==
  /\ pc \in {"readfile", "writefile", "writing"} => (HasCM => cm = Render(snap))
  /\ phase \in {"initial", "running"} /\ pc \in {"reload", "idle"} /\ ~lastErr
       => Published(snap)

\* Steps that leave the cache, the notifications and the list alone and take
\* no key off the queue.
LEMMA LinkFrame ==
  ASSUME LinkInv, UNCHANGED <<cache, snap, notif, missed, dirty, delayed>>,
         Synced' => Synced
  PROVE  LinkInv'
BY DEF LinkInv, Pending, Render

LEMMA LinkEnvironment ==
  ASSUME TypeInv, LinkInv, EnvStep
  PROVE  LinkInv'
<1> SUFFICES ASSUME Synced', NEW q \in Keys,
                    Render(cache)'[q] # Render(snap)'[q]
             PROVE  Pending(q)' \/ q \in missed'
  BY DEF LinkInv
<1>1. UNCHANGED <<phase, pc, snap>> /\ InformerStep
  BY EnvShape DEF others, syncVars
<1>2. ASSUME cache'[q] = cache[q] PROVE Pending(q) \/ q \in missed
  <2>1. Render(cache)'[q] = Render(cache)[q]
    BY <1>2 DEF Render
  <2>2. Render(snap)'[q] = Render(snap)[q]
    BY <1>1 DEF Render
  <2> QED BY <1>1, <2>1, <2>2 DEF LinkInv, Synced
<1> QED BY <1>1, <1>2, NothingSlips DEF TypeInv, Types

\* The steps of the sync: a list makes the link anew, nothing else touches it.
LEMMA LinkStep == TypeInv /\ PhaseInv /\ LinkInv /\ [Next]_vars => LinkInv'
<1> SUFFICES ASSUME TypeInv, PhaseInv, LinkInv, [Next]_vars PROVE LinkInv'
  OBVIOUS
<1>1. CASE ListRuleGroups
  <2>1. cache' = cache /\ snap' = cache
    BY <1>1 DEF ListRuleGroups
  <2>2. Render(cache)' = Render(snap)'
    BY <2>1 DEF Render
  <2> QED BY <2>2 DEF LinkInv
<1>2. ASSUME Die PROVE LinkInv'
  BY <1>2 DEF Die, LinkInv, Synced
<1>3. ASSUME \/ (\E k \in Keys : UpdateRGStatus(k)) \/ RenderRules
             \/ GetConfigMap \/ CreateConfigMap \/ UpdateConfigMap
             \/ ReadFile \/ TruncateFile \/ WriteFile \/ Reload
      PROVE  LinkInv'
  <2>1. UNCHANGED <<cache, snap, notif, missed>>
    BY <1>3 DEF UpdateRGStatus, RenderRules, GetConfigMap, CreateConfigMap,
       UpdateConfigMap, ReadFile, TruncateFile, WriteFile, Reload, informerVars
  <2>2. pc \notin {"config", "list", "idle"}
    BY <1>3 DEF UpdateRGStatus, RenderRules, GetConfigMap, CreateConfigMap,
       UpdateConfigMap, ReadFile, TruncateFile, WriteFile, Reload
  <2>3. UNCHANGED <<dirty, delayed>>
    <3>1. CASE (\E k \in Keys : UpdateRGStatus(k)) \/ RenderRules
      BY <3>1 DEF UpdateRGStatus, RenderRules, queueVars
    <3>2. ASSUME NEW b, ReturnOK(b) \/ ReturnErr(b) \/ Finish(b)
                        \/ \E l \in PCs : Goto(l)
          PROVE  UNCHANGED <<dirty, delayed>>
      BY <3>2 DEF ReturnOK, ReturnErr, Finish, Goto, DoneAll, queueVars
    <3>3. CASE GetConfigMap \/ CreateConfigMap \/ TruncateFile
      <4>1. ReturnErr(changed) \/ \E l \in PCs : Goto(l)
        BY <3>3 DEF GetConfigMap, CreateConfigMap, TruncateFile, FailSync, PCs
      <4> QED BY <3>2, <4>1
    <3>4. CASE ReadFile
      <4>1. ReturnErr(changed) \/ ReturnOK(changed) \/ \E l \in PCs : Goto(l)
        BY <3>4 DEF ReadFile, FailSync, PCs
      <4> QED BY <3>2, <4>1
    <3>5. CASE UpdateConfigMap
      <4>1. ReturnErr(changed) \/ UNCHANGED queueVars
        BY <3>5 DEF UpdateConfigMap, FailSync
      <4> QED BY <3>2, <4>1 DEF queueVars
    <3>6. CASE WriteFile
      <4>1. ReturnErr(changed) \/ ReturnOK(TRUE)
        BY <3>6 DEF WriteFile, FailSync
      <4> QED BY <3>2, <4>1
    <3>7. CASE Reload
      BY <3>7 DEF Reload, Finish, DoneAll
    <3> QED BY <1>3, <3>1, <3>3, <3>4, <3>5, <3>6, <3>7
  <2>4. Synced
    BY <2>2 DEF Synced, PhaseInv, TypeInv, Types
  <2> QED BY <2>1, <2>3, <2>4, LinkFrame
<1>4. CASE Panic \/ Crash \/ ConfigWorkerPanics \/ (FirstConfigSync /\ Die)
  BY <1>2, <1>4 DEF Panic, Crash, ConfigWorkerPanics
<1>5. ASSUME NEW k \in Keys, ProcessNextWorkItem(k) PROVE LinkInv'
  BY <1>5 DEF ProcessNextWorkItem, LinkInv, Synced
<1>6. CASE Start \/ WaitForCacheSync \/ (FirstConfigSync /\ ~Die)
  BY <1>6 DEF Start, WaitForCacheSync, FirstConfigSync, LinkInv, Synced
<1>7. CASE OtherReload \/ PromLoads \/ ReloadGivesUp \/ Propagate \/ EditScrape
           \/ UNCHANGED vars
  <2>1. UNCHANGED <<cache, notif, missed, queueVars, syncVars>>
    BY <1>7 DEF OtherReload, PromLoads, ReloadGivesUp, Propagate, EditScrape, vars,
                informerVars
  <2>2. UNCHANGED <<cache, snap, notif, missed, dirty, delayed>> /\ (Synced' => Synced)
    BY <2>1 DEF informerVars, queueVars, syncVars, Synced
  <2> QED BY <2>2, LinkFrame
<1>8. CASE EnvStep
  BY <1>8, LinkEnvironment
<1> QED BY <1>1, <1>3, <1>4, <1>5, <1>6, <1>7, <1>8 DEF Next, SyncRules, EnvStep

\* A sync keeps the order: the ConfigMap, then the file, then the reload.
LEMMA OutputSync ==
  ASSUME TypeInv, PhaseInv, OutputInv, SyncRules
  PROVE  OutputInv'
<1> USE DEF OutputInv
<1> DEFINE R == Render(snap)
<1>1. ASSUME snap' = snap, NEW b, ReturnErr(b) PROVE OutputInv'
  <2>1. pc' \in {"reload", "idle"} /\ (pc' = "reload" => lastErr')
    BY <1>1 DEF ReturnErr, Finish
  <2>2. pc' = "idle" => lastErr'
    BY <1>1 DEF ReturnErr, Finish
  <2> QED BY <2>1, <2>2
<1>2. ASSUME snap' = snap, Published(snap)', NEW b, ReturnOK(b) PROVE OutputInv'
  <2>1. pc' \in {"reload", "idle"}
    BY <1>2 DEF ReturnOK, Finish
  <2> QED BY <1>2, <2>1
<1>3. CASE ListRuleGroups \/ (\E k \in Keys : UpdateRGStatus(k)) \/ RenderRules
  <2>1. pc' \in {"status", "getcm"}
    BY <1>3 DEF ListRuleGroups, UpdateRGStatus, RenderRules
  <2> QED BY <2>1
<1>4. CASE Panic
  BY <1>4 DEF Panic, Die
<1>5. CASE GetConfigMap
  <2>1. UNCHANGED <<snap, cm>>
    BY <1>5 DEF GetConfigMap, outVars
  <2>2. CASE ReturnErr(changed)
    BY <1>1, <2>1, <2>2
  <2>3. CASE Goto("createcm") \/ Goto("updatecm")
    BY <2>3 DEF Goto
  <2>4. CASE Goto("readfile") /\ (HasCM => cm = R)
    <3>1. pc' = "readfile" /\ (HasCM' => cm' = R')
      BY <2>1, <2>4 DEF Goto, Render
    <3> QED BY <3>1
  <2> QED BY <1>5, <2>2, <2>3, <2>4 DEF GetConfigMap, FailSync
<1>6. CASE CreateConfigMap
  <2>1. snap' = snap
    BY <1>6 DEF CreateConfigMap
  <2>2. CASE Goto("updatecm")
    BY <2>2 DEF Goto
  <2> QED BY <1>1, <1>6, <2>1, <2>2 DEF CreateConfigMap, FailSync
<1>7. CASE UpdateConfigMap
  <2>1. snap' = snap
    BY <1>7 DEF UpdateConfigMap
  <2>2. CASE cm' = R /\ pc' = "readfile"
    BY <2>1, <2>2 DEF Render
  <2> QED BY <1>1, <1>7, <2>1, <2>2 DEF UpdateConfigMap, FailSync
<1>8. CASE ReadFile
  <2>1. UNCHANGED <<snap, cm, file>> /\ (HasCM => cm = R)
    BY <1>8 DEF ReadFile, outVars
  <2>2. CASE ReturnErr(changed)
    BY <1>1, <2>1, <2>2
  <2>3. CASE Goto("writefile")
    BY <2>1, <2>3 DEF Goto, Render
  <2>4. CASE ReturnOK(changed) /\ (~HasFile \/ file = R)
    <3>1. Published(snap)'
      BY <2>1, <2>4 DEF Published, Render
    <3> QED BY <1>2, <2>1, <2>4, <3>1
  <2> QED BY <1>8, <2>2, <2>3, <2>4 DEF ReadFile, FailSync
<1>9. CASE TruncateFile
  <2>1. UNCHANGED <<snap, cm>> /\ (HasCM => cm = R)
    BY <1>9 DEF TruncateFile
  <2>2. CASE Goto("writing")
    BY <2>1, <2>2 DEF Goto, Render
  <2> QED BY <1>1, <1>9, <2>1, <2>2 DEF TruncateFile, FailSync
<1>10. CASE WriteFile
  <2>1. UNCHANGED <<snap, cm>> /\ (HasCM => cm = R)
    BY <1>10 DEF WriteFile
  <2>2. CASE ReturnOK(TRUE) /\ file' = R
    <3>1. Published(snap)'
      BY <2>1, <2>2 DEF Published, Render
    <3> QED BY <1>2, <2>1, <2>2, <3>1
  <2>3. CASE ReturnErr(changed)
    BY <1>1, <2>1, <2>3
  <2> QED BY <1>10, <2>2, <2>3 DEF WriteFile, FailSync
<1>11. CASE Reload
  <2>1. UNCHANGED <<snap, cm, file, lastErr>> /\ pc = "reload" /\ pc' = "idle"
    BY <1>11 DEF Reload, Finish, outVars
  <2>2. phase \in {"initial", "running"}
    BY <2>1 DEF PhaseInv, TypeInv, Types
  <2>3. ~lastErr' => Published(snap)'
    BY <2>1, <2>2 DEF Published, Render
  <2> QED BY <2>1, <2>3
<1> QED BY <1>3, <1>4, <1>5, <1>6, <1>7, <1>8, <1>9, <1>10, <1>11 DEF SyncRules

LEMMA OutputStep == TypeInv /\ PhaseInv /\ OutputInv /\ [Next]_vars => OutputInv'
<1> SUFFICES ASSUME TypeInv, PhaseInv, OutputInv, [Next]_vars PROVE OutputInv'
  OBVIOUS
<1>1. CASE SyncRules
  BY <1>1, OutputSync
<1>2. ASSUME Crash \/ Start \/ WaitForCacheSync \/ FirstConfigSync
             \/ ConfigWorkerPanics \/ \E k \in Keys : ProcessNextWorkItem(k)
      PROVE  OutputInv'
  <2>1. \/ phase' = "down" /\ pc' = "idle"
        \/ phase' = "boot" /\ pc' = pc /\ phase = "down"
        \/ pc' \in {"config", "list"}
    BY <1>2 DEF Crash, Die, Start, WaitForCacheSync, FirstConfigSync,
       ConfigWorkerPanics, ProcessNextWorkItem
  <2> QED BY <2>1 DEF OutputInv, PhaseInv
<1>3. ASSUME \/ \E k \in Keys : \/ EditRuleGroup(k) \/ ObserveRuleGroup(k)
                                \/ QueueDelayElapses(k)
             \/ ResyncRuleGroups
             \/ \E n \in Notifications : HandleNotification(n)
             \/ OtherReload \/ PromLoads \/ ReloadGivesUp \/ Propagate
             \/ EditScrape \/ UNCHANGED vars
      PROVE  OutputInv'
  <2>1. UNCHANGED <<phase, pc, snap, lastErr, cm, file>>
    BY <1>3 DEF EditScrape, EditRuleGroup, ObserveRuleGroup, QueueDelayElapses,
       ResyncRuleGroups, HandleNotification, OtherReload, PromLoads,
       ReloadGivesUp, Propagate, vars, others, syncVars, outVars
  <2> QED BY <2>1 DEF OutputInv, Published, Render
<1> QED BY <1>1, <1>2, <1>3 DEF Next

\* A controller with nothing left to do, whose last sync did not fail, has
\* published what its cache says: no change is lost between the handlers, the
\* queue and the list, for any number of objects and any interleaving.
THEOREM FreshCorrect == Spec => []FreshWhenQuiet
<1>1. Init => PhaseInv /\ LinkInv /\ OutputInv
  BY DEF Init, PhaseInv, LinkInv, OutputInv, Synced
<1>2. TypeInv /\ LinkInv /\ OutputInv => FreshWhenQuiet
  <2> SUFFICES ASSUME TypeInv, LinkInv, OutputInv, Quiet, ~lastErr, missed = {}
               PROVE  Published(cache)
    BY DEF FreshWhenQuiet
  <2>1. Published(snap)
    BY DEF Quiet, OutputInv
  <2>2. \A k \in Keys : Render(cache)[k] = Render(snap)[k]
    BY DEF Quiet, LinkInv, Synced
  <2>3. Render(cache) = Render(snap)
    BY <2>2 DEF Render
  <2> QED BY <2>1, <2>3 DEF Published
<1> QED BY <1>1, <1>2, TypeInit, TypeStep, PhaseStep, LinkStep, OutputStep, PTL
        DEF Spec

-----------------------------------------------------------------------------
(***************************************************************************)
(* Nothing is withdrawn that no user deleted.  Along the way from the API  *)
(* server to Prometheus every place that holds a group is followed by one  *)
(* that holds it still: what is shown anywhere is in the cache (or in the  *)
(* first list the cache is waiting for), hence in the next list, hence in  *)
(* what a sync writes; and what Prometheus runs is in what it reads next.  *)
(***************************************************************************)
Has(c, k) == c \in Renderings /\ c[k] # Absent
Shown(k) == Has(cm, k) \/ Has(file, k) \/ Has(mount, k) \/ Has(prom, k)
Cached(k) == cache[k] # Absent
Listed(k) == snap[k] # Absent

ListedInv == phase \in {"initial", "running"} => unlisted = {}

Chain(k) ==
  /\ HasFile => (Has(prom, k) /\ file \in Renderings => Has(file, k))
  /\ ~HasFile =>
       /\ Has(prom, k) /\ mount \in Renderings => Has(mount, k)
       /\ Has(prom, k) /\ cm \in Renderings => Has(cm, k)
       /\ Has(mount, k) /\ cm \in Renderings => Has(cm, k)

Kept(k) ==
  /\ Shown(k) \/ Cached(k) => api[k] # Absent
  /\ Shown(k) => phase = "down" \/ k \in unlisted \/ Cached(k)
  /\ Listed(k) => Cached(k)
  /\ Shown(k) => pc \in {"idle", "config", "list"} \/ Listed(k)
  /\ Chain(k)

KeepInv == ListedInv /\ \A k \in Keys \ removed : Kept(k)

LEMMA KeepInit == Init => KeepInv
<1>1. ASSUME Init, NEW k \in Keys PROVE Kept(k)
  <2>1. ~Shown(k)
    BY <1>1, SentinelAssumption DEF Init, Shown, Has
  <2>2. ~Cached(k) /\ ~Listed(k)
    BY <1>1 DEF Init, InformerInit, Cached, Listed, NoObjects
  <2>3. Chain(k)
    BY <2>1 DEF Chain, Shown
  <2> QED BY <2>1, <2>2, <2>3 DEF Kept
<1>2. Init => ListedInv
  BY DEF Init, ListedInv
<1> QED BY <1>1, <1>2 DEF KeepInv

\* A sync writes k if it listed k.
LEMMA RenderHas ==
  ASSUME TypeInv, NEW k \in Keys
  PROVE  Has(Render(snap), k) <=> Listed(k)
<1>1. Render(snap) \in Renderings
  BY RenderType DEF TypeInv, Types
<1>2. Listed(k) => snap[k].spec \in Specs
  BY DEF Listed, TypeInv, Types, Objects
<1> QED BY <1>1, <1>2, AbsentAssumption DEF Has, Listed, Render

LEMMA KeepListed == TypeInv /\ PhaseInv /\ ListedInv /\ [Next]_vars => ListedInv'
<1> SUFFICES ASSUME TypeInv, PhaseInv, ListedInv, [Next]_vars,
                    phase' \in {"initial", "running"}
             PROVE  unlisted' = {}
  BY DEF ListedInv
<1>1. ASSUME SyncRules PROVE unlisted' = {}
  <2>1. unlisted' \subseteq unlisted
    BY <1>1 DEF SyncRules, ListRuleGroups, UpdateRGStatus, RenderRules, Panic,
       Die, InformerReset, GetConfigMap, CreateConfigMap, UpdateConfigMap,
       ReadFile, TruncateFile, WriteFile, Reload, informerVars
  <2>2. pc # "idle"
    BY <1>1 DEF SyncRules, ListRuleGroups, UpdateRGStatus, RenderRules, Panic,
       GetConfigMap, CreateConfigMap, UpdateConfigMap, ReadFile, TruncateFile,
       WriteFile, Reload
  <2> QED BY <2>1, <2>2 DEF ListedInv, PhaseInv, TypeInv, Types
<1>2. ASSUME NEW k \in Keys, ObserveRuleGroup(k) PROVE unlisted' = {}
  BY <1>2 DEF ObserveRuleGroup, Observe, others, syncVars, ListedInv
<1>3. CASE Start \/ Crash \/ ConfigWorkerPanics \/ (FirstConfigSync /\ Die)
  BY <1>3 DEF Start, Crash, ConfigWorkerPanics, Die
<1>4. CASE WaitForCacheSync
  BY <1>4 DEF WaitForCacheSync, HasSynced, informerVars
<1>5. ASSUME \/ \E k \in Keys : \/ EditRuleGroup(k) \/ QueueDelayElapses(k)
                                \/ ProcessNextWorkItem(k)
             \/ ResyncRuleGroups
             \/ \E n \in Notifications : HandleNotification(n)
             \/ OtherReload \/ PromLoads \/ ReloadGivesUp \/ Propagate
             \/ EditScrape \/ (FirstConfigSync /\ ~Die)
             \/ UNCHANGED vars
      PROVE  unlisted' = {}
  <2>1. UNCHANGED <<unlisted, phase>>
    BY <1>5 DEF EditScrape, FirstConfigSync, EditRuleGroup, Edit, QueueDelayElapses, ProcessNextWorkItem,
       ResyncRuleGroups, Resync, HandleNotification, enqueuerule, OtherReload,
       PromLoads, ReloadGivesUp, Propagate, vars, others, syncVars, informerVars
  <2> QED BY <2>1 DEF ListedInv
<1> QED BY <1>1, <1>2, <1>3, <1>4, <1>5 DEF Next

\* Steps of the environment and the queue: only the API and the cache move.
LEMMA KeepEnvironment ==
  ASSUME TypeInv, NEW q \in Keys, q \notin removed', q \notin removed => Kept(q), EnvStep
  PROVE  Kept(q)'
<1>1. UNCHANGED <<phase, pc, snap, cm, file, mount, prom>> /\ InformerStep
  BY EnvShape DEF others, syncVars, outVars, promVars
<1>2. /\ Shown(q)' = Shown(q) /\ Chain(q)' = Chain(q) /\ Listed(q)' = Listed(q)
  BY <1>1 DEF Shown, Chain, Has, Listed
<1>3. /\ q \notin removed
      /\ api[q] # Absent => api'[q] # Absent
      /\ api[q] # Absent /\ Cached(q) => Cached(q)'
      /\ api[q] # Absent /\ q \in unlisted => q \in unlisted' \/ Cached(q)'
      /\ Cached(q)' => Cached(q) \/ api[q] # Absent
  BY <1>1, NothingVanishes DEF TypeInv, Types, Cached
<1> QED BY <1>1, <1>2, <1>3 DEF Kept

\* The end of a process empties the cache and the list.
LEMMA KeepDie ==
  ASSUME NEW q \in Keys, Kept(q), Die
  PROVE  Kept(q)'
<1>1. /\ UNCHANGED <<api, cm, file, mount, prom>>
      /\ phase' = "down" /\ pc' = "idle"
  BY DEF Die, InformerReset, outVars
<1>2. ~Cached(q)' /\ ~Listed(q)'
  BY DEF Die, InformerReset, Cached, Listed, NoObjects
<1>3. Shown(q)' = Shown(q) /\ Chain(q)' = Chain(q)
  BY <1>1 DEF Shown, Chain, Has
<1> QED BY <1>1, <1>2, <1>3 DEF Kept

\* Steps of the sync.
LEMMA KeepSync ==
  ASSUME TypeInv, PhaseInv, ListedInv, NEW q \in Keys, Kept(q), SyncRules
  PROVE  Kept(q)'
<1>1. CASE Panic
  BY <1>1, KeepDie DEF Panic
<1>2. CASE ListRuleGroups
  <2>1. /\ UNCHANGED <<api, cache, unlisted, phase, cm, file, mount, prom>>
        /\ snap' = cache /\ pc = "list"
    BY <1>2 DEF ListRuleGroups, outVars, promVars
  <2>2. Shown(q)' = Shown(q) /\ Chain(q)' = Chain(q) /\ Cached(q)' = Cached(q)
        /\ Listed(q)' = Cached(q)
    BY <2>1 DEF Shown, Chain, Has, Cached, Listed
  <2>3. phase \in {"initial", "running"} /\ unlisted = {}
    BY <2>1 DEF PhaseInv, ListedInv, TypeInv, Types
  <2> QED BY <2>1, <2>2, <2>3 DEF Kept
<1>3. ASSUME NEW k \in Keys, UpdateRGStatus(k) PROVE Kept(q)'
  <2>1. /\ UNCHANGED <<cache, unlisted, phase, snap, cm, file, mount, prom>>
        /\ pc' = pc
    BY <1>3 DEF UpdateRGStatus, outVars, promVars
  <2>2. WithStatus(snap[k]) \in Objects
    <3>1. snap[k] \in Objects
      BY <1>3 DEF UpdateRGStatus, TypeInv, Types, Present
    <3> QED BY <3>1, WithStatusType
  <2>3. api[q] # Absent => api'[q] # Absent
    BY <1>3, <2>2, AbsentAssumption
       DEF UpdateRGStatus, TypeInv, Types, InformerTypeOK
  <2>4. Shown(q)' = Shown(q) /\ Chain(q)' = Chain(q) /\ Cached(q)' = Cached(q)
        /\ Listed(q)' = Listed(q)
    BY <2>1 DEF Shown, Chain, Has, Cached, Listed
  <2> QED BY <2>1, <2>3, <2>4 DEF Kept
<1>4. ASSUME \/ RenderRules \/ GetConfigMap \/ CreateConfigMap
             \/ UpdateConfigMap \/ ReadFile \/ TruncateFile \/ WriteFile \/ Reload
      PROVE  Kept(q)'
  <2> DEFINE R == Render(snap)
  <2>1. UNCHANGED <<api, cache, unlisted, snap, mount, prom>>
    BY <1>4 DEF RenderRules, GetConfigMap, CreateConfigMap, UpdateConfigMap,
       ReadFile, TruncateFile, WriteFile, Reload, informerVars, outVars, promVars
  <2>2. pc \notin {"idle", "config", "list"}
    BY <1>4 DEF RenderRules, GetConfigMap, CreateConfigMap, UpdateConfigMap,
       ReadFile, TruncateFile, WriteFile, Reload
  <2>3. phase \in {"initial", "running"} /\ unlisted = {}
    BY <2>2 DEF PhaseInv, ListedInv, TypeInv, Types
  <2>4. cm' \in {cm, NoKey, R}
    <3>1. CASE CreateConfigMap \/ UpdateConfigMap
      BY <3>1, Zenon DEF CreateConfigMap, UpdateConfigMap
    <3>2. CASE ~(CreateConfigMap \/ UpdateConfigMap)
      BY <1>4, <3>2 DEF RenderRules, GetConfigMap, ReadFile, TruncateFile,
         WriteFile, Reload, outVars
    <3> QED BY <3>1, <3>2
  <2>5. file' \in {file, Torn, R}
    <3>1. CASE TruncateFile \/ WriteFile
      BY <3>1, Zenon DEF TruncateFile, WriteFile
    <3>2. CASE ~(TruncateFile \/ WriteFile)
      BY <1>4, <3>2 DEF RenderRules, GetConfigMap, CreateConfigMap,
         UpdateConfigMap, ReadFile, Reload, outVars
    <3> QED BY <3>1, <3>2
  <2> HIDE DEF R
  <2>6. Has(R, q) <=> Listed(q)
    BY RenderHas DEF R
  <2>7. ~Has(NoKey, q) /\ ~Has(Torn, q) /\ NoKey \notin Renderings /\ Torn \notin Renderings
    BY SentinelAssumption DEF Has
  <2>8. Cached(q)' = Cached(q) /\ Listed(q)' = Listed(q)
        /\ Has(mount, q)' = Has(mount, q) /\ Has(prom, q)' = Has(prom, q)
    BY <2>1 DEF Cached, Listed, Has
  <2>9. Has(cm, q)' <=> Has(cm', q)
    BY DEF Has
  <2>10. Has(file, q)' <=> Has(file', q)
    BY DEF Has
  <2>11. Has(cm', q) => Has(cm, q) \/ Listed(q)
    BY <2>4, <2>6, <2>7
  <2>12. Has(file', q) => Has(file, q) \/ Listed(q)
    BY <2>5, <2>6, <2>7
  <2>13. Shown(q)' => Listed(q)
    BY <2>2, <2>8, <2>9, <2>10, <2>11, <2>12 DEF Shown, Kept
  <2>14. Listed(q) => Cached(q) /\ api[q] # Absent
    BY DEF Kept
  <2>15. Chain(q)'
    <3>1. Shown(q) => Listed(q)
      BY <2>2 DEF Kept
    <3>2. Has(prom, q) /\ file' \in Renderings /\ HasFile => Has(file', q)
      BY <2>5, <2>6, <2>7, <3>1 DEF Kept, Chain, Shown
    <3>3. Has(prom, q) /\ cm' \in Renderings /\ ~HasFile => Has(cm', q)
      BY <2>4, <2>6, <2>7, <3>1 DEF Kept, Chain, Shown
    <3>4. Has(mount, q) /\ cm' \in Renderings /\ ~HasFile => Has(cm', q)
      BY <2>4, <2>6, <2>7, <3>1 DEF Kept, Chain, Shown
    <3>5. Has(prom, q) /\ mount' \in Renderings /\ ~HasFile => Has(mount, q)
      BY <2>1 DEF Kept, Chain
    <3> QED BY <2>8, <2>9, <2>10, <3>2, <3>3, <3>4, <3>5 DEF Chain
  <2> QED BY <2>1, <2>8, <2>13, <2>14, <2>15 DEF Kept
<1> QED BY <1>1, <1>2, <1>3, <1>4 DEF SyncRules

LEMMA KeepStep == TypeInv /\ PhaseInv /\ KeepInv /\ [Next]_vars => KeepInv'
<1> SUFFICES ASSUME TypeInv, PhaseInv, KeepInv, [Next]_vars PROVE KeepInv'
  OBVIOUS
<1> SUFFICES ASSUME NEW q \in Keys, q \notin removed' PROVE Kept(q)'
  BY KeepListed DEF KeepInv
<1>1. CASE EnvStep
  BY <1>1, KeepEnvironment DEF KeepInv
<1>2. ASSUME \/ \E k \in Keys : ProcessNextWorkItem(k)
             \/ Start \/ WaitForCacheSync \/ FirstConfigSync \/ SyncRules
             \/ OtherReload \/ PromLoads \/ ReloadGivesUp \/ Propagate
             \/ ConfigWorkerPanics \/ EditScrape \/ Crash \/ UNCHANGED vars
      PROVE  Kept(q)
  <2>1. removed' = removed
    BY <1>2 DEF FirstConfigSync, ConfigWorkerPanics, EditScrape, ProcessNextWorkItem, Start, InformerStart, WaitForCacheSync,
       SyncRules, ListRuleGroups, UpdateRGStatus, RenderRules, Panic, Die,
       InformerReset, GetConfigMap, CreateConfigMap, UpdateConfigMap, ReadFile,
       TruncateFile, WriteFile, Reload, OtherReload, PromLoads, ReloadGivesUp,
       Propagate, Crash, vars, informerVars
  <2> QED BY <2>1 DEF KeepInv
<1>3. CASE SyncRules
  BY <1>2, <1>3, KeepSync DEF KeepInv
<1>4. CASE Crash \/ ConfigWorkerPanics \/ (FirstConfigSync /\ Die)
  BY <1>2, <1>4, KeepDie DEF Crash, ConfigWorkerPanics
<1>5. ASSUME NEW k \in Keys, ProcessNextWorkItem(k) PROVE Kept(q)'
  <2>1. /\ UNCHANGED <<api, cache, unlisted, phase, snap, cm, file, mount, prom>>
        /\ pc' = "list"
    BY <1>5 DEF ProcessNextWorkItem, informerVars, outVars, promVars
  <2> QED BY <1>2, <1>5, <2>1 DEF Kept, Shown, Chain, Has, Cached, Listed
<1>6. CASE Start
  <2>1. /\ UNCHANGED <<api, cache, pc, snap, cm, file, mount, prom>>
        /\ unlisted' = Present(api)
    BY <1>6 DEF Start, InformerStart, outVars, promVars
  <2> QED BY <1>2, <1>6, <2>1
          DEF Kept, Shown, Chain, Has, Cached, Listed, Present
<1>7. CASE WaitForCacheSync \/ (FirstConfigSync /\ ~Die)
  <2>1. /\ UNCHANGED <<api, cache, unlisted, snap, cm, file, mount, prom>>
        /\ phase # "down" /\ pc' \in {"config", "list"}
    BY <1>7 DEF WaitForCacheSync, FirstConfigSync, informerVars, outVars, promVars,
                PhaseInv
  <2> QED BY <1>2, <1>7, <2>1 DEF Kept, Shown, Chain, Has, Cached, Listed
<1>8. CASE OtherReload \/ ReloadGivesUp \/ EditScrape \/ UNCHANGED vars
  <2>1. UNCHANGED <<api, cache, unlisted, phase, pc, snap, cm, file, mount, prom>>
    BY <1>8 DEF OtherReload, ReloadGivesUp, EditScrape, vars, informerVars, syncVars,
                outVars, promVars
  <2> QED BY <1>2, <1>8, <2>1 DEF Kept, Shown, Chain, Has, Cached, Listed
<1>9. CASE PromLoads
  <2>1. /\ UNCHANGED <<api, cache, unlisted, phase, pc, snap, cm, file, mount>>
        /\ prom' = Source
    BY <1>9 DEF PromLoads, informerVars, syncVars, outVars
  <2>2. HasFile => prom' = file
    BY <2>1 DEF Source
  <2>3. ~HasFile => prom' = mount
    BY <2>1 DEF Source
  <2>4. Shown(q)' => Shown(q)
    BY <2>1, <2>2, <2>3 DEF Shown, Has
  <2>5. Chain(q)'
    BY <1>2, <1>9, <2>1, <2>2, <2>3 DEF Kept, Chain, Has
  <2> QED BY <1>2, <1>9, <2>1, <2>4, <2>5 DEF Kept, Cached, Listed
<1>10. CASE Propagate
  <2>1. /\ UNCHANGED <<api, cache, unlisted, phase, pc, snap, cm, file, prom>>
        /\ mount' = cm /\ ~HasFile
    BY <1>10 DEF Propagate, informerVars, syncVars, promVars
  <2>2. Shown(q)' => Shown(q)
    BY <2>1 DEF Shown, Has
  <2>3. Chain(q)'
    BY <1>2, <1>10, <2>1 DEF Kept, Chain, Has
  <2> QED BY <1>2, <1>10, <2>1, <2>2, <2>3 DEF Kept, Cached, Listed
<1> QED BY <1>1, <1>3, <1>4, <1>5, <1>6, <1>7, <1>8, <1>9, <1>10
        DEF Next, EnvStep

\* Nobody's rules disappear from the ConfigMap or from Prometheus because of a
\* restart, a half filled cache, a failure or a torn file.
THEOREM NoWithdrawalCorrect == Spec => NoWithdrawal
<1> DEFINE A == \A k \in Keys \ removed' : Keeps(cm, cm', k) /\ Keeps(prom, prom', k)
<1>1. TypeInv /\ PhaseInv /\ KeepInv /\ [Next]_vars => [A]_vars
  <2> SUFFICES ASSUME TypeInv, PhaseInv, KeepInv, Next, NEW q \in Keys,
                      q \notin removed'
               PROVE  Keeps(cm, cm', q) /\ Keeps(prom, prom', q)
    BY DEF KeepInv
  <2>1. CASE UNCHANGED <<cm, prom>>
    BY <2>1 DEF Keeps
  <2>2. CASE PromLoads
    <3>1. cm' = cm /\ prom' = Source /\ removed' = removed
      BY <2>2 DEF PromLoads, outVars, informerVars
    <3>2. Kept(q)
      BY <3>1 DEF KeepInv
    <3>3. Has(prom, q) /\ prom' \in Renderings => Has(prom', q)
      BY <3>1, <3>2 DEF Kept, Chain, Source
    <3> QED BY <3>1, <3>3 DEF Keeps, Has
  <2>3. CASE CreateConfigMap \/ UpdateConfigMap
    <3>1. /\ cm' \in {cm, NoKey, Render(snap)}
          /\ pc \notin {"idle", "config", "list"}
      BY <2>3, Zenon DEF CreateConfigMap, UpdateConfigMap
    <3>2. prom' = prom /\ removed' = removed
      BY <2>3 DEF CreateConfigMap, UpdateConfigMap, promVars, informerVars
    <3>3. Has(cm, q) => Listed(q)
      BY <3>1, <3>2 DEF KeepInv, Kept, Shown
    <3>4. Has(cm, q) /\ cm' \in Renderings => Has(cm', q)
      BY <3>1, <3>3, RenderHas, SentinelAssumption
    <3> QED BY <3>2, <3>4 DEF Keeps, Has
  <2>4. ASSUME ~PromLoads, ~(CreateConfigMap \/ UpdateConfigMap)
        PROVE  UNCHANGED <<cm, prom>>
    <3>1. CASE SyncRules
      BY <2>4, <3>1 DEF SyncRules, ListRuleGroups, UpdateRGStatus, RenderRules,
         Panic, Die, GetConfigMap, ReadFile, TruncateFile, WriteFile, Reload,
         outVars, promVars
    <3>2. CASE ~SyncRules
      BY <2>4, <3>2 DEF Next, EditRuleGroup, ObserveRuleGroup, QueueDelayElapses,
         ProcessNextWorkItem, ResyncRuleGroups, HandleNotification, Start,
         WaitForCacheSync, FirstConfigSync, ConfigWorkerPanics, EditScrape,
         OtherReload, ReloadGivesUp, Propagate, Crash, Die, others, outVars,
         promVars
    <3> QED BY <3>1, <3>2
  <2> QED BY <2>1, <2>2, <2>3, <2>4
<1>2. Init => PhaseInv
  BY DEF Init, PhaseInv
<1>3. Spec => [][A]_vars
  BY <1>1, <1>2, TypeInit, TypeStep, PhaseStep, KeepInit, KeepStep, PTL DEF Spec
<1> QED BY <1>3 DEF NoWithdrawal

=============================================================================

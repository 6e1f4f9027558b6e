-------------------------- MODULE ScrapeSync_proofs --------------------------
(***************************************************************************)
(* Proofs about ScrapeSync for every set of keys, specs and clusters,      *)
(* every template and judgement of the specs, with or without Secret and   *)
(* file, and any number of edits, failures, crashes and scalings.          *)
(***************************************************************************)
EXTENDS ScrapeSync, PromConfig_proofs, Informer_proofs

\* The steps of a sync after its list and before it returns.
Publishing == {"getsecret", "createsecret", "updatesecret", "readfile",
               "writefile", "writing"}

PublishStep ==
  \/ GetSecret \/ CreateSecret \/ UpdateSecret
  \/ ReadFile \/ TruncateFile \/ WriteFile

EnvStep ==
  \/ \E k \in Keys : EditScrape(k) \/ ObserveScrape(k) \/ QueueDelayElapses(k)
  \/ ResyncScrapes
  \/ \E n \in Notifications : enqueuescrape(n)

LEMMA EnvShape == EnvStep => InformerStep /\ UNCHANGED others
  BY DEF EnvStep, InformerStep, EditScrape, ObserveScrape, QueueDelayElapses,
         ResyncScrapes, enqueuescrape

\* A call either fails, which ends the sync, or goes on to the next.
LEMMA PublishShape ==
  ASSUME PublishStep
  PROVE  /\ pc \in Publishing
         /\ \/ \E l \in Publishing : Goto(l)
            \/ FailSync
            \/ Return(FALSE) /\ UNCHANGED fails
         /\ UNCHANGED <<informerVars, seen, snap, todo, clusters, crashes,
                   badGroup, scalings>>
  <1>1. CASE GetSecret
    BY <1>1 DEF GetSecret, Publishing
  <1>2. CASE CreateSecret
    BY <1>2 DEF CreateSecret, Publishing
  <1>3. CASE UpdateSecret
    BY <1>3 DEF UpdateSecret, Publishing
  <1>4. CASE ReadFile
    BY <1>4 DEF ReadFile, Publishing
  <1>5. CASE TruncateFile
    BY <1>5 DEF TruncateFile, Publishing
  <1>6. CASE WriteFile
    BY <1>6 DEF WriteFile, Publishing
  <1> QED BY <1>1, <1>2, <1>3, <1>4, <1>5, <1>6 DEF PublishStep

\* What a call may do to the outputs.
LEMMA PublishOutputs ==
  ASSUME PublishStep
  PROVE  /\ secret' \in {secret, NoKey, Rendering}
         /\ file' \in {file, Torn, Rendering}
  <1>1. CASE GetSecret
    BY <1>1 DEF GetSecret, outVars
  <1>2. CASE CreateSecret
    BY <1>2 DEF CreateSecret
  <1>3. CASE UpdateSecret
    BY <1>3 DEF UpdateSecret
  <1>4. CASE ReadFile
    BY <1>4 DEF ReadFile, outVars
  <1>5. CASE TruncateFile
    BY <1>5 DEF TruncateFile
  <1>6. CASE WriteFile
    BY <1>6 DEF WriteFile
  <1> QED BY <1>1, <1>2, <1>3, <1>4, <1>5, <1>6 DEF PublishStep

-----------------------------------------------------------------------------
(***************************************************************************)
(* Type correctness.                                                       *)
(***************************************************************************)
LEMMA WithStatusType ==
  ASSUME NEW o \in Objects
  PROVE  WithStatus(o) \in Objects
  <1>1. o.spec \in Specs /\ o.errs \in Seq(Specs)
    BY DEF Objects
  <1>2. Append(o.errs, o.spec) \in Seq(Specs)
    BY <1>1
  <1> QED BY <1>1, <1>2 DEF WithStatus, Objects

LEMMA RenderType ==
  ASSUME NEW cl \in SUBSET Clusters,
         NEW objs \in [Keys -> Objects \cup {Absent}]
  PROVE  Render(cl, objs) \in Renderings
  <1>1. Convertible(objs) \in [Keys -> Specs \cup {Absent}]
    BY DEF Convertible, Objects
  <1> QED BY <1>1 DEF Render, Renderings

LEMMA TypeInit == Init => TypeOK
  <1> SUFFICES ASSUME Init PROVE TypeOK
    OBVIOUS
  <1>1. QueueTypeOK
    BY DEF Init, QueueInit, QueueTypeOK
  <1>2. InformerTypeOK
    BY DEF Init, InformerInit, InformerTypeOK
  <1> QED BY <1>1, <1>2 DEF Init, TypeOK, PCs, NoObjects

\* The informer, the handlers and the queue.
LEMMA TypeEnvironment ==
  ASSUME TypeOK, EnvStep
  PROVE  TypeOK'
  <1>1. QueueTypeOK' /\ InformerTypeOK' /\ UNCHANGED others
    BY EnvShape, InformerStepType DEF TypeOK
  <1> QED BY <1>1 DEF TypeOK, others, syncVars, outVars, restVars, Present

\* The end of a process.
LEMMA TypeDie ==
  ASSUME TypeOK, Die, fails' \in Nat, crashes' \in Nat
  PROVE  TypeOK'
  <1> USE DEF TypeOK, Die
  <1>1. QueueTypeOK'
    BY DEF QueueReset, QueueTypeOK
  <1>2. InformerTypeOK'
    BY DEF InformerReset, InformerTypeOK
  <1> QED BY <1>1, <1>2 DEF outVars, PCs, NoObjects

\* How a sync goes on or ends.
LEMMA TypeReturn ==
  ASSUME TypeOK,
         \/ \E l \in PCs : Goto(l)
         \/ FailSync
         \/ \E e \in BOOLEAN : Return(e) /\ UNCHANGED fails
  PROVE  /\ QueueTypeOK'
         /\ phase' \in {"down", "boot", "initial", "running"}
         /\ pc' \in PCs /\ lastErr' \in BOOLEAN /\ fails' \in Nat
  <1>1. CASE \E l \in PCs : Goto(l)
    BY <1>1 DEF TypeOK, Goto, QueueTypeOK, queueVars
  <1>2. ASSUME NEW e \in BOOLEAN, Return(e)
        PROVE  /\ QueueTypeOK'
               /\ phase' \in {"down", "boot", "initial", "running"}
               /\ pc' \in PCs /\ lastErr' \in BOOLEAN
    BY <1>2 DEF TypeOK, Return, DoneAll, QueueTypeOK, PCs
  <1>3. CASE FailSync
    <2>1. fails' \in Nat
      BY <1>3 DEF FailSync, Fail, TypeOK
    <2> QED BY <1>2, <1>3, <2>1 DEF FailSync
  <1>4. CASE \E e \in BOOLEAN : Return(e) /\ UNCHANGED fails
    BY <1>2, <1>4 DEF TypeOK
  <1> QED BY <1>1, <1>3, <1>4

\* The steps of the sync.
LEMMA TypeSync ==
  ASSUME TypeOK, SyncConfig
  PROVE  TypeOK'
  <1>1. CASE ListClusters
    <2>1. seen' \in SUBSET Clusters /\ fails' \in Nat /\ pc' = "template"
      BY <1>1 DEF ListClusters, Goto, Fail, TypeOK
    <2> QED BY <1>1, <2>1 DEF ListClusters, Goto, TypeOK, informerVars,
               InformerTypeOK, queueVars, QueueTypeOK, outVars, PCs, Present
  <1>2. CASE RenderTemplate
    <2>1. (\E l \in PCs : Goto(l)) \/ \E e \in BOOLEAN : Return(e) /\ UNCHANGED fails
      BY <1>2 DEF RenderTemplate, PCs
    <2>2. todo = {}
      BY <1>2 DEF RenderTemplate, TypeOK
    <2> QED BY <1>2, <2>1, <2>2, TypeReturn DEF RenderTemplate, TypeOK,
               informerVars, InformerTypeOK, outVars, Present
  <1>3. CASE ListScrapes
    BY <1>3 DEF ListScrapes, Goto, TypeOK, InformerTypeOK, QueueTypeOK,
                queueVars, outVars, Present, PCs
  <1>4. ASSUME NEW k \in Keys, ConvertScrape(k) PROVE TypeOK'
    <2>1. snap[k] \in Objects
      BY <1>4 DEF ConvertScrape, TypeOK, Present
    <2>2. WithStatus(snap[k]) \in Objects
      BY <2>1, WithStatusType
    <2>3. api' \in [Keys -> Objects \cup {Absent}] /\ fails' \in Nat
      BY <1>4, <2>2 DEF ConvertScrape, UpdateStatus, Fail, TypeOK, InformerTypeOK
    <2> QED BY <1>4, <2>3 DEF ConvertScrape, TypeOK, InformerTypeOK,
               QueueTypeOK, queueVars, outVars, Present, PCs
  <1>5. CASE Panic
    BY <1>5, TypeDie DEF Panic, TypeOK
  <1>6. CASE Marshal
    BY <1>6 DEF Marshal, Goto, TypeOK, informerVars, InformerTypeOK,
                QueueTypeOK, queueVars, outVars, Present, PCs
  <1>7. CASE PublishStep
    <2>1. todo = {} /\ todo' = {}
      BY <1>7, PublishShape DEF TypeOK, Publishing
    <2>2. Rendering \in Renderings
      BY RenderType DEF Rendering, TypeOK
    <2>3. /\ secret' \in Renderings \cup {NoSecret, NoKey}
          /\ file' \in Renderings \cup {NoFile, Torn}
      BY <1>7, <2>2, PublishOutputs DEF TypeOK
    <2>4. Publishing \subseteq PCs
      BY DEF Publishing, PCs
    <2>5. /\ QueueTypeOK'
          /\ phase' \in {"down", "boot", "initial", "running"}
          /\ pc' \in PCs /\ lastErr' \in BOOLEAN /\ fails' \in Nat
      BY <1>7, <2>4, PublishShape, TypeReturn
    <2>6. UNCHANGED <<informerVars, seen, snap, todo, clusters, crashes,
                   badGroup, scalings>>
      BY <1>7, PublishShape
    <2> QED BY <2>1, <2>3, <2>5, <2>6 DEF TypeOK, informerVars, InformerTypeOK,
               Present
  <1> QED BY <1>1, <1>2, <1>3, <1>4, <1>5, <1>6, <1>7 DEF SyncConfig, PublishStep

\* No sync before the caches are full.
BootInv == phase \in {"down", "boot"} => pc = "idle"

LEMMA BootStep == TypeOK /\ BootInv /\ [Next]_vars => BootInv'
  <1> SUFFICES ASSUME TypeOK, BootInv, [Next]_vars PROVE BootInv'
    OBVIOUS
  <1> USE DEF BootInv
  <1>1. CASE PublishStep
    BY <1>1, PublishShape DEF Goto, FailSync, Return, Publishing
  <1>2. CASE ListClusters \/ RenderTemplate \/ ListScrapes \/ Marshal
             \/ \E k \in Keys : ConvertScrape(k)
    BY <1>2 DEF ListClusters, RenderTemplate, ListScrapes, Marshal,
                ConvertScrape, Goto, Return
  <1>3. CASE Panic \/ Crash \/ RulesPanic
    BY <1>3 DEF Panic, Crash, RulesPanic, Die
  <1>4. CASE Start \/ WaitForCacheSync \/ \E k \in Keys : ProcessNextWorkItem(k)
    BY <1>4 DEF Start, WaitForCacheSync, ProcessNextWorkItem
  <1>5. CASE EnvStep \/ Scale \/ EditRuleGroup \/ UNCHANGED vars
    BY <1>5 DEF EnvStep, EditScrape, ObserveScrape, QueueDelayElapses,
                ResyncScrapes, enqueuescrape, Scale, EditRuleGroup, vars,
                  others, syncVars
  <1> QED BY <1>1, <1>2, <1>3, <1>4, <1>5 DEF Next, SyncConfig, PublishStep, EnvStep

LEMMA TypeStep == TypeOK /\ BootInv /\ [Next]_vars => TypeOK'
  <1> SUFFICES ASSUME TypeOK, BootInv, [Next]_vars PROVE TypeOK'
    OBVIOUS
  <1> USE DEF TypeOK
  <1>1. CASE UNCHANGED vars
    BY <1>1 DEF vars, informerVars, queueVars, syncVars, outVars, restVars,
                InformerTypeOK, QueueTypeOK, Present
  <1>2. ASSUME NEW k \in Keys, ProcessNextWorkItem(k) PROVE TypeOK'
    BY <1>2 DEF ProcessNextWorkItem, Get, QueueTypeOK, InformerTypeOK,
                informerVars, outVars, restVars, Present, PCs
  <1>3. CASE Start
    BY <1>3 DEF Start, InformerStart, QueueTypeOK, InformerTypeOK, queueVars,
                outVars, restVars, Present, PCs
  <1>4. CASE WaitForCacheSync
    <2>1. todo = {}
      BY <1>4 DEF WaitForCacheSync, BootInv
    <2> QED BY <1>4, <2>1 DEF WaitForCacheSync, QueueTypeOK, InformerTypeOK,
                informerVars, queueVars, outVars, restVars, Present, PCs
  <1>5. CASE Scale
    BY <1>5 DEF Scale, QueueTypeOK, InformerTypeOK, informerVars, queueVars,
                syncVars, outVars, Present
  <1>6. CASE Crash \/ RulesPanic
    BY <1>6, TypeDie DEF Crash, RulesPanic
  <1>7. CASE EditRuleGroup
    BY <1>7 DEF EditRuleGroup, QueueTypeOK, InformerTypeOK, queueVars, syncVars,
                outVars, Present
  <1> QED BY <1>1, <1>2, <1>3, <1>4, <1>5, <1>6, <1>7, TypeEnvironment, TypeSync
          DEF Next, EnvStep

LEMMA BootInit == Init => BootInv
  BY DEF Init, BootInv

\* In every reachable state every variable has its type; in particular the loop
\* of syncConfigHandler only handles listed scrapes, and all of them.
THEOREM TypeCorrect == Spec => []TypeOK
  BY TypeInit, BootInit, TypeStep, BootStep, PTL DEF Spec

-----------------------------------------------------------------------------
(***************************************************************************)
(* What is published loads.  The template was checked before anything was  *)
(* appended, so all that is left to go wrong are the scrapes themselves    *)
(* (AppendLoads).                                                          *)
(***************************************************************************)
CheckedInv ==
  /\ pc \in {"list", "convert"} \cup Publishing => Loads(Template(seen))
  /\ \A r \in Published : Loads(Template(r.clusters))

LEMMA CheckedInit == Init => CheckedInv
  BY SentinelAssumption DEF Init, CheckedInv, Published, Publishing

LEMMA CheckedStep == TypeOK /\ CheckedInv /\ [Next]_vars => CheckedInv'
  <1> SUFFICES ASSUME TypeOK, CheckedInv, [Next]_vars PROVE CheckedInv'
    OBVIOUS
  \* Steps that publish nothing.
  <1>a. ASSUME UNCHANGED <<secret, file>>
        PROVE  \A r \in Published' : Loads(Template(r.clusters))
    BY <1>a DEF CheckedInv, Published
  <1>1. CASE PublishStep
    <2>1. Loads(Template(seen)) /\ seen' = seen
      BY <1>1, PublishShape DEF CheckedInv
    <2>2. Rendering.clusters = seen
      BY DEF Rendering, Render
    <2>3. \A r \in Published' : r \in Published \/ r = Rendering
      BY <1>1, PublishOutputs, SentinelAssumption DEF Published
    <2>4. \A r \in Published' : Loads(Template(r.clusters))
      BY <2>1, <2>2, <2>3 DEF CheckedInv
    <2> QED BY <2>1, <2>4 DEF CheckedInv
  <1>2. CASE ListClusters
    <2>1. pc' = "template" /\ UNCHANGED <<secret, file>>
      BY <1>2 DEF ListClusters, Goto, outVars
    <2> QED BY <1>a, <2>1 DEF CheckedInv, Publishing
  <1>3. CASE RenderTemplate
    <2>1. UNCHANGED <<secret, file, seen>>
      BY <1>3 DEF RenderTemplate, outVars
    <2>2. Loads(Template(seen)) \/ pc' = "idle"
      BY <1>3 DEF RenderTemplate, Return
    <2> QED BY <1>a, <2>1, <2>2 DEF CheckedInv, Publishing
  <1>4. CASE ListScrapes \/ Marshal \/ \E k \in Keys : ConvertScrape(k)
    <2>1. UNCHANGED <<secret, file, seen>> /\ pc \in {"list", "convert"}
      BY <1>4 DEF ListScrapes, Marshal, ConvertScrape, outVars
    <2> QED BY <1>a, <2>1 DEF CheckedInv
  <1>5. CASE Panic \/ Crash \/ RulesPanic
    <2>1. pc' = "idle" /\ UNCHANGED <<secret, file>>
      BY <1>5 DEF Panic, Crash, RulesPanic, Die, outVars
    <2> QED BY <1>a, <2>1 DEF CheckedInv, Publishing
  <1>6. CASE WaitForCacheSync \/ \E k \in Keys : ProcessNextWorkItem(k)
    <2>1. pc' = "clusters" /\ UNCHANGED <<secret, file>>
      BY <1>6 DEF WaitForCacheSync, ProcessNextWorkItem, outVars
    <2> QED BY <1>a, <2>1 DEF CheckedInv, Publishing
  <1>7. CASE Start \/ EnvStep \/ Scale \/ EditRuleGroup \/ UNCHANGED vars
    <2>1. UNCHANGED <<secret, file, pc, seen>>
      BY <1>7 DEF Start, EnvStep, EditScrape, ObserveScrape, QueueDelayElapses,
                  ResyncScrapes, enqueuescrape, Scale, EditRuleGroup, vars,
                  others, syncVars,
                  outVars
    <2> QED BY <1>a, <2>1 DEF CheckedInv
  <1> QED BY <1>1, <1>2, <1>3, <1>4, <1>5, <1>6, <1>7
          DEF Next, SyncConfig, PublishStep, EnvStep

\* A rendering whose template loads is only spoilt by one of its scrapes.
LEMMA OnlyScrapesSpoil ==
  ASSUME NEW r \in Renderings, Loads(Template(r.clusters)),
         \A k \in Keys : r.scrapes[k] # Absent => ~Spoils(k, r)
  PROVE  Loads(ConfigOf(r))
  <1> DEFINE c == Template(r.clusters)
             added == Appended(r)
  <1>1. r.clusters \in SUBSET Clusters /\ r.scrapes \in [Keys -> Specs \cup {Absent}]
    BY DEF Renderings
  <1>2. IsConfig(c) /\ DOMAIN c.scrapes \cap Keys = {}
    BY <1>1, TemplateAssumption
  <1>3. DOMAIN added = {k \in Keys : r.scrapes[k] # Absent}
    BY DEF Appended
  <1>4. ASSUME NEW k \in DOMAIN added
        PROVE  /\ k \in Keys /\ r.scrapes[k] \in Specs
               /\ added[k] = ConvertedScrape(k, r.scrapes[k])
               /\ added[k].job_name = JobOf(k)
               /\ added[k] \in Scrapes
    <2>1. k \in Keys /\ r.scrapes[k] \in Specs
      BY <1>1, <1>3
    <2>2. added[k] = ConvertedScrape(k, r.scrapes[k])
      BY <1>3 DEF Appended
    <2>3. TimingOf(r.scrapes[k]) \in Globals /\ JobOf(k) \in STRING
      BY <2>1, TimingAssumption, JobAssumption
    <2>4. ConvertedScrape(k, r.scrapes[k]) \in Scrapes
      BY <2>3 DEF ConvertedScrape, Scrapes, Globals
    <2>5. ConvertedScrape(k, r.scrapes[k]).job_name = JobOf(k)
      BY DEF ConvertedScrape
    <2> QED BY <2>1, <2>2, <2>4, <2>5
  <1>5. ASSUME NEW k \in DOMAIN added
        PROVE  /\ TimeoutFits(added[k], Load(c).global)
               /\ \A j \in DOMAIN c.scrapes :
                    added[k].job_name # c.scrapes[j].job_name
    <2>1. ~Spoils(k, r) /\ added[k] = ConvertedScrape(k, r.scrapes[k])
      BY <1>3, <1>4
    <2>2. TimeoutFits(added[k], Load(c).global)
      BY <2>1 DEF Spoils
    <2>3. \A j \in DOMAIN Load(c).scrapes :
            Load(c).scrapes[j].job_name # added[k].job_name
      BY <2>1 DEF Spoils
    <2>4. ASSUME NEW j \in DOMAIN c.scrapes
          PROVE  added[k].job_name # c.scrapes[j].job_name
      <3>1. /\ j \in DOMAIN Load(c).scrapes
            /\ Load(c).scrapes[j] = Resolve(c.scrapes[j], GlobalConfig(c.global))
        BY DEF Load
      <3>2. c.scrapes[j] \in Scrapes /\ GlobalConfig(c.global) \in Globals
        BY <1>2, GlobalType DEF IsConfig
      <3>3. Load(c).scrapes[j].job_name = c.scrapes[j].job_name
        BY <3>1, <3>2, ScrapeType
      <3> QED BY <2>3, <3>1, <3>3
    <2> QED BY <2>2, <2>4
  <1>6. \A k, l \in DOMAIN added : k # l => added[k].job_name # added[l].job_name
    BY <1>4, JobAssumption
  <1>7. DOMAIN added \cap DOMAIN c.scrapes = {} /\ \A k \in DOMAIN added : added[k] \in Scrapes
    BY <1>2, <1>3, <1>4
  <1>8. Loads(c)
    OBVIOUS
  <1> HIDE DEF c, added
  <1>9. Loads(AppendScrapes(Load(c), added))
    BY <1>2, <1>5, <1>6, <1>7, <1>8, AppendLoads
  <1> QED BY <1>9 DEF ConfigOf, c, added

\* Whatever fails, crashes or scales, Prometheus accepts what is published,
\* unless one of the scrapes in it has a name that the template uses or a timeout
\* above its interval.
THEOREM LoadsCorrect == Spec => []LoadsUnlessSpoilt
  <1>1. CheckedInv => LoadsUnlessSpoilt
    BY OnlyScrapesSpoil DEF CheckedInv, LoadsUnlessSpoilt, Published
  <1> QED BY <1>1, TypeInit, TypeStep, BootInit, BootStep, CheckedInit,
             CheckedStep, PTL DEF Spec

\* That the template is loaded and written again, rather than its text extended,
\* makes no difference to Prometheus, for any clusters, scrapes and timings.
THEOREM ReadsTheSameCorrect == Spec => []PublishedReadsTheSame
  <1>1. ASSUME TypeOK, NEW r \in Published
        PROVE  Load(ConfigOf(r))
                 = Load(AppendScrapes(Template(r.clusters), Appended(r)))
    <2>1. r \in Renderings
      BY <1>1 DEF Published
    <2>2. IsConfig(Template(r.clusters))
      BY <2>1, TemplateAssumption DEF Renderings
    <2> QED BY <2>2, AppendReadsTheSame DEF ConfigOf
  <1>2. TypeOK => PublishedReadsTheSame
    BY <1>1 DEF PublishedReadsTheSame
  <1> QED BY <1>2, TypeCorrect, PTL

-----------------------------------------------------------------------------
(***************************************************************************)
(* Freshness.  From the list of a sync on, until a sync fails, each key    *)
(* whose cached spec differs from the one listed is notified, delayed or   *)
(* dirty, so that another sync will come; and past the Secret, and after a *)
(* sync without an error, the outputs are what was listed.                 *)
(***************************************************************************)
Listed ==
  \/ pc = "convert" \/ pc \in Publishing
  \/ phase = "running" /\ pc = "idle" /\ ~lastErr

LinkInv ==
  Listed => \A k \in Keys :
              Convertible(cache)[k] # Convertible(snap)[k]
                => Pending(k) \/ k \in missed

OutputInv ==
  /\ pc \in {"readfile", "writefile", "writing"}
       => (HasSecret => secret = Rendering)
  /\ phase = "running" /\ pc = "idle" /\ ~lastErr
       => (HasSecret => secret = Rendering) /\ (HasFile => file = Rendering)

LEMMA FreshInit == Init => LinkInv /\ OutputInv
  BY DEF Init, LinkInv, OutputInv, Listed, Publishing

\* Steps that leave the cache, the notifications and the list alone and take
\* no key off the queue.
LEMMA LinkFrame ==
  ASSUME LinkInv, UNCHANGED <<cache, snap, notif, missed, dirty, delayed>>,
         Listed' => Listed
  PROVE  LinkInv'
  BY DEF LinkInv, Pending, Convertible

LEMMA LinkEnvironment ==
  ASSUME TypeOK, LinkInv, EnvStep
  PROVE  LinkInv'
  <1> SUFFICES ASSUME Listed', NEW q \in Keys,
                      Convertible(cache)'[q] # Convertible(snap)'[q]
               PROVE  Pending(q)' \/ q \in missed'
    BY DEF LinkInv
  <1>1. UNCHANGED <<phase, pc, snap, lastErr>> /\ InformerStep
    BY EnvShape DEF others, syncVars
  <1>2. ASSUME cache'[q] = cache[q] PROVE Pending(q) \/ q \in missed
    <2>1. Convertible(cache)'[q] = Convertible(cache)[q]
      BY <1>2 DEF Convertible
    <2>2. Convertible(snap)'[q] = Convertible(snap)[q]
      BY <1>1 DEF Convertible
    <2> QED BY <1>1, <2>1, <2>2 DEF LinkInv, Listed
  <1> QED BY <1>1, <1>2, NothingSlips DEF TypeOK

\* A list makes the link anew, no other step of a sync touches it.
LEMMA LinkStep == TypeOK /\ BootInv /\ LinkInv /\ [Next]_vars => LinkInv'
  <1> SUFFICES ASSUME TypeOK, BootInv, LinkInv, [Next]_vars PROVE LinkInv'
    OBVIOUS
  <1>1. CASE ListScrapes
    <2>1. cache' = cache /\ snap' = cache
      BY <1>1 DEF ListScrapes
    <2>2. Convertible(cache)' = Convertible(snap)'
      BY <2>1 DEF Convertible
    <2> QED BY <2>2 DEF LinkInv
  <1>2. CASE PublishStep
    <2>1. Listed /\ UNCHANGED <<cache, snap, notif, missed>>
      BY <1>2, PublishShape DEF Listed, informerVars
    <2>2. UNCHANGED <<dirty, delayed>>
      BY <1>2, PublishShape DEF Goto, FailSync, Return, DoneAll, queueVars
    <2> QED BY <2>1, <2>2, LinkFrame
  <1>3. CASE Marshal \/ \E k \in Keys : ConvertScrape(k)
    <2>1. Listed /\ UNCHANGED <<cache, snap, notif, missed, dirty, delayed>>
      BY <1>3 DEF Marshal, ConvertScrape, Goto, Listed, informerVars, queueVars
    <2> QED BY <2>1, LinkFrame
  <1>4. CASE \/ ListClusters \/ RenderTemplate \/ Panic \/ Crash \/ RulesPanic
             \/ Start \/ WaitForCacheSync
             \/ \E k \in Keys : ProcessNextWorkItem(k)
    <2>1. /\ pc' \notin {"convert"} \cup Publishing
          /\ phase' # "running" \/ pc' # "idle" \/ lastErr'
      <3>1. CASE ListClusters
        BY <3>1 DEF ListClusters, Goto, Publishing
      <3>2. CASE RenderTemplate
        BY <3>2 DEF RenderTemplate, Goto, Return, Publishing
      <3>3. CASE Panic \/ Crash \/ RulesPanic
        BY <3>3 DEF Panic, Crash, RulesPanic, Die, Publishing
      <3>4. CASE Start
        <4>1. phase = "down" /\ phase' = "boot" /\ pc' = pc
          BY <3>4 DEF Start
        <4>2. pc = "idle"
          BY <4>1 DEF BootInv
        <4> QED BY <4>1, <4>2 DEF Publishing
      <3>5. CASE WaitForCacheSync \/ \E k \in Keys : ProcessNextWorkItem(k)
        BY <3>5 DEF WaitForCacheSync, ProcessNextWorkItem, Publishing
      <3> QED BY <1>4, <3>1, <3>2, <3>3, <3>4, <3>5
    <2> QED BY <2>1 DEF LinkInv, Listed
  <1>5. CASE Scale \/ EditRuleGroup \/ UNCHANGED vars
    <2>1. UNCHANGED <<cache, notif, missed, queueVars, syncVars>>
      BY <1>5 DEF Scale, EditRuleGroup, vars, informerVars
    <2>2. /\ UNCHANGED <<cache, snap, notif, missed, dirty, delayed>>
          /\ Listed' => Listed
      BY <2>1 DEF queueVars, syncVars, Listed
    <2> QED BY <2>2, LinkFrame
  <1>6. CASE EnvStep
    BY <1>6, LinkEnvironment
  <1> QED BY <1>1, <1>2, <1>3, <1>4, <1>5, <1>6
          DEF Next, SyncConfig, PublishStep, EnvStep

\* A sync keeps the order: the Secret, then the file.
LEMMA OutputPublish ==
  ASSUME OutputInv, PublishStep
  PROVE  OutputInv'
  <1> DEFINE R == Rendering
  <1>1. R' = R
    BY PublishShape DEF Rendering, Render, Convertible
  <1>2. CASE FailSync
    BY <1>2 DEF OutputInv, FailSync, Return
  <1>3. ASSUME NEW l \in {"createsecret", "updatesecret"}, Goto(l) PROVE OutputInv'
    BY <1>3 DEF OutputInv, Goto
  <1> HIDE DEF R
  <1>4. ASSUME pc' \in {"readfile", "writefile", "writing"}, HasSecret => secret' = R
        PROVE  OutputInv'
    BY <1>1, <1>4 DEF OutputInv, R
  <1>5. ASSUME HasSecret => secret' = R, HasFile => file' = R PROVE OutputInv'
    BY <1>1, <1>5 DEF OutputInv, R
  <1>6. CASE GetSecret
    <2>1. secret' = secret
      BY <1>6 DEF GetSecret, outVars
    <2>2. CASE (~HasSecret \/ secret = R) /\ Goto("readfile")
      BY <1>4, <2>1, <2>2 DEF Goto
    <2> QED BY <1>2, <1>3, <1>6, <2>2 DEF GetSecret, R
  <1>7. CASE CreateSecret
    BY <1>2, <1>3, <1>7 DEF CreateSecret
  <1>8. CASE UpdateSecret
    <2>1. CASE secret' = R /\ Goto("readfile")
      BY <1>4, <2>1 DEF Goto
    <2> QED BY <1>2, <1>8, <2>1 DEF UpdateSecret, R
  <1>9. CASE ReadFile \/ TruncateFile \/ WriteFile
    <2>1. HasSecret => secret' = R
      BY <1>9 DEF OutputInv, ReadFile, TruncateFile, WriteFile, outVars, R
    <2>2. \/ FailSync
          \/ Goto("writefile") \/ Goto("writing")
          \/ HasFile => file' = R
      BY <1>9 DEF ReadFile, TruncateFile, WriteFile, outVars, R
    <2>3. CASE Goto("writefile") \/ Goto("writing")
      BY <1>4, <2>1, <2>3 DEF Goto
    <2> QED BY <1>2, <1>5, <2>1, <2>2, <2>3
  <1> QED BY <1>6, <1>7, <1>8, <1>9 DEF PublishStep

LEMMA OutputStep == TypeOK /\ BootInv /\ OutputInv /\ [Next]_vars => OutputInv'
  <1> SUFFICES ASSUME TypeOK, BootInv, OutputInv, [Next]_vars PROVE OutputInv'
    OBVIOUS
  <1>1. CASE PublishStep
    BY <1>1, OutputPublish
  <1>2. CASE \/ ListClusters \/ RenderTemplate \/ ListScrapes \/ Marshal
             \/ \E k \in Keys : ConvertScrape(k) \/ ProcessNextWorkItem(k)
             \/ Panic \/ Crash \/ RulesPanic \/ Start \/ WaitForCacheSync
    <2>1. \/ pc' \in {"clusters", "template", "list", "convert", "getsecret"}
          \/ phase' \in {"down", "boot"} /\ pc' = "idle"
          \/ pc' = "idle" /\ lastErr'
      <3>1. CASE \/ ListClusters \/ RenderTemplate \/ ListScrapes \/ Marshal
                 \/ \E k \in Keys : ConvertScrape(k) \/ ProcessNextWorkItem(k)
                 \/ WaitForCacheSync
        BY <3>1 DEF ListClusters, RenderTemplate, ListScrapes, Marshal,
                    ConvertScrape, ProcessNextWorkItem, WaitForCacheSync, Goto,
                    Return
      <3>2. CASE Panic \/ Crash \/ RulesPanic
        BY <3>2 DEF Panic, Crash, RulesPanic, Die
      <3>3. CASE Start
        BY <3>3 DEF Start, BootInv
      <3> QED BY <1>2, <3>1, <3>2, <3>3
    <2> QED BY <2>1 DEF OutputInv
  <1>3. CASE EnvStep \/ Scale \/ EditRuleGroup \/ UNCHANGED vars
    <2>1. UNCHANGED <<phase, pc, seen, snap, lastErr, secret, file>>
      BY <1>3 DEF EnvStep, EditScrape, ObserveScrape, QueueDelayElapses,
                  ResyncScrapes, enqueuescrape, Scale, EditRuleGroup, vars,
                  others, syncVars,
                  outVars
    <2>2. Rendering' = Rendering
      BY <2>1 DEF Rendering, Render, Convertible
    <2> QED BY <2>1, <2>2 DEF OutputInv
  <1> QED BY <1>1, <1>2, <1>3 DEF Next, SyncConfig, PublishStep, EnvStep

\* A controller with nothing left to do, whose last sync did not fail, has
\* published the convertible scrapes of its cache, for any number of scrapes,
\* failures, crashes and scalings and any interleaving.
THEOREM FreshCorrect == Spec => []ConfigFresh
  <1>1. TypeOK /\ LinkInv /\ OutputInv => ConfigFresh
    <2> SUFFICES ASSUME TypeOK, LinkInv, OutputInv, Quiet, ~lastErr, missed = {}
                 PROVE  /\ HasSecret => /\ secret \in Renderings
                                        /\ secret.scrapes = Convertible(cache)
                        /\ HasFile => /\ file \in Renderings
                                      /\ file.scrapes = Convertible(cache)
      BY DEF ConfigFresh
    <2>1. (HasSecret => secret = Rendering) /\ (HasFile => file = Rendering)
      BY DEF Quiet, OutputInv
    <2>2. Rendering \in Renderings
      BY RenderType DEF Rendering, TypeOK
    <2>3. \A k \in Keys : Convertible(cache)[k] = Convertible(snap)[k]
      BY DEF LinkInv, Listed, Quiet
    <2>4. Convertible(cache) = Convertible(snap)
      BY <2>3 DEF Convertible
    <2>5. Rendering.scrapes = Convertible(cache)
      BY <2>4 DEF Rendering, Render
    <2> QED BY <2>1, <2>2, <2>5
  <1> QED BY <1>1, TypeInit, TypeStep, BootInit, BootStep, FreshInit, LinkStep,
             OutputStep, PTL DEF Spec

-----------------------------------------------------------------------------
(***************************************************************************)
(* Nothing is withdrawn.  A scrape that is shown, in the Secret or in the  *)
(* file, and that nobody has ever deleted is in the API server, and so in  *)
(* what every later list of a filled cache gives.                          *)
(***************************************************************************)
\* No sync works on a half filled cache.
FilledInv == phase \in {"initial", "running"} => unlisted = {}

PastList == pc \in {"convert"} \cup Publishing

\* A sync that goes on has met no scrape that ends the process.
CalmInv ==
  PastList => \A k \in Present(snap) \ todo : ClassOf(snap[k].spec) # "panic"

Has(o, k) == o \in Renderings /\ o.scrapes[k] # Absent
Shown(k) == Has(secret, k) \/ Has(file, k)

Kept(k) ==
  /\ Shown(k) \/ cache[k] # Absent => api[k] # Absent
  /\ Shown(k) => phase = "down" \/ k \in unlisted \/ cache[k] # Absent
  /\ snap[k] # Absent => cache[k] # Absent
  /\ Shown(k) /\ PastList => snap[k] # Absent

KeepInv == FilledInv /\ CalmInv /\ \A k \in Keys \ removed : Kept(k)

LEMMA KeepInit == Init => KeepInv
  <1>1. ASSUME Init, NEW k \in Keys PROVE Kept(k)
    <2>1. ~Shown(k)
      BY <1>1, SentinelAssumption DEF Init, Shown, Has
    <2> QED BY <1>1, <2>1 DEF Init, InformerInit, NoObjects, Kept
  <1>2. Init => FilledInv /\ CalmInv
    BY DEF Init, FilledInv, CalmInv, PastList, Publishing
  <1> QED BY <1>1, <1>2 DEF KeepInv

\* A sync publishes k if it listed k and could convert it.
LEMMA RenderHas ==
  ASSUME TypeOK, NEW k \in Keys
  PROVE  Has(Rendering, k) <=> snap[k] # Absent /\ ClassOf(snap[k].spec) = "ok"
  <1>1. Rendering \in Renderings
    BY RenderType DEF Rendering, TypeOK
  <1>2. snap[k] # Absent => snap[k].spec \in Specs
    BY DEF TypeOK, Objects
  <1>3. Rendering.scrapes[k] = Convertible(snap)[k]
    BY DEF Rendering, Render
  <1> QED BY <1>1, <1>2, <1>3, AbsentAssumption DEF Has, Convertible

LEMMA FilledStep == TypeOK /\ BootInv /\ FilledInv /\ [Next]_vars => FilledInv'
  <1> SUFFICES ASSUME TypeOK, BootInv, FilledInv, [Next]_vars,
                      phase' \in {"initial", "running"}
               PROVE  unlisted' = {}
    BY DEF FilledInv
  <1>1. CASE SyncConfig
    <2>1. CASE PublishStep
      BY <2>1, PublishShape
         DEF FilledInv, BootInv, TypeOK, Publishing, informerVars
    <2>2. CASE Panic
      BY <2>2 DEF Panic, Die
    <2>3. CASE \/ ListClusters \/ RenderTemplate \/ ListScrapes \/ Marshal
               \/ \E k \in Keys : ConvertScrape(k)
      <3>1. unlisted' = unlisted /\ pc # "idle"
        BY <2>3 DEF ListClusters, RenderTemplate, ListScrapes, Marshal,
                    ConvertScrape, informerVars
      <3> QED BY <3>1 DEF FilledInv, BootInv, TypeOK
    <2> QED BY <1>1, <2>1, <2>2, <2>3 DEF SyncConfig, PublishStep
  <1>2. CASE EnvStep
    <2>1. UNCHANGED phase /\ (unlisted = {} => unlisted' = {})
      BY <1>2 DEF EnvStep, EditScrape, Edit, ObserveScrape, Observe,
                  QueueDelayElapses, ResyncScrapes, Resync, enqueuescrape,
                  enqueuerule, others, syncVars, informerVars
    <2> QED BY <2>1 DEF FilledInv
  <1>3. CASE Start \/ Crash \/ RulesPanic
    BY <1>3 DEF Start, Crash, RulesPanic, Die
  <1>4. CASE WaitForCacheSync
    BY <1>4 DEF WaitForCacheSync, HasSynced, informerVars
  <1>5. CASE \/ Scale \/ EditRuleGroup \/ UNCHANGED vars
             \/ \E k \in Keys : ProcessNextWorkItem(k)
    BY <1>5 DEF Scale, EditRuleGroup, vars, ProcessNextWorkItem, FilledInv,
                syncVars, informerVars
  <1> QED BY <1>1, <1>2, <1>3, <1>4, <1>5 DEF Next, EnvStep

LEMMA CalmStep == TypeOK /\ CalmInv /\ [Next]_vars => CalmInv'
  <1> SUFFICES ASSUME TypeOK, CalmInv, [Next]_vars, PastList'
               PROVE  \A k \in Present(snap)' \ todo' :
                        ClassOf(snap'[k].spec) # "panic"
    BY DEF CalmInv
  <1>1. CASE ListScrapes
    BY <1>1 DEF ListScrapes, Present
  <1>2. ASSUME NEW k \in Keys, ConvertScrape(k)
        PROVE  \A q \in Present(snap)' \ todo' :
                 ClassOf(snap'[q].spec) # "panic"
    <2>1. /\ PastList /\ snap' = snap /\ todo' = todo \ {k}
          /\ ClassOf(snap[k].spec) # "panic"
      BY <1>2 DEF ConvertScrape, PastList
    <2> QED BY <2>1 DEF CalmInv, Present
  <1>3. CASE PublishStep
    BY <1>3, PublishShape DEF CalmInv, PastList, Present
  <1>4. CASE Marshal
    BY <1>4 DEF Marshal, CalmInv, PastList, Present
  <1>5. CASE \/ ListClusters \/ RenderTemplate \/ Panic \/ Crash \/ RulesPanic
             \/ WaitForCacheSync \/ \E k \in Keys : ProcessNextWorkItem(k)
    BY <1>5 DEF ListClusters, RenderTemplate, Panic, Crash, RulesPanic, Die, WaitForCacheSync,
                ProcessNextWorkItem, Goto, Return, PastList, Publishing
  <1>6. CASE EnvStep \/ Scale \/ EditRuleGroup \/ Start \/ UNCHANGED vars
    <2>1. UNCHANGED <<pc, snap, todo>>
      BY <1>6, EnvShape DEF Scale, EditRuleGroup, Start, vars, others, syncVars
    <2> QED BY <2>1 DEF CalmInv, PastList, Present
  <1> QED BY <1>1, <1>2, <1>3, <1>4, <1>5, <1>6
          DEF Next, SyncConfig, PublishStep, EnvStep

LEMMA KeepEnvironment ==
  ASSUME TypeOK, NEW q \in Keys, q \notin removed', q \notin removed => Kept(q),
         EnvStep
  PROVE  Kept(q)'
  <1>1. UNCHANGED <<phase, pc, snap, secret, file>> /\ InformerStep
    BY EnvShape DEF others, syncVars, outVars
  <1>2. (Shown(q)' <=> Shown(q)) /\ (PastList' <=> PastList)
    BY <1>1 DEF Shown, Has, PastList
  <1>3. /\ q \notin removed
        /\ api[q] # Absent => api'[q] # Absent
        /\ api[q] # Absent /\ cache[q] # Absent => cache'[q] # Absent
        /\ api[q] # Absent /\ q \in unlisted
             => q \in unlisted' \/ cache'[q] # Absent
        /\ cache'[q] # Absent => cache[q] # Absent \/ api[q] # Absent
    BY <1>1, NothingVanishes DEF TypeOK
  <1> QED BY <1>1, <1>2, <1>3 DEF Kept

\* The end of a process empties the cache and the list.
LEMMA KeepDie ==
  ASSUME NEW q \in Keys, Kept(q), Die
  PROVE  Kept(q)'
  <1>1. /\ UNCHANGED <<api, secret, file>>
        /\ phase' = "down" /\ pc' = "idle"
        /\ cache'[q] = Absent /\ snap'[q] = Absent
    BY DEF Die, InformerReset, outVars, NoObjects
  <1>2. Shown(q)' <=> Shown(q)
    BY <1>1 DEF Shown, Has
  <1> QED BY <1>1, <1>2 DEF Kept, PastList, Publishing

\* What a sync publishes it has listed.
LEMMA KeepPublish ==
  ASSUME TypeOK, NEW q \in Keys, Kept(q), PublishStep, phase' # "down"
  PROVE  Kept(q)'
  <1>1. UNCHANGED <<api, cache, unlisted, snap>> /\ PastList
    BY PublishShape DEF informerVars, PastList
  <1>2. secret' \in {secret, NoKey, Rendering} /\ file' \in {file, Torn, Rendering}
    BY PublishOutputs
  <1>3. ~Has(NoKey, q) /\ ~Has(Torn, q)
    BY SentinelAssumption DEF Has
  <1>4. (Has(secret, q)' <=> Has(secret', q)) /\ (Has(file, q)' <=> Has(file', q))
    BY DEF Has
  <1>5. Shown(q)' => Shown(q) \/ snap[q] # Absent
    BY <1>2, <1>3, <1>4, RenderHas DEF Shown
  <1>6. Shown(q)' => snap[q] # Absent /\ cache[q] # Absent /\ api[q] # Absent
    BY <1>1, <1>5 DEF Kept
  <1> QED BY <1>1, <1>6 DEF Kept

LEMMA KeepSync ==
  ASSUME TypeOK, BootInv, FilledInv, NEW q \in Keys, Kept(q), SyncConfig
  PROVE  Kept(q)'
  <1>1. CASE Panic
    BY <1>1, KeepDie DEF Panic
  <1>2. CASE ListScrapes
    <2>1. /\ UNCHANGED <<api, cache, unlisted, phase, secret, file>>
          /\ snap' = cache /\ pc = "list"
      BY <1>2 DEF ListScrapes, Goto, outVars
    <2>2. Shown(q)' <=> Shown(q)
      BY <2>1 DEF Shown, Has
    <2>3. phase \in {"initial", "running"} /\ unlisted = {}
      BY <2>1 DEF BootInv, FilledInv, TypeOK
    <2> QED BY <2>1, <2>2, <2>3 DEF Kept
  <1>3. ASSUME NEW k \in Keys, ConvertScrape(k) PROVE Kept(q)'
    <2>1. UNCHANGED <<cache, unlisted, phase, pc, snap, secret, file>>
      BY <1>3 DEF ConvertScrape, outVars
    <2>2. WithStatus(snap[k]) \in Objects
      <3>1. snap[k] \in Objects
        BY <1>3 DEF ConvertScrape, TypeOK, Present
      <3> QED BY <3>1, WithStatusType
    <2>3. api[q] # Absent => api'[q] # Absent
      BY <1>3, <2>2, AbsentAssumption
         DEF ConvertScrape, UpdateStatus, TypeOK, InformerTypeOK
    <2>4. (Shown(q)' <=> Shown(q)) /\ (PastList' <=> PastList)
      BY <2>1 DEF Shown, Has, PastList
    <2> QED BY <2>1, <2>3, <2>4 DEF Kept
  <1>4. CASE ListClusters \/ RenderTemplate \/ Marshal
    <2>1. /\ UNCHANGED <<api, cache, unlisted, snap, secret, file>>
          /\ PastList' => PastList
          /\ phase = "down" => phase' = "down"
      <3>1. CASE ListClusters
        BY <3>1 DEF ListClusters, Goto, PastList, Publishing, informerVars, outVars
      <3>2. CASE RenderTemplate
        BY <3>2 DEF RenderTemplate, Goto, Return, PastList, Publishing,
                    informerVars, outVars, BootInv
      <3>3. CASE Marshal
        BY <3>3 DEF Marshal, Goto, PastList, informerVars, outVars
      <3> QED BY <1>4, <3>1, <3>2, <3>3
    <2>2. Shown(q)' <=> Shown(q)
      BY <2>1 DEF Shown, Has
    <2> QED BY <2>1, <2>2 DEF Kept
  <1>5. CASE PublishStep
    <2>1. phase' # "down"
      BY <1>5, PublishShape DEF BootInv, Publishing, Goto, FailSync, Return
    <2> QED BY <1>5, <2>1, KeepPublish
  <1> QED BY <1>1, <1>2, <1>3, <1>4, <1>5 DEF SyncConfig, PublishStep

LEMMA KeepStep == TypeOK /\ BootInv /\ KeepInv /\ [Next]_vars => KeepInv'
  <1> SUFFICES ASSUME TypeOK, BootInv, KeepInv, [Next]_vars PROVE KeepInv'
    OBVIOUS
  <1> SUFFICES ASSUME NEW q \in Keys, q \notin removed' PROVE Kept(q)'
    BY FilledStep, CalmStep DEF KeepInv
  <1>1. CASE EnvStep
    BY <1>1, KeepEnvironment DEF KeepInv
  <1>2. CASE SyncConfig
    <2>1. removed' = removed
      <3>1. CASE PublishStep
        BY <3>1, PublishShape DEF informerVars
      <3>2. CASE ~PublishStep
        BY <1>2, <3>2 DEF SyncConfig, PublishStep, ListClusters, RenderTemplate,
                          ListScrapes, ConvertScrape, Panic, Die, InformerReset,
                          Marshal, informerVars
      <3> QED BY <3>1, <3>2
    <2> QED BY <1>2, <2>1, KeepSync DEF KeepInv
  <1>3. CASE Crash \/ RulesPanic
    <2>1. removed' = removed
      BY <1>3 DEF Crash, RulesPanic, Die, InformerReset
    <2> QED BY <1>3, <2>1, KeepDie DEF KeepInv, Crash, RulesPanic
  <1>4. CASE Start
    <2>1. /\ UNCHANGED <<api, cache, removed, pc, snap, secret, file>>
          /\ unlisted' = Present(api)
      BY <1>4 DEF Start, InformerStart, outVars
    <2>2. (Shown(q)' <=> Shown(q)) /\ (PastList' <=> PastList)
      BY <2>1 DEF Shown, Has, PastList
    <2> QED BY <2>1, <2>2 DEF KeepInv, Kept, Present
  <1>5. CASE \/ WaitForCacheSync \/ Scale \/ EditRuleGroup \/ UNCHANGED vars
             \/ \E k \in Keys : ProcessNextWorkItem(k)
    <2>1. /\ UNCHANGED <<api, cache, unlisted, removed, snap, secret, file>>
          /\ PastList' => PastList
          /\ phase = "down" => phase' = "down"
      BY <1>5 DEF WaitForCacheSync, ProcessNextWorkItem, Scale, EditRuleGroup,
                  vars, informerVars, syncVars, outVars, PastList, Publishing
    <2>2. Shown(q)' <=> Shown(q)
      BY <2>1 DEF Shown, Has
    <2> QED BY <2>1, <2>2 DEF KeepInv, Kept
  <1> QED BY <1>1, <1>2, <1>3, <1>4, <1>5 DEF Next, EnvStep

\* Nobody's scrape disappears from the Secret, or from a file about to be written,
\* because of a restart, a half filled cache, a failure, a crash or a panic: if it
\* does, its author has made of it something that does not convert.
THEOREM NoScrapeWithdrawnCorrect == Spec => NoScrapeWithdrawn
  <1> DEFINE Dropped(k) == snap[k] # Absent /\ ClassOf(snap[k].spec) = "error"
             A == \A k \in Keys \ removed' :
                    \/ Keeps(secret, secret', k) /\ (pc' = "writing" => Keeps(file, Rendering, k))
                    \/ snap[k] # Absent /\ ClassOf(snap[k].spec) = "error"
  <1>1. TypeOK /\ BootInv /\ KeepInv /\ [Next]_vars => [A]_vars
    <2> SUFFICES ASSUME TypeOK, BootInv, KeepInv, Next, NEW q \in Keys,
                        q \notin removed'
                 PROVE  \/ /\ Keeps(secret, secret', q)
                           /\ pc' = "writing" => Keeps(file, Rendering, q)
                        \/ Dropped(q)
      OBVIOUS
    \* In a sync that has listed the scrapes.
    <2>1. ASSUME Kept(q), pc \in Publishing, Shown(q), ~Dropped(q)
          PROVE  Has(Rendering, q)
      <3>1. snap[q] # Absent /\ todo = {}
        BY <2>1 DEF Kept, PastList, TypeOK, Publishing
      <3>2. ClassOf(snap[q].spec) \notin {"error", "panic"}
        BY <2>1, <3>1 DEF KeepInv, CalmInv, PastList, Present
      <3>3. ClassOf(snap[q].spec) = "ok"
        BY <3>1, <3>2, ClassAssumption DEF TypeOK, Objects
      <3> QED BY <3>1, <3>3, RenderHas
    <2>2. CASE PublishStep
      <3>1. pc \in Publishing /\ removed' = removed
        BY <2>2, PublishShape DEF informerVars
      <3>2. Kept(q) /\ secret' \in {secret, NoKey, Rendering}
        BY <2>2, <3>1, PublishOutputs DEF KeepInv
      <3>3. CASE Shown(q) /\ ~Dropped(q)
        BY <2>1, <3>1, <3>2, <3>3, SentinelAssumption DEF Keeps, Has
      <3>4. CASE ~Shown(q)
        BY <3>4 DEF Shown, Keeps, Has
      <3> QED BY <3>3, <3>4
    <2>3. CASE ~PublishStep
      <3>1. /\ secret' = secret /\ q \notin removed
            /\ pc' = "writing" => pc = "writing"
        <4>1. CASE EnvStep
          BY <4>1, EnvShape, NothingVanishes DEF TypeOK, others, syncVars, outVars
        <4>2. CASE Scale \/ EditRuleGroup \/ Start
          BY <4>2 DEF Scale, EditRuleGroup, Start, InformerStart, informerVars,
                      syncVars, outVars
        <4>3. CASE ~(EnvStep \/ Scale \/ EditRuleGroup \/ Start)
          BY <2>3, <4>3 DEF Next, EnvStep, SyncConfig, PublishStep, ListClusters,
             RenderTemplate, ListScrapes, ConvertScrape, Panic, Marshal,
             WaitForCacheSync, ProcessNextWorkItem, Crash, RulesPanic, Die,
             InformerReset, Goto, Return, informerVars, outVars
        <4> QED BY <4>1, <4>2, <4>3
      <3>2. Keeps(secret, secret', q)
        BY <3>1 DEF Keeps
      <3>3. ASSUME pc' = "writing" PROVE Keeps(file, Rendering, q) \/ Dropped(q)
        <4>1. pc \in Publishing
          BY <3>1, <3>3 DEF Publishing
        <4> QED BY <2>1, <3>1, <4>1 DEF KeepInv, Keeps, Has, Shown
      <3> QED BY <3>2, <3>3
    <2> QED BY <2>2, <2>3
  <1>2. Spec => [][A]_vars
    BY <1>1, TypeInit, TypeStep, BootInit, BootStep, KeepInit, KeepStep, PTL DEF Spec
  <1> QED BY <1>2 DEF NoScrapeWithdrawn

=============================================================================

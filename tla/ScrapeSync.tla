----------------------------- MODULE ScrapeSync -----------------------------
(***************************************************************************)
(* The config half of the controller: from the clusters of the project,    *)
(* the config template and the Scrape objects to the configuration in the  *)
(* Secret and in the config file.                                          *)
(*                                                                         *)
(* Scrapes reach the queue as rule groups do (Informer, WorkQueue); Run    *)
(* syncs once after the caches have synced, then one worker runs           *)
(* syncConfigHandler for every key.  Each of its calls to GKE, the API     *)
(* server and the file system is a step of its own.                        *)
(*                                                                         *)
(* Abstracted: the text of the configuration.  What is published is known  *)
(* by the clusters the template was rendered with and the scrapes that     *)
(* were appended; PromConfig says what that configuration is and whether   *)
(* Prometheus accepts it.  The status of a Scrape is its errors: ErrorCount *)
(* is their number.                                                        *)
(* The flag that makes the worker reload, and the reload, are those of     *)
(* RuleSync, whose worker is the same function.  What this half notices of *)
(* the rules half is a panic of its sync (`badGroup').                     *)
(***************************************************************************)
EXTENDS Informer, PromConfig

CONSTANTS
  ClassOf(_),               \* convertScrape's verdict on a spec: "ok", "error",
                            \*   or "panic"
  TimingOf(_),              \* its scrape_interval and scrape_timeout
  JobOf(_),                 \* the job name a key is given: namespace/name
  Clusters,                 \* the clusters there may be
  Template(_),              \* the configuration the template gives for a set
                            \*   of clusters
  HasSecret, HasFile,       \* a Secret, a config file are configured
  NoSecret, NoKey, NoFile, Torn, \* no Secret; one without the key; no file; a
                            \*   file whose write has not been completed
  MaxStatusErrs,            \* bound: errors a status holds before the API
                            \*   server refuses the object as too large
  MaxFails, MaxCrashes, MaxScalings  \* bounds: calls that fail, crashes, and
                            \*   changes of the set of clusters

Renderings == [clusters : SUBSET Clusters, scrapes : [Keys -> Specs \cup {Absent}]]

ASSUME ClassAssumption ==
  \A s \in Specs : ClassOf(s) \in {"ok", "error", "panic"}
ASSUME FlagAssumption == HasSecret \in BOOLEAN /\ HasFile \in BOOLEAN
ASSUME SentinelAssumption ==
  Renderings \cap {NoSecret, NoKey, NoFile, Torn} = {} /\ Torn # NoFile
ASSUME TimingAssumption == \A s \in Specs : TimingOf(s) \in Globals
\* The scrapes of the template and the keys are different places of the list.
ASSUME TemplateAssumption ==
  \A cl \in SUBSET Clusters :
    IsConfig(Template(cl)) /\ DOMAIN Template(cl).scrapes \cap Keys = {}
\* cache.MetaNamespaceKeyFunc: two objects have two names.
ASSUME JobAssumption ==
  \A k, l \in Keys : JobOf(k) \in STRING /\ (k # l => JobOf(k) # JobOf(l))

VARIABLES
  phase,                    \* "down", "boot", "initial", "running"
  pc,                       \* next step of the goroutine that syncs
  seen,                     \* the clusters the template is rendered with
  snap,                     \* the objects the sync listed
  todo,                     \* keys it has yet to convert
  lastErr,                  \* history: the last sync returned an error
  secret, file,             \* what is published
  clusters,                 \* the clusters there are
  badGroup,                 \* the rules half lists a RuleGroup that cannot be
                            \* converted
  fails, crashes, scalings

syncVars == <<phase, pc, seen, snap, todo, lastErr>>
outVars == <<secret, file>>
restVars == <<fails, crashes, badGroup, scalings>>
vars == <<informerVars, queueVars, syncVars, outVars, clusters, restVars>>

PCs == {"idle", "clusters", "template", "list", "convert", "getsecret",
        "createsecret", "updatesecret", "readfile", "writefile", "writing"}

\* With the types: no scrape is left to convert once the sync has gone on.
TypeOK ==
  /\ QueueTypeOK
  /\ InformerTypeOK
  /\ phase \in {"down", "boot", "initial", "running"}
  /\ pc \in PCs
  /\ seen \in SUBSET Clusters /\ clusters \in SUBSET Clusters
  /\ snap \in [Keys -> Objects \cup {Absent}]
  /\ todo \in SUBSET Keys /\ todo \subseteq Present(snap)
  /\ todo # {} => pc = "convert"
  /\ lastErr \in BOOLEAN
  /\ secret \in Renderings \cup {NoSecret, NoKey}
  /\ file \in Renderings \cup {NoFile, Torn}
  /\ badGroup \in BOOLEAN
  /\ fails \in Nat /\ crashes \in Nat /\ scalings \in Nat

NoObjects == [k \in Keys |-> Absent]

Init ==
  /\ QueueInit
  /\ InformerInit
  /\ phase = "down" /\ pc = "idle"
  /\ seen = {} /\ snap = NoObjects /\ todo = {}
  /\ lastErr = FALSE
  /\ secret = NoSecret /\ file = NoFile
  /\ clusters = {}
  /\ badGroup = FALSE
  /\ fails = 0 /\ crashes = 0 /\ scalings = 0

-----------------------------------------------------------------------------
\* The scrapes that are appended: those that could be converted.
Convertible(objs) ==
  [k \in Keys |-> IF objs[k] = Absent THEN Absent
                  ELSE IF ClassOf(objs[k].spec) = "ok" THEN objs[k].spec
                  ELSE Absent]

Render(cl, objs) == [clusters |-> cl, scrapes |-> Convertible(objs)]

\* What the sync under way publishes.
Rendering == Render(seen, snap)

\* convertScrape gives the scrape its name, whatever job_name it came with.
ConvertedScrape(k, s) ==
  [job_name |-> JobOf(k),
   scrape_interval |-> TimingOf(s).scrape_interval,
   scrape_timeout |-> TimingOf(s).scrape_timeout]

Appended(r) ==
  [k \in {l \in Keys : r.scrapes[l] # Absent} |-> ConvertedScrape(k, r.scrapes[k])]

\* Slip: the scrapes go into a new configuration, next to those of the template.
ConfigOfNew(r) ==
  AppendScrapes([Load(Template(r.clusters)) EXCEPT !.global = DefaultGlobalConfig],
                Appended(r))

ConfigOf(r) == AppendScrapes(Load(Template(r.clusters)), Appended(r))

-----------------------------------------------------------------------------
Fail == fails < MaxFails /\ fails' = fails + 1

\* syncConfigHandler returns, and Run goes on or the worker releases its key.
Return(e) ==
  /\ pc' = "idle"
  /\ phase' = "running"
  /\ lastErr' = e
  /\ DoneAll

\* The call fails and its error is returned: nothing queues the key again.
FailSync == Fail /\ Return(TRUE)

\* A step of the sync that changes nothing but pc.
Goto(label) ==
  pc' = label /\ UNCHANGED <<phase, lastErr, queueVars, fails>>

Die ==
  /\ phase' = "down" /\ pc' = "idle"
  /\ seen' = {} /\ snap' = NoObjects /\ todo' = {}
  /\ lastErr' = FALSE
  /\ InformerReset
  /\ QueueReset
  /\ UNCHANGED <<outVars, clusters, badGroup, scalings>>

Start ==
  /\ phase = "down"
  /\ phase' = "boot"
  /\ InformerStart
  /\ UNCHANGED <<queueVars, pc, seen, snap, todo, lastErr, outVars, clusters,
                 restVars>>

\* Slip: the first sync does not wait.
SyncAtOnce ==
  /\ phase = "boot"
  /\ phase' = "initial" /\ pc' = "clusters"
  /\ UNCHANGED <<informerVars, queueVars, seen, snap, todo, lastErr, outVars,
                 clusters, restVars>>

WaitForCacheSync ==
  /\ phase = "boot"
  /\ HasSynced
  /\ phase' = "initial" /\ pc' = "clusters"
  /\ UNCHANGED <<informerVars, queueVars, seen, snap, todo, lastErr, outVars,
                 clusters, restVars>>

ProcessNextWorkItem(k) ==
  /\ phase = "running" /\ pc = "idle"
  /\ Get(k)
  /\ pc' = "clusters"
  /\ UNCHANGED <<informerVars, phase, seen, snap, todo, lastErr, outVars,
                 clusters, restVars>>

-----------------------------------------------------------------------------
(***************************************************************************)
(* syncConfigHandler.                                                      *)
(***************************************************************************)
\* An error of the cluster lister is logged: the template is rendered with no
\* clusters.
ListClusters ==
  /\ pc = "clusters"
  /\ \/ seen' = clusters /\ Goto("template")
     \/ /\ seen' = {} /\ pc' = "template"
        /\ Fail
        /\ UNCHANGED <<phase, lastErr, queueVars>>
  /\ UNCHANGED <<informerVars, snap, todo, outVars, clusters, crashes,
                 badGroup, scalings>>

\* Slip: what the template gives is not looked at.
RenderTemplateUnchecked ==
  /\ pc = "template"
  /\ Goto("list")
  /\ UNCHANGED <<informerVars, seen, snap, todo, outVars, clusters,
                 crashes, badGroup, scalings>>

\* promconfig.Load of what the template gives.
RenderTemplate ==
  /\ pc = "template"
  /\ \/ Loads(Template(seen)) /\ Goto("list")
     \/ ~Loads(Template(seen)) /\ Return(TRUE) /\ UNCHANGED fails
  /\ UNCHANGED <<informerVars, seen, snap, todo, outVars, clusters,
                 crashes, badGroup, scalings>>

\* Slip: the objects of the first list are kept.
ListScrapesOnce ==
  /\ pc = "list"
  /\ snap' = IF Present(snap) = {} THEN cache ELSE snap
  /\ todo' = Present(cache)
  /\ missed' = {}
  /\ Goto("convert")
  /\ UNCHANGED <<api, cache, unlisted, notif, removed, edits, seen, outVars,
                 clusters, crashes, badGroup, scalings>>

ListScrapes ==
  /\ pc = "list"
  /\ snap' = cache
  /\ todo' = Present(cache)
  /\ missed' = {}
  /\ Goto("convert")
  /\ UNCHANGED <<api, cache, unlisted, notif, removed, edits, seen, outVars,
                 clusters, crashes, badGroup, scalings>>

\* The errors of the cached status and those of this conversion.
WithStatus(o) ==
  [o EXCEPT !.errs = IF ClassOf(o.spec) = "error" THEN Append(@, o.spec) ELSE @]

\* A status that differs goes to the API server, which takes it if the object
\* has not changed since and is not too large; the outcome is ignored.
UpdateStatus(k, o) ==
  \/ /\ o # snap[k] /\ api[k] = snap[k] /\ Len(o.errs) <= MaxStatusErrs
     /\ api' = [api EXCEPT ![k] = o]
     /\ UNCHANGED fails
  \/ /\ o = snap[k] \/ api[k] # snap[k] \/ Len(o.errs) > MaxStatusErrs
     /\ UNCHANGED <<api, fails>>
  \/ o # snap[k] /\ Fail /\ UNCHANGED api

\* One scrape.  A nil pointer in its conversion ends the process instead.
ConvertScrape(k) ==
  /\ pc = "convert"
  /\ k \in todo
  /\ ClassOf(snap[k].spec) # "panic"
  /\ todo' = todo \ {k}
  /\ UpdateStatus(k, WithStatus(snap[k]))
  /\ UNCHANGED <<cache, unlisted, notif, missed, removed, edits, queueVars,
                 phase, pc, seen, snap, lastErr, outVars, clusters,
                 crashes, badGroup, scalings>>

Panic ==
  /\ pc = "convert"
  /\ \E k \in todo : ClassOf(snap[k].spec) = "panic"
  /\ Die
  /\ UNCHANGED <<fails, crashes>>

\* Slip: one scrape that cannot be converted fails the sync.
MarshalAllOrNothing ==
  /\ pc = "convert" /\ todo = {}
  /\ \/ /\ \A k \in Present(snap) : ClassOf(snap[k].spec) = "ok"
        /\ Goto("getsecret")
     \/ /\ \E k \in Present(snap) : ClassOf(snap[k].spec) # "ok"
        /\ Return(TRUE) /\ UNCHANGED fails
  /\ UNCHANGED <<informerVars, seen, snap, todo, outVars, clusters,
                 crashes, badGroup, scalings>>

\* Slip: the scrapes are converted beside the sync, which does not wait.
MarshalEarly ==
  /\ pc = "convert"
  /\ Goto("getsecret")
  /\ UNCHANGED <<informerVars, seen, snap, todo, outVars, clusters,
                 crashes, badGroup, scalings>>

Marshal ==
  /\ pc = "convert" /\ todo = {}
  /\ Goto("getsecret")
  /\ UNCHANGED <<informerVars, seen, snap, todo, outVars, clusters,
                 crashes, badGroup, scalings>>

-----------------------------------------------------------------------------
(***************************************************************************)
(* updateSecret and updateFile.                                            *)
(***************************************************************************)
GetSecret ==
  /\ pc = "getsecret"
  /\ \/ (~HasSecret \/ secret = Rendering) /\ Goto("readfile")
     \/ HasSecret /\ secret = NoSecret /\ Goto("createsecret")
     \/ HasSecret /\ secret \notin {NoSecret, Rendering} /\ Goto("updatesecret")
     \/ HasSecret /\ FailSync
  /\ UNCHANGED <<informerVars, seen, snap, todo, outVars, clusters,
                 crashes, badGroup, scalings>>

\* A request that fails may have been carried out: its answer can be lost.
CreateSecret ==
  /\ pc = "createsecret"
  /\ \/ secret' = NoKey /\ Goto("updatesecret")
     \/ secret' \in {secret, NoKey} /\ FailSync
  /\ UNCHANGED <<informerVars, seen, snap, todo, file, clusters,
                 crashes, badGroup, scalings>>

UpdateSecret ==
  /\ pc = "updatesecret"
  /\ \/ secret' = Rendering /\ Goto("readfile")
     \/ secret' \in {secret, Rendering} /\ FailSync
  /\ UNCHANGED <<informerVars, seen, snap, todo, file, clusters,
                 crashes, badGroup, scalings>>

ReadFile ==
  /\ pc = "readfile"
  /\ \/ (~HasFile \/ file = Rendering) /\ Return(FALSE) /\ UNCHANGED fails
     \/ HasFile /\ file # Rendering /\ Goto("writefile")
     \/ HasFile /\ FailSync
  /\ UNCHANGED <<informerVars, seen, snap, todo, outVars, clusters,
                 crashes, badGroup, scalings>>

TruncateFile ==
  /\ pc = "writefile"
  /\ \/ file' = Torn /\ Goto("writing")
     \/ file' = file /\ FailSync
  /\ UNCHANGED <<informerVars, seen, snap, todo, secret, clusters,
                 crashes, badGroup, scalings>>

WriteFile ==
  /\ pc = "writing"
  /\ \/ file' = Rendering /\ Return(FALSE) /\ UNCHANGED fails
     \/ file' \in {Torn, Rendering} /\ FailSync
  /\ UNCHANGED <<informerVars, seen, snap, todo, secret, clusters,
                 crashes, badGroup, scalings>>

-----------------------------------------------------------------------------
others == <<syncVars, outVars, clusters, restVars>>

EditScrape(k) == Edit(k) /\ UNCHANGED others
ObserveScrape(k) == phase # "down" /\ Observe(k) /\ UNCHANGED others
ResyncScrapes == phase # "down" /\ Resync /\ UNCHANGED others
\* enqueuescrape does what enqueuerule does.
enqueuescrape(n) == enqueuerule(n) /\ UNCHANGED others
QueueDelayElapses(k) == Mature(k) /\ UNCHANGED <<informerVars, others>>

\* A cluster is created or deleted.  Nothing tells the controller.
Scale ==
  /\ scalings < MaxScalings /\ scalings' = scalings + 1
  /\ \E cl \in SUBSET Clusters : cl # clusters /\ clusters' = cl
  /\ UNCHANGED <<informerVars, queueVars, syncVars, outVars, badGroup, fails,
                 crashes>>

Crash ==
  /\ phase # "down"
  /\ crashes < MaxCrashes /\ crashes' = crashes + 1
  /\ Die
  /\ UNCHANGED fails

\* A user makes a RuleGroup one that cannot be converted, or repairs or deletes
\* it, and the rules half's cache has it.
EditRuleGroup ==
  /\ edits < MaxEdits
  /\ edits' = edits + 1
  /\ badGroup' = ~badGroup
  /\ UNCHANGED <<api, cache, unlisted, notif, missed, removed, queueVars,
                 syncVars, outVars, clusters, fails, crashes, scalings>>

\* The rules half panics over it: in the sync of Run, which follows the first
\* config sync, or in its worker, whatever the config worker is at.
RulesPanic ==
  /\ phase = "running"
  /\ badGroup
  /\ Die
  /\ UNCHANGED <<fails, crashes>>

SyncConfig ==
  \/ ListClusters \/ RenderTemplate \/ ListScrapes
  \/ \E k \in Keys : ConvertScrape(k)
  \/ Panic \/ Marshal
  \/ GetSecret \/ CreateSecret \/ UpdateSecret
  \/ ReadFile \/ TruncateFile \/ WriteFile

Next ==
  \/ \E k \in Keys : \/ EditScrape(k)
                     \/ ObserveScrape(k)
                     \/ QueueDelayElapses(k)
                     \/ ProcessNextWorkItem(k)
  \/ ResyncScrapes
  \/ \E n \in Notifications : enqueuescrape(n)
  \/ Start \/ WaitForCacheSync
  \/ SyncConfig
  \/ Scale \/ EditRuleGroup \/ RulesPanic \/ Crash

Spec == Init /\ [][Next]_vars

\* As in RuleSync: the process and its libraries run, its pod is restarted;
\* nothing is assumed of users, clusters, failures and panics.
Fairness ==
  /\ WF_vars(\E k \in Keys : ObserveScrape(k))
  /\ WF_vars(\E n \in Notifications : enqueuescrape(n))
  /\ WF_vars(\E k \in Keys : QueueDelayElapses(k))
  /\ WF_vars(ResyncScrapes)
  /\ WF_vars(Start) /\ WF_vars(WaitForCacheSync)
  /\ WF_vars(\E k \in Keys : ProcessNextWorkItem(k))
  /\ WF_vars(SyncConfig)

FairSpec == Spec /\ Fairness

-----------------------------------------------------------------------------
(***************************************************************************)
(* Properties.                                                             *)
(***************************************************************************)
Quiet ==
  /\ phase = "running" /\ pc = "idle"
  /\ \A k \in Keys : ~Pending(k)

Published == {c \in {secret, file} : c \in Renderings}

\* When nothing is queued and the last sync did not fail, the scrapes that are
\* published are those the cache says, the convertible ones and no others: no
\* change is lost between the list of one sync and the next, and a scrape that
\* cannot be converted does not keep the others back.
ConfigFresh ==
  Quiet /\ ~lastErr /\ missed = {} =>
    /\ HasSecret => secret \in Renderings /\ secret.scrapes = Convertible(cache)
    /\ HasFile => file \in Renderings /\ file.scrapes = Convertible(cache)

\* The ways a scrape can spoil the configuration it is appended to after that
\* was checked: its name is taken, or its timeout is above its interval.
Spoils(k, r) ==
  LET base == Load(Template(r.clusters))
      s == ConvertedScrape(k, r.scrapes[k])
  IN  \/ \E i \in DOMAIN base.scrapes : base.scrapes[i].job_name = s.job_name
      \/ ~TimeoutFits(s, base.global)

\* Prometheus accepts whatever is published, after failures, crashes and
\* changes of clusters in any order, unless one of the scrapes in it spoils it.
LoadsUnlessSpoilt ==
  \A r \in Published :
    Loads(ConfigOf(r)) \/ \E k \in Keys : r.scrapes[k] # Absent /\ Spoils(k, r)

\* A restart with a half filled cache, a crash or a panic in the middle of a sync,
\* a failed call: none of them replaces a configuration that has the scrape, in
\* the Secret or in a complete file that is opened to be written anew, by one that
\* has not, as long as no user deletes it.  Only what its author makes of it, a
\* spec that does not convert, does.  (A torn file has no scrapes to compare; that
\* they come back is said by ConfigConverges.)
Keeps(old, new, k) ==
  old \in Renderings /\ new \in Renderings /\ old.scrapes[k] # Absent
    => new.scrapes[k] # Absent

NoScrapeWithdrawn ==
  [][\A k \in Keys \ removed' :
       \/ Keeps(secret, secret', k) /\ (pc' = "writing" => Keeps(file, Rendering, k))
       \/ snap[k] # Absent /\ ClassOf(snap[k].spec) = "error"]_vars

\* Prometheus reads of what is published what it would have read of the template
\* with the scrapes written into it: that the controller loads the template,
\* appends to what was loaded, defaults and all, and writes that out again, shifts
\* no interval and no timeout, neither of the jobs of the template nor of a scrape
\* that leaves its own to the global block.
PublishedReadsTheSame ==
  \A r \in Published :
    Load(ConfigOf(r)) = Load(AppendScrapes(Template(r.clusters), Appended(r)))

\* The ways the controller never catches up: a scrape whose conversion panics;
\* a template that does not load; and, with no Scrape object left to be
\* resynced, clusters, deletions or failures that no event follows.
NeverCatchesUp ==
  \/ \E k \in Present(api) : ClassOf(api[k].spec) = "panic"
  \/ ~Loads(Template(clusters))
  \/ Present(api) = {} /\ (missed # {} \/ lastErr \/ seen # clusters)

\* Users and clusters pause, and the configuration becomes and stays that of
\* the clusters there are and the scrapes that convert: the jobs of clusters
\* that one failed listing has withdrawn come back, what a crash has cut off is
\* written again.  A rule group that ends every process does not prevent it, for
\* Run syncs the configuration before the rules.
ConfigConverges ==
  <>[](\/ NeverCatchesUp
       \/ /\ HasSecret => secret = Render(clusters, api)
          /\ HasFile => file = Render(clusters, api))

-----------------------------------------------------------------------------
\* config.go:368 says of the scrapes "First set the correct scrape interval,
\* then check that the timeout (inferred or explicit) is not greater than
\* that": what is published passes that check.  The code violates this, it
\* appends the scrapes after the check.
PublishedLoads == \A r \in Published : Loads(ConfigOf(r))

=============================================================================

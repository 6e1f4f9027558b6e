# prom-config-controller in TLA+

The controller turns custom resources (`RuleGroup`, `Scrape`) into the rules and
the configuration of a Prometheus, publishes them as a ConfigMap, a Secret and
files, and asks Prometheus to load them. This directory holds the TLA+ models of
its logic, the TLC configurations that check them and the TLAPS proofs of what
matters most. `PROJECT.json` maps each definition to the lines it models, and
lists the runs, the mutants that show each property can fail, the hazards of the
code and the findings.

Run `tlc -config X.cfg M` for a row of the table under *Runs*, and `tlapm M.tla`
for a proof module.

## 1. Inventory

| Component | Source | State | Operations | Correct when |
|---|---|---|---|---|
| Rules sync | `controller.go` 282-376, 507-563 | none between syncs; outputs: ConfigMap key, file, statuses | list, convert, update statuses, render, get/create/update ConfigMap, read/write file | what is published is what the cache says once all is quiet; failures are repaired; nothing is withdrawn by a restart |
| Scrape and config sync | `controller.go` 378-505, 565-580 | none; outputs: Secret, file, statuses | list clusters, execute template, load base config, append scrapes, publish | as above, and what is published can be loaded |
| Watch and handlers | `controller.go` 132-176, 582-600; `main.go` 163-170; generated informers | informer cache | add / update / delete notifications, 30 s resync, enqueue | no change goes unnoticed for good |
| Work queues | `controller.go` 152, 222-280 (client-go) | dirty, processing, delayed keys | AddRateLimited, Get, Done, Forget | a key added during its sync comes round again |
| Controller.Run | `controller.go` 178-243 | boot phase | register, wait for caches, first sync of both halves, one reload, start a worker per half | no sync on half a cache; one reload for both |
| Reloader | `reloader.go` | goroutines, retries | delay, one goroutine per target, retry on no answer or >= 500 | every change reaches every Prometheus, or the failure is the last word |
| Conversion | `controller.go` 602-657 | loop variables | durations, rules, Validate | verdict right; nothing dropped |
| Webhook | `webhook.go` 35-183 | none | decode, dispatch, admit | admits exactly what can be published |
| Registration | `webhook.go` 184-232 | the ValidatingWebhookConfiguration | get, delete, create | a webhook is registered once a replica runs |
| Prometheus config | `internal/prom2/config.go` | none | Load, defaults, global overrides, validators | what is published loads again |
| GKE discovery | `gkediscovery.go` | certificate files | list, write, sort | a cluster is listed with readable files |
| Process | `main.go`, `pkg/signals` | stop channel, server, error group | start, signal, second signal, exit | an orderly stop stops |
| Token refresh | `main.go` 236-260 | token file | fetch, write, sleep | the file holds a valid token |
| Rule filter | `rulefilter.go` | none | offsets and names in an expression (used by tests only) | the offset covers every selector |
| Types, generated client, helm, hack | `pkg/`, `helm/`, `hack/` | - | - | generated, or no logic |

**Interaction.** Users change objects in the API server. Each shared informer
copies them to its cache and calls the controller's handlers, which put the
object's name on a rate limited queue. There are two queues and two workers, one
per half; a worker takes a name, runs a sync of *all* objects of its half (the
name only serves as an alarm), and if anything was written calls the one
Reloader both share, before it releases the name. Status updates go back to the
API server and come round as notifications. Besides the Reloader the halves share
the process: Run syncs the configuration, then the rules, then reloads once for
both, and an object over which one half panics ends the other with it. What they
publish meets again in Prometheus.

**What is hard.** The sync reads a cache that runs on beside it and makes up to
five calls that can fail one by one, between any two of which a user, the watch,
the other worker, Prometheus or a crash can act. Errors are not retried: the
worker logs them and forgets the reload with them, so recovery rests on a 30 s
resync that notifies *cached* objects. The need of a reload is a boolean on a
stack. File writes are not atomic and are read by the reloads of the other
worker. Status errors are appended to. Reloads overlap and retry.

Section `hazards` of `PROJECT.json` names each of these at its line, with the
property that watches it, or why none does.

## 2. Modules

| Module | Models | State | Actions |
|---|---|---|---|
| `WorkQueue` | client-go's queue, as used | `dirty`, `processing`, `delayed` | `AddRateLimited`, `Mature`, `Get`, `DoneAll` |
| `Informer` (extends `WorkQueue`) | API server objects, cache, notifications, handlers | `api`, `cache`, `unlisted`, `notif`; history `missed`, `removed` | `Edit`, `Observe`, `Resync`, `enqueuerule` |
| `RuleSync` (extends `Informer`) | the process: Run, the rules worker, syncRuleHandler, outputs, Prometheus; of the config half its panics and its reloads | `phase`, `pc`, `snap`, `todo`, `changed`; `cm`, `file`, `mount`; `prom`, `inflight`, `lost`; `badScrape` | one per call of the sync, plus `Start`, `WaitForCacheSync`, `FirstConfigSync`, `ConfigWorkerPanics`, `Panic`, `Crash`, `EditScrape`, reloads, kubelet |
| `ReloadPromise` | what the controller may expect of its reloads (abstract) | `current`, `loaded`, `owed`, `lost` | `Change`, `ChangeUnasked`, `Load`, `WriteOff` |
| `Reloader` | reloader.go with its two callers | `pc` per worker, `going` (a bag of goroutines, each a target and the retries it has left), `ready` (in how many subsets a pod is ready), ... | `CallReload`, `ReloadURL`, `ReloadEndpoints`, `ReloadSucceeds`, `ReloadRejected`, `ReloadFails`, `GivesUp`, `Flip` |
| `Conversion` | convertRuleGroup and the webhook's verdict | the loop's variables | `ParseInterval`, `ConvertRule`, `Return`, `AdmitRuleGroups` |
| `PromConfig` | `internal/prom2/config.go`: what a configuration means, which are refused, what is written of one | none: operators | - |
| `Admission` (extends `Conversion`, `PromConfig`) | webhook.go's answers, then the sync of the same object and Prometheus reading it | `request`, `answer`, `fate`, `read`, `loaded` | `ServeValidate`, `Admit`, `RespondRuleGroup`, `AdmitScrapes`, `SyncScrape`, `PrometheusLoads` |
| `ScrapeSync` (extends `Informer`, `PromConfig`) | Run, the config worker, syncConfigHandler, Secret, file, clusters; of the rules half its panics | `phase`, `pc`, `seen`, `snap`, `todo`; `secret`, `file`; `clusters`, `badGroup` | one per call of the sync, plus `Scale`, `Start`, `WaitForCacheSync`, `Panic`, `RulesPanic`, `Crash`, `EditRuleGroup` |
| `Lifecycle` | main, signals, Run and selfRegistration of several replicas | `webhook`; per replica `pc`, `serving`, `stop`, `busy` | `GetWebhook`, `DeleteWebhook`, `CreateWebhook`, `Signal`, `ShutdownServer`, `Fatal`, ... |
| `MCRuleSync`, `MCScrapeSync`, `MCReloader` | constants and symmetry for TLC, and the settled start of `rules_recovery` (the other modules need none) | | |
| `RuleSync_proofs`, `ScrapeSync_proofs`, `Reloader_proofs`, `Conversion_proofs`, `PromConfig_proofs`, `Admission_proofs`, `Lifecycle_proofs` | theorems | | |
| `Informer_proofs` | lemmas on the informer, the handlers and the queue that both halves' proofs cite | | |

How `RuleSync` corresponds to the code. `pc` is the next call of the goroutine
that syncs, `idle` between syncs: `config` (197, the other half's first sync),
`list` (285), `status` (288-308, one step per
object, any order since List has none), `getcm`, `createcm`, `updatecm` (340,
350, 370), `readfile`, `writefile`, `writing` (512, 532: open with truncation,
then write), `reload` (265, or 207 in the first sync). `ReturnOK` and `ReturnErr`
are the two ways out of syncRuleHandler and what Run (202-210) and the worker
(259-279) do with them: the first sync reloads on the flag alone, and since the
config half may have raised it `ReturnOK` always and `ReturnErr` possibly goes
on to `reload` there; the worker reloads only without an error. `Die` is what a
process takes with it. An update of the ConfigMap that fails may have been
applied.

The reload requests of `RuleSync` are a number `inflight` of goroutines; each
makes Prometheus load its source as it is at that moment, or is given up.
`Reloader` is the model of that part in detail: a goroutine for the host and one for
each address that a subset of the endpoints lists as ready, so two for a pod in two
subsets; each has its own counter of retries and gives up below zero. An answer below
500 that is no success ends a goroutine like a success (`ReloadRejected`). The code
logs it as a reload; the model writes the target off, for it has not loaded. `lost` is
a record of the model throughout, the code keeps none. `ReloadPromise` is the contract
of `Reloader` and of `RuleSync`: after a change a load of what is then published is
owed until it happens or is written off. `Reloader` implements it for the targets of one reloader, whose
callers always ask (`MayFail` is FALSE); `RuleSync` for the Prometheus that reads
the file, where a sync may change the file and then fail or die before it asks
(`MayFail` is TRUE). There the debt is a sync that has the file open or is about to
reload, or a request in flight, and it is written off when `lost` says so or a torn
file was left behind. `RuleSync` uses a rule group as one of three classes
(`ClassOf`: "ok", "reject", "nil"); `Conversion` is the model behind them
("nil": `~converted`, "reject": converted with errors).

How `ScrapeSync` corresponds to the code. `pc` is again the next call: `clusters`
(386), `template` (393-404, the check of promconfig.Load included), `list` (408),
`convert` (413-435, one step per scrape), `getsecret`, `createsecret`,
`updatesecret` (469, 478, 499), `readfile`, `writefile`, `writing`. A failed
listing is no error: the template is rendered with no clusters. A scrape that does
not convert is left out; one whose conversion panics ends the process. What is
published is known by the clusters and the scrapes it was made of (`Renderings`);
`ConfigOf` is the configuration that is, by PromConfig's `Load` and
`AppendScrapes`. The worker is the same function as that of the rules half, so
the reload and its flag are only in `RuleSync`.

Each half has the other as far as it can notice it. `RuleSync` knows whether there is
a scrape whose conversion panics (`badScrape`, changed by `EditScrape`): it may end the
process before Run comes to the rules (`FirstConfigSync`) or at any step of the rules
worker (`ConfigWorkerPanics`). `ScrapeSync` likewise knows of a group that cannot be
converted (`badGroup`, `RulesPanic`), which ends the process only after the first
config sync.

How `PromConfig` corresponds to the code. A section is a record of its YAML keys,
only those that have a default or that a check looks at, with one value for each
case the code tells apart (a path without its slash, an unknown key, a bad URL).
`Decode` is the idiom of every UnmarshalYAML (`*c = DefaultX`, then the plain
unmarshal: what is not given stays as it was, `null` is a zero value), `XConfigs` the struct, `XConfig`
the check after it, `Verdict` how reading ends, `Encode` what yaml.Marshal writes:
a zero value is left out unless the field has no `omitempty`. The last part of the
module is Config.UnmarshalYAML: global overrides, timeouts, unique names.

`Admission` takes one object through all of it. It starts with every rule group
of up to three rules, every value of every section, and malformed requests; an
object may also be there without having passed the webhook. The webhook and the
sync convert independently, and each asks the EC2 metadata service for itself.

`Lifecycle` has the goroutines of a process that start and end one another: Run
(`pc`), the HTTP server, the signal handler, the workers (`busy`: one is in a
sync) and main, which waits for the first error of Run and server. `End` is the
end of a process, by the second signal, Fatalf or a crash.

Environment. The API server, the informer library, the queue, the kubelet and
Prometheus are external and keep to what the controller can observe of them
(comments in the modules). Slips, defined beside the action they distort, are
the bugs a change of the code could introduce; the mutants use them. They are in
no next-state relation.

## 3. Runs

| Run | Instance | What it asks |
|---|---|---|
| `rules_interleavings` | 2 groups, 2 specs, 2 edits, ConfigMap only (standalone service) | `FreshWhenQuiet`: no interleaving leaves a stale output behind a quiet controller |
| `rules_faults` | 1 group, 3 classes of spec, 2 edits, ConfigMap and file (sidecar), 1 failure, 1 crash, 1 reload of the config worker | `TypeOK`, `FreshWhenQuiet`, `ReloadCovers`, `NoWithdrawal`, `KeepsReloadPromise` (refinement of `ReloadPromise`) |
| `rules_recovery` | 2 groups published and at rest, 3 classes, ConfigMap and file, 1 edit, 1 failure or a broken scrape, fairness | `Converges`, `PromConverges`, `StatusConverges`, torn files and lost deletions included |
| `rules_status_doc`, `rules_reload_doc` | 1 group | two statements of the repository the code does not keep (section 6) |
| `reloader_overlap` | 2 workers, host and 2 pods, one in up to 2 subsets, 1 retry, 2 changes, 1 flip, fairness | `TypeOK`, `KeepsPromise` (refinement of `ReloadPromise`), `Settles` |
| `admission` | every request, every group of up to 3 rules, every section | `FailsClosed`, `AdmittedIsPublished`, `PublishedMeansTheSame`, `AdmitsAcceptable`, `ConvertsWhole` |
| `conversion_blame` | every group of up to 3 rules | `BlamesTheRule` (violated, section 6) |
| `scrapes` | 1 scrape of 3 classes, 2 clusters, Secret and file, 2 edits, 1 failure, 1 crash, 1 scaling, fairness | `TypeOK`, `ConfigFresh`, `LoadsUnlessSpoilt`, `PublishedReadsTheSame`, `NoScrapeWithdrawn`, `ConfigConverges` |
| `published_loads` | 1 scrape, 2 clusters, 1 scaling | `PublishedLoads` (violated, section 6) |
| `lifecycle` | 2 replicas, 2 signals, 1 crash, 1 failure, fairness | `TypeOK`, `SomebodyRegisters`, `WebhookComes`, `SignalEnds` |
| `graceful_shutdown` | 1 replica, 1 signal | `HandlesSignalGracefully` (violated, section 6) |

Bounds. `MaxEdits`: two edits make every sequence create-change,
create-delete and, with two keys, two creations; the sync forgets everything
between two runs, so a longer history adds no new relation between cache, outputs
and Prometheus. `MaxFails`, `MaxCrashes`, `MaxOtherReloads`: one each, at any
point; the steps of one sync can fail only once anyway, for it ends there.
`MaxStatusErrs` stands for the size limit of an object: with 0 every status with
an error is refused as too large (`rules_interleavings`), with 1 or 2 it fits first
(`rules_faults`, `rules_recovery`, `rules_status_doc`). Two keys suffice to have one group notified while another is
synced; a sync treats every key alike. `rules_recovery` starts from a controller at
rest with both groups published and loaded. From there one edit, of a group or of the
scrape, is every change a user can make, and with a second object left the resync of
the one repairs a lost deletion of the other. Either one call may fail, or the scrape
is broken from the start and the edit may repair it; a broken scrape ends the process
as often as it likes, in the middle of a write included, so `MaxCrashes` is 0 there.
`MaxChanges`: with two, a worker publishes
while the reload of the other has not settled, and one retry of the first change
may outlive the reload of the second. `MaxSubsets`: one pod has up to two
goroutines from one reload, the other up to one. `MaxFlips`: a pod becomes or ceases
to be ready between two readings of the endpoints. `MaxRules`: three rules make a stale
error survive one rule and be overwritten by the next. `MaxScalings`: the set of
clusters changes once, at any point of any sync, from none to any. In
`MCScrapeSync` the jobs of both clusters are named like the scrape and one of them
shortens the global interval below its timeout, so each way of spoiling the
configuration happens, and with both clusters the template itself does not load.
One scrape is enough there because a sync treats scrapes alike and appends them
only after all are converted; two keys are in `rules_interleavings`, on the same
`Informer` and `WorkQueue`, and any number in `FreshCorrect`. `MaxSignals`: the
first and the second signal of one process, or one each of two. `Replicas`: two
are enough for one to delete or create between the calls of the other. The safety
run with two keys uses symmetry of the keys, the liveness runs none. What the
safety runs show for these instances the theorems of section 5 show for all.

`Admission` needs no bounds beyond `MaxRules`: its sections are finite because
they hold one value for each case of the code. It takes one section at a time,
since no check looks at two, but for `relabel_configs`, which is a key of the scrape.

`CHECK_DEADLOCK FALSE` where the system may rest: a controller waits for users,
whose edits (and flips, failures, crashes) are bounded, and a conversion ends.
`Lifecycle` never rests, and there deadlock is checked.

## 4. Fairness

`FairSpec` of `RuleSync` assumes weak fairness of what runs as long as the
process does: the watch, the handlers, the queue's timer, the resync ticker, the
worker (`wait.Until` restarts it), each step of a sync; of the restart of the
process, which is Kubernetes' part; of the kubelet; and of reload requests, which
are answered or given up (`PromLoads \/ ReloadGivesUp`: which of the two is left
open). The first config sync ends, by returning or by ending the process
(`FirstConfigSync`); that a sync of the rules follows a start is not assumed. The
choice among keys and among notifications is not assumed fair. Nothing is assumed of
edits, failures, panics and crashes. `FairSpec` of `Reloader` assumes that a
delay ends and that a request gets an answer or an error; the HTTP client has no
timeout, so the second is an assumption on the network, not a merit of the code.

The liveness properties say `<>[]`: edits are bounded, so users do pause.
In `RuleSync` `NeverCatchesUp` states the three exceptions the code makes: a group
that cannot be converted ends every process; so does a scrape whose conversion panics,
at each start before the rules are synced; and when no group is left in the cache no
resync comes to repair what was missed before. `PromConverges` exempts what `lost`
records: a reload lost to an error, a crash or the last retry. `StatusConverges` exempts
only the scrape, for the statuses are written before a group panics.

`FairSpec` of `ScrapeSync` is the same without kubelet and reloads; nothing is
assumed of clusters. Its `NeverCatchesUp` adds a template that does not load and,
without a Scrape to be resynced, a change of the clusters that no event follows. A
rule group that ends every process is no exception there: Run syncs the configuration
first.
`FairSpec` of `Lifecycle` assumes that a process that has ended is started again,
and that Run, the goroutine that shuts the server down and main go on when they
can; of the caches it assumes that they fill or that stopCh ends the wait. Nothing
is assumed of signals, failures and the workers, which may be in a sync for ever.

## 5. Proofs

All for every set of keys, specs, clusters and replicas, every verdict `ClassOf`,
every template, with or without ConfigMap, Secret and file, and every bound, under
the named assumptions in the modules (sentinels differ from contents, `ClassOf` has
three values, flags are Boolean; the host is not a pod; `Retries` is an integer,
`MaxSubsets` gives numbers; `Template` gives a configuration,
timings are numbers, two objects have two names; there is a replica).

**Environment.** `Informer_proofs` says of the steps of users, watch, handlers and
queue what both halves need: that they keep the types, that a change of the cache
leaves its key to be synced (`NothingSlips`), and that what nobody deletes goes
neither from the API server nor from the cache (`NothingVanishes`).

**Rules half** (`RuleSync_proofs`).

- `TypeCorrect`: with the types, that only listed objects are given a status
  (`TypeInv`), and all of them before the sync renders and publishes (`LoopInv`). Every
  other proof also uses `PhaseInv`: no sync before the caches are full, and the first
  sync is never idle.
- `ReloadCorrect`: `ReloadCovers`. `ReloadInv` is inductive: unless Prometheus runs
  the file or the file is torn, a reload is about to start or in flight, or `lost`
  says why not. The step that carries it is the end of `WriteFile`, where a success
  can only go on to `reload`.
- `KeepsReloadPromiseCorrect`: the rules half implements `ReloadPromise`, step by
  step. One lemma for each kind of step (`PromisedChange`, `PromisedUnasked`,
  `PromisedWriteOff`, `PromisedStutter`) and the control that decides between them:
  a file is torn while it is open (`OpenInv`), and a debt that ends with a crash or
  with the last request in flight must find Prometheus up to date or the loss on
  record, which is `ReloadInv`.
- `FreshCorrect`: `FreshWhenQuiet` needs two invariants. `LinkInv`: a key whose
  cached spec differs from the listed one is notified, delayed or dirty, or missed.
  `OutputInv`: past the ConfigMap `cm` is what was listed, and after a sync without
  an error so are both outputs. Neither says anything alone: with nothing pending,
  the list is the cache.
- `NoWithdrawalCorrect`: an action property. `KeepInv` follows a group that nobody
  deleted along the way from the API server to Prometheus: what is shown in an
  output, in the mount or in Prometheus is in the cache or in the first list the
  cache still waits for, hence in the next list, hence in what is written; and what
  Prometheus runs is in what it will read next (`Chain`).

**Config half** (`ScrapeSync_proofs`).

- `TypeCorrect`: with the types, that no scrape is left to convert once a sync has
  gone on; `BootInv` keeps syncs out of a booting process.
- `LoadsCorrect`: `LoadsUnlessSpoilt`. The inductive `CheckedInv` says that the
  template was checked with the clusters the sync is under way with, and with those
  of whatever is published; `AppendLoads` does the rest.
- `ReadsTheSameCorrect`: `PublishedReadsTheSame`, from the types and
  `AppendReadsTheSame`.
- `FreshCorrect`: `ConfigFresh`, by `LinkInv` and `OutputInv` as in the rules half,
  except that a key whose spec changed from one that does not convert to another
  owes nothing.
- `NoScrapeWithdrawnCorrect`: an action property. `KeepInv` is the chain of the rules
  half from the API server by way of cache and list to Secret and file, with two
  more links: no sync works on a half filled cache (`FilledInv`), and past the list
  no scrape whose conversion would have ended the process is among those converted
  (`CalmInv`). So what is missing from a rendering is what its author made
  unconvertible.

**Configuration** (`PromConfig_proofs`).

- `AppendLoads`: a configuration that loads, with its defaults filled in and scrapes
  appended, loads again, if the new names differ from each other and from the old,
  and the timeouts fit. Resolving is idempotent on the global block, and a resolved
  scrape has a timeout not above its interval (`GlobalOnce`, `ResolveFits`).
- `AppendReadsTheSame`: to load, append, write and load is to append and load.
  Resolving a scrape twice is resolving it once (`ScrapeOnce`).
- Lemmas on sections: what reading gives has the keys and the kind of what was
  written (`DecodeShape`, `UnmarshalShape`), what was given stays as it was
  (`UnmarshalGiven`), and reading what was written gives what was read, unless a key
  with a default was given empty (`EncodeDecode`).

**Webhook** (`Conversion_proofs`, `Admission_proofs`).

- `AdmitsAcceptableCorrect`, `ConvertsWholeCorrect`: in the loop, `err` is left over
  only if `errs` is not empty, and `errs` is empty just in case no rule so far has a
  bad duration: that is why the stale error does not change the verdict.
- `FailsClosedCorrect`, `AdmittedIsPublishedCorrect`, `PublishedMeansTheSameCorrect`:
  one inductive invariant, `ObjectInv`, follows the object from the request to
  Prometheus. What was admitted passed its check with some answer of the metadata
  service; what is published is a reading that passed; and a section whose reading
  does not depend on that service reads the same in webhook and sync.
- `RuleGroupAnswerCorrect`: with the requests around it the conversion still decides
  right and whole (`AdmitsAcceptable`, `ConvertsWhole` of the `admission` run), and
  the answer that goes out is its verdict.

**Reloader** (`Reloader_proofs`).

- `TypeCorrect`, `KeepsPromiseCorrect`: `Reloader` implements `ReloadPromise` with
  `owed` mapped to the targets a goroutine or a caller still stands for. `CallReload`
  maps to `Change`, a successful attempt to `Load`; a rejected attempt, giving up and
  the endpoints that are not ready or cannot be read to `WriteOff`; a retry, and the
  start of a goroutine its caller stood for, to a stutter. The goroutines are a bag, so
  two alike count as two; lemmas say what adding, ending and retrying one does to it.
  The only strengthening needed beyond types: a caller waits for the endpoints only if
  there are any.

**Process** (`Lifecycle_proofs`).

- `TypeCorrect`, `RegistersCorrect`: `SomebodyRegisters` is inductive with the types:
  a replica leaves `create` only with a webhook, with a failure on record, or by
  dying, which starts it anew; and whoever deletes goes to `create`.

With these every invariant, action property and refinement that a passing run
checks is proved. Only model-checked is what is left: liveness (`Converges`,
`PromConverges`, `StatusConverges`, `Settles`, `ConfigConverges`, `WebhookComes`,
`SignalEnds`), for fairness and ENABLED are beyond the prover, and the five
statements the code does not keep, for which TLC gives a counterexample.

## 6. Where the repository and the code differ

- `StatusIsOfTheResource`: `updatergstatus` appends to the errors the object
  has and never clears them; a repaired group keeps the errors of its old spec.
- `ReloadOnConfigChange`: a crash between the write and the reload, or a write
  error after the last byte, and nobody reloads the change.
- `BlamesTheRule`: `err` outlives an iteration of convertRuleGroup; rules
  without a `for` after an invalid one are reported with its error.
- `PublishedLoads`: scrapes are appended after promconfig.Load has checked names
  and timeouts, and the whole is not checked again: one scrape with a timeout above
  the global interval, or the name of a job of the template, passes the webhook and
  makes Prometheus refuse all of the configuration. `LoadsUnlessSpoilt` says that
  nothing else does.
- `HandlesSignalGracefully`: main compares the error of the context, which is
  always context.Canceled, with ErrServerClosed, so one signal ends in Fatalf while
  a worker writes, or in selfRegistration before the webhook is created.

Not stated as runs, but part of the models: a rule group whose duration does not
parse, or a scrape with an empty entry in `static_configs`, is a nil pointer in the
sync and ends the process, again after each restart (`Panic`, `NeverCatchesUp`), and
the scrape does so before any rule is synced (`FirstConfigSync`); a
key given empty although its default is not loses that in the sync
(`ExplicitEmpty`, excluded by `PublishedMeansTheSame`).

## 7. Not modelled

- `Controller`, both halves as one module. The halves share the reloader, the order
  and the one reload of Run, and the process. `RuleSync` has the other half's reloads at
  any time (`OtherReload`) and its panics, before the first sync of the rules and later;
  `ScrapeSync` has the panics of the rules half, and `Reloader` the calls of both
  workers.
- An empty entry of the template's `scrape_configs`, a nil pointer in
  Config.UnmarshalYAML (config.go:367-370) that ends the process at each start:
  `IsConfig` and `TemplateAssumption` exclude it. The template is the operator's
  file, not a user's object.
- Two replicas over one ConfigMap: needs two caches and the resource version of the
  ConfigMap. `Lifecycle` has several replicas only for the webhook.
- Time: the back-off of the queue, the reload delay against the propagation of a
  ConfigMap, the sleep of the token refresh. All modules let time pass arbitrarily.
- The certificate files of the GKE discovery, and the order of clusters.
- The wording and the causes of the webhook's answer.
- A Scrape with an empty spec, for which yaml.v2 never calls UnmarshalYAML (no
  defaults and no checks), and two sections of one kind in one scrape.
- `LoadFile` and `resolveFilepaths` of prom2, which the controller does not call, and
  `RuleFilter`, which only its tests call.
- YAML and template text, logging, metrics, TLS, the generated client, deepcopy,
  helm and build files. The order in which objects are rendered is not modelled
  either: a rendering is a function of the names, as the sort (311, 437) makes the
  file.

Next, if the project is carried on: an abstract specification of what both halves
publish, for `RuleSync` and `ScrapeSync` to implement; the replicas, with resource
versions; a clock for propagation, back-off and token; the certificate files in
`ScrapeSync`.

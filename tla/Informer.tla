------------------------------ MODULE Informer ------------------------------
(***************************************************************************)
(* How a change of a RuleGroup, or of a Scrape, reaches the work queue:    *)
(* the objects in the API server, the shared informer's cache of them, the *)
(* notifications it sends, and the controller's handlers (NewController    *)
(* and enqueuerule in controller.go; enqueuescrape is the same).  Each     *)
(* half of the controller has one of these for itself.                     *)
(*                                                                         *)
(* The API server and the informer library are external and kept to what   *)
(* the controller can observe of them:                                     *)
(*                                                                         *)
(*  - The cache follows the API server per object, in any order and with   *)
(*    any delay.  A run of changes of one object may be seen as one: the   *)
(*    run of the model in which those edits happen together is one of the  *)
(*    system's.                                                            *)
(*  - A notification is sent after the cache has changed and is handled    *)
(*    later.  A deletion the watch delivers is notified with the object;   *)
(*    one found by a new list, after the watch broke, is notified with a   *)
(*    tombstone (cache.DeletedFinalStateUnknown).                          *)
(*  - Every 30 s (the resync period main.go gives the factory) every       *)
(*    cached object is notified again.                                     *)
(*  - An edit keeps the status of an object (it is a subresource); a new   *)
(*    object starts with an empty one.                                     *)
(***************************************************************************)
EXTENDS WorkQueue, Sequences

CONSTANTS
  Specs,                    \* what a RuleGroup, or a Scrape, can say
  Absent,                   \* no object: not a spec
  MaxEdits                  \* bound: changes users make to the objects

VARIABLES
  api,                      \* the objects in the API server
  cache,                    \* the informer's copy of them: what the lister reads
  unlisted,                 \* keys of the first list not yet in the cache
  notif,                    \* notifications sent and not yet handled
  missed,                   \* history: deletions that only left a tombstone,
                            \* since the worker last listed the objects
  removed,                  \* history: keys some user has deleted
  edits                     \* number of edits so far

informerVars == <<api, cache, unlisted, notif, missed, removed, edits>>

\* A RuleGroup: its spec, the errors its status carries (each named by the
\* spec it was reported for) and the number of rules the status counts, which
\* stays 0 for a Scrape.
Objects == [spec : Specs, errs : Seq(Specs), count : Nat]

ASSUME AbsentAssumption == Absent \notin Specs /\ Absent \notin Objects

\* The content of the notification: an object, or a tombstone.
Notifications == Keys \X {"obj", "tomb"}

InformerTypeOK ==
  /\ api \in [Keys -> Objects \cup {Absent}]
  /\ cache \in [Keys -> Objects \cup {Absent}]
  /\ unlisted \in SUBSET Keys
  /\ notif \in SUBSET Notifications
  /\ missed \in SUBSET Keys
  /\ removed \in SUBSET Keys
  /\ edits \in Nat

NewObject(s) == [spec |-> s, errs |-> << >>, count |-> 0]

Present(objs) == {k \in Keys : objs[k] # Absent}

InformerInit ==
  /\ api = [k \in Keys |-> Absent]
  /\ cache = [k \in Keys |-> Absent]
  /\ unlisted = {}
  /\ notif = {}
  /\ missed = {}
  /\ removed = {}
  /\ edits = 0

\* The process dies: its cache and what it had been told are gone.
InformerReset ==
  /\ cache' = [k \in Keys |-> Absent]
  /\ unlisted' = {}
  /\ notif' = {}
  /\ missed' = {}
  /\ UNCHANGED <<api, removed, edits>>

\* The factory is started: the informer begins with a list of all objects.
InformerStart ==
  /\ unlisted' = Present(api)
  /\ UNCHANGED <<api, cache, notif, missed, removed, edits>>

HasSynced == unlisted = {}

-----------------------------------------------------------------------------
\* A user creates, changes or deletes an object.
Edit(k) ==
  /\ edits < MaxEdits
  /\ edits' = edits + 1
  /\ \/ \E s \in Specs :
          /\ api[k] = Absent
          /\ api' = [api EXCEPT ![k] = NewObject(s)]
          /\ UNCHANGED removed
     \/ \E s \in Specs :
          /\ api[k] # Absent
          /\ s # api[k].spec
          /\ api' = [api EXCEPT ![k] = [@ EXCEPT !.spec = s]]
          /\ UNCHANGED removed
     \/ /\ api[k] # Absent
        /\ api' = [api EXCEPT ![k] = Absent]
        /\ removed' = removed \cup {k}
  /\ UNCHANGED <<cache, unlisted, notif, missed, queueVars>>

\* The informer learns the state of k and tells the handlers.
Observe(k) ==
  /\ k \in unlisted \/ cache[k] # api[k]
  /\ cache' = [cache EXCEPT ![k] = api[k]]
  /\ unlisted' = unlisted \ {k}
  /\ \/ /\ cache[k] # api[k]
        /\ notif' = notif \cup {<<k, "obj">>}
        /\ UNCHANGED missed
     \/ /\ cache[k] # Absent /\ api[k] = Absent
        /\ notif' = notif \cup {<<k, "tomb">>}
        /\ missed' = missed \cup {k}
     \/ /\ cache[k] = api[k]
        /\ UNCHANGED <<notif, missed>>
  /\ UNCHANGED <<api, removed, edits, queueVars>>

\* Slip: a factory without a resync period.
ResyncNever == FALSE /\ UNCHANGED <<informerVars, queueVars>>

\* The resync period is over: an update notification for every cached object.
Resync ==
  /\ Present(cache) # {}
  /\ notif' = notif \cup {<<k, "obj">> : k \in Present(cache)}
  /\ UNCHANGED <<api, cache, unlisted, missed, removed, edits, queueVars>>

-----------------------------------------------------------------------------
\* MetaNamespaceKeyFunc has a key for an object and none for a tombstone.
MetaNamespaceKeyFunc(n) == IF n[2] = "obj" THEN {n[1]} ELSE {}

\* Slip: enqueuerule registered for additions and updates only.
EnqueueIgnoresDelete(n) ==
  /\ n \in notif
  /\ notif' = notif \ {n}
  /\ IF n[2] = "obj" /\ cache[n[1]] # Absent THEN AddRateLimited(n[1])
                                             ELSE UNCHANGED queueVars
  /\ UNCHANGED <<api, cache, unlisted, missed, removed, edits>>

\* The handlers of NewController: additions, updates and deletions all go to
\* enqueuerule, which drops what has no key.
enqueuerule(n) ==
  /\ n \in notif
  /\ notif' = notif \ {n}
  /\ \/ \E k \in MetaNamespaceKeyFunc(n) : AddRateLimited(k)
     \/ MetaNamespaceKeyFunc(n) = {} /\ UNCHANGED queueVars
  /\ UNCHANGED <<api, cache, unlisted, missed, removed, edits>>

\* A change of k that the queue knows of or will be told of.
Pending(k) == k \in dirty \cup delayed \/ <<k, "obj">> \in notif

=============================================================================

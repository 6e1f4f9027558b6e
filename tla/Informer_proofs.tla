--------------------------- MODULE Informer_proofs ---------------------------
(***************************************************************************)
(* What the steps of the informer, of the handlers and of the queue's      *)
(* timer do to the types, to a change that is still to be synced, and to   *)
(* an object nobody deletes.  Both halves of the controller are told of    *)
(* changes by these steps, and their proofs rest on these lemmas.          *)
(***************************************************************************)
EXTENDS Informer, TLAPS

InformerStep ==
  \/ \E k \in Keys : \/ Edit(k)
                     \/ Observe(k)
                     \/ Mature(k) /\ UNCHANGED informerVars
  \/ Resync
  \/ \E n \in Notifications : enqueuerule(n)

LEMMA EditType ==
  ASSUME InformerTypeOK, NEW k \in Keys, Edit(k)
  PROVE  InformerTypeOK'
<1>1. \A s \in Specs : NewObject(s) \in Objects
  BY DEF NewObject, Objects
<1>2. \A s \in Specs : api[k] # Absent => [api[k] EXCEPT !.spec = s] \in Objects
  BY DEF InformerTypeOK, Objects
<1> QED BY <1>1, <1>2 DEF Edit, InformerTypeOK

LEMMA InformerStepType ==
  ASSUME QueueTypeOK, InformerTypeOK, InformerStep
  PROVE  QueueTypeOK' /\ InformerTypeOK'
<1> USE DEF queueVars
<1>1. ASSUME NEW k \in Keys, Edit(k) PROVE QueueTypeOK' /\ InformerTypeOK'
  <2>1. QueueTypeOK'
    BY <1>1 DEF Edit, QueueTypeOK
  <2> QED BY <1>1, <2>1, EditType
<1>2. ASSUME NEW k \in Keys, Observe(k) PROVE QueueTypeOK' /\ InformerTypeOK'
  BY <1>2 DEF Observe, QueueTypeOK, InformerTypeOK, Notifications
<1>3. ASSUME NEW k \in Keys, Mature(k), UNCHANGED informerVars
      PROVE  QueueTypeOK' /\ InformerTypeOK'
  BY <1>3 DEF Mature, QueueTypeOK, InformerTypeOK, informerVars
<1>4. CASE Resync
  <2>1. {<<k, "obj">> : k \in Present(cache)} \in SUBSET Notifications
    BY DEF Present, Notifications
  <2> QED BY <1>4, <2>1 DEF Resync, QueueTypeOK, InformerTypeOK
<1>5. ASSUME NEW n \in Notifications, enqueuerule(n)
      PROVE  QueueTypeOK' /\ InformerTypeOK'
  BY <1>5 DEF enqueuerule, AddRateLimited, MetaNamespaceKeyFunc, Notifications,
              QueueTypeOK, InformerTypeOK
<1> QED BY <1>1, <1>2, <1>3, <1>4, <1>5 DEF InformerStep

-----------------------------------------------------------------------------
\* No change slips through: a step that changes what the cache says of q leaves
\* q to be synced, or a deletion missed; and a key that is to be synced remains
\* so on its way from notification to queue.
LEMMA NothingSlips ==
  ASSUME InformerTypeOK, InformerStep, NEW q \in Keys,
         cache'[q] = cache[q] => Pending(q) \/ q \in missed
  PROVE  Pending(q)' \/ q \in missed'
<1>1. ASSUME NEW k \in Keys, Edit(k) PROVE Pending(q)' \/ q \in missed'
  <2>1. UNCHANGED <<cache, notif, missed, dirty, delayed>>
    BY <1>1 DEF Edit, queueVars
  <2> QED BY <2>1 DEF Pending
<1>2. ASSUME NEW k \in Keys, Observe(k) PROVE Pending(q)' \/ q \in missed'
  <2>1. /\ UNCHANGED <<dirty, delayed>>
        /\ notif \subseteq notif' /\ missed \subseteq missed'
    BY <1>2 DEF Observe, queueVars
  <2>2. CASE cache'[q] = cache[q]
    BY <2>1, <2>2 DEF Pending
  <2>3. CASE cache'[q] # cache[q]
    <3>1. q = k /\ cache[k] # api[k]
      BY <1>2, <2>3 DEF Observe, InformerTypeOK
    <3>2. <<k, "obj">> \in notif' \/ k \in missed'
      BY <1>2, <3>1 DEF Observe
    <3> QED BY <3>1, <3>2 DEF Pending
  <2> QED BY <2>2, <2>3
<1>3. ASSUME NEW k \in Keys, Mature(k), UNCHANGED informerVars
      PROVE  Pending(q)' \/ q \in missed'
  <2>1. /\ UNCHANGED <<cache, notif, missed>>
        /\ dirty \cup delayed \subseteq dirty' \cup delayed'
    BY <1>3 DEF Mature, informerVars
  <2> QED BY <2>1 DEF Pending
<1>4. CASE Resync
  <2>1. UNCHANGED <<cache, missed, dirty, delayed>> /\ notif \subseteq notif'
    BY <1>4 DEF Resync, queueVars
  <2> QED BY <2>1 DEF Pending
<1>5. ASSUME NEW n \in Notifications, enqueuerule(n)
      PROVE  Pending(q)' \/ q \in missed'
  <2>1. UNCHANGED <<cache, missed>> /\ notif' = notif \ {n}
    BY <1>5 DEF enqueuerule
  <2>2. dirty' = dirty /\ delayed \subseteq delayed'
    BY <1>5 DEF enqueuerule, AddRateLimited, queueVars
  <2>3. ASSUME n = <<q, "obj">> PROVE q \in delayed'
    BY <1>5, <2>3 DEF enqueuerule, MetaNamespaceKeyFunc, AddRateLimited
  <2> QED BY <2>1, <2>2, <2>3 DEF Pending
<1> QED BY <1>1, <1>2, <1>3, <1>4, <1>5 DEF InformerStep

\* What nobody deletes does not go away: neither from the API server, nor from
\* the cache, nor, unseen, from the list the cache is filled from.
LEMMA NothingVanishes ==
  ASSUME InformerTypeOK, InformerStep, NEW q \in Keys, q \notin removed'
  PROVE  /\ q \notin removed
         /\ api[q] # Absent => api'[q] # Absent
         /\ api[q] # Absent /\ cache[q] # Absent => cache'[q] # Absent
         /\ api[q] # Absent /\ q \in unlisted
              => q \in unlisted' \/ cache'[q] # Absent
         /\ cache'[q] # Absent => cache[q] # Absent \/ api[q] # Absent
         /\ unlisted' \subseteq unlisted
<1>1. ASSUME NEW k \in Keys, Edit(k)
      PROVE  /\ q \notin removed /\ UNCHANGED <<cache, unlisted>>
             /\ api[q] # Absent => api'[q] # Absent
  <2>1. q \notin removed /\ UNCHANGED <<cache, unlisted>>
    BY <1>1 DEF Edit
  <2>2. \A s \in Specs : NewObject(s) \in Objects
    BY DEF NewObject, Objects
  <2>3. \A s \in Specs : api[k] # Absent => [api[k] EXCEPT !.spec = s] \in Objects
    BY DEF InformerTypeOK, Objects
  <2>4. api[q] # Absent => api'[q] # Absent
    BY <1>1, <2>2, <2>3, AbsentAssumption DEF Edit, InformerTypeOK
  <2> QED BY <2>1, <2>4
<1>2. ASSUME NEW k \in Keys, Observe(k)
      PROVE  /\ UNCHANGED <<api, removed>> /\ unlisted' = unlisted \ {k}
             /\ cache' = [cache EXCEPT ![k] = api[k]]
  BY <1>2 DEF Observe
<1>3. CASE \E k \in Keys : Observe(k)
  BY <1>2, <1>3 DEF InformerTypeOK
<1>4. ASSUME \/ \E k \in Keys : Mature(k) /\ UNCHANGED informerVars
             \/ Resync
             \/ \E n \in Notifications : enqueuerule(n)
      PROVE  UNCHANGED <<api, cache, unlisted, removed>>
  BY <1>4 DEF Resync, enqueuerule, informerVars
<1> QED BY <1>1, <1>3, <1>4 DEF InformerStep

=============================================================================

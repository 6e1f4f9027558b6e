----------------------------- MODULE WorkQueue -----------------------------
(***************************************************************************)
(* The rate limiting work queue of client-go, as the controller uses it:   *)
(* an event handler calls AddRateLimited, one worker goroutine calls Get,  *)
(* Done and (on success only) Forget.  The library is not part of the      *)
(* repository; this module is what controller.go relies on.                *)
(*                                                                         *)
(*  - A key waits in `delayed' until its back-off has elapsed, then it is  *)
(*    added: a key already waiting or already dirty is not added twice.    *)
(*  - Get hands out a dirty key that is not being processed.               *)
(*  - A key added while it is processed stays dirty and becomes available  *)
(*    again after Done.                                                    *)
(*                                                                         *)
(* Abstracted: the FIFO order of the queue (a sync reads every object, so  *)
(* which key is handed out first does not matter) and the length of the    *)
(* back-off, which Forget resets and nothing else observes.                *)
(***************************************************************************)
EXTENDS Naturals, FiniteSets

CONSTANT Keys               \* names of the objects: the keys of the queue

VARIABLES
  dirty,                    \* keys that need a sync
  processing,               \* keys handed out by Get and not yet Done
  delayed                   \* keys whose back-off has not elapsed

queueVars == <<dirty, processing, delayed>>

QueueTypeOK ==
  /\ dirty \in SUBSET Keys
  /\ processing \in SUBSET Keys
  /\ delayed \in SUBSET Keys

\* An empty queue: a new process.
QueueInit == dirty = {} /\ processing = {} /\ delayed = {}

\* The process dies and the queue with it.
QueueReset == dirty' = {} /\ processing' = {} /\ delayed' = {}

AddRateLimited(k) ==
  /\ delayed' = delayed \cup {k}
  /\ UNCHANGED <<dirty, processing>>

\* The back-off of k has elapsed: the queue's own goroutine adds the key.
Mature(k) ==
  /\ k \in delayed
  /\ delayed' = delayed \ {k}
  /\ dirty' = dirty \cup {k}
  /\ UNCHANGED processing

Get(k) ==
  /\ k \in dirty \ processing
  /\ processing' = processing \cup {k}
  /\ dirty' = dirty \ {k}
  /\ UNCHANGED delayed

\* The single worker is done with the key it holds (with none, in the sync
\* that runs before the worker starts).
DoneAll ==
  /\ processing' = {}
  /\ UNCHANGED <<dirty, delayed>>

=============================================================================

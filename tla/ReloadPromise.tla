---------------------------- MODULE ReloadPromise ----------------------------
(***************************************************************************)
(* What the controller may expect of its reloads, seen from outside: after *)
(* a change of the published configuration every Prometheus it is meant to *)
(* reload is owed a load, and a debt ends only with a load of what is then *)
(* published or by being written off.  Nothing is said of how often a      *)
(* Prometheus loads, of order, of who asks, or of what a change changes:   *)
(* the same configuration may be published again, or an earlier one.       *)
(***************************************************************************)
CONSTANTS
  Targets,                  \* the Prometheus servers to reload
  MayFail                   \* whether a change may be made by someone who
                            \* then fails to ask for the reload

VARIABLES
  current,                  \* the configuration published last
  loaded,                   \* the one each target loaded last
  owed,                     \* targets still to be reloaded
  lost                      \* targets whose last reload was written off

Init ==
  /\ loaded = [t \in Targets |-> current]
  /\ owed = {}
  /\ lost = {}

\* Published, with a reload to follow, which may revive what was written off.
Change ==
  /\ owed' = Targets
  /\ lost' \subseteq lost
  /\ UNCHANGED loaded

\* Published, and the reload written off at once unless one is on its way.
ChangeUnasked ==
  /\ MayFail
  /\ owed' \subseteq owed
  /\ lost' = Targets
  /\ UNCHANGED loaded

Load(t) ==
  /\ t \in owed
  /\ loaded' = [loaded EXCEPT ![t] = current]
  /\ lost' = lost \ {t}
  /\ owed \ {t} \subseteq owed' /\ owed' \subseteq owed
  /\ UNCHANGED current

\* A debt to a target that runs what is published needs no writing off.
WriteOff(S) ==
  /\ S \subseteq owed
  /\ lost' = lost \cup S
  /\ owed' \subseteq owed
  /\ \A t \in owed \ owed' : t \in S \/ loaded[t] = current
  /\ UNCHANGED <<current, loaded>>

Next ==
  \/ Change \/ ChangeUnasked
  \/ \E t \in Targets : Load(t)
  \/ \E S \in SUBSET Targets : WriteOff(S)

vars == <<current, loaded, owed, lost>>

Spec == Init /\ [][Next]_vars

=============================================================================

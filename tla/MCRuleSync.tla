---- MODULE MCRuleSync ----
EXTENDS RuleSync, TLC
MCClassOf(s) == IF s \in {"ok1", "ok2"} THEN "ok" ELSE s
MCRuleCountOf(s) == IF s = "ok2" THEN 0 ELSE 1
KeySymmetry == Permutations(Keys)

\* A controller at rest: users have created a valid object under every name, and
\* all is published and loaded.  Either calls can fail from here on, or none can
\* and a user has just broken a Scrape, which ends the process at any point and
\* any number of times until it is repaired.
Settled == [k \in Keys |-> NewObject("ok2")]
SettledInit ==
  /\ api = Settled /\ cache = Settled /\ unlisted = {} /\ notif = {}
  /\ missed = {} /\ removed = {} /\ edits = 0
  /\ QueueInit
  /\ phase = "running" /\ pc = "idle"
  /\ snap = Settled /\ todo = {}
  /\ changed = FALSE /\ lastErr = FALSE
  /\ cm = (IF HasCM THEN Render(Settled) ELSE NoCM)
  /\ file = (IF HasFile THEN Render(Settled) ELSE NoFile)
  /\ mount = (IF HasFile THEN NoCM ELSE cm)
  /\ prom = (IF HasFile THEN file ELSE mount)
  /\ inflight = 0 /\ lost = {}
  /\ \/ badScrape = FALSE /\ fails = 0
     \/ badScrape = TRUE /\ fails = MaxFails
  /\ crashes = 0 /\ otherReloads = 0

SettledSpec == SettledInit /\ [][Next]_vars /\ Fairness
====

---- MODULE MCScrapeSync ----
EXTENDS ScrapeSync
\* "ok" converts, "bad" does not, the conversion of "nil" panics.
MCClassOf(s) == CASE s = "ok" -> "ok" [] s = "bad" -> "error" [] s = "nil" -> "panic"
MCTimingOf(s) == [scrape_interval |-> 0, scrape_timeout |-> 20]
MCJobOf(k) == IF k = "k1" THEN "default/k1" ELSE "default/k2"
MCClusters == {"c1", "twin"}
\* One job for Prometheus and one for each cluster, which has the name of a
\* scrape: with two clusters two jobs have the same name.  With c1 the interval
\* is shorter, and the timeout of "ok" above it.
MCTemplate(cl) ==
  [global |-> [scrape_interval |-> IF "c1" \in cl THEN 15 ELSE 30,
               scrape_timeout |-> 0],
   rule_files |-> TRUE,
   scrapes |-> [p \in {"self"} \cup cl |->
     [job_name |-> IF p = "self" THEN "prometheus" ELSE "default/k1",
      scrape_interval |-> IF p = "self" THEN 5 ELSE 0,
      scrape_timeout |-> 0]]]
====

-------------------------- MODULE PromConfig_proofs --------------------------
(***************************************************************************)
(* What loading a configuration and appending scrapes to it afterwards     *)
(* does to it, for configurations of any size.                             *)
(***************************************************************************)
EXTENDS PromConfig, TLAPS

LEMMA GivenNat ==
  ASSUME NEW d \in Nat, NEW e \in Nat
  PROVE  /\ Given(d, e) \in Nat
         /\ Given(d, e) = 0 => d = 0 /\ e = 0
         /\ d # 0 => Given(d, e) = d
  BY DEF Given

\* A block that is resolved has a timeout that fits its interval, if it had
\* one that fits when it was given.
LEMMA ResolveFits ==
  ASSUME NEW i \in Nat, NEW t \in Nat, NEW oi \in Nat, NEW ot \in Nat,
         t <= Given(i, oi)
  PROVE  InferTimeout(t, Given(i, oi), ot) <= Given(i, oi)
  BY DEF InferTimeout, Given

LEMMA GlobalType ==
  ASSUME NEW g \in Globals
  PROVE  /\ GlobalConfig(g) \in Globals
         /\ GlobalConfig(g).scrape_interval > 0
         /\ GlobalConfig(g).scrape_timeout > 0
         /\ GlobalConfig(g).scrape_interval = Given(g.scrape_interval, 60)
         /\ GlobalConfig(g).scrape_timeout =
              InferTimeout(g.scrape_timeout, Given(g.scrape_interval, 60), 10)
  <1> DEFINE i == Given(g.scrape_interval, 60)
             t == InferTimeout(g.scrape_timeout, i, 10)
  <1>1. g.scrape_interval \in Nat /\ g.scrape_timeout \in Nat
    BY DEF Globals
  <1>2. i \in Nat /\ i > 0
    BY <1>1 DEF Given
  <1>3. t \in Nat /\ t > 0
    BY <1>1, <1>2 DEF InferTimeout, Given
  <1>4. DefaultGlobalConfig.scrape_interval = 60
        /\ DefaultGlobalConfig.scrape_timeout = 10
    BY DEF DefaultGlobalConfig
  <1>5. GlobalConfig(g) = [g EXCEPT !.scrape_interval = i, !.scrape_timeout = t]
    BY <1>4 DEF GlobalConfig, Resolve
  <1>6. GlobalConfig(g) = [scrape_interval |-> i, scrape_timeout |-> t]
    <2> HIDE DEF i, t
    <2> QED BY <1>5 DEF Globals
  <1> QED BY <1>2, <1>3, <1>6 DEF Globals

\* The global block of a loaded configuration is read again as it is.
LEMMA GlobalOnce ==
  ASSUME NEW g \in Globals
  PROVE  GlobalConfig(GlobalConfig(g)) = GlobalConfig(g)
  <1> DEFINE h == GlobalConfig(g)
  <1>1. h \in Globals /\ h.scrape_interval > 0 /\ h.scrape_timeout > 0
    BY GlobalType
  <1> HIDE DEF h
  <1>2. /\ GlobalConfig(h) \in Globals
        /\ GlobalConfig(h).scrape_interval = h.scrape_interval
        /\ GlobalConfig(h).scrape_timeout = h.scrape_timeout
    BY <1>1, GlobalType DEF Given, InferTimeout, Globals
  <1>3. GlobalConfig(h) = h
    BY <1>1, <1>2 DEF Globals
  <1> QED BY <1>3 DEF h

LEMMA ScrapeType ==
  ASSUME NEW s \in Scrapes, NEW g \in Globals
  PROVE  /\ Resolve(s, g) \in Scrapes
         /\ Resolve(s, g).job_name = s.job_name
         /\ Resolve(s, g).scrape_interval =
              Given(s.scrape_interval, g.scrape_interval)
         /\ Resolve(s, g).scrape_timeout =
              InferTimeout(s.scrape_timeout,
                           Given(s.scrape_interval, g.scrape_interval),
                           g.scrape_timeout)
  BY DEF Scrapes, Globals, Resolve, Given, InferTimeout

\* A configuration that loads stays one when scrapes are appended to what was
\* loaded, if each of them has a name no other scrape has and a timeout that
\* fits: these are all the checks that appending evades (controller.go:443).
THEOREM AppendLoads ==
  ASSUME NEW c, IsConfig(c), Loads(c),
         NEW added, \A i \in DOMAIN added : added[i] \in Scrapes,
         DOMAIN added \cap DOMAIN c.scrapes = {},
         \A i \in DOMAIN added : TimeoutFits(added[i], Load(c).global),
         \A i \in DOMAIN added, j \in DOMAIN c.scrapes :
           added[i].job_name # c.scrapes[j].job_name,
         \A i, j \in DOMAIN added : i # j => added[i].job_name # added[j].job_name
  PROVE  Loads(AppendScrapes(Load(c), added))
  <1> DEFINE g == GlobalConfig(c.global)
             r == AppendScrapes(Load(c), added)
  <1>1. g \in Globals /\ GlobalConfig(g) = g
    BY GlobalType, GlobalOnce DEF IsConfig
  <1>2. r.global = g /\ r.rule_files = c.rule_files /\ Load(c).global = g
    BY DEF AppendScrapes, Load
  <1>3. TimeoutFits(g, DefaultGlobalConfig)
    <2>1. c.global \in Globals /\ TimeoutFits(c.global, DefaultGlobalConfig)
      BY DEF IsConfig, Loads
    <2>2. c.global.scrape_timeout <= Given(c.global.scrape_interval, 60)
      BY <2>1 DEF TimeoutFits, DefaultGlobalConfig
    <2>3. g.scrape_timeout <= g.scrape_interval /\ g.scrape_interval > 0
      BY <2>1, <2>2, GlobalType, ResolveFits DEF Globals
    <2> QED BY <1>1, <2>3 DEF TimeoutFits, Globals, Given
  <1>4. DOMAIN r.scrapes = DOMAIN c.scrapes \cup DOMAIN added
    BY DEF AppendScrapes, Load
  <1>5. ASSUME NEW i \in DOMAIN c.scrapes
        PROVE  r.scrapes[i] = Resolve(c.scrapes[i], g)
    BY DEF AppendScrapes, Load
  <1>6. ASSUME NEW i \in DOMAIN added
        PROVE  r.scrapes[i] = added[i]
    BY DEF AppendScrapes, Load
  <1> HIDE DEF g, r
  <1>7. ASSUME NEW i \in DOMAIN c.scrapes
        PROVE  /\ TimeoutFits(r.scrapes[i], g)
               /\ r.scrapes[i].job_name = c.scrapes[i].job_name
    <2>1. c.scrapes[i] \in Scrapes /\ TimeoutFits(c.scrapes[i], g)
      BY DEF IsConfig, Loads, g
    <2>2. /\ c.scrapes[i].scrape_interval \in Nat
          /\ c.scrapes[i].scrape_timeout \in Nat
          /\ g.scrape_interval \in Nat /\ g.scrape_timeout \in Nat
      BY <1>1, <2>1 DEF Scrapes, Globals
    <2>3. c.scrapes[i].scrape_timeout
            <= Given(c.scrapes[i].scrape_interval, g.scrape_interval)
      BY <2>1 DEF TimeoutFits
    <2>4. /\ r.scrapes[i] \in Scrapes
          /\ r.scrapes[i].job_name = c.scrapes[i].job_name
          /\ r.scrapes[i].scrape_interval =
               Given(c.scrapes[i].scrape_interval, g.scrape_interval)
          /\ r.scrapes[i].scrape_timeout <= r.scrapes[i].scrape_interval
      BY <1>1, <1>5, <2>1, <2>2, <2>3, ScrapeType, ResolveFits
    <2>5. r.scrapes[i].scrape_timeout <=
            Given(r.scrapes[i].scrape_interval, g.scrape_interval)
      BY <2>2, <2>4 DEF Given, Scrapes
    <2> QED BY <2>4, <2>5 DEF TimeoutFits
  <1>8. \A i \in DOMAIN r.scrapes : TimeoutFits(r.scrapes[i], g)
    BY <1>2, <1>4, <1>6, <1>7
  <1>9. \A i, j \in DOMAIN c.scrapes :
          i # j => c.scrapes[i].job_name # c.scrapes[j].job_name
    BY DEF Loads
  <1>10. \A i, j \in DOMAIN r.scrapes :
           i # j => r.scrapes[i].job_name # r.scrapes[j].job_name
    BY <1>4, <1>6, <1>7, <1>9
  <1>11. c.rule_files
    BY DEF Loads
  <1>12. Loads(r)
    BY <1>1, <1>2, <1>3, <1>8, <1>10, <1>11 DEF Loads
  <1> QED BY <1>12 DEF r

\* So is a scrape: what the global block gave it is then its own.
LEMMA ScrapeOnce ==
  ASSUME NEW s \in Scrapes, NEW g \in Globals,
         g.scrape_interval > 0, g.scrape_timeout > 0
  PROVE  Resolve(Resolve(s, g), g) = Resolve(s, g)
  <1> DEFINE h == Resolve(s, g)
  <1>1. /\ h \in Scrapes /\ h.job_name = s.job_name
        /\ h.scrape_interval = Given(s.scrape_interval, g.scrape_interval)
        /\ h.scrape_timeout = InferTimeout(s.scrape_timeout, h.scrape_interval,
                                          g.scrape_timeout)
    BY ScrapeType
  <1>2. h.scrape_interval > 0 /\ h.scrape_timeout > 0
    BY <1>1 DEF Scrapes, Globals, Given, InferTimeout
  <1> HIDE DEF h
  <1>3. /\ Resolve(h, g) \in Scrapes /\ Resolve(h, g).job_name = h.job_name
        /\ Resolve(h, g).scrape_interval = h.scrape_interval
        /\ Resolve(h, g).scrape_timeout = h.scrape_timeout
    BY <1>1, <1>2, ScrapeType DEF Given, InferTimeout, Scrapes
  <1>4. Resolve(h, g) = h
    BY <1>1, <1>3 DEF Scrapes
  <1> QED BY <1>4 DEF h

\* Reading a configuration, appending scrapes and writing it leaves Prometheus
\* with what the configuration and the scrapes say, whatever was left to defaults
\* (controller.go:382-447).
THEOREM AppendReadsTheSame ==
  ASSUME NEW c, IsConfig(c), NEW added
  PROVE  Load(AppendScrapes(Load(c), added)) = Load(AppendScrapes(c, added))
  <1> DEFINE g == GlobalConfig(c.global)
             D == DOMAIN c.scrapes
             a == AppendScrapes(Load(c), added)
             b == AppendScrapes(c, added)
  <1>1. /\ g \in Globals /\ GlobalConfig(g) = g
        /\ g.scrape_interval > 0 /\ g.scrape_timeout > 0
    BY GlobalType, GlobalOnce DEF IsConfig
  <1>2. /\ a.global = g /\ b.global = c.global /\ a.rule_files = b.rule_files
        /\ DOMAIN a.scrapes = DOMAIN b.scrapes
    BY DEF AppendScrapes, Load
  <1>3. ASSUME NEW i \in DOMAIN a.scrapes
        PROVE  Resolve(a.scrapes[i], g) = Resolve(b.scrapes[i], g)
    <2>1. CASE i \in D
      <3>1. a.scrapes[i] = Resolve(c.scrapes[i], g) /\ b.scrapes[i] = c.scrapes[i]
        BY <2>1 DEF AppendScrapes, Load
      <3>2. c.scrapes[i] \in Scrapes
        BY <2>1 DEF IsConfig
      <3> QED BY <1>1, <3>1, <3>2, ScrapeOnce
    <2>2. CASE i \notin D
      BY <1>3, <2>2 DEF AppendScrapes, Load
    <2> QED BY <2>1, <2>2
  <1>4. GlobalConfig(a.global) = g /\ GlobalConfig(b.global) = g
    BY <1>1, <1>2
  <1> HIDE DEF g, a, b
  <1>5. Load(a) = Load(b)
    BY <1>2, <1>3, <1>4 DEF Load
  <1> QED BY <1>5 DEF a, b

-----------------------------------------------------------------------------
(***************************************************************************)
(* One section, whatever keys it has: what is read of it, what is written  *)
(* of that, and what is read again.                                        *)
(***************************************************************************)
\* What is asked of the YAML of a section, whichever keys it has.
IsSection(y) ==
  /\ y = [f \in DOMAIN y |-> y[f]]
  /\ "kind" \in DOMAIN y /\ y.kind \notin {Unset, Null, Empty}
  /\ y.kind = "ec2" => "region" \in DOMAIN y /\ y.region \in Opt

\* A default is a value: not missing, not null, not a zero value.
LEMMA DefaultGiven ==
  ASSUME NEW kind, NEW f \in DOMAIN Default(kind)
  PROVE  Default(kind)[f] \notin {Unset, Null, Empty}
<1>1. CASE kind = "scrape"
  <2>1. f \in {"metrics_path", "scheme"}
    BY <1>1 DEF Default
  <2>2. Default(kind).metrics_path = "/metrics" /\ Default(kind).scheme = "http"
    BY <1>1 DEF Default
  <2> QED BY <2>1, <2>2 DEF Unset, Null, Empty
<1>2. CASE kind = "alertmanager"
  <2>1. f \in {"scheme", "timeout"}
    BY <1>2 DEF Default
  <2>2. Default(kind).scheme = "http" /\ Default(kind).timeout = "10s"
    BY <1>2 DEF Default
  <2> QED BY <2>1, <2>2 DEF Unset, Null, Empty
<1>3. CASE kind = "relabel"
  <2>1. f \in {"action", "separator", "regex", "replacement"}
    BY <1>3 DEF Default
  <2>2. /\ Default(kind).action = "replace"
        /\ Default(kind).separator = ";"
        /\ Default(kind).regex = "(.*)"
        /\ Default(kind).replacement = "$1"
    BY <1>3 DEF Default
  <2> QED BY <2>1, <2>2 DEF Unset, Null, Empty
<1>4. CASE kind = "dns"
  <2>1. f \in {"refresh_interval", "type"}
    BY <1>4 DEF Default
  <2>2. Default(kind).refresh_interval = "30s" /\ Default(kind).type = "SRV"
    BY <1>4 DEF Default
  <2> QED BY <2>1, <2>2 DEF Unset, Null, Empty
<1>5. CASE kind = "file"
  <2>1. f \in {"refresh_interval"}
    BY <1>5 DEF Default
  <2>2. Default(kind).refresh_interval = "5m"
    BY <1>5 DEF Default
  <2> QED BY <2>1, <2>2 DEF Unset, Null, Empty
<1>6. CASE kind = "consul"
  <2>1. f \in {"tag_separator", "scheme"}
    BY <1>6 DEF Default
  <2>2. Default(kind).tag_separator = "," /\ Default(kind).scheme = "http"
    BY <1>6 DEF Default
  <2> QED BY <2>1, <2>2 DEF Unset, Null, Empty
<1>7. CASE kind \in {"serverset", "nerve"}
  <2>1. f \in {"timeout"}
    BY <1>7 DEF Default
  <2>2. Default(kind).timeout = "10s"
    BY <1>7 DEF Default
  <2> QED BY <2>1, <2>2 DEF Unset, Null, Empty
<1>8. CASE kind = "marathon"
  <2>1. f \in {"timeout", "refresh_interval"}
    BY <1>8 DEF Default
  <2>2. Default(kind).timeout = "30s" /\ Default(kind).refresh_interval = "30s"
    BY <1>8 DEF Default
  <2> QED BY <2>1, <2>2 DEF Unset, Null, Empty
<1>9. CASE kind = "gce"
  <2>1. f \in {"port", "tag_separator", "refresh_interval"}
    BY <1>9 DEF Default
  <2>2. /\ Default(kind).port = "80"
        /\ Default(kind).tag_separator = ","
        /\ Default(kind).refresh_interval = "60s"
    BY <1>9 DEF Default
  <2> QED BY <2>1, <2>2 DEF Unset, Null, Empty
<1>10. CASE kind \in {"ec2", "openstack"}
  <2>1. f \in {"port", "refresh_interval"}
    BY <1>10 DEF Default
  <2>2. Default(kind).port = "80" /\ Default(kind).refresh_interval = "60s"
    BY <1>10 DEF Default
  <2> QED BY <2>1, <2>2 DEF Unset, Null, Empty
<1>11. CASE kind = "azure"
  <2>1. f \in {"port", "refresh_interval"}
    BY <1>11 DEF Default
  <2>2. Default(kind).port = "80" /\ Default(kind).refresh_interval = "5m"
    BY <1>11 DEF Default
  <2> QED BY <2>1, <2>2 DEF Unset, Null, Empty
<1>12. CASE kind = "triton"
  <2>1. f \in {"port", "refresh_interval", "version"}
    BY <1>12 DEF Default
  <2>2. /\ Default(kind).port = "9163"
        /\ Default(kind).refresh_interval = "60s"
        /\ Default(kind).version = "1"
    BY <1>12 DEF Default
  <2> QED BY <2>1, <2>2 DEF Unset, Null, Empty
<1>13. CASE kind = "remote_write"
  <2>1. f \in {"remote_timeout", "max_retries"}
    BY <1>13 DEF Default
  <2>2. Default(kind).remote_timeout = "30s" /\ Default(kind).max_retries = "10"
    BY <1>13 DEF Default
  <2> QED BY <2>1, <2>2 DEF Unset, Null, Empty
<1>14. CASE kind = "remote_read"
  <2>1. f \in {"remote_timeout"}
    BY <1>14 DEF Default
  <2>2. Default(kind).remote_timeout = "1m"
    BY <1>14 DEF Default
  <2> QED BY <2>1, <2>2 DEF Unset, Null, Empty
<1>15. CASE kind \notin {"scrape", "alertmanager", "relabel", "dns", "file", "consul",
                      "serverset", "nerve", "marathon", "gce", "ec2", "openstack",
                      "azure", "triton", "remote_write", "remote_read"}
  <2>1. Default(kind) = [g \in {} |-> Empty]
    BY <1>15 DEF Default
  <2> QED BY <2>1
<1> QED BY <1>1, <1>2, <1>3, <1>4, <1>5, <1>6, <1>7, <1>8, <1>9, <1>10, <1>11, <1>12, <1>13, <1>14, <1>15

\* Decode keeps the keys and the kind, and leaves no key without a value.
LEMMA DecodeShape ==
  ASSUME NEW y, IsSection(y)
  PROVE  /\ Decode(y) = [f \in DOMAIN y |-> Decode(y)[f]]
         /\ DOMAIN Decode(y) = DOMAIN y /\ Decode(y).kind = y.kind
         /\ \A f \in DOMAIN y : Decode(y)[f] \notin {Unset, Null}
<1>1. Unset # Null /\ Empty \notin {Unset, Null}
  BY DEF Unset, Null, Empty
<1>2. DOMAIN Decode(y) = DOMAIN y /\ Decode(y) = [f \in DOMAIN y |-> Decode(y)[f]]
  BY DEF Decode
<1>3. Decode(y).kind = y.kind
  BY DEF Decode, IsSection
<1>4. ASSUME NEW f \in DOMAIN y
      PROVE  Decode(y)[f] \notin {Unset, Null}
  BY <1>1, DefaultGiven DEF Decode
<1> QED BY <1>2, <1>3, <1>4

\* So does the metadata service, which only has a say in the region.
LEMMA UnmarshalShape ==
  ASSUME NEW y, IsSection(y), NEW m, m \notin {Unset, Null}
  PROVE  LET v == Unmarshal(y, m)
         IN  /\ v = [f \in DOMAIN y |-> v[f]]
             /\ v.kind = y.kind
             /\ \A f \in DOMAIN y :
                  /\ v[f] \notin {Unset, Null}
                  /\ v[f] = Decode(y)[f] \/ (y.kind = "ec2" /\ f = "region")
<1> DEFINE d == Decode(y)
           v == Unmarshal(y, m)
<1>1. /\ d = [f \in DOMAIN y |-> d[f]]
      /\ DOMAIN d = DOMAIN y /\ d.kind = y.kind
      /\ \A f \in DOMAIN y : d[f] \notin {Unset, Null}
  BY DecodeShape
<1>2. v = IF d.kind = "ec2" /\ d.region = Empty THEN [d EXCEPT !.region = m] ELSE d
  BY DEF Unmarshal, WithRegion
<1>3. "kind" \in DOMAIN y
  BY DEF IsSection
<1> HIDE DEF d, v
<1>4. CASE d.kind = "ec2" /\ d.region = Empty
  <2>1. v = [d EXCEPT !["region"] = m]
    BY <1>2, <1>4
  <2>2. DOMAIN v = DOMAIN y /\ v = [f \in DOMAIN y |-> v[f]]
    BY <1>1, <2>1
  <2>3. ASSUME NEW f \in DOMAIN y
        PROVE  v[f] = IF f = "region" THEN m ELSE d[f]
    BY <1>1, <2>1
  <2> QED BY <1>1, <1>3, <1>4, <2>2, <2>3 DEF d, v
<1>5. CASE ~(d.kind = "ec2" /\ d.region = Empty)
  BY <1>1, <1>2, <1>5 DEF d, v
<1> QED BY <1>4, <1>5

\* The region that is given, or that of another kind of section, is not asked
\* for: whatever the metadata service answers, the same is read.
LEMMA UnmarshalGiven ==
  ASSUME NEW y, IsSection(y), ~(y.kind = "ec2" /\ y.region = Unset)
  PROVE  \A m : Unmarshal(y, m) = Decode(y)
<1>1. Decode(y).kind = y.kind
  BY DecodeShape
<1>2. CASE y.kind = "ec2"
  <2>1. y.region = "text" /\ "region" \in DOMAIN y
    BY <1>2 DEF IsSection, Opt
  <2>2. Decode(y)["region"] = "text"
    BY <2>1 DEF Decode, Unset, Null
  <2> QED BY <2>2 DEF Unmarshal, WithRegion, Empty
<1>3. CASE y.kind # "ec2"
  BY <1>1, <1>3 DEF Unmarshal, WithRegion
<1> QED BY <1>2, <1>3

\* A section that is read, written and read again is read as before: what
\* yaml.Marshal leaves out is a zero value, which comes back unless the key has
\* another default; and it had that only if the zero value was given.
LEMMA EncodeDecode ==
  ASSUME NEW y, IsSection(y), NEW m, m \notin {Unset, Null},
         \A f \in DOMAIN y :
           f \in DOMAIN Default(y.kind) \ (AlwaysWritten \cup {"regex"})
             => y[f] \notin {Empty, Null}
  PROVE  Decode(Encode(Unmarshal(y, m))) = Unmarshal(y, m)
<1> DEFINE v == Unmarshal(y, m)
           e == Encode(v)
<1>1. /\ v = [f \in DOMAIN y |-> v[f]]
      /\ v.kind = y.kind
      /\ \A f \in DOMAIN y :
           /\ v[f] \notin {Unset, Null}
           /\ v[f] = Decode(y)[f] \/ (y.kind = "ec2" /\ f = "region")
  BY UnmarshalShape
<1>2. "kind" \in DOMAIN y /\ y.kind # Empty
  BY DEF IsSection
<1>3. Empty # Unset /\ Empty # Null /\ Unset # Null
  BY DEF Empty, Unset, Null
<1> HIDE DEF v
<1>4. DOMAIN e = DOMAIN y
  BY <1>1 DEF Encode
<1>5. e.kind = y.kind
  BY <1>1, <1>2 DEF Encode
<1>6. ASSUME NEW f \in DOMAIN y
      PROVE  e[f] = IF f = "regex" THEN MarshalRegexp(v[f])
                    ELSE IF v[f] = Empty /\ f \notin AlwaysWritten THEN Unset
                    ELSE v[f]
  BY <1>1 DEF Encode
<1> HIDE DEF e
<1>7. ASSUME NEW f \in DOMAIN y, v[f] = Empty, f \notin AlwaysWritten \cup {"regex"}
      PROVE  f \notin DOMAIN Default(y.kind)
  <2> SUFFICES ASSUME f \in DOMAIN Default(y.kind)
               PROVE  FALSE
    OBVIOUS
  <2>1. y[f] \notin {Empty, Null}
    BY <1>7
  <2>2. Default(y.kind)[f] # Empty
    BY DefaultGiven
  <2>3. Decode(y)[f] # Empty
    BY <2>1, <2>2 DEF Decode
  <2>4. y.kind = "ec2" => f # "region"
    BY DEF Default
  <2> QED BY <1>1, <1>7, <2>3, <2>4
<1>8. ASSUME NEW f \in DOMAIN y
      PROVE  Decode(e)[f] = v[f]
  <2>1. Decode(e)[f] = IF e[f] = Null THEN Empty
                       ELSE IF e[f] # Unset THEN e[f]
                       ELSE IF f \in DOMAIN Default(y.kind) THEN Default(y.kind)[f]
                       ELSE Empty
    BY <1>4, <1>5 DEF Decode
  <2>2. CASE f = "regex"
    BY <1>1, <1>3, <1>6, <2>1, <2>2 DEF MarshalRegexp
  <2>3. CASE f # "regex" /\ v[f] = Empty /\ f \notin AlwaysWritten
    BY <1>3, <1>6, <1>7, <2>1, <2>3
  <2>4. CASE f # "regex" /\ ~(v[f] = Empty /\ f \notin AlwaysWritten)
    BY <1>1, <1>6, <2>1, <2>4
  <2> QED BY <2>2, <2>3, <2>4
<1>9. Decode(e) = [f \in DOMAIN y |-> Decode(e)[f]]
  BY <1>4 DEF Decode
<1>10. Decode(e) = v
  BY <1>1, <1>8, <1>9
<1> QED BY <1>10 DEF e, v

=============================================================================

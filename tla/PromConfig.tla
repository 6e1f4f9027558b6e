----------------------------- MODULE PromConfig -----------------------------
(***************************************************************************)
(* internal/prom2/config.go: what a Prometheus configuration means once it *)
(* is read, which ones are refused, and what is written of one that was    *)
(* read.  Only operators, no state.                                        *)
(*                                                                         *)
(* A section of the YAML is a record of its keys.  Only keys that have a   *)
(* default or that a check looks at are kept, with one value for each case *)
(* the code tells apart.  The durations of a scrape and of the global      *)
(* block are numbers, further down, 0 being the one that is not given.     *)
(***************************************************************************)
EXTENDS Naturals

Unset == "unset"            \* the key is not there
Null == "null"              \* `key:' with nothing after it: a zero value
Empty == ""                 \* the zero value: "", 0, nil

Opt == {Unset, "text"}
Text == {Unset, Empty, "text"}
Block == {Unset, "text", "unknown"}     \* a nested block; with unknown keys
Unknown == {Unset, "unknown"}           \* keys that no field takes
Targets == {Unset, "host", "url", "nil"} \* nil: a `-' with nothing after it

\* The defaults that are not zero values.
Default(kind) ==
  CASE kind = "scrape" -> [metrics_path |-> "/metrics", scheme |-> "http"]
    [] kind = "alertmanager" -> [scheme |-> "http", timeout |-> "10s"]
    [] kind = "relabel" -> [action |-> "replace", separator |-> ";",
                            regex |-> "(.*)", replacement |-> "$1"]
    [] kind = "dns" -> [refresh_interval |-> "30s", type |-> "SRV"]
    [] kind = "file" -> [refresh_interval |-> "5m"]
    [] kind = "consul" -> [tag_separator |-> ",", scheme |-> "http"]
    [] kind \in {"serverset", "nerve"} -> [timeout |-> "10s"]
    [] kind = "marathon" -> [timeout |-> "30s", refresh_interval |-> "30s"]
    [] kind = "gce" -> [port |-> "80", tag_separator |-> ",",
                        refresh_interval |-> "60s"]
    [] kind \in {"ec2", "openstack"} -> [port |-> "80",
                                         refresh_interval |-> "60s"]
    [] kind = "azure" -> [port |-> "80", refresh_interval |-> "5m"]
    [] kind = "triton" -> [port |-> "9163", refresh_interval |-> "60s",
                           version |-> "1"]
    [] kind = "remote_write" -> [remote_timeout |-> "30s", max_retries |-> "10"]
    [] kind = "remote_read" -> [remote_timeout |-> "1m"]
    [] OTHER -> [f \in {} |-> Empty]

\* The keys with such a default whose field has no `omitempty'.
AlwaysWritten == {"type", "port", "version"}

\* *c = DefaultX; unmarshal((*plain)(c)): what is not given stays as it was.
Decode(y) ==
  [f \in DOMAIN y |->
     IF y[f] = Null THEN Empty
     ELSE IF y[f] # Unset THEN y[f]
     ELSE IF f \in DOMAIN Default(y.kind) THEN Default(y.kind)[f]
     ELSE Empty]

\* Slip: the expression of a Regexp is written like any other string.
MarshalRegexpOmits(re) == IF re = Empty THEN Unset ELSE re

\* Regexp.MarshalYAML returns nil for the empty expression, and its struct is
\* not a zero value: `regex: null' is written.
MarshalRegexp(re) == IF re = Empty THEN Null ELSE re

\* yaml.Marshal.
Encode(v) ==
  [f \in DOMAIN v |->
     IF f = "regex" THEN MarshalRegexp(v[f])
     ELSE IF v[f] = Empty /\ f \notin AlwaysWritten THEN Unset
     ELSE v[f]]

-----------------------------------------------------------------------------
(***************************************************************************)
(* The sections.  Of each: the YAML it can be given as, and the check its  *)
(* UnmarshalYAML makes on what Decode leaves.                              *)
(***************************************************************************)
checkOverflow(c) == \A f \in DOMAIN c : c[f] # "unknown"

\* URL, Regexp, KubernetesRole and RelabelAction refuse a value themselves.
UnmarshalScalars(c) == \A f \in DOMAIN c : c[f] # "bad"

HTTPClientConfig(c) ==
  /\ ~(c.bearer_token # Empty /\ c.bearer_token_file # Empty)
  /\ c.basic_auth # Empty => c.bearer_token = Empty /\ c.bearer_token_file = Empty

\* Targets that are URLs are only looked for without relabel_configs, and an
\* empty entry of static_configs is then a nil pointer.
CheckTargetAddress(c) == c.relabel_configs = Empty => c.static_configs # "url"
Panics(c) == c.relabel_configs = Empty /\ c.static_configs = "nil"

ScrapeConfigs ==
  [kind : {"scrape"}, job_name : Opt, metrics_path : Text, scheme : Text,
   basic_auth : Block, bearer_token : Opt, bearer_token_file : Opt,
   tls_config : Block, proxy_url : {Unset, "bad"}, static_configs : Targets,
   relabel_configs : Opt, XXX : Unknown]
ScrapeConfig(c) == c.job_name # Empty /\ HTTPClientConfig(c)

AlertmanagerConfigs ==
  [kind : {"alertmanager"}, scheme : Text, timeout : Text, basic_auth : Block,
   bearer_token : Opt, bearer_token_file : Opt, tls_config : Block,
   static_configs : Targets, relabel_configs : Opt, XXX : Unknown]
AlertmanagerConfig(c) == HTTPClientConfig(c)

DNSSDConfigs ==
  [kind : {"dns"}, names : Opt, type : {Unset, Empty, "SRV", "A", "other"},
   port : Text, refresh_interval : Text, XXX : Unknown]
DNSSDConfig(c) ==
  /\ c.names # Empty
  /\ \/ c.type = "SRV"
     \/ c.type = "A" /\ c.port # Empty

FileSDConfigs ==
  [kind : {"file"}, files : {Unset, "text", "nomatch"},
   refresh_interval : Text, XXX : Unknown]
FileSDConfig(c) == c.files = "text"

ConsulSDConfigs ==
  [kind : {"consul"}, server : {Unset, "blank", "text"}, tag_separator : Text,
   scheme : Text, tls_config : Block, XXX : Unknown]
ConsulSDConfig(c) == c.server = "text"

ServersetSDConfigs ==
  [kind : {"serverset"}, servers : Opt, paths : {Unset, "/text", "text"},
   timeout : Text, XXX : Unknown]
ServersetSDConfig(c) == c.servers # Empty /\ c.paths = "/text"

NerveSDConfigs ==
  [kind : {"nerve"}, servers : Opt, paths : {Unset, "/text", "text"},
   timeout : Text, XXX : Unknown]
NerveSDConfig(c) == c.servers # Empty /\ c.paths = "/text"

MarathonSDConfigs ==
  [kind : {"marathon"}, servers : Opt, timeout : Text, refresh_interval : Text,
   tls_config : Block, bearer_token : Opt, bearer_token_file : Opt,
   XXX : Unknown]
MarathonSDConfig(c) ==
  c.servers # Empty /\ ~(c.bearer_token # Empty /\ c.bearer_token_file # Empty)

\* Without an api_server no credentials: no certificates in the tls_config
\* ("text"), which may say other things.
KubernetesSDConfigs ==
  [kind : {"kubernetes"}, api_server : {Unset, "text", "bad"},
   role : {Unset, Null, "pod", "bad"}, basic_auth : Block, bearer_token : Opt,
   bearer_token_file : Opt, tls_config : Block \cup {"nofiles"},
   namespaces : Block, XXX : Unknown]
KubernetesSDConfig(c) ==
  /\ c.role # Empty
  /\ HTTPClientConfig(c)
  /\ c.api_server = Empty =>
       /\ c.basic_auth = Empty /\ c.tls_config # "text"
       /\ c.bearer_token = Empty /\ c.bearer_token_file = Empty

GCESDConfigs ==
  [kind : {"gce"}, project : Opt, zone : Opt, port : Text,
   tag_separator : Text, refresh_interval : Text, XXX : Unknown]
GCESDConfig(c) == c.project # Empty /\ c.zone # Empty

\* The region that is not given is asked of the instance's metadata service,
\* which may not answer (Empty).
EC2SDConfigs ==
  [kind : {"ec2"}, region : Opt, port : Text, refresh_interval : Text,
   XXX : Unknown]
WithRegion(v, metadata) ==
  IF v.kind = "ec2" /\ v.region = Empty THEN [v EXCEPT !.region = metadata]
                                        ELSE v
EC2SDConfig(c) == c.region # Empty

OpenstackSDConfigs ==
  [kind : {"openstack"}, port : Text, refresh_interval : Text, XXX : Unknown]
AzureSDConfigs ==
  [kind : {"azure"}, port : Text, refresh_interval : Text, XXX : Unknown]

TritonSDConfigs ==
  [kind : {"triton"}, account : Opt, dns_suffix : Opt, endpoint : Opt,
   port : Text, refresh_interval : Text, version : Text, tls_config : Block,
   XXX : Unknown]
TritonSDConfig(c) ==
  /\ c.account # Empty /\ c.dns_suffix # Empty /\ c.endpoint # Empty
  /\ c.refresh_interval # Empty

RelabelConfigs ==
  [kind : {"relabel"}, source_labels : Opt, separator : Text,
   regex : {Unset, Null, Empty, "text", "bad"}, modulus : Opt,
   target_label : {Unset, "text", "text$1", "0text"}, replacement : Text,
   action : {Unset, Null, "replace", "keep", "hashmod", "labeldrop", "bad"},
   XXX : Unknown]
RelabelConfig(c) ==
  /\ c.action = "hashmod" => c.modulus # Empty /\ c.target_label = "text"
  /\ c.action = "replace" => c.target_label \in {"text", "text$1"}
  /\ c.action = "labeldrop" =>
       /\ c.source_labels = Empty /\ c.target_label = Empty /\ c.modulus = Empty
       /\ c.separator = ";" /\ c.replacement = "$1"

RemoteWriteConfigs ==
  [kind : {"remote_write"}, url : {Unset, "text", "bad"}, remote_timeout : Text,
   max_retries : Text, basic_auth : Block, bearer_token : Opt,
   bearer_token_file : Opt, tls_config : Block, XXX : Unknown]
RemoteWriteConfig(c) == c.url # Empty /\ HTTPClientConfig(c)

RemoteReadConfigs ==
  [kind : {"remote_read"}, url : {Unset, "text", "bad"}, remote_timeout : Text,
   basic_auth : Block, bearer_token : Opt, bearer_token_file : Opt,
   tls_config : Block, XXX : Unknown]
RemoteReadConfig(c) == c.url # Empty /\ HTTPClientConfig(c)

\* The sections that a scrape consists of, and those only the template has.
ScrapeSections ==
  UNION {ScrapeConfigs, DNSSDConfigs, FileSDConfigs, ConsulSDConfigs,
         ServersetSDConfigs, NerveSDConfigs, MarathonSDConfigs,
         KubernetesSDConfigs, GCESDConfigs, EC2SDConfigs, OpenstackSDConfigs,
         AzureSDConfigs, TritonSDConfigs, RelabelConfigs}
TemplateSections ==
  UNION {AlertmanagerConfigs, RemoteWriteConfigs, RemoteReadConfigs}

Checked(c) ==
  CASE c.kind = "scrape" -> ScrapeConfig(c)
    [] c.kind = "alertmanager" -> AlertmanagerConfig(c)
    [] c.kind = "dns" -> DNSSDConfig(c)
    [] c.kind = "file" -> FileSDConfig(c)
    [] c.kind = "consul" -> ConsulSDConfig(c)
    [] c.kind = "serverset" -> ServersetSDConfig(c)
    [] c.kind = "nerve" -> NerveSDConfig(c)
    [] c.kind = "marathon" -> MarathonSDConfig(c)
    [] c.kind = "kubernetes" -> KubernetesSDConfig(c)
    [] c.kind = "gce" -> GCESDConfig(c)
    [] c.kind = "ec2" -> EC2SDConfig(c)
    [] c.kind \in {"openstack", "azure"} -> TRUE
    [] c.kind = "triton" -> TritonSDConfig(c)
    [] c.kind = "relabel" -> RelabelConfig(c)
    [] c.kind = "remote_write" -> RemoteWriteConfig(c)
    [] c.kind = "remote_read" -> RemoteReadConfig(c)

\* yaml.Unmarshal: what is read of y, and how it ends.
Unmarshal(y, metadata) == WithRegion(Decode(y), metadata)

Verdict(c) ==
  CASE ~(UnmarshalScalars(c) /\ checkOverflow(c) /\ Checked(c)) -> "error"
    [] OTHER -> IF c.kind \notin {"scrape", "alertmanager"} THEN "ok"
                ELSE IF Panics(c) THEN "panic"
                ELSE IF CheckTargetAddress(c) THEN "ok"
                ELSE "error"

-----------------------------------------------------------------------------
(***************************************************************************)
(* A whole configuration: the global block, whether its rule_files match   *)
(* patRulePath, and its scrapes by their place in the list (which place    *)
(* makes no difference).  Durations are in seconds.                        *)
(***************************************************************************)
Globals == [scrape_interval : Nat, scrape_timeout : Nat]
Scrapes == [job_name : STRING, scrape_interval : Nat, scrape_timeout : Nat]
\* No empty entry: Config.UnmarshalYAML would follow a nil pointer.
IsConfig(c) ==
  /\ DOMAIN c = {"global", "rule_files", "scrapes"}
  /\ c.global \in Globals /\ c.rule_files \in BOOLEAN
  /\ \A i \in DOMAIN c.scrapes : c.scrapes[i] \in Scrapes

DefaultGlobalConfig == [scrape_interval |-> 60, scrape_timeout |-> 10]

Given(duration, default) == IF duration = 0 THEN default ELSE duration

\* A timeout that is not given is the default, but not above the interval.
InferTimeout(timeout, interval, default) ==
  Given(timeout, IF default > interval THEN interval ELSE default)

\* The block that is read, with the defaults of outer filled in: of the global
\* block from DefaultGlobalConfig, of a scrape from the global block.
Resolve(s, outer) ==
  LET interval == Given(s.scrape_interval, outer.scrape_interval)
  IN  [s EXCEPT !.scrape_interval = interval,
                !.scrape_timeout =
                   InferTimeout(@, interval, outer.scrape_timeout)]

\* Neither block may have a timeout above its interval.
TimeoutFits(s, outer) ==
  s.scrape_timeout <= Given(s.scrape_interval, outer.scrape_interval)

GlobalConfig(g) == Resolve(g, DefaultGlobalConfig)

\* Config.UnmarshalYAML accepts it.
Loads(c) ==
  LET global == GlobalConfig(c.global)
  IN  /\ TimeoutFits(c.global, DefaultGlobalConfig)
      /\ c.rule_files
      /\ \A i \in DOMAIN c.scrapes : TimeoutFits(c.scrapes[i], global)
      /\ \A i, j \in DOMAIN c.scrapes :
           i # j => c.scrapes[i].job_name # c.scrapes[j].job_name

\* The configuration that Config.UnmarshalYAML leaves, its blocks resolved.
Load(c) ==
  LET global == GlobalConfig(c.global)
  IN  [global |-> global, rule_files |-> c.rule_files,
       scrapes |-> [i \in DOMAIN c.scrapes |-> Resolve(c.scrapes[i], global)]]

\* basePromCfg.ScrapeConfigs = append(basePromCfg.ScrapeConfigs, scrapeList...)
AppendScrapes(c, added) ==
  [global |-> c.global, rule_files |-> c.rule_files,
   scrapes |-> [i \in DOMAIN c.scrapes \cup DOMAIN added |->
                  IF i \in DOMAIN c.scrapes THEN c.scrapes[i] ELSE added[i]]]

=============================================================================

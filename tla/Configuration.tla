--------------------------- MODULE Configuration ---------------------------
(***************************************************************************)
(* How the effective configuration comes from its layers: the defaults,    *)
(* the user's TOML file, SESSIONMESH_* variables and CLI options           *)
(* (sessionmesh_core::configuration::resolve, and the file that the        *)
(* daemon reads for it).  A user edits settings one at a time, and what    *)
(* the session gives a start as home directories changes under them; what  *)
(* a start would do now is a function of the state.                        *)
(*                                                                         *)
(* Data abstraction: a number is itself; an address is "loopback" or       *)
(* "other"; an endpoint "local", "remote", "other scheme" or "not a url";  *)
(* a path is the set of variables that it refers to, with "~" in it when   *)
(* it begins in the user's home and "~user" for an expansion that is not   *)
(* supported.  The text of a variable, and that of a home directory, is    *)
(* again a path.  Malformed stands for a text that does not have the type  *)
(* of its field.                                                           *)
(***************************************************************************)
EXTENDS Integers, Sequences, FiniteSets, SequencesExt

CONSTANTS
  Variables,   \* environment variables that are defined
  Holds,       \* for each of them, the path that its text is
  Bases,       \* the home directories that a start may find
  Options,     \* for each field that is edited, the values it may be given
  FileStates,  \* what may become of the TOML file
  Malformed,   \* a value that does not parse
  None,        \* no value
  MaxSettings  \* bound: settings made in all layers together

\* The layers, each above the ones before it.
Layers == <<"user", "environment", "cli">>
Rank   == [default |-> 0, user |-> 1, environment |-> 2, cli |-> 3]

\* What finish accepts beyond the width of the type; a threshold is in percent.
AtLeast == [port                        |-> 1,
            reconcile_interval_ms       |-> 1,
            token_budget                |-> 1,
            correlation_threshold       |-> 0,
            ingest_port                 |-> 1,
            ingest_max_batch_bytes      |-> 1,
            ingest_max_events_per_batch |-> 1]
AtMost  == [watch_debounce_ms     |-> 60000,
            reconcile_interval_ms |-> 600000,
            correlation_threshold |-> 100]

Defaults == [home                        |-> {},
             bind_address                |-> "loopback",
             port                        |-> 8787,
             allow_network               |-> FALSE,
             database_path               |-> None,
             blob_store_path             |-> None,
             watch_debounce_ms           |-> 2000,
             reconcile_interval_ms       |-> 30000,
             redaction_enabled           |-> TRUE,
             embedding_endpoint          |-> None,
             llm_endpoint                |-> None,
             model                       |-> None,
             token_budget                |-> 4000,
             correlation_threshold       |-> 80,
             source_mappings             |-> {},
             network_ingestion_enabled   |-> FALSE,
             ingest_bind_address         |-> "other",
             ingest_port                 |-> 8788,
             ingest_tls_cert_path        |-> None,
             ingest_tls_key_path         |-> None,
             ingest_max_batch_bytes      |-> 10485760,
             ingest_max_events_per_batch |-> 5000,
             ingest_rate_limit_per_minute |-> 60]

Fields == DOMAIN Defaults

Paths     == {"home", "database_path", "blob_store_path", "source_mappings",
              "ingest_tls_cert_path", "ingest_tls_key_path"}
Endpoints == {"embedding_endpoint", "llm_endpoint"}

\* Variables that are parsed, in the order of environment_layer.  The other
\* fields take the text as it is, and source_mappings has no variable.
ParsedOrder ==
  <<"bind_address", "port", "allow_network", "watch_debounce_ms", "reconcile_interval_ms",
    "redaction_enabled", "token_budget", "correlation_threshold",
    "network_ingestion_enabled", "ingest_bind_address", "ingest_port",
    "ingest_max_batch_bytes", "ingest_max_events_per_batch",
    "ingest_rate_limit_per_minute">>

\* The order in which finish looks at the fields.
CheckOrder ==
  <<"home", "database_path", "blob_store_path", "source_mappings",
    "ingest_tls_cert_path", "ingest_tls_key_path", "bind_address", "port",
    "watch_debounce_ms", "reconcile_interval_ms", "token_budget", "model",
    "correlation_threshold", "network_ingestion_enabled", "ingest_port",
    "ingest_max_batch_bytes", "ingest_max_events_per_batch",
    "embedding_endpoint", "llm_endpoint">>

ASSUME ConfigurationAssumption ==
  /\ DOMAIN Options \subseteq Fields
  /\ "absent" \in FileStates
  /\ FileStates \subseteq {"absent", "readable", "unreadable"}
  /\ MaxSettings \in Nat
  /\ \A found \in Bases : DOMAIN found = {"user", "data"}
  /\ None \notin {"remote", ""}

VARIABLES
  settings,  \* for each layer, the fields set in it and their values
  file,      \* the TOML file: "absent", "readable" or "unreadable"
  base       \* the user's home (None: empty) and XDG_DATA_HOME (None: not set)

vars == <<settings, file, base>>

-----------------------------------------------------------------------------
(***************************************************************************)
(* Layers.                                                                 *)
(***************************************************************************)
\* read_to_string(...).ok(): a file that cannot be read is no file.
Input == IF file = "readable" THEN settings ELSE [settings EXCEPT !["user"] = <<>>]

\* Slip: the lowest layer wins.
LowestSource(layers, field) ==
  IF field \in DOMAIN layers["user"] THEN "user"
  ELSE IF field \in DOMAIN layers["environment"] THEN "environment"
  ELSE IF field \in DOMAIN layers["cli"] THEN "cli"
  ELSE "default"

\* apply, layer after layer: the last one that sets the field supplies it.
SourceOf(layers, field) ==
  IF field \in DOMAIN layers["cli"] THEN "cli"
  ELSE IF field \in DOMAIN layers["environment"] THEN "environment"
  ELSE IF field \in DOMAIN layers["user"] THEN "user"
  ELSE "default"

\* expand_path: the names that a path makes the expansion look up, and the
\* path that is left when they are replaced by their texts.
Reads(path)    == (path \ {"~"}) \cup (IF "~" \in path THEN base.user ELSE {})
Expanded(path) == UNION { Holds[name] : name \in Reads(path) \cap Variables }

\* The data directory of the platform, or .local/share in the user's home.
DefaultHome == IF base.data = None THEN base.user ELSE base.data

\* Paths that lie in the home, once that is expanded, unless a layer sets them.
Derived == {"database_path", "blob_store_path"}

ValueOf(layers, field) ==
  LET Supplied(f, default) ==
        LET source == SourceOf(layers, f) IN
        IF source = "default" THEN default ELSE layers[source][f]
      home == Supplied("home", DefaultHome)
  IN  IF field = "home" THEN home
      ELSE IF field \in Derived THEN Supplied(field, Expanded(home))
      ELSE Supplied(field, Defaults[field])

FirstIn(order, S) == order[SelectInSeq(order, LAMBDA field : field \in S)]

MalformedIn(layers, layer) ==
  { field \in DOMAIN layers[layer] : layers[layer][field] = Malformed }

-----------------------------------------------------------------------------
(***************************************************************************)
(* Validation.                                                             *)
(***************************************************************************)
\* A path derived from the home is expanded once more.
Expandable(path) == path = None \/ Reads(path) \subseteq Variables

InRange(field, value) ==
  /\ field \in DOMAIN AtLeast => value >= AtLeast[field]
  /\ field \in DOMAIN AtMost => value <= AtMost[field]

\* Slip: a configured endpoint is its own consent.
EndpointSupported(config, field) == config[field] \in {None, "local", "remote"}

\* resolve_endpoint
EndpointAccepted(config, field) ==
  \/ config[field] \in {None, "local"}
  \/ config[field] = "remote" /\ config["allow_network"]

ListenerAccepted(config) ==
  config["network_ingestion_enabled"] =>
    /\ config["allow_network"]
    /\ config["ingest_tls_cert_path"] # None
    /\ config["ingest_tls_key_path"] # None

\* What finish has to say of a field.
Accepted(config, field) ==
  /\ field \in Paths => Expandable(config[field])
  /\ InRange(field, config[field])
  /\ field = "bind_address" => config[field] = "loopback" \/ config["allow_network"]
  /\ field = "model" => config[field] # ""
  /\ field = "network_ingestion_enabled" => ListenerAccepted(config)
  /\ field \in Endpoints => EndpointAccepted(config, field)

Failure(field, source) == [ok |-> FALSE, error |-> <<field, source>>, config |-> <<>>]

\* The effective configuration, or the field and the layer to blame.
Resolve(layers) ==
  LET config  == [field \in Fields |-> ValueOf(layers, field)]
      refused == { field \in Range(CheckOrder) : ~Accepted(config, field) }
  IN  IF base.user = None THEN Failure("user_home", "default")
      ELSE IF MalformedIn(layers, "user") # {} THEN Failure("user_config", "user")
      ELSE IF MalformedIn(layers, "environment") # {}
           THEN Failure(FirstIn(ParsedOrder, MalformedIn(layers, "environment")), "environment")
      ELSE IF refused # {}
           THEN LET field == FirstIn(CheckOrder, refused)
                IN  Failure(field, SourceOf(layers, field))
      ELSE [ok |-> TRUE, error |-> <<>>, config |-> config]

Outcome == Resolve(Input)
Starts  == Outcome.ok

-----------------------------------------------------------------------------
(***************************************************************************)
(* What a user does between two starts.                                    *)
(***************************************************************************)
Count == LET Of(layer) == Cardinality(DOMAIN settings[layer])
         IN  Of("user") + Of("environment") + Of("cli")

\* source_mappings has no variable; options are typed before they get here.
Settable(layer, field, value) ==
  /\ layer = "environment" => field # "source_mappings"
  /\ value = Malformed => \/ layer = "user"
                          \/ layer = "environment" /\ field \in Range(ParsedOrder)

Set(layer, field, value) ==
  /\ Settable(layer, field, value)
  /\ field \notin DOMAIN settings[layer] => Count < MaxSettings
  /\ settings' = [settings EXCEPT ![layer] =
                    [g \in DOMAIN @ \cup {field} |-> IF g = field THEN value ELSE @[g]]]
  /\ UNCHANGED <<file, base>>

Unset(layer, field) ==
  /\ field \in DOMAIN settings[layer]
  /\ settings' = [settings EXCEPT ![layer] = [g \in DOMAIN @ \ {field} |-> @[g]]]
  /\ UNCHANGED <<file, base>>

ChangeFile(state) ==
  /\ file' = state
  /\ UNCHANGED <<settings, base>>

\* A start under another account or with another XDG_DATA_HOME.
ChangeBase(found) ==
  /\ base' = found
  /\ UNCHANGED <<settings, file>>

Init ==
  /\ settings = [layer \in Range(Layers) |-> <<>>]
  /\ file = "absent"
  /\ base \in Bases

Next ==
  \/ \E layer \in Range(Layers), field \in DOMAIN Options :
       \/ \E value \in Options[field] : Set(layer, field, value)
       \/ Unset(layer, field)
  \/ \E state \in FileStates : ChangeFile(state)
  \/ \E found \in Bases : ChangeBase(found)

Spec == Init /\ [][Next]_vars

-----------------------------------------------------------------------------
(***************************************************************************)
(* Properties.                                                             *)
(***************************************************************************)
TypeOK ==
  /\ DOMAIN settings = Range(Layers)
  /\ \A layer \in Range(Layers) : DOMAIN settings[layer] \subseteq Fields
  /\ "source_mappings" \notin DOMAIN settings["environment"]
  /\ MalformedIn(settings, "cli") = {}
  /\ file \in FileStates
  /\ base \in Bases

\* The layers that set a field, in what a start would read.
Setting(field) == { layer \in Range(Layers) : field \in DOMAIN Input[layer] }

Above(a, b) == Rank[a] > Rank[b]

\* The user's own word on the network: that of the highest layer that has one.
Consent ==
  \E layer \in Setting("allow_network") :
    /\ Input[layer]["allow_network"] = TRUE
    /\ \A other \in Setting("allow_network") : ~Above(other, layer)

Networked(config) ==
  \/ config["bind_address"] # "loopback"
  \/ config["network_ingestion_enabled"]
  \/ \E field \in Endpoints : config[field] = "remote"

(***************************************************************************)
(* A daemon that starts uses the network only with the consent of the      *)
(* highest layer that speaks of it: consent withdrawn in a higher layer is *)
(* withdrawn for addresses, endpoints and the listener of every layer.     *)
(***************************************************************************)
ConsentGiven == Starts /\ Networked(Outcome.config) => Consent

(***************************************************************************)
(* What bind_ingest_server takes for granted: a listener that is enabled   *)
(* has both files, each expanded and each from a layer that sets it.       *)
(***************************************************************************)
ListenerReady ==
  Starts /\ Outcome.config["network_ingestion_enabled"] =>
    \A field \in {"ingest_tls_cert_path", "ingest_tls_key_path"} :
      Setting(field) # {} /\ Reads(Outcome.config[field]) \subseteq Variables

(***************************************************************************)
(* A failed start blames what is at fault.  It blames a setting in the     *)
(* layer that has the last word on it; or the file, or a variable, whose   *)
(* text cannot be parsed; or the defaults, and then either there is no     *)
(* user home at all, or no layer sets the path and its default has a text  *)
(* that cannot be expanded.  (The default of a path in the home comes from *)
(* a setting of the home: LayerBlamed is what does not hold.)              *)
(***************************************************************************)
DefaultFails(field) ==
  /\ Setting(field) = {}
  /\ \/ field = "home" /\ ~Expandable(DefaultHome)
     \/ field \in Derived /\ ~Expandable(Expanded(ValueOf(Input, "home")))

Blamed ==
  ~Starts =>
    LET field == Outcome.error[1]  layer == Outcome.error[2] IN
    \/ layer = "default" /\ field = "user_home" /\ base.user = None
    \/ layer = "default" /\ DefaultFails(field)
    \/ layer = "user" /\ field = "user_config" /\ MalformedIn(Input, "user") # {}
    \/ /\ layer \in Setting(field)
       /\ Input[layer][field] # Malformed =>
            \A other \in Setting(field) : ~Above(other, layer)

(***************************************************************************)
(* "Startup fails with the field and responsible layer": the defaults are  *)
(* blamed only for what no layer sets.  This does not hold: a home set in  *)
(* a layer, with a variable whose text refers to another, fails as the     *)
(* database path of the defaults.                                          *)
(***************************************************************************)
LayerBlamed ==
  ~Starts /\ Outcome.error[2] = "default" /\ base.user # None => Setting("home") = {}

(***************************************************************************)
(* A setting under a layer that sets the same field has no part in what a  *)
(* start does, whatever else it is checked against: without it, the start  *)
(* fails with the same error or has the same configuration.  (A text that  *)
(* cannot be parsed stops the start even so.)                              *)
(***************************************************************************)
Without(layer, field) ==
  [Input EXCEPT ![layer] = [g \in DOMAIN @ \ {field} |-> @[g]]]

Shadowed ==
  \A layer \in Range(Layers) :
    \A field \in DOMAIN Input[layer] :
      /\ Input[layer][field] # Malformed
      /\ \E other \in Setting(field) : Above(other, layer)
      => Resolve(Without(layer, field)) = Outcome

(***************************************************************************)
(* "SessionMesh never silently falls back": a setting in a file that       *)
(* exists is either effective, overridden, or the start fails.             *)
(***************************************************************************)
NeverFallsBack ==
  Starts /\ file # "absent" =>
    \A field \in DOMAIN settings["user"] :
      SourceOf(Input, field) # "default"
=============================================================================

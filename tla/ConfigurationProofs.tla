------------------------ MODULE ConfigurationProofs ------------------------
(***************************************************************************)
(* Proofs about Configuration for any variables, values and number of      *)
(* settings.                                                               *)
(***************************************************************************)
EXTENDS Configuration, TLAPS, WellFoundedInduction

\* A field of the fields that finish looks at.
LEMMA Checked ==
  {"bind_address", "network_ingestion_enabled", "embedding_endpoint", "llm_endpoint",
   "ingest_tls_cert_path", "ingest_tls_key_path"} \subseteq Range(CheckOrder)
  <1>1. DOMAIN CheckOrder = 1 .. 19
    BY DEF CheckOrder
  <1>2. /\ CheckOrder[5] = "ingest_tls_cert_path" /\ CheckOrder[6] = "ingest_tls_key_path"
        /\ CheckOrder[7] = "bind_address" /\ CheckOrder[14] = "network_ingestion_enabled"
        /\ CheckOrder[18] = "embedding_endpoint" /\ CheckOrder[19] = "llm_endpoint"
    BY DEF CheckOrder
  <1> QED BY <1>1, <1>2 DEF Range

LEMMA LayerNames == Range(Layers) = {"user", "environment", "cli"}
  <1>1. DOMAIN Layers = 1 .. 3 /\ Layers[1] = "user" /\ Layers[2] = "environment" /\ Layers[3] = "cli"
    BY DEF Layers
  <1> QED BY <1>1 DEF Range

\* What supplies a value is the highest layer that sets the field.
LEMMA Supplier ==
  ASSUME NEW field \in Fields, SourceOf(Input, field) # "default"
  PROVE  /\ SourceOf(Input, field) \in Setting(field)
         /\ ValueOf(Input, field) = Input[SourceOf(Input, field)][field]
         /\ \A other \in Setting(field) : ~ Above(other, SourceOf(Input, field))
  <1>1. SourceOf(Input, field) \in {"user", "environment", "cli"}
    BY DEF SourceOf
  <1>2. SourceOf(Input, field) \in Setting(field)
    BY <1>1, LayerNames DEF SourceOf, Setting
  <1>3. Rank["user"] = 1 /\ Rank["environment"] = 2 /\ Rank["cli"] = 3
    BY DEF Rank
  <1>4. \A other \in Setting(field) : ~ Above(other, SourceOf(Input, field))
    BY <1>3, LayerNames DEF SourceOf, Setting, Above
  <1> QED BY <1>2, <1>4 DEF ValueOf

LEMMA NotSet ==
  ASSUME NEW field, SourceOf(Input, field) = "default"
  PROVE  Setting(field) = {}
  BY LayerNames DEF SourceOf, Setting

\* The first field of an order that is in a set.
LEMMA LeastExists ==
  ASSUME NEW I \in SUBSET Nat, I # {}
  PROVE  \E least \in I : \A i \in I : least <= i
  <1>1. PICK least \in I : \A i \in I : ~ (<<i, least>> \in OpToRel(<, Nat))
    BY NatLessThanWellFounded, WFMin
  <1>2. \A i \in Nat, j \in Nat : i < j => <<i, j>> \in OpToRel(<, Nat)
    BY DEF OpToRel
  <1>3. \A i \in I : ~ (i < least)
    BY <1>1, <1>2, ZenonT(30)
  <1> QED BY <1>3

LEMMA FirstInSet ==
  ASSUME NEW order, NEW S, Len(order) \in Nat, \E i \in 1 .. Len(order) : order[i] \in S
  PROVE  FirstIn(order, S) \in S
  <1> DEFINE I == {i \in 1 .. Len(order) : order[i] \in S}
  <1>1. I # {} /\ I \in SUBSET Nat
    OBVIOUS
  <1>2. SelectInSeq(order, LAMBDA field : field \in S) = Min(I)
    BY <1>1 DEF SelectInSeq
  <1>3. \E least \in I : \A i \in I : least <= i
    BY <1>1, LeastExists
  <1> HIDE DEF I
  <1>4. Min(I) \in I
    BY <1>3 DEF Min
  <1> QED BY <1>2, <1>4 DEF FirstIn, I

\* A start uses the network only where finish has read allow_network.
LEMMA Allowed ==
  ASSUME Starts, Networked(Outcome.config)
  PROVE  Outcome.config["allow_network"]
  <1> DEFINE config == [field \in Fields |-> ValueOf(Input, field)]
             refused == {field \in Range(CheckOrder) : ~ Accepted(config, field)}
  <1>1. Outcome.config = config /\ refused = {}
    BY DEF Outcome, Starts, Resolve, Failure
  <1>2. \A field \in {"bind_address", "network_ingestion_enabled", "embedding_endpoint",
                      "llm_endpoint"} : Accepted(config, field)
    BY <1>1, Checked
  <1> HIDE DEF config
  <1>3. Networked(config)
    BY <1>1
  <1>4. CASE config["bind_address"] # "loopback"
    <2>1. Accepted(config, "bind_address")
      BY <1>2
    <2>2. config["allow_network"]
      BY <1>4, <2>1 DEF Accepted
    <2> QED BY <1>1, <2>2
  <1>5. CASE config["network_ingestion_enabled"]
    <2>1. Accepted(config, "network_ingestion_enabled")
      BY <1>2
    <2>2. config["allow_network"]
      BY <1>5, <2>1 DEF Accepted, ListenerAccepted
    <2> QED BY <1>1, <2>2
  <1>6. CASE \E field \in Endpoints : config[field] = "remote"
    <2>1. PICK field \in Endpoints : config[field] = "remote"
      BY <1>6
    <2>2. Accepted(config, field) /\ field \in Endpoints
      BY <1>2, <2>1 DEF Endpoints
    <2>3. config["allow_network"]
      BY <2>1, <2>2, ConfigurationAssumption DEF Accepted, EndpointAccepted
    <2> QED BY <1>1, <2>3
  <1> QED BY <1>3, <1>4, <1>5, <1>6 DEF Networked

\* A start is on the network only by the word of the highest layer.
LEMMA Consenting == ConsentGiven
  <1> SUFFICES ASSUME Starts, Networked(Outcome.config) PROVE Consent
    BY DEF ConsentGiven
  <1> DEFINE source == SourceOf(Input, "allow_network")
  <1>1. "allow_network" \in Fields
    BY DEF Fields, Defaults
  <1>2. Outcome.config["allow_network"] = ValueOf(Input, "allow_network")
    BY <1>1 DEF Outcome, Starts, Resolve, Failure
  <1>3. ValueOf(Input, "allow_network")
    BY <1>2, Allowed
  <1>4. source # "default"
    <2> SUFFICES ASSUME source = "default" PROVE FALSE
      OBVIOUS
    <2>1. ~ Defaults["allow_network"]
      BY DEF Defaults
    <2>2. ValueOf(Input, "allow_network") = Defaults["allow_network"]
      BY DEF ValueOf, Derived
    <2> QED BY <1>3, <2>1, <2>2
  <1>5. /\ source \in Setting("allow_network")
        /\ ValueOf(Input, "allow_network") = Input[source]["allow_network"]
        /\ \A other \in Setting("allow_network") : ~ Above(other, source)
    BY <1>1, <1>4, Supplier
  <1> HIDE DEF source
  <1>6. Input[source]["allow_network"] = TRUE
    BY <1>3, <1>5
  <1> QED BY <1>5, <1>6 DEF Consent

\* Defaults that are constants pass every check.
LEMMA DefaultsAccepted ==
  ASSUME NEW config, NEW field \in Fields, field \notin {"home"} \cup Derived,
         config[field] = Defaults[field]
  PROVE  Accepted(config, field)
  <1>1. field \in {"home", "bind_address", "port", "allow_network", "database_path",
          "blob_store_path", "watch_debounce_ms", "reconcile_interval_ms", "redaction_enabled",
          "embedding_endpoint", "llm_endpoint", "model", "token_budget",
          "correlation_threshold", "source_mappings", "network_ingestion_enabled",
          "ingest_bind_address", "ingest_port", "ingest_tls_cert_path", "ingest_tls_key_path",
          "ingest_max_batch_bytes", "ingest_max_events_per_batch",
          "ingest_rate_limit_per_minute"}
    BY DEF Fields, Defaults
  <1>2. field \in Paths => Expandable(config[field])
    <2>1. field \in Paths => field \in {"source_mappings", "ingest_tls_cert_path",
                                         "ingest_tls_key_path"}
      BY DEF Paths, Derived
    <2>2. Defaults["source_mappings"] = {} /\ Defaults["ingest_tls_cert_path"] = None
          /\ Defaults["ingest_tls_key_path"] = None
      BY DEF Defaults
    <2> QED BY <2>1, <2>2 DEF Expandable, Reads
  <1>3. InRange(field, config[field])
    BY <1>1 DEF InRange, AtLeast, AtMost, Defaults
  <1>4. field = "bind_address" => config[field] = "loopback"
    BY DEF Defaults
  <1>5. field = "model" => config[field] = None
    BY DEF Defaults
  <1>6. field = "network_ingestion_enabled" => config[field] = FALSE
    BY DEF Defaults
  <1>7. field \in Endpoints => config[field] = None
    BY DEF Endpoints, Defaults
  <1> QED BY <1>2, <1>3, <1>4, <1>5, <1>6, <1>7, ConfigurationAssumption
          DEF Accepted, ListenerAccepted, EndpointAccepted

\* finish looks at fields only.
LEMMA CheckedFields == Range(CheckOrder) \subseteq Fields
  <1>1. DOMAIN CheckOrder = 1 .. 19
    BY DEF CheckOrder
  <1>2. \A i \in 1 .. 19 : \/ i \in {1, 2, 3, 4, 5, 6, 7}
                           \/ i \in {8, 9, 10, 11, 12, 13}
                           \/ i \in {14, 15, 16, 17, 18, 19}
    OBVIOUS
  <1>3. \A i \in {1, 2, 3, 4, 5, 6, 7} : CheckOrder[i] \in Fields
    BY DEF CheckOrder, Fields, Defaults
  <1>4. \A i \in {8, 9, 10, 11, 12, 13} : CheckOrder[i] \in Fields
    BY DEF CheckOrder, Fields, Defaults
  <1>5. \A i \in {14, 15, 16, 17, 18, 19} : CheckOrder[i] \in Fields
    BY DEF CheckOrder, Fields, Defaults
  <1> QED BY <1>1, <1>2, <1>3, <1>4, <1>5 DEF Range

LEMMA FirstRefused ==
  ASSUME NEW refused \in SUBSET Range(CheckOrder), refused # {}
  PROVE  /\ FirstIn(CheckOrder, refused) \in refused
         /\ FirstIn(CheckOrder, refused) \in Fields
  <1>1. DOMAIN CheckOrder = 1 .. 19 /\ Len(CheckOrder) = 19
    BY DEF CheckOrder
  <1>2. \E i \in 1 .. Len(CheckOrder) : CheckOrder[i] \in refused
    BY <1>1 DEF Range
  <1>3. Len(CheckOrder) \in Nat
    BY <1>1
  <1>4. FirstIn(CheckOrder, refused) \in refused
    BY <1>2, <1>3, FirstInSet
  <1> QED BY <1>4, CheckedFields

\* Nothing but its expansion is checked of the home and of what lies in it.
LEMMA HomeAccepted ==
  ASSUME NEW config, NEW field \in {"home"} \cup Derived, Expandable(config[field])
  PROVE  Accepted(config, field)
  <1>1. /\ field \notin Endpoints
        /\ field \notin {"bind_address", "model", "network_ingestion_enabled"}
        /\ field \notin DOMAIN AtLeast /\ field \notin DOMAIN AtMost
    BY DEF Derived, Endpoints, AtLeast, AtMost
  <1> QED BY <1>1 DEF Accepted, InRange

\* finish blames the layer that supplied the field, or the default of a path
\* that no layer sets.
LEMMA FinishBlames ==
  ASSUME NEW refused \in SUBSET Range(CheckOrder), refused # {},
         \A field \in refused :
           ~ Accepted([f \in Fields |-> ValueOf(Input, f)], field)
  PROVE  LET field == FirstIn(CheckOrder, refused)
             layer == SourceOf(Input, field) IN
         \/ layer = "default" /\ DefaultFails(field)
         \/ /\ layer \in Setting(field)
            /\ \A other \in Setting(field) : ~ Above(other, layer)
  <1> DEFINE field == FirstIn(CheckOrder, refused)
             config == [f \in Fields |-> ValueOf(Input, f)]
  <1>1. field \in refused /\ field \in Fields
    BY FirstRefused
  <1> HIDE DEF field
  <1>2. ~ Accepted(config, field) /\ config[field] = ValueOf(Input, field)
    BY <1>1
  <1> HIDE DEF config
  <1>3. CASE SourceOf(Input, field) = "default"
    <2>1. Setting(field) = {}
      BY <1>3, NotSet
    <2>2. CASE field \notin {"home"} \cup Derived
      <3>1. ValueOf(Input, field) = Defaults[field]
        BY <1>3, <2>2 DEF ValueOf
      <3> QED BY <1>1, <1>2, <2>2, <3>1, DefaultsAccepted
    <2>3. CASE field \in {"home"} \cup Derived
      <3>1. ~ Expandable(ValueOf(Input, field))
        BY <1>2, <2>3, HomeAccepted
      <3>2. "home" \notin Derived
        BY DEF Derived
      <3>3. field = "home" => ValueOf(Input, field) = DefaultHome
        BY <1>3 DEF ValueOf
      <3>4. field \in Derived => ValueOf(Input, field) = Expanded(ValueOf(Input, "home"))
        BY <1>3, <3>2 DEF ValueOf
      <3> QED BY <1>3, <2>1, <2>3, <3>1, <3>3, <3>4 DEF DefaultFails, field
    <2> QED BY <2>2, <2>3
  <1>4. CASE SourceOf(Input, field) # "default"
    BY <1>1, <1>4, Supplier DEF field
  <1> QED BY <1>3, <1>4

\* Only a variable that is parsed can be malformed.
Parsed ==
  \A field \in DOMAIN settings["environment"] :
    settings["environment"][field] = Malformed => field \in Range(ParsedOrder)

LEMMA ParsedInput ==
  ASSUME Parsed, DOMAIN settings = {"user", "environment", "cli"}
  PROVE  MalformedIn(Input, "environment") \subseteq Range(ParsedOrder)
  BY DEF Parsed, Input, MalformedIn

LEMMA Blaming ==
  ASSUME Parsed, DOMAIN settings = {"user", "environment", "cli"}
  PROVE  Blamed
  <1> DEFINE config == [f \in Fields |-> ValueOf(Input, f)]
             refused == {field \in Range(CheckOrder) : ~ Accepted(config, field)}
             malformed == MalformedIn(Input, "environment")
             BlamedAt(field, layer) ==
               \/ layer = "default" /\ field = "user_home" /\ base.user = None
               \/ layer = "default" /\ DefaultFails(field)
               \/ layer = "user" /\ field = "user_config" /\ MalformedIn(Input, "user") # {}
               \/ /\ layer \in Setting(field)
                  /\ Input[layer][field] # Malformed =>
                       \A other \in Setting(field) : ~Above(other, layer)
  <1> SUFFICES ASSUME ~ Starts PROVE BlamedAt(Outcome.error[1], Outcome.error[2])
    BY DEF Blamed
  <1>0. CASE base.user = None
    <2>1. Outcome.error = <<"user_home", "default">>
      BY <1>0 DEF Outcome, Resolve, Failure
    <2> QED BY <1>0, <2>1
  <1>1. CASE base.user # None /\ MalformedIn(Input, "user") # {}
    <2>1. Outcome.error = <<"user_config", "user">>
      BY <1>1 DEF Outcome, Resolve, Failure
    <2> QED BY <1>1, <2>1
  <1>2. CASE base.user # None /\ MalformedIn(Input, "user") = {} /\ malformed # {}
    <2> DEFINE field == FirstIn(ParsedOrder, malformed)
    <2>1. Outcome.error = <<field, "environment">>
      BY <1>2 DEF Outcome, Resolve, Failure
    <2>2. DOMAIN ParsedOrder = 1 .. 14 /\ Len(ParsedOrder) = 14
      BY DEF ParsedOrder
    <2>3. \E i \in 1 .. Len(ParsedOrder) : ParsedOrder[i] \in malformed
      BY <1>2, <2>2, ParsedInput DEF Range
    <2> HIDE DEF malformed
    <2>4. field \in malformed
      BY <2>2, <2>3, FirstInSet
    <2> HIDE DEF field
    <2>5. "environment" \in Setting(field) /\ Input["environment"][field] = Malformed
      BY <2>4, LayerNames DEF malformed, MalformedIn, Setting
    <2> QED BY <2>1, <2>5
  <1>3. CASE base.user # None /\ MalformedIn(Input, "user") = {} /\ malformed = {}
    <2> DEFINE field == FirstIn(CheckOrder, refused)
    <2>1. refused # {} /\ Outcome.error = <<field, SourceOf(Input, field)>>
      BY <1>3 DEF Outcome, Starts, Resolve, Failure
    <2>2. \/ SourceOf(Input, field) = "default" /\ DefaultFails(field)
          \/ /\ SourceOf(Input, field) \in Setting(field)
             /\ \A other \in Setting(field) : ~ Above(other, SourceOf(Input, field))
      BY <2>1, FinishBlames
    <2> HIDE DEF field
    <2> QED BY <2>1, <2>2
  <1> QED BY <1>0, <1>1, <1>2, <1>3

-----------------------------------------------------------------------------
(***************************************************************************)
(* What is set below another layer that sets the same field.               *)
(***************************************************************************)
\* What a layer no longer sets is what a higher one has the last word on, and
\* nothing else changes.
LEMMA WithoutIt ==
  ASSUME DOMAIN Input = Range(Layers), NEW layer \in Range(Layers),
         NEW field \in DOMAIN Input[layer]
  PROVE  LET fewer == Without(layer, field) IN
         /\ DOMAIN fewer = Range(Layers)
         /\ \A other \in Range(Layers) \ {layer} : fewer[other] = Input[other]
         /\ DOMAIN fewer[layer] = DOMAIN Input[layer] \ {field}
         /\ \A g \in DOMAIN fewer[layer] : fewer[layer][g] = Input[layer][g]
  BY DEF Without

LEMMA SameValues ==
  ASSUME DOMAIN Input = Range(Layers), NEW layer \in Range(Layers),
         NEW field \in DOMAIN Input[layer],
         NEW other \in Setting(field), Above(other, layer), NEW g \in Fields
  PROVE  /\ SourceOf(Without(layer, field), g) = SourceOf(Input, g)
         /\ ValueOf(Without(layer, field), g) = ValueOf(Input, g)
  <1> DEFINE fewer == Without(layer, field)
  <1>1. /\ \A l \in Range(Layers) \ {layer} : fewer[l] = Input[l]
        /\ DOMAIN fewer[layer] = DOMAIN Input[layer] \ {field}
        /\ \A h \in DOMAIN fewer[layer] : fewer[layer][h] = Input[layer][h]
    BY WithoutIt
  <1> HIDE DEF fewer
  <1>2. other \in Range(Layers) /\ field \in DOMAIN Input[other] /\ other # layer
    BY LayerNames DEF Setting, Above, Rank
  <1>3. /\ layer = "cli" => FALSE
        /\ layer = "environment" => other = "cli"
        /\ layer = "user" => other \in {"environment", "cli"}
    BY <1>2, LayerNames DEF Above, Rank
  <1>4. \A f : SourceOf(fewer, f) = SourceOf(Input, f)
    BY <1>1, <1>2, <1>3, LayerNames DEF SourceOf
  <1>5. \A f : SourceOf(Input, f) # "default" =>
          /\ SourceOf(Input, f) \in Range(Layers)
          /\ f \in DOMAIN fewer[SourceOf(Input, f)]
    BY <1>1, <1>2, <1>3, LayerNames DEF SourceOf
  <1>6. \A f : SourceOf(Input, f) # "default" =>
          fewer[SourceOf(Input, f)][f] = Input[SourceOf(Input, f)][f]
    BY <1>1, <1>5
  <1>7. ValueOf(fewer, "home") = ValueOf(Input, "home")
    BY <1>4, <1>6 DEF ValueOf
  <1>8. ValueOf(fewer, g) = ValueOf(Input, g)
    <2>1. CASE SourceOf(Input, g) = "default"
      <3>1. \A layers : ValueOf(layers, g) =
              IF SourceOf(layers, g) # "default" THEN layers[SourceOf(layers, g)][g]
              ELSE IF g = "home" THEN DefaultHome
              ELSE IF g \in Derived THEN Expanded(ValueOf(layers, "home"))
              ELSE Defaults[g]
        BY DEF ValueOf
      <3> QED BY <1>4, <1>7, <2>1, <3>1
    <2>2. CASE SourceOf(Input, g) # "default"
      BY <1>4, <1>6, <2>2 DEF ValueOf
    <2> QED BY <2>1, <2>2
  <1> QED BY <1>4, <1>8 DEF fewer

\* The checks of finish see values only, and a text that is parsed stays.
LEMMA SameOutcome ==
  ASSUME DOMAIN Input = Range(Layers), NEW layer \in Range(Layers),
         NEW field \in DOMAIN Input[layer], Input[layer][field] # Malformed,
         NEW other \in Setting(field), Above(other, layer)
  PROVE  Resolve(Without(layer, field)) = Outcome
  <1> DEFINE fewer == Without(layer, field)
             config(layers) == [g \in Fields |-> ValueOf(layers, g)]
             refused(layers) == {g \in Range(CheckOrder) : ~ Accepted(config(layers), g)}
  <1>1. \A g \in Fields : /\ SourceOf(fewer, g) = SourceOf(Input, g)
                          /\ ValueOf(fewer, g) = ValueOf(Input, g)
    BY SameValues
  <1>2. config(fewer) = config(Input)
    BY <1>1
  <1>3. refused(fewer) = refused(Input)
    BY <1>2
  <1>4. \A l \in Range(Layers) : MalformedIn(fewer, l) = MalformedIn(Input, l)
    <2> TAKE l \in Range(Layers)
    <2>1. CASE l # layer
      BY <2>1, WithoutIt DEF MalformedIn
    <2>2. CASE l = layer
      <3>1. /\ DOMAIN fewer[l] = DOMAIN Input[l] \ {field}
            /\ \A h \in DOMAIN fewer[l] : fewer[l][h] = Input[l][h]
        BY <2>2, WithoutIt
      <3> HIDE DEF fewer
      <3> QED BY <2>2, <3>1 DEF MalformedIn
    <2> QED BY <2>1, <2>2
  <1>5. /\ MalformedIn(fewer, "user") = MalformedIn(Input, "user")
        /\ MalformedIn(fewer, "environment") = MalformedIn(Input, "environment")
    BY <1>4, LayerNames
  <1>6. refused(Input) # {} =>
          SourceOf(fewer, FirstIn(CheckOrder, refused(Input)))
            = SourceOf(Input, FirstIn(CheckOrder, refused(Input)))
    <2> SUFFICES ASSUME refused(Input) # {}
                 PROVE  FirstIn(CheckOrder, refused(Input)) \in Fields
      BY <1>1
    <2>1. refused(Input) \in SUBSET Range(CheckOrder)
      OBVIOUS
    <2> HIDE DEF refused
    <2> QED BY <2>1, FirstRefused
  <1>7. \A layers : Resolve(layers) =
          IF base.user = None THEN Failure("user_home", "default")
          ELSE IF MalformedIn(layers, "user") # {} THEN Failure("user_config", "user")
          ELSE IF MalformedIn(layers, "environment") # {}
               THEN Failure(FirstIn(ParsedOrder, MalformedIn(layers, "environment")),
                            "environment")
          ELSE IF refused(layers) # {}
               THEN Failure(FirstIn(CheckOrder, refused(layers)),
                            SourceOf(layers, FirstIn(CheckOrder, refused(layers))))
          ELSE [ok |-> TRUE, error |-> <<>>, config |-> config(layers)]
    BY DEF Resolve
  <1> HIDE DEF fewer, config, refused
  <1> QED BY <1>2, <1>3, <1>5, <1>6, <1>7 DEF Outcome, fewer

LEMMA Shadowing ==
  ASSUME DOMAIN settings = Range(Layers)
  PROVE  Shadowed
  <1>1. DOMAIN Input = Range(Layers)
    BY DEF Input
  <1> QED BY <1>1, SameOutcome DEF Shadowed

\* The layers keep their types, and only parsed variables are malformed.
IInv == TypeOK /\ Parsed

LEMMA InitIInv == Init => IInv
  <1> SUFFICES ASSUME Init PROVE IInv
    OBVIOUS
  <1>1. DOMAIN settings = Range(Layers)
        /\ \A layer \in Range(Layers) : settings[layer] = << >> /\ DOMAIN settings[layer] = {}
    BY DEF Init
  <1>2. file \in FileStates /\ base \in Bases
    BY ConfigurationAssumption DEF Init
  <1> QED BY <1>1, <1>2, LayerNames DEF IInv, TypeOK, Parsed, MalformedIn

LEMMA SetStep ==
  ASSUME IInv, NEW layer \in Range(Layers), NEW field \in DOMAIN Options,
         NEW value \in Options[field], Set(layer, field, value)
  PROVE  IInv'
  <1> DEFINE now == [g \in DOMAIN settings[layer] \cup {field} |->
                       IF g = field THEN value ELSE settings[layer][g]]
  <1>1. settings' = [settings EXCEPT ![layer] = now] /\ file' = file /\ base' = base
    BY DEF Set
  <1>2. /\ DOMAIN now = DOMAIN settings[layer] \cup {field}
        /\ \A g \in DOMAIN now : now[g] = IF g = field THEN value ELSE settings[layer][g]
    OBVIOUS
  <1> HIDE DEF now
  <1>3. /\ DOMAIN settings' = Range(Layers) /\ settings'[layer] = now
        /\ \A other \in Range(Layers) \ {layer} : settings'[other] = settings[other]
    BY <1>1 DEF IInv, TypeOK
  <1>4. field \in Fields
    BY ConfigurationAssumption
  <1>5. /\ layer = "environment" => field # "source_mappings"
        /\ layer = "environment" /\ value = Malformed => field \in Range(ParsedOrder)
        /\ layer = "cli" => value # Malformed
    BY DEF Set, Settable
  <1>6. \A other \in Range(Layers) : DOMAIN settings'[other] \subseteq Fields
    BY <1>2, <1>3, <1>4 DEF IInv, TypeOK
  <1>7. "source_mappings" \notin DOMAIN settings'["environment"]
    BY <1>2, <1>3, <1>5, LayerNames DEF IInv, TypeOK
  <1>8. MalformedIn(settings', "cli") = {}
    BY <1>2, <1>3, <1>5, LayerNames DEF IInv, TypeOK, MalformedIn
  <1>9. Parsed'
    BY <1>2, <1>3, <1>5, LayerNames DEF IInv, Parsed
  <1> QED BY <1>1, <1>3, <1>6, <1>7, <1>8, <1>9 DEF IInv, TypeOK

LEMMA UnsetStep ==
  ASSUME IInv, NEW layer \in Range(Layers), NEW field \in DOMAIN Options, Unset(layer, field)
  PROVE  IInv'
  <1> DEFINE now == [g \in DOMAIN settings[layer] \ {field} |-> settings[layer][g]]
  <1>1. settings' = [settings EXCEPT ![layer] = now] /\ file' = file /\ base' = base
    BY DEF Unset
  <1>2. /\ DOMAIN now = DOMAIN settings[layer] \ {field}
        /\ \A g \in DOMAIN now : now[g] = settings[layer][g]
    OBVIOUS
  <1> HIDE DEF now
  <1>3. /\ DOMAIN settings' = Range(Layers) /\ settings'[layer] = now
        /\ \A other \in Range(Layers) \ {layer} : settings'[other] = settings[other]
    BY <1>1 DEF IInv, TypeOK
  <1>4. \A other \in Range(Layers) : DOMAIN settings'[other] \subseteq Fields
    BY <1>2, <1>3 DEF IInv, TypeOK
  <1>5. "source_mappings" \notin DOMAIN settings'["environment"]
    BY <1>2, <1>3, LayerNames DEF IInv, TypeOK
  <1>6. MalformedIn(settings', "cli") = {}
    BY <1>2, <1>3, LayerNames DEF IInv, TypeOK, MalformedIn
  <1>7. Parsed'
    BY <1>2, <1>3, LayerNames DEF IInv, Parsed
  <1> QED BY <1>1, <1>3, <1>4, <1>5, <1>6, <1>7 DEF IInv, TypeOK

LEMMA Invariance == Spec => []IInv
  <1>1. IInv /\ [Next]_vars => IInv'
    <2> SUFFICES ASSUME IInv, [Next]_vars PROVE IInv'
      OBVIOUS
    <2>1. ASSUME NEW layer \in Range(Layers), NEW field \in DOMAIN Options,
                 NEW value \in Options[field], Set(layer, field, value)
          PROVE  IInv'
      BY <2>1, SetStep
    <2>2. ASSUME NEW layer \in Range(Layers), NEW field \in DOMAIN Options, Unset(layer, field)
          PROVE  IInv'
      BY <2>2, UnsetStep
    <2>3. ASSUME NEW state \in FileStates, ChangeFile(state) PROVE IInv'
      BY <2>3 DEF ChangeFile, IInv, TypeOK, Parsed, MalformedIn
    <2>4. ASSUME NEW found \in Bases, ChangeBase(found) PROVE IInv'
      BY <2>4 DEF ChangeBase, IInv, TypeOK, Parsed, MalformedIn
    <2>5. CASE UNCHANGED vars
      BY <2>5 DEF vars, IInv, TypeOK, Parsed, MalformedIn
    <2> QED BY <2>1, <2>2, <2>3, <2>4, <2>5 DEF Next
  <1> QED BY InitIInv, <1>1, PTL DEF Spec

\* The layers keep their types, whatever is edited.
THEOREM TypeCorrect == Spec => []TypeOK
  <1>1. IInv => TypeOK
    BY DEF IInv
  <1> QED BY <1>1, Invariance, PTL

\* A start that fails names a setting, in the layer that has the last word on
\* it; a text that cannot be parsed; or the defaults, where there is no user
\* home or where the default of a path that no layer sets cannot be expanded:
\* resolve, environment_layer and finish.
THEOREM FailuresAreBlamed == Spec => []Blamed
  <1>1. IInv => Blamed
    BY Blaming, LayerNames DEF IInv, TypeOK
  <1> QED BY <1>1, Invariance, PTL

\* No network without the consent of the highest layer that speaks of it,
\* whatever the layers hold: resolve and finish.
THEOREM NetworkNeedsConsent == Spec => []ConsentGiven
  BY Consenting, PTL

\* The listener that a start enables has both its files, in paths that can be
\* expanded: what bind_ingest_server takes for granted.
THEOREM ListenerHasFiles == Spec => []ListenerReady
  <1>1. ListenerReady
    <2> SUFFICES ASSUME Starts, Outcome.config["network_ingestion_enabled"],
                        NEW field \in {"ingest_tls_cert_path", "ingest_tls_key_path"}
                 PROVE  Setting(field) # {} /\ Reads(Outcome.config[field]) \subseteq Variables
      BY DEF ListenerReady
    <2> DEFINE config == [f \in Fields |-> ValueOf(Input, f)]
               refused == {f \in Range(CheckOrder) : ~ Accepted(config, f)}
    <2>1. Outcome.config = config /\ refused = {}
      BY DEF Outcome, Starts, Resolve, Failure
    <2>2. Accepted(config, "network_ingestion_enabled") /\ Accepted(config, field)
      BY <2>1, Checked
    <2>3. field \in Fields /\ field \in Paths /\ config[field] = ValueOf(Input, field)
      BY DEF Fields, Defaults, Paths
    <2> HIDE DEF config
    <2>4. config[field] # None
      BY <2>1, <2>2 DEF Accepted, ListenerAccepted
    <2>5. Reads(config[field]) \subseteq Variables
      BY <2>2, <2>3, <2>4 DEF Accepted, Expandable
    <2>6. Defaults[field] = None
      BY DEF Defaults
    <2>7. SourceOf(Input, field) # "default"
      BY <2>3, <2>4, <2>6 DEF ValueOf, Derived
    <2> QED BY <2>1, <2>3, <2>5, <2>7, Supplier
  <1> QED BY <1>1, PTL

\* A setting below another layer that sets the same field is inert: a start
\* without it fails with the same error or has the same configuration.
THEOREM OverriddenIsInert == Spec => []Shadowed
  <1>1. IInv => Shadowed
    BY Shadowing DEF IInv, TypeOK
  <1> QED BY <1>1, Invariance, PTL

=============================================================================

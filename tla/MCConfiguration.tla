-------------------------- MODULE MCConfiguration --------------------------
(* Model checking of Configuration.                                         *)
EXTENDS Configuration

CONSTANTS HOME, BASE

\* The text of one variable refers to another, which nobody defines.
TwoVariables == {HOME, BASE}
Texts        == [v \in TwoVariables |-> IF v = BASE THEN {"GONE"} ELSE {}]

\* An ordinary home, none, and a data directory with a reference in its name.
ThreeBases == {[user |-> {}, data |-> None], [user |-> None, data |-> None],
               [user |-> {}, data |-> {"GONE"}]}

\* The fields that depend on each other, a number and a path.
Edited == [home                      |-> {{BASE}},
           allow_network             |-> {TRUE, FALSE, Malformed},
           bind_address              |-> {"other"},
           llm_endpoint              |-> {"remote", "other scheme"},
           network_ingestion_enabled |-> {TRUE},
           ingest_tls_cert_path      |-> {{HOME}},
           ingest_tls_key_path       |-> {{"~"}, {"~user"}},
           token_budget              |-> {0}]

AllFiles == {"absent", "readable", "unreadable"}
=============================================================================

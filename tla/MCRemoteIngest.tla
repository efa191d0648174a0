--------------------------- MODULE MCRemoteIngest ---------------------------
(* Model checking of RemoteIngest: collectors that choose the same source   *)
(* id and report the same native session.                                   *)
EXTENDS RemoteIngest

CONSTANTS c1, c2, rollout, shared

OneCollector == {c1}
TwoCollectors == {c1, c2}
OneName == {rollout}
AllCodex == [x \in Collectors \X Names |-> "codex"]
FirstCodex == [x \in Collectors \X Names |-> IF x[1] = c1 THEN "codex" ELSE "snapshot"]
AllSnapshots == [x \in Collectors \X Names |-> "snapshot"]
OnlySecond == {c2}
Nobody == {}
TwoAndOne == [x \in Collectors \X Names |-> IF x[1] = c1 THEN 2 ELSE 1]
TwoLines == [x \in Collectors \X Names |-> 2]
OneSession == [x \in Collectors \X Names |-> shared]
=============================================================================

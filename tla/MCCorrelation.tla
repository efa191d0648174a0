--------------------------- MODULE MCCorrelation ---------------------------
(* Model checking of Correlation: two sessions of different tools, or three *)
(* of which two share a tool, each with its seed, and a global session made *)
(* by hand.                                                                 *)
EXTENDS Correlation, TLC

CONSTANTS s1, s2, s3, g1, g2, g3, gu, r1, r2

TwoSessions == {s1, s2}
ThreeSessions == {s1, s2, s3}
TwoSeeds == {g1, g2}
TwoSeedsAndOne == {g1, g2, gu}
ThreeSeeds == {g1, g2, g3}

MCFamily == [s \in Sessions |-> IF s = s1 THEN "codex" ELSE "claude"]
MCSeed == [s \in Sessions |-> CASE s = s1 -> g1 [] s = s2 -> g2 [] s = s3 -> g3]

NoRequests == {}
OneRequest == {r1}
TwoRequests == {r1, r2}
AnyOrder == Permutations(Requests)

Every == {"create", "link", "unlink", "reject", "accept", "refuse"}
Reviews == {"accept", "refuse"}
Accepting == {"accept"}
Linking == {"link"}
AcceptAndLink == {"create", "link", "accept"}
Placing == {"create", "link", "unlink", "accept"}
Rejecting == {"reject"}
Unlinking == {"unlink"}
=============================================================================

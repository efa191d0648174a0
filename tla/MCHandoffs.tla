----------------------------- MODULE MCHandoffs -----------------------------
(* Model checking of Handoffs.                                              *)
EXTENDS Handoffs

CONSTANTS s1, s2, post, h1, h2, id1

TwoSessions == {s1, s2}
OneSession == {s1}
OnlyS2 == {s2}
OneRequest == {post}
NoRequest == {}
TwoHosts == {h1, h2}
NoHost == {}
OneId == {id1}

\* Two decisions, a file and a message.
Mixed == <<"decisions", "decisions", "user", "relevant_files">>
ThreeFields == <<"decisions", "open_tasks", "user">>
TwoFields == <<"decisions", "open_tasks">>
Decisions == <<"decisions", "decisions">>
NoSuggestion == {}
=============================================================================

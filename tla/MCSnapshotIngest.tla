-------------------------- MODULE MCSnapshotIngest --------------------------
(* Model checking of SnapshotIngest.                                         *)
EXTENDS SnapshotIngest

CONSTANTS a, b, t1, t2, titled, retitled

TwoTexts == {a, b}
OneThread == {t1}
TwoThreads == {t1, t2}
OnlyB == {b}
TwoTitles == {titled, retitled}
OpenCode == {"opencode"}
Continue == {"continue"}
=============================================================================

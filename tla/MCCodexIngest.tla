--------------------------- MODULE MCCodexIngest ---------------------------
(* Model checking of CodexIngest: two places, one well-formed and one       *)
(* malformed record besides the metadata.                                   *)
EXTENDS CodexIngest

CONSTANTS p1, p2, meta, item, junk

MCPaths == {p1, p2}
MCOnePath == {p1}
MCPlain == {item}
MCMalformed == {junk}
MCNoMalformed == {}

AppendOnly == {"append"}
AppendAndRename == {"append", "rename"}
AppendAndTruncate == {"append", "truncate"}
AppendAndReplace == {"append", "replace"}
AppendRenameReplace == {"append", "rename", "replace"}
EveryWrite == {"append", "rename", "replace", "truncate"}
=============================================================================

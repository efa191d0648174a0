------------------------------ MODULE Startup ------------------------------
(***************************************************************************)
(* Files that processes publish next to each other: the api-token that a   *)
(* daemon provisions while it starts (provision_local_token), and the      *)
(* blobs that its ingestion puts (BlobStore::put).  Both are written under *)
(* a temporary name that holds the process id and are then linked or       *)
(* renamed; a crash leaves the temporary file behind, and a later process  *)
(* may have the same id (the daemon is process 1 of its container).        *)
(*                                                                         *)
(* Data abstraction: a token is the number of its generation, 0 a text     *)
(* that is not a token; a file that is written in part is Part.  What is   *)
(* configured before a start is the subject of Configuration.              *)
(***************************************************************************)
EXTENDS Naturals, FiniteSets

CONSTANTS
  Daemons,   \* daemons that share one home and one port
  Pids,      \* process ids
  Tasks,     \* tasks of a daemon that put blobs: the scans and the listener
  Contents,  \* the bytes of raw objects
  None,      \* no file, no process id
  Part,      \* an incomplete file
  MaxStarts  \* bound: starts of all daemons together

ASSUME StartupAssumption ==
  /\ MaxStarts \in Nat
  /\ None \notin Pids \cup Contents \cup {Part} \cup 0 .. MaxStarts
  /\ Part \notin Contents

VARIABLES
  apiToken,   \* the file api-token
  tokenTemp,  \* the files .api-token.{pid}.tmp
  daemon,     \* the process of each daemon
  blobs,      \* the blob of each content
  blobTemp,   \* the files .{hash}.{pid}.{sequence}.tmp
  put,        \* the call of put of each task
  rows,       \* contents with a committed row in raw_objects
  starts      \* counter: names the tokens, too

tokenFiles == <<apiToken, tokenTemp>>
blobFiles  == <<blobs, blobTemp, rows>>
vars == <<tokenFiles, daemon, blobFiles, put, starts>>

Malformed == 0
Tokens    == 1 .. MaxStarts

Down   == [pc |-> "down", pid |-> None, token |-> Malformed, sequence |-> 0]
NoPut  == [pc |-> "idle", content |-> None, sequence |-> 0]

\* The ingestion tasks are spawned before the port is bound.
Ingesting(d) == daemon[d].pc \in {"bind", "up"}

-----------------------------------------------------------------------------
(***************************************************************************)
(* Provisioning the token.                                                 *)
(***************************************************************************)
GoTo(d, pc) == daemon' = [daemon EXCEPT ![d].pc = pc]

\* Containers that share the home number their processes on their own: two
\* live daemons may have the same id.
Start(d, pid) ==
  /\ daemon[d].pc = "down"
  /\ starts < MaxStarts
  /\ starts' = starts + 1
  /\ daemon' = [daemon EXCEPT ![d] = [pc |-> "check", pid |-> pid, token |-> starts',
                                      sequence |-> 0]]
  /\ UNCHANGED <<tokenFiles, blobFiles, put>>

\* The token that this start would provision has been drawn.
CheckToken(d) ==
  /\ daemon[d].pc = "check"
  /\ GoTo(d, IF apiToken # None THEN "read" ELSE "create")
  /\ UNCHANGED <<tokenFiles, blobFiles, put, starts>>

\* A malformed token ends the start.
ReadToken(d) ==
  /\ daemon[d].pc = "read"
  /\ daemon' = [daemon EXCEPT ![d] =
                 IF apiToken \in Tokens THEN [@ EXCEPT !.pc = "bind", !.token = apiToken]
                 ELSE Down]
  /\ UNCHANGED <<tokenFiles, blobFiles, put, starts>>

\* create_new: a file of that name ends the start, and stays.
CreateTemp(d) ==
  /\ daemon[d].pc = "create"
  /\ IF tokenTemp[daemon[d].pid] # None
     THEN daemon' = [daemon EXCEPT ![d] = Down] /\ UNCHANGED tokenTemp
     ELSE GoTo(d, "write") /\ tokenTemp' = [tokenTemp EXCEPT ![daemon[d].pid] = Part]
  /\ UNCHANGED <<apiToken, blobFiles, put, starts>>

\* Slip: linked first and written afterwards.
WriteLater(d) ==
  /\ daemon[d].pc = "write"
  /\ GoTo(d, "link")
  /\ UNCHANGED <<tokenFiles, blobFiles, put, starts>>

WriteTemp(d) ==
  /\ daemon[d].pc = "write"
  /\ tokenTemp' = [tokenTemp EXCEPT ![daemon[d].pid] = daemon[d].token]
  /\ GoTo(d, "link")
  /\ UNCHANGED <<apiToken, blobFiles, put, starts>>

\* Slip: a rename, which replaces what another process has published.
RenameToken(d) ==
  /\ daemon[d].pc = "link"
  /\ apiToken' = tokenTemp[daemon[d].pid]
  /\ GoTo(d, "remove")
  /\ UNCHANGED <<tokenTemp, blobFiles, put, starts>>

\* hard_link does not replace: the second process takes the first one's token.
LinkToken(d) ==
  /\ daemon[d].pc = "link"
  /\ IF apiToken = None
     THEN apiToken' = tokenTemp[daemon[d].pid] /\ GoTo(d, "remove")
     ELSE GoTo(d, "yield") /\ UNCHANGED apiToken
  /\ UNCHANGED <<tokenTemp, blobFiles, put, starts>>

RemoveTemp(d) ==
  /\ daemon[d].pc \in {"remove", "yield"}
  /\ tokenTemp' = [tokenTemp EXCEPT ![daemon[d].pid] = None]
  /\ GoTo(d, IF daemon[d].pc = "yield" THEN "read" ELSE "bind")
  /\ UNCHANGED <<apiToken, blobFiles, put, starts>>

\* Puts in progress end with the process.
Exit(d) ==
  /\ daemon' = [daemon EXCEPT ![d] = Down]
  /\ put' = [put EXCEPT ![d] = [t \in Tasks |-> NoPut]]

\* A port in use ends the start, after the ingestion has been spawned.
Bind(d) ==
  /\ daemon[d].pc = "bind"
  /\ IF \E other \in Daemons : daemon[other].pc = "up"
     THEN Exit(d)
     ELSE GoTo(d, "up") /\ UNCHANGED put
  /\ UNCHANGED <<tokenFiles, blobFiles, starts>>

Provision(d) ==
  \/ CheckToken(d) \/ ReadToken(d) \/ CreateTemp(d) \/ WriteTemp(d)
  \/ LinkToken(d) \/ RemoveTemp(d) \/ Bind(d)

\* A crash, or a stop: no handler removes anything.
Crash(d) ==
  /\ daemon[d].pc # "down"
  /\ Exit(d)
  /\ UNCHANGED <<tokenFiles, blobFiles, starts>>

-----------------------------------------------------------------------------
(***************************************************************************)
(* Putting a blob.                                                         *)
(***************************************************************************)
SetPut(d, t, pc) == put' = [put EXCEPT ![d][t].pc = pc]

TempOf(d, t) == <<put[d][t].content, daemon[d].pid, put[d][t].sequence>>

StartPut(d, t, content) ==
  /\ Ingesting(d) /\ put[d][t].pc = "idle"
  /\ content \notin rows
  /\ put' = [put EXCEPT ![d][t] = [NoPut EXCEPT !.pc = "exists", !.content = content]]
  /\ UNCHANGED <<tokenFiles, daemon, blobFiles, starts>>

\* Slip: the number stays that of the process.
ExamineSameSequence(d, t) ==
  /\ put[d][t].pc = "exists"
  /\ put' = [put EXCEPT ![d][t] = [@ EXCEPT
              !.pc = IF blobs[put[d][t].content] # None THEN "verify" ELSE "create",
              !.sequence = daemon[d].sequence]]
  /\ UNCHANGED <<tokenFiles, daemon, blobFiles, starts>>

\* A blob that is there is verified; else the next number of this process.
Examine(d, t) ==
  /\ put[d][t].pc = "exists"
  /\ IF blobs[put[d][t].content] # None
     THEN SetPut(d, t, "verify") /\ UNCHANGED daemon
     ELSE /\ put' = [put EXCEPT ![d][t] = [@ EXCEPT !.pc = "create",
                                                    !.sequence = daemon[d].sequence]]
          /\ daemon' = [daemon EXCEPT ![d].sequence = @ + 1]
  /\ UNCHANGED <<tokenFiles, blobFiles, starts>>

\* Slip: an existing file is truncated and written again.
OpenBlob(d, t) ==
  /\ put[d][t].pc = "create"
  /\ blobTemp' = [f \in DOMAIN blobTemp \cup {TempOf(d, t)} |->
                    IF f = TempOf(d, t) THEN Part ELSE blobTemp[f]]
  /\ SetPut(d, t, "write")
  /\ UNCHANGED <<tokenFiles, daemon, blobs, rows, starts>>

\* The attempt fails when the name is taken; the next scan makes another.
CreateBlob(d, t) ==
  /\ put[d][t].pc = "create"
  /\ IF TempOf(d, t) \in DOMAIN blobTemp
     THEN put' = [put EXCEPT ![d][t] = NoPut] /\ UNCHANGED blobTemp
     ELSE /\ blobTemp' = [f \in DOMAIN blobTemp \cup {TempOf(d, t)} |->
                            IF f = TempOf(d, t) THEN Part ELSE blobTemp[f]]
          /\ SetPut(d, t, "write")
  /\ UNCHANGED <<tokenFiles, daemon, blobs, rows, starts>>

WriteBlob(d, t) ==
  /\ put[d][t].pc = "write"
  /\ blobTemp' = [blobTemp EXCEPT ![TempOf(d, t)] = put[d][t].content]
  /\ SetPut(d, t, "rename")
  /\ UNCHANGED <<tokenFiles, daemon, blobs, rows, starts>>

\* rename replaces a blob that another task has published meanwhile.
RenameBlob(d, t) ==
  /\ put[d][t].pc = "rename"
  /\ blobs' = [blobs EXCEPT ![put[d][t].content] = blobTemp[TempOf(d, t)]]
  /\ blobTemp' = [f \in DOMAIN blobTemp \ {TempOf(d, t)} |-> blobTemp[f]]
  /\ SetPut(d, t, "verify")
  /\ UNCHANGED <<tokenFiles, daemon, rows, starts>>

VerifyBlob(d, t) ==
  /\ put[d][t].pc = "verify"
  /\ put' = [put EXCEPT ![d][t] =
               IF blobs[@.content] = @.content THEN [@ EXCEPT !.pc = "commit"] ELSE NoPut]
  /\ UNCHANGED <<tokenFiles, daemon, blobFiles, starts>>

\* The caller commits the row with the hash that put has returned.
CommitRow(d, t) ==
  /\ put[d][t].pc = "commit"
  /\ rows' = rows \cup {put[d][t].content}
  /\ put' = [put EXCEPT ![d][t] = NoPut]
  /\ UNCHANGED <<tokenFiles, daemon, blobs, blobTemp, starts>>

Put(d, t) ==
  \/ \E content \in Contents : StartPut(d, t, content)
  \/ Examine(d, t) \/ CreateBlob(d, t) \/ WriteBlob(d, t) \/ RenameBlob(d, t)
  \/ VerifyBlob(d, t) \/ CommitRow(d, t)

-----------------------------------------------------------------------------
Init ==
  /\ apiToken \in {None, Malformed}
  /\ tokenTemp = [pid \in Pids |-> None]
  /\ daemon = [d \in Daemons |-> Down]
  /\ blobs = [c \in Contents |-> None]
  /\ blobTemp = <<>>
  /\ put = [d \in Daemons |-> [t \in Tasks |-> NoPut]]
  /\ rows = {}
  /\ starts = 0

Next ==
  \E d \in Daemons :
    \/ \E pid \in Pids : Start(d, pid)
    \/ Provision(d)
    \/ Crash(d)
    \/ \E t \in Tasks : Put(d, t)

\* A start goes on, and the tasks of a daemon scan again after a failure.
Fairness ==
  \A d \in Daemons :
    /\ WF_vars(Provision(d))
    /\ WF_vars(\E t \in Tasks : Put(d, t))

Spec == Init /\ [][Next]_vars /\ Fairness

-----------------------------------------------------------------------------
(***************************************************************************)
(* Properties.                                                             *)
(***************************************************************************)
Process ==
  [pc : {"down", "check", "read", "create", "write", "link", "remove", "yield", "bind", "up"},
   pid : Pids \cup {None}, token : Tokens \cup {Malformed}, sequence : Nat]

PutCall ==
  [pc : {"idle", "exists", "create", "write", "rename", "verify", "commit"},
   content : Contents \cup {None}, sequence : Nat]

TypeOK ==
  /\ apiToken \in Tokens \cup {None, Malformed}
  /\ tokenTemp \in [Pids -> Tokens \cup {None, Part}]
  /\ daemon \in [Daemons -> Process]
  /\ blobs \in [Contents -> Contents \cup {None}]
  /\ DOMAIN blobTemp \subseteq Contents \X Pids \X Nat
  /\ put \in [Daemons -> [Tasks -> PutCall]]
  /\ rows \subseteq Contents
  /\ starts \in 0 .. MaxStarts

(***************************************************************************)
(* All daemons accept the token that the file holds, which is one whole    *)
(* token, whoever provisioned it and whatever crashed before; a token that *)
(* is published stays.                                                     *)
(***************************************************************************)
TokenShared ==
  \A d \in Daemons : Ingesting(d) => daemon[d].token = apiToken /\ apiToken \in Tokens

(***************************************************************************)
(* A row never refers to a blob that is missing or incomplete, and no two  *)
(* calls of put write the same temporary file.                             *)
(***************************************************************************)
Writing(d, t) == put[d][t].pc \in {"write", "rename"}

RowBacked ==
  /\ \A c \in rows : blobs[c] = c
  /\ \A d1, d2 \in Daemons, t1, t2 \in Tasks :
       Writing(d1, t1) /\ Writing(d2, t2) /\ TempOf(d1, t1) = TempOf(d2, t2)
         => d1 = d2 /\ t1 = t2

(***************************************************************************)
(* While a daemon stays up, temporary files of earlier crashes do not keep *)
(* a content from being stored: each attempt takes another number.         *)
(***************************************************************************)
BlobsStored ==
  \A d \in Daemons : <>[](daemon[d].pc = "up") => <>(rows = Contents)
=============================================================================

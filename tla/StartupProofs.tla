--------------------------- MODULE StartupProofs ---------------------------
(***************************************************************************)
(* Proofs about Startup for any number of daemons, process ids, tasks,     *)
(* contents and starts.                                                    *)
(***************************************************************************)
EXTENDS Startup, TLAPS

\* The temporary token file is this daemon's from its creation to its removal.
Owning(d) == daemon[d].pc \in {"write", "link", "remove", "yield"}

\* A process has an id, and a token of its own until it takes another one.
Processes ==
  \A d \in Daemons : daemon[d].pc # "down" =>
    /\ daemon[d].pid \in Pids
    /\ daemon[d].token \in Tokens

\* What each step of provision_local_token may rely on: no two owners of a
\* temporary file, a whole token when it is linked, and the published token
\* afterwards.
Provisioned ==
  \A d \in Daemons :
    /\ Owning(d) => tokenTemp[daemon[d].pid] # None
    /\ daemon[d].pc = "link" => tokenTemp[daemon[d].pid] = daemon[d].token
    /\ daemon[d].pc \in {"read", "yield"} => apiToken # None
    /\ daemon[d].pc \in {"remove", "bind", "up"} => daemon[d].token = apiToken
    /\ \A e \in Daemons : Owning(d) /\ Owning(e) /\ daemon[d].pid = daemon[e].pid => d = e

\* Only a process that ingests puts blobs, and each of its calls knows what it
\* puts.
Putting ==
  \A d \in Daemons, t \in Tasks : put[d][t].pc # "idle" =>
    Ingesting(d) /\ put[d][t].content \in Contents

\* A blob is whole once it has its name, a temporary file once it is renamed.
Whole ==
  /\ \A c \in Contents : blobs[c] # None => blobs[c] = c
  /\ \A d \in Daemons, t \in Tasks :
       /\ Writing(d, t) => TempOf(d, t) \in DOMAIN blobTemp
       /\ put[d][t].pc = "rename" => blobTemp[TempOf(d, t)] = put[d][t].content
       /\ put[d][t].pc \in {"verify", "commit"} => blobs[put[d][t].content] # None

IInv == TypeOK /\ Processes /\ Provisioned /\ Putting /\ Whole /\ RowBacked

-----------------------------------------------------------------------------
(***************************************************************************)
(* Types.                                                                  *)
(***************************************************************************)
\* The initial state is typed, and nothing runs yet.
LEMMA InitIInv == Init => IInv
  BY StartupAssumption
  DEF Init, IInv, TypeOK, Processes, Provisioned, Putting, Whole, RowBacked, Owning, Writing,
      Ingesting, Down, NoPut, Malformed, Tokens, Process, PutCall

\* The numbers of the starts are tokens.
LEMMA StartType ==
  ASSUME starts \in 0 .. MaxStarts, starts < MaxStarts
  PROVE  starts + 1 \in Tokens /\ starts + 1 \in 0 .. MaxStarts
  BY StartupAssumption DEF Tokens

\* A process that ends leaves a typed record of none.
LEMMA DownType == Down \in Process
  BY DEF Down, Process

LEMMA NoPutType == NoPut \in PutCall
  BY DEF NoPut, PutCall

\* A process that goes on keeps the rest of its record.
LEMMA GoToType ==
  ASSUME TypeOK, NEW d \in Daemons,
         NEW pc \in {"check", "read", "create", "write", "link", "remove", "yield", "bind", "up"},
         GoTo(d, pc)
  PROVE  /\ daemon' \in [Daemons -> Process]
         /\ daemon' = [daemon EXCEPT ![d].pc = pc]
  <1>1. daemon' = [daemon EXCEPT ![d] = [@ EXCEPT !.pc = pc]]
    BY DEF GoTo
  <1>2. [daemon[d] EXCEPT !.pc = pc] \in Process
    BY DEF TypeOK, Process
  <1>3. daemon' \in [Daemons -> Process]
    BY <1>1, <1>2 DEF TypeOK
  <1> QED BY <1>3 DEF GoTo

-----------------------------------------------------------------------------
(***************************************************************************)
(* Steps that leave the blobs alone.                                       *)
(***************************************************************************)
\* Calls of put do not notice what becomes of processes that do not ingest.
LEMMA PutsKept ==
  ASSUME IInv, UNCHANGED <<blobFiles, put>>,
         \A d \in Daemons : Ingesting(d) => Ingesting(d)' /\ daemon'[d].pid = daemon[d].pid
  PROVE  Putting' /\ Whole' /\ RowBacked'
  <1>1. \A d \in Daemons, t \in Tasks : put[d][t].pc # "idle" => TempOf(d, t)' = TempOf(d, t)
    BY DEF IInv, Putting, TempOf
  <1>2. \A d \in Daemons, t \in Tasks : Writing(d, t)' = Writing(d, t)
    BY DEF Writing
  <1>3. Putting'
    BY DEF IInv, Putting
  <1>4. Whole'
    BY <1>1, <1>2 DEF IInv, Whole, blobFiles, Writing
  <1>5. RowBacked'
    BY <1>1, <1>2 DEF IInv, RowBacked, blobFiles, Writing
  <1> QED BY <1>3, <1>4, <1>5

\* A process starts with a token of its own.
LEMMA StartStep ==
  ASSUME IInv, NEW d \in Daemons, NEW pid \in Pids, Start(d, pid)
  PROVE  IInv'
  <1> USE DEF IInv
  <1>1. starts' \in Tokens /\ starts' \in 0 .. MaxStarts
    BY StartType DEF Start, TypeOK
  <1>2. daemon' = [daemon EXCEPT ![d] = [pc |-> "check", pid |-> pid, token |-> starts',
                                         sequence |-> 0]]
    BY DEF Start
  <1>3. TypeOK'
    <2>1. [pc |-> "check", pid |-> pid, token |-> starts', sequence |-> 0] \in Process
      BY <1>1 DEF Process
    <2> QED BY <1>1, <1>2, <2>1 DEF Start, TypeOK, tokenFiles, blobFiles
  <1>4. Processes'
    BY <1>1, <1>2 DEF TypeOK, Processes
  <1>5. Provisioned'
    BY <1>2 DEF Start, TypeOK, Provisioned, Owning, tokenFiles
  <1>6. Putting' /\ Whole' /\ RowBacked'
    BY <1>2, PutsKept DEF Start, TypeOK, Ingesting
  <1> QED BY <1>3, <1>4, <1>5, <1>6

\* Looking at the file changes nothing but the place of the process.
LEMMA CheckStep ==
  ASSUME IInv, NEW d \in Daemons, CheckToken(d)
  PROVE  IInv'
  <1> USE DEF IInv
  <1>1. /\ daemon' \in [Daemons -> Process]
        /\ daemon' = [daemon EXCEPT ![d].pc = IF apiToken # None THEN "read" ELSE "create"]
    BY GoToType DEF CheckToken
  <1>2. TypeOK'
    BY <1>1 DEF CheckToken, TypeOK, tokenFiles, blobFiles
  <1>3. Processes'
    BY <1>1 DEF CheckToken, TypeOK, Processes
  <1>4. Provisioned'
    BY <1>1 DEF CheckToken, TypeOK, Provisioned, Owning, tokenFiles
  <1>5. Putting' /\ Whole' /\ RowBacked'
    BY <1>1, PutsKept DEF CheckToken, TypeOK, Ingesting
  <1> QED BY <1>2, <1>3, <1>4, <1>5

\* A token that is there is taken, or ends the start.
LEMMA ReadStep ==
  ASSUME IInv, NEW d \in Daemons, ReadToken(d)
  PROVE  IInv'
  <1> USE DEF IInv
  <1>1. CASE apiToken \in Tokens
    <2>1. daemon' = [daemon EXCEPT ![d] = [@ EXCEPT !.pc = "bind", !.token = apiToken]]
      BY <1>1 DEF ReadToken
    <2>2. TypeOK'
      <3>1. [daemon[d] EXCEPT !.pc = "bind", !.token = apiToken] \in Process
        BY <1>1 DEF TypeOK, Process
      <3> QED BY <2>1, <3>1 DEF ReadToken, TypeOK, tokenFiles, blobFiles
    <2>3. Processes'
      BY <1>1, <2>1 DEF ReadToken, TypeOK, Processes
    <2>4. Provisioned'
      BY <1>1, <2>1, StartupAssumption DEF ReadToken, TypeOK, Provisioned, Owning, tokenFiles, Tokens
    <2>5. Putting' /\ Whole' /\ RowBacked'
      BY <2>1, PutsKept DEF ReadToken, TypeOK, Ingesting
    <2> QED BY <2>2, <2>3, <2>4, <2>5
  <1>2. CASE apiToken \notin Tokens
    <2>1. daemon' = [daemon EXCEPT ![d] = Down]
      BY <1>2 DEF ReadToken
    <2>2. TypeOK'
      BY <2>1, DownType DEF ReadToken, TypeOK, tokenFiles, blobFiles
    <2>3. Processes'
      BY <2>1 DEF TypeOK, Processes, Down
    <2>4. Provisioned'
      BY <2>1 DEF ReadToken, TypeOK, Provisioned, Owning, tokenFiles, Down
    <2>5. Putting' /\ Whole' /\ RowBacked'
      BY <2>1, PutsKept DEF ReadToken, TypeOK, Ingesting
    <2> QED BY <2>2, <2>3, <2>4, <2>5
  <1> QED BY <1>1, <1>2

\* A temporary file has one owner: it is created only where there is none.
LEMMA CreateStep ==
  ASSUME IInv, NEW d \in Daemons, CreateTemp(d)
  PROVE  IInv'
  <1> USE DEF IInv
  <1>1. daemon[d].pid \in Pids /\ daemon[d].pc = "create"
    BY DEF CreateTemp, Processes
  <1>2. CASE tokenTemp[daemon[d].pid] # None
    <2>1. daemon' = [daemon EXCEPT ![d] = Down] /\ UNCHANGED <<tokenFiles, blobFiles, put, starts>>
      BY <1>2 DEF CreateTemp, tokenFiles
    <2>2. TypeOK'
      BY <2>1, DownType DEF TypeOK, tokenFiles, blobFiles
    <2>3. Processes'
      BY <2>1 DEF TypeOK, Processes, Down
    <2>4. Provisioned'
      BY <2>1 DEF TypeOK, Provisioned, Owning, tokenFiles, Down
    <2>5. Putting' /\ Whole' /\ RowBacked'
      BY <1>1, <2>1, PutsKept DEF TypeOK, Ingesting
    <2> QED BY <2>2, <2>3, <2>4, <2>5
  <1>3. CASE tokenTemp[daemon[d].pid] = None
    <2>1. /\ daemon' = [daemon EXCEPT ![d].pc = "write"]
          /\ tokenTemp' = [tokenTemp EXCEPT ![daemon[d].pid] = Part]
          /\ UNCHANGED <<apiToken, blobFiles, put, starts>>
      BY <1>3 DEF CreateTemp, GoTo
    <2>2. TypeOK'
      BY <1>1, <1>3, <2>1, GoToType DEF CreateTemp, TypeOK, blobFiles
    <2>3. Processes'
      BY <1>1, <2>1 DEF TypeOK, Processes
    <2>4. \A e \in Daemons : Owning(e) => daemon[e].pid # daemon[d].pid
      BY <1>3 DEF Provisioned
    <2>5. Provisioned'
      BY <1>1, <2>1, <2>4, StartupAssumption DEF TypeOK, Processes, Provisioned, Owning
    <2>6. Putting' /\ Whole' /\ RowBacked'
      BY <1>1, <2>1, PutsKept DEF TypeOK, Ingesting
    <2> QED BY <2>2, <2>3, <2>5, <2>6
  <1> QED BY <1>2, <1>3

\* The owner fills its file.
LEMMA WriteStep ==
  ASSUME IInv, NEW d \in Daemons, WriteTemp(d)
  PROVE  IInv'
  <1> USE DEF IInv
  <1>1. /\ daemon[d].pid \in Pids /\ daemon[d].pc = "write" /\ daemon[d].token \in Tokens
        /\ daemon' = [daemon EXCEPT ![d].pc = "link"]
        /\ tokenTemp' = [tokenTemp EXCEPT ![daemon[d].pid] = daemon[d].token]
        /\ UNCHANGED <<apiToken, blobFiles, put, starts>>
    BY DEF WriteTemp, Processes, GoTo
  <1>2. TypeOK'
    BY <1>1, GoToType DEF WriteTemp, TypeOK, blobFiles
  <1>3. Processes'
    BY <1>1 DEF TypeOK, Processes
  <1>4. \A e \in Daemons \ {d} : Owning(e) => daemon[e].pid # daemon[d].pid
    BY <1>1 DEF Provisioned, Owning
  <1>5. daemon[d].token # None
    BY <1>1, StartupAssumption DEF Tokens
  <1>6. Provisioned'
    BY <1>1, <1>4, <1>5 DEF TypeOK, Processes, Provisioned, Owning
  <1>7. Putting' /\ Whole' /\ RowBacked'
    BY <1>1, PutsKept DEF TypeOK, Ingesting
  <1> QED BY <1>2, <1>3, <1>6, <1>7

\* The first one publishes a whole token; nobody replaces it.
LEMMA LinkStep ==
  ASSUME IInv, NEW d \in Daemons, LinkToken(d)
  PROVE  IInv'
  <1> USE DEF IInv
  <1>1. daemon[d].pid \in Pids /\ daemon[d].pc = "link" /\ daemon[d].token \in Tokens
        /\ tokenTemp[daemon[d].pid] = daemon[d].token
    BY DEF LinkToken, Processes, Provisioned
  <1>2. CASE apiToken = None
    <2>1. /\ daemon' = [daemon EXCEPT ![d].pc = "remove"] /\ daemon' \in [Daemons -> Process]
          /\ apiToken' = daemon[d].token
          /\ UNCHANGED <<tokenTemp, blobFiles, put, starts>>
      BY <1>1, <1>2, GoToType DEF LinkToken
    <2>2. TypeOK'
      BY <1>1, <2>1 DEF TypeOK, blobFiles
    <2>3. Processes'
      BY <1>1, <2>1 DEF TypeOK, Processes
    <2>4. \A e \in Daemons : daemon[e].pc \notin {"remove", "bind", "up"}
      BY <1>2, StartupAssumption DEF Provisioned, Processes, Tokens
    <2>5. Provisioned'
      BY <1>1, <2>1, <2>4, StartupAssumption DEF TypeOK, Processes, Provisioned, Owning, Tokens
    <2>6. Putting' /\ Whole' /\ RowBacked'
      BY <1>1, <2>1, PutsKept DEF TypeOK, Ingesting
    <2> QED BY <2>2, <2>3, <2>5, <2>6
  <1>3. CASE apiToken # None
    <2>1. /\ daemon' = [daemon EXCEPT ![d].pc = "yield"] /\ daemon' \in [Daemons -> Process]
          /\ UNCHANGED <<apiToken, tokenTemp, blobFiles, put, starts>>
      BY <1>1, <1>3, GoToType DEF LinkToken
    <2>2. TypeOK'
      BY <2>1 DEF TypeOK, blobFiles
    <2>3. Processes'
      BY <1>1, <2>1 DEF TypeOK, Processes
    <2>4. Provisioned'
      BY <1>1, <1>3, <2>1 DEF TypeOK, Processes, Provisioned, Owning
    <2>5. Putting' /\ Whole' /\ RowBacked'
      BY <1>1, <2>1, PutsKept DEF TypeOK, Ingesting
    <2> QED BY <2>2, <2>3, <2>4, <2>5
  <1> QED BY <1>2, <1>3

\* The owner removes its own file, and nobody else's.
LEMMA RemoveStep ==
  ASSUME IInv, NEW d \in Daemons, RemoveTemp(d)
  PROVE  IInv'
  <1> USE DEF IInv
  <1> DEFINE next == IF daemon[d].pc = "yield" THEN "read" ELSE "bind"
  <1>1. /\ daemon[d].pid \in Pids /\ daemon[d].pc \in {"remove", "yield"}
        /\ daemon[d].token \in Tokens
    BY DEF RemoveTemp, Processes
  <1>2. /\ daemon' = [daemon EXCEPT ![d].pc = next] /\ daemon' \in [Daemons -> Process]
        /\ tokenTemp' = [tokenTemp EXCEPT ![daemon[d].pid] = None]
        /\ UNCHANGED <<apiToken, blobFiles, put, starts>>
    BY GoToType DEF RemoveTemp
  <1>3. TypeOK'
    BY <1>1, <1>2 DEF TypeOK, blobFiles
  <1>4. Processes'
    BY <1>1, <1>2 DEF TypeOK, Processes
  <1>5. \A e \in Daemons \ {d} : Owning(e) => daemon[e].pid # daemon[d].pid
    BY <1>1 DEF Provisioned, Owning
  <1>6. Provisioned'
    BY <1>1, <1>2, <1>5 DEF TypeOK, Processes, Provisioned, Owning
  <1>7. Putting' /\ Whole' /\ RowBacked'
    BY <1>1, <1>2, PutsKept DEF TypeOK, Ingesting
  <1> QED BY <1>3, <1>4, <1>6, <1>7

\* A process that ends, wherever it was: its temporary files stay, unowned.
LEMMA ExitStep ==
  ASSUME IInv, NEW d \in Daemons, Exit(d), UNCHANGED <<tokenFiles, blobFiles, starts>>
  PROVE  IInv'
  <1> USE DEF IInv
  <1>1. /\ daemon' = [daemon EXCEPT ![d] = Down]
        /\ put' = [put EXCEPT ![d] = [t \in Tasks |-> NoPut]]
    BY DEF Exit
  <1>2. TypeOK'
    BY <1>1, DownType, NoPutType DEF TypeOK, tokenFiles, blobFiles
  <1>3. Processes'
    BY <1>1 DEF TypeOK, Processes, Down
  <1>4. Provisioned'
    BY <1>1 DEF TypeOK, Provisioned, Owning, tokenFiles, Down
  <1>5. \A e \in Daemons, t \in Tasks : put'[e][t].pc # "idle" =>
          e # d /\ put'[e] = put[e] /\ daemon'[e] = daemon[e] /\ put[e][t].pc # "idle"
    BY <1>1 DEF TypeOK, NoPut
  <1>6. Putting'
    BY <1>5 DEF Putting, Ingesting
  <1>7. \A e \in Daemons, t \in Tasks : put'[e][t].pc # "idle" => TempOf(e, t)' = TempOf(e, t)
    BY <1>5 DEF TempOf
  <1>8. \A e \in Daemons, t \in Tasks : Writing(e, t)' => Writing(e, t) /\ put'[e][t].pc # "idle"
    BY <1>5 DEF Writing
  <1>9. Whole'
    BY <1>5, <1>7, <1>8 DEF Whole, blobFiles
  <1>10. RowBacked'
    BY <1>7, <1>8 DEF RowBacked, blobFiles
  <1> QED BY <1>2, <1>3, <1>4, <1>6, <1>9, <1>10

\* The port is bound, or the start ends.
LEMMA BindStep ==
  ASSUME IInv, NEW d \in Daemons, Bind(d)
  PROVE  IInv'
  <1> USE DEF IInv
  <1>1. CASE \E other \in Daemons : daemon[other].pc = "up"
    BY <1>1, ExitStep DEF Bind
  <1>2. CASE ~ \E other \in Daemons : daemon[other].pc = "up"
    <2>1. /\ daemon[d].pc = "bind"
          /\ daemon' = [daemon EXCEPT ![d].pc = "up"] /\ daemon' \in [Daemons -> Process]
          /\ UNCHANGED <<tokenFiles, blobFiles, put, starts>>
      BY <1>2, GoToType DEF Bind
    <2>2. TypeOK'
      BY <2>1 DEF TypeOK, tokenFiles, blobFiles
    <2>3. Processes'
      BY <2>1 DEF TypeOK, Processes
    <2>4. Provisioned'
      BY <2>1 DEF TypeOK, Processes, Provisioned, Owning, tokenFiles
    <2>5. Putting' /\ Whole' /\ RowBacked'
      BY <2>1, PutsKept DEF TypeOK, Ingesting
    <2> QED BY <2>2, <2>3, <2>4, <2>5
  <1> QED BY <1>1, <1>2

-----------------------------------------------------------------------------
(***************************************************************************)
(* Steps of a call of put.                                                 *)
(***************************************************************************)
\* They leave the processes and their token alone.
LEMMA TokensKept ==
  ASSUME IInv, UNCHANGED <<tokenFiles, daemon>>
  PROVE  Processes' /\ Provisioned'
  BY DEF IInv, TypeOK, Processes, Provisioned, Owning, tokenFiles

\* What a step of one call does to the table of calls.
LEMMA SetPutType ==
  ASSUME TypeOK, NEW d \in Daemons, NEW t \in Tasks,
         NEW pc \in {"exists", "create", "write", "rename", "verify", "commit"},
         SetPut(d, t, pc)
  PROVE  /\ put' \in [Daemons -> [Tasks -> PutCall]]
         /\ put'[d][t] = [put[d][t] EXCEPT !.pc = pc]
         /\ \A e \in Daemons, u \in Tasks : <<e, u>> # <<d, t>> => put'[e][u] = put[e][u]
  <1>1. put' = [put EXCEPT ![d][t] = [put[d][t] EXCEPT !.pc = pc]]
    BY DEF SetPut, TypeOK
  <1>2. [put[d][t] EXCEPT !.pc = pc] \in PutCall
    <2>1. put[d][t] \in PutCall
      BY DEF TypeOK
    <2> QED BY <2>1 DEF PutCall
  <1> QED BY <1>1, <1>2 DEF TypeOK

\* A call that gives up, or returns, writes nothing any more.
LEMMA EndStep ==
  ASSUME IInv, NEW d \in Daemons, NEW t \in Tasks, put' = [put EXCEPT ![d][t] = NoPut],
         UNCHANGED <<tokenFiles, daemon, blobs, blobTemp, starts>>,
         rows' \subseteq Contents, \A c \in rows' : blobs[c] = c
  PROVE  IInv'
  <1> USE DEF IInv
  <1>1. /\ put' \in [Daemons -> [Tasks -> PutCall]] /\ put'[d][t] = NoPut
        /\ \A e \in Daemons, u \in Tasks : <<e, u>> # <<d, t>> => put'[e][u] = put[e][u]
    BY NoPutType DEF TypeOK
  <1>2. TypeOK'
    BY <1>1 DEF TypeOK, tokenFiles
  <1>3. \A e \in Daemons, u \in Tasks : put'[e][u].pc # "idle" =>
          put'[e][u] = put[e][u] /\ TempOf(e, u)' = TempOf(e, u)
    BY <1>1 DEF NoPut, TempOf
  <1>4. Putting'
    BY <1>3 DEF Putting, Ingesting
  <1>5. Whole'
    BY <1>3 DEF Whole, Writing
  <1>6. RowBacked'
    BY <1>3 DEF RowBacked, Writing
  <1> QED BY <1>2, <1>4, <1>5, <1>6, TokensKept

\* A call that goes on, before it has a file of its own or after it is renamed.
LEMMA GoOnStep ==
  ASSUME IInv, NEW d \in Daemons, NEW t \in Tasks,
         Ingesting(d)', put'[d][t].content \in Contents,
         put' \in [Daemons -> [Tasks -> PutCall]],
         put'[d][t].pc \in {"exists", "create", "verify", "commit"},
         put'[d][t].pc \in {"verify", "commit"} => blobs[put'[d][t].content] # None,
         \A e \in Daemons, u \in Tasks : <<e, u>> # <<d, t>> => put'[e][u] = put[e][u],
         \A e \in Daemons : daemon'[e].pc = daemon[e].pc /\ daemon'[e].pid = daemon[e].pid,
         UNCHANGED blobFiles
  PROVE  Putting' /\ Whole' /\ RowBacked'
  <1> USE DEF IInv
  <1>1. \A e \in Daemons, u \in Tasks : <<e, u>> # <<d, t>> =>
          put'[e][u] = put[e][u] /\ TempOf(e, u)' = TempOf(e, u)
    BY DEF TempOf
  <1>2. ~ Writing(d, t)' /\ put'[d][t].pc # "rename"
    BY DEF Writing
  <1>3. Putting'
    BY <1>1 DEF Putting, Ingesting
  <1>4. Whole'
    BY <1>1, <1>2 DEF Whole, Writing, blobFiles
  <1>5. RowBacked'
    BY <1>1, <1>2 DEF RowBacked, Writing, blobFiles
  <1> QED BY <1>3, <1>4, <1>5

LEMMA StartPutStep ==
  ASSUME IInv, NEW d \in Daemons, NEW t \in Tasks, NEW content \in Contents,
         StartPut(d, t, content)
  PROVE  IInv'
  <1> DEFINE call == [NoPut EXCEPT !.pc = "exists", !.content = content]
  <1>1. call \in PutCall
    BY DEF NoPut, PutCall
  <1>2. /\ put' \in [Daemons -> [Tasks -> PutCall]] /\ put'[d][t] = call
        /\ \A e \in Daemons, u \in Tasks : <<e, u>> # <<d, t>> => put'[e][u] = put[e][u]
    <2> HIDE DEF call
    <2>1. put' = [put EXCEPT ![d][t] = call]
      BY DEF StartPut, call
    <2> QED BY <1>1, <2>1 DEF IInv, TypeOK
  <1>3. call.pc = "exists" /\ call.content = content
    BY DEF NoPut
  <1> HIDE DEF call
  <1>4. UNCHANGED <<tokenFiles, daemon, blobFiles, starts>> /\ Ingesting(d)
    BY DEF StartPut
  <1>5. TypeOK'
    BY <1>2, <1>4 DEF IInv, TypeOK, tokenFiles, blobFiles
  <1>6. Ingesting(d)'
    BY <1>4 DEF Ingesting
  <1>7. Putting' /\ Whole' /\ RowBacked'
    BY <1>2, <1>3, <1>4, <1>6, GoOnStep
  <1> QED BY <1>4, <1>5, <1>7, TokensKept DEF IInv

\* The number that a call takes is its process's next one.
LEMMA ExamineStep ==
  ASSUME IInv, NEW d \in Daemons, NEW t \in Tasks, Examine(d, t)
  PROVE  IInv'
  <1>1. /\ Ingesting(d) /\ put[d][t].content \in Contents /\ put[d][t] \in PutCall
        /\ daemon[d] \in Process
    BY DEF Examine, IInv, Putting, TypeOK
  <1>2. CASE blobs[put[d][t].content] # None
    <2>1. SetPut(d, t, "verify") /\ UNCHANGED <<tokenFiles, daemon, blobFiles, starts>>
      BY <1>2 DEF Examine
    <2>2. /\ put' \in [Daemons -> [Tasks -> PutCall]]
          /\ put'[d][t] = [put[d][t] EXCEPT !.pc = "verify"]
          /\ \A e \in Daemons, u \in Tasks : <<e, u>> # <<d, t>> => put'[e][u] = put[e][u]
      BY <2>1, SetPutType DEF IInv
    <2>3. TypeOK'
      BY <2>1, <2>2 DEF IInv, TypeOK, tokenFiles, blobFiles
    <2>4. put'[d][t].pc = "verify" /\ put'[d][t].content = put[d][t].content
      BY <1>1, <2>2 DEF PutCall
    <2>5. Ingesting(d)'
      BY <1>1, <2>1 DEF Ingesting
    <2>6. Putting' /\ Whole' /\ RowBacked'
      BY <1>1, <1>2, <2>1, <2>2, <2>4, <2>5, GoOnStep
    <2> QED BY <2>1, <2>3, <2>6, TokensKept DEF IInv
  <1>3. CASE blobs[put[d][t].content] = None
    <2> DEFINE call == [put[d][t] EXCEPT !.pc = "create", !.sequence = daemon[d].sequence]
    <2>1. call \in PutCall /\ call.pc = "create" /\ call.content = put[d][t].content
      BY <1>1 DEF PutCall, Process
    <2> HIDE DEF call
    <2>2. /\ put' = [put EXCEPT ![d][t] = call]
          /\ daemon' = [daemon EXCEPT ![d].sequence = @ + 1]
          /\ UNCHANGED <<tokenFiles, blobFiles, starts>>
      BY <1>3 DEF Examine, call, IInv, TypeOK
    <2>3. /\ put' \in [Daemons -> [Tasks -> PutCall]] /\ put'[d][t] = call
          /\ \A e \in Daemons, u \in Tasks : <<e, u>> # <<d, t>> => put'[e][u] = put[e][u]
      BY <2>1, <2>2 DEF IInv, TypeOK
    <2>4. [daemon[d] EXCEPT !.sequence = @ + 1] \in Process
      BY <1>1 DEF Process
    <2>5. daemon' \in [Daemons -> Process]
      BY <2>2, <2>4 DEF IInv, TypeOK
    <2>6. \A e \in Daemons : /\ daemon'[e].pc = daemon[e].pc /\ daemon'[e].pid = daemon[e].pid
                             /\ daemon'[e].token = daemon[e].token
      BY <2>2 DEF IInv, TypeOK, Process
    <2>7. TypeOK'
      BY <2>2, <2>3, <2>5 DEF IInv, TypeOK, tokenFiles, blobFiles
    <2>8. Processes' /\ Provisioned'
      BY <2>2, <2>6 DEF IInv, Processes, Provisioned, Owning, tokenFiles
    <2>9. Ingesting(d)'
      BY <1>1, <2>6 DEF Ingesting
    <2>10. Putting' /\ Whole' /\ RowBacked'
      BY <1>1, <2>1, <2>2, <2>3, <2>6, <2>9, GoOnStep
    <2> QED BY <2>7, <2>8, <2>10 DEF IInv
  <1> QED BY <1>2, <1>3

\* The name of a temporary file is made of a content, a process and a number.
LEMMA TempType ==
  ASSUME IInv, NEW d \in Daemons, NEW t \in Tasks, put[d][t].pc # "idle"
  PROVE  TempOf(d, t) \in Contents \X Pids \X Nat
  <1>1. put[d][t].content \in Contents /\ daemon[d].pid \in Pids
    BY DEF IInv, Putting, Processes, Ingesting
  <1>2. put[d][t].sequence \in Nat
    BY DEF IInv, TypeOK, PutCall
  <1> QED BY <1>1, <1>2 DEF TempOf

\* A call gets a file that was not there, thus one that no other call writes.
LEMMA CreateBlobStep ==
  ASSUME IInv, NEW d \in Daemons, NEW t \in Tasks, CreateBlob(d, t)
  PROVE  IInv'
  <1> DEFINE own == TempOf(d, t)
  <1>1. CASE own \in DOMAIN blobTemp
    <2>1. /\ put' = [put EXCEPT ![d][t] = NoPut]
          /\ UNCHANGED <<tokenFiles, daemon, blobs, blobTemp, rows, starts>>
      BY <1>1 DEF CreateBlob
    <2>2. rows \subseteq Contents /\ \A c \in rows : blobs[c] = c
      BY DEF IInv, TypeOK, RowBacked
    <2> QED BY <2>1, <2>2, EndStep
  <1>2. CASE own \notin DOMAIN blobTemp
    <2>1. /\ blobTemp' = [f \in DOMAIN blobTemp \cup {own} |->
                             IF f = own THEN Part ELSE blobTemp[f]]
          /\ SetPut(d, t, "write") /\ put[d][t].pc = "create"
          /\ UNCHANGED <<tokenFiles, daemon, blobs, rows, starts>>
      BY <1>2 DEF CreateBlob
    <2>2. own \in Contents \X Pids \X Nat
      BY <2>1, TempType
    <2> put[d][t] \in PutCall
      BY DEF IInv, TypeOK
    <2>3. /\ put' \in [Daemons -> [Tasks -> PutCall]]
          /\ put'[d][t] = [put[d][t] EXCEPT !.pc = "write"]
          /\ \A e \in Daemons, u \in Tasks : <<e, u>> # <<d, t>> => put'[e][u] = put[e][u]
      BY <2>1, SetPutType DEF IInv
    <2>4. \A e \in Daemons, u \in Tasks :
            /\ put'[e][u].content = put[e][u].content
            /\ put'[e][u].sequence = put[e][u].sequence
            /\ <<e, u>> # <<d, t>> => put'[e][u].pc = put[e][u].pc
      BY <2>3 DEF PutCall
    <2>5. \A e \in Daemons, u \in Tasks : TempOf(e, u)' = TempOf(e, u)
      BY <2>1, <2>4 DEF TempOf
    <2>6. put'[d][t].pc = "write"
      BY <2>3 DEF PutCall
    <2>7. \A e \in Daemons, u \in Tasks :
            Writing(e, u) => TempOf(e, u) \in DOMAIN blobTemp /\ TempOf(e, u) # own
      BY <1>2 DEF IInv, Whole
    <2> HIDE DEF own
    <2>8. DOMAIN blobTemp' = DOMAIN blobTemp \cup {own}
          /\ \A f \in DOMAIN blobTemp : f # own => blobTemp'[f] = blobTemp[f]
      BY <2>1
    <2>9. TypeOK'
      BY <2>1, <2>2, <2>3, <2>8 DEF IInv, TypeOK, tokenFiles
    <2>10. Putting'
      BY <2>1, <2>4 DEF IInv, Putting, Ingesting
    <2>11. \A e \in Daemons, u \in Tasks : Writing(e, u)' =>
             Writing(e, u) \/ (e = d /\ u = t)
      BY <2>4 DEF Writing
    <2>12. Whole'
      <3>1. \A c \in Contents : blobs'[c] # None => blobs'[c] = c
        BY <2>1 DEF IInv, Whole
      <3>2. \A e \in Daemons, u \in Tasks : Writing(e, u)' => TempOf(e, u)' \in DOMAIN blobTemp'
        BY <2>5, <2>7, <2>8, <2>11 DEF own
      <3>3. \A e \in Daemons, u \in Tasks :
              put'[e][u].pc = "rename" => Writing(e, u) /\ put[e][u].pc = "rename"
        BY <2>4, <2>6 DEF Writing
      <3>4. \A e \in Daemons, u \in Tasks : put'[e][u].pc = "rename" =>
              blobTemp'[TempOf(e, u)'] = put'[e][u].content
        BY <2>4, <2>5, <2>7, <2>8, <3>3 DEF IInv, Whole
      <3>5. \A e \in Daemons, u \in Tasks : put'[e][u].pc \in {"verify", "commit"} =>
              blobs'[put'[e][u].content] # None
        BY <2>1, <2>4, <2>6 DEF IInv, Whole
      <3> QED BY <3>1, <3>2, <3>4, <3>5 DEF Whole
    <2>13. RowBacked'
      BY <2>1, <2>5, <2>7, <2>11 DEF IInv, RowBacked, own
    <2> QED BY <2>1, <2>9, <2>10, <2>12, <2>13, TokensKept DEF IInv
  <1> QED BY <1>1, <1>2

\* The call fills the file that only it writes.
LEMMA WriteBlobStep ==
  ASSUME IInv, NEW d \in Daemons, NEW t \in Tasks, WriteBlob(d, t)
  PROVE  IInv'
  <1> DEFINE own == TempOf(d, t)
  <1>1. /\ blobTemp' = [blobTemp EXCEPT ![own] = put[d][t].content]
        /\ SetPut(d, t, "rename") /\ put[d][t].pc = "write"
        /\ UNCHANGED <<tokenFiles, daemon, blobs, rows, starts>>
    BY DEF WriteBlob
  <1> put[d][t] \in PutCall
    BY DEF IInv, TypeOK
  <1>2. /\ put' \in [Daemons -> [Tasks -> PutCall]]
        /\ put'[d][t] = [put[d][t] EXCEPT !.pc = "rename"]
        /\ \A e \in Daemons, u \in Tasks : <<e, u>> # <<d, t>> => put'[e][u] = put[e][u]
    BY <1>1, SetPutType DEF IInv
  <1>3. \A e \in Daemons, u \in Tasks :
          /\ put'[e][u].content = put[e][u].content
          /\ put'[e][u].sequence = put[e][u].sequence
          /\ <<e, u>> # <<d, t>> => put'[e][u].pc = put[e][u].pc
    BY <1>2 DEF PutCall
  <1>4. \A e \in Daemons, u \in Tasks : TempOf(e, u)' = TempOf(e, u)
    BY <1>1, <1>3 DEF TempOf
  <1>5. put'[d][t].pc = "rename" /\ Writing(d, t)
    BY <1>1, <1>2 DEF PutCall, Writing
  <1>6. \A e \in Daemons, u \in Tasks : Writing(e, u)' = Writing(e, u)
    BY <1>3, <1>5 DEF Writing
  <1>7. \A e \in Daemons, u \in Tasks : Writing(e, u) =>
          TempOf(e, u) \in DOMAIN blobTemp /\ (TempOf(e, u) = own => e = d /\ u = t)
    BY <1>5 DEF IInv, Whole, RowBacked
  <1> HIDE DEF own
  <1>8. DOMAIN blobTemp' = DOMAIN blobTemp
        /\ \A f \in DOMAIN blobTemp :
             blobTemp'[f] = IF f = own THEN put[d][t].content ELSE blobTemp[f]
    BY <1>1
  <1>9. TypeOK'
    BY <1>1, <1>2, <1>8 DEF IInv, TypeOK, tokenFiles
  <1>10. Putting'
    BY <1>1, <1>3 DEF IInv, Putting, Ingesting
  <1>11. Whole'
    <2>1. \A c \in Contents : blobs'[c] # None => blobs'[c] = c
      BY <1>1 DEF IInv, Whole
    <2>2. \A e \in Daemons, u \in Tasks : Writing(e, u)' => TempOf(e, u)' \in DOMAIN blobTemp'
      BY <1>4, <1>6, <1>7, <1>8
    <2>3. \A e \in Daemons, u \in Tasks : put'[e][u].pc = "rename" =>
            Writing(e, u) /\ (<<e, u>> = <<d, t>> \/ put[e][u].pc = "rename")
      BY <1>3, <1>5 DEF Writing
    <2>4. \A e \in Daemons, u \in Tasks : put'[e][u].pc = "rename" =>
            blobTemp'[TempOf(e, u)'] = put'[e][u].content
      BY <1>3, <1>4, <1>7, <1>8, <2>3 DEF IInv, Whole, own
    <2>5. \A e \in Daemons, u \in Tasks : put'[e][u].pc \in {"verify", "commit"} =>
            blobs'[put'[e][u].content] # None
      BY <1>1, <1>3, <1>5 DEF IInv, Whole
    <2> QED BY <2>1, <2>2, <2>4, <2>5 DEF Whole
  <1>12. RowBacked'
    BY <1>1, <1>4, <1>6 DEF IInv, RowBacked
  <1> QED BY <1>1, <1>9, <1>10, <1>11, <1>12, TokensKept DEF IInv

\* The blob gets its name when it is whole; the file that is gone was the
\* call's own.
LEMMA RenameBlobStep ==
  ASSUME IInv, NEW d \in Daemons, NEW t \in Tasks, RenameBlob(d, t)
  PROVE  IInv'
  <1> DEFINE own == TempOf(d, t)
             content == put[d][t].content
  <1>1. /\ blobs' = [blobs EXCEPT ![content] = blobTemp[own]]
        /\ blobTemp' = [f \in DOMAIN blobTemp \ {own} |-> blobTemp[f]]
        /\ SetPut(d, t, "verify") /\ put[d][t].pc = "rename"
        /\ UNCHANGED <<tokenFiles, daemon, rows, starts>>
    BY DEF RenameBlob
  <1>2. content \in Contents /\ put[d][t] \in PutCall /\ blobTemp[own] = content
    BY <1>1 DEF IInv, TypeOK, Putting, Whole
  <1>3. /\ put' \in [Daemons -> [Tasks -> PutCall]]
        /\ put'[d][t] = [put[d][t] EXCEPT !.pc = "verify"]
        /\ \A e \in Daemons, u \in Tasks : <<e, u>> # <<d, t>> => put'[e][u] = put[e][u]
    BY <1>1, SetPutType DEF IInv
  <1>4. \A e \in Daemons, u \in Tasks :
          /\ put'[e][u].content = put[e][u].content
          /\ put'[e][u].sequence = put[e][u].sequence
          /\ <<e, u>> # <<d, t>> => put'[e][u].pc = put[e][u].pc
    BY <1>2, <1>3 DEF PutCall
  <1>5. \A e \in Daemons, u \in Tasks : TempOf(e, u)' = TempOf(e, u)
    BY <1>1, <1>4 DEF TempOf
  <1>6. put'[d][t].pc = "verify" /\ Writing(d, t)
    BY <1>1, <1>2, <1>3 DEF PutCall, Writing
  <1>7. \A e \in Daemons, u \in Tasks : Writing(e, u)' => Writing(e, u) /\ <<e, u>> # <<d, t>>
    BY <1>4, <1>6 DEF Writing
  <1>8. \A e \in Daemons, u \in Tasks : Writing(e, u)' =>
          TempOf(e, u) \in DOMAIN blobTemp /\ TempOf(e, u) # own
    BY <1>6, <1>7 DEF IInv, Whole, RowBacked
  <1> HIDE DEF own, content
  <1>9. DOMAIN blobTemp' = DOMAIN blobTemp \ {own}
        /\ \A f \in DOMAIN blobTemp : f # own => blobTemp'[f] = blobTemp[f]
    BY <1>1
  <1>10. /\ blobs' \in [Contents -> Contents \cup {None}]
         /\ \A c \in Contents : blobs'[c] = IF c = content THEN content ELSE blobs[c]
    BY <1>1, <1>2 DEF IInv, TypeOK
  <1>11. TypeOK'
    BY <1>1, <1>3, <1>9, <1>10 DEF IInv, TypeOK, tokenFiles
  <1>12. Putting'
    BY <1>1, <1>4, <1>6 DEF IInv, Putting, Ingesting
  <1>13. Whole'
    <2>1. \A c \in Contents : blobs'[c] # None => blobs'[c] = c
      BY <1>10 DEF IInv, Whole
    <2>2. \A e \in Daemons, u \in Tasks : Writing(e, u)' => TempOf(e, u)' \in DOMAIN blobTemp'
      BY <1>5, <1>8, <1>9
    <2>3. \A e \in Daemons, u \in Tasks : put'[e][u].pc = "rename" =>
            blobTemp'[TempOf(e, u)'] = put'[e][u].content
      <3> SUFFICES ASSUME NEW e \in Daemons, NEW u \in Tasks, put'[e][u].pc = "rename"
                   PROVE  blobTemp'[TempOf(e, u)'] = put'[e][u].content
        OBVIOUS
      <3>1. Writing(e, u)'
        BY DEF Writing
      <3>2. put[e][u].pc = "rename"
        BY <1>4, <1>6
      <3> QED BY <1>4, <1>5, <1>8, <1>9, <3>1, <3>2 DEF IInv, Whole
    <2>4. \A e \in Daemons, u \in Tasks : put'[e][u].pc \in {"verify", "commit"} =>
            blobs'[put'[e][u].content] # None
      <3> SUFFICES ASSUME NEW e \in Daemons, NEW u \in Tasks,
                          put'[e][u].pc \in {"verify", "commit"}
                   PROVE  blobs'[put'[e][u].content] # None
        OBVIOUS
      <3>1. content # None
        BY <1>2, StartupAssumption
      <3>2. CASE <<e, u>> = <<d, t>>
        BY <1>2, <1>4, <1>10, <3>1, <3>2 DEF content
      <3>3. CASE <<e, u>> # <<d, t>>
        <4>1. put[e][u].content \in Contents /\ blobs[put[e][u].content] # None
          BY <1>4, <3>3 DEF IInv, Putting, Whole
        <4> QED BY <1>4, <1>10, <3>1, <4>1
      <3> QED BY <3>2, <3>3
    <2> QED BY <2>1, <2>2, <2>3, <2>4 DEF Whole
  <1>14. RowBacked'
    <2>1. \A c \in rows' : blobs'[c] = c
      BY <1>1, <1>10 DEF IInv, TypeOK, RowBacked
    <2> QED BY <2>1, <1>5, <1>7 DEF IInv, RowBacked
  <1> QED BY <1>1, <1>11, <1>12, <1>13, <1>14, TokensKept DEF IInv

\* A blob that is not its content's ends the call.
LEMMA VerifyBlobStep ==
  ASSUME IInv, NEW d \in Daemons, NEW t \in Tasks, VerifyBlob(d, t)
  PROVE  IInv'
  <1> DEFINE content == put[d][t].content
  <1>1. /\ put[d][t].pc = "verify" /\ put[d][t] \in PutCall /\ content \in Contents
        /\ Ingesting(d) /\ blobs[content] # None
        /\ UNCHANGED <<tokenFiles, daemon, blobFiles, starts>>
    BY DEF VerifyBlob, IInv, TypeOK, Putting, Whole
  <1>2. CASE blobs[content] = content
    <2> DEFINE call == [put[d][t] EXCEPT !.pc = "commit"]
    <2>1. put' = [put EXCEPT ![d][t] = call]
      BY <1>2 DEF VerifyBlob, IInv, TypeOK
    <2>2. call \in PutCall /\ call.pc = "commit" /\ call.content = content
      BY <1>1 DEF PutCall
    <2> HIDE DEF call
    <2>3. /\ put' \in [Daemons -> [Tasks -> PutCall]] /\ put'[d][t] = call
          /\ \A e \in Daemons, u \in Tasks : <<e, u>> # <<d, t>> => put'[e][u] = put[e][u]
      BY <2>1, <2>2 DEF IInv, TypeOK
    <2>4. TypeOK'
      BY <1>1, <2>3 DEF IInv, TypeOK, tokenFiles, blobFiles
    <2>5. Ingesting(d)'
      BY <1>1 DEF Ingesting
    <2>6. Putting' /\ Whole' /\ RowBacked'
      BY <1>1, <2>2, <2>3, <2>5, GoOnStep
    <2> QED BY <1>1, <2>4, <2>6, TokensKept DEF IInv
  <1>3. CASE blobs[content] # content
    <2>1. put' = [put EXCEPT ![d][t] = NoPut] /\ UNCHANGED <<blobs, blobTemp, rows>>
      BY <1>1, <1>3 DEF VerifyBlob, IInv, TypeOK, blobFiles
    <2>2. rows \subseteq Contents /\ \A c \in rows : blobs[c] = c
      BY DEF IInv, TypeOK, RowBacked
    <2> QED BY <1>1, <2>1, <2>2, EndStep
  <1> QED BY <1>2, <1>3

\* The row is committed for a blob that is there, whole.
LEMMA CommitRowStep ==
  ASSUME IInv, NEW d \in Daemons, NEW t \in Tasks, CommitRow(d, t)
  PROVE  IInv'
  <1>1. put[d][t].content \in Contents /\ blobs[put[d][t].content] = put[d][t].content
    BY DEF CommitRow, IInv, Putting, Whole
  <1>2. rows' \subseteq Contents /\ \A c \in rows' : blobs[c] = c
    BY <1>1 DEF CommitRow, IInv, TypeOK, RowBacked
  <1> QED BY <1>2, EndStep DEF CommitRow

-----------------------------------------------------------------------------
(***************************************************************************)
(* The theorems.                                                           *)
(***************************************************************************)
\* IInv is inductive.
LEMMA NextIInv == IInv /\ [Next]_vars => IInv'
  <1> SUFFICES ASSUME IInv, [Next]_vars PROVE IInv'
    OBVIOUS
  <1>1. ASSUME NEW d \in Daemons, NEW pid \in Pids, Start(d, pid) PROVE IInv'
    BY <1>1, StartStep
  <1>2. ASSUME NEW d \in Daemons, Provision(d) PROVE IInv'
    BY <1>2, CheckStep, ReadStep, CreateStep, WriteStep, LinkStep, RemoveStep, BindStep
    DEF Provision
  <1>3. ASSUME NEW d \in Daemons, Crash(d) PROVE IInv'
    BY <1>3, ExitStep DEF Crash
  <1>4. ASSUME NEW d \in Daemons, NEW t \in Tasks, Put(d, t) PROVE IInv'
    BY <1>4, StartPutStep, ExamineStep, CreateBlobStep, WriteBlobStep, RenameBlobStep,
       VerifyBlobStep, CommitRowStep DEF Put
  <1>5. CASE UNCHANGED vars
    <2>1. TypeOK'
      BY <1>5 DEF IInv, TypeOK, vars, tokenFiles, blobFiles
    <2>2. Processes' /\ Provisioned'
      BY <1>5, TokensKept DEF vars
    <2>3. Putting' /\ Whole' /\ RowBacked'
      BY <1>5, PutsKept DEF vars, Ingesting
    <2> QED BY <2>1, <2>2, <2>3 DEF IInv
  <1> QED BY <1>1, <1>2, <1>3, <1>4, <1>5 DEF Next

LEMMA Invariance == Spec => []IInv
  BY InitIInv, NextIInv, PTL DEF Spec

\* The variables keep their types, for any number of daemons, process ids,
\* tasks, contents and starts.
THEOREM TypeCorrect == Spec => []TypeOK
  <1>1. IInv => TypeOK
    BY DEF IInv
  <1> QED BY <1>1, Invariance, PTL

\* A daemon that ingests or listens has the token that the file holds, which
\* is one whole token: provision_local_token with its racing processes, left
\* temporary files and crashes.
THEOREM TokenIsShared == Spec => []TokenShared
  <1>1. IInv => TokenShared
    BY DEF IInv, Processes, Provisioned, Ingesting, TokenShared
  <1> QED BY <1>1, Invariance, PTL

\* A committed row has its whole blob, and no two calls of BlobStore::put
\* share a temporary file, even of processes with the same id.
THEOREM RowsAreBacked == Spec => []RowBacked
  <1>1. IInv => RowBacked
    BY DEF IInv
  <1> QED BY <1>1, Invariance, PTL
=============================================================================

------------------------------ MODULE RemoteFS ------------------------------
(***************************************************************************)
(* The file systems under the storage: storage/localfs.go, sftpfs.go,      *)
(* smbfs.go, webdavfs.go, behind the interface of fs.go.                   *)
(*                                                                         *)
(* Processes are goroutines that call the file system.  A call is made of  *)
(* the requests the code sends, one step each; between them others run,    *)
(* and the program may crash.  A request may fail before or after it took  *)
(* effect (the reply is lost), and a write may fail half way.  Content is  *)
(* whole or torn; directories, permissions and path syntax are left out.   *)
(***************************************************************************)
EXTENDS Integers, FiniteSets

CONSTANTS Proc,        \* calling goroutines
          Path,        \* files
          Backend,     \* a subset of the file systems
          MaxRetries,  \* config.MaxRetries
          MaxCalls,    \* bound on the calls of all processes
          MaxFaults    \* bound on failing requests

ASSUME RemoteAssumption ==
    /\ Backend \subseteq {"local", "sftp", "smb", "webdav"}
    /\ MaxRetries \in Nat /\ MaxCalls \in Nat /\ MaxFaults \in Nat

VARIABLES backend,  \* the file system in use
          files,    \* the content of every file
          closed,   \* fs.closed
          closing,  \* a caller of Close: "no", "waiting", "done"
          mu,       \* who holds fs.mu in connect
          job,      \* the call of a process
          pc,       \* the request it makes next
          tries,    \* failed attempts of that request
          conns,    \* its open connections
          result,   \* what its last call returned
          calls, faults, crashed,
          placed,   \* history: the data of a process was moved to its target
          loose,    \* history: paths written in place, or through one temporary file by two
          leaked    \* history: processes that failed to remove their temporary file

fsVars == <<backend, files, closed, closing, mu>>
procVars == <<job, pc, tries, conns, result>>
history == <<placed, loose, leaked>>
vars == <<fsVars, procVars, calls, faults, crashed, history>>

None == "none"
Absent == "absent"
Torn == "torn"
NoJob == [op |-> "none", path |-> None]

\* Names of goroutines, files and temporary files are told apart, and data of a goroutine
\* from the other contents.
ASSUME NamesAssumption ==
    /\ Proc \cap ({None, Absent, Torn, "old"} \cup Path) = {}
    /\ \A x \in Proc \cup Path : <<"tmp", x>> \notin Path

\* Temporary files: path + ".tmp." + generateID(), one for each call, and the path + ".tmp"
\* that webdavFile uses.
TempOf(p) ==
    IF job[p].op = "put" THEN <<"tmp", job[p].path>> ELSE <<"tmp", p>>
File == Path \cup {<<"tmp", x>> : x \in Proc \cup Path}
Content == Proc \cup {"old", Torn, Absent}

Connects == backend \in {"sftp", "smb"}

Init ==
    /\ backend \in Backend
    /\ files \in {[f \in File |-> IF f \in Path THEN c ELSE Absent] : c \in {"old", Absent}}
    /\ closed = FALSE /\ closing = "no" /\ mu = None
    /\ job = [p \in Proc |-> NoJob] /\ pc = [p \in Proc |-> "idle"]
    /\ tries = [p \in Proc |-> 0] /\ conns = [p \in Proc |-> 0]
    /\ result = [p \in Proc |-> "none"]
    /\ calls = 0 /\ faults = 0 /\ crashed = FALSE
    /\ placed = [p \in Proc |-> FALSE] /\ loose = {} /\ leaked = {}

----------------------------------------------------------------------------
(* Steps of a call.                                                         *)

At(p, step) == pc[p] = step /\ ~crashed
Goto(p, step) == pc' = [pc EXCEPT ![p] = step] /\ tries' = [tries EXCEPT ![p] = 0]

\* The call is over (or goes on to close its connection) with a result.
Returns(p, r, step) == Goto(p, step) /\ result' = [result EXCEPT ![p] = r]

Fault == faults < MaxFaults /\ faults' = faults + 1

\* Where a failed call goes: whoever has a connection closes it.
Failed == IF Connects THEN "disconnect" ELSE "idle"

Quiet == UNCHANGED <<backend, closed, closing, mu, job, conns, calls, crashed>>

\* A request with the effect that files become f: it succeeds and the call goes on at ok,
\* or an error is returned, with or without the effect, and the call goes on at err.
Request(p, f, ok, err) ==
    \/ files' = f /\ Goto(p, ok) /\ UNCHANGED <<faults, result>>
    \/ Fault /\ files' \in {files, f} /\ Returns(p, "error", err)

\* webdavfs.go withRetry: an error of the network is tried again, any other is final.
withRetry(p, f, final, ok, err) ==
    \/ ~final /\ files' = f /\ Goto(p, ok) /\ UNCHANGED <<faults, result>>
    \/ final /\ UNCHANGED <<files, faults>> /\ Returns(p, "error", err)
    \/ /\ Fault /\ files' \in (IF final THEN {files} ELSE {files, f})
       /\ \/ /\ tries[p] < MaxRetries
             /\ tries' = [tries EXCEPT ![p] = @ + 1] /\ UNCHANGED <<pc, result>>
          \/ tries[p] = MaxRetries /\ Returns(p, "error", err)

\* What writing data does to a file, and what it may do if it fails.
Written(f, c) == [files EXCEPT ![f] = c]

\* A write that leaves part of the data, or all of it, and fails.
Tears(p, f, err) ==
    /\ Fault
    /\ files' \in {files, Written(f, Torn), Written(f, p)}
    /\ Returns(p, "error", err)

\* A temporary file takes the place of its target, unless it is not there.
Moved(p) == [files EXCEPT ![job[p].path] = files[TempOf(p)], ![TempOf(p)] = Absent]
Moves(p) ==
    placed' = [placed EXCEPT ![p] = @ \/ (files' # files /\ files[TempOf(p)] = p)]

----------------------------------------------------------------------------
(* Calls.                                                                   *)

FirstStep(op) ==
    IF Connects THEN "connect"
    ELSE IF op \in {"remove", "read"} THEN "act"
    ELSE IF op = "put" \/ backend = "local" THEN "create" ELSE "write"

\* WriteFile and SafeWriteFile ("write"), Create ("put"), Remove, ReadFile and the like, and
\* Batch, which is of interest where there are connections.
Call(p, op, path) ==
    /\ At(p, "idle") /\ calls < MaxCalls /\ calls' = calls + 1
    /\ job' = [job EXCEPT ![p] = [op |-> op, path |-> path]]
    /\ Returns(p, "none", FirstStep(op))
    /\ placed' = [placed EXCEPT ![p] = FALSE]
    /\ files' = [files EXCEPT ![<<"tmp", p>>] = Absent]  \* a new name
    /\ leaked' = leaked \ {p}
    /\ op = "batch" => Connects
    /\ loose' = IF \/ op = "batch"
                   \/ op = "put" /\ backend # "webdav"
                   \/ op = "put" /\ \E q \in Proc \ {p} : pc[q] # "idle" /\ job[q] = job'[p]
                THEN loose \cup {path} ELSE loose
    /\ UNCHANGED <<backend, closed, closing, mu, conns, faults, crashed>>

\* Mutant of Lock: Close is not noticed.
LockUnchecked(p) ==
    /\ pc[p] \in {"connect", "connect2"} /\ ~crashed
    /\ mu = None
    /\ mu' = p /\ Goto(p, IF pc[p] = "connect" THEN "dial" ELSE "dial2") /\ UNCHANGED result
    /\ UNCHANGED <<backend, files, closed, closing, job, conns, calls, faults, crashed, history>>

\* connect: fs.mu is taken, and a closed file system refuses.
Lock(p) ==
    /\ pc[p] \in {"connect", "connect2"} /\ ~crashed
    /\ mu = None
    /\ \/ ~closed /\ mu' = p /\ Goto(p, IF pc[p] = "connect" THEN "dial" ELSE "dial2") /\ UNCHANGED result
       \/ closed /\ mu' = None /\ Returns(p, "error", IF pc[p] = "connect" THEN "idle" ELSE "disconnect")
    /\ UNCHANGED <<backend, files, closed, closing, job, conns, calls, faults, crashed, history>>

AfterConnect(p) ==
    CASE job[p].op = "write" -> IF backend = "smb" THEN "connect2" ELSE "create"
      [] job[p].op = "put" -> "create"
      [] job[p].op = "batch" -> "batch"
      [] OTHER -> "act"

\* connect: MaxRetries further attempts while fs.mu is held.
Dial(p) ==
    /\ pc[p] \in {"dial", "dial2"} /\ ~crashed
    /\ \/ /\ conns' = [conns EXCEPT ![p] = @ + 1] /\ mu' = None
          /\ Goto(p, IF pc[p] = "dial" THEN AfterConnect(p) ELSE "write")
          /\ UNCHANGED <<faults, result>>
       \/ /\ Fault /\ tries[p] < MaxRetries
          /\ tries' = [tries EXCEPT ![p] = @ + 1] /\ UNCHANGED <<pc, result, conns, mu>>
       \/ /\ Fault /\ tries[p] = MaxRetries
          /\ mu' = None /\ Returns(p, "error", IF pc[p] = "dial" THEN "idle" ELSE "disconnect")
          /\ UNCHANGED conns
    /\ UNCHANGED <<backend, files, closed, closing, job, calls, crashed, history>>

\* disconnect.
Disconnect(p) ==
    /\ At(p, "disconnect")
    /\ conns' = [conns EXCEPT ![p] = @ - 1]
    /\ pc' = [pc EXCEPT ![p] = "idle"]
    /\ result' = [result EXCEPT ![p] = IF @ = "none" THEN "ok" ELSE @]
    /\ UNCHANGED <<fsVars, job, tries, calls, faults, crashed, history>>

Done == IF Connects THEN "disconnect" ELSE "done"

\* Without a connection the call just returns.
Finish(p) ==
    /\ At(p, "done")
    /\ Returns(p, IF result[p] = "none" THEN "ok" ELSE result[p], "idle")
    /\ UNCHANGED <<fsVars, job, conns, calls, faults, crashed, history>>

\* What the one request of a call does: Remove removes the file; ReadFile, Stat, Exists,
\* ReadDir and MkdirAll change no content.
Effect(p) == IF job[p].op = "remove" THEN Written(job[p].path, Absent) ELSE files
Missing(p) == files[job[p].path] = Absent

Acts(p) ==
    /\ At(p, "act")
    /\ \/ ~Missing(p) /\ Request(p, Effect(p), Done, Failed)
       \/ Missing(p) /\ Returns(p, "error", Failed) /\ UNCHANGED <<files, faults>>
    /\ Quiet /\ UNCHANGED history

localAct(p) == backend = "local" /\ Acts(p)
sftpAct(p) == backend = "sftp" /\ Acts(p)
smbAct(p) == backend = "smb" /\ Acts(p)

webdavAct(p) ==
    /\ backend = "webdav" /\ At(p, "act")
    /\ withRetry(p, Effect(p), Missing(p), Done, Failed)
    /\ Quiet /\ UNCHANGED history

\* Batch: operations on one connection (two of them here) until one fails or there are no
\* more.  Its WriteFile, unlike that of the file system, writes in place.
Batches(p) ==
    /\ pc[p] \in {"batch", "batch2"} /\ ~crashed
    /\ LET next == IF pc[p] = "batch" THEN "batch2" ELSE "disconnect"
       IN  \/ Goto(p, "disconnect") /\ UNCHANGED <<files, faults, result>>
           \/ ~Missing(p) /\ Request(p, Written(job[p].path, Absent), next, "disconnect")
           \/ files' = Written(job[p].path, p) /\ Goto(p, next) /\ UNCHANGED <<faults, result>>
           \/ Tears(p, job[p].path, "disconnect")
    /\ Quiet /\ UNCHANGED history

sftpBatch(p) == backend = "sftp" /\ Batches(p)
smbBatch(p) == backend = "smb" /\ Batches(p)

----------------------------------------------------------------------------
(* Writing through a temporary file.                                        *)

\* LocalFS.SafeWriteFile: CreateTemp, Write, Sync and Chmod, any of which may fail; the
\* deferred function removes what there is.
localWrite(p) ==
    /\ backend = "local" /\ job[p].op = "write"
    /\ \/ At(p, "create") /\ (\/ files' = Written(TempOf(p), Torn) /\ Goto(p, "write") /\ UNCHANGED <<faults, result>>
                              \/ Fault /\ UNCHANGED files /\ Returns(p, "error", "idle"))
       \/ At(p, "write") /\ (\/ files' = Written(TempOf(p), p) /\ Goto(p, "sync") /\ UNCHANGED <<faults, result>>
                             \/ Tears(p, TempOf(p), "remove"))
       \/ At(p, "sync") /\ Request(p, files, "rename", "remove")
    /\ Quiet /\ UNCHANGED history

\* Mutant of sftpWrite: the count that Write returns is not compared with the length.
sftpWriteUnchecked(p) ==
    /\ backend = "sftp" /\ job[p].op = "write"
    /\ \/ At(p, "create") /\ Request(p, Written(TempOf(p), Torn), "write", "disconnect")
       \/ At(p, "write") /\ (\/ files' \in {Written(TempOf(p), p), Written(TempOf(p), Torn)}
                                /\ Goto(p, "rename") /\ UNCHANGED <<faults, result>>
                             \/ Tears(p, TempOf(p), "remove"))
    /\ leaked' = IF pc'[p] = "disconnect" /\ files'[TempOf(p)] # Absent THEN leaked \cup {p} ELSE leaked
    /\ Quiet /\ UNCHANGED <<placed, loose>>

\* SFTPFS.SafeWriteFile: Create and Write on the connection of the batch; the temporary
\* file is removed if the write fails or is short, but not if Create seems to fail.
sftpWrite(p) ==
    /\ backend = "sftp" /\ job[p].op = "write"
    /\ \/ At(p, "create") /\ Request(p, Written(TempOf(p), Torn), "write", "disconnect")
       \/ At(p, "write") /\ (\/ files' = Written(TempOf(p), p) /\ Goto(p, "rename") /\ UNCHANGED <<faults, result>>
                             \/ Tears(p, TempOf(p), "remove"))
    /\ leaked' = IF pc'[p] = "disconnect" /\ files'[TempOf(p)] # Absent THEN leaked \cup {p} ELSE leaked
    /\ Quiet /\ UNCHANGED <<placed, loose>>

\* SMBFS.SafeWriteFile: the data goes over a second connection, closed at once; if the
\* write fails the temporary file stays.
smbWrite(p) ==
    /\ backend = "smb" /\ job[p].op = "write"
    /\ At(p, "write")
    /\ \/ /\ files' = Written(TempOf(p), p) /\ Goto(p, "rename") /\ UNCHANGED <<faults, result>>
       \/ Tears(p, TempOf(p), "disconnect")
    /\ conns' = [conns EXCEPT ![p] = @ - 1]
    /\ leaked' = IF pc'[p] = "disconnect" /\ files'[TempOf(p)] # Absent THEN leaked \cup {p} ELSE leaked
    /\ UNCHANGED <<backend, closed, closing, mu, job, calls, crashed, placed, loose>>

\* WebDAVFS.SafeWriteFile and webdavFile.Close: Write with retries; if they are used up
\* the temporary file stays.
webdavWrite(p) ==
    /\ backend = "webdav"
    /\ job[p].op \in {"write", "put"} /\ At(p, "write")
    /\ \/ files' = Written(TempOf(p), p) /\ Goto(p, "rename") /\ UNCHANGED <<faults, result>>
       \/ Tears(p, TempOf(p), "idle") /\ tries[p] = MaxRetries
       \/ /\ Fault /\ tries[p] < MaxRetries
          /\ files' \in {files, Written(TempOf(p), Torn), Written(TempOf(p), p)}
          /\ tries' = [tries EXCEPT ![p] = @ + 1] /\ UNCHANGED <<pc, result>>
    /\ leaked' = IF pc'[p] = "idle" /\ files'[TempOf(p)] # Absent THEN leaked \cup {p} ELSE leaked
    /\ Quiet /\ UNCHANGED <<placed, loose>>

\* Mutant of Rename: an error of the request is not returned.
RenameLenient(p) ==
    /\ At(p, "rename")
    /\ \/ files' = Moved(p) /\ UNCHANGED faults
       \/ Fault /\ UNCHANGED files
    /\ Goto(p, Done) /\ UNCHANGED result
    /\ Moves(p) /\ Quiet /\ UNCHANGED <<loose, leaked>>

\* The rename that puts the data in place.  A server may refuse to replace a file, and a
\* WebDAV request whose reply was lost is sent again and then finds nothing to rename.
Rename(p) ==
    /\ At(p, "rename")
    /\ LET gone == files[TempOf(p)] = Absent
       IN  IF backend = "webdav" THEN withRetry(p, Moved(p), gone, Done, "remove")
           ELSE \/ ~gone /\ Request(p, Moved(p), Done, "remove")
                \/ /\ Connects /\ files[job[p].path] # Absent
                   /\ Returns(p, "error", "remove") /\ UNCHANGED <<files, faults>>
    /\ Moves(p) /\ Quiet /\ UNCHANGED <<loose, leaked>>

\* Mutant of RemoveTemp: it goes on until there was something to remove.
RemoveTempInsists(p) ==
    /\ At(p, "remove") /\ files[TempOf(p)] # Absent
    /\ Goto(p, Failed) /\ UNCHANGED result
    /\ \/ files' = Written(TempOf(p), Absent) /\ UNCHANGED <<faults, leaked>>
       \/ Fault /\ UNCHANGED files /\ leaked' = leaked \cup {p}
    /\ Quiet /\ UNCHANGED <<placed, loose>>

\* The temporary file of a failed call is removed, or at least the attempt is made.
RemoveTemp(p) ==
    /\ At(p, "remove")
    /\ Goto(p, Failed) /\ UNCHANGED result
    /\ \/ files' = Written(TempOf(p), Absent) /\ UNCHANGED <<faults, leaked>>
       \/ Fault /\ UNCHANGED files /\ leaked' = leaked \cup {p}
    /\ Quiet /\ UNCHANGED <<placed, loose>>

----------------------------------------------------------------------------
(* Files that are open.                                                     *)

\* Create truncates the file itself; if it fails, the connection is closed (to: Failed).
Creates(p, to) ==
    /\ job[p].op = "put" /\ At(p, "create")
    /\ Request(p, Written(job[p].path, Torn), "opened", to)
    /\ Quiet /\ UNCHANGED history

localCreate(p) == backend = "local" /\ Creates(p, Failed)
smbCreate(p) == backend = "smb" /\ Creates(p, Failed)

\* Mutant of sftpCreate: the connection is kept if the file cannot be created.
sftpCreateKeeps(p) == backend = "sftp" /\ Creates(p, "idle")

sftpCreate(p) == backend = "sftp" /\ Creates(p, Failed)

\* Create of WebDAV makes a buffer, and asks the server nothing.
webdavCreate(p) ==
    /\ backend = "webdav" /\ job[p].op = "put" /\ At(p, "create")
    /\ Goto(p, "opened") /\ UNCHANGED <<files, faults, result>>
    /\ Quiet /\ UNCHANGED history

\* Write to an open file and its Close, which closes the connection too.
CloseFile(p) ==
    /\ backend # "webdav" /\ job[p].op = "put" /\ At(p, "opened")
    /\ \/ files' = Written(job[p].path, p) /\ Goto(p, Done) /\ UNCHANGED <<faults, result>>
       \/ Tears(p, job[p].path, Failed)
    /\ Quiet /\ UNCHANGED history

\* Close of a WebDAV file goes on as webdavWrite does.
webdavCloseFile(p) ==
    /\ backend = "webdav" /\ job[p].op = "put" /\ At(p, "opened")
    /\ Goto(p, "write") /\ UNCHANGED <<files, faults, result>>
    /\ Quiet /\ UNCHANGED history

----------------------------------------------------------------------------
\* FileSystem.Close of the remote file systems: it takes fs.mu, and closes nothing.
WantClose ==
    /\ closing = "no" /\ ~crashed /\ backend # "local"
    /\ closing' = "waiting"
    /\ UNCHANGED <<backend, files, closed, mu, procVars, calls, faults, crashed, history>>

Close ==
    /\ closing = "waiting" /\ mu = None /\ ~crashed
    /\ closed' = TRUE /\ closing' = "done"
    /\ UNCHANGED <<backend, files, mu, procVars, calls, faults, crashed, history>>

\* The program ends in the middle of its calls.
Crash ==
    /\ ~crashed /\ crashed' = TRUE
    /\ pc' = [p \in Proc |-> "idle"] /\ conns' = [p \in Proc |-> 0] /\ mu' = None
    /\ closing' = "done"
    /\ leaked' = Proc
    /\ UNCHANGED <<backend, files, closed, job, tries, result, calls, faults, placed, loose>>

Step(p) ==
    \/ Lock(p) \/ Dial(p) \/ Disconnect(p) \/ Finish(p)
    \/ localAct(p) \/ sftpAct(p) \/ smbAct(p) \/ webdavAct(p)
    \/ localWrite(p) \/ sftpWrite(p) \/ smbWrite(p) \/ webdavWrite(p)
    \/ Rename(p) \/ RemoveTemp(p)
    \/ localCreate(p) \/ sftpCreate(p) \/ smbCreate(p) \/ webdavCreate(p)
    \/ CloseFile(p) \/ webdavCloseFile(p)
    \/ sftpBatch(p) \/ smbBatch(p)

Next ==
    \/ \E p \in Proc : Step(p)
    \/ \E p \in Proc, path \in Path, op \in {"write", "put", "remove", "read", "batch"} : Call(p, op, path)
    \/ WantClose \/ Close \/ Crash

Spec == Init /\ [][Next]_vars

\* Goroutines run, requests are answered or time out, and whoever waits for a mutex that
\* stays free gets it.
FairSpec ==
    /\ Spec
    /\ \A p \in Proc : WF_vars(Step(p))
    /\ WF_vars(Close)

----------------------------------------------------------------------------
(* Properties.                                                              *)

\* What the variables hold.
TypeOK ==
    /\ files \in [File -> Content]
    /\ conns \in [Proc -> 0..2] /\ tries \in [Proc -> 0..MaxRetries]
    /\ mu \in Proc \cup {None}
    /\ \A p \in Proc : mu = p <=> pc[p] \in {"dial", "dial2"}

\* SafeWriteFile is atomic on every file system: a target is never left or seen half
\* written, wherever a request fails or the program crashes.  Only files written in place
\* by Create or in a batch, or by two WebDAV files that share a temporary file, are not
\* protected.
NeverTorn == \A path \in Path \ loose : files[path] # Torn

\* SafeWriteFile that reports success has put its data in place.
SuccessIsPlaced ==
    \A p \in Proc : job[p].op = "write" /\ result[p] = "ok" => placed[p]

\* A process that is not in a call has no connection left open, whichever way its calls
\* ended, and never more than the two that SMB uses.
ConnectionsClosed == \A p \in Proc : pc[p] = "idle" => conns[p] = 0

\* No temporary file outlives its call, except where a write failed on SMB or WebDAV, the
\* removal itself failed, or the program crashed.
TempsRemoved ==
    \A p \in Proc \ leaked : pc[p] = "idle" => files[<<"tmp", p>>] = Absent

\* Once Close has returned, no connection is made.
NoConnectionAfterClose ==
    [][closed => \A p \in Proc : conns'[p] <= conns[p]]_vars

\* Every call returns, and Close does not wait for ever for a connect that is retrying.
CallsReturn ==
    /\ \A p \in Proc : pc[p] # "idle" ~> pc[p] = "idle"
    /\ (closing = "waiting") ~> (closing = "done")

\* A call leaves nothing behind, whichever of its requests failed: no lock, no connection
\* and no temporary file.
NothingLeft == TypeOK /\ ConnectionsClosed /\ TempsRemoved
=============================================================================

--------------------------- MODULE RemoteFSProofs ---------------------------
(***************************************************************************)
(* Theorems about RemoteFS, for any goroutines, files, file systems,       *)
(* retries, and any number of calls and faults: writes are atomic, a write *)
(* that reports success is in place, a call leaves nothing behind, and     *)
(* nobody connects after Close.                                            *)
(*                                                                         *)
(* None of this is inductive: what a rename puts in place was written      *)
(* requests before, by this goroutine or by another one that shares its    *)
(* temporary file.  The invariant says for each step of a call what it has *)
(* left in its temporary file, which connections and which lock it holds,  *)
(* and which calls write in place.                                         *)
(***************************************************************************)
EXTENDS RemoteFS, TLAPS

Operation == {"write", "put", "remove", "read", "batch"}
StepName == {"idle", "connect", "connect2", "dial", "dial2", "act", "batch", "batch2", "create",
             "write", "sync", "rename", "remove", "opened", "done", "disconnect"}
Tmp(x) == <<"tmp", x>>

RemoteType ==
    /\ backend \in {"local", "sftp", "smb", "webdav"}
    /\ files \in [File -> Content]
    /\ closed \in BOOLEAN /\ crashed \in BOOLEAN
    /\ mu \in Proc \cup {None}
    /\ job \in [Proc -> [op : Operation, path : Path] \cup {NoJob}]
    /\ pc \in [Proc -> StepName]
    /\ tries \in [Proc -> 0..MaxRetries]
    /\ conns \in [Proc -> 0..2]
    /\ result \in [Proc -> {"none", "ok", "error"}]
    /\ placed \in [Proc -> BOOLEAN]
    /\ loose \subseteq Path /\ leaked \subseteq Proc

\* The call writes a temporary file, and the target only by renaming it.
ThroughTemp(p) == job[p].op = "write" \/ (job[p].op = "put" /\ backend = "webdav")

\* The steps that a call of each kind makes on each file system.
StepFits(p) ==
    /\ pc[p] # "idle" => job[p] \in [op : Operation, path : Path]
    /\ pc[p] \in {"connect", "dial"} => Connects
    /\ pc[p] \in {"connect2", "dial2"} => backend = "smb" /\ job[p].op = "write"
    /\ pc[p] \in {"batch", "batch2"} => Connects /\ job[p].op = "batch"
    /\ pc[p] = "act" => job[p].op \in {"remove", "read"}
    /\ pc[p] = "opened" => job[p].op = "put"
    /\ pc[p] = "create" => job[p].op \in {"put", "write"}
    /\ pc[p] = "sync" => job[p].op = "write"
    /\ pc[p] \in {"write", "rename", "remove"} => ThroughTemp(p)
    /\ pc[p] = "done" => ~Connects
    /\ pc[p] = "disconnect" => Connects

\* The connections that are open at each step.
Open(p) ==
    IF ~Connects \/ pc[p] \in {"idle", "connect", "dial"} THEN 0
    ELSE IF backend = "smb" /\ pc[p] = "write" THEN 2 ELSE 1
HoldsFit(p) ==
    /\ conns[p] = Open(p)
    /\ mu = p <=> pc[p] \in {"dial", "dial2"}

\* The temporary file of the process itself is there only while it is at work on it, and
\* before the rename it holds all of the data (or, after a rename whose reply was lost,
\* nothing).
TempFits(p) ==
    /\ \/ p \in leaked
       \/ files[Tmp(p)] = Absent
       \/ job[p].op = "write" /\ pc[p] \in {"write", "sync", "rename", "remove"}
    /\ pc[p] \in {"sync", "rename"} /\ (job[p].op = "write" \/ job[p].path \notin loose)
         => files[TempOf(p)] \in {p, Absent}

\* Whoever writes in place has said so.
InPlaceIsLoose(p) ==
    pc[p] # "idle" /\ job[p].op \in {"put", "batch"} /\ ~ThroughTemp(p) => job[p].path \in loose

\* A write that goes on to report success has been moved to its target.
PlacedFits(p) ==
    /\ pc[p] = "remove" => result[p] = "error"
    /\ job[p].op = "write" =>
         /\ result[p] = "ok" => placed[p] = TRUE
         /\ pc[p] \in {"disconnect", "done"} /\ result[p] = "none" => placed[p] = TRUE

ProcInv(p) ==
    StepFits(p) /\ HoldsFit(p) /\ TempFits(p) /\ InPlaceIsLoose(p) /\ PlacedFits(p)

\* Files that share a temporary file are not protected.
SharedIsLoose ==
    \A p, q \in Proc :
        /\ p # q /\ pc[p] # "idle" /\ pc[q] # "idle"
        /\ job[p] = job[q] /\ job[p].op = "put"
        => job[p].path \in loose

RemoteInv ==
    /\ RemoteType
    /\ closed = TRUE => mu = None
    /\ SharedIsLoose
    /\ NeverTorn
    /\ \A p \in Proc : ProcInv(p)

----------------------------------------------------------------------------
(* Names and contents.                                                      *)

\* Temporary files are files, different ones for different names, and never targets.
LEMMA Temps ==
    /\ \A x \in Proc \cup Path : Tmp(x) \in File /\ Tmp(x) \notin Path
    /\ \A x, y \in Proc \cup Path : Tmp(x) = Tmp(y) => x = y
    /\ \A f \in File : f \in Path \/ \E x \in Proc \cup Path : f = Tmp(x)
    /\ Path \subseteq File
    /\ \A p \in Proc : p \notin Path
    BY NamesAssumption DEF Tmp, File

\* The data of a process are no other content.
LEMMA Contents ==
    /\ \A p \in Proc : p \in Content /\ p # Torn /\ p # Absent /\ p # None
    /\ Torn \in Content /\ Absent \in Content /\ Torn # Absent
    BY NamesAssumption DEF Content, Torn, Absent, None

\* The temporary file of a call is that of its process or that of its target.
LEMMA TempOfCall ==
    ASSUME NEW p \in Proc, RemoteType, job[p] \in [op : Operation, path : Path]
    PROVE  /\ job[p].path \in Path /\ job[p].op \in Operation
           /\ TempOf(p) = IF job[p].op = "put" THEN Tmp(job[p].path) ELSE Tmp(p)
           /\ TempOf(p) \in File /\ TempOf(p) \notin Path
    BY Temps DEF TempOf, Tmp

\* What a step of process p may change.
Frame(p) ==
    /\ RemoteType'
    /\ backend' = backend /\ job' = job /\ loose' = loose
    /\ \A q \in Proc \ {p} :
         /\ pc'[q] = pc[q] /\ conns'[q] = conns[q] /\ result'[q] = result[q]
         /\ placed'[q] = placed[q] /\ (q \in leaked' <=> q \in leaked)
    /\ mu' = mu \/ (mu = None /\ mu' = p) \/ (mu = p /\ mu' = None)
    /\ \A f \in File : f \notin {TempOf(p), job[p].path} => files'[f] = files[f]

\* What a step of p must establish.
Keeps(p) ==
    /\ Frame(p)
    /\ ProcInv(p)'
    /\ job[p].path \notin loose => files'[job[p].path] # Torn
    /\ closed' = TRUE => mu' = None

\* The rest of the invariant follows: the other processes are where they were, and the
\* temporary file they are about to rename is not the one p writes, unless it is shared.
LEMMA OthersKeep ==
    ASSUME RemoteInv, NEW p \in Proc, pc[p] # "idle", Keeps(p)
    PROVE  RemoteInv'
<1>1. /\ job[p] \in [op : Operation, path : Path] /\ job[p].path \in Path
      /\ RemoteType /\ RemoteType'
    BY TempOfCall DEF RemoteInv, ProcInv, StepFits, Keeps, Frame
<1>2. NeverTorn'
    <2> SUFFICES ASSUME NEW path \in Path, path \notin loose'
                 PROVE  files'[path] # Torn
        BY DEF NeverTorn
    <2>1. path \notin loose /\ files[path] # Torn /\ path \in File /\ path # TempOf(p)
        BY <1>1, TempOfCall, Temps DEF Keeps, Frame, RemoteInv, NeverTorn
    <2> QED
        BY <2>1 DEF Keeps, Frame
<1>3. SharedIsLoose'
    BY DEF Keeps, Frame, RemoteInv, SharedIsLoose
<1>4. ASSUME NEW q \in Proc, q # p
      PROVE  ProcInv(q)'
    <2>1. /\ pc'[q] = pc[q] /\ conns'[q] = conns[q] /\ result'[q] = result[q]
          /\ placed'[q] = placed[q] /\ (q \in leaked' <=> q \in leaked)
          /\ backend' = backend /\ job'[q] = job[q] /\ loose' = loose /\ ProcInv(q)
          /\ ThroughTemp(q)' = ThroughTemp(q) /\ Connects' = Connects
          /\ TempOf(q)' = TempOf(q)
        BY <1>4 DEF Keeps, Frame, RemoteInv, ThroughTemp, Connects, TempOf
    <2>2. StepFits(q)'
        BY <2>1 DEF ProcInv, StepFits
    <2>3. HoldsFit(q)'
        <3>1. Open(q)' = Open(q)
            BY <2>1 DEF Open
        <3>2. mu' = q <=> mu = q
            BY <1>4, Contents DEF Keeps, Frame, RemoteInv, RemoteType
        <3> QED
            BY <2>1, <3>1, <3>2 DEF ProcInv, HoldsFit
    <2>4. TempFits(q)'
        <3>1. files'[Tmp(q)] = files[Tmp(q)]
            <4>1. Tmp(q) \in File /\ Tmp(q) # Tmp(p) /\ Tmp(q) # Tmp(job[p].path) /\ Tmp(q) # job[p].path
                BY <1>1, <1>4, Temps
            <4> QED
                BY <1>1, <4>1, TempOfCall DEF Keeps, Frame
        <3>2. ASSUME pc[q] \in {"sync", "rename"}, job[q].op = "write" \/ job[q].path \notin loose
              PROVE  files'[TempOf(q)] = files[TempOf(q)]
            <4>1. job[q] \in [op : Operation, path : Path]
                BY <2>1, <3>2 DEF ProcInv, StepFits
            <4>2. TempOf(q) \in File /\ TempOf(q) # job[p].path
                BY <1>1, <4>1, TempOfCall
            <4>3. TempOf(q) # TempOf(p)
                <5>1. CASE job[q].op = "put" /\ job[p].op = "put"
                    <6>1. job[q] # job[p]
                        BY <1>4, <3>2, <5>1 DEF RemoteInv, SharedIsLoose
                    <6>2. job[q].path # job[p].path
                        BY <1>1, <4>1, <5>1, <6>1
                    <6> QED
                        BY <1>1, <4>1, <5>1, <6>2, TempOfCall, Temps
                <5>2. CASE ~(job[q].op = "put" /\ job[p].op = "put")
                    BY <1>1, <1>4, <4>1, <5>2, TempOfCall, Temps
                <5> QED
                    BY <5>1, <5>2
            <4> QED
                BY <4>2, <4>3 DEF Keeps, Frame
        <3> QED
            BY <2>1, <3>1, <3>2 DEF ProcInv, TempFits
    <2>5. InPlaceIsLoose(q)' /\ PlacedFits(q)'
        BY <2>1 DEF ProcInv, InPlaceIsLoose, PlacedFits
    <2> QED
        BY <2>2, <2>3, <2>4, <2>5 DEF ProcInv
<1> QED
    BY <1>1, <1>2, <1>3, <1>4 DEF RemoteInv, Keeps
----------------------------------------------------------------------------
(* Effects on files.                                                        *)

\* A file is written.
LEMMA WrittenFile ==
    ASSUME RemoteType, NEW f \in File, NEW c \in Content
    PROVE  /\ Written(f, c) \in [File -> Content] /\ Written(f, c)[f] = c
           /\ \A g \in File : g # f => Written(f, c)[g] = files[g]
    BY DEF RemoteType, Written

\* A request that fails may have written a file or not.
LEMMA MayBeWritten ==
    ASSUME RemoteType, NEW f \in File, NEW C \in SUBSET Content,
           files' = files \/ \E c \in C : files' = Written(f, c)
    PROVE  /\ files' \in [File -> Content] /\ files'[f] \in {files[f]} \cup C
           /\ \A g \in File : g # f => files'[g] = files[g]
    BY WrittenFile DEF RemoteType

\* A temporary file is renamed.
LEMMA MovedFile ==
    ASSUME RemoteType, NEW p \in Proc, job[p] \in [op : Operation, path : Path]
    PROVE  /\ Moved(p) \in [File -> Content]
           /\ Moved(p)[job[p].path] = files[TempOf(p)] /\ Moved(p)[TempOf(p)] = Absent
           /\ \A g \in File : g \notin {TempOf(p), job[p].path} => Moved(p)[g] = files[g]
<1>1. /\ job[p].path \in File /\ TempOf(p) \in File /\ TempOf(p) # job[p].path
      /\ files \in [File -> Content] /\ files[TempOf(p)] \in Content /\ Absent \in Content
    BY TempOfCall, Temps, Contents DEF RemoteType
<1> QED
    BY <1>1 DEF Moved

\* A process in a call: what it works for.
LEMMA Working ==
    ASSUME RemoteInv, NEW p \in Proc, pc[p] # "idle"
    PROVE  /\ RemoteType /\ ProcInv(p) /\ ~(closed = TRUE /\ mu # None)
           /\ job[p] \in [op : Operation, path : Path] /\ job[p].path \in Path
           /\ job[p].op \in Operation /\ job[p].path \in File
           /\ TempOf(p) = IF job[p].op = "put" THEN Tmp(job[p].path) ELSE Tmp(p)
           /\ TempOf(p) \in File /\ TempOf(p) \notin Path /\ Tmp(p) \in File
           /\ Tmp(p) # job[p].path /\ Tmp(p) # Tmp(job[p].path)
           /\ job[p].path \notin loose => files[job[p].path] # Torn
<1>1. RemoteType /\ ProcInv(p) /\ job[p] \in [op : Operation, path : Path]
    BY DEF RemoteInv, ProcInv, StepFits
<1> QED
    BY <1>1, TempOfCall, Temps DEF RemoteInv, NeverTorn

\* The steps of a call that neither dial nor lock keep the invariant if they leave each
\* part of the state of the process as it must be at the next step.
LEMMA StepKeeps ==
    ASSUME RemoteInv, NEW p \in Proc, pc[p] \notin {"idle", "dial", "dial2"},
           Frame(p), UNCHANGED <<mu, closed>>, pc'[p] \notin {"dial", "dial2"},
           job[p].path \notin loose => files'[job[p].path] # Torn,
           conns'[p] = Open(p)', StepFits(p)', TempFits(p)', PlacedFits(p)'
    PROVE  RemoteInv'
<1>1. mu # p /\ mu' = mu
    BY Working DEF HoldsFit, ProcInv
<1>2. HoldsFit(p)'
    BY <1>1 DEF HoldsFit
<1>3. InPlaceIsLoose(p)'
    BY Working DEF ProcInv, InPlaceIsLoose, ThroughTemp, Frame
<1> QED
    BY <1>1, <1>2, <1>3, Working, OthersKeep DEF Keeps, ProcInv

----------------------------------------------------------------------------
(* Every step keeps the invariant.                                          *)

\* Remove, ReadFile and the like: one request.
LEMMA ActKeeps ==
    ASSUME RemoteInv, NEW p \in Proc,
           localAct(p) \/ sftpAct(p) \/ smbAct(p) \/ webdavAct(p)
    PROVE  RemoteInv'
<1>1. /\ pc[p] = "act" /\ Quiet /\ UNCHANGED history
      /\ files' \in {files, Written(job[p].path, Absent)}
      /\ \/ Goto(p, Done) /\ UNCHANGED result
         \/ Returns(p, "error", Failed)
         \/ /\ tries[p] < MaxRetries /\ tries' = [tries EXCEPT ![p] = @ + 1]
            /\ UNCHANGED <<pc, result>>
    <2>1. Effect(p) \in {files, Written(job[p].path, Absent)}
        BY DEF Effect
    <2>2. CASE Acts(p)
        BY <2>1, <2>2 DEF Acts, At, Request
    <2>3. CASE webdavAct(p)
        BY <2>1, <2>3 DEF webdavAct, At, withRetry
    <2> QED
        BY <2>2, <2>3 DEF localAct, sftpAct, smbAct
<1>2. /\ RemoteType /\ ProcInv(p) /\ job[p].op \in {"remove", "read"}
      /\ Connects' = Connects /\ TempOf(p)' = TempOf(p)
    BY <1>1, Working DEF ProcInv, StepFits, Connects, TempOf, Quiet
<1>3. /\ files' \in [File -> Content]
      /\ \A f \in File : f # job[p].path => files'[f] = files[f]
      /\ files'[job[p].path] \in {files[job[p].path], Absent}
    <2>1. /\ job[p].path \in File /\ {Absent} \in SUBSET Content
          /\ files' = files \/ \E c \in {Absent} : files' = Written(job[p].path, c)
        BY <1>1, Working, Contents
    <2> QED
        BY <1>2, <2>1, MayBeWritten
<1>4. /\ pc' = [pc EXCEPT ![p] = pc'[p]] /\ pc'[p] \in {"act", Done, Failed}
      /\ tries' \in [Proc -> 0..MaxRetries]
      /\ result' = [result EXCEPT ![p] = result'[p]] /\ result'[p] \in {result[p], "error"}
    BY <1>1, <1>2, RemoteAssumption DEF Goto, Returns, RemoteType
<1>5. Frame(p)
    BY <1>1, <1>2, <1>3, <1>4 DEF Frame, RemoteType, Quiet, history, StepName, Done, Failed
<1>6. StepFits(p)' /\ conns'[p] = Open(p)' /\ PlacedFits(p)'
    BY <1>1, <1>2, <1>4 DEF ProcInv, StepFits, HoldsFit, Open, PlacedFits, Quiet, Done, Failed, RemoteType
<1>7. TempFits(p)'
    BY <1>1, <1>2, <1>3, <1>4, Working DEF ProcInv, TempFits, Quiet, history, Done, Failed
<1> QED
    BY <1>1, <1>3, <1>4, <1>5, <1>6, <1>7, Working, Contents, StepKeeps DEF Quiet, Done, Failed

\* connect, once it has fs.mu: nobody else has it, so fs.closed is read under the lock.
LEMMA LockKeeps ==
    ASSUME RemoteInv, NEW p \in Proc, Lock(p)
    PROVE  RemoteInv'
<1>1. /\ pc[p] \in {"connect", "connect2"} /\ mu = None
      /\ UNCHANGED <<backend, files, closed, job, conns, crashed, history>>
      /\ pc' = [pc EXCEPT ![p] = pc'[p]] /\ tries' = [tries EXCEPT ![p] = 0]
      /\ \/ /\ closed # TRUE /\ mu' = p /\ result' = result
            /\ pc'[p] = IF pc[p] = "connect" THEN "dial" ELSE "dial2"
         \/ /\ closed /\ mu' = None /\ result' = [result EXCEPT ![p] = "error"]
            /\ pc'[p] = IF pc[p] = "connect" THEN "idle" ELSE "disconnect"
    BY DEF Lock, Goto, Returns, RemoteInv, RemoteType
<1>2. /\ RemoteType /\ ProcInv(p) /\ Connects /\ Connects' = Connects
      /\ TempOf(p)' = TempOf(p)
    BY <1>1, Working DEF ProcInv, StepFits, Connects, TempOf
<1>3. Frame(p)
    <2>1. pc'[p] \in StepName
        BY <1>1 DEF StepName
    <2>2. tries' \in [Proc -> 0..MaxRetries]
        BY <1>1, <1>2, RemoteAssumption DEF RemoteType
    <2>3. /\ result' \in [Proc -> {"none", "ok", "error"}]
          /\ \A q \in Proc \ {p} : result'[q] = result[q]
        BY <1>1, <1>2 DEF RemoteType
    <2> QED
        BY <1>1, <1>2, <2>1, <2>2, <2>3 DEF Frame, RemoteType, history
<1>4. StepFits(p)'
    BY <1>1, <1>2 DEF ProcInv, StepFits
<1>5. HoldsFit(p)'
    BY <1>1, <1>2, Contents DEF ProcInv, HoldsFit, Open
<1>6. TempFits(p)'
    BY <1>1, <1>2 DEF ProcInv, TempFits, history
<1>7. InPlaceIsLoose(p)'
    BY <1>1, <1>2 DEF ProcInv, InPlaceIsLoose, history, ThroughTemp
<1>8. PlacedFits(p)'
    BY <1>1, <1>2 DEF ProcInv, PlacedFits, history, RemoteType
<1> QED
    BY <1>1, <1>3, <1>4, <1>5, <1>6, <1>7, <1>8, Working, OthersKeep DEF Keeps, ProcInv

\* connect: the attempts, and what follows.  Nobody dials once Close has run.
LEMMA DialKeeps ==
    ASSUME RemoteInv, NEW p \in Proc, Dial(p)
    PROVE  RemoteInv' /\ closed # TRUE
<1>1. /\ pc[p] \in {"dial", "dial2"}
      /\ UNCHANGED <<backend, files, closed, job, crashed, history>>
    BY DEF Dial
<1>2. /\ RemoteType /\ ProcInv(p) /\ Connects /\ Connects' = Connects
      /\ TempOf(p)' = TempOf(p) /\ mu = p /\ closed # TRUE /\ job[p].op \in Operation
    BY <1>1, Working, Contents DEF ProcInv, StepFits, HoldsFit, Connects, TempOf
<1>3. ASSUME Frame(p), StepFits(p)', HoldsFit(p)',
             \/ result' = result /\ pc'[p] \notin {"sync", "rename", "remove", "done", "disconnect"}
             \/ result'[p] = "error" /\ pc'[p] \notin {"sync", "rename"}
      PROVE  RemoteInv'
    <2>1. TempFits(p)'
        BY <1>1, <1>2, <1>3 DEF ProcInv, TempFits, history
    <2>2. InPlaceIsLoose(p)'
        BY <1>1, <1>2 DEF ProcInv, InPlaceIsLoose, history, ThroughTemp
    <2>3. PlacedFits(p)'
        BY <1>1, <1>2, <1>3 DEF ProcInv, PlacedFits, history
    <2> QED
        BY <1>1, <1>2, <1>3, <2>1, <2>2, <2>3, Working, OthersKeep DEF Keeps, ProcInv
<1>4. CASE /\ conns' = [conns EXCEPT ![p] = @ + 1] /\ mu' = None /\ result' = result
           /\ Goto(p, IF pc[p] = "dial" THEN AfterConnect(p) ELSE "write")
    <2>1. /\ conns[p] = IF pc[p] = "dial" THEN 0 ELSE 1
          /\ pc[p] = "dial2" => backend = "smb" /\ job[p].op = "write"
        BY <1>1, <1>2 DEF ProcInv, HoldsFit, StepFits, Open
    <2>2. /\ pc' = [pc EXCEPT ![p] = pc'[p]]
          /\ pc'[p] = IF pc[p] = "dial" THEN AfterConnect(p) ELSE "write"
          /\ tries' \in [Proc -> 0..MaxRetries]
        BY <1>2, <1>4, RemoteAssumption DEF Goto, RemoteType
    <2>3. /\ AfterConnect(p) \in {"connect2", "create", "batch", "act"}
          /\ AfterConnect(p) = "connect2" => backend = "smb" /\ job[p].op = "write"
          /\ AfterConnect(p) = "create" => job[p].op \in {"put", "write"}
          /\ AfterConnect(p) = "batch" => job[p].op = "batch"
          /\ AfterConnect(p) = "act" => job[p].op \in {"remove", "read"}
        BY <1>2 DEF AfterConnect, Operation
    <2>4. StepFits(p)'
        BY <1>1, <1>2, <2>1, <2>2, <2>3 DEF ProcInv, StepFits, ThroughTemp
    <2>5. conns' \in [Proc -> 0..2] /\ conns'[p] = conns[p] + 1
        BY <1>1, <1>2, <1>4, <2>1 DEF RemoteType
    <2>6. Frame(p)
        BY <1>1, <1>2, <1>4, <2>2, <2>3, <2>5 DEF Frame, RemoteType, history, StepName
    <2>7. HoldsFit(p)'
        BY <1>1, <1>2, <1>4, <2>1, <2>2, <2>3, <2>5, Contents DEF HoldsFit, Open
    <2> QED
        BY <1>1, <1>2, <1>3, <1>4, <2>2, <2>3, <2>4, <2>6, <2>7
<1>5. CASE /\ tries[p] < MaxRetries /\ tries' = [tries EXCEPT ![p] = @ + 1]
           /\ UNCHANGED <<pc, result, conns, mu>>
    <2>1. tries' \in [Proc -> 0..MaxRetries]
        BY <1>2, <1>5, RemoteAssumption DEF RemoteType
    <2>2. Frame(p)
        BY <1>1, <1>2, <1>5, <2>1 DEF Frame, RemoteType, history
    <2>3. StepFits(p)' /\ HoldsFit(p)'
        BY <1>1, <1>2, <1>5 DEF ProcInv, StepFits, HoldsFit, Open, ThroughTemp
    <2> QED
        BY <1>1, <1>2, <1>3, <1>5, <2>2, <2>3
<1>6. CASE /\ mu' = None /\ conns' = conns
           /\ Returns(p, "error", IF pc[p] = "dial" THEN "idle" ELSE "disconnect")
    <2>1. /\ pc' = [pc EXCEPT ![p] = pc'[p]]
          /\ pc'[p] = IF pc[p] = "dial" THEN "idle" ELSE "disconnect"
          /\ tries' \in [Proc -> 0..MaxRetries] /\ result' = [result EXCEPT ![p] = "error"]
        BY <1>2, <1>6, RemoteAssumption DEF Goto, Returns, RemoteType
    <2>2. Frame(p)
        BY <1>1, <1>2, <1>6, <2>1 DEF Frame, RemoteType, history, StepName
    <2>3. StepFits(p)' /\ HoldsFit(p)' /\ result'[p] = "error"
        BY <1>1, <1>2, <1>6, <2>1, Contents DEF ProcInv, StepFits, HoldsFit, Open, RemoteType
    <2> QED
        BY <1>1, <1>2, <1>3, <2>1, <2>2, <2>3
<1> QED
    BY <1>2, <1>4, <1>5, <1>6 DEF Dial

\* The call returns, after its connection was closed or without one.
LEMMA ReturnKeeps ==
    ASSUME RemoteInv, NEW p \in Proc, Disconnect(p) \/ Finish(p)
    PROVE  RemoteInv'
<1>1. /\ pc[p] \in {"disconnect", "done"} /\ UNCHANGED <<fsVars, job, crashed, history>>
      /\ pc' = [pc EXCEPT ![p] = "idle"]
      /\ result' = [result EXCEPT ![p] = IF result[p] = "none" THEN "ok" ELSE result[p]]
      /\ tries' = tries \/ tries' = [tries EXCEPT ![p] = 0]
      /\ \/ pc[p] = "disconnect" /\ conns' = [conns EXCEPT ![p] = @ - 1]
         \/ pc[p] = "done" /\ conns' = conns
    BY DEF Disconnect, Finish, At, Returns, Goto
<1>2. /\ RemoteType /\ ProcInv(p) /\ TempOf(p)' = TempOf(p)
      /\ backend' = backend /\ mu' = mu /\ closed' = closed /\ files' = files
    BY <1>1, Working DEF TempOf, fsVars
<1>3. conns' = [conns EXCEPT ![p] = 0]
    BY <1>1, <1>2 DEF ProcInv, StepFits, HoldsFit, Open, RemoteType
<1>4. Frame(p)
    BY <1>1, <1>2, <1>3, RemoteAssumption DEF Frame, RemoteType, history, StepName
<1>5. StepFits(p)' /\ conns'[p] = Open(p)' /\ pc'[p] = "idle"
    BY <1>1, <1>2, <1>3 DEF StepFits, Open, RemoteType
<1>6. TempFits(p)'
    BY <1>1, <1>2, <1>5 DEF ProcInv, TempFits, history
<1>7. PlacedFits(p)'
    BY <1>1, <1>2, <1>5 DEF ProcInv, PlacedFits, history, RemoteType
<1> QED
    BY <1>1, <1>2, <1>4, <1>5, <1>6, <1>7, Working, StepKeeps

\* Batch: what it writes in place is known to be unprotected.
LEMMA BatchKeeps ==
    ASSUME RemoteInv, NEW p \in Proc, Batches(p)
    PROVE  RemoteInv'
<1>1. /\ pc[p] \in {"batch", "batch2"} /\ Quiet /\ UNCHANGED history
      /\ \E s \in {"batch2", "disconnect"} :
           \/ Goto(p, s) /\ UNCHANGED result
           \/ Returns(p, "error", s)
      /\ files' = files \/ \E c \in {Absent, Torn, p} : files' = Written(job[p].path, c)
    BY DEF Batches, Request, Tears
<1>2. /\ RemoteType /\ ProcInv(p) /\ job[p].op = "batch" /\ Connects
      /\ Connects' = Connects /\ TempOf(p)' = TempOf(p) /\ job[p].path \in loose
    BY <1>1, Working DEF ProcInv, StepFits, InPlaceIsLoose, ThroughTemp, Connects, TempOf, Quiet
<1>3. /\ files' \in [File -> Content]
      /\ \A f \in File : f # job[p].path => files'[f] = files[f]
    <2>1. job[p].path \in File /\ {Absent, Torn, p} \in SUBSET Content
        BY <1>1, Working, Contents
    <2> QED
        BY <1>1, <1>2, <2>1, MayBeWritten
<1>4. /\ pc' = [pc EXCEPT ![p] = pc'[p]] /\ pc'[p] \in {"batch2", "disconnect"}
      /\ tries' \in [Proc -> 0..MaxRetries]
      /\ result' = [result EXCEPT ![p] = result'[p]] /\ result'[p] \in {result[p], "error"}
    BY <1>1, <1>2, RemoteAssumption DEF Goto, Returns, RemoteType
<1>5. Frame(p)
    BY <1>1, <1>2, <1>3, <1>4 DEF Frame, RemoteType, Quiet, history, StepName
<1>6. StepFits(p)' /\ conns'[p] = Open(p)' /\ PlacedFits(p)'
    BY <1>1, <1>2, <1>4 DEF ProcInv, StepFits, HoldsFit, Open, PlacedFits, Quiet
<1>7. TempFits(p)'
    BY <1>1, <1>2, <1>3, <1>4, Working DEF ProcInv, TempFits, Quiet, history
<1> QED
    BY <1>1, <1>2, <1>4, <1>5, <1>6, <1>7, Working, StepKeeps DEF Quiet

\* Create, Write and Close of a file written in place.
LEMMA InPlaceKeeps ==
    ASSUME RemoteInv, NEW p \in Proc,
           \/ localCreate(p) \/ sftpCreate(p) \/ smbCreate(p) \/ CloseFile(p)
    PROVE  RemoteInv'
<1>1. /\ pc[p] \in {"create", "opened"} /\ job[p].op = "put" /\ backend # "webdav"
      /\ Quiet /\ UNCHANGED history
      /\ \/ Goto(p, "opened") /\ pc[p] = "create" /\ UNCHANGED result
         \/ Goto(p, Done) /\ UNCHANGED result
         \/ Returns(p, "error", Failed)
      /\ files' = files \/ \E c \in {Torn, p} : files' = Written(job[p].path, c)
    BY DEF localCreate, sftpCreate, smbCreate, CloseFile, Creates, At, Request, Tears
<1>2. /\ RemoteType /\ ProcInv(p)
      /\ Connects' = Connects /\ TempOf(p)' = TempOf(p) /\ job[p].path \in loose
    BY <1>1, Working DEF ProcInv, InPlaceIsLoose, ThroughTemp, Connects, TempOf, Quiet
<1>3. /\ files' \in [File -> Content]
      /\ \A f \in File : f # job[p].path => files'[f] = files[f]
    <2>1. job[p].path \in File /\ {Torn, p} \in SUBSET Content
        BY <1>1, Working, Contents
    <2> QED
        BY <1>1, <1>2, <2>1, MayBeWritten
<1>4. /\ pc' = [pc EXCEPT ![p] = pc'[p]] /\ pc'[p] \in {"opened", Done, Failed}
      /\ tries' \in [Proc -> 0..MaxRetries]
      /\ result' = [result EXCEPT ![p] = result'[p]] /\ result'[p] \in {result[p], "error"}
    BY <1>1, <1>2, RemoteAssumption DEF Goto, Returns, RemoteType
<1>5. Frame(p)
    BY <1>1, <1>2, <1>3, <1>4 DEF Frame, RemoteType, Quiet, history, StepName, Done, Failed
<1>6. StepFits(p)' /\ conns'[p] = Open(p)' /\ PlacedFits(p)'
    BY <1>1, <1>2, <1>4 DEF ProcInv, StepFits, HoldsFit, Open, PlacedFits, Quiet, Done, Failed
<1>7. TempFits(p)'
    BY <1>1, <1>2, <1>3, <1>4, Working DEF ProcInv, TempFits, Quiet, history, Done, Failed
<1> QED
    BY <1>1, <1>2, <1>4, <1>5, <1>6, <1>7, Working, StepKeeps DEF Quiet, Done, Failed

\* Create and the beginning of Close of a WebDAV file, which ask the server nothing.
LEMMA BufferKeeps ==
    ASSUME RemoteInv, NEW p \in Proc, webdavCreate(p) \/ webdavCloseFile(p)
    PROVE  RemoteInv'
<1>1. /\ pc[p] \in {"create", "opened"} /\ job[p].op = "put" /\ backend = "webdav"
      /\ Quiet /\ UNCHANGED <<history, files, result>>
      /\ pc' = [pc EXCEPT ![p] = pc'[p]] /\ pc'[p] \in {"opened", "write"}
      /\ tries' = [tries EXCEPT ![p] = 0]
    BY DEF webdavCreate, webdavCloseFile, At, Goto, RemoteInv, RemoteType
<1>2. /\ RemoteType /\ ProcInv(p)
      /\ Connects' = Connects /\ TempOf(p)' = TempOf(p)
    BY <1>1, Working DEF ProcInv, Connects, TempOf, Quiet
<1>3. Frame(p)
    BY <1>1, <1>2, RemoteAssumption DEF Frame, RemoteType, Quiet, history, StepName
<1>4. StepFits(p)' /\ conns'[p] = Open(p)' /\ PlacedFits(p)'
    BY <1>1, <1>2 DEF ProcInv, StepFits, HoldsFit, Open, PlacedFits, Quiet, Connects, ThroughTemp
<1>5. TempFits(p)'
    BY <1>1, <1>2, Working DEF ProcInv, TempFits, Quiet, history
<1> QED
    BY <1>1, <1>2, <1>3, <1>4, <1>5, Working, StepKeeps DEF Quiet

\* The steps that write a temporary file keep the invariant if they go on to the next one
\* with all of the data in the file, or fail with the file removed later or known to stay.
LEMMA TempWriteKeeps ==
    ASSUME RemoteInv, NEW p \in Proc, pc[p] \in {"create", "write", "sync"},
           ThroughTemp(p), pc[p] \in {"create", "sync"} => job[p].op = "write",
           UNCHANGED <<backend, closed, mu, job, crashed, placed, loose>>,
           files' = files \/ (\E c \in {Torn, p} : files' = Written(TempOf(p), c)),
           pc' = [pc EXCEPT ![p] = pc'[p]], tries' \in [Proc -> 0..MaxRetries],
           pc'[p] \in {"write", "sync", "rename", "remove", "disconnect", "idle"},
           pc'[p] = "sync" => job[p].op = "write",
           pc'[p] \in {"sync", "rename"} =>
               files' = Written(TempOf(p), p) \/ (pc[p] = "sync" /\ files' = files),
           result' = [result EXCEPT ![p] = result'[p]], result'[p] \in {result[p], "error"},
           pc'[p] = "remove" => result'[p] = "error",
           pc'[p] \in {"disconnect", "idle"} =>
               /\ result'[p] = "error" /\ pc'[p] = Failed
               /\ \/ files' = files /\ pc[p] = "create"
                  \/ p \in leaked' \/ files'[TempOf(p)] = Absent,
           leaked' \in {leaked, leaked \cup {p}},
           conns' \in [Proc -> 0..2], \A q \in Proc \ {p} : conns'[q] = conns[q],
           conns'[p] = Open(p)'
    PROVE  RemoteInv'
<1>1. /\ RemoteType /\ ProcInv(p) /\ Connects' = Connects /\ TempOf(p)' = TempOf(p)
      /\ TempOf(p) \in File /\ TempOf(p) # job[p].path /\ job[p].path \in File
    BY Working DEF Connects, TempOf
<1>2. /\ files' \in [File -> Content] /\ files'[TempOf(p)] \in {files[TempOf(p)], Torn, p}
      /\ \A f \in File : f # TempOf(p) => files'[f] = files[f]
      /\ pc'[p] \in {"sync", "rename"} => files'[TempOf(p)] = p \/ (pc[p] = "sync" /\ files' = files)
    <2>1. TempOf(p) \in File /\ {Torn, p} \in SUBSET Content /\ p \in Content
        BY <1>1, Contents
    <2>2. Written(TempOf(p), p)[TempOf(p)] = p
        BY <1>1, <2>1, WrittenFile
    <2>3. /\ files' \in [File -> Content] /\ files'[TempOf(p)] \in {files[TempOf(p)]} \cup {Torn, p}
          /\ \A f \in File : f # TempOf(p) => files'[f] = files[f]
        BY <1>1, <2>1, MayBeWritten
    <2> QED
        BY <2>2, <2>3
<1>3. Frame(p)
    BY <1>1, <1>2 DEF Frame, RemoteType, StepName
<1>4. StepFits(p)'
    BY <1>1 DEF ProcInv, StepFits, ThroughTemp, Failed
<1>5. TempFits(p)'
    <2>1. \/ p \in leaked'
          \/ files'[Tmp(p)] = Absent
          \/ job[p].op = "write" /\ pc'[p] \in {"write", "sync", "rename", "remove"}
        <3>1. CASE job[p].op = "put"
            BY <1>1, <1>2, <3>1, Working DEF ProcInv, TempFits
        <3>2. CASE job[p].op = "write" /\ pc'[p] \in {"disconnect", "idle"}
            BY <1>1, <3>2, Working DEF ProcInv, TempFits
        <3> QED
            BY <3>1, <3>2 DEF ThroughTemp
    <2>2. pc'[p] \in {"sync", "rename"} => files'[TempOf(p)] \in {p, Absent}
        BY <1>1, <1>2 DEF ProcInv, TempFits
    <2> QED
        BY <1>1, <2>1, <2>2 DEF TempFits
<1>6. PlacedFits(p)'
    BY <1>1 DEF ProcInv, PlacedFits, RemoteType
<1> QED
    BY <1>1, <1>2, <1>3, <1>4, <1>5, <1>6, Working, StepKeeps

\* LocalFS.SafeWriteFile up to the rename.
LEMMA localWriteKeeps ==
    ASSUME RemoteInv, NEW p \in Proc, localWrite(p)
    PROVE  RemoteInv'
<1>1. /\ backend = "local" /\ job[p].op = "write" /\ Quiet /\ UNCHANGED history
      /\ \/ pc[p] = "create" /\ files' = Written(TempOf(p), Torn) /\ Goto(p, "write") /\ UNCHANGED result
         \/ pc[p] = "create" /\ files' = files /\ Returns(p, "error", "idle")
         \/ pc[p] = "write" /\ files' = Written(TempOf(p), p) /\ Goto(p, "sync") /\ UNCHANGED result
         \/ /\ pc[p] = "write" /\ Returns(p, "error", "remove")
            /\ files' \in {files, Written(TempOf(p), Torn), Written(TempOf(p), p)}
         \/ pc[p] = "sync" /\ files' = files /\ Goto(p, "rename") /\ UNCHANGED result
         \/ pc[p] = "sync" /\ files' = files /\ Returns(p, "error", "remove")
    BY DEF localWrite, At, Request, Tears
<1>2. RemoteType /\ ProcInv(p) /\ ~Connects /\ ~Connects' /\ conns[p] = 0 /\ ThroughTemp(p)
    BY <1>1, Working DEF ProcInv, HoldsFit, Open, Connects, Quiet, ThroughTemp
<1>3. /\ pc' = [pc EXCEPT ![p] = pc'[p]] /\ tries' \in [Proc -> 0..MaxRetries]
      /\ result' = [result EXCEPT ![p] = result'[p]]
      /\ \/ /\ result'[p] = result[p]
            /\ \/ pc[p] = "create" /\ files' = Written(TempOf(p), Torn) /\ pc'[p] = "write"
               \/ pc[p] = "write" /\ files' = Written(TempOf(p), p) /\ pc'[p] = "sync"
               \/ pc[p] = "sync" /\ files' = files /\ pc'[p] = "rename"
         \/ /\ result'[p] = "error"
            /\ \/ pc[p] = "create" /\ files' = files /\ pc'[p] = "idle"
               \/ pc[p] \in {"write", "sync"} /\ pc'[p] = "remove"
    BY <1>1, <1>2, RemoteAssumption DEF RemoteType, Goto, Returns
<1>4. files' = files \/ \E c \in {Torn, p} : files' = Written(TempOf(p), c)
    BY <1>1
<1>5. conns' \in [Proc -> 0..2] /\ conns' = conns /\ conns'[p] = Open(p)'
    BY <1>1, <1>2 DEF Quiet, RemoteType, Open
<1> QED
    BY <1>1, <1>2, <1>3, <1>4, <1>5, TempWriteKeeps DEF Quiet, history, Failed

\* SFTPFS.SafeWriteFile up to the rename.
LEMMA sftpWriteKeeps ==
    ASSUME RemoteInv, NEW p \in Proc, sftpWrite(p)
    PROVE  RemoteInv'
<1>1. /\ backend = "sftp" /\ job[p].op = "write" /\ Quiet /\ UNCHANGED <<placed, loose>>
      /\ \/ pc[p] = "create" /\ files' = Written(TempOf(p), Torn) /\ Goto(p, "write") /\ UNCHANGED result
         \/ /\ pc[p] = "create" /\ Returns(p, "error", "disconnect")
            /\ files' \in {files, Written(TempOf(p), Torn)}
         \/ pc[p] = "write" /\ files' = Written(TempOf(p), p) /\ Goto(p, "rename") /\ UNCHANGED result
         \/ /\ pc[p] = "write" /\ Returns(p, "error", "remove")
            /\ files' \in {files, Written(TempOf(p), Torn), Written(TempOf(p), p)}
      /\ leaked' = IF pc'[p] = "disconnect" /\ files'[TempOf(p)] # Absent THEN leaked \cup {p} ELSE leaked
    BY DEF sftpWrite, At, Request, Tears
<1>2. RemoteType /\ ProcInv(p) /\ Connects /\ Connects' /\ conns[p] = 1 /\ ThroughTemp(p)
    BY <1>1, Working DEF ProcInv, HoldsFit, Open, Connects, Quiet, ThroughTemp
<1>3. /\ pc' = [pc EXCEPT ![p] = pc'[p]] /\ tries' \in [Proc -> 0..MaxRetries]
      /\ result' = [result EXCEPT ![p] = result'[p]]
      /\ \/ /\ result'[p] = result[p]
            /\ \/ pc[p] = "create" /\ files' = Written(TempOf(p), Torn) /\ pc'[p] = "write"
               \/ pc[p] = "write" /\ files' = Written(TempOf(p), p) /\ pc'[p] = "rename"
         \/ /\ result'[p] = "error"
            /\ \/ pc[p] = "create" /\ pc'[p] = "disconnect"
               \/ pc[p] = "write" /\ pc'[p] = "remove"
    BY <1>1, <1>2, RemoteAssumption DEF RemoteType, Goto, Returns
<1>4. files' = files \/ \E c \in {Torn, p} : files' = Written(TempOf(p), c)
    BY <1>1
<1>5. conns' \in [Proc -> 0..2] /\ conns' = conns /\ conns'[p] = Open(p)'
    BY <1>1, <1>2, <1>3 DEF Quiet, RemoteType, Open
<1> QED
    BY <1>1, <1>2, <1>3, <1>4, <1>5, TempWriteKeeps DEF Quiet, Failed

\* SMBFS.SafeWriteFile up to the rename: the second connection is closed.
LEMMA smbWriteKeeps ==
    ASSUME RemoteInv, NEW p \in Proc, smbWrite(p)
    PROVE  RemoteInv'
<1>1. /\ backend = "smb" /\ job[p].op = "write" /\ pc[p] = "write"
      /\ UNCHANGED <<backend, closed, mu, job, crashed, placed, loose>>
      /\ \/ files' = Written(TempOf(p), p) /\ Goto(p, "rename") /\ UNCHANGED result
         \/ /\ Returns(p, "error", "disconnect")
            /\ files' \in {files, Written(TempOf(p), Torn), Written(TempOf(p), p)}
      /\ leaked' = IF pc'[p] = "disconnect" /\ files'[TempOf(p)] # Absent THEN leaked \cup {p} ELSE leaked
      /\ conns' = [conns EXCEPT ![p] = @ - 1]
    BY DEF smbWrite, At, Tears
<1>2. RemoteType /\ ProcInv(p) /\ Connects /\ Connects' /\ conns[p] = 2 /\ ThroughTemp(p)
    BY <1>1, Working DEF ProcInv, HoldsFit, Open, Connects, ThroughTemp
<1>3. /\ pc' = [pc EXCEPT ![p] = pc'[p]] /\ tries' \in [Proc -> 0..MaxRetries]
      /\ result' = [result EXCEPT ![p] = result'[p]]
      /\ \/ result'[p] = result[p] /\ files' = Written(TempOf(p), p) /\ pc'[p] = "rename"
         \/ result'[p] = "error" /\ pc'[p] = "disconnect"
    BY <1>1, <1>2, RemoteAssumption DEF RemoteType, Goto, Returns
<1>4. files' = files \/ \E c \in {Torn, p} : files' = Written(TempOf(p), c)
    BY <1>1
<1>5. conns' \in [Proc -> 0..2] /\ conns'[p] = 1 /\ \A q \in Proc \ {p} : conns'[q] = conns[q]
    BY <1>1, <1>2 DEF RemoteType
<1>6. Open(p)' = 1
    BY <1>2, <1>3 DEF Open
<1> QED
    BY <1>1, <1>2, <1>3, <1>4, <1>5, <1>6, TempWriteKeeps DEF Failed

\* WebDAVFS.SafeWriteFile and webdavFile.Close up to the rename, with retries.
LEMMA webdavWriteKeeps ==
    ASSUME RemoteInv, NEW p \in Proc, webdavWrite(p)
    PROVE  RemoteInv'
<1>1. /\ backend = "webdav" /\ job[p].op \in {"write", "put"} /\ pc[p] = "write"
      /\ Quiet /\ UNCHANGED <<placed, loose>>
      /\ \/ files' = Written(TempOf(p), p) /\ Goto(p, "rename") /\ UNCHANGED result
         \/ /\ Returns(p, "error", "idle")
            /\ files' \in {files, Written(TempOf(p), Torn), Written(TempOf(p), p)}
         \/ /\ tries[p] < MaxRetries /\ tries' = [tries EXCEPT ![p] = @ + 1] /\ UNCHANGED <<pc, result>>
            /\ files' \in {files, Written(TempOf(p), Torn), Written(TempOf(p), p)}
      /\ leaked' = IF pc'[p] = "idle" /\ files'[TempOf(p)] # Absent THEN leaked \cup {p} ELSE leaked
    BY DEF webdavWrite, At, Tears
<1>2. RemoteType /\ ProcInv(p) /\ ~Connects /\ ~Connects' /\ conns[p] = 0 /\ ThroughTemp(p)
    BY <1>1, Working DEF ProcInv, HoldsFit, Open, Connects, Quiet, ThroughTemp
<1>3. /\ pc' = [pc EXCEPT ![p] = pc'[p]] /\ tries' \in [Proc -> 0..MaxRetries]
      /\ result' = [result EXCEPT ![p] = result'[p]]
      /\ \/ result'[p] = result[p] /\ files' = Written(TempOf(p), p) /\ pc'[p] = "rename"
         \/ result'[p] = "error" /\ pc'[p] = "idle"
         \/ result'[p] = result[p] /\ pc'[p] = "write"
    BY <1>1, <1>2, RemoteAssumption DEF RemoteType, Goto, Returns
<1>4. files' = files \/ \E c \in {Torn, p} : files' = Written(TempOf(p), c)
    BY <1>1
<1>5. conns' \in [Proc -> 0..2] /\ conns' = conns /\ conns'[p] = Open(p)'
    BY <1>1, <1>2 DEF Quiet, RemoteType, Open
<1> QED
    BY <1>1, <1>2, <1>3, <1>4, <1>5, TempWriteKeeps DEF Quiet, Failed

\* The rename: what it moves is whole, unless the temporary file is shared, and a rename
\* that succeeds has moved the data of the call.
LEMMA RenameKeeps ==
    ASSUME RemoteInv, NEW p \in Proc, Rename(p)
    PROVE  RemoteInv'
<1>1. /\ pc[p] = "rename" /\ Moves(p) /\ Quiet /\ UNCHANGED <<loose, leaked>>
      /\ files' \in {files, Moved(p)}
      /\ \/ /\ files[TempOf(p)] # Absent /\ files' = Moved(p)
            /\ Goto(p, Done) /\ UNCHANGED result
         \/ Returns(p, "error", "remove")
         \/ /\ tries[p] < MaxRetries /\ tries' = [tries EXCEPT ![p] = @ + 1]
            /\ UNCHANGED <<pc, result>>
    BY DEF Rename, At, Request, withRetry
<1>2. /\ RemoteType /\ ProcInv(p) /\ ThroughTemp(p) /\ TempOf(p) \in File
      /\ Connects' = Connects /\ TempOf(p)' = TempOf(p) /\ ThroughTemp(p)' = ThroughTemp(p)
      /\ (job[p].op = "write" \/ job[p].path \notin loose) => files[TempOf(p)] \in {p, Absent}
    BY <1>1, Working DEF ProcInv, StepFits, TempFits, Connects, TempOf, ThroughTemp, Quiet
<1>3. /\ files' \in [File -> Content] /\ files'[TempOf(p)] \in {files[TempOf(p)], Absent}
      /\ files'[job[p].path] \in {files[job[p].path], files[TempOf(p)]}
      /\ \A f \in File : f \notin {TempOf(p), job[p].path} => files'[f] = files[f]
      /\ files' = Moved(p) => files'[TempOf(p)] = Absent
    <2>1. CASE files' = files
        <3>1. files = Moved(p) => files[TempOf(p)] = Absent
            BY <1>1, <1>2, Working, MovedFile
        <3> QED
            BY <1>2, <2>1, <3>1 DEF RemoteType
    <2>2. CASE files' = Moved(p)
        BY <1>1, <1>2, <2>2, Working, MovedFile
    <2> QED
        BY <1>1, <2>1, <2>2
<1>4. /\ pc' = [pc EXCEPT ![p] = pc'[p]] /\ tries' \in [Proc -> 0..MaxRetries]
      /\ result' = [result EXCEPT ![p] = result'[p]]
      /\ \/ pc'[p] = Done /\ result'[p] = result[p] /\ files[TempOf(p)] # Absent /\ files' = Moved(p)
         \/ pc'[p] = "remove" /\ result'[p] = "error"
         \/ pc'[p] = "rename" /\ result'[p] = result[p]
    BY <1>1, <1>2, RemoteAssumption DEF RemoteType, Goto, Returns
<1>5. /\ placed' = [placed EXCEPT ![p] = placed'[p]] /\ placed'[p] \in BOOLEAN
      /\ placed[p] = TRUE => placed'[p] = TRUE
      /\ files' # files /\ files[TempOf(p)] = p => placed'[p] = TRUE
    BY <1>1, <1>2 DEF RemoteType, Moves
<1>6. Frame(p)
    BY <1>1, <1>2, <1>3, <1>4, <1>5 DEF Frame, RemoteType, Quiet, StepName, Done
<1>7. StepFits(p)' /\ conns'[p] = Open(p)'
    BY <1>1, <1>2, <1>4 DEF ProcInv, StepFits, HoldsFit, Open, Quiet, Done
<1>8. PlacedFits(p)'
    <2>1. CASE pc'[p] = Done
        <3>1. job[p].op = "write" => placed'[p] = TRUE
            BY <1>2, <1>3, <1>4, <1>5, <2>1, Contents DEF Done
        <3> QED
            BY <1>1, <2>1, <3>1 DEF PlacedFits, Quiet, Done
    <2>2. CASE pc'[p] \in {"remove", "rename"}
        BY <1>1, <1>2, <1>4, <1>5, <2>2 DEF ProcInv, PlacedFits, Quiet, Done
    <2> QED
        BY <1>4, <2>1, <2>2
<1>9. TempFits(p)'
    <2>1. \/ p \in leaked'
          \/ files'[Tmp(p)] = Absent
          \/ job[p].op = "write" /\ pc'[p] \in {"write", "sync", "rename", "remove"}
        <3>1. CASE job[p].op = "put"
            BY <1>1, <1>2, <1>3, <3>1, Working DEF ProcInv, TempFits
        <3>2. CASE job[p].op = "write"
            BY <1>1, <1>2, <1>3, <1>4, <3>2, Working
        <3> QED
            BY <1>2, <3>1, <3>2 DEF ThroughTemp
    <2> QED
        BY <1>1, <1>2, <1>3, <2>1 DEF TempFits, Quiet
<1> QED
    BY <1>1, <1>2, <1>3, <1>4, <1>6, <1>7, <1>8, <1>9, Working, Contents, StepKeeps DEF Quiet, Done

\* The temporary file is removed, or known to stay.
LEMMA RemoveTempKeeps ==
    ASSUME RemoteInv, NEW p \in Proc, RemoveTemp(p)
    PROVE  RemoteInv'
<1>1. /\ pc[p] = "remove" /\ Goto(p, Failed) /\ UNCHANGED <<result, placed, loose>> /\ Quiet
      /\ \/ files' = Written(TempOf(p), Absent) /\ leaked' = leaked
         \/ files' = files /\ leaked' = leaked \cup {p}
    BY DEF RemoveTemp, At
<1>2. /\ RemoteType /\ ProcInv(p) /\ TempOf(p) \in File /\ result[p] = "error"
      /\ Connects' = Connects /\ TempOf(p)' = TempOf(p) /\ TempOf(p) # job[p].path
    BY <1>1, Working DEF ProcInv, PlacedFits, Connects, TempOf, Quiet
<1>3. /\ files' \in [File -> Content]
      /\ files'[TempOf(p)] = Absent \/ p \in leaked'
      /\ \A f \in File : f # TempOf(p) => files'[f] = files[f]
    <2>1. CASE files' = Written(TempOf(p), Absent)
        BY <1>2, <2>1, WrittenFile, Contents
    <2>2. CASE files' = files /\ leaked' = leaked \cup {p}
        BY <1>2, <2>2 DEF RemoteType
    <2> QED
        BY <1>1, <2>1, <2>2
<1>4. /\ pc' = [pc EXCEPT ![p] = Failed] /\ pc'[p] = Failed /\ tries' \in [Proc -> 0..MaxRetries]
    BY <1>1, <1>2, RemoteAssumption DEF RemoteType, Goto
<1>5. Frame(p)
    BY <1>1, <1>2, <1>3, <1>4 DEF Frame, RemoteType, Quiet, StepName, Failed
<1>6. StepFits(p)' /\ conns'[p] = Open(p)' /\ PlacedFits(p)'
    BY <1>1, <1>2, <1>4 DEF ProcInv, StepFits, HoldsFit, Open, PlacedFits, Quiet, Failed
<1>7. TempFits(p)'
    <2>1. p \in leaked' \/ files'[Tmp(p)] = Absent
        <3>1. CASE job[p].op = "put"
            BY <1>1, <1>2, <1>3, <3>1, Working DEF ProcInv, TempFits
        <3>2. CASE job[p].op # "put"
            BY <1>1, <1>2, <1>3, <3>2, Working
        <3> QED
            BY <3>1, <3>2
    <2> QED
        BY <1>4, <2>1 DEF TempFits, Failed
<1>8. files'[job[p].path] = files[job[p].path]
    <2>1. job[p].path \in File
        BY <1>1, Working
    <2> QED
        BY <1>2, <1>3, <2>1
<1>9. pc'[p] \notin {"dial", "dial2"}
    BY <1>4 DEF Failed
<1> QED
    BY <1>1, <1>2, <1>5, <1>6, <1>7, <1>8, <1>9, Working, StepKeeps DEF Quiet

\* A new call: its temporary file has a new name, and if it writes in place, or shares a
\* temporary file, that is known.
LEMMA CallKeeps ==
    ASSUME RemoteInv, NEW p \in Proc, NEW path \in Path, NEW op \in Operation, Call(p, op, path)
    PROVE  RemoteInv'
<1>1. /\ pc[p] = "idle" /\ RemoteType /\ ProcInv(p)
      /\ UNCHANGED <<backend, closed, mu, conns, crashed>>
      /\ job' = [job EXCEPT ![p] = [op |-> op, path |-> path]]
      /\ pc' = [pc EXCEPT ![p] = FirstStep(op)] /\ tries' = [tries EXCEPT ![p] = 0]
      /\ result' = [result EXCEPT ![p] = "none"] /\ placed' = [placed EXCEPT ![p] = FALSE]
      /\ files' = [files EXCEPT ![Tmp(p)] = Absent] /\ leaked' = leaked \ {p}
      /\ op = "batch" => Connects
      /\ loose \subseteq loose' /\ loose' \subseteq loose \cup {path}
      /\ op = "batch" \/ (op = "put" /\ backend # "webdav") => path \in loose'
      /\ (op = "put" /\ \E q \in Proc \ {p} : pc[q] # "idle" /\ job[q] = job'[p]) => path \in loose'
    BY DEF Call, At, Returns, Goto, RemoteInv, Tmp
<1>2. /\ files' \in [File -> Content] /\ files'[Tmp(p)] = Absent
      /\ \A f \in File : f # Tmp(p) => files'[f] = files[f]
    BY <1>1, Temps, Contents DEF RemoteType
<1>3. /\ job'[p] = [op |-> op, path |-> path] /\ job'[p].op = op /\ job'[p].path = path
      /\ job'[p] \in [op : Operation, path : Path] /\ pc'[p] = FirstStep(op)
      /\ Connects' = Connects
    BY <1>1 DEF RemoteType, Connects
<1>4. /\ Connects => FirstStep(op) = "connect"
      /\ ~Connects => FirstStep(op) \in {"act", "create", "write"}
      /\ FirstStep(op) = "act" => op \in {"remove", "read"}
      /\ ~Connects /\ FirstStep(op) = "create" => op \in {"put", "write"}
      /\ ~Connects /\ FirstStep(op) = "write" => op = "write"
    BY <1>1 DEF FirstStep, Operation
<1>5. RemoteType'
    <2>1. job' \in [Proc -> [op : Operation, path : Path] \cup {NoJob}]
        BY <1>1, <1>3 DEF RemoteType
    <2>2. pc' \in [Proc -> StepName]
        BY <1>1, <1>4 DEF RemoteType, StepName
    <2> QED
        BY <1>1, <1>2, <2>1, <2>2, RemoteAssumption DEF RemoteType
<1>6. ProcInv(p)'
    <2>1. StepFits(p)'
        BY <1>1, <1>3, <1>4 DEF StepFits, ThroughTemp
    <2>2. HoldsFit(p)'
        BY <1>1, <1>3, <1>4 DEF ProcInv, HoldsFit, Open
    <2>3. TempFits(p)'
        BY <1>2, <1>3, <1>4 DEF TempFits
    <2>4. InPlaceIsLoose(p)' /\ PlacedFits(p)'
        BY <1>1, <1>3, <1>4 DEF InPlaceIsLoose, PlacedFits, ThroughTemp, RemoteType
    <2> QED
        BY <2>1, <2>2, <2>3, <2>4 DEF ProcInv
<1>7. ASSUME NEW q \in Proc, q # p
      PROVE  ProcInv(q)'
    <2>1. /\ pc'[q] = pc[q] /\ conns'[q] = conns[q] /\ result'[q] = result[q] /\ mu' = mu
          /\ placed'[q] = placed[q] /\ (q \in leaked' <=> q \in leaked)
          /\ backend' = backend /\ job'[q] = job[q] /\ ProcInv(q)
          /\ ThroughTemp(q)' = ThroughTemp(q) /\ TempOf(q)' = TempOf(q) /\ Open(q)' = Open(q)
        BY <1>1, <1>3, <1>7 DEF RemoteInv, RemoteType, ThroughTemp, TempOf, Open
    <2>2. Tmp(q) \in File /\ Tmp(q) # Tmp(p)
        BY <1>7, Temps
    <2>3. ASSUME pc[q] \in {"sync", "rename"}
          PROVE  TempOf(q) \in File /\ TempOf(q) # Tmp(p)
        <3>1. job[q] \in [op : Operation, path : Path]
            BY <2>1, <2>3 DEF ProcInv, StepFits
        <3> QED
            BY <1>1, <2>2, <3>1, TempOfCall, Temps
    <2>4. TempFits(q)'
        BY <1>1, <1>2, <2>1, <2>2, <2>3 DEF ProcInv, TempFits
    <2>5. StepFits(q)' /\ HoldsFit(q)'
        BY <1>3, <2>1 DEF ProcInv, StepFits, HoldsFit
    <2>6. InPlaceIsLoose(q)' /\ PlacedFits(q)'
        BY <1>1, <2>1 DEF ProcInv, InPlaceIsLoose, PlacedFits
    <2> QED
        BY <2>4, <2>5, <2>6 DEF ProcInv
<1>8. SharedIsLoose'
    <2> SUFFICES ASSUME NEW q \in Proc, NEW o \in Proc, q # o, pc'[q] # "idle", pc'[o] # "idle",
                        job'[q] = job'[o], job'[q].op = "put"
                 PROVE  job'[q].path \in loose'
        BY DEF SharedIsLoose
    <2>1. CASE q = p
        BY <1>1, <1>3, <2>1 DEF RemoteType
    <2>2. CASE o = p
        BY <1>1, <1>3, <2>2 DEF RemoteType
    <2>3. CASE q # p /\ o # p
        BY <1>1, <2>3 DEF RemoteType, RemoteInv, SharedIsLoose
    <2> QED
        BY <2>1, <2>2, <2>3
<1>9. NeverTorn'
    BY <1>1, <1>2, Temps DEF RemoteInv, NeverTorn
<1> QED
    BY <1>1, <1>5, <1>6, <1>7, <1>8, <1>9 DEF RemoteInv

\* The program ends: all that is left are files.
LEMMA CrashKeeps ==
    ASSUME RemoteInv, Crash
    PROVE  RemoteInv'
<1>1. /\ RemoteType /\ UNCHANGED <<backend, files, closed, job, tries, result, placed, loose>>
      /\ pc' = [p \in Proc |-> "idle"] /\ conns' = [p \in Proc |-> 0] /\ mu' = None
      /\ leaked' = Proc /\ crashed' = TRUE
    BY DEF Crash, RemoteInv
<1>2. RemoteType'
    BY <1>1 DEF RemoteType, StepName
<1>3. SharedIsLoose' /\ NeverTorn'
    BY <1>1 DEF SharedIsLoose, NeverTorn, RemoteInv
<1>4. ASSUME NEW p \in Proc
      PROVE  ProcInv(p)'
    <2>1. pc'[p] = "idle" /\ conns'[p] = 0 /\ p \in leaked' /\ PlacedFits(p) /\ mu' # p
        BY <1>1, Contents DEF RemoteInv, ProcInv
    <2>2. StepFits(p)' /\ HoldsFit(p)' /\ TempFits(p)' /\ InPlaceIsLoose(p)'
        BY <2>1 DEF StepFits, HoldsFit, Open, TempFits, InPlaceIsLoose
    <2>3. PlacedFits(p)'
        BY <1>1, <2>1 DEF PlacedFits
    <2> QED
        BY <2>2, <2>3 DEF ProcInv
<1> QED
    BY <1>1, <1>2, <1>3, <1>4 DEF RemoteInv

\* The invariant does not speak of anything else.
LEMMA Unrelated ==
    ASSUME RemoteInv, UNCHANGED <<backend, files, mu, procVars, crashed, history>>,
           closed' \in BOOLEAN, closed' = TRUE => mu = None
    PROVE  RemoteInv'
<1>1. UNCHANGED <<backend, files, mu, job, pc, tries, conns, result, crashed, placed, loose, leaked>>
    BY DEF procVars, history
<1>2. RemoteType'
    BY <1>1 DEF RemoteInv, RemoteType
<1>3. SharedIsLoose' /\ NeverTorn'
    BY <1>1 DEF SharedIsLoose, NeverTorn, RemoteInv
<1>4. ASSUME NEW p \in Proc
      PROVE  ProcInv(p)'
    <2>1. ProcInv(p)
        BY DEF RemoteInv
    <2> QED
        BY <1>1, <2>1 DEF ProcInv, StepFits, HoldsFit, Open, TempFits, TempOf, InPlaceIsLoose,
                          PlacedFits, ThroughTemp, Connects
<1> QED
    BY <1>1, <1>2, <1>3, <1>4 DEF RemoteInv

----------------------------------------------------------------------------
(* Theorems.                                                                *)

\* The invariant holds at the beginning.
LEMMA RemoteInit == Init => RemoteInv
<1> SUFFICES ASSUME Init PROVE RemoteInv
    OBVIOUS
<1>1. RemoteType
    <2>1. files \in [File -> Content]
        BY DEF Init, Content
    <2>2. backend \in {"local", "sftp", "smb", "webdav"} /\ 0 \in 0..MaxRetries /\ 0 \in 0..2
        BY RemoteAssumption DEF Init
    <2>3. /\ job \in [Proc -> [op : Operation, path : Path] \cup {NoJob}]
          /\ pc \in [Proc -> StepName] /\ result \in [Proc -> {"none", "ok", "error"}]
          /\ placed \in [Proc -> BOOLEAN]
        BY DEF Init, StepName
    <2> QED
        BY <2>1, <2>2, <2>3 DEF Init, RemoteType
<1>2. \A f \in File : files[f] # Torn /\ (f \notin Path => files[f] = Absent)
    BY DEF Init, Torn, Absent
<1>3. SharedIsLoose /\ NeverTorn
    BY <1>2, Temps DEF Init, SharedIsLoose, NeverTorn
<1>4. ASSUME NEW p \in Proc
      PROVE  ProcInv(p)
    <2>1. files[Tmp(p)] = Absent /\ pc[p] = "idle" /\ conns[p] = 0 /\ mu # p /\ result[p] = "none"
        BY <1>2, Temps, Contents DEF Init
    <2> QED
        BY <2>1 DEF ProcInv, StepFits, HoldsFit, Open, TempFits, InPlaceIsLoose, PlacedFits
<1> QED
    BY <1>1, <1>3, <1>4 DEF RemoteInv, Init

\* Every step keeps it.
LEMMA RemoteNext == RemoteInv /\ [Next]_vars => RemoteInv'
<1> SUFFICES ASSUME RemoteInv, [Next]_vars PROVE RemoteInv'
    OBVIOUS
<1>1. ASSUME NEW p \in Proc, Step(p)
      PROVE  RemoteInv'
    BY <1>1, ActKeeps, LockKeeps, DialKeeps, ReturnKeeps, BatchKeeps, InPlaceKeeps, BufferKeeps,
       localWriteKeeps, sftpWriteKeeps, smbWriteKeeps, webdavWriteKeeps, RenameKeeps, RemoveTempKeeps
       DEF Step, sftpBatch, smbBatch
<1>2. ASSUME NEW p \in Proc, NEW path \in Path,
             NEW op \in {"write", "put", "remove", "read", "batch"}, Call(p, op, path)
      PROVE  RemoteInv'
    BY <1>2, CallKeeps DEF Operation
<1>3. CASE WantClose
    BY <1>3, Unrelated DEF WantClose, RemoteInv, RemoteType
<1>4. CASE Close
    BY <1>4, Unrelated DEF Close
<1>5. CASE UNCHANGED vars
    BY <1>5, Unrelated DEF vars, fsVars, RemoteInv, RemoteType
<1> QED
    BY <1>1, <1>2, <1>3, <1>4, <1>5, CrashKeeps DEF Next

\* Every state of every behaviour satisfies the invariant.
THEOREM RemoteInvariant == Spec => []RemoteInv
    BY RemoteInit, RemoteNext, PTL DEF Spec

\* SafeWriteFile is atomic on every file system.
THEOREM Atomic == Spec => []NeverTorn
<1>1. RemoteInv => NeverTorn
    BY DEF RemoteInv
<1> QED
    BY <1>1, RemoteInvariant, PTL

\* SafeWriteFile that reports success has put its data in place.
THEOREM SuccessMeansPlaced == Spec => []SuccessIsPlaced
<1>1. RemoteInv => SuccessIsPlaced
    BY DEF RemoteInv, ProcInv, PlacedFits, SuccessIsPlaced
<1> QED
    BY <1>1, RemoteInvariant, PTL

\* A call leaves no lock, no connection and no temporary file behind.
THEOREM CallsLeaveNothing == Spec => []NothingLeft
<1>1. RemoteInv => TypeOK
    BY DEF RemoteInv, RemoteType, ProcInv, HoldsFit, TypeOK
<1>2. RemoteInv => ConnectionsClosed
    BY DEF RemoteInv, ProcInv, HoldsFit, Open, ConnectionsClosed
<1>3. RemoteInv => TempsRemoved
    BY DEF RemoteInv, ProcInv, TempFits, TempsRemoved, Tmp
<1> QED
    BY <1>1, <1>2, <1>3, RemoteInvariant, PTL DEF NothingLeft

\* Once Close has returned, no connection is made: whoever dials holds fs.mu and found the
\* file system open, and Close cannot come in between.
THEOREM ClosedForGood == Spec => NoConnectionAfterClose
<1>1. RemoteInv /\ [Next]_vars => [closed => \A p \in Proc : conns'[p] <= conns[p]]_vars
    <2> SUFFICES ASSUME RemoteInv, Next, closed, NEW p \in Proc
                 PROVE  conns'[p] <= conns[p]
        BY DEF vars
    <2>1. conns \in [Proc -> 0..2] /\ closed = TRUE
        BY DEF RemoteInv, RemoteType
    <2>2. ASSUME NEW q \in Proc, Step(q)
          PROVE  conns'[p] <= conns[p]
        <3>1. \/ conns' = conns \/ conns' = [conns EXCEPT ![q] = @ - 1]
            BY <2>1, <2>2, DialKeeps
               DEF Step, Lock, Disconnect, Finish, localAct, sftpAct, smbAct, webdavAct, Acts,
                   localWrite, sftpWrite, smbWrite, webdavWrite, Rename, RemoveTemp,
                   localCreate, sftpCreate, smbCreate, Creates, webdavCreate, CloseFile,
                   webdavCloseFile, sftpBatch, smbBatch, Batches, Quiet
        <3> QED
            BY <2>1, <3>1
    <2>3. CASE Crash
        BY <2>1, <2>3 DEF Crash
    <2>4. CASE WantClose \/ Close
        <3>1. conns' = conns
            BY <2>4 DEF WantClose, Close, procVars
        <3> QED
            BY <2>1, <3>1
    <2>5. ASSUME NEW q \in Proc, NEW path \in Path,
                 NEW op \in {"write", "put", "remove", "read", "batch"}, Call(q, op, path)
          PROVE  conns'[p] <= conns[p]
        BY <2>1, <2>5 DEF Call
    <2> QED
        BY <2>2, <2>3, <2>4, <2>5 DEF Next
<1> QED
    BY <1>1, RemoteInvariant, PTL DEF Spec, NoConnectionAfterClose
=============================================================================

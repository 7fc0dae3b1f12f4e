--------------------------- MODULE TransferProofs ---------------------------
(***************************************************************************)
(* Theorems about Transfer, for any set of transfers, any size and any     *)
(* number of crashes and failing writes.                                   *)
(*                                                                         *)
(* None of the properties is inductive: after a restart the record is that *)
(* of the state file, so the invariant says of every transfer that has not *)
(* lapsed what the file holds of it, and that the file is behind the       *)
(* memory, and the memory behind the temporary file.                       *)
(***************************************************************************)
EXTENDS Transfer, TLAPS

Recorded(t) == DOMAIN t \subseteq ID /\ \A i \in DOMAIN t : t[i] \in Info

TransferType ==
    /\ Recorded(transfers)
    /\ Recorded(stateFile.transfers)
    /\ temp \in [ID -> {Absent} \cup 0..TotalSize]
    /\ attempts \in [ID -> Nat]
    /\ lapsed \subseteq ID
    /\ begins \in 0..MaxBegins

\* What memory, state file, temporary file and attempts have to do with each other for a
\* transfer whose record is good.
Agrees(i) ==
    /\ stateFile.ok
    /\ DOMAIN transfers \cap {i} = DOMAIN stateFile.transfers \cap {i}
    /\ temp[i] # Absent => i \in DOMAIN transfers
    /\ attempts[i] <= MaxRetries
    /\ i \in DOMAIN transfers =>
         /\ stateFile.transfers[i].transferred <= transfers[i].transferred
         /\ transfers[i].transferred <= temp[i]
         /\ stateFile.transfers[i].retries = transfers[i].retries
         /\ attempts[i] <= transfers[i].retries

TransferInv == TransferType /\ \A i \in ID \ lapsed : Agrees(i)

----------------------------------------------------------------------------
(* The record and the state file.                                           *)

\* Adding or changing one transfer keeps a record a record.
LEMMA WithRecorded ==
    ASSUME NEW t, Recorded(t), NEW i \in ID, NEW info \in Info
    PROVE  Recorded(With(t, i, info))
    BY DEF Recorded, With

\* Forgetting transfers keeps a record a record.
LEMMA WithoutRecorded ==
    ASSUME NEW t, Recorded(t), NEW gone
    PROVE  Recorded(Without(t, gone))
    BY DEF Recorded, Without

\* The record without transfers is a record.
LEMMA NothingRecorded == Recorded(NoTransfers)
    BY DEF Recorded, NoTransfers

\* Changes of a transfer give a transfer.
LEMMA InfoChanges ==
    ASSUME NEW info \in Info, NEW n \in 0..TotalSize
    PROVE  /\ [info EXCEPT !.status = "failed"] \in Info
           /\ [status |-> "uploading", transferred |-> n, retries |-> info.retries] \in Info
           /\ info.retries < MaxRetries => [info EXCEPT !.retries = @ + 1] \in Info
<1>1. /\ info = [status |-> info.status, transferred |-> info.transferred,
                 retries |-> info.retries]
      /\ info.status \in Status /\ info.transferred \in 0..TotalSize
      /\ info.retries \in 0..MaxRetries
    BY DEF Info
<1>2. [info EXCEPT !.status = "failed"] \in Info
    BY <1>1 DEF Info, Status
<1>3. [status |-> "uploading", transferred |-> n, retries |-> info.retries] \in Info
    BY <1>1 DEF Info, Status
<1>4. ASSUME info.retries < MaxRetries
      PROVE  [info EXCEPT !.retries = @ + 1] \in Info
    <2>1. info.retries + 1 \in 0..MaxRetries
        BY <1>1, <1>4, TransferAssumption
    <2> QED
        BY <1>1, <2>1 DEF Info
<1> QED
    BY <1>2, <1>3, <1>4

\* save writes a good record, or leaves the file and lets every transfer lapse.
LEMMA SaveType ==
    ASSUME TransferType, Recorded(transfers'), NEW l \in SUBSET ID, save(l)
    PROVE  /\ Recorded(stateFile'.transfers)
           /\ lapsed' \subseteq ID
           /\ \/ lapsed' = ID
              \/ lapsed' = l /\ stateFile' = Readable(transfers')
<1>1. CASE stateFile' = Readable(transfers') /\ lapsed' = l
    BY <1>1 DEF Readable
<1>2. CASE UNCHANGED stateFile /\ lapsed' = ID
    BY <1>2 DEF TransferType
<1> QED
    BY <1>1, <1>2 DEF save

\* What a step that wrote the state file has to leave for a transfer to agree.
LEMMA SavedAgrees ==
    ASSUME stateFile' = Readable(transfers'), Recorded(transfers'), NEW j \in ID,
           temp'[j] # Absent => j \in DOMAIN transfers',
           attempts'[j] <= MaxRetries,
           j \in DOMAIN transfers' => /\ transfers'[j].transferred <= temp'[j]
                                      /\ attempts'[j] <= transfers'[j].retries
    PROVE  Agrees(j)'
<1>1. stateFile'.ok /\ stateFile'.transfers = transfers'
    BY DEF Readable
<1>2. j \in DOMAIN transfers' => transfers'[j].transferred \in Int
    BY TransferAssumption DEF Recorded, Info
<1> QED
    BY <1>1, <1>2 DEF Agrees

----------------------------------------------------------------------------
(* Every step keeps the invariant.                                          *)

\* A transfer that begins agrees, lapsed or not before, once it is written.
LEMMA BeginKeeps ==
    ASSUME TransferInv, NEW i \in ID, BeginTransfer(i)
    PROVE  TransferInv'
<1> DEFINE new == [status |-> "pending", transferred |-> 0, retries |-> 0]
<1>1. new \in Info
    BY TransferAssumption DEF Info, Status
<1>2. transfers' = With(transfers, i, new)
    BY DEF BeginTransfer
<1>3. Recorded(transfers')
    BY <1>1, <1>2, WithRecorded DEF TransferInv, TransferType
<1>4. /\ temp' = [temp EXCEPT ![i] = 0] /\ attempts' = [attempts EXCEPT ![i] = 0]
      /\ save(lapsed \ {i}) /\ begins < MaxBegins /\ begins' = begins + 1
    BY DEF BeginTransfer
<1>5. lapsed \ {i} \in SUBSET ID
    BY DEF TransferInv, TransferType
<1>6. /\ Recorded(stateFile'.transfers)
      /\ lapsed' \subseteq ID
      /\ \/ lapsed' = ID
         \/ lapsed' = lapsed \ {i} /\ stateFile' = Readable(transfers')
    BY <1>3, <1>4, <1>5, SaveType DEF TransferInv
<1>7. TransferType'
    BY <1>3, <1>4, <1>6, TransferAssumption DEF TransferInv, TransferType
<1>8. ASSUME NEW j \in ID \ lapsed' PROVE Agrees(j)'
    <2>1. lapsed' = lapsed \ {i} /\ stateFile' = Readable(transfers')
        BY <1>6, <1>8
    <2>2. CASE j = i
        BY <1>2, <1>3, <1>4, <2>1, <2>2, SavedAgrees, TransferAssumption
           DEF TransferInv, TransferType, With
    <2>3. CASE j # i
        <3>1. Agrees(j) /\ temp'[j] = temp[j] /\ attempts'[j] = attempts[j]
            BY <1>4, <1>8, <2>1, <2>3 DEF TransferInv, TransferType
        <3>2. /\ (j \in DOMAIN transfers') <=> (j \in DOMAIN transfers)
              /\ j \in DOMAIN transfers => transfers'[j] = transfers[j]
            BY <1>2, <2>3 DEF With
        <3> QED
            BY <1>3, <2>1, <3>1, <3>2, SavedAgrees DEF Agrees
    <2> QED
        BY <2>2, <2>3
<1> QED
    BY <1>7, <1>8 DEF TransferInv

\* A step that changes one transfer in place and saves: what the others had is kept.
LEMMA OthersKept ==
    ASSUME TransferInv, NEW i \in ID, NEW j \in ID \ lapsed, j # i, Recorded(transfers'),
           stateFile' = Readable(transfers'),
           temp'[j] = temp[j], attempts'[j] = attempts[j],
           (j \in DOMAIN transfers') <=> (j \in DOMAIN transfers),
           j \in DOMAIN transfers => transfers'[j] = transfers[j]
    PROVE  Agrees(j)'
<1>1. Agrees(j)
    BY DEF TransferInv
<1> QED
    BY <1>1, SavedAgrees DEF Agrees

\* CompleteTransfer.
LEMMA CompleteKeeps ==
    ASSUME TransferInv, NEW i \in ID, CompleteTransfer(i)
    PROVE  TransferInv'
<1>1. /\ transfers' = Without(transfers, {i}) /\ temp' = [temp EXCEPT ![i] = Absent]
      /\ save(lapsed) /\ UNCHANGED <<attempts, begins>>
    BY DEF CompleteTransfer
<1>2. Recorded(transfers')
    BY <1>1, WithoutRecorded DEF TransferInv, TransferType
<1>3. /\ Recorded(stateFile'.transfers)
      /\ lapsed' \subseteq ID
      /\ \/ lapsed' = ID
         \/ lapsed' = lapsed /\ stateFile' = Readable(transfers')
    BY <1>1, <1>2, SaveType DEF TransferInv, TransferType
<1>4. TransferType'
    BY <1>1, <1>2, <1>3, TransferAssumption DEF TransferInv, TransferType
<1>5. ASSUME NEW j \in ID \ lapsed' PROVE Agrees(j)'
    <2>1. lapsed' = lapsed /\ stateFile' = Readable(transfers')
        BY <1>3, <1>5
    <2>2. CASE j = i
        <3>1. Agrees(j) /\ j \notin DOMAIN transfers' /\ temp'[j] = Absent
            BY <1>1, <1>5, <2>1, <2>2 DEF TransferInv, TransferType, Without
        <3> QED
            BY <1>1, <1>2, <2>1, <3>1, SavedAgrees DEF Agrees
    <2>3. CASE j # i
        BY <1>1, <1>2, <1>5, <2>1, <2>3, OthersKept DEF TransferInv, TransferType, Without
    <2> QED
        BY <2>2, <2>3
<1> QED
    BY <1>4, <1>5 DEF TransferInv

\* FailTransfer.
LEMMA FailKeeps ==
    ASSUME TransferInv, NEW i \in ID, FailTransfer(i)
    PROVE  TransferInv'
<1> DEFINE info == [transfers[i] EXCEPT !.status = "failed"]
<1>1. /\ i \in DOMAIN transfers /\ transfers' = With(transfers, i, info)
      /\ save(lapsed) /\ UNCHANGED <<temp, attempts, begins>>
    BY DEF FailTransfer
<1>2. transfers[i] \in Info /\ 0 \in 0..TotalSize
    BY <1>1, TransferAssumption DEF TransferInv, TransferType, Recorded
<1>3. /\ info \in Info /\ info.transferred = transfers[i].transferred
      /\ info.retries = transfers[i].retries
    BY <1>2, InfoChanges DEF Info
<1>4. Recorded(transfers')
    BY <1>1, <1>3, WithRecorded DEF TransferInv, TransferType
<1>5. /\ Recorded(stateFile'.transfers)
      /\ lapsed' \subseteq ID
      /\ \/ lapsed' = ID
         \/ lapsed' = lapsed /\ stateFile' = Readable(transfers')
    BY <1>1, <1>4, SaveType DEF TransferInv, TransferType
<1>6. TransferType'
    BY <1>1, <1>4, <1>5 DEF TransferInv, TransferType
<1>7. ASSUME NEW j \in ID \ lapsed' PROVE Agrees(j)'
    <2>1. lapsed' = lapsed /\ stateFile' = Readable(transfers')
        BY <1>5, <1>7
    <2>2. CASE j = i
        <3>1. Agrees(j) /\ transfers'[j] = info /\ j \in DOMAIN transfers'
            BY <1>1, <1>7, <2>1, <2>2 DEF TransferInv, With
        <3> HIDE DEF info
        <3> QED
            BY <1>1, <1>3, <1>4, <2>1, <2>2, <3>1, SavedAgrees DEF Agrees
    <2>3. CASE j # i
        BY <1>1, <1>4, <1>7, <2>1, <2>3, OthersKept DEF With
    <2> QED
        BY <2>2, <2>3
<1> QED
    BY <1>6, <1>7 DEF TransferInv

\* IncrementRetry: the attempt is counted in the file before it is made.
LEMMA RetryKeeps ==
    ASSUME TransferInv, NEW i \in ID, IncrementRetry(i)
    PROVE  TransferInv'
<1> DEFINE info == [transfers[i] EXCEPT !.retries = @ + 1]
<1>1. /\ i \in DOMAIN transfers /\ transfers' = With(transfers, i, info)
      /\ transfers[i].retries < MaxRetries
      /\ attempts' = [attempts EXCEPT ![i] = @ + 1]
      /\ save(lapsed) /\ UNCHANGED <<temp, begins>>
    BY DEF IncrementRetry, CanRetry
<1>2. transfers[i] \in Info /\ 0 \in 0..TotalSize
    BY <1>1, TransferAssumption DEF TransferInv, TransferType, Recorded
<1>3. /\ info \in Info /\ info.transferred = transfers[i].transferred
      /\ info.retries = transfers[i].retries + 1 /\ transfers[i].retries \in 0..MaxRetries
    BY <1>1, <1>2, InfoChanges DEF Info
<1>4. Recorded(transfers')
    BY <1>1, <1>3, WithRecorded DEF TransferInv, TransferType
<1>5. /\ Recorded(stateFile'.transfers)
      /\ lapsed' \subseteq ID
      /\ \/ lapsed' = ID
         \/ lapsed' = lapsed /\ stateFile' = Readable(transfers')
    BY <1>1, <1>4, SaveType DEF TransferInv, TransferType
<1>6. TransferType'
    BY <1>1, <1>4, <1>5 DEF TransferInv, TransferType
<1>7. ASSUME NEW j \in ID \ lapsed' PROVE Agrees(j)'
    <2>1. lapsed' = lapsed /\ stateFile' = Readable(transfers')
        BY <1>5, <1>7
    <2>2. CASE j = i
        <3>1. /\ Agrees(j) /\ transfers'[j] = info /\ j \in DOMAIN transfers'
              /\ attempts'[j] = attempts[j] + 1 /\ attempts[j] \in Nat
            BY <1>1, <1>7, <2>1, <2>2 DEF TransferInv, TransferType, With
        <3>2. attempts'[j] <= info.retries /\ attempts'[j] <= MaxRetries
            BY <1>1, <1>3, <2>2, <3>1, TransferAssumption DEF Agrees
        <3> HIDE DEF info
        <3> QED
            BY <1>1, <1>3, <1>4, <2>1, <2>2, <3>1, <3>2, SavedAgrees DEF Agrees
    <2>3. CASE j # i
        BY <1>1, <1>4, <1>7, <2>1, <2>3, OthersKept DEF TransferInv, TransferType, With
    <2> QED
        BY <2>2, <2>3
<1> QED
    BY <1>6, <1>7 DEF TransferInv

\* Upload and Resume change the temporary file only, and not below what is reported.
LEMMA TempKeeps ==
    ASSUME TransferInv, NEW i \in ID, Upload(i) \/ Resume(i)
    PROVE  TransferInv'
<1>1. UNCHANGED <<transfers, stateFile, attempts, lapsed, begins>>
    BY DEF Upload, Resume
<1>2. i \in DOMAIN transfers
    BY DEF Upload, Resume, GetResumeInfo
<1>3. transfers[i] \in Info /\ transfers[i].transferred \in 0..TotalSize
    BY <1>2 DEF TransferInv, TransferType, Recorded, Info
<1>4. PICK n \in 0..TotalSize :
        /\ temp' = [temp EXCEPT ![i] = n]
        /\ transfers[i].transferred <= temp[i] => transfers[i].transferred <= n
    <2>1. CASE Upload(i)
        <3>1. temp[i] + 1 \in 0..TotalSize /\ temp[i] \in Int
            BY <2>1, TransferAssumption DEF Upload
        <3>2. temp' = [temp EXCEPT ![i] = temp[i] + 1]
            BY <2>1 DEF Upload
        <3>3. transfers[i].transferred <= temp[i] => transfers[i].transferred <= temp[i] + 1
            BY <1>3, <3>1
        <3> QED
            BY <3>1, <3>2, <3>3
    <2>2. CASE Resume(i)
        <3>1. GetResumeInfo(i) = transfers[i].transferred
            BY <2>2 DEF Resume, GetResumeInfo
        <3>2. temp' = [temp EXCEPT ![i] = transfers[i].transferred]
            BY <2>2, <3>1 DEF Resume
        <3>3. transfers[i].transferred <= transfers[i].transferred
            BY <1>3
        <3> QED
            BY <1>3, <3>2, <3>3
    <2> QED
        BY <2>1, <2>2
<1>5. TransferType'
    BY <1>1, <1>4 DEF TransferInv, TransferType, Recorded
<1>6. ASSUME NEW j \in ID \ lapsed' PROVE Agrees(j)'
    <2>1. Agrees(j)
        BY <1>1, <1>6 DEF TransferInv
    <2>2. CASE j = i
        BY <1>1, <1>2, <1>4, <2>1, <2>2 DEF Agrees, TransferInv, TransferType
    <2>3. CASE j # i
        <3>1. temp'[j] = temp[j]
            BY <1>4, <2>3 DEF TransferInv, TransferType
        <3> QED
            BY <1>1, <2>1, <3>1 DEF Agrees
    <2> QED
        BY <2>2, <2>3
<1> QED
    BY <1>5, <1>6 DEF TransferInv

\* UpdateProgress: memory runs ahead of the file, up to the temporary file.
LEMMA ProgressKeeps ==
    ASSUME TransferInv, NEW i \in ID, UpdateProgress(i)
    PROVE  TransferInv'
<1> DEFINE info == [status |-> "uploading", transferred |-> temp[i],
                    retries |-> transfers[i].retries]
<1>1. /\ i \in DOMAIN transfers /\ temp[i] # Absent
      /\ transfers' = With(transfers, i, info)
      /\ UNCHANGED <<stateFile, temp, attempts, lapsed, begins>>
    BY DEF UpdateProgress
<1>2. transfers[i] \in Info /\ temp[i] \in 0..TotalSize
    BY <1>1 DEF TransferInv, TransferType, Recorded
<1>3. info \in Info
    BY <1>2, InfoChanges
<1>4. TransferType'
    BY <1>1, <1>3, WithRecorded DEF TransferInv, TransferType, Recorded
<1>5. ASSUME NEW j \in ID \ lapsed' PROVE Agrees(j)'
    <2>1. Agrees(j)
        BY <1>1, <1>5 DEF TransferInv
    <2>2. CASE j = i
        <3>1. j \in DOMAIN stateFile.transfers
            BY <1>1, <2>1, <2>2 DEF Agrees
        <3>2. /\ stateFile.transfers[j].transferred \in Int
              /\ transfers[j].transferred \in Int
            BY <1>2, <2>2, <3>1, TransferAssumption DEF TransferInv, TransferType, Recorded, Info
        <3>3. /\ j \in DOMAIN transfers' /\ transfers'[j].transferred = temp[j]
              /\ transfers'[j].retries = transfers[j].retries
            BY <1>1, <2>2 DEF With
        <3>4. DOMAIN transfers' \cap {j} = DOMAIN transfers \cap {j}
            BY <1>1, <2>2, <3>3
        <3> QED
            BY <1>1, <1>2, <2>1, <2>2, <3>2, <3>3, <3>4 DEF Agrees
    <2>3. CASE j # i
        <3>1. /\ DOMAIN transfers' \cap {j} = DOMAIN transfers \cap {j}
              /\ j \in DOMAIN transfers' => j \in DOMAIN transfers /\ transfers'[j] = transfers[j]
              /\ j \in DOMAIN transfers => j \in DOMAIN transfers'
            BY <1>1, <2>3 DEF With
        <3> QED
            BY <1>1, <2>1, <3>1 DEF Agrees
    <2> QED
        BY <2>2, <2>3
<1> QED
    BY <1>4, <1>5 DEF TransferInv

\* CleanupIncomplete: what is forgotten and not removed lapses.
LEMMA CleanupKeeps ==
    ASSUME TransferInv, CleanupIncomplete
    PROVE  TransferInv'
<1> DEFINE gone == {i \in DOMAIN transfers : transfers[i].status \in {"failed", "pending"}}
<1>1. transfers' = Without(transfers, gone) /\ UNCHANGED <<attempts, begins>>
    BY DEF CleanupIncomplete
<1>2. PICK kept \in SUBSET gone :
        /\ temp' = [i \in ID |-> IF i \in gone \ kept THEN Absent ELSE temp[i]]
        /\ \/ stateFile' = Readable(transfers') /\ lapsed' = lapsed \cup kept
           \/ UNCHANGED stateFile /\ lapsed' = ID
    BY DEF CleanupIncomplete
<1>3. gone \subseteq ID
    BY DEF TransferInv, TransferType, Recorded
<1> HIDE DEF gone
<1>4. Recorded(transfers')
    BY <1>1, WithoutRecorded DEF TransferInv, TransferType
<1>5. Recorded(stateFile'.transfers)
    BY <1>2, <1>4 DEF TransferInv, TransferType, Readable
<1>6. TransferType'
    BY <1>1, <1>2, <1>3, <1>4, <1>5 DEF TransferInv, TransferType
<1>7. ASSUME NEW j \in ID \ lapsed' PROVE Agrees(j)'
    <2>1. stateFile' = Readable(transfers') /\ lapsed' = lapsed \cup kept
        BY <1>2, <1>7
    <2>2. Agrees(j) /\ j \notin kept
        BY <1>7, <2>1 DEF TransferInv
    <2>3. CASE j \in gone
        BY <1>1, <1>2, <1>4, <2>1, <2>2, <2>3, SavedAgrees DEF Agrees, Without
    <2>4. CASE j \notin gone
        <3>1. /\ temp'[j] = temp[j] /\ attempts'[j] = attempts[j]
              /\ (j \in DOMAIN transfers') <=> (j \in DOMAIN transfers)
              /\ j \in DOMAIN transfers => transfers'[j] = transfers[j]
            BY <1>1, <1>2, <2>4 DEF Without
        <3> QED
            BY <1>4, <2>1, <2>2, <3>1, SavedAgrees DEF Agrees
    <2> QED
        BY <2>3, <2>4
<1> QED
    BY <1>6, <1>7 DEF TransferInv

\* CleanupOldTransfers: what is forgotten lapses.
LEMMA OldKeeps ==
    ASSUME TransferInv, CleanupOldTransfers
    PROVE  TransferInv'
<1>1. PICK old \in SUBSET DOMAIN transfers :
        transfers' = Without(transfers, old) /\ save(lapsed \cup old)
    BY DEF CleanupOldTransfers
<1>2. UNCHANGED <<temp, attempts, begins>>
    BY DEF CleanupOldTransfers
<1>3. Recorded(transfers') /\ lapsed \cup old \in SUBSET ID
    BY <1>1, WithoutRecorded DEF TransferInv, TransferType, Recorded
<1>4. /\ Recorded(stateFile'.transfers)
      /\ lapsed' \subseteq ID
      /\ \/ lapsed' = ID
         \/ lapsed' = lapsed \cup old /\ stateFile' = Readable(transfers')
    BY <1>1, <1>3, SaveType DEF TransferInv
<1>5. TransferType'
    BY <1>2, <1>3, <1>4 DEF TransferInv, TransferType
<1>6. ASSUME NEW j \in ID \ lapsed' PROVE Agrees(j)'
    <2>1. stateFile' = Readable(transfers') /\ lapsed' = lapsed \cup old
        BY <1>4, <1>6
    <2>2. Agrees(j) /\ j \notin old
        BY <1>6, <2>1 DEF TransferInv
    <2>3. /\ (j \in DOMAIN transfers') <=> (j \in DOMAIN transfers)
          /\ j \in DOMAIN transfers => transfers'[j] = transfers[j]
        BY <1>1, <2>2 DEF Without
    <2> QED
        BY <1>2, <1>3, <2>1, <2>2, <2>3, SavedAgrees DEF Agrees
<1> QED
    BY <1>5, <1>6 DEF TransferInv

\* Restart: memory falls back to the file, which is behind it but knows every transfer
\* and every retry.
LEMMA RestartKeeps ==
    ASSUME TransferInv, Restart
    PROVE  TransferInv'
<1>1. transfers' = load(stateFile) /\ UNCHANGED <<stateFile, temp, attempts, lapsed, begins>>
    BY DEF Restart
<1>2. TransferType'
    BY <1>1, NothingRecorded DEF TransferInv, TransferType, Recorded, load
<1>3. ASSUME NEW j \in ID \ lapsed' PROVE Agrees(j)'
    <2>1. Agrees(j)
        BY <1>1, <1>3 DEF TransferInv
    <2>2. transfers' = stateFile.transfers
        BY <1>1, <2>1 DEF Agrees, load
    <2>3. j \in DOMAIN stateFile.transfers =>
            /\ j \in DOMAIN transfers
            /\ stateFile.transfers[j].transferred \in 0..TotalSize
            /\ transfers[j].transferred \in 0..TotalSize
        BY <2>1 DEF Agrees, TransferInv, TransferType, Recorded, Info
    <2>4. temp[j] \in Int
        BY <1>3, TransferAssumption DEF TransferInv, TransferType, Absent
    <2> QED
        BY <1>1, <2>1, <2>2, <2>3, <2>4, TransferAssumption DEF Agrees
<1> QED
    BY <1>2, <1>3 DEF TransferInv

\* A state file that is torn lets every transfer lapse.
LEMMA TornKeeps ==
    ASSUME TransferInv, RestartInSave
    PROVE  TransferInv'
    BY NothingRecorded DEF RestartInSave, TransferInv, TransferType, Recorded, load, Unreadable

\* The invariant holds at the start and is kept by every step.
THEOREM Invariance == Spec => []TransferInv
<1>1. Init => TransferInv
    <2> SUFFICES ASSUME Init PROVE TransferInv
        OBVIOUS
    <2>1. transfers = NoTransfers /\ stateFile.ok /\ stateFile.transfers = NoTransfers
        BY DEF Init, Readable
    <2>2. TransferType
        BY <2>1, NothingRecorded, TransferAssumption DEF Init, TransferType, Absent
    <2>3. ASSUME NEW i \in ID PROVE Agrees(i)
        BY <2>1, TransferAssumption DEF Init, Agrees, NoTransfers
    <2> QED
        BY <2>2, <2>3 DEF TransferInv
<1>2. TransferInv /\ [Next]_vars => TransferInv'
    <2> SUFFICES ASSUME TransferInv, [Next]_vars PROVE TransferInv'
        OBVIOUS
    <2>1. ASSUME NEW i \in ID, BeginTransfer(i) PROVE TransferInv'
        BY <2>1, BeginKeeps
    <2>2. ASSUME NEW i \in ID, Upload(i) \/ Resume(i) PROVE TransferInv'
        BY <2>2, TempKeeps
    <2>3. ASSUME NEW i \in ID, UpdateProgress(i) PROVE TransferInv'
        BY <2>3, ProgressKeeps
    <2>4. ASSUME NEW i \in ID, CompleteTransfer(i) PROVE TransferInv'
        BY <2>4, CompleteKeeps
    <2>5. ASSUME NEW i \in ID, FailTransfer(i) PROVE TransferInv'
        BY <2>5, FailKeeps
    <2>6. ASSUME NEW i \in ID, IncrementRetry(i) PROVE TransferInv'
        BY <2>6, RetryKeeps
    <2>7. CASE CleanupIncomplete
        BY <2>7, CleanupKeeps
    <2>8. CASE CleanupOldTransfers
        BY <2>8, OldKeeps
    <2>9. CASE Restart
        BY <2>9, RestartKeeps
    <2>10. CASE RestartInSave
        BY <2>10, TornKeeps
    <2>11. CASE UNCHANGED vars
        BY <2>11 DEF vars, TransferInv, TransferType, Recorded, Agrees
    <2> QED
        BY <2>1, <2>2, <2>3, <2>4, <2>5, <2>6, <2>7, <2>8, <2>9, <2>10, <2>11 DEF Next
<1> QED
    BY <1>1, <1>2, PTL DEF Spec

----------------------------------------------------------------------------
(* What follows.                                                            *)

\* The record, the temporary files and the counters have their types.
THEOREM TypeCorrect == Spec => []TypeOK
<1>1. TransferInv => TypeOK
    BY DEF TransferInv, TransferType, Recorded, TypeOK
<1> QED
    BY <1>1, Invariance, PTL

\* GetResumeInfo never gives an offset behind the end of the temporary file, unless a
\* write of the state file failed: progress that only memory knew is lost, not invented.
THEOREM ResumesWithinFile == Spec => []ResumeSafe
<1>1. TransferInv => ResumeSafe
    <2> SUFFICES ASSUME TransferInv, NEW i \in ID \ lapsed PROVE GetResumeInfo(i) <= temp[i]
        BY DEF ResumeSafe
    <2>1. Agrees(i) /\ temp[i] \in {Absent} \cup 0..TotalSize
        BY DEF TransferInv, TransferType
    <2> QED
        BY <2>1, TransferAssumption DEF Agrees, GetResumeInfo, Absent
<1> QED
    BY <1>1, Invariance, PTL

\* No crash leaves a temporary file that CleanupIncomplete cannot know of.
THEOREM TempsAreKnown == Spec => []TempsTracked
<1>1. TransferInv => TempsTracked
    BY DEF TransferInv, Agrees, TempsTracked
<1> QED
    BY <1>1, Invariance, PTL

\* The record is of its type and knows every temporary file.
THEOREM RecordIsSound == Spec => []RecordSound
<1>1. TypeOK /\ TempsTracked => RecordSound
    BY DEF RecordSound
<1> QED
    BY <1>1, TypeCorrect, TempsAreKnown, PTL

\* IncrementRetry is written before the attempt, so crashes give no further ones.
THEOREM RetriesAreBounded == Spec => []RetriesBounded
<1>1. TransferInv => RetriesBounded
    BY DEF TransferInv, Agrees, RetriesBounded
<1> QED
    BY <1>1, Invariance, PTL
=============================================================================

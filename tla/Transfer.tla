------------------------------ MODULE Transfer ------------------------------
(***************************************************************************)
(* The record of file transfers: storage/transfer.go.                      *)
(*                                                                         *)
(* TransferState keeps the transfers in memory and writes all of them to   *)
(* its state file on most of the calls, ignoring errors; a progress report *)
(* is not written.  The uploader that uses it, which is not in the         *)
(* repository, is modelled as the calls suggest: begin, write a part of    *)
(* the temporary file and report it, complete or fail, try again while     *)
(* CanRetry, clean up.  The program may end between any two steps and load *)
(* the file again.                                                         *)
(***************************************************************************)
EXTENDS Integers, FiniteSets

CONSTANTS ID,           \* transfers
          TotalSize,    \* parts of a file
          MaxRetries,   \* the limit given to CanRetry
          MaxBegins,    \* bound on BeginTransfer
          MaxCrashes,   \* bound on crashes
          MaxFaults     \* bound on failing writes and removals

ASSUME TransferAssumption ==
    /\ TotalSize \in Nat \ {0} /\ MaxRetries \in Nat
    /\ MaxBegins \in Nat /\ MaxCrashes \in Nat /\ MaxFaults \in Nat

VARIABLES transfers,  \* ts.transfers
          stateFile,  \* what the state file holds, and whether it can be read
          temp,       \* the parts in each temporary file, or Absent
          attempts,   \* history: attempts after the first since BeginTransfer
          lapsed,     \* history: transfers whose record was lost or not written
          begins, crashes, faults

vars == <<transfers, stateFile, temp, attempts, lapsed, begins, crashes, faults>>

Absent == -1
NoTransfers == [i \in {} |-> 0]
Readable(t) == [ok |-> TRUE, transfers |-> t]
Unreadable == [ok |-> FALSE, transfers |-> NoTransfers]
Status == {"pending", "uploading", "failed"}
Info == [status : Status, transferred : 0..TotalSize, retries : 0..MaxRetries]

Init ==
    /\ transfers = NoTransfers /\ stateFile = Readable(NoTransfers)
    /\ temp = [i \in ID |-> Absent]
    /\ attempts = [i \in ID |-> 0] /\ lapsed = {}
    /\ begins = 0 /\ crashes = 0 /\ faults = 0

----------------------------------------------------------------------------
With(t, i, info) == [j \in DOMAIN t \cup {i} |-> IF j = i THEN info ELSE t[j]]
Without(t, gone) == [j \in DOMAIN t \ gone |-> t[j]]

Fault == faults < MaxFaults /\ faults' = faults + 1

\* save: the whole record is written; an error is ignored.
save(lapsedThen) ==
    \/ stateFile' = Readable(transfers') /\ lapsed' = lapsedThen /\ UNCHANGED faults
    \/ Fault /\ UNCHANGED stateFile /\ lapsed' = ID

\* load: a file that cannot be read or parsed is no transfers.
load(file) == IF file.ok THEN file.transfers ELSE NoTransfers

\* Mutant of BeginTransfer: the record is not written.
BeginUnsaved(i) ==
    /\ begins < MaxBegins /\ begins' = begins + 1
    /\ transfers' = With(transfers, i, [status |-> "pending", transferred |-> 0, retries |-> 0])
    /\ temp' = [temp EXCEPT ![i] = 0]
    /\ attempts' = [attempts EXCEPT ![i] = 0]
    /\ UNCHANGED <<stateFile, lapsed, crashes, faults>>

\* BeginTransfer, after which the uploader creates the temporary file.
BeginTransfer(i) ==
    /\ begins < MaxBegins /\ begins' = begins + 1
    /\ transfers' = With(transfers, i, [status |-> "pending", transferred |-> 0, retries |-> 0])
    /\ temp' = [temp EXCEPT ![i] = 0]
    /\ attempts' = [attempts EXCEPT ![i] = 0]
    /\ save(lapsed \ {i})
    /\ UNCHANGED crashes

\* Another part goes to the temporary file.
Upload(i) ==
    /\ i \in DOMAIN transfers /\ temp[i] \in 0..(TotalSize - 1)
    /\ temp' = [temp EXCEPT ![i] = @ + 1]
    /\ UNCHANGED <<transfers, stateFile, attempts, lapsed, begins, crashes, faults>>

\* Mutant of UpdateProgress: the part under way is counted.
UpdateProgressAhead(i) ==
    /\ i \in DOMAIN transfers /\ temp[i] \in 0..(TotalSize - 1)
    /\ transfers' = With(transfers, i, [status |-> "uploading", transferred |-> temp[i] + 1,
                                         retries |-> transfers[i].retries])
    /\ UNCHANGED <<stateFile, temp, attempts, lapsed, begins, crashes, faults>>

\* UpdateProgress: what has been written is reported, in memory only.
UpdateProgress(i) ==
    /\ i \in DOMAIN transfers /\ temp[i] # Absent
    /\ transfers' = With(transfers, i, [status |-> "uploading", transferred |-> temp[i],
                                         retries |-> transfers[i].retries])
    /\ UNCHANGED <<stateFile, temp, attempts, lapsed, begins, crashes, faults>>

\* The temporary file is renamed to its target; CompleteTransfer forgets the transfer.
CompleteTransfer(i) ==
    /\ i \in DOMAIN transfers /\ temp[i] = TotalSize
    /\ temp' = [temp EXCEPT ![i] = Absent]
    /\ transfers' = Without(transfers, {i})
    /\ save(lapsed)
    /\ UNCHANGED <<attempts, begins, crashes>>

\* FailTransfer.
FailTransfer(i) ==
    /\ i \in DOMAIN transfers /\ transfers[i].status # "failed"
    /\ transfers' = With(transfers, i, [transfers[i] EXCEPT !.status = "failed"])
    /\ save(lapsed)
    /\ UNCHANGED <<temp, attempts, begins, crashes>>

\* CanRetry.
CanRetry(i) == transfers[i].retries < MaxRetries

\* Mutant of IncrementRetry: the record is not written.
IncrementRetryUnsaved(i) ==
    /\ i \in DOMAIN transfers /\ transfers[i].status = "failed" /\ CanRetry(i)
    /\ transfers' = With(transfers, i, [transfers[i] EXCEPT !.retries = @ + 1])
    /\ attempts' = [attempts EXCEPT ![i] = @ + 1]
    /\ UNCHANGED <<stateFile, temp, lapsed, begins, crashes, faults>>

\* A failed transfer is tried again while CanRetry: IncrementRetry is written, and the next
\* progress report makes it an upload.
IncrementRetry(i) ==
    /\ i \in DOMAIN transfers /\ transfers[i].status = "failed" /\ CanRetry(i)
    /\ transfers' = With(transfers, i, [transfers[i] EXCEPT !.retries = @ + 1])
    /\ attempts' = [attempts EXCEPT ![i] = @ + 1]
    /\ save(lapsed)
    /\ UNCHANGED <<temp, begins, crashes>>

\* GetResumeInfo: where an upload may go on.
GetResumeInfo(i) ==
    IF i \in DOMAIN transfers /\ transfers[i].status = "uploading" /\ transfers[i].transferred > 0
    THEN transfers[i].transferred ELSE Absent

\* The uploader goes on at the offset: what is in the file behind it is written again.
Resume(i) ==
    /\ GetResumeInfo(i) # Absent /\ temp[i] > GetResumeInfo(i)
    /\ temp' = [temp EXCEPT ![i] = GetResumeInfo(i)]
    /\ UNCHANGED <<transfers, stateFile, attempts, lapsed, begins, crashes, faults>>

\* CleanupIncomplete: the temporary files of failed and pending transfers are removed, and
\* the transfers forgotten even where the removal fails.
CleanupIncomplete ==
    LET gone == {i \in DOMAIN transfers : transfers[i].status \in {"failed", "pending"}}
    IN  /\ gone # {}
        /\ transfers' = Without(transfers, gone)
        /\ \E kept \in SUBSET gone :
             /\ kept # {} => faults < MaxFaults
             /\ temp' = [i \in ID |-> IF i \in gone \ kept THEN Absent ELSE temp[i]]
             /\ \/ stateFile' = Readable(transfers') /\ lapsed' = lapsed \cup kept
                   /\ faults' = IF kept = {} THEN faults ELSE faults + 1
                \/ Fault /\ UNCHANGED stateFile /\ lapsed' = ID
        /\ UNCHANGED <<attempts, begins, crashes>>

\* CleanupOldTransfers: transfers are forgotten by age, their temporary files stay.
CleanupOldTransfers ==
    /\ \E old \in (SUBSET DOMAIN transfers) \ {{}} :
         /\ transfers' = Without(transfers, old)
         /\ save(lapsed \cup old)
    /\ UNCHANGED <<temp, attempts, begins, crashes>>

\* The program ends; NewTransferState loads the file.
Restart ==
    /\ crashes < MaxCrashes /\ crashes' = crashes + 1
    /\ transfers' = load(stateFile)
    /\ UNCHANGED <<stateFile, temp, attempts, lapsed, begins, faults>>

\* The program ends while LocalFS.WriteFile writes the state file in place.
RestartInSave ==
    /\ crashes < MaxCrashes /\ crashes' = crashes + 1
    /\ stateFile' = Unreadable /\ transfers' = load(Unreadable)
    /\ lapsed' = ID
    /\ UNCHANGED <<temp, attempts, begins, faults>>

Next ==
    \/ \E i \in ID : \/ BeginTransfer(i) \/ Upload(i) \/ UpdateProgress(i)
                     \/ CompleteTransfer(i) \/ FailTransfer(i) \/ IncrementRetry(i) \/ Resume(i)
    \/ CleanupIncomplete \/ CleanupOldTransfers \/ Restart \/ RestartInSave

Spec == Init /\ [][Next]_vars

----------------------------------------------------------------------------
(* Properties.                                                              *)

\* What the variables hold.
TypeOK ==
    /\ DOMAIN transfers \subseteq ID /\ \A i \in DOMAIN transfers : transfers[i] \in Info
    /\ temp \in [ID -> {Absent} \cup 0..TotalSize]
    /\ begins \in 0..MaxBegins

\* An upload that is resumed, before or after a crash, never starts behind what is in the
\* temporary file, although progress is not written; only a write of the state file that
\* failed can lead to it.
ResumeSafe ==
    \A i \in ID \ lapsed : GetResumeInfo(i) <= temp[i]

\* Every temporary file is known to the record, through crashes too, until the record is
\* dropped by age, its removal fails, or the state file is not written.
TempsTracked ==
    \A i \in ID \ lapsed : temp[i] # Absent => i \in DOMAIN transfers

\* Crashes give a transfer no further attempts.
RetriesBounded ==
    \A i \in ID \ lapsed : attempts[i] <= MaxRetries

\* The record is of its type and knows every temporary file, through crashes too.
RecordSound == TypeOK /\ TempsTracked
=============================================================================

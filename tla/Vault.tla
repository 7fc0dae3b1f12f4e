------------------------------- MODULE Vault -------------------------------
(***************************************************************************)
(* Encryption, password changes and the blob store of a database directory *)
(* (storage/storage.go, storage/wal.go, storage/crypto, executor.go).      *)
(*                                                                         *)
(* Three kinds of files are written under a key: the metadata file, the    *)
(* records of the write-ahead log and the blobs.  Decrypting with another  *)
(* key does not fail, it gives other bytes: JSON is then not recognised,   *)
(* and a blob is returned as garbage.  What is not encrypted lacks the     *)
(* magic bytes, and decrypting it does fail.                               *)
(*                                                                         *)
(* A call holds the lock; the steps that write files are actions of their  *)
(* own, so that the process may crash between them.  The database exists   *)
(* at the start.  Rows, table files and failing writes are in TableStore   *)
(* and Catalog; a table is created under a name that was never used.       *)
(***************************************************************************)
EXTENDS Integers, Sequences, FiniteSets, SequencesExt

CONSTANTS Passwords,   \* non-empty passwords
          Plain,       \* the key of what is not encrypted, and the empty password
          Tables,      \* names of tables
          Contents,    \* contents of blobs
          MaxID,       \* bound on the numbers given to blobs
          MaxLog,      \* bound on the records of the log
          MaxCalls     \* bound on the calls that set a password while open

ASSUME VaultAssumption ==
    /\ Plain \notin Passwords
    /\ MaxID \in Nat /\ MaxLog \in Nat /\ MaxCalls \in Nat

Keys == Passwords \cup {Plain}

VARIABLES meta,      \* the metadata file: its key, nextID and the tables
          wal,       \* the log: a sequence of <<key, table>>
          blobs,     \* the blob files: a set of <<id, key, content>>
          mem,       \* the Storage: whether it is open, its key, nextID, tables, skipSave
          steps,     \* what the call in progress has still to do
          call,      \* what it returns: the table created or the password set
          calls,     \* the number of calls that set a password while open
          \* History: what the client was told.
          known,     \* the password that was set last
          tried,     \* passwords given since to calls that failed or did not save
          acked,     \* the tables created
          unsafe,    \* those of them that bulk mode or a mixed log has given up
          stored     \* the blobs stored, <<id, key, content>>, whose id was saved or is in use

files == <<meta, wal, blobs>>
history == <<known, tried, acked, unsafe, stored>>
vars == <<files, mem, steps, call, calls, history>>

NoCall == <<"none", Plain>>
Closed == [open |-> FALSE, key |-> Plain, nextID |-> 1, tables |-> {}, skip |-> FALSE]

\* A client can make a call when none is in progress.
Idle == mem.open /\ steps = << >> /\ call = NoCall

----------------------------------------------------------------------------
(* Reading.                                                                 *)

\* The records that WAL.ReadAll returns with a key.  A record that fails to decrypt
\* ends the log; one that decrypts to something else, or that is encrypted and read
\* without a key, is an error, and then there are no records at all.
ReadAll(log, key) ==
    LET bad == SelectInSeq(log, LAMBDA r : r[1] # key)
    IN  CASE bad = 0 -> log
          [] bad # 0 /\ key # Plain /\ log[bad][1] = Plain -> SubSeq(log, 1, bad - 1)
          [] OTHER -> << >>

TablesOf(log) == {log[i][2] : i \in 1..Len(log)}

\* loadMetadata and recoverFromWAL with the key the metadata has: nextID is that of
\* the metadata, the tables are also those of the log.
Load(m, file, log) ==
    [open |-> TRUE, key |-> file.key, nextID |-> file.nextID,
     tables |-> file.tables \cup TablesOf(ReadAll(log, file.key)), skip |-> m.skip]

\* ReadBlob of a file: its content, or something else (<< >>).  With a key, a blob
\* that is not encrypted is returned as it is.
ReadBlob(b) == IF b[2] \in {mem.key, Plain} THEN <<b[3]>> ELSE << >>

----------------------------------------------------------------------------
(* The steps of a call.                                                     *)

Init ==
    /\ meta \in [key : Keys, nextID : {1}, tables : {{}}]
    /\ wal = << >> /\ blobs = {} /\ mem = Closed
    /\ steps = << >> /\ call = NoCall /\ calls = 0
    /\ known = meta.key /\ tried = {} /\ acked = {} /\ unsafe = {} /\ stored = {}

Begin(s, c) == steps' = s /\ call' = c

\* A password is set while the database is open.
CountCall == calls < MaxCalls /\ calls' = calls + 1

\* Tables that only the log has.
LogOnly == acked \ meta.tables

\* The blobs whose number is not given again once nextID is that of the metadata.
Kept == {b \in stored : b[1] < meta.nextID}

\* The log holds a record that the key of the metadata does not read.
Mixed(log) == \E i \in 1..Len(log) : log[i][1] # meta.key

\* writeWAL of the record of CreateTable.
WriteWAL ==
    /\ steps # << >> /\ Head(steps) = "log"
    /\ wal' = Append(wal, <<mem.key, call[2]>>)
    /\ steps' = Tail(steps)
    /\ unsafe' = IF Mixed(wal') THEN unsafe \cup LogOnly ELSE unsafe
    /\ UNCHANGED <<calls, meta, blobs, mem, call, known, tried, acked, stored>>

\* saveMetadata does nothing in bulk mode, which ForceSave suspends.
SaveMetadata ==
    /\ steps # << >> /\ Head(steps) \in {"save", "force"}
    /\ meta' = IF mem.skip /\ Head(steps) = "save" THEN meta
               ELSE [key |-> mem.key, nextID |-> mem.nextID, tables |-> mem.tables]
    /\ steps' = Tail(steps)
    /\ UNCHANGED <<calls, wal, blobs, mem, call, history>>

\* The truncation of the log at the end of ChangePassword, ForceSave and Close.
TruncateWAL ==
    /\ steps # << >> /\ Head(steps) = "truncate"
    /\ wal' = << >>
    /\ steps' = Tail(steps)
    /\ unsafe' = IF mem.skip /\ call # <<"force", Plain>> THEN unsafe \cup LogOnly ELSE unsafe
    /\ UNCHANGED <<calls, meta, blobs, mem, call, known, tried, acked, stored>>

\* The call returns and the client learns that it succeeded.  In bulk mode the
\* password is in memory only.
Return ==
    /\ mem.open /\ steps = << >> /\ call # NoCall
    /\ call' = NoCall
    /\ mem' = IF call[1] = "close" THEN Closed ELSE mem
    /\ IF call[1] = "password"
       THEN /\ known' = IF mem.skip THEN known ELSE call[2]
            /\ tried' = IF mem.skip THEN tried \cup {call[2]} ELSE {}
       ELSE UNCHANGED <<known, tried>>
    /\ IF call[1] = "create"
       THEN /\ acked' = acked \cup {call[2]}
            /\ unsafe' = IF mem.skip /\ Mixed(wal) THEN unsafe \cup {call[2]} ELSE unsafe
       ELSE UNCHANGED <<acked, unsafe>>
    /\ stored' = IF call[1] = "close" /\ mem.skip THEN Kept ELSE stored
    /\ UNCHANGED <<calls, files, steps>>

----------------------------------------------------------------------------
(* Calls.                                                                   *)

\* Mutant of CloseSteps: the catalog that was never read is saved.
CloseStepsAlways(pending) == <<"save", "truncate">>

\* What Close writes.  While the password is pending the catalog has not been read
\* and nothing may be written.
CloseSteps(pending) == IF pending THEN << >> ELSE <<"save", "truncate">>

\* NewEngineWithConfig with a password or none.  A wrong one is refused, and the
\* Storage closed again.  A database that is not encrypted is loaded, and then
\* encrypted if there is a password.
Open(p) ==
    /\ ~mem.open
    /\ IF meta.key \in {Plain, p}
       THEN /\ mem' = [Load(mem, meta, wal) EXCEPT !.key = p]
            /\ Begin(IF meta.key # p THEN <<"save">> ELSE << >>, <<"password", p>>)
       ELSE /\ mem' = [Closed EXCEPT !.open = TRUE, !.key = p]
            /\ Begin(CloseSteps(TRUE), <<"close", Plain>>)
    /\ UNCHANGED <<calls, files, history>>

CreateTable(t) ==
    /\ Idle
    /\ t \notin acked /\ t \notin mem.tables /\ Len(wal) < MaxLog
    /\ mem' = [mem EXCEPT !.nextID = @ + 1, !.tables = @ \cup {t}]
    /\ Begin(<<"log", "save">>, <<"create", t>>)
    /\ UNCHANGED <<calls, files, history>>

\* Mutant of ChangePassword: the log is emptied before the metadata is saved.
ChangePasswordTruncates(p) ==
    /\ Idle
    /\ CountCall
    /\ mem' = [mem EXCEPT !.key = p]
    /\ Begin(<<"truncate", "save">>, <<"password", p>>)
    /\ UNCHANGED <<files, history>>

\* The old password is tried on the metadata, but decrypting never fails.  Blobs
\* are not encrypted anew.
ChangePassword(p) ==
    /\ Idle
    /\ CountCall
    /\ mem' = [mem EXCEPT !.key = p]
    /\ Begin(<<"save", "truncate">>, <<"password", p>>)
    /\ UNCHANGED <<files, history>>

\* SetEncryption of an open database.  Without a password it takes effect with the
\* next save.  Otherwise, if the metadata is encrypted, they are loaded with that
\* password; if that fails the new key stays, and the next save uses it.
SetEncryption(p) ==
    /\ Idle
    /\ CountCall
    /\ CASE p = Plain ->
              /\ mem' = [mem EXCEPT !.key = Plain]
              /\ tried' = tried \cup {Plain}
              /\ UNCHANGED <<steps, call, stored>>
         [] p # Plain /\ meta.key = Plain ->
              /\ mem' = [mem EXCEPT !.key = p]
              /\ Begin(<<"save">>, <<"password", p>>)
              /\ UNCHANGED <<tried, stored>>
         [] p # Plain /\ meta.key = p ->
              /\ mem' = Load(mem, meta, wal)
              /\ Begin(<< >>, <<"password", p>>)
              /\ stored' = Kept
              /\ UNCHANGED tried
         [] OTHER ->
              /\ mem' = [mem EXCEPT !.key = p]
              /\ tried' = tried \cup {p}
              /\ UNCHANGED <<steps, call, stored>>
    /\ UNCHANGED <<files, known, acked, unsafe>>

SetSkipSave(b) ==
    /\ Idle
    /\ mem' = [mem EXCEPT !.skip = b]
    /\ UNCHANGED <<calls, files, steps, call, history>>

ForceSave ==
    /\ Idle
    /\ Begin(<<"force", "truncate">>, <<"force", Plain>>)
    /\ UNCHANGED <<calls, files, mem, history>>

Close ==
    /\ Idle
    /\ Begin(CloseSteps(FALSE), <<"close", Plain>>)
    /\ UNCHANGED <<calls, files, mem, history>>

\* Mutant of PutBlob: the number that was given is not used up.
PutBlobAgain(key, c, ids) ==
    /\ Idle /\ mem.nextID <= MaxID
    /\ blobs' = {b \in blobs : b[1] # mem.nextID} \cup {<<mem.nextID, key, c>>}
    /\ stored' = stored \cup {<<mem.nextID, key, c>>}
    /\ mem' = [mem EXCEPT !.nextID = @ + ids - 1]
    /\ UNCHANGED <<calls, meta, wal, steps, call, known, tried, acked, unsafe>>

\* A blob is written under the next number, over a file of that name if there is
\* one; ids numbers are used up.
PutBlob(key, c, ids) ==
    /\ Idle /\ mem.nextID <= MaxID
    /\ blobs' = {b \in blobs : b[1] # mem.nextID} \cup {<<mem.nextID, key, c>>}
    /\ stored' = stored \cup {<<mem.nextID, key, c>>}
    /\ mem' = [mem EXCEPT !.nextID = @ + ids]
    /\ UNCHANGED <<calls, meta, wal, steps, call, known, tried, acked, unsafe>>

WriteBlob(c) == PutBlob(mem.key, c, 1)

\* processBlobValue for a row of InsertRow, which takes a number as well, as does
\* the table file that the row goes to.
InsertRow(c) == PutBlob(mem.key, c, 3)

\* What is written through Writer is never encrypted.
Writer(c) == PutBlob(Plain, c, 1)

DeleteBlob(id) ==
    /\ Idle
    /\ \E b \in stored : b[1] = id
    /\ blobs' = {b \in blobs : b[1] # id}
    /\ stored' = {b \in stored : b[1] # id}
    /\ UNCHANGED <<calls, meta, wal, mem, steps, call, known, tried, acked, unsafe>>

\* The process ends at any point.  A password call that did not return may have
\* taken effect.
Crash ==
    /\ mem.open
    /\ mem' = Closed /\ steps' = << >> /\ call' = NoCall
    /\ tried' = IF call[1] = "password" THEN tried \cup {call[2]} ELSE tried
    /\ stored' = Kept
    /\ UNCHANGED <<calls, files, known, acked, unsafe>>

Next ==
    \/ WriteWAL \/ SaveMetadata \/ TruncateWAL \/ Return
    \/ \E p \in Keys : Open(p) \/ ChangePassword(p) \/ SetEncryption(p)
    \/ \E t \in Tables : CreateTable(t)
    \/ \E b \in BOOLEAN : SetSkipSave(b)
    \/ ForceSave \/ Close
    \/ \E c \in Contents : WriteBlob(c) \/ InsertRow(c) \/ Writer(c)
    \/ \E id \in 1..MaxID : DeleteBlob(id)
    \/ Crash

Spec == Init /\ [][Next]_vars

----------------------------------------------------------------------------
(* Properties.                                                              *)

BlobFiles == (1..MaxID) \X Keys \X Contents

\* Files and memory are of their types; a blob has one file, and a call is in
\* progress only in an open database.
TypeOK ==
    /\ meta \in [key : Keys, nextID : Nat \ {0}, tables : SUBSET Tables]
    /\ wal \in Seq(Keys \X Tables) /\ Len(wal) <= MaxLog
    /\ blobs \subseteq BlobFiles /\ \A b, c \in blobs : b[1] = c[1] => b = c
    /\ mem \in [open : BOOLEAN, key : Keys, nextID : Nat \ {0},
                tables : SUBSET Tables, skip : BOOLEAN]
    /\ steps \in Seq({"log", "save", "force", "truncate"})
    /\ steps # << >> => mem.open
    /\ known \in Keys /\ tried \subseteq Keys
    /\ acked \subseteq Tables /\ unsafe \subseteq Tables /\ stored \subseteq BlobFiles

\* The metadata open with the password that was set last, or with one given since to
\* a call that failed, crashed or was made in bulk mode: wherever the process ends,
\* and however often wrong passwords are given at the door.
PasswordOpens ==
    meta.key \in {known} \cup tried \cup (IF call[1] = "password" THEN {call[2]} ELSE {})

\* A table whose creation was reported is there when the database is opened again,
\* whenever the process ends: before, between and after the steps in which a password
\* change replaces the metadata and empties a log under the old key.  (Not so if bulk
\* mode left it to a log that is then emptied, or that has records of two keys.)
TablesSurvive == acked \ unsafe \subseteq Load(Closed, meta, wal).tables

\* A blob that was stored, and neither deleted nor lost its number in a crash, reads
\* as what it was as long as its key is in use, also when encryption was turned on
\* after it was stored.
BlobsReadBack ==
    Idle => \A b \in stored : b[2] \in {Plain, mem.key} =>
                \E f \in blobs : f[1] = b[1] /\ ReadBlob(f) = <<b[3]>>

\* The files are of their types, and stored blobs read back.
BlobsSound == TypeOK /\ BlobsReadBack
=============================================================================

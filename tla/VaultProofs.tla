---------------------------- MODULE VaultProofs ----------------------------
(***************************************************************************)
(* Theorems about Vault, for any passwords, tables and contents, and any   *)
(* number of calls and crashes: the password that was set last opens the   *)
(* database, blobs read back, and created tables survive.                  *)
(*                                                                         *)
(* All depend on what a call that is cut off leaves behind, so the         *)
(* invariants follow the steps that calls still have to make: VaultInv     *)
(* (keys and blobs), TypeInv (types) and SurviveInv (tables), each         *)
(* inductive relative to those before it.                                  *)
(***************************************************************************)
EXTENDS Vault, WellFoundedInduction, TLAPS

\* The passwords that the client has to expect.
Expected == {known} \cup tried \cup (IF call[1] = "password" THEN {call[2]} ELSE {})

\* The Storage has its fields.
MemRecord == mem = [open |-> mem.open, key |-> mem.key, nextID |-> mem.nextID,
                    tables |-> mem.tables, skip |-> mem.skip]

VaultType ==
    /\ MemRecord
    /\ meta.nextID \in Nat /\ mem.nextID \in Nat
    /\ mem.open \in {TRUE, FALSE} /\ mem.skip \in {TRUE, FALSE}
    /\ mem.open = FALSE => steps = << >> /\ call = NoCall

\* What is left of the steps of a call that sets a password, or closes.
CallSteps ==
    /\ call[1] = "none" => steps = << >>
    /\ call[1] = "password" =>
         steps \in {<<"save", "truncate">>, <<"truncate">>, <<"save">>, << >>}
    /\ call[1] = "close" => steps \in {<<"save", "truncate">>, <<"truncate">>, << >>}
    /\ call[1] = "force" => steps \in {<<"force", "truncate">>, <<"truncate">>, << >>}
    /\ call[1] = "create" => steps \in {<<"log", "save">>, <<"save">>, << >>}
    /\ call[1] \in {"none", "password", "close", "force", "create"}

\* The key in memory, with which the next save encrypts, is one that opens; a call that
\* sets a password has saved under it before it returns.
KeysInv ==
    /\ meta.key \in Expected
    /\ mem.open = TRUE /\ (steps # << >> \/ call[1] # "close") => mem.key \in Expected
    /\ call[1] = "password" =>
         /\ mem.key = call[2]
         /\ mem.skip = FALSE /\ steps \in {<<"truncate">>, << >>} => meta.key = call[2]

\* A stored blob has its file, and a number below the one given next: that in memory, or
\* that of the metadata once memory is or will be gone.
BlobsInv ==
    \A b \in stored :
        /\ b \in blobs /\ b[1] \in Nat
        /\ mem.open = TRUE /\ (call[1] # "close" \/ steps = <<"save", "truncate">>)
             => b[1] < mem.nextID
        /\ mem.open = FALSE => b[1] < meta.nextID
        /\ call[1] = "close" /\ mem.skip = FALSE /\ steps # <<"save", "truncate">>
             => b[1] < meta.nextID

VaultInv == VaultType /\ CallSteps /\ KeysInv /\ BlobsInv

----------------------------------------------------------------------------
(* Sequences of steps.                                                      *)

\* What is left of the steps of a call after the first.
LEMMA Tails ==
    /\ Tail(<<"save", "truncate">>) = <<"truncate">> /\ Head(<<"save", "truncate">>) = "save"
    /\ Tail(<<"force", "truncate">>) = <<"truncate">> /\ Head(<<"force", "truncate">>) = "force"
    /\ Tail(<<"log", "save">>) = <<"save">> /\ Head(<<"log", "save">>) = "log"
    /\ Tail(<<"truncate">>) = << >> /\ Head(<<"truncate">>) = "truncate"
    /\ Tail(<<"save">>) = << >> /\ Head(<<"save">>) = "save"
    OBVIOUS

\* The rests are told apart.
LEMMA Distinct ==
    /\ << >> # <<"truncate">> /\ << >> # <<"save">> /\ << >> # <<"save", "truncate">>
    /\ <<"truncate">> # <<"save">> /\ <<"truncate">> # <<"save", "truncate">>
    /\ <<"save">> # <<"save", "truncate">>
    OBVIOUS

----------------------------------------------------------------------------
(* Every step keeps the invariant.                                          *)

\* A record is appended.
LEMMA WriteKeeps ==
    ASSUME VaultInv, WriteWAL
    PROVE  VaultInv'
<1>1. /\ steps # << >> /\ Head(steps) = "log" /\ steps' = Tail(steps)
      /\ UNCHANGED <<meta, blobs, mem, call, known, tried, stored>>
    BY DEF WriteWAL
<1>2. call[1] = "create" /\ steps = <<"log", "save">>
    BY <1>1, Tails, Distinct DEF VaultInv, CallSteps
<1>3. steps' = <<"save">>
    BY <1>1, <1>2, Tails
<1> QED
    BY <1>1, <1>2, <1>3, Distinct
       DEF VaultInv, VaultType, MemRecord, CallSteps, KeysInv, BlobsInv, Expected

\* The metadata are saved: under the key in memory, which opens, and with a number above
\* those of all blobs.
LEMMA SaveKeeps ==
    ASSUME VaultInv, SaveMetadata
    PROVE  VaultInv'
<1>1. /\ steps # << >> /\ Head(steps) \in {"save", "force"} /\ steps' = Tail(steps)
      /\ UNCHANGED <<blobs, mem, call, known, tried, stored>>
    BY DEF SaveMetadata, history
<1>2. mem.open = TRUE
    BY <1>1 DEF VaultInv, VaultType
<1>3. \/ meta' = meta /\ mem.skip = TRUE
      \/ meta'.key = mem.key /\ meta'.nextID = mem.nextID
    BY DEF SaveMetadata, VaultInv, VaultType
<1>4. mem.key \in Expected /\ Expected' = Expected
    BY <1>1, <1>2 DEF VaultInv, KeysInv, Expected
<1>5. CallSteps'
    BY <1>1, Tails DEF VaultInv, CallSteps
<1>6. VaultType'
    BY <1>1, <1>2, <1>3 DEF VaultInv, VaultType, MemRecord
<1>7. KeysInv'
    BY <1>1, <1>2, <1>3, <1>4, Tails, Distinct DEF VaultInv, CallSteps, KeysInv
<1>8. BlobsInv'
    <2>1. call[1] = "close" => steps = <<"save", "truncate">> /\ steps' = <<"truncate">>
        BY <1>1, Tails DEF VaultInv, CallSteps
    <2> QED
        BY <1>1, <1>2, <1>3, <2>1, Distinct DEF VaultInv, VaultType, BlobsInv
<1> QED
    BY <1>5, <1>6, <1>7, <1>8 DEF VaultInv

\* The log is emptied.
LEMMA TruncateKeeps ==
    ASSUME VaultInv, TruncateWAL
    PROVE  VaultInv'
<1>1. /\ steps # << >> /\ Head(steps) = "truncate" /\ steps' = Tail(steps)
      /\ UNCHANGED <<meta, blobs, mem, call, known, tried, stored>>
    BY DEF TruncateWAL
<1>2. steps = <<"truncate">> /\ steps' = << >> /\ call[1] # "none"
    BY <1>1, Tails, Distinct DEF VaultInv, CallSteps
<1> QED
    BY <1>1, <1>2, Distinct DEF VaultInv, VaultType, MemRecord, CallSteps, KeysInv, BlobsInv, Expected

\* A call begins from, or leaves, a database with no call in progress.
LEMMA IdleFacts ==
    ASSUME VaultInv, Idle
    PROVE  /\ mem.open = TRUE /\ steps = << >> /\ call = NoCall /\ call[1] = "none"
           /\ mem.key \in {known} \cup tried /\ meta.key \in {known} \cup tried
           /\ \A b \in stored : b \in blobs /\ b[1] \in Nat /\ b[1] < mem.nextID
    BY DEF VaultInv, VaultType, KeysInv, BlobsInv, Idle, NoCall, Expected

\* The call returns.
LEMMA ReturnKeeps ==
    ASSUME VaultInv, Return
    PROVE  VaultInv'
<1>1. /\ mem.open = TRUE /\ steps = << >> /\ call # NoCall /\ steps' = << >>
      /\ call' = NoCall /\ UNCHANGED <<meta, blobs>>
      /\ mem' = IF call[1] = "close" THEN Closed ELSE mem
      /\ IF call[1] = "password"
         THEN /\ known' = IF mem.skip THEN known ELSE call[2]
              /\ tried' = IF mem.skip THEN tried \cup {call[2]} ELSE {}
         ELSE UNCHANGED <<known, tried>>
      /\ stored' = IF call[1] = "close" /\ mem.skip THEN Kept ELSE stored
    BY DEF Return, files, VaultInv, VaultType
<1>2. call'[1] = "none"
    BY <1>1 DEF NoCall
<1>3. VaultType' /\ CallSteps'
    BY <1>1, <1>2 DEF VaultInv, VaultType, MemRecord, CallSteps, Closed
<1>4. KeysInv'
    <2>1. CASE call[1] = "password"
        <3>1. mem' = mem /\ mem.key = call[2]
            BY <1>1, <2>1 DEF VaultInv, KeysInv
        <3>2. CASE mem.skip = TRUE
            BY <1>1, <1>2, <2>1, <3>1, <3>2 DEF VaultInv, KeysInv, Expected
        <3>3. CASE mem.skip = FALSE
            BY <1>1, <1>2, <2>1, <3>1, <3>3 DEF VaultInv, KeysInv, Expected
        <3> QED
            BY <3>2, <3>3 DEF VaultInv, VaultType
    <2>2. CASE call[1] = "close"
        BY <1>1, <1>2, <2>2 DEF VaultInv, KeysInv, Expected, Closed
    <2>3. CASE call[1] \notin {"password", "close"}
        BY <1>1, <1>2, <2>3 DEF VaultInv, KeysInv, Expected
    <2> QED
        BY <2>1, <2>2, <2>3
<1>5. BlobsInv'
    <2>1. CASE call[1] = "close"
        <3>1. mem'.open = FALSE
            BY <1>1, <2>1 DEF Closed
        <3>2. ASSUME NEW b \in stored' PROVE b \in blobs /\ b[1] \in Nat /\ b[1] < meta.nextID
            BY <1>1, <2>1, <3>2, Distinct DEF VaultInv, VaultType, BlobsInv, Kept
        <3> QED
            BY <1>1, <1>2, <3>1, <3>2 DEF BlobsInv
    <2>2. CASE call[1] # "close"
        BY <1>1, <1>2, <2>2 DEF VaultInv, BlobsInv
    <2> QED
        BY <2>1, <2>2
<1> QED
    BY <1>3, <1>4, <1>5 DEF VaultInv

\* The database is opened, or a wrong password refused without a write.
LEMMA OpenKeeps ==
    ASSUME VaultInv, NEW p \in Keys, Open(p)
    PROVE  VaultInv'
<1>1. mem.open = FALSE /\ UNCHANGED <<meta, blobs, known, tried, stored>>
    BY DEF Open, files, history, VaultInv, VaultType
<1>2. call = NoCall /\ call[1] = "none" /\ steps = << >>
    BY <1>1 DEF VaultInv, VaultType, NoCall
<1>3. /\ meta.key \in {known} \cup tried
      /\ \A b \in stored : b \in blobs /\ b[1] \in Nat /\ b[1] < meta.nextID
    BY <1>1, <1>2 DEF VaultInv, KeysInv, Expected, BlobsInv
<1>4. CASE meta.key \in {Plain, p}
    <2>1. /\ mem'.key = p /\ mem'.nextID = meta.nextID /\ mem'.open = TRUE
          /\ mem'.skip = mem.skip /\ MemRecord'
          /\ call' = <<"password", p>>
          /\ steps' = IF meta.key # p THEN <<"save">> ELSE << >>
        BY <1>4 DEF Open, Load, Begin, MemRecord
    <2>2. call'[1] = "password" /\ call'[2] = p
        BY <2>1
    <2> QED
        BY <1>1, <1>3, <2>1, <2>2, Distinct
           DEF VaultInv, VaultType, MemRecord, CallSteps, KeysInv, BlobsInv, Expected
<1>5. CASE meta.key \notin {Plain, p}
    <2>1. /\ mem'.nextID = 1 /\ mem'.open = TRUE /\ mem'.skip = FALSE
          /\ MemRecord' /\ call' = <<"close", Plain>> /\ steps' = << >>
        BY <1>5 DEF Open, Begin, CloseSteps, Closed, MemRecord
    <2>2. call'[1] = "close"
        BY <2>1
    <2>3. VaultType' /\ CallSteps'
        <3>1. meta'.nextID \in Nat
            BY <1>1 DEF VaultInv, VaultType
        <3>2. VaultType'
            <4>1. mem'.nextID \in Nat
                BY <2>1
            <4>2. mem'.open \in {TRUE, FALSE} /\ mem'.skip \in {TRUE, FALSE}
                BY <2>1, Zenon
            <4>3. mem'.open # FALSE
                BY <2>1
            <4> QED
                BY <2>1, <3>1, <4>1, <4>2, <4>3 DEF VaultType
        <3>3. CallSteps'
            BY <2>1, <2>2 DEF CallSteps
        <3> QED
            BY <3>2, <3>3
    <2>4. KeysInv'
        BY <1>1, <1>3, <2>1, <2>2 DEF KeysInv, Expected
    <2>5. BlobsInv'
        BY <1>1, <1>3, <2>1, <2>2, Distinct DEF BlobsInv
    <2> QED
        BY <2>3, <2>4, <2>5 DEF VaultInv
<1> QED
    BY <1>4, <1>5

\* A call that begins with the memory of an idle database, or with one that differs in the
\* key it sets: it keeps the invariant if the key opens, and numbers stay above the blobs.
LEMMA BeginKeeps ==
    ASSUME VaultInv, Idle, UNCHANGED <<meta, blobs, known, tried, stored>>,
           MemRecord', mem'.open = TRUE, mem'.skip \in {TRUE, FALSE},
           mem'.nextID \in Nat, mem.nextID <= mem'.nextID,
           \/ /\ call'[1] = "password" /\ steps' \in {<<"save", "truncate">>, <<"save">>}
              /\ mem'.key = call'[2]
           \/ /\ call'[1] = "create" /\ steps' = <<"log", "save">> /\ mem'.key = mem.key
           \/ /\ call'[1] = "force" /\ steps' = <<"force", "truncate">> /\ mem'.key = mem.key
           \/ /\ call'[1] = "close" /\ steps' = <<"save", "truncate">> /\ mem'.key = mem.key
           \/ /\ call' = NoCall /\ steps' = << >> /\ mem'.key = mem.key
    PROVE  VaultInv'
<1>0. NoCall[1] = "none"
    BY DEF NoCall
<1>1. VaultType'
    <2>1. meta'.nextID \in Nat
        BY DEF VaultInv, VaultType
    <2>2. mem'.open \in {TRUE, FALSE} /\ mem'.open # FALSE
        BY Zenon
    <2> QED
        BY <2>1, <2>2 DEF VaultType
<1>2. CallSteps'
    BY <1>0 DEF CallSteps
<1>3. KeysInv'
    BY <1>0, IdleFacts, Distinct DEF KeysInv, Expected
<1>4. BlobsInv'
    <2>1. \A b \in stored : b \in blobs /\ b[1] \in Nat /\ b[1] < mem'.nextID
        <3>1. mem.nextID \in Nat
            BY DEF VaultInv, VaultType
        <3>2. \A b \in stored : b \in blobs /\ b[1] \in Nat /\ b[1] < mem.nextID
            BY IdleFacts
        <3> QED
            BY <3>1, <3>2
    <2>2. call'[1] = "close" => steps' = <<"save", "truncate">>
        BY <1>0
    <2> QED
        BY <2>1, <2>2 DEF BlobsInv
<1> QED
    BY <1>1, <1>2, <1>3, <1>4 DEF VaultInv

\* The calls that begin so.
LEMMA CallKeeps ==
    ASSUME VaultInv,
           \/ \E t \in Tables : CreateTable(t)
           \/ \E p \in Keys : ChangePassword(p)
           \/ \E b \in BOOLEAN : SetSkipSave(b)
           \/ ForceSave \/ Close
    PROVE  VaultInv'
<1>1. mem.nextID \in Nat /\ mem.skip \in {TRUE, FALSE}
    BY DEF VaultInv, VaultType
<1>2. ASSUME NEW t \in Tables, CreateTable(t) PROVE VaultInv'
    <2>1. /\ Idle /\ UNCHANGED <<meta, blobs, known, tried, stored>>
          /\ steps' = <<"log", "save">> /\ call' = <<"create", t>>
          /\ mem' = [mem EXCEPT !.nextID = @ + 1, !.tables = @ \cup {t}]
        BY <1>2 DEF CreateTable, Begin, files, history
    <2>2. MemRecord
        BY DEF VaultInv, VaultType
    <2>3. /\ mem'.open = mem.open /\ mem'.key = mem.key /\ mem'.skip = mem.skip
          /\ mem'.nextID = mem.nextID + 1 /\ MemRecord'
        BY <2>1, <2>2 DEF MemRecord
    <2>4. mem.open = TRUE /\ mem'.nextID \in Nat /\ mem.nextID <= mem'.nextID
        <3>1. mem.open = TRUE
            BY <2>1, IdleFacts
        <3> QED
            BY <1>1, <2>3, <3>1
    <2>5. call'[1] = "create"
        BY <2>1
    <2> QED
        BY <1>1, <2>1, <2>3, <2>4, <2>5, BeginKeeps
<1>3. ASSUME NEW p \in Keys, ChangePassword(p) PROVE VaultInv'
    <2>1. /\ Idle /\ UNCHANGED <<meta, blobs, known, tried, stored>>
          /\ steps' = <<"save", "truncate">> /\ call' = <<"password", p>>
          /\ mem' = [mem EXCEPT !.key = p]
        BY <1>3 DEF ChangePassword, Begin, files, history
    <2>2. MemRecord
        BY DEF VaultInv, VaultType
    <2>3. /\ mem'.open = mem.open /\ mem'.key = p /\ mem'.skip = mem.skip
          /\ mem'.nextID = mem.nextID /\ MemRecord'
        BY <2>1, <2>2 DEF MemRecord
    <2>4. mem.open = TRUE /\ mem.nextID <= mem.nextID
        <3>1. mem.open = TRUE
            BY <2>1, IdleFacts
        <3> QED
            BY <1>1, <3>1
    <2>5. call'[1] = "password" /\ call'[2] = p
        BY <2>1
    <2> QED
        BY <1>1, <2>1, <2>3, <2>4, <2>5, BeginKeeps
<1>4. ASSUME NEW b \in BOOLEAN, SetSkipSave(b) PROVE VaultInv'
    <2>1. /\ Idle /\ UNCHANGED <<meta, blobs, known, tried, stored, steps, call>>
          /\ mem' = [mem EXCEPT !.skip = b]
        BY <1>4 DEF SetSkipSave, files, history
    <2>2. MemRecord
        BY DEF VaultInv, VaultType
    <2>3. /\ mem'.open = mem.open /\ mem'.key = mem.key /\ mem'.skip \in {TRUE, FALSE}
          /\ mem'.nextID = mem.nextID /\ MemRecord'
        BY <1>4, <2>1, <2>2 DEF MemRecord
    <2>4. mem.open = TRUE /\ mem.nextID <= mem.nextID /\ steps = << >> /\ call = NoCall
        <3>1. mem.open = TRUE /\ steps = << >> /\ call = NoCall
            BY <2>1, IdleFacts
        <3> QED
            BY <1>1, <3>1
    <2> QED
        BY <1>1, <2>1, <2>3, <2>4, BeginKeeps
<1>5. CASE ForceSave \/ Close
    <2>1. /\ Idle /\ UNCHANGED <<meta, blobs, mem, known, tried, stored>>
          /\ \/ steps' = <<"force", "truncate">> /\ call' = <<"force", Plain>>
             \/ steps' = <<"save", "truncate">> /\ call' = <<"close", Plain>>
        BY <1>5 DEF ForceSave, Close, CloseSteps, Begin, files, history
    <2>2. mem.open = TRUE /\ mem.nextID <= mem.nextID /\ MemRecord'
        <3>1. mem.open = TRUE
            BY <2>1, IdleFacts
        <3>2. MemRecord'
            BY <2>1 DEF VaultInv, VaultType, MemRecord
        <3> QED
            BY <1>1, <3>1, <3>2
    <2>3. \/ steps' = <<"force", "truncate">> /\ call'[1] = "force"
          \/ steps' = <<"save", "truncate">> /\ call'[1] = "close"
        BY <2>1
    <2> QED
        BY <1>1, <2>1, <2>2, <2>3, BeginKeeps
<1> QED
    BY <1>2, <1>3, <1>4, <1>5

\* SetEncryption: a new key is saved, a known one read, and one that fails is remembered.
LEMMA SetKeeps ==
    ASSUME VaultInv, NEW p \in Keys, SetEncryption(p)
    PROVE  VaultInv'
<1>1. /\ Idle /\ UNCHANGED <<meta, blobs, known>> /\ MemRecord
      /\ mem.nextID \in Nat /\ mem.skip \in {TRUE, FALSE}
    BY DEF SetEncryption, files, VaultInv, VaultType
<1>2. /\ mem.open = TRUE /\ steps = << >> /\ call = NoCall /\ call[1] = "none"
      /\ mem.key \in {known} \cup tried /\ meta.key \in {known} \cup tried
    BY <1>1, IdleFacts
<1>3. \A b \in stored : b \in blobs /\ b[1] \in Nat /\ b[1] < mem.nextID
    BY <1>1, IdleFacts
<1>4. CASE /\ mem' = [mem EXCEPT !.key = p] /\ tried' = tried \cup {p}
           /\ UNCHANGED <<steps, call, stored>>
    <2>1. /\ mem'.open = mem.open /\ mem'.key = p /\ mem'.skip = mem.skip
          /\ mem'.nextID = mem.nextID /\ MemRecord'
        BY <1>1, <1>4 DEF MemRecord
    <2>2. VaultType'
        BY <1>1, <1>2, <1>4, <2>1 DEF VaultInv, VaultType
    <2>3. CallSteps'
        BY <1>2, <1>4 DEF CallSteps
    <2>4. KeysInv'
        BY <1>1, <1>2, <1>4, <2>1 DEF KeysInv, Expected
    <2>5. BlobsInv'
        BY <1>1, <1>2, <1>3, <1>4, <2>1 DEF BlobsInv
    <2> QED
        BY <2>2, <2>3, <2>4, <2>5 DEF VaultInv
<1>5. CASE /\ mem' = [mem EXCEPT !.key = p] /\ steps' = <<"save">>
           /\ call' = <<"password", p>> /\ UNCHANGED <<tried, stored>>
    <2>1. /\ mem'.open = mem.open /\ mem'.key = p /\ mem'.skip = mem.skip
          /\ mem'.nextID = mem.nextID /\ MemRecord'
        BY <1>1, <1>5 DEF MemRecord
    <2>2. mem.nextID <= mem'.nextID
        BY <1>1, <2>1
    <2>3. call'[1] = "password" /\ call'[2] = p
        BY <1>5
    <2> QED
        BY <1>1, <1>2, <1>5, <2>1, <2>2, <2>3, BeginKeeps
<1>6. CASE /\ meta.key = p /\ mem' = Load(mem, meta, wal) /\ steps' = << >>
           /\ call' = <<"password", p>> /\ stored' = Kept /\ UNCHANGED tried
    <2>1. /\ mem'.open = TRUE /\ mem'.key = p /\ mem'.skip = mem.skip
          /\ mem'.nextID = meta.nextID /\ MemRecord'
        BY <1>6 DEF Load, MemRecord
    <2>2. call'[1] = "password" /\ call'[2] = p
        BY <1>6
    <2>3. VaultType'
        BY <1>1, <1>6, <2>1 DEF VaultInv, VaultType
    <2>4. CallSteps'
        BY <1>6, <2>2 DEF CallSteps
    <2>5. KeysInv'
        BY <1>1, <1>6, <2>1, <2>2 DEF KeysInv, Expected
    <2>6. \A b \in stored' : b \in blobs' /\ b[1] \in Nat /\ b[1] < mem'.nextID
        BY <1>1, <1>3, <1>6, <2>1 DEF Kept
    <2>7. BlobsInv'
        BY <2>1, <2>2, <2>6 DEF BlobsInv
    <2> QED
        BY <2>3, <2>4, <2>5, <2>7 DEF VaultInv
<1> QED
    BY <1>4, <1>5, <1>6 DEF SetEncryption, Begin

\* A blob is written under the number given next, which no stored blob has.
LEMMA PutKeeps ==
    ASSUME VaultInv, NEW key, NEW c, NEW ids \in Nat \ {0}, PutBlob(key, c, ids)
    PROVE  VaultInv'
<1> DEFINE new == <<mem.nextID, key, c>>
<1>1. /\ Idle /\ UNCHANGED <<meta, steps, call, known, tried>> /\ MemRecord
      /\ blobs' = {b \in blobs : b[1] # mem.nextID} \cup {new}
      /\ stored' = stored \cup {new}
      /\ mem' = [mem EXCEPT !.nextID = @ + ids]
      /\ mem.nextID \in Nat
    BY DEF PutBlob, VaultInv, VaultType
<1>2. /\ mem.open = TRUE /\ steps = << >> /\ call = NoCall /\ call[1] = "none"
    BY <1>1, IdleFacts
<1>3. \A b \in stored : b \in blobs /\ b[1] \in Nat /\ b[1] < mem.nextID
    BY <1>1, IdleFacts
<1>4. /\ mem'.open = mem.open /\ mem'.key = mem.key /\ mem'.skip = mem.skip
      /\ mem'.nextID = mem.nextID + ids /\ MemRecord'
    BY <1>1 DEF MemRecord
<1>5. mem'.nextID \in Nat /\ mem.nextID < mem'.nextID
    BY <1>1, <1>4
<1>6. new[1] = mem.nextID
    OBVIOUS
<1>7. VaultType'
    BY <1>1, <1>2, <1>4, <1>5 DEF VaultInv, VaultType
<1>8. CallSteps'
    BY <1>1 DEF VaultInv, CallSteps
<1>9. KeysInv'
    BY <1>1, <1>2, <1>4 DEF VaultInv, KeysInv, Expected
<1>10. ASSUME NEW b \in stored' PROVE b \in blobs' /\ b[1] \in Nat /\ b[1] < mem'.nextID
    <2>1. CASE b = new
        BY <1>1, <1>5, <1>6, <2>1
    <2>2. CASE b \in stored
        <3>1. b \in blobs /\ b[1] \in Nat /\ b[1] < mem.nextID
            BY <1>3, <2>2
        <3>2. b[1] # mem.nextID /\ b[1] < mem'.nextID
            BY <1>1, <1>5, <3>1
        <3> QED
            BY <1>1, <3>1, <3>2
    <2> QED
        BY <1>1, <1>10, <2>1, <2>2
<1>11. BlobsInv'
    BY <1>1, <1>2, <1>4, <1>10 DEF BlobsInv
<1> QED
    BY <1>7, <1>8, <1>9, <1>11 DEF VaultInv

\* A blob is deleted; the others have other numbers.
LEMMA DeleteKeeps ==
    ASSUME VaultInv, NEW id, DeleteBlob(id)
    PROVE  VaultInv'
<1>1. /\ UNCHANGED <<meta, mem, steps, call, known, tried>>
      /\ blobs' = {b \in blobs : b[1] # id} /\ stored' = {b \in stored : b[1] # id}
    BY DEF DeleteBlob
<1> QED
    BY <1>1 DEF VaultInv, VaultType, MemRecord, CallSteps, KeysInv, BlobsInv, Expected

\* After a crash only blobs below the saved number count, and the password of a call
\* that was cut off may be the one that opens.
LEMMA CrashKeeps ==
    ASSUME VaultInv, Crash
    PROVE  VaultInv'
<1>1. /\ mem' = Closed /\ steps' = << >> /\ call' = NoCall
      /\ tried' = IF call[1] = "password" THEN tried \cup {call[2]} ELSE tried
      /\ stored' = Kept /\ UNCHANGED <<meta, blobs, known>>
    BY DEF Crash, files
<1>2. /\ call'[1] = "none" /\ mem'.open = FALSE /\ mem'.skip = FALSE /\ mem'.nextID = 1
      /\ MemRecord'
    BY <1>1 DEF NoCall, Closed, MemRecord
<1>3. VaultType'
    <2>1. meta'.nextID \in Nat
        BY <1>1 DEF VaultInv, VaultType
    <2>2. mem'.open \in {TRUE, FALSE} /\ mem'.skip \in {TRUE, FALSE}
        BY <1>2, Zenon
    <2>3. mem'.nextID \in Nat
        BY <1>2
    <2> QED
        BY <1>1, <1>2, <2>1, <2>2, <2>3 DEF VaultType
<1>4. CallSteps'
    BY <1>1, <1>2 DEF CallSteps
<1>5. KeysInv'
    BY <1>1, <1>2 DEF VaultInv, KeysInv, Expected
<1>6. BlobsInv'
    BY <1>1, <1>2 DEF VaultInv, BlobsInv, Kept
<1> QED
    BY <1>3, <1>4, <1>5, <1>6 DEF VaultInv

----------------------------------------------------------------------------
(* What follows.                                                            *)

\* The invariant holds at the start and is kept by every step.
THEOREM Invariance == Spec => []VaultInv
<1>1. Init => VaultInv
    <2> SUFFICES ASSUME Init PROVE VaultInv
        OBVIOUS
    <2>1. /\ mem.open = FALSE /\ mem.skip = FALSE /\ mem.nextID = 1 /\ MemRecord
          /\ call = NoCall /\ call[1] = "none" /\ steps = << >>
        BY DEF Init, Closed, NoCall, MemRecord
    <2>2. meta.nextID \in Nat
        BY DEF Init
    <2>3. mem.open \in {TRUE, FALSE} /\ mem.skip \in {TRUE, FALSE}
        BY <2>1, Zenon
    <2>4. VaultType /\ CallSteps
        <3>1. mem.nextID \in Nat
            BY <2>1
        <3>2. VaultType
            BY <2>1, <2>2, <2>3, <3>1 DEF VaultType
        <3>3. CallSteps
            BY <2>1 DEF CallSteps
        <3> QED
            BY <3>2, <3>3
    <2>5. KeysInv /\ BlobsInv
        BY <2>1 DEF Init, KeysInv, BlobsInv, Expected
    <2> QED
        BY <2>4, <2>5 DEF VaultInv
<1>2. VaultInv /\ [Next]_vars => VaultInv'
    <2> SUFFICES ASSUME VaultInv, [Next]_vars PROVE VaultInv'
        OBVIOUS
    <2>1. CASE WriteWAL
        BY <2>1, WriteKeeps
    <2>2. CASE SaveMetadata
        BY <2>2, SaveKeeps
    <2>3. CASE TruncateWAL
        BY <2>3, TruncateKeeps
    <2>4. CASE Return
        BY <2>4, ReturnKeeps
    <2>5. ASSUME NEW p \in Keys, Open(p) PROVE VaultInv'
        BY <2>5, OpenKeeps
    <2>6. ASSUME NEW p \in Keys, SetEncryption(p) PROVE VaultInv'
        BY <2>6, SetKeeps
    <2>7. CASE \/ \E t \in Tables : CreateTable(t)
               \/ \E p \in Keys : ChangePassword(p)
               \/ \E b \in BOOLEAN : SetSkipSave(b)
               \/ ForceSave \/ Close
        BY <2>7, CallKeeps
    <2>8. ASSUME NEW c \in Contents, WriteBlob(c) \/ InsertRow(c) \/ Writer(c) PROVE VaultInv'
        <3>1. 1 \in Nat \ {0} /\ 3 \in Nat \ {0}
            OBVIOUS
        <3> QED
            BY <2>8, <3>1, PutKeeps DEF WriteBlob, InsertRow, Writer
    <2>9. ASSUME NEW id \in 1..MaxID, DeleteBlob(id) PROVE VaultInv'
        BY <2>9, DeleteKeeps
    <2>10. CASE Crash
        BY <2>10, CrashKeeps
    <2>11. CASE UNCHANGED vars
        BY <2>11 DEF vars, files, history, VaultInv, VaultType, MemRecord, CallSteps, KeysInv,
                     BlobsInv, Expected
    <2> QED
        BY <2>1, <2>2, <2>3, <2>4, <2>5, <2>6, <2>7, <2>8, <2>9, <2>10, <2>11 DEF Next
<1> QED
    BY <1>1, <1>2, PTL DEF Spec

\* Wherever the process ends, the metadata file opens with the password that was set last
\* or with one given since to a call that failed, was cut off, or was made in bulk mode.
THEOREM DatabaseOpens == Spec => []PasswordOpens
<1>1. VaultInv => PasswordOpens
    BY DEF VaultInv, KeysInv, Expected, PasswordOpens
<1> QED
    BY <1>1, Invariance, PTL

\* WriteBlob never writes over a blob that is still stored, and ReadBlob returns it.
THEOREM BlobsAreReadBack == Spec => []BlobsReadBack
<1>1. VaultInv => BlobsReadBack
    <2> SUFFICES ASSUME VaultInv, Idle, NEW b \in stored, b[2] \in {Plain, mem.key}
                 PROVE  \E f \in blobs : f[1] = b[1] /\ ReadBlob(f) = <<b[3]>>
        BY DEF BlobsReadBack
    <2>1. b \in blobs
        BY IdleFacts
    <2>2. ReadBlob(b) = <<b[3]>>
        BY DEF ReadBlob
    <2> QED
        BY <2>1, <2>2
<1> QED
    BY <1>1, Invariance, PTL

----------------------------------------------------------------------------
(* Types.                                                                   *)

MemType == [open : BOOLEAN, key : Keys, nextID : Nat \ {0}, tables : SUBSET Tables, skip : BOOLEAN]

FilesTyped ==
    /\ meta \in [key : Keys, nextID : Nat \ {0}, tables : SUBSET Tables]
    /\ wal \in Seq(Keys \X Tables) /\ Len(wal) <= MaxLog

\* What a call was given, and the room in the log for the record it has still to write.
CallTyped ==
    /\ call[1] = "create" => call[2] \in Tables
    /\ call[1] = "password" => call[2] \in Keys
    /\ call[1] = "force" => call = <<"force", Plain>>
    /\ steps = <<"log", "save">> => Len(wal) < MaxLog

BlobsTyped ==
    /\ blobs \subseteq BlobFiles /\ stored \subseteq BlobFiles
    /\ \A b, c \in blobs : b[1] = c[1] => b = c

HistoryTyped == known \in Keys /\ tried \subseteq Keys /\ acked \subseteq Tables /\ unsafe \subseteq Tables

TypeInv == FilesTyped /\ mem \in MemType /\ CallTyped /\ BlobsTyped /\ HistoryTyped

\* The first of some positions in a sequence.
LEMMA MinIsFirst ==
    ASSUME NEW n \in Nat, NEW I \in SUBSET (1..n), I # {}
    PROVE  Min(I) \in I
<1>1. I \subseteq Nat
    OBVIOUS
<1> DEFINE less == {p \in Nat \X Nat : p[1] < p[2]}
<1>2. IsWellFoundedOn(less, Nat)
    BY NatLessThanWellFounded, Zenon DEF OpToRel
<1>3. \A a, b \in Nat : a < b => <<a, b>> \in less
    OBVIOUS
<1> HIDE DEF less
<1>4. PICK x \in I : \A y \in I : ~(<<y, x>> \in less)
    BY <1>1, <1>2, WFMin
<1>5. ASSUME NEW y \in I PROVE x <= y
    <2>1. x \in Nat /\ y \in Nat /\ ~(<<y, x>> \in less)
        BY <1>1, <1>4
    <2>2. ~(y < x)
        BY <1>3, <2>1
    <2> QED
        BY <2>1, <2>2
<1> QED
    BY <1>5 DEF Min

\* A log read with any key gives some of its records.
LEMMA ReadGivesRecords ==
    ASSUME NEW log \in Seq(Keys \X Tables), NEW key
    PROVE  TablesOf(ReadAll(log, key)) \subseteq Tables
<1> DEFINE I == {i \in 1..Len(log) : log[i][1] # key}
           bad == SelectInSeq(log, LAMBDA r : r[1] # key)
<1>1. bad = IF I # {} THEN Min(I) ELSE 0
    BY DEF SelectInSeq
<1>2. bad # 0 => bad \in 1..Len(log)
    <2>1. I # {} => Min(I) \in I
        <3>1. Len(log) \in Nat /\ I \in SUBSET (1..Len(log))
            OBVIOUS
        <3> HIDE DEF I
        <3> QED
            BY <3>1, MinIsFirst
    <2>2. I \subseteq 1..Len(log)
        OBVIOUS
    <2> HIDE DEF I, bad
    <2> QED
        BY <1>1, <2>1, <2>2
<1>3. \/ ReadAll(log, key) = log
      \/ bad # 0 /\ ReadAll(log, key) = SubSeq(log, 1, bad - 1)
      \/ ReadAll(log, key) = << >>
    BY DEF ReadAll
<1> HIDE DEF bad
<1>4. \A i \in 1..Len(log) : log[i][2] \in Tables
    OBVIOUS
<1>5. CASE ReadAll(log, key) = log
    BY <1>4, <1>5 DEF TablesOf
<1>6. CASE bad # 0 /\ ReadAll(log, key) = SubSeq(log, 1, bad - 1)
    <2>1. bad \in 1..Len(log)
        BY <1>2, <1>6
    <2>2. /\ Len(SubSeq(log, 1, bad - 1)) = bad - 1
          /\ \A i \in 1..(bad - 1) : SubSeq(log, 1, bad - 1)[i] = log[i]
        BY <2>1
    <2>3. \A i \in 1..(bad - 1) : SubSeq(log, 1, bad - 1)[i][2] \in Tables
        BY <1>4, <2>1, <2>2
    <2> QED
        BY <1>6, <2>2, <2>3 DEF TablesOf
<1>7. CASE ReadAll(log, key) = << >>
    BY <1>7 DEF TablesOf
<1> QED
    BY <1>3, <1>5, <1>6, <1>7

\* What is loaded is of its type.
LEMMA LoadTyped ==
    ASSUME FilesTyped, NEW m, m.skip \in BOOLEAN
    PROVE  Load(m, meta, wal) \in MemType
<1>1. TablesOf(ReadAll(wal, meta.key)) \subseteq Tables
    BY ReadGivesRecords DEF FilesTyped
<1>2. meta.key \in Keys /\ meta.nextID \in Nat \ {0} /\ meta.tables \subseteq Tables
    BY DEF FilesTyped
<1>3. meta.tables \cup TablesOf(ReadAll(wal, meta.key)) \in SUBSET Tables
    BY <1>1, <1>2
<1> DEFINE tables == meta.tables \cup TablesOf(ReadAll(wal, meta.key))
<1>4. Load(m, meta, wal) = [open |-> TRUE, key |-> meta.key, nextID |-> meta.nextID, tables |-> tables,
                            skip |-> m.skip]
    BY DEF Load
<1> HIDE DEF tables
<1> QED
    BY <1>2, <1>3, <1>4 DEF MemType, tables

\* The fields of the Storage.
LEMMA MemFields ==
    ASSUME NEW m \in MemType
    PROVE  /\ \A k \in Keys : [m EXCEPT !.key = k] \in MemType
           /\ \A b \in BOOLEAN : [m EXCEPT !.skip = b] \in MemType
           /\ \A n \in Nat : [m EXCEPT !.nextID = @ + n] \in MemType
           /\ \A t \in Tables : [m EXCEPT !.nextID = @ + 1, !.tables = @ \cup {t}] \in MemType
           /\ m.key \in Keys /\ m.nextID \in Nat \ {0} /\ m.tables \subseteq Tables /\ m.skip \in BOOLEAN
<1>1. \A k \in Keys : [m EXCEPT !.key = k] \in MemType
    BY DEF MemType
<1>2. \A b \in BOOLEAN : [m EXCEPT !.skip = b] \in MemType
    BY DEF MemType
<1>3. \A n \in Nat : [m EXCEPT !.nextID = @ + n] \in MemType
    BY DEF MemType
<1>4. ASSUME NEW t \in Tables PROVE [m EXCEPT !.nextID = @ + 1, !.tables = @ \cup {t}] \in MemType
    <2> DEFINE tables == m.tables \cup {t}
               next == m.nextID + 1
    <2>1. tables \in SUBSET Tables /\ next \in Nat \ {0}
        BY DEF MemType
    <2>2. [m EXCEPT !.nextID = @ + 1, !.tables = @ \cup {t}] = [m EXCEPT !.nextID = next, !.tables = tables]
        BY DEF MemType
    <2> HIDE DEF tables, next
    <2> QED
        BY <2>1, <2>2 DEF MemType
<1>5. m.key \in Keys /\ m.nextID \in Nat \ {0} /\ m.tables \subseteq Tables /\ m.skip \in BOOLEAN
    BY DEF MemType
<1> QED
    BY <1>1, <1>2, <1>3, <1>4, <1>5

\* A closed Storage.
LEMMA ClosedTyped ==
    /\ Closed \in MemType /\ \A p \in Keys : [Closed EXCEPT !.open = TRUE, !.key = p] \in MemType
<1>1. Plain \in Keys /\ {} \in SUBSET Tables /\ 1 \in Nat \ {0} /\ TRUE \in BOOLEAN /\ FALSE \in BOOLEAN
    BY DEF Keys
<1>2. Closed \in MemType
    BY <1>1 DEF Closed, MemType
<1>3. ASSUME NEW p \in Keys PROVE [Closed EXCEPT !.open = TRUE, !.key = p] \in MemType
    BY <1>2 DEF MemType
<1> QED
    BY <1>2, <1>3

\* Only CreateTable has a record to write.
LEMMA LogFirst ==
    /\ <<"log", "save">> # << >> /\ <<"log", "save">> # <<"save">> /\ <<"log", "save">> # <<"truncate">>
    /\ <<"log", "save">> # <<"save", "truncate">> /\ <<"log", "save">> # <<"force", "truncate">>
    OBVIOUS

\* What is left of the steps at each of them.
LEMMA StepsLeft ==
    ASSUME VaultInv, steps # << >>
    PROVE  /\ Head(steps) = "log" => call[1] = "create" /\ steps = <<"log", "save">> /\ Tail(steps) = <<"save">>
           /\ Head(steps) = "save" =>
                \/ call[1] \in {"password", "close"} /\ steps = <<"save", "truncate">> /\ Tail(steps) = <<"truncate">>
                \/ call[1] \in {"password", "create"} /\ steps = <<"save">> /\ Tail(steps) = << >>
           /\ Head(steps) = "force" =>
                call[1] = "force" /\ steps = <<"force", "truncate">> /\ Tail(steps) = <<"truncate">>
           /\ Head(steps) = "truncate" =>
                call[1] \in {"password", "close", "force"} /\ steps = <<"truncate">> /\ Tail(steps) = << >>
<1>1. /\ call[1] # "none"
      /\ call[1] = "password" => steps \in {<<"save", "truncate">>, <<"truncate">>, <<"save">>}
      /\ call[1] = "close" => steps \in {<<"save", "truncate">>, <<"truncate">>}
      /\ call[1] = "force" => steps \in {<<"force", "truncate">>, <<"truncate">>}
      /\ call[1] = "create" => steps \in {<<"log", "save">>, <<"save">>}
      /\ call[1] \in {"none", "password", "close", "force", "create"}
    BY DEF VaultInv, CallSteps
<1> QED
    BY <1>1, Tails

\* A record is of a table that is created.
LEMMA WriteTyped ==
    ASSUME VaultInv, TypeInv, WriteWAL
    PROVE  TypeInv'
<1>1. /\ steps # << >> /\ Head(steps) = "log" /\ steps' = Tail(steps) /\ wal' = Append(wal, <<mem.key, call[2]>>)
      /\ unsafe' \subseteq unsafe \cup acked
      /\ UNCHANGED <<meta, blobs, mem, call, known, tried, acked, stored>>
    BY DEF WriteWAL, LogOnly
<1>2. call[1] = "create" /\ steps = <<"log", "save">> /\ steps' = <<"save">>
    BY <1>1, StepsLeft
<1>3. <<mem.key, call[2]>> \in Keys \X Tables /\ Len(wal) < MaxLog
    BY <1>2, MemFields DEF TypeInv, CallTyped
<1>4. FilesTyped'
    <2> DEFINE r == <<mem.key, call[2]>>
    <2> HIDE DEF r
    <2>1. r \in Keys \X Tables /\ wal \in Seq(Keys \X Tables) /\ MaxLog \in Nat /\ wal' = Append(wal, r)
        BY <1>1, <1>3, VaultAssumption DEF TypeInv, FilesTyped, r
    <2>2. wal' \in Seq(Keys \X Tables) /\ Len(wal') = Len(wal) + 1
        BY <2>1
    <2>3. Len(wal') <= MaxLog
        BY <1>3, <2>1, <2>2
    <2> QED
        BY <1>1, <2>2, <2>3 DEF TypeInv, FilesTyped
<1>5. CallTyped'
    BY <1>1, <1>2, LogFirst DEF TypeInv, CallTyped
<1> QED
    BY <1>1, <1>4, <1>5 DEF TypeInv, BlobsTyped, HistoryTyped

\* The metadata are those in memory.
LEMMA SaveTyped ==
    ASSUME VaultInv, TypeInv, SaveMetadata
    PROVE  TypeInv'
<1>1. /\ steps # << >> /\ Head(steps) \in {"save", "force"} /\ steps' = Tail(steps)
      /\ meta' = meta \/ meta' = [key |-> mem.key, nextID |-> mem.nextID, tables |-> mem.tables]
      /\ UNCHANGED <<wal, blobs, mem, call, known, tried, acked, unsafe, stored>>
    BY DEF SaveMetadata, history
<1>2. steps' \in {<<"truncate">>, << >>}
    BY <1>1, StepsLeft
<1>3. mem.key \in Keys /\ mem.nextID \in Nat \ {0} /\ mem.tables \subseteq Tables
    BY MemFields DEF TypeInv
<1>4. FilesTyped'
    BY <1>1, <1>3 DEF TypeInv, FilesTyped
<1>5. CallTyped'
    BY <1>1, <1>2, LogFirst DEF TypeInv, CallTyped
<1> QED
    BY <1>1, <1>4, <1>5 DEF TypeInv, BlobsTyped, HistoryTyped

\* The log is emptied.
LEMMA TruncateTyped ==
    ASSUME VaultInv, TypeInv, TruncateWAL
    PROVE  TypeInv'
<1>1. /\ steps # << >> /\ Head(steps) = "truncate" /\ steps' = Tail(steps) /\ wal' = << >>
      /\ unsafe' \subseteq unsafe \cup acked
      /\ UNCHANGED <<meta, blobs, mem, call, known, tried, acked, stored>>
    BY DEF TruncateWAL, LogOnly
<1>2. steps' = << >>
    BY <1>1, StepsLeft
<1>3. FilesTyped'
    <2>1. << >> \in Seq(Keys \X Tables) /\ Len(<< >>) = 0 /\ 0 <= MaxLog
        BY VaultAssumption
    <2> QED
        BY <1>1, <2>1 DEF TypeInv, FilesTyped
<1>4. CallTyped'
    BY <1>1, <1>2, LogFirst DEF TypeInv, CallTyped
<1> QED
    BY <1>1, <1>3, <1>4 DEF TypeInv, BlobsTyped, HistoryTyped

\* The call returns.
LEMMA ReturnTyped ==
    ASSUME VaultInv, TypeInv, Return
    PROVE  TypeInv'
<1>1. /\ steps' = << >> /\ call' = NoCall /\ UNCHANGED <<meta, wal, blobs>>
      /\ mem' \in {Closed, mem} /\ stored' \subseteq stored
    BY DEF Return, files, Kept
<1>2. call'[1] = "none"
    BY <1>1 DEF NoCall
<1>3. HistoryTyped'
    <2>1. known' \in Keys /\ tried' \subseteq Keys
        BY DEF Return, TypeInv, CallTyped, HistoryTyped
    <2>2. acked' \subseteq Tables /\ unsafe' \subseteq Tables
        BY DEF Return, TypeInv, CallTyped, HistoryTyped
    <2> QED
        BY <2>1, <2>2 DEF HistoryTyped
<1>4. CallTyped'
    BY <1>1, <1>2, LogFirst DEF CallTyped
<1> QED
    BY <1>1, <1>3, <1>4, ClosedTyped DEF TypeInv, FilesTyped, BlobsTyped

\* A call begins; files and blobs stay as they are.
LEMMA BeginTyped ==
    ASSUME TypeInv, UNCHANGED <<meta, wal, blobs, known, acked, unsafe>>, mem' \in MemType,
           stored' \subseteq stored, tried' \subseteq Keys,
           \/ call' = call /\ steps' = steps
           \/ /\ steps' \in {<<"save", "truncate">>, <<"force", "truncate">>, <<"save">>, << >>}
              /\ \/ \E p \in Keys : call' = <<"password", p>>
                 \/ call' \in {<<"close", Plain>>, <<"force", Plain>>, NoCall}
           \/ \E t \in Tables : call' = <<"create", t>> /\ Len(wal) < MaxLog
    PROVE  TypeInv'
<1>1. CallTyped'
    <2>1. CASE call' = call /\ steps' = steps
        BY <2>1 DEF TypeInv, CallTyped
    <2>2. ASSUME NEW p \in Keys, call' = <<"password", p>>,
                 steps' \in {<<"save", "truncate">>, <<"force", "truncate">>, <<"save">>, << >>}
          PROVE  CallTyped'
        <3>1. call'[1] = "password" /\ call'[2] = p
            BY <2>2
        <3> QED
            BY <2>2, <3>1, LogFirst DEF CallTyped
    <2>3. CASE /\ steps' \in {<<"save", "truncate">>, <<"force", "truncate">>, <<"save">>, << >>}
               /\ call' \in {<<"close", Plain>>, <<"force", Plain>>, NoCall}
        <3>1. call'[1] \notin {"password", "create"} /\ (call'[1] = "force" => call' = <<"force", Plain>>)
            BY <2>3 DEF NoCall
        <3> QED
            BY <2>3, <3>1, LogFirst DEF CallTyped
    <2>4. ASSUME NEW t \in Tables, call' = <<"create", t>>, Len(wal) < MaxLog PROVE CallTyped'
        <3>1. call'[1] = "create" /\ call'[2] = t
            BY <2>4
        <3> QED
            BY <2>4, <3>1 DEF CallTyped
    <2> QED
        BY <2>1, <2>2, <2>3, <2>4
<1> QED
    BY <1>1 DEF TypeInv, FilesTyped, BlobsTyped, HistoryTyped

\* The database is opened.
LEMMA OpenTyped ==
    ASSUME TypeInv, NEW p \in Keys, Open(p)
    PROVE  TypeInv'
<1>1. UNCHANGED <<meta, wal, blobs, known, tried, acked, unsafe, stored>>
    BY DEF Open, files, history
<1>2. tried \subseteq Keys /\ mem.skip \in BOOLEAN
    BY MemFields DEF TypeInv, HistoryTyped
<1>3. CASE meta.key \in {Plain, p}
    <2>1. /\ mem' = [Load(mem, meta, wal) EXCEPT !.key = p]
          /\ call' = <<"password", p>> /\ steps' \in {<<"save">>, << >>}
        BY <1>3 DEF Open, Begin
    <2>2. Load(mem, meta, wal) \in MemType
        BY <1>2, LoadTyped DEF TypeInv
    <2>3. mem' \in MemType
        BY <2>1, <2>2, MemFields
    <2> QED
        BY <1>1, <1>2, <2>1, <2>3, BeginTyped
<1>4. CASE meta.key \notin {Plain, p}
    <2>1. /\ mem' = [Closed EXCEPT !.open = TRUE, !.key = p]
          /\ call' = <<"close", Plain>> /\ steps' = << >>
        BY <1>4 DEF Open, Begin, CloseSteps
    <2>2. mem' \in MemType
        BY <2>1, ClosedTyped
    <2> QED
        BY <1>1, <1>2, <2>1, <2>2, BeginTyped
<1> QED
    BY <1>3, <1>4

\* The other calls of a database that is open.
LEMMA CallsTyped ==
    ASSUME TypeInv,
           \/ \E t \in Tables : CreateTable(t)
           \/ \E p \in Keys : ChangePassword(p)
           \/ \E b \in BOOLEAN : SetSkipSave(b)
           \/ ForceSave \/ Close
    PROVE  TypeInv'
<1>1. mem \in MemType /\ tried \subseteq Keys
    BY DEF TypeInv, HistoryTyped
<1>2. UNCHANGED <<meta, wal, blobs, known, tried, acked, unsafe, stored>>
    BY DEF CreateTable, ChangePassword, SetSkipSave, ForceSave, Close, files, history
<1>3. ASSUME NEW t \in Tables, CreateTable(t) PROVE TypeInv'
    <2>1. /\ mem' = [mem EXCEPT !.nextID = @ + 1, !.tables = @ \cup {t}]
          /\ call' = <<"create", t>> /\ Len(wal) < MaxLog
        BY <1>3 DEF CreateTable, Begin
    <2>2. mem' \in MemType
        BY <1>1, <2>1, MemFields
    <2> QED
        BY <1>1, <1>2, <2>1, <2>2, BeginTyped
<1>4. ASSUME NEW p \in Keys, ChangePassword(p) PROVE TypeInv'
    <2>1. /\ mem' = [mem EXCEPT !.key = p]
          /\ call' = <<"password", p>> /\ steps' = <<"save", "truncate">>
        BY <1>4 DEF ChangePassword, Begin
    <2>2. mem' \in MemType
        BY <1>1, <2>1, MemFields
    <2> QED
        BY <1>1, <1>2, <2>1, <2>2, BeginTyped
<1>5. ASSUME NEW b \in BOOLEAN, SetSkipSave(b) PROVE TypeInv'
    <2>1. mem' = [mem EXCEPT !.skip = b] /\ call' = call /\ steps' = steps
        BY <1>5 DEF SetSkipSave
    <2>2. mem' \in MemType
        BY <1>1, <2>1, MemFields
    <2> QED
        BY <1>1, <1>2, <2>1, <2>2, BeginTyped
<1>6. CASE ForceSave
    <2>1. mem' = mem /\ call' = <<"force", Plain>> /\ steps' = <<"force", "truncate">>
        BY <1>6 DEF ForceSave, Begin
    <2> QED
        BY <1>1, <1>2, <2>1, BeginTyped
<1>7. CASE Close
    <2>1. mem' = mem /\ call' = <<"close", Plain>> /\ steps' = <<"save", "truncate">>
        BY <1>7 DEF Close, Begin, CloseSteps
    <2> QED
        BY <1>1, <1>2, <2>1, BeginTyped
<1> QED
    BY <1>3, <1>4, <1>5, <1>6, <1>7

\* A password is set.
LEMMA SetTyped ==
    ASSUME TypeInv, NEW p \in Keys, SetEncryption(p)
    PROVE  TypeInv'
<1>1. UNCHANGED <<meta, wal, blobs, known, acked, unsafe>>
    BY DEF SetEncryption, files
<1>2. mem \in MemType /\ tried \subseteq Keys /\ mem.skip \in BOOLEAN /\ Plain \in Keys
    BY MemFields DEF TypeInv, HistoryTyped, Keys
<1>3. /\ mem' \in {[mem EXCEPT !.key = Plain], [mem EXCEPT !.key = p], Load(mem, meta, wal)}
      /\ tried' \in {tried, tried \cup {Plain}, tried \cup {p}}
      /\ stored' \in {stored, Kept}
      /\ \/ call' = call /\ steps' = steps
         \/ call' = <<"password", p>> /\ steps' \in {<<"save">>, << >>}
    BY DEF SetEncryption, Begin
<1>4. mem' \in MemType
    <2>1. Load(mem, meta, wal) \in MemType
        BY <1>2, LoadTyped DEF TypeInv
    <2>2. [mem EXCEPT !.key = Plain] \in MemType /\ [mem EXCEPT !.key = p] \in MemType
        BY <1>2, MemFields
    <2> QED
        BY <1>3, <2>1, <2>2
<1>5. tried' \subseteq Keys /\ stored' \subseteq stored
    BY <1>2, <1>3 DEF Kept
<1>6. CASE call' = call /\ steps' = steps
    BY <1>1, <1>4, <1>5, <1>6, BeginTyped
<1>7. CASE call' = <<"password", p>> /\ steps' \in {<<"save">>, << >>}
    BY <1>1, <1>4, <1>5, <1>7, BeginTyped
<1> QED
    BY <1>3, <1>6, <1>7

\* A blob is written, over the one of its number.
LEMMA PutTyped ==
    ASSUME TypeInv, NEW k \in Keys, NEW c \in Contents, NEW n \in Nat, PutBlob(k, c, n)
    PROVE  TypeInv'
<1> DEFINE new == <<mem.nextID, k, c>>
<1>1. /\ mem.nextID <= MaxID /\ blobs' = {b \in blobs : b[1] # mem.nextID} \cup {new}
      /\ stored' = stored \cup {new} /\ mem' = [mem EXCEPT !.nextID = @ + n]
      /\ UNCHANGED <<meta, wal, steps, call, known, tried, acked, unsafe>>
    BY DEF PutBlob
<1>2. mem.nextID \in Nat \ {0} /\ mem' \in MemType
    BY <1>1, MemFields DEF TypeInv
<1>3. new \in BlobFiles /\ new[1] = mem.nextID
    <2>1. mem.nextID \in 1..MaxID
        BY <1>1, <1>2, VaultAssumption
    <2> QED
        BY <2>1 DEF BlobFiles
<1> HIDE DEF new
<1>4. BlobsTyped'
    BY <1>1, <1>3 DEF TypeInv, BlobsTyped
<1> QED
    BY <1>1, <1>2, <1>4 DEF TypeInv, FilesTyped, CallTyped, HistoryTyped

\* Every state is of its types: a blob has one file, whatever numbers are given again
\* after a crash, and the log never holds more than it has room for.
THEOREM Types == Spec => []TypeInv
<1>1. Init => TypeInv
    <2> SUFFICES ASSUME Init PROVE TypeInv
        OBVIOUS
    <2>1. FilesTyped
        <3>1. meta \in [key : Keys, nextID : {1}, tables : {{}}] /\ wal = << >>
            BY DEF Init
        <3>2. << >> \in Seq(Keys \X Tables) /\ Len(<< >>) = 0 /\ 0 <= MaxLog
            BY VaultAssumption
        <3> QED
            BY <3>1, <3>2 DEF FilesTyped
    <2>2. mem \in MemType
        BY ClosedTyped DEF Init
    <2>3. CallTyped
        <3>1. call[1] = "none" /\ steps = << >>
            BY DEF Init, NoCall
        <3> QED
            BY <3>1, LogFirst DEF CallTyped
    <2>4. BlobsTyped /\ HistoryTyped
        <3>1. /\ blobs = {} /\ tried = {} /\ acked = {} /\ unsafe = {} /\ stored = {} /\ known = meta.key
            BY DEF Init
        <3> QED
            BY <2>1, <3>1 DEF BlobsTyped, HistoryTyped, FilesTyped
    <2> QED
        BY <2>1, <2>2, <2>3, <2>4 DEF TypeInv
<1>2. VaultInv /\ TypeInv /\ [Next]_vars => TypeInv'
    <2> SUFFICES ASSUME VaultInv, TypeInv, [Next]_vars PROVE TypeInv'
        OBVIOUS
    <2>1. CASE WriteWAL
        BY <2>1, WriteTyped
    <2>2. CASE SaveMetadata
        BY <2>2, SaveTyped
    <2>3. CASE TruncateWAL
        BY <2>3, TruncateTyped
    <2>4. CASE Return
        BY <2>4, ReturnTyped
    <2>5. ASSUME NEW p \in Keys, Open(p) PROVE TypeInv'
        BY <2>5, OpenTyped
    <2>6. ASSUME NEW p \in Keys, SetEncryption(p) PROVE TypeInv'
        BY <2>6, SetTyped
    <2>7. CASE \/ \E t \in Tables : CreateTable(t)
               \/ \E p \in Keys : ChangePassword(p)
               \/ \E b \in BOOLEAN : SetSkipSave(b)
               \/ ForceSave \/ Close
        BY <2>7, CallsTyped
    <2>8. ASSUME NEW c \in Contents, WriteBlob(c) \/ InsertRow(c) \/ Writer(c) PROVE TypeInv'
        <3>1. mem.key \in Keys /\ Plain \in Keys /\ 1 \in Nat /\ 3 \in Nat
            BY MemFields DEF TypeInv, Keys
        <3> QED
            BY <2>8, <3>1, PutTyped DEF WriteBlob, InsertRow, Writer
    <2>9. ASSUME NEW id \in 1..MaxID, DeleteBlob(id) PROVE TypeInv'
        <3>1. /\ blobs' \subseteq blobs /\ stored' \subseteq stored
              /\ UNCHANGED <<meta, wal, mem, steps, call, known, tried, acked, unsafe>>
            BY <2>9 DEF DeleteBlob
        <3> QED
            BY <3>1 DEF TypeInv, FilesTyped, CallTyped, BlobsTyped, HistoryTyped
    <2>10. CASE Crash
        <3>1. /\ mem' = Closed /\ steps' = << >> /\ call' = NoCall /\ stored' \subseteq stored
              /\ UNCHANGED <<meta, wal, blobs, known, acked, unsafe>>
            BY <2>10 DEF Crash, files, Kept
        <3>2. tried' \subseteq Keys
            BY <2>10 DEF Crash, TypeInv, CallTyped, HistoryTyped
        <3>3. mem' \in MemType
            BY <3>1, ClosedTyped
        <3> QED
            BY <3>1, <3>2, <3>3, BeginTyped
    <2>11. CASE UNCHANGED vars
        BY <2>11 DEF vars, files, history, TypeInv, FilesTyped, CallTyped, BlobsTyped, HistoryTyped
    <2> QED
        BY <2>1, <2>2, <2>3, <2>4, <2>5, <2>6, <2>7, <2>8, <2>9, <2>10, <2>11 DEF Next
<1> QED
    BY <1>1, <1>2, Invariance, PTL DEF Spec

\* The files are of their types, and stored blobs read back.
THEOREM BlobsAreSound == Spec => []BlobsSound
<1>1. VaultInv /\ TypeInv => TypeOK
    <2> SUFFICES ASSUME VaultInv, TypeInv PROVE TypeOK
        OBVIOUS
    <2>1. steps \in {<<"log", "save">>, <<"force", "truncate">>, <<"save", "truncate">>, <<"save">>,
                     <<"truncate">>, << >>}
        BY DEF VaultInv, CallSteps
    <2>2. steps \in Seq({"log", "save", "force", "truncate"})
        <3> DEFINE S == {"log", "save", "force", "truncate"}
        <3>1. "log" \in S /\ "save" \in S /\ "force" \in S /\ "truncate" \in S
            OBVIOUS
        <3> HIDE DEF S
        <3>2. << >> \in Seq(S) /\ <<"save">> \in Seq(S) /\ <<"truncate">> \in Seq(S)
            BY <3>1
        <3>3. <<"log", "save">> \in Seq(S)
            BY <3>1
        <3>4. <<"force", "truncate">> \in Seq(S)
            BY <3>1
        <3>5. <<"save", "truncate">> \in Seq(S)
            BY <3>1
        <3> QED
            BY <2>1, <3>2, <3>3, <3>4, <3>5 DEF S
    <2>3. steps # << >> => mem.open
        BY DEF VaultInv, VaultType
    <2> QED
        BY <2>2, <2>3 DEF TypeOK, TypeInv, FilesTyped, MemType, BlobsTyped, HistoryTyped
<1> QED
    BY <1>1, Invariance, Types, BlobsAreReadBack, PTL DEF BlobsSound

----------------------------------------------------------------------------
(* Tables survive.                                                          *)

\* The tables that creation was reported for, and that were not given up.
Safe == acked \ unsafe

\* What the log gives when it is read, at least: nothing if it has records of two keys.
InLog == IF Mixed(wal) THEN {} ELSE TablesOf(wal)

\* The table of a call of CreateTable is in memory, then in the log as well, and in the
\* end in the metadata unless bulk mode keeps it from being saved.
CreateInv ==
    call[1] = "create" =>
        /\ call[2] \in mem.tables
        /\ steps \in {<<"save">>, << >>} => call[2] \in TablesOf(wal)
        /\ steps = << >> /\ mem.skip = FALSE => call[2] \in meta.tables

\* A table that is safe is in the metadata or the log; in memory as well, from where the
\* next save takes it; and in the metadata when the log is about to be emptied.
SurviveInv ==
    /\ Safe \subseteq meta.tables \cup InLog
    /\ mem.open = TRUE /\ (call[1] # "close" \/ steps # << >>) => Safe \subseteq mem.tables
    /\ steps = <<"truncate">> /\ (mem.skip = FALSE \/ call[1] = "force") => Safe \subseteq meta.tables
    /\ CreateInv

\* A log of one key is read in full.
LEMMA ReadInFull ==
    ASSUME NEW log \in Seq(Keys \X Tables), NEW key, \A i \in 1..Len(log) : log[i][1] = key
    PROVE  ReadAll(log, key) = log
<1> DEFINE I == {i \in 1..Len(log) : log[i][1] # key}
           bad == SelectInSeq(log, LAMBDA r : r[1] # key)
<1>1. bad = IF I # {} THEN Min(I) ELSE 0
    BY DEF SelectInSeq
<1>2. I = {}
    OBVIOUS
<1>3. bad = 0
    BY <1>1, <1>2
<1> QED
    BY <1>3 DEF ReadAll

\* The database as it is opened again has the tables of the metadata, and those of the log.
LEMMA LoadSafe ==
    ASSUME FilesTyped, NEW m
    PROVE  meta.tables \cup InLog \subseteq Load(m, meta, wal).tables
<1>1. Load(m, meta, wal).tables = meta.tables \cup TablesOf(ReadAll(wal, meta.key))
    BY DEF Load
<1>2. InLog \subseteq TablesOf(ReadAll(wal, meta.key))
    <2>1. CASE Mixed(wal)
        BY <2>1 DEF InLog
    <2>2. CASE ~Mixed(wal)
        <3>1. ReadAll(wal, meta.key) = wal
            BY <2>2, ReadInFull DEF Mixed, FilesTyped
        <3> QED
            BY <2>2, <3>1 DEF InLog
    <2> QED
        BY <2>1, <2>2
<1> QED
    BY <1>1, <1>2

\* A record goes to the log: what only the log has is given up if that mixes its keys.
LEMMA WriteSurvives ==
    ASSUME VaultInv, TypeInv, SurviveInv, WriteWAL
    PROVE  SurviveInv'
<1> DEFINE r == <<mem.key, call[2]>>
<1>1. /\ steps # << >> /\ Head(steps) = "log" /\ steps' = Tail(steps) /\ wal' = Append(wal, r)
      /\ unsafe' = IF Mixed(wal') THEN unsafe \cup LogOnly ELSE unsafe
      /\ UNCHANGED <<meta, mem, call, acked>>
    BY DEF WriteWAL
<1>2. call[1] = "create" /\ steps = <<"log", "save">> /\ steps' = <<"save">>
    BY <1>1, StepsLeft
<1>3. r[2] = call[2]
    OBVIOUS
<1> HIDE DEF r
<1>4. /\ wal \in Seq(Keys \X Tables) /\ Len(wal') = Len(wal) + 1 /\ Len(wal) \in Nat
      /\ wal'[Len(wal) + 1] = r /\ \A i \in 1..Len(wal) : wal'[i] = wal[i]
    BY <1>1 DEF TypeInv, FilesTyped
<1>5. TablesOf(wal) \subseteq TablesOf(wal') /\ call[2] \in TablesOf(wal')
    <2>1. 1..Len(wal) \subseteq 1..Len(wal') /\ Len(wal) + 1 \in 1..Len(wal')
        BY <1>4
    <2> QED
        BY <1>3, <1>4, <2>1 DEF TablesOf
<1>6. Mixed(wal) => Mixed(wal')
    <2>1. 1..Len(wal) \subseteq 1..Len(wal')
        BY <1>4
    <2> QED
        BY <1>4, <2>1 DEF Mixed
<1>7. InLog' = IF Mixed(wal') THEN {} ELSE TablesOf(wal')
    BY <1>1 DEF InLog, Mixed, TablesOf
<1>8. Safe' \subseteq Safe
    BY <1>1 DEF Safe
<1>9. Safe' \subseteq meta'.tables \cup InLog'
    <2>1. CASE Mixed(wal')
        BY <1>1, <2>1 DEF Safe, LogOnly
    <2>2. CASE ~Mixed(wal')
        <3>1. Safe \subseteq meta.tables \cup TablesOf(wal)
            BY <1>6, <2>2 DEF SurviveInv, InLog
        <3> QED
            BY <1>1, <1>5, <1>7, <1>8, <2>2, <3>1
    <2> QED
        BY <2>1, <2>2
<1>10. CreateInv'
    <2>1. steps' # << >>
        BY <1>2, Distinct
    <2>2. TablesOf(wal)' = TablesOf(wal')
        BY DEF TablesOf
    <2> QED
        BY <1>1, <1>5, <2>1, <2>2 DEF SurviveInv, CreateInv
<1>11. Safe \subseteq mem.tables
    BY <1>1, <1>2 DEF SurviveInv, VaultInv, VaultType
<1> QED
    BY <1>1, <1>2, <1>8, <1>9, <1>10, <1>11, Distinct DEF SurviveInv

\* The metadata that are saved have all tables that are safe.
LEMMA SaveSurvives ==
    ASSUME VaultInv, SurviveInv, SaveMetadata
    PROVE  SurviveInv'
<1>1. /\ steps # << >> /\ Head(steps) \in {"save", "force"} /\ steps' = Tail(steps)
      /\ UNCHANGED <<wal, mem, call, acked, unsafe>>
      /\ \/ meta' = meta /\ mem.skip = TRUE /\ Head(steps) = "save"
         \/ meta'.tables = mem.tables
    BY DEF SaveMetadata, history, VaultInv, VaultType
<1>2. mem.open = TRUE
    BY <1>1 DEF VaultInv, VaultType
<1>3. Safe \subseteq mem.tables /\ Safe' = Safe
    BY <1>1, <1>2 DEF SurviveInv, Safe
<1>4. TablesOf(wal)' = TablesOf(wal)
    BY <1>1 DEF TablesOf
<1>5. /\ call[1] = "create" => steps = <<"save">> /\ steps' = << >>
      /\ Head(steps) = "save" => call[1] # "force"
    BY <1>1, StepsLeft
<1>6. CASE meta' = meta /\ mem.skip = TRUE /\ Head(steps) = "save"
    <2>1. InLog' = InLog
        BY <1>1, <1>4, <1>6 DEF InLog, Mixed
    <2> QED
        BY <1>1, <1>3, <1>4, <1>5, <1>6, <2>1 DEF SurviveInv, CreateInv
<1>7. CASE meta'.tables = mem.tables
    BY <1>1, <1>3, <1>4, <1>5, <1>7 DEF SurviveInv, CreateInv
<1> QED
    BY <1>1, <1>6, <1>7

\* The log is emptied: what it has is saved, or given up in bulk mode.
LEMMA TruncateSurvives ==
    ASSUME VaultInv, TypeInv, SurviveInv, TruncateWAL
    PROVE  SurviveInv'
<1>1. /\ steps # << >> /\ Head(steps) = "truncate" /\ steps' = Tail(steps)
      /\ unsafe' = IF mem.skip /\ call # <<"force", Plain>> THEN unsafe \cup LogOnly ELSE unsafe
      /\ UNCHANGED <<meta, mem, call, acked>>
    BY DEF TruncateWAL
<1>2. call[1] \in {"password", "close", "force"} /\ steps = <<"truncate">> /\ steps' = << >>
    BY <1>1, StepsLeft
<1>3. Safe' \subseteq Safe
    BY <1>1 DEF Safe
<1>4. Safe' \subseteq meta.tables
    <2>1. CASE mem.skip = TRUE /\ call # <<"force", Plain>>
        BY <1>1, <2>1 DEF Safe, LogOnly
    <2>2. CASE mem.skip = FALSE \/ call = <<"force", Plain>>
        <3>1. mem.skip = FALSE \/ call[1] = "force"
            BY <2>2
        <3> QED
            BY <1>2, <1>3, <3>1 DEF SurviveInv
    <2> QED
        BY <2>1, <2>2 DEF VaultInv, VaultType
<1>5. mem.open = TRUE
    BY <1>1 DEF VaultInv, VaultType
<1>6. Safe \subseteq mem.tables
    BY <1>1, <1>5 DEF SurviveInv
<1> QED
    BY <1>1, <1>2, <1>3, <1>4, <1>6, Distinct DEF SurviveInv, CreateInv

\* The table of a call that returns is in the metadata, or in a log that is read in full.
LEMMA ReturnSurvives ==
    ASSUME VaultInv, SurviveInv, Return
    PROVE  SurviveInv'
<1>1. /\ mem.open = TRUE /\ steps = << >> /\ steps' = << >> /\ call' = NoCall /\ UNCHANGED <<meta, wal>>
      /\ mem' = IF call[1] = "close" THEN Closed ELSE mem
    BY DEF Return, files, VaultInv, VaultType
<1>2. call'[1] = "none" /\ steps' # <<"truncate">>
    BY <1>1, Distinct DEF NoCall
<1>3. InLog' = InLog
    BY <1>1 DEF InLog, Mixed, TablesOf
<1>4. CreateInv'
    BY <1>2 DEF CreateInv
<1>5. CASE call[1] = "create"
    <2>1. acked' = acked \cup {call[2]}
        BY <1>5 DEF Return
    <2>2. unsafe' = IF mem.skip /\ Mixed(wal) THEN unsafe \cup {call[2]} ELSE unsafe
        BY <1>5 DEF Return
    <2>3. /\ call[2] \in mem.tables /\ call[2] \in TablesOf(wal)
          /\ mem.skip = FALSE => call[2] \in meta.tables
        BY <1>1, <1>5 DEF SurviveInv, CreateInv
    <2>4. Safe' \subseteq Safe \cup {call[2]}
        BY <2>1, <2>2 DEF Safe
    <2>5. call[2] \in Safe' => call[2] \in meta.tables \cup InLog
        <3>1. CASE mem.skip = FALSE
            BY <2>3, <3>1
        <3>2. CASE mem.skip = TRUE
            BY <2>2, <2>3, <3>2 DEF Safe, InLog
        <3> QED
            BY <3>1, <3>2 DEF VaultInv, VaultType
    <2>6. Safe \subseteq meta.tables \cup InLog /\ Safe \subseteq mem.tables /\ mem' = mem
        BY <1>1, <1>5 DEF SurviveInv
    <2> QED
        BY <1>1, <1>2, <1>3, <1>4, <2>3, <2>4, <2>5, <2>6 DEF SurviveInv
<1>6. CASE call[1] # "create"
    <2>1. acked' = acked /\ unsafe' = unsafe
        BY <1>6 DEF Return
    <2>2. Safe' = Safe
        BY <2>1 DEF Safe
    <2>3. mem'.open = TRUE => mem' = mem /\ call[1] # "close"
        BY <1>1 DEF Closed
    <2> QED
        BY <1>1, <1>2, <1>3, <1>4, <2>2, <2>3 DEF SurviveInv
<1> QED
    BY <1>5, <1>6

\* A step that leaves the files alone, and takes no table out of memory.
LEMMA StepSurvives ==
    ASSUME SurviveInv, UNCHANGED <<meta, wal, acked, unsafe>>, steps' # <<"truncate">>,
           mem'.open = TRUE /\ (call'[1] # "close" \/ steps' # << >>) => Safe \subseteq mem'.tables,
           call'[1] = "create" => call'[2] \in mem'.tables /\ steps' = <<"log", "save">>
    PROVE  SurviveInv'
<1>1. Safe' = Safe
    BY DEF Safe
<1>2. InLog' = InLog
    BY DEF InLog, Mixed, TablesOf
<1>3. CreateInv'
    BY LogFirst DEF CreateInv
<1> QED
    BY <1>1, <1>2, <1>3 DEF SurviveInv

\* The database is opened with the tables of the metadata and of the log.
LEMMA OpenSurvives ==
    ASSUME TypeInv, SurviveInv, NEW p \in Keys, Open(p)
    PROVE  SurviveInv'
<1>1. UNCHANGED <<meta, wal, acked, unsafe>>
    BY DEF Open, files, history
<1>2. CASE meta.key \in {Plain, p}
    <2>1. /\ mem'.tables = Load(mem, meta, wal).tables
          /\ call'[1] = "password" /\ steps' \in {<<"save">>, << >>}
        BY <1>2 DEF Open, Begin, Load
    <2>2. Safe \subseteq mem'.tables
        BY <2>1, LoadSafe DEF TypeInv, SurviveInv
    <2> QED
        BY <1>1, <2>1, <2>2, StepSurvives, Distinct
<1>3. CASE meta.key \notin {Plain, p}
    <2>1. call'[1] = "close" /\ steps' = << >>
        BY <1>3 DEF Open, Begin, CloseSteps
    <2> QED
        BY <1>1, <2>1, StepSurvives, Distinct
<1> QED
    BY <1>2, <1>3

\* The calls of a database that is open start with all safe tables in memory.
LEMMA CallSurvives ==
    ASSUME VaultInv, TypeInv, SurviveInv, Idle,
           \/ \E t \in Tables : CreateTable(t)
           \/ \E p \in Keys : ChangePassword(p) \/ SetEncryption(p)
           \/ \E b \in BOOLEAN : SetSkipSave(b)
           \/ ForceSave \/ Close
    PROVE  SurviveInv'
<1>1. call = NoCall /\ call[1] = "none" /\ steps = << >> /\ Safe \subseteq mem.tables
    BY IdleFacts DEF SurviveInv
<1>2. UNCHANGED <<meta, wal, acked, unsafe>>
    BY DEF CreateTable, ChangePassword, SetEncryption, SetSkipSave, ForceSave, Close, files, history
<1>3. MemRecord
    BY DEF VaultInv, VaultType
<1>4. <<"save", "truncate">> # <<"truncate">> /\ <<"force", "truncate">> # <<"truncate">>
      /\ <<"log", "save">> # <<"truncate">> /\ <<"save">> # <<"truncate">> /\ << >> # <<"truncate">>
    OBVIOUS
<1>5. ASSUME NEW t \in Tables, CreateTable(t) PROVE SurviveInv'
    <2>1. mem' = [mem EXCEPT !.nextID = @ + 1, !.tables = @ \cup {t}]
        BY <1>5 DEF CreateTable
    <2>2. mem'.tables = mem.tables \cup {t}
        BY <1>3, <2>1 DEF MemRecord
    <2>3. call'[1] = "create" /\ call'[2] = t /\ steps' = <<"log", "save">>
        BY <1>5 DEF CreateTable, Begin
    <2> QED
        BY <1>1, <1>2, <1>4, <2>2, <2>3, StepSurvives
<1>6. ASSUME NEW p \in Keys, ChangePassword(p) PROVE SurviveInv'
    <2>1. mem' = [mem EXCEPT !.key = p]
        BY <1>6 DEF ChangePassword
    <2>2. mem'.tables = mem.tables
        BY <1>3, <2>1 DEF MemRecord
    <2>3. call'[1] = "password" /\ steps' = <<"save", "truncate">>
        BY <1>6 DEF ChangePassword, Begin
    <2> QED
        BY <1>1, <1>2, <1>4, <2>2, <2>3, StepSurvives
<1>7. ASSUME NEW p \in Keys, SetEncryption(p) PROVE SurviveInv'
    <2>1. /\ mem' \in {[mem EXCEPT !.key = Plain], [mem EXCEPT !.key = p], Load(mem, meta, wal)}
          /\ \/ call' = call /\ steps' = steps
             \/ call' = <<"password", p>> /\ steps' \in {<<"save">>, << >>}
        BY <1>7 DEF SetEncryption, Begin
    <2>2. Safe \subseteq mem'.tables
        <3>1. Safe \subseteq Load(mem, meta, wal).tables
            BY LoadSafe DEF TypeInv, SurviveInv
        <3>2. \A k : [mem EXCEPT !.key = k].tables = mem.tables
            BY <1>3 DEF MemRecord
        <3>3. \/ mem'.tables = mem.tables
              \/ mem'.tables = Load(mem, meta, wal).tables
            BY <2>1, <3>2
        <3> QED
            BY <1>1, <3>1, <3>3
    <2>3. call'[1] \in {"none", "password"} /\ steps' \in {<<"save">>, << >>}
        BY <1>1, <2>1
    <2> QED
        BY <1>2, <1>4, <2>2, <2>3, StepSurvives
<1>8. ASSUME NEW b \in BOOLEAN, SetSkipSave(b) PROVE SurviveInv'
    <2>1. mem' = [mem EXCEPT !.skip = b] /\ call' = call /\ steps' = steps
        BY <1>8 DEF SetSkipSave
    <2>2. mem'.tables = mem.tables
        BY <1>3, <2>1 DEF MemRecord
    <2> QED
        BY <1>1, <1>2, <1>4, <2>1, <2>2, StepSurvives
<1>9. CASE ForceSave
    <2>1. mem' = mem /\ call'[1] = "force" /\ steps' = <<"force", "truncate">>
        BY <1>9 DEF ForceSave, Begin
    <2> QED
        BY <1>1, <1>2, <1>4, <2>1, StepSurvives
<1>10. CASE Close
    <2>1. mem' = mem /\ call'[1] = "close" /\ steps' = <<"save", "truncate">>
        BY <1>10 DEF Close, Begin, CloseSteps
    <2> QED
        BY <1>1, <1>2, <1>4, <2>1, StepSurvives
<1> QED
    BY <1>5, <1>6, <1>7, <1>8, <1>9, <1>10

\* Tables that are safe stay where opening finds them.
THEOREM SafeTables == Spec => []SurviveInv
<1>1. Init => SurviveInv
    <2> SUFFICES ASSUME Init PROVE SurviveInv
        OBVIOUS
    <2>1. acked = {} /\ steps = << >> /\ call[1] = "none"
        BY DEF Init, NoCall
    <2> QED
        BY <2>1, Distinct DEF SurviveInv, CreateInv, Safe
<1>2. VaultInv /\ TypeInv /\ SurviveInv /\ [Next]_vars => SurviveInv'
    <2> SUFFICES ASSUME VaultInv, TypeInv, SurviveInv, [Next]_vars PROVE SurviveInv'
        OBVIOUS
    <2>1. CASE WriteWAL
        BY <2>1, WriteSurvives
    <2>2. CASE SaveMetadata
        BY <2>2, SaveSurvives
    <2>3. CASE TruncateWAL
        BY <2>3, TruncateSurvives
    <2>4. CASE Return
        BY <2>4, ReturnSurvives
    <2>5. ASSUME NEW p \in Keys, Open(p) PROVE SurviveInv'
        BY <2>5, OpenSurvives
    <2>6. CASE \/ \E t \in Tables : CreateTable(t)
               \/ \E p \in Keys : ChangePassword(p) \/ SetEncryption(p)
               \/ \E b \in BOOLEAN : SetSkipSave(b)
               \/ ForceSave \/ Close
        <3>1. Idle
            BY <2>6 DEF CreateTable, ChangePassword, SetEncryption, SetSkipSave, ForceSave, Close
        <3> QED
            BY <2>6, <3>1, CallSurvives
    <2>7. ASSUME NEW k, NEW c, NEW n, PutBlob(k, c, n) PROVE SurviveInv'
        <3>1. /\ Idle /\ mem' = [mem EXCEPT !.nextID = @ + n]
              /\ UNCHANGED <<meta, wal, steps, call, acked, unsafe>>
            BY <2>7 DEF PutBlob
        <3>2. call[1] = "none" /\ steps = << >> /\ Safe \subseteq mem.tables
            BY <3>1, IdleFacts DEF SurviveInv
        <3>3. mem'.tables = mem.tables
            BY <3>1 DEF VaultInv, VaultType, MemRecord
        <3> QED
            BY <3>1, <3>2, <3>3, StepSurvives, Distinct
    <2>8. ASSUME NEW id \in 1..MaxID, DeleteBlob(id) PROVE SurviveInv'
        <3>1. Idle /\ UNCHANGED <<meta, wal, mem, steps, call, acked, unsafe>>
            BY <2>8 DEF DeleteBlob
        <3>2. call[1] = "none" /\ steps = << >> /\ Safe \subseteq mem.tables
            BY <3>1, IdleFacts DEF SurviveInv
        <3> QED
            BY <3>1, <3>2, StepSurvives, Distinct
    <2>9. CASE Crash
        <3>1. mem'.open = FALSE /\ steps' = << >> /\ call'[1] = "none" /\ UNCHANGED <<meta, wal, acked, unsafe>>
            BY <2>9 DEF Crash, files, Closed, NoCall
        <3> QED
            BY <3>1, StepSurvives, Distinct
    <2>10. CASE UNCHANGED vars
        BY <2>10 DEF vars, files, history, SurviveInv, CreateInv, Safe, InLog, Mixed, TablesOf
    <2> QED
        BY <2>1, <2>2, <2>3, <2>4, <2>5, <2>6, <2>7, <2>8, <2>9, <2>10
           DEF Next, WriteBlob, InsertRow, Writer
<1> QED
    BY <1>1, <1>2, Invariance, Types, PTL DEF Spec

\* Wherever the process ends, also between the steps of a password change, CreateTable's
\* tables are there when the database is opened again, except those that bulk mode or a
\* log of two keys has given up.
THEOREM CreatedTablesSurvive == Spec => []TablesSurvive
<1>1. TypeInv /\ SurviveInv => TablesSurvive
    BY LoadSafe DEF TypeInv, SurviveInv, Safe, TablesSurvive
<1> QED
    BY <1>1, Types, SafeTables, PTL
=============================================================================

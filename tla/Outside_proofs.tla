--------------------------- MODULE Outside_proofs ----------------------------
(***************************************************************************)
(* Theorems about what runs outside the server: the script that backs up   *)
(* and restores its stores (Recovery), the page its users work with        *)
(* (Workspace), and the helper of the design skill (Live).  The three have *)
(* no state in common, and neither do their proofs.                        *)
(***************************************************************************)

EXTENDS Recovery, Workspace, Live, SequenceTheorems, FiniteSetTheorems, TLAPS
-----------------------------------------------------------------------------
(***************************************************************************)
(* RECOVERY, for any number of records.  The stores match whenever anybody *)
(* can write to them: between the first and the last write of a restore    *)
(* nothing is on its way and the application is down.  While a backup is   *)
(* made, what the dump has is never ahead of the rows, and knows every row *)
(* there is.                                                               *)
(***************************************************************************)

\* The row of r, its object, and what is on its way between them.
RecordInv(r) ==
    /\ db[r] = "none" => r \notin objects /\ <<"put", r>> \notin sent
    /\ db[r] = "stored" \/ r \in heard \/ <<"confirm", r>> \in sent => r \in objects

WellFiled == db # Lost /\ objects # Lost /\ \A r \in Record : RecordInv(r)

\* Nobody writes to the stores, nor will when they are started.
Quiet == "api" \notin up /\ sent = {}

StoresInv ==
    WellFiled \/ (Quiet /\ pc \in {"r empty objects", "r copy objects", "restore failed"})

\* What the dump has of r: the row was there, and was not further than now.
DumpedInv(r) == temp.db[r] \in {"none", "pending", db[r]} /\ (temp.db[r] = "none" => db[r] = "none")

Copying == {"b stop stores", "b copy", "b move"}

CopyInv ==
    /\ pc \in Copying => temp.db \in Rows /\ \A r \in Record : DumpedInv(r)
    /\ pc = "b move" => temp.objects = objects

Restoring == {"r restore rows", "r empty objects", "r copy objects"}

PlaceInv ==
    /\ "api" \notin up => heard = {}
    /\ pc \in {"b dump"} \cup Copying \cup {"r stop stores"} => "api" \notin up
    /\ pc \in {"b copy", "b move"} => "minio" \notin up
    /\ pc \in Restoring => Quiet
    /\ pc \in RestoreSteps => destination # None
    /\ pc \in {"r empty objects", "r copy objects"} => db = destination.db

RecoveryInv == RecoveryTypeOK /\ StoresInv /\ CopyInv /\ PlaceInv /\ BackupIsConsistent
-----------------------------------------------------------------------------
(* Types, and what leaves the stores as they are *)

Command == {"idle", "restore failed"} \cup BackupSteps \cup RestoreSteps

LEMMA RecoveryTypes ==
    RecoveryTypeOK <=>
        /\ up \subseteq Service
        /\ db \in Rows \cup {Lost} /\ objects \in {Lost} \cup SUBSET Record
        /\ sent \subseteq {"put", "confirm"} \X Record /\ heard \subseteq Record
        /\ temp \in [db : Rows \cup {None}, objects : (SUBSET Record) \cup {None}]
        /\ destination \in [db : Rows, objects : SUBSET Record] \cup {None}
        /\ pc \in Command
BY DEF RecoveryTypeOK, Command

\* Stores that match hold rows and objects.
LEMMA Filed ==
    ASSUME RecoveryTypeOK, WellFiled
    PROVE  db \in Rows /\ objects \in SUBSET Record
BY RecoveryTypes DEF WellFiled

LEMMA NotLost ==
    /\ \A d \in Rows : d # Lost
    /\ \A o \in SUBSET Record : o # Lost
BY LostAssumption

\* With less on its way the stores still match.
LEMMA LessOnItsWay ==
    ASSUME WellFiled, UNCHANGED stores, sent' \subseteq sent, heard' \subseteq heard
    PROVE  WellFiled'
<1>1. db' = db /\ objects' = objects
    BY DEF stores
<1> QED
    BY <1>1 DEF WellFiled, RecordInv

\* Stores that match are stores nobody would call inconsistent.
LEMMA MatchingStores ==
    ASSUME RecoveryTypeOK, WellFiled
    PROVE  InCustody(db, objects) /\ Reconcilable(db, objects)
BY Filed DEF WellFiled, RecordInv, InCustody, Reconcilable

\* The stores match at every command but those.
LEMMA FiledAt ==
    ASSUME RecoveryInv, pc \notin {"r empty objects", "r copy objects", "restore failed"}
    PROVE  WellFiled
BY DEF RecoveryInv, StoresInv

\* Whoever is running, or has something on its way, writes to matching stores.
LEMMA FiledWhenUsed ==
    ASSUME RecoveryInv, "api" \in up \/ sent # {} \/ heard # {}
    PROVE  WellFiled
BY DEF RecoveryInv, StoresInv, Quiet, PlaceInv

LEMMA StoppedFacts ==
    ASSUME RecoveryInv, NEW services, Stopped(services)
    PROVE  /\ up' = up \ services /\ up' \subseteq Service
           /\ sent' \subseteq sent /\ heard' \subseteq heard
           /\ "api" \notin up' => heard' = {}
           /\ "postgres" \in services /\ "minio" \in services => sent' = {}
<1>1. up' \subseteq Service /\ sent' \subseteq sent /\ heard' \subseteq heard
    BY RecoveryTypes DEF RecoveryInv, Stopped
<1>2. "api" \notin up' => heard' = {}
    BY DEF RecoveryInv, PlaceInv, Stopped
<1>3. ASSUME "postgres" \in services, "minio" \in services
      PROVE  sent' = {}
    <2>1. \A m \in sent : m[1] \in {"put", "confirm"}
        BY RecoveryTypes DEF RecoveryInv
    <2> QED
        BY <1>3, <2>1 DEF Stopped
<1> QED
    BY <1>1, <1>2, <1>3 DEF Stopped

LEMMA StartedFacts ==
    ASSUME RecoveryInv, NEW services \in SUBSET Service, Started(services)
    PROVE  /\ up' = up \cup services /\ up' \subseteq Service
           /\ sent' = sent /\ heard' = heard
           /\ "api" \notin up' => heard' = {}
BY RecoveryTypes DEF RecoveryInv, PlaceInv, Started

\* What is left to show of a command that only moves containers.
LEMMA ContainersKeep ==
    ASSUME RecoveryInv, UNCHANGED <<stores, temp, destination>>, pc' \in Command,
           up' \subseteq Service, sent' \subseteq sent, heard' \subseteq heard,
           WellFiled \/ (Quiet' /\ pc' = "restore failed"),
           CopyInv', PlaceInv'
    PROVE  RecoveryInv'
<1>1. UNCHANGED <<db, objects, temp, destination>>
    BY DEF stores
<1>2. RecoveryTypeOK'
    <2>1. sent' \subseteq {"put", "confirm"} \X Record /\ heard' \subseteq Record
        BY DEF RecoveryInv, RecoveryTypeOK
    <2> QED
        BY <1>1, <2>1 DEF RecoveryInv, RecoveryTypeOK, Command
<1>3. StoresInv'
    BY LessOnItsWay DEF StoresInv
<1>4. BackupIsConsistent'
    BY <1>1 DEF RecoveryInv, BackupIsConsistent
<1> QED
    BY <1>2, <1>3, <1>4 DEF RecoveryInv

\* What a step of the application leaves alone.
LEMMA ApplicationKeeps ==
    ASSUME RecoveryInv, UNCHANGED <<up, script>>, RecoveryTypeOK', WellFiled',
           "api" \notin up => heard' = {},
           pc \in Restoring => Quiet /\ UNCHANGED <<db, sent>>,
           \A r \in Record : pc \in Copying /\ DumpedInv(r) => DumpedInv(r)',
           pc = "b move" => UNCHANGED objects
    PROVE  RecoveryInv'
<1>1. UNCHANGED <<up, temp, destination, pc>>
    BY DEF script
<1>2. StoresInv' /\ BackupIsConsistent'
    BY <1>1 DEF RecoveryInv, StoresInv, BackupIsConsistent
<1>3. CopyInv'
    BY <1>1 DEF RecoveryInv, CopyInv
<1>4. PlaceInv'
    BY <1>1 DEF RecoveryInv, PlaceInv, Quiet, Restoring, Copying
<1> QED
    BY <1>2, <1>3, <1>4 DEF RecoveryInv
-----------------------------------------------------------------------------
(* The application *)

LEMMA FileKeeps ==
    ASSUME RecoveryInv, NEW r \in Record, File(r)
    PROVE  RecoveryInv'
<1>1. /\ "api" \in up /\ db # Lost /\ db[r] = "none"
      /\ db' = [db EXCEPT ![r] = "pending"]
      /\ sent' = sent \cup {<<"put", r>>} \/ sent' = sent
      /\ UNCHANGED <<up, objects, heard, script>>
    BY DEF File, Running, Service
<1>2. WellFiled /\ db \in Rows
    BY <1>1, FiledWhenUsed, Filed DEF RecoveryInv
<1>3. /\ db' \in Rows /\ db'[r] = "pending"
      /\ \A s \in Record \ {r} : db'[s] = db[s]
    BY <1>1, <1>2 DEF Rows
<1>4. RecoveryTypeOK'
    <2>1. <<"put", r>> \in {"put", "confirm"} \X Record
        OBVIOUS
    <2>2. sent' \subseteq {"put", "confirm"} \X Record
        BY <1>1, <2>1 DEF RecoveryInv, RecoveryTypeOK
    <2> QED
        BY <1>1, <1>3, <2>2 DEF RecoveryInv, RecoveryTypeOK, script
<1>5. WellFiled'
    <2>1. \A s \in Record : RecordInv(s)'
        <3> SUFFICES ASSUME NEW s \in Record PROVE RecordInv(s)'
            OBVIOUS
        <3>1. RecordInv(s) /\ RecordInv(r)
            BY <1>2 DEF WellFiled
        <3>2. <<"confirm", s>> \in sent' => <<"confirm", s>> \in sent
            BY <1>1
        <3>3. s # r /\ <<"put", s>> \in sent' => <<"put", s>> \in sent
            BY <1>1
        <3> QED
            BY <1>1, <1>3, <3>1, <3>2, <3>3 DEF RecordInv
    <2> QED
        BY <1>1, <1>2, <1>3, <2>1, NotLost DEF WellFiled
<1>6. pc \notin Copying /\ ~ (pc \in Restoring)
    BY <1>1 DEF RecoveryInv, PlaceInv, Quiet
<1>7. "api" \notin up => heard' = {}
    BY <1>1
<1>8. pc = "b move" => UNCHANGED objects
    BY <1>1
<1>9. UNCHANGED <<up, script>>
    BY <1>1
<1> QED
    BY <1>4, <1>5, <1>6, <1>7, <1>8, <1>9, ApplicationKeeps

LEMMA PutKeeps ==
    ASSUME RecoveryInv, NEW r \in Record, Put(r)
    PROVE  RecoveryInv'
<1>1. /\ <<"put", r>> \in sent /\ "minio" \in up
      /\ objects' = objects \cup {r}
      /\ sent' = sent \ {<<"put", r>>}
      /\ heard' = IF "api" \in up THEN heard \cup {r} ELSE heard
      /\ UNCHANGED <<up, db, script>>
    BY DEF Put
<1>2. WellFiled /\ db \in Rows /\ objects \in SUBSET Record
    BY <1>1, FiledWhenUsed, Filed DEF RecoveryInv
<1>3. RecoveryTypeOK'
    BY <1>1, <1>2 DEF RecoveryInv, RecoveryTypeOK, script
<1>4. WellFiled'
    <2>1. \A s \in Record : RecordInv(s)'
        <3> SUFFICES ASSUME NEW s \in Record PROVE RecordInv(s)'
            OBVIOUS
        <3>1. RecordInv(s)
            BY <1>2 DEF WellFiled
        <3>2. <<"confirm", s>> \in sent' => <<"confirm", s>> \in sent
            BY <1>1
        <3>3. s = r => s \in objects' /\ db[s] # "none"
            BY <1>1, <3>1 DEF RecordInv
        <3>4. s # r => /\ s \in objects' <=> s \in objects
                       /\ s \in heard' <=> s \in heard
            BY <1>1
        <3>5. <<"put", s>> \in sent' => <<"put", s>> \in sent
            BY <1>1
        <3> QED
            BY <1>1, <3>1, <3>2, <3>3, <3>4, <3>5 DEF RecordInv
    <2>2. objects' \in SUBSET Record
        BY <1>1, <1>2
    <2> QED
        BY <1>1, <1>2, <2>1, <2>2, NotLost DEF WellFiled
<1>5. pc \notin Restoring /\ pc # "b move"
    BY <1>1 DEF RecoveryInv, PlaceInv, Quiet
<1>6. "api" \notin up => heard' = {}
    BY <1>1 DEF RecoveryInv, PlaceInv
<1>7. \A s \in Record : DumpedInv(s) => DumpedInv(s)'
    BY <1>1 DEF DumpedInv, script
<1>8. UNCHANGED <<up, script>>
    BY <1>1
<1> QED
    BY <1>3, <1>4, <1>5, <1>6, <1>7, <1>8, ApplicationKeeps

LEMMA ConfirmKeeps ==
    ASSUME RecoveryInv, NEW r \in Record, Confirm(r)
    PROVE  RecoveryInv'
<1>1. /\ r \in heard /\ "api" \in up
      /\ sent' = sent \cup {<<"confirm", r>>}
      /\ heard' = heard \ {r}
      /\ UNCHANGED <<up, db, objects, script>>
    BY DEF Confirm, Running
<1>2. WellFiled
    BY <1>1, FiledWhenUsed
<1>3. RecoveryTypeOK'
    <2>1. <<"confirm", r>> \in {"put", "confirm"} \X Record
        OBVIOUS
    <2>2. sent' \subseteq {"put", "confirm"} \X Record
        BY <1>1, <2>1 DEF RecoveryInv, RecoveryTypeOK
    <2> QED
        BY <1>1, <2>2 DEF RecoveryInv, RecoveryTypeOK, script
<1>4. WellFiled'
    <2>1. \A s \in Record : RecordInv(s)'
        <3> SUFFICES ASSUME NEW s \in Record PROVE RecordInv(s)'
            OBVIOUS
        <3>1. RecordInv(s) /\ RecordInv(r)
            BY <1>2 DEF WellFiled
        <3>2. <<"put", s>> \in sent' => <<"put", s>> \in sent
            BY <1>1
        <3>3. <<"confirm", s>> \in sent' => s \in objects
            BY <1>1, <3>1 DEF RecordInv
        <3> QED
            BY <1>1, <3>1, <3>2, <3>3 DEF RecordInv
    <2> QED
        BY <1>1, <1>2, <2>1 DEF WellFiled
<1>5. pc \notin Restoring /\ pc \notin Copying
    BY <1>1 DEF RecoveryInv, PlaceInv, Quiet
<1>6. "api" \notin up => heard' = {}
    BY <1>1
<1>7. UNCHANGED <<up, script>> /\ UNCHANGED objects
    BY <1>1
<1> QED
    BY <1>3, <1>4, <1>5, <1>6, <1>7, ApplicationKeeps

LEMMA ConfirmedKeeps ==
    ASSUME RecoveryInv, NEW r \in Record, Confirmed(r)
    PROVE  RecoveryInv'
<1>1. /\ <<"confirm", r>> \in sent
      /\ db' = IF db[r] = "pending" THEN [db EXCEPT ![r] = "stored"] ELSE db
      /\ sent' = sent \ {<<"confirm", r>>}
      /\ UNCHANGED <<up, objects, heard, script>>
    BY DEF Confirmed
<1>2. WellFiled /\ db \in Rows
    BY <1>1, FiledWhenUsed, Filed DEF RecoveryInv
<1>3. /\ db' \in Rows
      /\ \A s \in Record \ {r} : db'[s] = db[s]
      /\ db'[r] = db[r] \/ (db[r] = "pending" /\ db'[r] = "stored")
    BY <1>1, <1>2 DEF Rows
<1>4. RecoveryTypeOK'
    BY <1>1, <1>3 DEF RecoveryInv, RecoveryTypeOK, script
<1>5. WellFiled'
    <2>1. \A s \in Record : RecordInv(s)'
        <3> SUFFICES ASSUME NEW s \in Record PROVE RecordInv(s)'
            OBVIOUS
        <3>1. RecordInv(s)
            BY <1>2 DEF WellFiled
        <3>2. s = r => s \in objects
            BY <1>1, <3>1 DEF RecordInv
        <3>3. /\ <<"confirm", s>> \in sent' => <<"confirm", s>> \in sent
              /\ <<"put", s>> \in sent' => <<"put", s>> \in sent
            BY <1>1
        <3> QED
            BY <1>1, <1>3, <3>1, <3>2, <3>3 DEF RecordInv
    <2> QED
        BY <1>1, <1>2, <1>3, <2>1, NotLost DEF WellFiled
<1>6. pc \notin Restoring
    BY <1>1 DEF RecoveryInv, PlaceInv, Quiet
<1>7. \A s \in Record : DumpedInv(s) => DumpedInv(s)'
    BY <1>1, <1>3 DEF DumpedInv, script
<1>8. "api" \notin up => heard' = {}
    BY <1>1 DEF RecoveryInv, PlaceInv
<1>9. UNCHANGED <<up, script>> /\ UNCHANGED objects
    BY <1>1
<1> QED
    BY <1>4, <1>5, <1>6, <1>7, <1>8, <1>9, ApplicationKeeps
-----------------------------------------------------------------------------
(* The script *)

\* What is left to show of a command that leaves the application alone and writes
\* nothing to the stores.
LEMMA ScriptKeeps ==
    ASSUME RecoveryInv, WellFiled, UNCHANGED <<stores, up, sent, heard>>, RecoveryTypeOK',
           CopyInv', PlaceInv', BackupIsConsistent'
    PROVE  RecoveryInv'
<1>1. WellFiled'
    BY LessOnItsWay
<1> QED
    BY <1>1 DEF RecoveryInv, StoresInv

LEMMA BackupKeeps ==
    ASSUME RecoveryInv, Backup
    PROVE  RecoveryInv'
<1>1. /\ pc = "idle" /\ pc' = "b stop api" /\ temp' = NoCopy
      /\ UNCHANGED <<up, stores, sent, heard, destination>>
    BY DEF Backup
<1>2. WellFiled
    BY <1>1, FiledAt
<1>3. RecoveryTypeOK'
    BY <1>1 DEF RecoveryInv, RecoveryTypeOK, stores, NoCopy, BackupSteps
<1>4. CopyInv' /\ PlaceInv' /\ BackupIsConsistent'
    BY <1>1 DEF RecoveryInv, CopyInv, PlaceInv, BackupIsConsistent, Copying, Restoring, RestoreSteps
<1> QED
    BY <1>1, <1>2, <1>3, <1>4, ScriptKeeps

LEMMA StopApiKeeps ==
    ASSUME RecoveryInv, StopApi
    PROVE  RecoveryInv'
<1>1. /\ pc = "b stop api" /\ pc' = "b dump" /\ Stopped({"api"})
      /\ UNCHANGED <<stores, temp, destination>>
    BY DEF StopApi
<1>2. /\ "api" \notin up' /\ heard' = {} /\ up' \subseteq Service
      /\ sent' \subseteq sent /\ heard' \subseteq heard
    BY <1>1, StoppedFacts
<1>3. CopyInv' /\ PlaceInv'
    BY <1>1, <1>2 DEF CopyInv, PlaceInv, Copying, Restoring, RestoreSteps
<1>4. pc' \in Command
    BY <1>1 DEF Command, BackupSteps
<1> QED
    BY <1>1, <1>2, <1>3, <1>4, FiledAt, ContainersKeep

\* The dump has the rows as they are.
LEMMA DumpKeeps ==
    ASSUME RecoveryInv, Dump
    PROVE  RecoveryInv'
<1>1. /\ pc = "b dump" /\ pc' = "b stop stores"
      /\ temp' = [temp EXCEPT !.db = db]
      /\ UNCHANGED <<up, stores, sent, heard, destination>>
    BY DEF Dump
<1>2. WellFiled /\ db \in Rows
    BY <1>1, FiledAt, Filed DEF RecoveryInv
<1>3. temp' \in [db : Rows \cup {None}, objects : (SUBSET Record) \cup {None}] /\ temp'.db = db
    BY <1>1, <1>2, RecoveryTypes DEF RecoveryInv
<1>4. RecoveryTypeOK'
    BY <1>1, <1>3 DEF RecoveryInv, RecoveryTypeOK, stores, BackupSteps
<1>5. CopyInv'
    BY <1>1, <1>2, <1>3 DEF CopyInv, DumpedInv, stores
<1>6. PlaceInv' /\ BackupIsConsistent'
    BY <1>1 DEF RecoveryInv, PlaceInv, BackupIsConsistent, Copying, Restoring, RestoreSteps
<1> QED
    BY <1>1, <1>2, <1>4, <1>5, <1>6, ScriptKeeps

LEMMA StopStoresKeeps ==
    ASSUME RecoveryInv, StopStores
    PROVE  RecoveryInv'
<1>1. /\ pc = "b stop stores" /\ pc' = "b copy" /\ Stopped({"postgres", "minio"})
      /\ UNCHANGED <<stores, temp, destination>>
    BY DEF StopStores
<1>2. /\ "api" \notin up' /\ "minio" \notin up' /\ heard' = {} /\ up' \subseteq Service
      /\ sent' \subseteq sent /\ heard' \subseteq heard
    <2>1. "api" \notin up
        BY <1>1 DEF RecoveryInv, PlaceInv, Copying
    <2>2. up' = up \ {"postgres", "minio"}
        BY <1>1 DEF Stopped
    <2> QED
        BY <1>1, <2>1, <2>2, StoppedFacts
<1>3. CopyInv'
    BY <1>1 DEF RecoveryInv, CopyInv, DumpedInv, Copying, stores
<1>4. PlaceInv'
    BY <1>1, <1>2 DEF PlaceInv, Restoring, RestoreSteps
<1>5. pc' \in Command
    BY <1>1 DEF Command, BackupSteps
<1> QED
    BY <1>1, <1>2, <1>3, <1>4, <1>5, FiledAt, ContainersKeep

LEMMA CopyObjectsKeeps ==
    ASSUME RecoveryInv, CopyObjects
    PROVE  RecoveryInv'
<1>1. /\ pc = "b copy" /\ pc' = "b move"
      /\ temp' = [temp EXCEPT !.objects = objects]
      /\ UNCHANGED <<up, stores, sent, heard, destination>>
    BY DEF CopyObjects
<1>2. WellFiled /\ objects \in SUBSET Record
    BY <1>1, FiledAt, Filed DEF RecoveryInv
<1>3. /\ temp' \in [db : Rows \cup {None}, objects : (SUBSET Record) \cup {None}]
      /\ temp'.db = temp.db /\ temp'.objects = objects
    BY <1>1, <1>2, RecoveryTypes DEF RecoveryInv
<1>4. RecoveryTypeOK'
    BY <1>1, <1>3 DEF RecoveryInv, RecoveryTypeOK, stores, BackupSteps
<1>5. CopyInv'
    BY <1>1, <1>3 DEF RecoveryInv, CopyInv, DumpedInv, Copying, stores
<1>6. PlaceInv' /\ BackupIsConsistent'
    BY <1>1 DEF RecoveryInv, PlaceInv, BackupIsConsistent, Copying, Restoring, RestoreSteps
<1> QED
    BY <1>1, <1>2, <1>4, <1>5, <1>6, ScriptKeeps

\* Older rows match the objects as well: what has been filed since was on its way.
LEMMA CopyIsConsistent ==
    ASSUME RecoveryInv, pc = "b move"
    PROVE  /\ temp.db \in Rows /\ temp.objects \in SUBSET Record
           /\ InCustody(temp.db, temp.objects) /\ Reconcilable(temp.db, temp.objects)
<1>1. /\ WellFiled /\ objects \in SUBSET Record
      /\ temp.db \in Rows /\ temp.objects = objects /\ \A r \in Record : DumpedInv(r)
    BY FiledAt, Filed DEF RecoveryInv, CopyInv, Copying
<1>2. InCustody(temp.db, objects)
    BY <1>1 DEF InCustody, DumpedInv, WellFiled, RecordInv
<1>3. Reconcilable(temp.db, objects)
    BY <1>1 DEF Reconcilable, DumpedInv, WellFiled, RecordInv
<1> QED
    BY <1>1, <1>2, <1>3

LEMMA MoveKeeps ==
    ASSUME RecoveryInv, Move
    PROVE  RecoveryInv'
<1>1. /\ pc = "b move" /\ pc' = "b start stores" /\ destination' = temp
      /\ UNCHANGED <<up, stores, sent, heard, temp>>
    BY DEF Move
<1>2. /\ temp \in [db : Rows, objects : SUBSET Record]
      /\ InCustody(temp.db, temp.objects) /\ Reconcilable(temp.db, temp.objects)
    BY <1>1, CopyIsConsistent, RecoveryTypes DEF RecoveryInv
<1>3. BackupIsConsistent'
    BY <1>1, <1>2 DEF BackupIsConsistent, InCustody, Reconcilable
<1>4. RecoveryTypeOK'
    BY <1>1, <1>2 DEF RecoveryInv, RecoveryTypeOK, stores, BackupSteps
<1>5. CopyInv' /\ PlaceInv'
    BY <1>1 DEF RecoveryInv, CopyInv, PlaceInv, Copying, Restoring, RestoreSteps
<1> QED
    BY <1>1, <1>3, <1>4, <1>5, FiledAt, ScriptKeeps

LEMMA StartStoresKeeps ==
    ASSUME RecoveryInv, StartStores
    PROVE  RecoveryInv'
<1>1. /\ pc \in {"b start stores", "r start stores"}
      /\ pc' = IF pc = "b start stores" THEN "b start api" ELSE "r start api"
      /\ Started({"postgres", "minio"})
      /\ UNCHANGED <<stores, temp, destination>>
    BY DEF StartStores
<1>2. /\ up' \subseteq Service /\ sent' = sent /\ heard' = heard
      /\ "api" \notin up' => heard' = {}
    BY <1>1, StartedFacts DEF Service
<1>3. CopyInv' /\ PlaceInv'
    BY <1>1, <1>2 DEF RecoveryInv, CopyInv, PlaceInv, Copying, Restoring, RestoreSteps
<1>4. pc' \in Command
    BY <1>1 DEF Command, BackupSteps, RestoreSteps
<1> QED
    BY <1>1, <1>2, <1>3, <1>4, FiledAt, ContainersKeep

LEMMA StartApiKeeps ==
    ASSUME RecoveryInv, StartApi
    PROVE  RecoveryInv'
<1>1. /\ pc \in {"b start api", "r start api"}
      /\ pc' = IF pc = "b start api" THEN "idle" ELSE "r wait"
      /\ Started({"api"})
      /\ UNCHANGED <<stores, temp, destination>>
    BY DEF StartApi
<1>2. /\ up' \subseteq Service /\ sent' = sent /\ heard' = heard
      /\ "api" \notin up' => heard' = {}
    BY <1>1, StartedFacts DEF Service
<1>3. CopyInv' /\ PlaceInv'
    BY <1>1, <1>2 DEF RecoveryInv, CopyInv, PlaceInv, Copying, Restoring, RestoreSteps
<1>4. pc' \in Command
    BY <1>1 DEF Command, RestoreSteps
<1> QED
    BY <1>1, <1>2, <1>3, <1>4, FiledAt, ContainersKeep

\* A backup that ends early leaves its directory behind, and the containers.
LEMMA BackToIdle ==
    ASSUME RecoveryInv, WellFiled, pc' = "idle", UNCHANGED <<stores, temp, destination>>,
           up' \subseteq Service, sent' \subseteq sent, heard' \subseteq heard,
           "api" \notin up' => heard' = {}
    PROVE  RecoveryInv'
<1>1. CopyInv' /\ PlaceInv'
    BY DEF CopyInv, PlaceInv, Copying, Restoring, RestoreSteps
<1>2. pc' \in Command
    BY DEF Command
<1> QED
    BY <1>1, <1>2, ContainersKeep

LEMMA BackupFailsKeeps ==
    ASSUME RecoveryInv, BackupFails
    PROVE  RecoveryInv'
<1>1. /\ pc \in {"b dump", "b copy"} /\ pc' = "idle" /\ Started(Service)
      /\ UNCHANGED <<stores, temp, destination>>
    BY DEF BackupFails
<1> QED
    BY <1>1, StartedFacts, FiledAt, BackToIdle

LEMMA BackupEndsKeeps ==
    ASSUME RecoveryInv, BackupEnds
    PROVE  RecoveryInv'
<1>1. /\ pc \in BackupSteps /\ pc' = "idle"
      /\ UNCHANGED <<stores, temp, destination>>
    BY DEF BackupEnds
<1>2. (\E S \in SUBSET Service : Stopped(S)) \/ UNCHANGED <<up, sent, heard>>
    BY DEF BackupEnds, StopSome, Service
<1>3. /\ up' \subseteq Service /\ sent' \subseteq sent /\ heard' \subseteq heard
      /\ "api" \notin up' => heard' = {}
    BY <1>2, StoppedFacts, RecoveryTypes DEF RecoveryInv, PlaceInv
<1>4. WellFiled
    BY <1>1, FiledAt DEF BackupSteps
<1> QED
    BY <1>1, <1>3, <1>4, BackToIdle

LEMMA LaunchKeeps ==
    ASSUME RecoveryInv, Launch
    PROVE  RecoveryInv'
<1>1. pc = "idle" /\ Started(Service) /\ UNCHANGED <<stores, script>>
    BY DEF Launch
<1>2. pc' = "idle" /\ UNCHANGED <<stores, temp, destination>>
    BY <1>1 DEF script
<1> QED
    BY <1>1, <1>2, StartedFacts, FiledAt, BackToIdle

LEMMA RestoreKeeps ==
    ASSUME RecoveryInv, Restore
    PROVE  RecoveryInv'
<1>1. /\ pc = "idle" /\ destination # None /\ pc' = "r stop api"
      /\ UNCHANGED <<up, stores, sent, heard, temp, destination>>
    BY DEF Restore
<1>2. RecoveryTypeOK'
    BY <1>1 DEF RecoveryInv, RecoveryTypeOK, stores, RestoreSteps
<1>3. CopyInv' /\ PlaceInv' /\ BackupIsConsistent'
    BY <1>1 DEF RecoveryInv, CopyInv, PlaceInv, BackupIsConsistent, Copying, Restoring
<1> QED
    BY <1>1, <1>2, <1>3, FiledAt, ScriptKeeps

LEMMA RestoreStopsApiKeeps ==
    ASSUME RecoveryInv, RestoreStopsApi
    PROVE  RecoveryInv'
<1>1. /\ pc = "r stop api" /\ pc' = "r stop stores" /\ Stopped({"api"})
      /\ UNCHANGED <<stores, temp, destination>>
    BY DEF RestoreStopsApi
<1>2. /\ "api" \notin up' /\ heard' = {} /\ up' \subseteq Service
      /\ sent' \subseteq sent /\ heard' \subseteq heard
    BY <1>1, StoppedFacts
<1>3. CopyInv' /\ PlaceInv'
    BY <1>1, <1>2 DEF RecoveryInv, CopyInv, PlaceInv, Copying, Restoring, RestoreSteps
<1>4. pc' \in Command
    BY <1>1 DEF Command, RestoreSteps
<1> QED
    BY <1>1, <1>2, <1>3, <1>4, FiledAt, ContainersKeep

\* Nothing is on its way to stores that are stopped.
LEMMA RestoreStopsStoresKeeps ==
    ASSUME RecoveryInv, RestoreStopsStores
    PROVE  RecoveryInv'
<1>1. /\ pc = "r stop stores" /\ pc' = "r restore rows" /\ Stopped({"postgres", "minio"})
      /\ UNCHANGED <<stores, temp, destination>>
    BY DEF RestoreStopsStores
<1>2. "api" \notin up /\ destination # None
    BY <1>1 DEF RecoveryInv, PlaceInv, RestoreSteps
<1>3. up' = up \ {"postgres", "minio"}
    BY <1>1 DEF Stopped
<1>4. /\ "api" \notin up' /\ heard' = {} /\ sent' = {} /\ up' \subseteq Service
      /\ sent' \subseteq sent /\ heard' \subseteq heard
    BY <1>1, <1>2, <1>3, StoppedFacts
<1>5. CopyInv' /\ PlaceInv'
    BY <1>1, <1>2, <1>4 DEF CopyInv, PlaceInv, Quiet, Copying, Restoring, RestoreSteps
<1>6. pc' \in Command
    BY <1>1 DEF Command, RestoreSteps
<1> QED
    BY <1>1, <1>4, <1>5, <1>6, FiledAt, ContainersKeep

\* A step of a restore that writes to the stores, with nobody else there.
LEMMA WriteKeeps ==
    ASSUME RecoveryInv, Quiet, heard = {}, UNCHANGED <<up, sent, heard, temp, destination>>,
           db' \in Rows \cup {Lost}, objects' \in {Lost} \cup SUBSET Record,
           pc' \in {"r empty objects", "r copy objects", "r start stores", "restore failed"},
           pc' # "restore failed" => destination # None,
           pc' \in {"r empty objects", "r copy objects"} => db' = destination.db,
           pc' = "r start stores" => WellFiled'
    PROVE  RecoveryInv'
<1>1. RecoveryTypeOK'
    BY DEF RecoveryInv, RecoveryTypeOK, RestoreSteps
<1>2. StoresInv'
    BY DEF StoresInv, Quiet
<1>3. CopyInv' /\ BackupIsConsistent'
    BY DEF RecoveryInv, CopyInv, BackupIsConsistent, Copying
<1>4. PlaceInv'
    BY DEF RecoveryInv, PlaceInv, Quiet, Copying, Restoring, RestoreSteps
<1> QED
    BY <1>1, <1>2, <1>3, <1>4 DEF RecoveryInv

LEMMA RestoringFacts ==
    ASSUME RecoveryInv, pc \in Restoring
    PROVE  /\ Quiet /\ heard = {} /\ destination # None
           /\ destination.db \in Rows /\ destination.objects \in SUBSET Record
<1>1. Quiet /\ heard = {} /\ destination # None
    BY DEF RecoveryInv, PlaceInv, Quiet, Restoring, RestoreSteps
<1> QED
    BY <1>1, RecoveryTypes DEF RecoveryInv

LEMMA RestoreRowsKeeps ==
    ASSUME RecoveryInv, RestoreRows
    PROVE  RecoveryInv'
<1>1. /\ pc = "r restore rows" /\ pc' = "r empty objects" /\ db' = destination.db
      /\ UNCHANGED <<up, objects, sent, heard, temp, destination>>
    BY DEF RestoreRows
<1>2. objects' \in {Lost} \cup SUBSET Record
    BY <1>1, RecoveryTypes DEF RecoveryInv
<1> QED
    BY <1>1, <1>2, RestoringFacts, WriteKeeps DEF Restoring

\* The rows are those of the backup since the command before.
LEMMA EmptyObjectsKeeps ==
    ASSUME RecoveryInv, EmptyObjects
    PROVE  RecoveryInv'
<1>1. /\ pc = "r empty objects" /\ pc' = "r copy objects" /\ objects' = Lost
      /\ UNCHANGED <<up, db, sent, heard, temp, destination>>
    BY DEF EmptyObjects
<1>2. db' \in Rows \cup {Lost} /\ db = destination.db
    BY <1>1, RecoveryTypes DEF RecoveryInv, PlaceInv
<1> QED
    BY <1>1, <1>2, RestoringFacts, WriteKeeps DEF Restoring

LEMMA RestoreObjectsKeeps ==
    ASSUME RecoveryInv, RestoreObjects
    PROVE  RecoveryInv'
<1>1. /\ pc = "r copy objects" /\ pc' = "r start stores" /\ objects' = destination.objects
      /\ UNCHANGED <<up, db, sent, heard, temp, destination>>
    BY DEF RestoreObjects
<1>2. /\ db' = destination.db /\ db' \in Rows /\ objects' \in SUBSET Record
      /\ Quiet /\ heard = {} /\ destination # None
    BY <1>1, RestoringFacts DEF RecoveryInv, PlaceInv, Restoring
<1>3. \A r \in Record : RecordInv(r)'
    <2> SUFFICES ASSUME NEW r \in Record PROVE RecordInv(r)'
        OBVIOUS
    <2>1. /\ db'[r] = "stored" => r \in objects'
          /\ r \in objects' => db'[r] # "none"
        BY <1>1, <1>2 DEF RecoveryInv, BackupIsConsistent, InCustody, Reconcilable
    <2>2. sent' = {} /\ heard' = {}
        BY <1>1, <1>2 DEF Quiet
    <2> QED
        BY <2>1, <2>2 DEF RecordInv
<1>4. WellFiled'
    BY <1>2, <1>3, NotLost DEF WellFiled
<1> QED
    BY <1>1, <1>2, <1>4, WriteKeeps

LEMMA HealthyKeeps ==
    ASSUME RecoveryInv, Healthy
    PROVE  RecoveryInv'
<1>1. /\ pc = "r wait" /\ pc' = "idle"
      /\ UNCHANGED <<up, stores, sent, heard, temp, destination>>
    BY DEF Healthy
<1>2. up \subseteq Service /\ ("api" \notin up => heard = {})
    BY RecoveryTypes DEF RecoveryInv, PlaceInv
<1> QED
    BY <1>1, <1>2, FiledAt, BackToIdle

\* A restore that failed leaves matching stores, or nobody to use them.
LEMMA RestoreFailsKeeps ==
    ASSUME RecoveryInv, RestoreFails
    PROVE  RecoveryInv'
<1>1. /\ pc \in RestoreSteps /\ pc' = "restore failed"
      /\ db' = IF pc = "r restore rows" THEN Lost ELSE db
      /\ objects' = IF pc \in {"r empty objects", "r copy objects"} THEN Lost ELSE objects
      /\ UNCHANGED <<temp, destination>>
    BY DEF RestoreFails
<1>2. CASE pc \in Restoring
    <2>1. UNCHANGED <<up, sent, heard>>
        BY <1>2 DEF RestoreFails, Restoring
    <2>2. db' \in Rows \cup {Lost} /\ objects' \in {Lost} \cup SUBSET Record
        BY <1>1, RecoveryTypes DEF RecoveryInv
    <2> QED
        BY <1>1, <1>2, <2>1, <2>2, RestoringFacts, WriteKeeps
<1>3. CASE pc \notin Restoring
    <2>1. UNCHANGED stores
        BY <1>1, <1>3 DEF Restoring, stores
    <2>2. \/ \E S \in SUBSET Service : Stopped(S)
          \/ \E S \in SUBSET Service : Started(S)
          \/ UNCHANGED <<up, sent, heard>>
        BY DEF RestoreFails, StopSome, Service
    <2>3. /\ up' \subseteq Service /\ sent' \subseteq sent /\ heard' \subseteq heard
          /\ "api" \notin up' => heard' = {}
        BY <2>2, StoppedFacts, StartedFacts, RecoveryTypes DEF RecoveryInv, PlaceInv
    <2>4. WellFiled
        BY <1>1, <1>3, FiledAt DEF RestoreSteps, Restoring
    <2>5. CopyInv' /\ PlaceInv'
        BY <1>1, <2>3 DEF CopyInv, PlaceInv, Copying, Restoring, RestoreSteps
    <2>6. pc' \in Command
        BY <1>1 DEF Command
    <2> QED
        BY <1>1, <2>1, <2>3, <2>4, <2>5, <2>6, ContainersKeep
<1> QED
    BY <1>2, <1>3
-----------------------------------------------------------------------------
(* The theorems about Recovery *)

LEMMA RecoveryInitKeeps == RecoveryInit => RecoveryInv
<1> SUFFICES ASSUME RecoveryInit PROVE RecoveryInv
    OBVIOUS
<1>1. db \in Rows
    BY DEF RecoveryInit, Rows
<1>2. RecoveryTypeOK
    BY <1>1 DEF RecoveryInit, RecoveryTypeOK, NoCopy
<1>3. WellFiled
    BY <1>1, NotLost DEF RecoveryInit, WellFiled, RecordInv
<1>4. CopyInv /\ PlaceInv /\ BackupIsConsistent
    BY DEF RecoveryInit, CopyInv, PlaceInv, BackupIsConsistent, Copying, Restoring, RestoreSteps, Service
<1> QED
    BY <1>2, <1>3, <1>4 DEF RecoveryInv, StoresInv

LEMMA RecoveryStutterKeeps ==
    ASSUME RecoveryInv, UNCHANGED recoveryVars
    PROVE  RecoveryInv'
<1>1. UNCHANGED <<up, db, objects, sent, heard, temp, destination, pc>>
    BY DEF recoveryVars
<1>2. RecoveryTypeOK' /\ BackupIsConsistent'
    BY <1>1 DEF RecoveryInv, RecoveryTypeOK, BackupIsConsistent
<1>3. StoresInv' /\ PlaceInv'
    BY <1>1 DEF RecoveryInv, StoresInv, WellFiled, RecordInv, Quiet, PlaceInv
<1>4. CopyInv'
    BY <1>1 DEF RecoveryInv, CopyInv, DumpedInv
<1> QED
    BY <1>2, <1>3, <1>4 DEF RecoveryInv

LEMMA RecoveryNextKeeps == RecoveryInv /\ [RecoveryNext]_recoveryVars => RecoveryInv'
<1> SUFFICES ASSUME RecoveryInv, [RecoveryNext]_recoveryVars PROVE RecoveryInv'
    OBVIOUS
<1>1. ASSUME NEW r \in Record, File(r) \/ Put(r) \/ Confirm(r) \/ Confirmed(r)
      PROVE  RecoveryInv'
    BY <1>1, FileKeeps, PutKeeps, ConfirmKeeps, ConfirmedKeeps
<1>2. CASE Backup \/ StopApi \/ Dump \/ StopStores \/ CopyObjects \/ Move
    BY <1>2, BackupKeeps, StopApiKeeps, DumpKeeps, StopStoresKeeps, CopyObjectsKeeps, MoveKeeps
<1>3. CASE StartStores \/ StartApi \/ BackupFails \/ BackupEnds \/ Launch
    BY <1>3, StartStoresKeeps, StartApiKeeps, BackupFailsKeeps, BackupEndsKeeps, LaunchKeeps
<1>4. CASE Restore \/ RestoreStopsApi \/ RestoreStopsStores \/ RestoreRows
    BY <1>4, RestoreKeeps, RestoreStopsApiKeeps, RestoreStopsStoresKeeps, RestoreRowsKeeps
<1>5. CASE EmptyObjects \/ RestoreObjects \/ Healthy \/ RestoreFails
    BY <1>5, EmptyObjectsKeeps, RestoreObjectsKeeps, HealthyKeeps, RestoreFailsKeeps
<1>6. CASE UNCHANGED recoveryVars
    BY <1>6, RecoveryStutterKeeps
<1> QED
    BY <1>1, <1>2, <1>3, <1>4, <1>5, <1>6 DEF RecoveryNext

\* The inductive invariant holds of every behaviour.
THEOREM RecoveryInvariant == RecoverySpec => []RecoveryInv
BY RecoveryInitKeeps, RecoveryNextKeeps, PTL DEF RecoverySpec

\* The variables keep their types, whatever fails.
THEOREM RecoveryTypeCorrect == RecoverySpec => []RecoveryTypeOK
<1>1. RecoveryInv => RecoveryTypeOK
    BY DEF RecoveryInv
<1> QED
    BY <1>1, RecoveryInvariant, PTL

\* However many records are filed, and whatever is on its way when the application
\* is stopped, the rows and the objects of a backup match (backup in
\* scripts/recovery.sh).
THEOREM BackupIsConsistentTheorem == RecoverySpec => []BackupIsConsistent
<1>1. RecoveryInv => BackupIsConsistent
    BY DEF RecoveryInv
<1> QED
    BY <1>1, RecoveryInvariant, PTL

\* The application never runs on stores that do not match, at whichever command a
\* backup or a restore failed (backup and restore in scripts/recovery.sh).
THEOREM ApplicationRunsOnMatchingStoresTheorem == RecoverySpec => []ApplicationRunsOnMatchingStores
<1>1. RecoveryInv => ApplicationRunsOnMatchingStores
    <2> SUFFICES ASSUME RecoveryInv, "api" \in up PROVE ApplicationRunsOnMatchingStores
        BY DEF ApplicationRunsOnMatchingStores
    <2>1. WellFiled
        BY FiledWhenUsed
    <2> QED
        BY <2>1, MatchingStores DEF RecoveryInv, WellFiled, ApplicationRunsOnMatchingStores
<1> QED
    BY <1>1, RecoveryInvariant, PTL
-----------------------------------------------------------------------------
(***************************************************************************)
(* WORKSPACE, for any number of clients, projects, findings and handlers.  *)
(* The reference that evidence is compared with after an await agrees with *)
(* the selected finding, and a form that shows as busy has a handler on    *)
(* its way that will clear it.                                             *)
(***************************************************************************)

View == [client : Client \cup {Nothing}, engagement : Engagement \cup {Nothing},
         finding : Finding \cup {Nothing}, engagementRef : Engagement \cup {Nothing},
         findingRef : Finding \cup {Nothing}, engagements : SUBSET Client,
         findings : SUBSET Engagement, retests : SUBSET Finding, evidence : SUBSET Finding,
         reports : SUBSET Engagement, pdfs : SUBSET Engagement,
         ingestions : SUBSET Engagement, checklist : Engagement \cup {Nothing}]

\* The reference to the finding is the selected one.
ViewInv(v) ==
    /\ v \in View
    /\ v.finding = v.findingRef

\* Whose identifier a call is made with.
IdsOf(x) ==
    IF x \in {"create client", "create engagement", "engagements"} THEN Client
    ELSE IF x \in {"triage", "retest", "capture", "retests", "evidence"} THEN Finding
    ELSE Engagement

CallInv(call) ==
    /\ call \in Call
    /\ \A x \in call.left : call.id \in IdsOf(x)
    /\ call.then = "own checklist" => call.id \in Engagement

\* A handler that will still clear busy.
Clears(call) ==
    call # Nothing /\ call.then # "nothing" /\ (call.ok \/ "own checklist" \in call.left)

CallsInv ==
    /\ calls \in [Slot -> Call \cup {Nothing}]
    /\ \A s \in Slot : calls[s] # Nothing => CallInv(calls[s])

BusyInv == busy # "" => \E s \in Slot : Clears(calls[s])

PageInv ==
    /\ section \in Section /\ busy \in Posts \cup {""}
    /\ ViewInv(view) /\ CallsInv /\ BusyInv

\* The custody chain of w is that of v, or of the finding selected in w.
EvidenceStep(v, w) == w.evidence # v.evidence => w.evidence \subseteq {w.finding}
-----------------------------------------------------------------------------
(* Views *)

LEMMA PageTypes ==
    ASSUME PageInv
    PROVE  PageTypeOK
BY DEF PageInv, PageTypeOK, ViewInv, View, CallsInv

LEMMA ClearedFacts ==
    ASSUME NEW v, ViewInv(v)
    PROVE  /\ Cleared(v) \in View
           /\ Cleared(v).finding = Nothing /\ Cleared(v).findingRef = Nothing
           /\ Cleared(v).evidence = {}
BY DEF ViewInv, View, Cleared

LEMMA WithClientKeeps ==
    ASSUME NEW v, ViewInv(v), NEW c \in Client \cup {Nothing}
    PROVE  ViewInv(WithClient(v, c)) /\ EvidenceStep(v, WithClient(v, c))
<1>1. PICK w : w = Cleared(v)
    OBVIOUS
<1> QED
    BY <1>1, ClearedFacts DEF ViewInv, View, WithClient, EvidenceStep

LEMMA WithEngagementKeeps ==
    ASSUME NEW v, ViewInv(v), NEW e \in Engagement \cup {Nothing}
    PROVE  ViewInv(WithEngagement(v, e)) /\ EvidenceStep(v, WithEngagement(v, e))
<1>1. PICK w : w = Cleared(v)
    OBVIOUS
<1> QED
    BY <1>1, ClearedFacts DEF ViewInv, View, WithEngagement, EvidenceStep

LEMMA WithFindingKeeps ==
    ASSUME NEW v, ViewInv(v), NEW f \in Finding \cup {Nothing}
    PROVE  ViewInv(WithFinding(v, f)) /\ EvidenceStep(v, WithFinding(v, f))
BY DEF ViewInv, View, WithFinding, EvidenceStep

LEMMA ListedKeeps ==
    ASSUME NEW v, ViewInv(v), NEW c \in Client, NEW e \in Engagement, NEW f \in Finding
    PROVE  /\ ViewInv([v EXCEPT !.engagements = @ \cup {c}])
           /\ ViewInv([v EXCEPT !.findings = @ \cup {e}])
           /\ [v EXCEPT !.engagements = @ \cup {c}].evidence = v.evidence
           /\ [v EXCEPT !.findings = @ \cup {e}].evidence = v.evidence
BY DEF ViewInv, View

\* Only evidence is compared with the selection when it is answered.
LEMMA LoadedKeeps ==
    ASSUME NEW v, ViewInv(v), NEW read \in Reads, NEW id \in IdsOf(read)
    PROVE  ViewInv(Loaded(v, read, id)) /\ EvidenceStep(v, Loaded(v, read, id))
<1>1. CASE read = "engagements"
    BY <1>1 DEF ViewInv, View, Loaded, IdsOf, EvidenceStep
<1>2. CASE read = "findings"
    BY <1>2 DEF ViewInv, View, Loaded, IdsOf, EvidenceStep
<1>3. CASE read = "retests"
    BY <1>3 DEF ViewInv, View, Loaded, IdsOf, EvidenceStep
<1>4. CASE read = "evidence"
    BY <1>4 DEF ViewInv, View, Loaded, LoadEvidence, IdsOf, EvidenceStep
<1>5. CASE read = "reports"
    BY <1>5 DEF ViewInv, View, Loaded, IdsOf, EvidenceStep
<1>6. CASE read = "ingestions"
    BY <1>6 DEF ViewInv, View, Loaded, CurrentIngestions, IdsOf, EvidenceStep
<1>7. CASE read \in {"checklist", "own checklist"}
    BY <1>7 DEF ViewInv, View, Loaded, IdsOf, EvidenceStep
<1>8. CASE read = "context"
    BY <1>8, ClientOfAssumption DEF ViewInv, View, Loaded, IdsOf, EvidenceStep
<1> QED
    BY <1>1, <1>2, <1>3, <1>4, <1>5, <1>6, <1>7, <1>8 DEF Reads, ProjectReads, FindingReads

LEMMA AppendedKeeps ==
    ASSUME NEW v, ViewInv(v), NEW op \in {"retest", "report", "generate", "pdf", "triage", "approve"},
           NEW id \in IdsOf(op)
    PROVE  ViewInv(Appended(v, op, id)) /\ EvidenceStep(v, Appended(v, op, id))
<1>1. CASE op = "retest"
    BY <1>1 DEF ViewInv, View, Appended, IdsOf, EvidenceStep
<1>2. CASE op \in {"report", "generate"}
    BY <1>2 DEF ViewInv, View, Appended, IdsOf, EvidenceStep
<1>3. CASE op = "pdf"
    BY <1>3 DEF ViewInv, View, Appended, IdsOf, EvidenceStep
<1>4. CASE op \in {"triage", "approve"}
    BY <1>4 DEF ViewInv, View, Appended, IdsOf, EvidenceStep
<1> QED
    BY <1>1, <1>2, <1>3, <1>4
-----------------------------------------------------------------------------
(* Handlers that wait *)

LEMMA CallsKeep ==
    ASSUME PageInv, NEW s \in Slot, NEW new, new = Nothing \/ CallInv(new),
           calls' = [calls EXCEPT ![s] = new]
    PROVE  /\ CallsInv' /\ calls'[s] = new
           /\ \A t \in Slot \ {s} : calls'[t] = calls[t]
BY DEF PageInv, CallsInv, CallInv

\* What is left to show of a step of one handler: that it still clears busy
\* afterwards, or has done so, or never would have.
LEMMA HandlerKeeps ==
    ASSUME PageInv, NEW s \in Slot, NEW new, new = Nothing \/ CallInv(new),
           calls' = [calls EXCEPT ![s] = new],
           UNCHANGED section, ViewInv(view'), busy' \in Posts \cup {""},
           busy' = "" \/ Clears(new) \/ (busy' = busy /\ ~ Clears(calls[s]))
    PROVE  PageInv'
<1>1. CallsInv' /\ calls'[s] = new /\ \A t \in Slot \ {s} : calls'[t] = calls[t]
    BY CallsKeep
<1>2. BusyInv'
    <2>1. CASE busy' = ""
        BY <2>1 DEF BusyInv
    <2>2. CASE Clears(new)
        BY <1>1, <2>2 DEF BusyInv
    <2>3. CASE busy' # "" /\ busy' = busy /\ ~ Clears(calls[s])
        <3>1. PICK t \in Slot : Clears(calls[t])
            BY <2>3 DEF PageInv, BusyInv
        <3>2. calls'[t] = calls[t]
            BY <1>1, <2>3, <3>1
        <3> QED
            BY <3>1, <3>2 DEF BusyInv
    <2> QED
        BY <2>1, <2>2, <2>3
<1>3. ViewInv(view)'
    OBVIOUS
<1> QED
    BY <1>1, <1>2, <1>3 DEF PageInv

LEMMA ViewKeeps ==
    ASSUME PageInv, UNCHANGED <<section, busy, calls>>, ViewInv(view')
    PROVE  PageInv'
<1>1. CallsInv' /\ BusyInv'
    BY DEF PageInv, CallsInv, BusyInv
<1> QED
    BY <1>1 DEF PageInv

LEMMA WaitingFacts ==
    ASSUME NEW id, NEW left \in SUBSET (Posts \cup Reads), \A x \in left : id \in IdsOf(x),
           NEW then \in {"nothing", "idle", "own checklist"},
           then = "own checklist" => id \in Engagement,
           left # {}
    PROVE  /\ CallInv(Waiting(id, left, then))
           /\ then # "nothing" => Clears(Waiting(id, left, then))
<1>1. id \in Client \cup Engagement \cup Finding
    BY DEF IdsOf
<1>2. PICK w : w = Waiting(id, left, then)
    OBVIOUS
<1>3. w \in Call /\ w.id = id /\ w.left = left /\ w.then = then /\ w.ok
    BY <1>1, <1>2 DEF Waiting, Call
<1>4. w # Nothing
    BY <1>3, NothingAssumption
<1> QED
    BY <1>2, <1>3, <1>4 DEF CallInv, Clears

\* A handler that begins takes a slot that is free.
LEMMA BeginFacts ==
    ASSUME PageInv, NEW s \in Slot, NEW call, Begin(s, call)
    PROVE  calls' = [calls EXCEPT ![s] = call] /\ ~ Clears(calls[s])
BY DEF Begin, Free, Clears

\* What follows a group of calls leaves busy cleared, or to the own checklist.
LEMMA ContinueKeeps ==
    ASSUME PageInv, NEW s \in Slot, calls[s] # Nothing, NEW left \in SUBSET calls[s].left,
           Continue(s, calls[s], left), UNCHANGED section, ViewInv(view')
    PROVE  PageInv'
<1>1. PICK call : call = calls[s]
    OBVIOUS
<1>2. call # Nothing /\ call \in Call /\ CallInv(call)
    BY <1>1 DEF PageInv, CallsInv
<1>3. CASE call.then = "own checklist"
    <2>1. PICK new : new = [call EXCEPT !.left = left \cup {"own checklist"}, !.ok = FALSE, !.then = "idle"]
        OBVIOUS
    <2>2. /\ new.id = call.id /\ new.left = left \cup {"own checklist"}
          /\ new.ok = FALSE /\ new.then = "idle"
        BY <1>2, <2>1 DEF Call
    <2>3. new \in Call
        BY <1>1, <1>2, <2>1 DEF Call, Reads
    <2>4. \A x \in new.left : new.id \in IdsOf(x)
        BY <1>1, <1>2, <1>3, <2>2 DEF CallInv, IdsOf
    <2>5. CallInv(new) /\ Clears(new)
        BY <2>2, <2>3, <2>4, NothingAssumption DEF CallInv, Clears
    <2>6. calls' = [calls EXCEPT ![s] = new] /\ UNCHANGED busy
        <3>1. left \cup {"own checklist"} # {}
            OBVIOUS
        <3> QED
            BY <1>1, <1>3, <2>1, <3>1 DEF Continue
    <2> QED
        BY <2>5, <2>6, HandlerKeeps DEF PageInv
<1>4. CASE call.then # "own checklist"
    <2>1. PICK new : new = IF left = {} THEN Nothing
                           ELSE [call EXCEPT !.left = left, !.ok = FALSE, !.then = "nothing"]
        OBVIOUS
    <2>2. new = Nothing \/ CallInv(new)
        <3>1. CASE left = {}
            BY <2>1, <3>1
        <3>2. CASE left # {}
            <4>1. new \in Call /\ new.id = call.id /\ new.left = left /\ new.then = "nothing"
                BY <1>1, <1>2, <2>1, <3>2 DEF Call
            <4> QED
                BY <1>1, <1>2, <4>1 DEF CallInv
        <3> QED
            BY <3>1, <3>2
    <2>3. calls' = [calls EXCEPT ![s] = new]
        BY <1>1, <1>4, <2>1 DEF Continue
    <2>4. IF call.then = "idle" THEN busy' = "" ELSE busy' = busy /\ ~ Clears(call)
        BY <1>1, <1>2, <1>4 DEF Continue, ClearBusy, Clears, Call
    <2> QED
        BY <1>1, <2>2, <2>3, <2>4, HandlerKeeps DEF PageInv
<1> QED
    BY <1>3, <1>4
-----------------------------------------------------------------------------
(* The operator *)

LEMMA SelectClientKeeps ==
    ASSUME PageInv, NEW s \in Slot, NEW c \in Client \cup {Nothing}, SelectClient(s, c)
    PROVE  PageInv' /\ EvidenceStep(view, view')
<1>1. ViewInv(view') /\ EvidenceStep(view, view')
    BY WithClientKeeps DEF PageInv, SelectClient
<1>2. CASE c = Nothing
    BY <1>1, <1>2, ViewKeeps DEF SelectClient
<1>3. CASE c # Nothing
    <2>1. PICK call : call = Waiting(c, {"engagements"}, "nothing")
        OBVIOUS
    <2>2. CallInv(call)
        <3>1. \A x \in {"engagements"} : c \in IdsOf(x)
            BY <1>3 DEF IdsOf
        <3>2. {"engagements"} \in SUBSET (Posts \cup Reads)
            BY DEF Reads
        <3> QED
            BY <2>1, <3>1, <3>2, WaitingFacts
    <2> QED
        BY <1>1, <1>3, <2>1, <2>2, BeginFacts, HandlerKeeps DEF SelectClient, PageInv
<1> QED
    BY <1>1, <1>2, <1>3

LEMMA SelectEngagementKeeps ==
    ASSUME PageInv, NEW s \in Slot, NEW e \in Engagement \cup {Nothing}, SelectEngagement(s, e)
    PROVE  PageInv' /\ EvidenceStep(view, view')
<1>1. ViewInv(view') /\ EvidenceStep(view, view')
    BY WithEngagementKeeps DEF PageInv, SelectEngagement
<1>2. CASE e = Nothing
    BY <1>1, <1>2, ViewKeeps DEF SelectEngagement
<1>3. CASE e # Nothing
    <2>1. PICK call : call = Waiting(e, ProjectReads, "nothing")
        OBVIOUS
    <2>2. CallInv(call)
        <3>1. \A x \in ProjectReads : e \in IdsOf(x)
            BY <1>3 DEF IdsOf, ProjectReads
        <3>2. ProjectReads \in SUBSET (Posts \cup Reads) /\ ProjectReads # {}
            BY DEF Reads, ProjectReads
        <3> QED
            BY <2>1, <3>1, <3>2, WaitingFacts
    <2> QED
        BY <1>1, <1>3, <2>1, <2>2, BeginFacts, HandlerKeeps DEF SelectEngagement, PageInv
<1> QED
    BY <1>1, <1>2, <1>3

LEMMA SelectFindingKeeps ==
    ASSUME PageInv, NEW s \in Slot, NEW f \in Finding \cup {Nothing}, SelectFinding(s, f)
    PROVE  PageInv' /\ EvidenceStep(view, view')
<1>1. ViewInv(view') /\ EvidenceStep(view, view')
    BY WithFindingKeeps DEF PageInv, SelectFinding
<1>2. CASE f = Nothing
    BY <1>1, <1>2, ViewKeeps DEF SelectFinding
<1>3. CASE f # Nothing
    <2>1. PICK call : call = Waiting(f, FindingReads, "nothing")
        OBVIOUS
    <2>2. CallInv(call)
        <3>1. \A x \in FindingReads : f \in IdsOf(x)
            BY <1>3 DEF IdsOf, FindingReads
        <3>2. FindingReads \in SUBSET (Posts \cup Reads) /\ FindingReads # {}
            BY DEF Reads, FindingReads
        <3> QED
            BY <2>1, <3>1, <3>2, WaitingFacts
    <2> QED
        BY <1>1, <1>3, <2>1, <2>2, BeginFacts, HandlerKeeps DEF SelectFinding, PageInv
<1> QED
    BY <1>1, <1>2, <1>3

\* A form that is sent shows as busy, with the handler that will clear it.
LEMMA SubmitKeeps ==
    ASSUME PageInv, NEW s \in Slot, NEW op \in Posts, NEW on, NEW id \in IdsOf(op), Submit(s, op, on, id)
    PROVE  PageInv' /\ EvidenceStep(view, view')
<1>1. CallInv(Waiting(id, {op}, "idle")) /\ Clears(Waiting(id, {op}, "idle"))
    BY WaitingFacts
<1>2. busy' = op /\ UNCHANGED <<section, view>> /\ calls' = [calls EXCEPT ![s] = Waiting(id, {op}, "idle")]
    BY BeginFacts DEF Submit
<1>3. ViewInv(view')
    BY <1>2 DEF PageInv
<1> QED
    BY <1>1, <1>2, <1>3, HandlerKeeps DEF EvidenceStep

LEMMA OperatorKeeps ==
    ASSUME PageInv, NEW s \in Slot, Operator(s)
    PROVE  PageInv' /\ EvidenceStep(view, view')
<1>1. view \in View
    BY DEF PageInv, ViewInv
<1>2. ASSUME CreateClient(s) PROVE PageInv' /\ EvidenceStep(view, view')
    BY <1>2, SubmitKeeps DEF CreateClient, IdsOf, Posts
<1>3. ASSUME CreateEngagement(s) PROVE PageInv' /\ EvidenceStep(view, view')
    BY <1>1, <1>3, SubmitKeeps DEF CreateEngagement, IdsOf, Posts, View
<1>4. ASSUME CreateFinding(s) PROVE PageInv' /\ EvidenceStep(view, view')
    BY <1>1, <1>4, SubmitKeeps DEF CreateFinding, IdsOf, Posts, View
<1>5. ASSUME ConfirmFinding(s) PROVE PageInv' /\ EvidenceStep(view, view')
    BY <1>1, <1>5, SubmitKeeps DEF ConfirmFinding, Shown, IdsOf, Posts, View
<1>6. ASSUME SubmitRetest(s) PROVE PageInv' /\ EvidenceStep(view, view')
    BY <1>1, <1>6, SubmitKeeps DEF SubmitRetest, Shown, IdsOf, Posts, View
<1>7. ASSUME SubmitEvidence(s) PROVE PageInv' /\ EvidenceStep(view, view')
    BY <1>1, <1>7, SubmitKeeps DEF SubmitEvidence, IdsOf, Posts, View
<1>8. ASSUME SubmitReport(s) \/ GenerateReport(s) PROVE PageInv' /\ EvidenceStep(view, view')
    BY <1>1, <1>8, SubmitKeeps DEF SubmitReport, GenerateReport, IdsOf, Posts, View
<1>9. ASSUME ApproveReport(s) \/ DerivePDF(s) PROVE PageInv' /\ EvidenceStep(view, view')
    <2>1. PICK e \in view.reports, op \in {"approve", "pdf"} : Submit(s, op, "reports", e)
        BY <1>9 DEF ApproveReport, DerivePDF
    <2>2. e \in IdsOf(op) /\ op \in Posts
        BY <1>1, <2>1 DEF View, IdsOf, Posts
    <2> QED
        BY <2>1, <2>2, SubmitKeeps
<1> QED
    BY <1>2, <1>3, <1>4, <1>5, <1>6, <1>7, <1>8, <1>9, SelectClientKeeps, SelectEngagementKeeps,
       SelectFindingKeeps DEF Operator

-----------------------------------------------------------------------------
(* Answers *)

LEMMA WaitingCall ==
    ASSUME PageInv, NEW s \in Slot, calls[s] # Nothing
    PROVE  calls[s] \in Call /\ CallInv(calls[s]) /\ \A x \in calls[s].left : calls[s].id \in IdsOf(x)
BY DEF PageInv, CallsInv, CallInv

\* A call less on its way, which was not the one that clears busy.
LEMMA OneLessKeeps ==
    ASSUME PageInv, NEW s \in Slot, calls[s] # Nothing, NEW read \in calls[s].left,
           read # "own checklist", calls[s].left # {read} \/ ~ calls[s].ok,
           calls' = [calls EXCEPT ![s] = IF calls[s].left = {read} THEN Nothing
                                         ELSE [calls[s] EXCEPT !.left = @ \ {read}]],
           UNCHANGED <<section, busy>>, ViewInv(view')
    PROVE  PageInv'
<1>1. PICK call : call = calls[s]
    OBVIOUS
<1>2. call # Nothing /\ call \in Call /\ CallInv(call)
    BY <1>1, WaitingCall
<1>3. PICK new : new = IF call.left = {read} THEN Nothing ELSE [call EXCEPT !.left = @ \ {read}]
    OBVIOUS
<1>4. CASE call.left = {read}
    <2>1. new = Nothing /\ ~ Clears(call)
        BY <1>1, <1>3, <1>4 DEF Clears
    <2> QED
        BY <1>1, <1>3, <2>1, HandlerKeeps DEF PageInv
<1>5. CASE call.left # {read}
    <2>1. /\ new \in Call /\ new.id = call.id /\ new.left = call.left \ {read}
          /\ new.ok = call.ok /\ new.then = call.then
        BY <1>2, <1>3, <1>5 DEF Call
    <2>2. CallInv(new)
        BY <1>2, <2>1 DEF CallInv
    <2>3. Clears(call) => Clears(new)
        BY <2>1, NothingAssumption DEF Clears
    <2> QED
        BY <1>1, <1>3, <2>2, <2>3, HandlerKeeps DEF PageInv
<1> QED
    BY <1>4, <1>5

LEMMA PartKeeps ==
    ASSUME PageInv, NEW s \in Slot, calls[s] # Nothing, NEW read \in calls[s].left \cap Reads, Part(s, read)
    PROVE  PageInv' /\ EvidenceStep(view, view')
<1>1. ViewInv(view') /\ EvidenceStep(view, view')
    BY WaitingCall, LoadedKeeps DEF Part, PageInv
<1> QED
    BY <1>1, OneLessKeeps DEF Part

LEMMA LastPartKeeps ==
    ASSUME PageInv, NEW s \in Slot, calls[s] # Nothing, NEW read \in calls[s].left \cap Reads, LastPart(s, read)
    PROVE  PageInv' /\ EvidenceStep(view, view')
<1>1. ViewInv(view') /\ EvidenceStep(view, view')
    BY WaitingCall, LoadedKeeps DEF LastPart, PageInv
<1> QED
    BY <1>1, ContinueKeeps DEF LastPart

LEMMA UnheardKeeps ==
    ASSUME PageInv, NEW s \in Slot, calls[s] # Nothing, NEW read \in calls[s].left \cap Reads, Unheard(s, read)
    PROVE  PageInv' /\ EvidenceStep(view, view')
<1>1. ViewInv(view') /\ EvidenceStep(view, view')
    BY DEF Unheard, PageInv, EvidenceStep
<1>2. read \in calls[s].left /\ read # "own checklist" /\ ~ calls[s].ok /\ UNCHANGED <<section, busy>>
    BY DEF Unheard
<1>3. calls' = [calls EXCEPT ![s] = IF calls[s].left = {read} THEN Nothing
                                    ELSE [calls[s] EXCEPT !.left = @ \ {read}]]
    BY DEF Unheard
<1> QED
    BY <1>1, <1>2, <1>3, OneLessKeeps

LEMMA RejectedKeeps ==
    ASSUME PageInv, NEW s \in Slot, calls[s] # Nothing, Rejected(s, calls[s])
    PROVE  PageInv' /\ EvidenceStep(view, view')
<1>1. ViewInv(view') /\ EvidenceStep(view, view')
    BY DEF Rejected, PageInv, EvidenceStep
<1>2. PICK left \in SUBSET calls[s].left : Continue(s, calls[s], left)
    BY DEF Rejected
<1> QED
    BY <1>1, <1>2, ContinueKeeps DEF Rejected

LEMMA OwnChecklistKeeps ==
    ASSUME PageInv, NEW s \in Slot, calls[s] # Nothing, OwnChecklist(s)
    PROVE  PageInv' /\ EvidenceStep(view, view')
<1>1. "own checklist" \in calls[s].left /\ "own checklist" \in Reads
    BY DEF OwnChecklist, Reads
<1>2. view' = view \/ view' = Loaded(view, "own checklist", calls[s].id)
    BY DEF OwnChecklist
<1>3. ViewInv(view') /\ EvidenceStep(view, view')
    <2>1. ViewInv(view) /\ calls[s].id \in IdsOf("own checklist")
        BY <1>1, WaitingCall DEF PageInv
    <2>2. CASE view' = view
        BY <2>1, <2>2 DEF EvidenceStep
    <2>3. CASE view' = Loaded(view, "own checklist", calls[s].id)
        BY <1>1, <2>1, <2>3, LoadedKeeps
    <2> QED
        BY <1>2, <2>2, <2>3
<1>4. PICK left \in SUBSET calls[s].left : Continue(s, calls[s], left)
    BY DEF OwnChecklist
<1> QED
    BY <1>3, <1>4, ContinueKeeps DEF OwnChecklist

\* The handler of a form waits again, and will clear busy later.
LEMMA WaitsAgain ==
    ASSUME PageInv, NEW s \in Slot, NEW id, NEW left \in SUBSET Reads, left # {},
           \A x \in left : id \in IdsOf(x), NEW then \in {"idle", "own checklist"},
           then = "own checklist" => id \in Engagement,
           calls' = [calls EXCEPT ![s] = Waiting(id, left, then)],
           UNCHANGED <<section, busy>>, ViewInv(view')
    PROVE  PageInv'
<1>1. PICK call : call = Waiting(id, left, then)
    OBVIOUS
<1>2. CallInv(call) /\ Clears(call)
    BY <1>1, WaitingFacts
<1> QED
    BY <1>1, <1>2, HandlerKeeps DEF PageInv

LEMMA GoOnKeeps ==
    ASSUME PageInv, NEW s \in Slot, calls[s] # Nothing, NEW op \in calls[s].left,
           GoOn(s, op, calls[s].id), UNCHANGED <<section, busy>>
    PROVE  PageInv' /\ EvidenceStep(view, view')
<1>1. PICK id : id = calls[s].id
    OBVIOUS
<1>2. id \in IdsOf(op)
    BY <1>1, WaitingCall
<1>3. ViewInv(view)
    BY DEF PageInv
<1>4. CASE /\ op = "create client"
           /\ view' = WithClient(view, id)
           /\ calls' = [calls EXCEPT ![s] = Waiting(id, {"engagements"}, "idle")]
    <2>1. id \in Client
        BY <1>2, <1>4 DEF IdsOf
    <2>2. ViewInv(view') /\ EvidenceStep(view, view')
        BY <1>3, <1>4, <2>1, WithClientKeeps
    <2>3. {"engagements"} \in SUBSET Reads /\ \A x \in {"engagements"} : id \in IdsOf(x)
        BY <2>1 DEF Reads, IdsOf
    <2> QED
        BY <1>4, <2>2, <2>3, WaitsAgain
<1>5. CASE /\ op = "create engagement"
           /\ \E e \in Engagement :
                 /\ ClientOf[e] = id
                 /\ view' = WithEngagement([view EXCEPT !.engagements = @ \cup {id}], e)
                 /\ calls' = [calls EXCEPT ![s] = Waiting(e, ProjectReads, "own checklist")]
    <2>1. PICK e \in Engagement :
                 /\ view' = WithEngagement([view EXCEPT !.engagements = @ \cup {id}], e)
                 /\ calls' = [calls EXCEPT ![s] = Waiting(e, ProjectReads, "own checklist")]
        BY <1>5
    <2>2. PICK v : v = [view EXCEPT !.engagements = @ \cup {id}]
        OBVIOUS
    <2>3. ViewInv(v) /\ v.evidence = view.evidence
        <3>1. id \in Client
            BY <1>2, <1>5 DEF IdsOf
        <3> QED
            BY <1>3, <2>2, <3>1 DEF ViewInv, View
    <2>4. ViewInv(view') /\ EvidenceStep(view, view')
        BY <2>1, <2>2, <2>3, WithEngagementKeeps DEF EvidenceStep
    <2>5. /\ ProjectReads \in SUBSET Reads /\ ProjectReads # {}
          /\ \A x \in ProjectReads : e \in IdsOf(x)
        BY DEF Reads, ProjectReads, IdsOf
    <2> QED
        BY <2>1, <2>4, <2>5, WaitsAgain
<1>6. CASE /\ op = "create finding"
           /\ \E f \in Finding :
                 /\ EngagementOf[f] = id
                 /\ view' = WithFinding([view EXCEPT !.findings = @ \cup {id}], f)
                 /\ calls' = [calls EXCEPT ![s] = Waiting(f, FindingReads, "idle")]
    <2>1. PICK f \in Finding :
                 /\ view' = WithFinding([view EXCEPT !.findings = @ \cup {id}], f)
                 /\ calls' = [calls EXCEPT ![s] = Waiting(f, FindingReads, "idle")]
        BY <1>6
    <2>2. PICK v : v = [view EXCEPT !.findings = @ \cup {id}]
        OBVIOUS
    <2>3. ViewInv(v) /\ v.evidence = view.evidence
        <3>1. id \in Engagement
            BY <1>2, <1>6 DEF IdsOf
        <3> QED
            BY <1>3, <2>2, <3>1 DEF ViewInv, View
    <2>4. ViewInv(view') /\ EvidenceStep(view, view')
        BY <2>1, <2>2, <2>3, WithFindingKeeps DEF EvidenceStep
    <2>5. /\ FindingReads \in SUBSET Reads /\ FindingReads # {}
          /\ \A x \in FindingReads : f \in IdsOf(x)
        BY DEF Reads, FindingReads, IdsOf
    <2> QED
        BY <2>1, <2>4, <2>5, WaitsAgain
<1>7. CASE /\ op = "capture"
           /\ calls' = [calls EXCEPT ![s] = Waiting(id, {"evidence"}, "idle")]
           /\ UNCHANGED view
    <2>1. {"evidence"} \in SUBSET Reads /\ \A x \in {"evidence"} : id \in IdsOf(x)
        BY <1>2, <1>7 DEF Reads, FindingReads, IdsOf
    <2> QED
        BY <1>3, <1>7, <2>1, WaitsAgain DEF EvidenceStep
<1> QED
    BY <1>1, <1>4, <1>5, <1>6, <1>7 DEF GoOn

LEMMA PostedKeeps ==
    ASSUME PageInv, NEW s \in Slot, calls[s] # Nothing, NEW op \in calls[s].left, Posted(s, op)
    PROVE  PageInv' /\ EvidenceStep(view, view')
<1>1. CASE GoOn(s, op, calls[s].id) /\ UNCHANGED busy
    BY <1>1, GoOnKeeps DEF Posted
<1>2. CASE /\ op \in {"retest", "report", "generate", "pdf", "triage", "approve"}
           /\ view' = Appended(view, op, calls[s].id)
           /\ Continue(s, calls[s], {})
    <2>1. ViewInv(view') /\ EvidenceStep(view, view')
        BY <1>2, WaitingCall, AppendedKeeps DEF PageInv
    <2> QED
        BY <1>2, <2>1, ContinueKeeps DEF Posted
<1> QED
    BY <1>1, <1>2 DEF Posted

LEMMA CallReturnsKeeps ==
    ASSUME PageInv, NEW s \in Slot, CallReturns(s)
    PROVE  PageInv' /\ EvidenceStep(view, view')
BY PartKeeps, LastPartKeeps, UnheardKeeps, RejectedKeeps, OwnChecklistKeeps, PostedKeeps DEF CallReturns
-----------------------------------------------------------------------------
(* The theorems about Workspace *)

LEMMA PageInitKeeps ==
    ASSUME PageInit
    PROVE  PageInv
<1>1. ViewInv(NoView)
    BY DEF NoView, ViewInv, View
<1>2. CASE /\ section \in {"overview", "clients", "projects"}
           /\ view = NoView
           /\ calls = [s \in Slot |-> Nothing]
    BY <1>1, <1>2 DEF PageInit, PageInv, CallsInv, BusyInv, Section
<1>3. ASSUME NEW e \in Engagement, NEW s \in Slot, NEW t \in Slot, s # t,
             section \in {"overview", "findings", "evidence", "imports", "reports"},
             view = WithEngagement(NoView, e),
             calls = [x \in Slot |-> CASE x = s -> Waiting(e, {"context"}, "nothing")
                                       [] x = t -> Waiting(e, ProjectReads, "nothing")
                                       [] OTHER -> Nothing]
      PROVE  PageInv
    <2>1. PICK one : one = Waiting(e, {"context"}, "nothing")
        OBVIOUS
    <2>2. PICK two : two = Waiting(e, ProjectReads, "nothing")
        OBVIOUS
    <2>3. CallInv(one)
        <3>1. {"context"} \in SUBSET (Posts \cup Reads) /\ \A x \in {"context"} : e \in IdsOf(x)
            BY DEF Reads, IdsOf
        <3> QED
            BY <2>1, <3>1, WaitingFacts
    <2>4. CallInv(two)
        <3>1. /\ ProjectReads \in SUBSET (Posts \cup Reads) /\ ProjectReads # {}
              /\ \A x \in ProjectReads : e \in IdsOf(x)
            BY DEF Reads, ProjectReads, IdsOf
        <3> QED
            BY <2>2, <3>1, WaitingFacts
    <2>5. calls = [x \in Slot |-> IF x = s THEN one ELSE IF x = t THEN two ELSE Nothing]
        BY <1>3, <2>1, <2>2
    <2>6. CallsInv
        BY <2>3, <2>4, <2>5 DEF CallsInv, CallInv
    <2>7. ViewInv(view)
        BY <1>1, <1>3, WithEngagementKeeps
    <2> QED
        BY <1>3, <2>6, <2>7 DEF PageInit, PageInv, BusyInv, Section
<1> QED
    BY <1>2, <1>3 DEF PageInit

LEMMA PageStep ==
    ASSUME PageInv, PageNext
    PROVE  PageInv' /\ EvidenceStep(view, view')
BY OperatorKeeps, CallReturnsKeeps DEF PageNext

LEMMA PageStutter ==
    ASSUME PageInv, UNCHANGED pageVars
    PROVE  PageInv'
BY ViewKeeps DEF pageVars, PageInv

\* The inductive invariant of the page holds of every behaviour.
THEOREM PageInvariant == PageSpec => []PageInv
<1>1. PageInit => PageInv
    BY PageInitKeeps
<1>2. PageInv /\ [PageNext]_pageVars => PageInv'
    BY PageStep, PageStutter
<1> QED
    BY <1>1, <1>2, PTL DEF PageSpec

\* The page's variables keep their types.
THEOREM PageTypeCorrect == PageSpec => []PageTypeOK
<1>1. PageInv => PageTypeOK
    BY PageTypes
<1> QED
    BY <1>1, PageInvariant, PTL

\* The variable that tells which form is being sent is cleared by the time no call is
\* on its way, whichever of them failed (the finally blocks of src/web/app/page.tsx).
THEOREM BusyEndsWithTheCallsTheorem == PageSpec => []BusyEndsWithTheCalls
<1>1. PageInv => BusyEndsWithTheCalls
    BY DEF PageInv, BusyInv, BusyEndsWithTheCalls, Clears, Free
<1> QED
    BY <1>1, PageInvariant, PTL

\* No answer brings the custody chain of a finding that is not selected any more
\* (loadEvidence in src/web/app/page.tsx).
THEOREM EvidenceIsTheFindingsTheorem == PageSpec => EvidenceIsTheFindings
<1>1. PageInv /\ [PageNext]_pageVars
      => [view'.evidence # view.evidence => view'.evidence \subseteq {view'.finding}]_pageVars
    BY PageStep DEF EvidenceStep
<1> QED
    BY <1>1, PageInvariant, PTL DEF PageSpec, EvidenceIsTheFindings
-----------------------------------------------------------------------------
(***************************************************************************)
(* LIVE, for any number of sessions and agents, and any number of things   *)
(* that go wrong.  An event is queued once; an agent whose lease runs holds*)
(* one that the queue has as leased; a journal has an event of its own     *)
(* session to restore.  Handlers give whole states, so the lemmas say of   *)
(* the operators they are made of that sound states stay sound.            *)
(***************************************************************************)

Snapshot == [phase : Phase, canceled : BOOLEAN, pending : Event \cup {Null}]
Entry == [event : Event, leased : BOOLEAN]
Resting == [at : {"idle", "parked"}, event : {Null}, current : {FALSE}]
Working == [at : {"preparing", "holding"}, event : Event, current : BOOLEAN]
Task == Resting \cup Working
LiveState == [snap : [Session -> Snapshot], queue : Seq(Entry), worker : [Worker -> Task]]

\* Where the variants of a generation are offered, or will be.
Offered == {"variants_ready", "generating", "cycling"}

SnapshotInv(s, sn) ==
    /\ sn \in Snapshot
    /\ sn.canceled => sn.phase \notin Offered
    /\ sn.pending # Null => sn.pending.id = s

JournalsInv(journals) ==
    /\ \A s \in Session : SnapshotInv(s, journals[s])
    /\ IsFiniteSet({s \in Session : journals[s].pending # Null})

\* An event is queued once.
QueueInv(q) == \A i, j \in DOMAIN q : Same(q[i].event, q[j].event) => i = j

\* Whoever holds a lease holds one that the queue knows of.
LeaseInv(q, ws) ==
    \A w \in Worker : ws[w].current =>
        \E i \in DOMAIN q : q[i].leased /\ Same(q[i].event, ws[w].event)

HolderInv(ws) ==
    \A v, w \in Worker : v # w /\ ws[v].current /\ ws[w].current => ~ Same(ws[v].event, ws[w].event)

DeskInv(q, ws) ==
    /\ q \in Seq(Entry) /\ ws \in [Worker -> Task]
    /\ QueueInv(q) /\ LeaseInv(q, ws) /\ HolderInv(ws)

Sound(st) == st \in LiveState /\ JournalsInv(st.snap) /\ DeskInv(st.queue, st.worker)

HelperInv == Sound(Now) /\ faults \in 0..MaxFaults
-----------------------------------------------------------------------------
(* Least elements *)

\* A set of natural numbers that has an element has a least one: no library theorem
\* says so without an operator for a parameter, but the strict subsets of a finite
\* set are known to be well founded.
LEMMA LeastNumber ==
    ASSUME NEW I \in SUBSET Nat, I # {}
    PROVE  \E i \in I : \A j \in I : i <= j
<1>1. PICK n \in I : TRUE
    OBVIOUS
<1>2. PICK U : U = 0..n
    OBVIOUS
<1>3. PICK T : T = {0..i : i \in {i \in I : i <= n}}
    OBVIOUS
<1>4. IsFiniteSet(U)
    BY <1>2, FS_Interval
<1>5. FiniteSubsetsOf(U) = SUBSET U /\ IsWellFoundedOn(StrictSubsetOrdering(U), SUBSET U)
    BY <1>4, FS_FiniteSubsetsOfFinite, FS_StrictSubsetOrderingWellFounded
<1>6. T \subseteq SUBSET U
    BY <1>2, <1>3
<1>7. T # {}
    BY <1>1, <1>3
<1>8. PICK X \in T : \A Y \in T : <<Y, X>> \notin StrictSubsetOrdering(U)
    BY <1>5, <1>6, <1>7, WFMin
<1>9. PICK i \in I : i <= n /\ X = 0..i
    BY <1>3, <1>8
<1>10. ASSUME NEW j \in I, j < i
       PROVE  FALSE
    <2>1. 0..j \in T /\ 0..j \subseteq X /\ 0..j # X
        BY <1>1, <1>3, <1>9, <1>10
    <2>2. <<0..j, X>> \in StrictSubsetOrdering(U)
        BY <1>6, <1>8, <2>1 DEF StrictSubsetOrdering
    <2> QED
        BY <1>8, <2>1, <2>2
<1> QED
    BY <1>9, <1>10

LEMMA FirstIndex ==
    ASSUME NEW I \in SUBSET Nat, I # {}
    PROVE  First(I) \in I
BY LeastNumber DEF First

\* The queue has an event that goes first, if it has one to hand out.
LEMMA SelectedIndex ==
    ASSUME NEW st, st.queue \in Seq(Entry), Unleased(st) # {}
    PROVE  Selected(st) \in Unleased(st)
<1>1. Unleased(st) \in SUBSET Nat
    BY DEF Unleased
<1>2. PICK rank : rank = [i \in Unleased(st) |-> Priority(st.queue[i].event)]
    OBVIOUS
<1>3. \A i \in Unleased(st) : rank[i] \in Nat /\ rank[i] = Priority(st.queue[i].event)
    BY <1>2 DEF Priority
<1>4. PICK ranks : ranks = {rank[i] : i \in Unleased(st)}
    OBVIOUS
<1>5. PICK p \in ranks : \A x \in ranks : p <= x
    BY <1>3, <1>4, LeastNumber
<1>6. PICK best : best = {i \in Unleased(st) : rank[i] = p}
    OBVIOUS
<1>7. PICK i \in best : \A j \in best : i <= j
    BY <1>1, <1>4, <1>5, <1>6, LeastNumber
<1>8. \A j \in Unleased(st) : rank[i] < rank[j] \/ (rank[i] = rank[j] /\ i <= j)
    <2> SUFFICES ASSUME NEW j \in Unleased(st)
                 PROVE  rank[i] < rank[j] \/ (rank[i] = rank[j] /\ i <= j)
        OBVIOUS
    <2>1. rank[i] = p /\ p \in Nat /\ rank[j] \in Nat /\ p <= rank[j]
        BY <1>3, <1>4, <1>5, <1>6, <1>7
    <2>2. rank[j] = p => i <= j
        BY <1>6, <1>7
    <2> QED
        BY <2>1, <2>2
<1>9. \E k \in Unleased(st) : \A j \in Unleased(st) :
        LET a == Priority(st.queue[k].event)
            b == Priority(st.queue[j].event)
        IN  a < b \/ (a = b /\ k <= j)
    BY <1>3, <1>6, <1>7, <1>8
<1> QED
    BY <1>9 DEF Selected
-----------------------------------------------------------------------------
(* The journals *)

LEMMA RequestedKeeps ==
    ASSUME NEW s \in Session, NEW sn, SnapshotInv(s, sn), NEW e \in Event, e.id = s
    PROVE  SnapshotInv(s, Requested(sn, e))
BY DEF SnapshotInv, Snapshot, Requested, Phase, FencedPhases, CompletedPhases, Offered

LEMMA DecidedKeeps ==
    ASSUME NEW s \in Session, NEW sn, SnapshotInv(s, sn), NEW e \in Event, e.id = s
    PROVE  SnapshotInv(s, Decided(sn, e))
BY DEF SnapshotInv, Snapshot, Decided, Phase, FencedPhases, CompletedPhases, Offered

LEMMA MountFailedKeeps ==
    ASSUME NEW s \in Session, NEW sn, SnapshotInv(s, sn), NEW e \in Event, e.id = s
    PROVE  SnapshotInv(s, MountFailed(sn, e))
BY DEF SnapshotInv, Snapshot, MountFailed

LEMMA CheckpointedKeeps ==
    ASSUME NEW s \in Session, NEW sn, SnapshotInv(s, sn), NEW phase \in {"generating", "cycling"}
    PROVE  SnapshotInv(s, Checkpointed(sn, phase))
BY DEF SnapshotInv, Snapshot, Checkpointed, Fenced, Phase, FencedPhases, CompletedPhases, Offered

\* The fence: what comes late is ignored by a session that was decided.
LEMMA DoneKeeps ==
    ASSUME NEW s \in Session, NEW sn, SnapshotInv(s, sn), NEW carbonize \in BOOLEAN
    PROVE  SnapshotInv(s, Done(sn, carbonize))
<1>1. CASE Fenced(sn) /\ ~ (carbonize /\ sn.phase = "accept_requested")
    BY <1>1 DEF Done
<1>2. CASE Fenced(sn) /\ carbonize /\ sn.phase = "accept_requested"
    BY <1>2 DEF SnapshotInv, Snapshot, Done, Phase, FencedPhases, CompletedPhases, Offered
<1>3. CASE ~ Fenced(sn)
    BY <1>3 DEF SnapshotInv, Snapshot, Done, Fenced, Phase, FencedPhases, CompletedPhases, Offered
<1> QED
    BY <1>1, <1>2, <1>3

LEMMA FailedKeeps ==
    ASSUME NEW s \in Session, NEW sn, SnapshotInv(s, sn), NEW source
    PROVE  SnapshotInv(s, Failed(sn, source))
BY DEF SnapshotInv, Snapshot, Failed, Phase, FencedPhases, CompletedPhases, Offered

ReplyKinds == {"done", "carbonize", "error", "complete", "discarded"}

LEMMA RepliedKeeps ==
    ASSUME NEW s \in Session, NEW sn, SnapshotInv(s, sn), NEW kind \in ReplyKinds, NEW source
    PROVE  SnapshotInv(s, Replied(sn, kind, source))
<1>1. CASE kind = "done"
    BY <1>1, DoneKeeps DEF Replied
<1>2. CASE kind = "carbonize"
    BY <1>2, DoneKeeps DEF Replied
<1>3. CASE kind = "error"
    BY <1>3, FailedKeeps DEF Replied
<1>4. CASE kind = "complete"
    BY <1>4 DEF Replied, SnapshotInv, Snapshot, Phase, FencedPhases, CompletedPhases, Offered
<1>5. CASE kind = "discarded"
    BY <1>5 DEF Replied, SnapshotInv, Snapshot, Phase, FencedPhases, CompletedPhases, Offered
<1> QED
    BY <1>1, <1>2, <1>3, <1>4, <1>5 DEF ReplyKinds

\* One session's journal is written.
LEMMA Journaled ==
    ASSUME NEW st, Sound(st), NEW s \in Session, NEW sn, SnapshotInv(s, sn)
    PROVE  /\ Sound([st EXCEPT !.snap[s] = sn])
           /\ [st EXCEPT !.snap[s] = sn].queue = st.queue
           /\ [st EXCEPT !.snap[s] = sn].worker = st.worker
           /\ [st EXCEPT !.snap[s] = sn].snap[s] = sn
<1>1. PICK old : old = st.snap
    OBVIOUS
<1>2. PICK new : new = [old EXCEPT ![s] = sn]
    OBVIOUS
<1>3. old \in [Session -> Snapshot] /\ \A t \in Session : SnapshotInv(t, old[t])
    BY <1>1 DEF Sound, LiveState, JournalsInv
<1>4. /\ new \in [Session -> Snapshot] /\ new[s] = sn
      /\ \A t \in Session \ {s} : new[t] = old[t]
    BY <1>2, <1>3 DEF SnapshotInv
<1>5. IsFiniteSet({t \in Session : new[t].pending # Null})
    <2>1. PICK S : S = {t \in Session : old[t].pending # Null}
        OBVIOUS
    <2>2. IsFiniteSet(S \cup {s})
        BY <1>1, <2>1, FS_AddElement DEF Sound, JournalsInv
    <2>3. {t \in Session : new[t].pending # Null} \subseteq S \cup {s}
        BY <1>4, <2>1
    <2> QED
        BY <2>2, <2>3, FS_Subset
<1>6. JournalsInv(new)
    BY <1>3, <1>4, <1>5 DEF JournalsInv
<1>7. [st EXCEPT !.snap[s] = sn] = [snap |-> new, queue |-> st.queue, worker |-> st.worker]
    BY <1>1, <1>2 DEF Sound, LiveState
<1> QED
    BY <1>4, <1>6, <1>7 DEF Sound, LiveState
-----------------------------------------------------------------------------
(* The queue and its leases *)

LEMMA EndedFacts ==
    ASSUME NEW ws \in [Worker -> Task], NEW e \in Event
    PROVE  /\ Ended(ws, e) \in [Worker -> Task]
           /\ \A w \in Worker :
                /\ Ended(ws, e)[w].event = ws[w].event /\ Ended(ws, e)[w].at = ws[w].at
                /\ Ended(ws, e)[w].current => ws[w].current /\ ~ Same(ws[w].event, e)
<1>1. PICK new : new = Ended(ws, e)
    OBVIOUS
<1>2. ASSUME NEW w \in Worker
      PROVE  /\ new[w] \in Task /\ new[w].event = ws[w].event /\ new[w].at = ws[w].at
             /\ new[w].current => ws[w].current /\ ~ Same(ws[w].event, e)
    <2>1. CASE ws[w] \in Resting
        <3>1. ws[w].current = FALSE /\ ws[w].event = Null
            BY <2>1 DEF Resting
        <3> QED
            BY <1>1, <2>1, <3>1 DEF Ended, Task
    <2>2. CASE ws[w] \in Working
        <3>1. ws[w].event # Null
            BY <2>2, NullAssumption DEF Working
        <3>2. new[w] = IF Same(ws[w].event, e) THEN [ws[w] EXCEPT !.current = FALSE] ELSE ws[w]
            BY <1>1, <3>1 DEF Ended
        <3> QED
            BY <2>2, <3>2 DEF Working, Task
    <2> QED
        BY <2>1, <2>2 DEF Task
<1>3. new = [w \in Worker |-> new[w]]
    BY <1>1 DEF Ended
<1>4. new \in [Worker -> Task]
    BY <1>2, <1>3
<1> QED
    BY <1>1, <1>2, <1>4

\* What is left to show where nobody gets a lease: whoever still has one had it, and
\* finds it in the queue.
LEMMA DeskKeeps ==
    ASSUME NEW q, NEW ws, DeskInv(q, ws),
           NEW r \in Seq(Entry), QueueInv(r), NEW us \in [Worker -> Task],
           \A w \in Worker : us[w].current => ws[w].current /\ Same(us[w].event, ws[w].event),
           \A i \in DOMAIN q : q[i].leased =>
                \/ \E k \in DOMAIN r : r[k].leased /\ Same(r[k].event, q[i].event)
                \/ \A w \in Worker : us[w].current => ~ Same(q[i].event, us[w].event)
    PROVE  DeskInv(r, us)
<1>1. HolderInv(us)
    BY DEF DeskInv, HolderInv, Same
<1>2. LeaseInv(r, us)
    <2> SUFFICES ASSUME NEW w \in Worker, us[w].current
                 PROVE  \E k \in DOMAIN r : r[k].leased /\ Same(r[k].event, us[w].event)
        BY DEF LeaseInv
    <2>1. ws[w].current /\ Same(us[w].event, ws[w].event)
        OBVIOUS
    <2>2. PICK i \in DOMAIN q : q[i].leased /\ Same(q[i].event, ws[w].event)
        BY <2>1 DEF DeskInv, LeaseInv
    <2>3. Same(q[i].event, us[w].event)
        BY <2>1, <2>2 DEF Same
    <2>4. PICK k \in DOMAIN r : r[k].leased /\ Same(r[k].event, q[i].event)
        BY <2>2, <2>3
    <2> QED
        BY <2>3, <2>4 DEF Same
<1> QED
    BY <1>1, <1>2 DEF DeskInv

LEMMA AppendKeeps ==
    ASSUME NEW q, NEW ws, DeskInv(q, ws), NEW e \in Event, \A i \in DOMAIN q : ~ Same(q[i].event, e)
    PROVE  DeskInv(Append(q, [event |-> e, leased |-> FALSE]), ws)
<1>1. PICK x : x = [event |-> e, leased |-> FALSE]
    OBVIOUS
<1>2. x \in Entry /\ x.event = e
    BY <1>1 DEF Entry
<1>3. PICK r : r = Append(q, x)
    OBVIOUS
<1>4. q \in Seq(Entry) /\ ws \in [Worker -> Task]
    BY DEF DeskInv
<1>5. /\ r \in Seq(Entry) /\ DOMAIN r = 1..(Len(q) + 1) /\ DOMAIN q = 1..Len(q) /\ Len(q) \in Nat
      /\ r[Len(q) + 1] = x /\ \A i \in DOMAIN q : r[i] = q[i]
    BY <1>2, <1>3, <1>4, AppendProperties
<1>6. QueueInv(r)
    BY <1>2, <1>5 DEF QueueInv, DeskInv, Same
<1>7. DeskInv(r, ws)
    <2>1. \A i \in DOMAIN q : q[i].leased => \E k \in DOMAIN r : r[k].leased /\ Same(r[k].event, q[i].event)
        BY <1>5 DEF Same
    <2>2. \A w \in Worker : ws[w].current => ws[w].current /\ Same(ws[w].event, ws[w].event)
        BY DEF Same
    <2> QED
        BY <1>4, <1>5, <1>6, <2>1, <2>2, DeskKeeps
<1> QED
    BY <1>1, <1>3, <1>7

LEMMA RemoveAtFacts ==
    ASSUME NEW S, NEW q \in Seq(S), NEW i \in DOMAIN q
    PROVE  /\ RemoveAt(q, i) \in Seq(S)
           /\ DOMAIN RemoveAt(q, i) = 1..(Len(q) - 1)
           /\ \A k \in 1..(Len(q) - 1) : RemoveAt(q, i)[k] = IF k < i THEN q[k] ELSE q[k + 1]
<1>1. Len(q) \in Nat /\ i \in 1..Len(q)
    OBVIOUS
<1>2. PICK a : a = SubSeq(q, 1, i - 1)
    OBVIOUS
<1>3. PICK b : b = SubSeq(q, i + 1, Len(q))
    OBVIOUS
<1>4. a \in Seq(S) /\ Len(a) = i - 1 /\ \A k \in 1..(i - 1) : a[k] = q[k]
    BY <1>1, <1>2, SubSeqProperties
<1>5. b \in Seq(S) /\ Len(b) = Len(q) - i /\ \A k \in 1..(Len(q) - i) : b[k] = q[i + k]
    BY <1>1, <1>3, SubSeqProperties
<1>6. PICK r : r = a \o b
    OBVIOUS
<1>7. /\ r \in Seq(S) /\ Len(r) = Len(a) + Len(b)
      /\ \A k \in 1..(Len(a) + Len(b)) : r[k] = IF k <= Len(a) THEN a[k] ELSE b[k - Len(a)]
    BY <1>4, <1>5, <1>6, ConcatProperties
<1>8. /\ Len(a) + Len(b) = Len(q) - 1 /\ Len(r) = Len(q) - 1
      /\ \A k \in 1..(Len(q) - 1) : r[k] = IF k < i THEN q[k] ELSE q[k + 1]
    <2>1. Len(a) + Len(b) = Len(q) - 1
        BY <1>1, <1>4, <1>5
    <2>2. ASSUME NEW k \in 1..(Len(q) - 1)
          PROVE  r[k] = IF k < i THEN q[k] ELSE q[k + 1]
        <3>1. CASE k < i
            <4>1. k \in 1..(i - 1) /\ k <= i - 1
                BY <1>1, <3>1
            <4> QED
                BY <1>4, <1>7, <2>1, <3>1, <4>1
        <3>2. CASE ~ (k < i)
            <4>1. k - (i - 1) \in 1..(Len(q) - i) /\ ~ (k <= i - 1) /\ i + (k - (i - 1)) = k + 1
                BY <1>1, <3>2
            <4>2. r[k] = b[k - (i - 1)]
                BY <1>4, <1>7, <2>1, <4>1
            <4> QED
                BY <1>5, <3>2, <4>1, <4>2
        <3> QED
            BY <3>1, <3>2
    <2> QED
        BY <1>7, <2>1, <2>2
<1>9. RemoveAt(q, i) = r
    BY <1>2, <1>3, <1>6 DEF RemoveAt
<1> QED
    BY <1>7, <1>8, <1>9, LenProperties

\* An event is acknowledged, and its lease is over.
LEMMA RemoveKeeps ==
    ASSUME NEW q, NEW ws, DeskInv(q, ws), NEW i \in DOMAIN q
    PROVE  DeskInv(RemoveAt(q, i), Ended(ws, q[i].event))
<1>1. q \in Seq(Entry) /\ ws \in [Worker -> Task] /\ QueueInv(q)
    BY DEF DeskInv
<1>2. PICK n : n = Len(q)
    OBVIOUS
<1>3. n \in Nat /\ DOMAIN q = 1..n /\ i \in 1..n
    BY <1>1, <1>2
<1>4. PICK r : r = RemoveAt(q, i)
    OBVIOUS
<1>5. /\ r \in Seq(Entry) /\ DOMAIN r = 1..(n - 1)
      /\ \A k \in 1..(n - 1) : r[k] = IF k < i THEN q[k] ELSE q[k + 1]
    BY <1>1, <1>2, <1>4, RemoveAtFacts
<1>6. QueueInv(r)
    <2> SUFFICES ASSUME NEW j \in 1..(n - 1), NEW k \in 1..(n - 1), Same(r[j].event, r[k].event)
                 PROVE  j = k
        BY <1>5 DEF QueueInv
    <2>1. PICK x \in 1..n : r[j] = q[x] /\ x = IF j < i THEN j ELSE j + 1
        BY <1>3, <1>5
    <2>2. PICK y \in 1..n : r[k] = q[y] /\ y = IF k < i THEN k ELSE k + 1
        BY <1>3, <1>5
    <2>3. x = y
        BY <1>1, <1>3, <2>1, <2>2 DEF QueueInv
    <2> QED
        BY <1>3, <2>1, <2>2, <2>3
<1>7. PICK e : e = q[i].event
    OBVIOUS
<1>8. e \in Event
    <2>1. q[i] \in Entry
        BY <1>1, <1>2, <1>3, ElementOfSeq
    <2> QED
        BY <1>7, <2>1 DEF Entry
<1>9. PICK us : us = Ended(ws, e)
    OBVIOUS
<1>10. /\ us \in [Worker -> Task]
       /\ \A w \in Worker : us[w].event = ws[w].event
                            /\ (us[w].current => ws[w].current /\ ~ Same(ws[w].event, e))
    BY <1>1, <1>8, <1>9, EndedFacts
<1>11. ASSUME NEW j \in DOMAIN q, q[j].leased
       PROVE  \/ \E k \in DOMAIN r : r[k].leased /\ Same(r[k].event, q[j].event)
              \/ \A w \in Worker : us[w].current => ~ Same(q[j].event, us[w].event)
    <2>1. CASE j = i
        BY <1>7, <1>10, <2>1 DEF Same
    <2>2. CASE j # i
        <3>1. PICK k \in 1..(n - 1) : r[k] = q[j]
            <4>1. CASE j < i
                BY <1>3, <1>5, <4>1
            <4>2. CASE i < j
                <5>1. j - 1 \in 1..(n - 1) /\ ~ (j - 1 < i) /\ (j - 1) + 1 = j
                    BY <1>3, <4>2
                <5> QED
                    BY <1>5, <5>1
            <4> QED
                BY <1>3, <2>2, <4>1, <4>2
        <3> QED
            BY <1>5, <1>11, <3>1 DEF Same
    <2> QED
        BY <2>1, <2>2
<1>12. \A w \in Worker : us[w].current => ws[w].current /\ Same(us[w].event, ws[w].event)
    BY <1>10 DEF Same
<1>13. DeskInv(r, us)
    BY <1>5, <1>6, <1>10, <1>11, <1>12, DeskKeeps
<1> QED
    BY <1>4, <1>7, <1>9, <1>13

\* One agent goes on with what it has, or without it.
LEMMA AgentKeeps ==
    ASSUME NEW q, NEW ws, DeskInv(q, ws), NEW w \in Worker, NEW task \in Task,
           task.current => ws[w].current /\ Same(task.event, ws[w].event)
    PROVE  DeskInv(q, [ws EXCEPT ![w] = task])
<1>1. q \in Seq(Entry) /\ QueueInv(q) /\ ws \in [Worker -> Task]
    BY DEF DeskInv
<1>2. PICK us : us = [ws EXCEPT ![w] = task]
    OBVIOUS
<1>3. us \in [Worker -> Task] /\ us[w] = task /\ \A v \in Worker \ {w} : us[v] = ws[v]
    BY <1>1, <1>2
<1>4. \A v \in Worker : us[v].current => ws[v].current /\ Same(us[v].event, ws[v].event)
    BY <1>3 DEF Same
<1>5. \A i \in DOMAIN q : q[i].leased => \E k \in DOMAIN q : q[k].leased /\ Same(q[k].event, q[i].event)
    BY DEF Same
<1>6. DeskInv(q, us)
    BY <1>1, <1>3, <1>4, <1>5, DeskKeeps
<1> QED
    BY <1>2, <1>6

\* The lease of an entry is over: nobody thinks that it holds it any more.
LEMMA ReleaseKeeps ==
    ASSUME NEW q, NEW ws, DeskInv(q, ws), NEW i \in DOMAIN q, NEW e \in Event, Same(q[i].event, e)
    PROVE  DeskInv([q EXCEPT ![i].leased = FALSE], Ended(ws, e))
<1>1. q \in Seq(Entry) /\ QueueInv(q) /\ ws \in [Worker -> Task]
    BY DEF DeskInv
<1>2. DOMAIN q = 1..Len(q) /\ q[i] \in Entry
    BY <1>1, ElementOfSeq, LenProperties
<1>3. PICK x : x = [q[i] EXCEPT !.leased = FALSE]
    OBVIOUS
<1>4. x \in Entry /\ x.event = q[i].event
    BY <1>2, <1>3 DEF Entry
<1>5. PICK r : r = [q EXCEPT ![i] = x]
    OBVIOUS
<1>6. r \in Seq(Entry) /\ DOMAIN r = DOMAIN q /\ r[i] = x /\ \A k \in DOMAIN q \ {i} : r[k] = q[k]
    BY <1>1, <1>2, <1>4, <1>5, ExceptSeq, LenProperties
<1>7. \A k \in DOMAIN q : r[k].event = q[k].event
    BY <1>4, <1>6
<1>8. QueueInv(r)
    BY <1>1, <1>6, <1>7 DEF QueueInv
<1>9. PICK us : us = Ended(ws, e)
    OBVIOUS
<1>10. /\ us \in [Worker -> Task]
       /\ \A w \in Worker : us[w].event = ws[w].event
                            /\ (us[w].current => ws[w].current /\ ~ Same(ws[w].event, e))
    BY <1>1, <1>9, EndedFacts
<1>11. ASSUME NEW j \in DOMAIN q, q[j].leased
       PROVE  \/ \E k \in DOMAIN r : r[k].leased /\ Same(r[k].event, q[j].event)
              \/ \A w \in Worker : us[w].current => ~ Same(q[j].event, us[w].event)
    <2>1. CASE j = i
        BY <1>10, <2>1 DEF Same
    <2>2. CASE j # i
        BY <1>6, <1>11, <2>2 DEF Same
    <2> QED
        BY <2>1, <2>2
<1>12. \A w \in Worker : us[w].current => ws[w].current /\ Same(us[w].event, ws[w].event)
    BY <1>10 DEF Same
<1>13. DeskInv(r, us)
    BY <1>6, <1>8, <1>10, <1>11, <1>12, DeskKeeps
<1> QED
    BY <1>3, <1>5, <1>9, <1>13

\* An agent's event is written back, to where it waits and to who works on it.
LEMMA WriteBackKeeps ==
    ASSUME NEW q, NEW ws, DeskInv(q, ws), NEW w \in Worker, ws[w] \in Working,
           NEW e \in Event, Same(e, ws[w].event)
    PROVE  DeskInv([i \in DOMAIN q |-> IF Same(q[i].event, e) THEN [event |-> e, leased |-> TRUE] ELSE q[i]],
                   [ws EXCEPT ![w].event = e])
<1>1. q \in Seq(Entry) /\ QueueInv(q) /\ ws \in [Worker -> Task]
    BY DEF DeskInv
<1>2. PICK x : x = [event |-> e, leased |-> TRUE]
    OBVIOUS
<1>3. x \in Entry /\ x.event = e /\ x.leased
    BY <1>2 DEF Entry
<1>4. PICK r : r = [i \in DOMAIN q |-> IF Same(q[i].event, e) THEN x ELSE q[i]]
    OBVIOUS
<1>5. /\ DOMAIN r = DOMAIN q
      /\ \A i \in DOMAIN q : r[i] = IF Same(q[i].event, e) THEN x ELSE q[i]
    BY <1>4
<1>6. r \in Seq(Entry)
    <2>1. PICK n \in Nat : n = Len(q) /\ DOMAIN q = 1..n /\ \A i \in 1..n : q[i] \in Entry
        BY <1>1, ElementOfSeq, LenProperties
    <2>2. r \in [1..n -> Entry]
        BY <1>3, <1>4, <2>1
    <2> QED
        BY <2>1, <2>2, SeqDef
<1>7. \A i \in DOMAIN q : Same(r[i].event, q[i].event) /\ (q[i].leased => r[i].leased)
    BY <1>3, <1>5 DEF Same
<1>8. QueueInv(r)
    BY <1>1, <1>5, <1>7 DEF QueueInv, Same
<1>9. PICK task : task = [ws[w] EXCEPT !.event = e]
    OBVIOUS
<1>10. task \in Task /\ task.current = ws[w].current /\ task.event = e
    BY <1>9 DEF Working, Task
<1>11. PICK us : us = [ws EXCEPT ![w] = task]
    OBVIOUS
<1>12. us \in [Worker -> Task] /\ us[w] = task /\ \A v \in Worker \ {w} : us[v] = ws[v]
    BY <1>1, <1>10, <1>11
<1>13. \A v \in Worker : us[v].current => ws[v].current /\ Same(us[v].event, ws[v].event)
    BY <1>10, <1>12 DEF Same
<1>14. \A i \in DOMAIN q : q[i].leased => \E k \in DOMAIN r : r[k].leased /\ Same(r[k].event, q[i].event)
    BY <1>5, <1>7
<1>15. DeskInv(r, us)
    BY <1>6, <1>8, <1>12, <1>13, <1>14, DeskKeeps
<1> QED
    BY <1>2, <1>4, <1>9, <1>11, <1>15

\* The one step that gives a lease: nobody else can have one for the same event,
\* because the queue has the event once and this entry is not leased.
LEMMA ClaimKeeps ==
    ASSUME NEW q, NEW ws, DeskInv(q, ws), NEW w \in Worker, NEW i \in DOMAIN q, ~ q[i].leased
    PROVE  DeskInv([q EXCEPT ![i].leased = TRUE],
                   [ws EXCEPT ![w] = [at |-> "preparing", event |-> q[i].event, current |-> TRUE]])
<1>1. q \in Seq(Entry) /\ QueueInv(q) /\ ws \in [Worker -> Task] /\ LeaseInv(q, ws) /\ HolderInv(ws)
    BY DEF DeskInv
<1>2. DOMAIN q = 1..Len(q) /\ q[i] \in Entry
    BY <1>1, ElementOfSeq, LenProperties
<1>3. PICK e : e = q[i].event
    OBVIOUS
<1>4. PICK x : x = [q[i] EXCEPT !.leased = TRUE]
    OBVIOUS
<1>5. x \in Entry /\ x.event = e /\ x.leased /\ e \in Event
    BY <1>2, <1>3, <1>4 DEF Entry
<1>6. PICK r : r = [q EXCEPT ![i] = x]
    OBVIOUS
<1>7. r \in Seq(Entry) /\ DOMAIN r = DOMAIN q /\ r[i] = x /\ \A k \in DOMAIN q \ {i} : r[k] = q[k]
    BY <1>1, <1>2, <1>5, <1>6, ExceptSeq, LenProperties
<1>8. \A k \in DOMAIN q : r[k].event = q[k].event
    BY <1>3, <1>5, <1>7
<1>9. QueueInv(r)
    BY <1>1, <1>7, <1>8 DEF QueueInv
<1>10. PICK task : task = [at |-> "preparing", event |-> e, current |-> TRUE]
    OBVIOUS
<1>11. task \in Task /\ task.event = e
    BY <1>5, <1>10 DEF Task, Working
<1>12. PICK us : us = [ws EXCEPT ![w] = task]
    OBVIOUS
<1>13. us \in [Worker -> Task] /\ us[w] = task /\ \A v \in Worker \ {w} : us[v] = ws[v]
    BY <1>1, <1>11, <1>12
<1>14. ASSUME NEW v \in Worker \ {w}, us[v].current
       PROVE  /\ ~ Same(us[v].event, e)
              /\ \E k \in DOMAIN r : r[k].leased /\ Same(r[k].event, us[v].event)
    <2>1. PICK k \in DOMAIN q : q[k].leased /\ Same(q[k].event, us[v].event)
        BY <1>1, <1>13, <1>14 DEF LeaseInv
    <2>2. k # i
        BY <2>1
    <2>3. ~ Same(q[k].event, e)
        BY <1>1, <1>3, <2>2 DEF QueueInv
    <2>4. ~ Same(us[v].event, e)
        BY <2>1, <2>3 DEF Same
    <2> QED
        BY <1>7, <2>1, <2>2, <2>4
<1>15. HolderInv(us)
    <2> SUFFICES ASSUME NEW u \in Worker, NEW v \in Worker, u # v, us[u].current, us[v].current
                 PROVE  ~ Same(us[u].event, us[v].event)
        BY DEF HolderInv
    <2>1. CASE u = w
        BY <1>11, <1>13, <1>14, <2>1 DEF Same
    <2>2. CASE v = w
        BY <1>11, <1>13, <1>14, <2>2 DEF Same
    <2>3. CASE u # w /\ v # w
        BY <1>1, <1>13, <2>3 DEF HolderInv
    <2> QED
        BY <2>1, <2>2, <2>3
<1>16. LeaseInv(r, us)
    <2>1. r[i].leased /\ Same(r[i].event, us[w].event)
        BY <1>5, <1>7, <1>11, <1>13 DEF Same
    <2> QED
        BY <1>7, <1>14, <2>1 DEF LeaseInv
<1>17. DeskInv(r, us)
    BY <1>7, <1>9, <1>13, <1>15, <1>16 DEF DeskInv
<1> QED
    BY <1>3, <1>4, <1>6, <1>10, <1>12, <1>17
-----------------------------------------------------------------------------
(* States *)

\* Nothing but the queue and the agents change.
LEMMA DeskStep ==
    ASSUME NEW st, Sound(st), NEW q, NEW ws, DeskInv(q, ws)
    PROVE  Sound([snap |-> st.snap, queue |-> q, worker |-> ws])
BY DEF Sound, LiveState, DeskInv

LEMMA StateFacts ==
    ASSUME NEW st, Sound(st)
    PROVE  /\ st = [snap |-> st.snap, queue |-> st.queue, worker |-> st.worker]
           /\ DeskInv(st.queue, st.worker) /\ st.queue \in Seq(Entry) /\ st.worker \in [Worker -> Task]
           /\ DOMAIN st.queue = 1..Len(st.queue) /\ Len(st.queue) \in Nat
           /\ \A i \in DOMAIN st.queue : st.queue[i] \in Entry /\ st.queue[i].event \in Event
           /\ \A s \in Session : SnapshotInv(s, st.snap[s])
<1>1. st.queue \in Seq(Entry)
    BY DEF Sound, LiveState
<1>2. \A i \in DOMAIN st.queue : st.queue[i] \in Entry
    BY <1>1, ElementOfSeq, LenProperties
<1> QED
    BY <1>1, <1>2 DEF Sound, LiveState, JournalsInv, Entry

LEMMA BothFields ==
    ASSUME NEW st, Sound(st), NEW q, NEW ws
    PROVE  [st EXCEPT !.queue = q, !.worker = ws] = [snap |-> st.snap, queue |-> q, worker |-> ws]
<1>1. PICK x : x = [st EXCEPT !.queue = q]
    OBVIOUS
<1>2. x = [snap |-> st.snap, queue |-> q, worker |-> st.worker]
    BY <1>1 DEF Sound, LiveState
<1>3. [x EXCEPT !.worker = ws] = [snap |-> st.snap, queue |-> q, worker |-> ws]
    BY <1>2
<1>4. [st EXCEPT !.queue = q, !.worker = ws] = [x EXCEPT !.worker = ws]
    BY <1>1
<1> QED
    BY <1>3, <1>4

LEMMA WorkerField ==
    ASSUME NEW st, Sound(st), NEW ws
    PROVE  [st EXCEPT !.worker = ws] = [snap |-> st.snap, queue |-> st.queue, worker |-> ws]
BY DEF Sound, LiveState

LEMMA EnqueuedKeeps ==
    ASSUME NEW st, Sound(st), NEW e \in Event
    PROVE  Sound(Enqueued(st, e))
<1>1. CASE \E i \in DOMAIN st.queue : Same(st.queue[i].event, e)
    BY <1>1 DEF Enqueued
<1>2. CASE \A i \in DOMAIN st.queue : ~ Same(st.queue[i].event, e)
    <2>1. PICK q : q = Append(st.queue, [event |-> e, leased |-> FALSE])
        OBVIOUS
    <2>2. DeskInv(q, st.worker)
        BY <1>2, <2>1, StateFacts, AppendKeeps
    <2>3. Enqueued(st, e) = [snap |-> st.snap, queue |-> q, worker |-> st.worker]
        BY <1>2, <2>1 DEF Enqueued, Sound, LiveState
    <2> QED
        BY <2>2, <2>3, DeskStep
<1> QED
    BY <1>1, <1>2

LEMMA RemovedKeeps ==
    ASSUME NEW st, Sound(st), NEW i \in DOMAIN st.queue
    PROVE  Sound(Removed(st, i)) /\ Removed(st, i).snap = st.snap
<1>1. PICK q : q = RemoveAt(st.queue, i)
    OBVIOUS
<1>2. PICK ws : ws = Ended(st.worker, st.queue[i].event)
    OBVIOUS
<1>3. DeskInv(q, ws)
    BY <1>1, <1>2, StateFacts, RemoveKeeps
<1>4. Removed(st, i) = [st EXCEPT !.queue = q, !.worker = ws]
    BY <1>1, <1>2 DEF Removed
<1>5. Removed(st, i) = [snap |-> st.snap, queue |-> q, worker |-> ws]
    BY <1>4, BothFields
<1> QED
    BY <1>3, <1>5, DeskStep

LEMMA MatchingFirst ==
    ASSUME NEW st, Sound(st), NEW s, NEW source, Matching(st, s, source) # {}
    PROVE  First(Matching(st, s, source)) \in DOMAIN st.queue \cap Matching(st, s, source)
<1>1. PICK match : match = Matching(st, s, source)
    OBVIOUS
<1>2. match \subseteq DOMAIN st.queue
    BY <1>1 DEF Matching
<1>3. match \in SUBSET Nat
    BY <1>2, StateFacts
<1>4. First(match) \in match
    BY <1>1, <1>3, FirstIndex
<1> QED
    BY <1>1, <1>2, <1>4

LEMMA RetiredKeeps ==
    ASSUME NEW st, Sound(st), NEW s
    PROVE  Sound(Retired(st, s))
<1>1. CASE Matching(st, s, "generate") = {}
    BY <1>1 DEF Retired
<1>2. CASE Matching(st, s, "generate") # {}
    <2>1. First(Matching(st, s, "generate")) \in DOMAIN st.queue
        BY <1>2, MatchingFirst
    <2> QED
        BY <1>2, <2>1, RemovedKeeps DEF Retired
<1> QED
    BY <1>1, <1>2

LEMMA KeptKeeps ==
    ASSUME NEW st, Sound(st), NEW w \in Worker, st.worker[w] \in Working,
           NEW e \in Event, Same(e, st.worker[w].event)
    PROVE  /\ Sound(Kept(st, w, e)) /\ Kept(st, w, e).snap = st.snap
           /\ Kept(st, w, e).worker[w] \in Working /\ Kept(st, w, e).worker[w].event = e
<1>1. PICK q : q = [i \in DOMAIN st.queue |-> IF Same(st.queue[i].event, e) THEN [event |-> e, leased |-> TRUE]
                                              ELSE st.queue[i]]
    OBVIOUS
<1>2. PICK ws : ws = [st.worker EXCEPT ![w].event = e]
    OBVIOUS
<1>3. DeskInv(q, ws)
    BY <1>1, <1>2, StateFacts, WriteBackKeeps
<1>4. Kept(st, w, e) = [snap |-> st.snap, queue |-> q, worker |-> ws]
    <2>1. Kept(st, w, e) = [st EXCEPT !.worker = ws, !.queue = q]
        BY <1>1, <1>2 DEF Kept
    <2>2. [st EXCEPT !.worker = ws, !.queue = q] = [st EXCEPT !.queue = q, !.worker = ws]
        OBVIOUS
    <2> QED
        BY <2>1, <2>2, BothFields
<1>5. ws[w] \in Working /\ ws[w].event = e
    <2>1. st.worker \in [Worker -> Task]
        BY StateFacts
    <2>2. ws[w] = [st.worker[w] EXCEPT !.event = e]
        BY <1>2, <2>1
    <2> QED
        BY <2>2 DEF Working
<1> QED
    BY <1>3, <1>4, <1>5, DeskStep

\* An agent's own state changes, and nothing else.
LEMMA AgentStep ==
    ASSUME NEW st, Sound(st), NEW w \in Worker, NEW task \in Task,
           task.current => st.worker[w].current /\ Same(task.event, st.worker[w].event)
    PROVE  /\ Sound([st EXCEPT !.worker[w] = task])
           /\ [st EXCEPT !.worker[w] = task].snap = st.snap
           /\ [st EXCEPT !.worker[w] = task].queue = st.queue
           /\ [st EXCEPT !.worker[w] = task].worker[w] = task
<1>1. PICK ws : ws = [st.worker EXCEPT ![w] = task]
    OBVIOUS
<1>2. DeskInv(st.queue, ws)
    BY <1>1, StateFacts, AgentKeeps
<1>3. [st EXCEPT !.worker[w] = task] = [snap |-> st.snap, queue |-> st.queue, worker |-> ws]
    BY <1>1, WorkerField
<1>4. ws[w] = task
    BY <1>1, StateFacts
<1>5. PICK x : x = [st EXCEPT !.worker[w] = task]
    OBVIOUS
<1>6. x = [snap |-> st.snap, queue |-> st.queue, worker |-> ws]
    BY <1>3, <1>5
<1>7. Sound(x)
    BY <1>2, <1>6, DeskStep
<1>8. x.snap = st.snap /\ x.queue = st.queue /\ x.worker = ws
    BY <1>6
<1> QED
    BY <1>4, <1>5, <1>7, <1>8

LEMMA IdleTask == Idle \in Task /\ Idle.current = FALSE
BY DEF Idle, Task, Resting

LEMMA DeliveredKeeps ==
    ASSUME NEW st, Sound(st), NEW w \in Worker, st.worker[w] \in Working
    PROVE  Sound(Delivered(st, w))
<1>1. PICK e : e = st.worker[w].event
    OBVIOUS
<1>2. e \in Event
    BY <1>1 DEF Working
<1>3. PICK task : task = [st.worker[w] EXCEPT !.at = "holding"]
    OBVIOUS
<1>4. task \in Working /\ task \in Task /\ task.event = e /\ task.current = st.worker[w].current
    BY <1>1, <1>3 DEF Working, Task
<1>5. PICK handed : handed = [st EXCEPT !.worker[w] = task]
    OBVIOUS
<1>6. Sound(handed) /\ handed.worker[w] = task /\ handed.snap = st.snap
    BY <1>1, <1>4, <1>5, AgentStep DEF Same
<1>7. handed = [st EXCEPT !.worker[w].at = "holding"]
    BY <1>3, <1>5
<1>8. PICK ready : ready = [e EXCEPT !.ready = TRUE]
    OBVIOUS
<1>9. ready \in Event /\ ready.id = e.id /\ e.id \in Session /\ Same(ready, e)
    BY <1>2, <1>8 DEF Event, Same
<1>10. PICK kept : kept = Kept(handed, w, ready)
    OBVIOUS
<1>11. Sound(kept) /\ kept.snap = st.snap
    BY <1>4, <1>6, <1>9, <1>10, KeptKeeps
<1>12. PICK sn : sn = Requested(kept.snap[e.id], ready)
    OBVIOUS
<1>13. SnapshotInv(e.id, sn)
    BY <1>9, <1>11, <1>12, StateFacts, RequestedKeeps
<1>14. Sound([kept EXCEPT !.snap[e.id] = sn])
    BY <1>9, <1>11, <1>13, Journaled
<1>15. Delivered(st, w) = IF e.type = "generate" /\ ~ e.ready THEN [kept EXCEPT !.snap[e.id] = sn] ELSE handed
    BY <1>1, <1>7, <1>8, <1>10, <1>12 DEF Delivered
<1> QED
    BY <1>6, <1>14, <1>15

LEMMA ClaimedKeeps ==
    ASSUME NEW st, Sound(st), NEW w \in Worker, NEW i \in Unleased(st)
    PROVE  Sound(Claimed(st, w, i)) /\ Claimed(st, w, i).worker[w] \in Working
<1>1. PICK q : q = [st.queue EXCEPT ![i].leased = TRUE]
    OBVIOUS
<1>2. PICK task : task = [at |-> "preparing", event |-> st.queue[i].event, current |-> TRUE]
    OBVIOUS
<1>3. PICK ws : ws = [st.worker EXCEPT ![w] = task]
    OBVIOUS
<1>4. i \in DOMAIN st.queue /\ ~ st.queue[i].leased
    BY DEF Unleased
<1>5. DeskInv(q, ws)
    BY <1>1, <1>2, <1>3, <1>4, StateFacts, ClaimKeeps
<1>6. Claimed(st, w, i) = [snap |-> st.snap, queue |-> q, worker |-> ws]
    <2>1. Claimed(st, w, i) = [st EXCEPT !.queue = q, !.worker = ws]
        BY <1>1, <1>2, <1>3 DEF Claimed
    <2> QED
        BY <2>1, BothFields
<1>7. ws[w] \in Working
    <2>1. ws[w] = task /\ st.queue[i].event \in Event
        BY <1>3, <1>4, StateFacts
    <2> QED
        BY <1>2, <2>1 DEF Working
<1> QED
    BY <1>5, <1>6, <1>7, DeskStep

LEMMA LeasedKeeps ==
    ASSUME NEW st, Sound(st), NEW w \in Worker, Unleased(st) # {}
    PROVE  Sound(Leased(st, w))
<1>1. PICK i \in Unleased(st) : i = Selected(st)
    BY StateFacts, SelectedIndex
<1>2. PICK claimed : claimed = Claimed(st, w, i)
    OBVIOUS
<1>3. Sound(claimed) /\ claimed.worker[w] \in Working
    BY <1>2, ClaimedKeeps
<1>4. Sound(Delivered(claimed, w))
    BY <1>3, DeliveredKeeps
<1>5. Leased(st, w) \in {claimed, Delivered(claimed, w)}
    BY <1>1, <1>2 DEF Leased
<1> QED
    BY <1>3, <1>4, <1>5

LEMMA FlushedKeeps ==
    ASSUME NEW st, Sound(st), NEW x \in Flushed(st)
    PROVE  Sound(x)
BY LeasedKeeps DEF Flushed

LEMMA ReplyKeeps ==
    ASSUME NEW st, Sound(st), NEW s \in Session, NEW kind \in ReplyKinds, NEW source, NEW delivered \in BOOLEAN
    PROVE  Sound(Reply(st, s, kind, source, delivered))
<1>1. PICK match : match = Matching(st, s, source)
    OBVIOUS
<1>2. PICK acked : acked = IF match = {} THEN st ELSE Removed(st, First(match))
    OBVIOUS
<1>3. Sound(acked)
    <2>1. match # {} => First(match) \in DOMAIN st.queue
        BY <1>1, MatchingFirst
    <2> QED
        BY <1>2, <2>1, RemovedKeeps
<1>4. PICK type : type = IF match = {} THEN Null ELSE st.queue[First(match)].event.type
    OBVIOUS
<1>5. PICK sn : sn = Replied(acked.snap[s], kind, type)
    OBVIOUS
<1>6. Sound([acked EXCEPT !.snap[s] = sn])
    <2>1. SnapshotInv(s, acked.snap[s])
        BY <1>3, StateFacts
    <2>2. SnapshotInv(s, sn)
        BY <1>5, <2>1, RepliedKeeps
    <2> QED
        BY <1>3, <2>2, Journaled
<1>7. Reply(st, s, kind, source, delivered) \in {acked, [acked EXCEPT !.snap[s] = sn]}
    BY <1>1, <1>2, <1>4, <1>5 DEF Reply
<1> QED
    BY <1>3, <1>6, <1>7
-----------------------------------------------------------------------------
(* Steps *)

LEMMA NowFacts ==
    ASSUME HelperInv
    PROVE  /\ Sound(Now)
           /\ Now.snap = snap /\ Now.queue = queue /\ Now.worker = worker
           /\ snap \in [Session -> Snapshot] /\ queue \in Seq(Entry) /\ worker \in [Worker -> Task]
           /\ \A s \in Session : SnapshotInv(s, snap[s])
           /\ \A i \in DOMAIN queue : queue[i].event \in Event
<1>1. Sound(Now)
    BY DEF HelperInv
<1>2. Now.snap = snap /\ Now.queue = queue /\ Now.worker = worker
    BY DEF Now
<1>3. snap \in [Session -> Snapshot]
    BY <1>1, <1>2 DEF Sound, LiveState
<1> QED
    BY <1>1, <1>2, <1>3, StateFacts

LEMMA BecomeKeeps ==
    ASSUME NEW states, \A x \in states : Sound(x), Become(states), faults' \in 0..MaxFaults
    PROVE  HelperInv'
<1>1. PICK x \in states : snap' = x.snap /\ queue' = x.queue /\ worker' = x.worker
    BY DEF Become
<1>2. Sound(x)
    BY <1>1
<1>3. Now' = x
    BY <1>1, <1>2, StateFacts DEF Now
<1> QED
    BY <1>2, <1>3 DEF HelperInv

LEMMA FaultsBounded ==
    ASSUME HelperInv, Fault \/ UNCHANGED faults
    PROVE  faults' \in 0..MaxFaults
BY MaxFaultsAssumption DEF HelperInv, Fault

LEMMA NewEventFacts ==
    ASSUME NEW s \in Session, NEW type \in Type
    PROVE  NewEvent(s, type) \in Event /\ NewEvent(s, type).id = s
BY DEF NewEvent, Event

\* An event is queued, an old generation having been retired, and handed out.
LEMMA QueuedKeeps ==
    ASSUME HelperInv, NEW st, Sound(st), NEW e \in Event, Become(Flushed(Enqueued(st, e))), UNCHANGED faults
    PROVE  HelperInv'
<1>1. Sound(Enqueued(st, e))
    BY EnqueuedKeeps
<1>2. \A x \in Flushed(Enqueued(st, e)) : Sound(x)
    BY <1>1, FlushedKeeps
<1> QED
    BY <1>2, BecomeKeeps, FaultsBounded

LEMMA GenerateKeeps ==
    ASSUME HelperInv, NEW s \in Session, Generate(s)
    PROVE  HelperInv'
<1>1. PICK e : e = NewEvent(s, "generate")
    OBVIOUS
<1>2. e \in Event /\ e.id = s
    BY <1>1, NewEventFacts DEF Type
<1>3. PICK sn : sn = Requested(Now.snap[s], e)
    OBVIOUS
<1>4. SnapshotInv(s, sn)
    BY <1>2, <1>3, NowFacts, RequestedKeeps
<1>5. PICK st : st = [Now EXCEPT !.snap[s] = sn]
    OBVIOUS
<1>6. Sound(st)
    BY <1>4, <1>5, NowFacts, Journaled
<1>7. Become(Flushed(Enqueued(st, e))) /\ UNCHANGED faults
    BY <1>1, <1>3, <1>5 DEF Generate
<1> QED
    BY <1>2, <1>6, <1>7, QueuedKeeps

LEMMA DecideKeeps ==
    ASSUME HelperInv, NEW s \in Session, NEW type \in {"accept", "discard"}, Decide(s, type)
    PROVE  HelperInv'
<1>1. PICK e : e = NewEvent(s, type)
    OBVIOUS
<1>2. e \in Event /\ e.id = s
    BY <1>1, NewEventFacts DEF Type
<1>3. PICK sn : sn = Decided(Now.snap[s], e)
    OBVIOUS
<1>4. SnapshotInv(s, sn)
    BY <1>2, <1>3, NowFacts, DecidedKeeps
<1>5. PICK st : st = [Now EXCEPT !.snap[s] = sn]
    OBVIOUS
<1>6. Sound(Retired(st, s))
    BY <1>4, <1>5, NowFacts, Journaled, RetiredKeeps
<1>7. Become(Flushed(Enqueued(Retired(st, s), e))) /\ UNCHANGED faults
    BY <1>1, <1>3, <1>5 DEF Decide
<1> QED
    BY <1>2, <1>6, <1>7, QueuedKeeps

LEMMA DiscardOrphanKeeps ==
    ASSUME HelperInv, NEW s \in Session, DiscardOrphan(s)
    PROVE  HelperInv'
<1>1. PICK e : e = NewEvent(s, "discard")
    OBVIOUS
<1>2. e \in Event /\ e.id = s
    BY <1>1, NewEventFacts DEF Type
<1>3. PICK sn : sn = Replied(Decided(snap[s], e), "discarded", Null)
    OBVIOUS
<1>4. SnapshotInv(s, sn)
    BY <1>2, <1>3, NowFacts, DecidedKeeps, RepliedKeeps DEF ReplyKinds
<1>5. PICK st : st = [Now EXCEPT !.snap[s] = sn]
    OBVIOUS
<1>6. Sound(Retired(st, s))
    BY <1>4, <1>5, NowFacts, Journaled, RetiredKeeps
<1>7. Become({Retired(st, s)}) /\ UNCHANGED faults
    BY <1>1, <1>3, <1>5 DEF DiscardOrphan
<1> QED
    BY <1>6, <1>7, BecomeKeeps, FaultsBounded

LEMMA ReportMountFailureKeeps ==
    ASSUME HelperInv, NEW s \in Session, ReportMountFailure(s)
    PROVE  HelperInv'
<1>1. PICK e : e = NewEvent(s, "variant_mount_failed")
    OBVIOUS
<1>2. e \in Event /\ e.id = s
    BY <1>1, NewEventFacts DEF Type
<1>3. PICK sn : sn = MountFailed(Now.snap[s], e)
    OBVIOUS
<1>4. SnapshotInv(s, sn)
    BY <1>2, <1>3, NowFacts, MountFailedKeeps
<1>5. PICK st : st = [Now EXCEPT !.snap[s] = sn]
    OBVIOUS
<1>6. Sound(st)
    BY <1>4, <1>5, NowFacts, Journaled
<1>7. Become(Flushed(Enqueued(st, e))) /\ UNCHANGED faults
    BY <1>1, <1>3, <1>5 DEF ReportMountFailure
<1> QED
    BY <1>2, <1>6, <1>7, QueuedKeeps

\* A step that has written one journal and nothing else.
LEMMA CheckpointKeeps ==
    ASSUME HelperInv, NEW s \in Session, Checkpoint(s)
    PROVE  HelperInv'
<1>1. PICK phase \in {"generating", "cycling"} : snap' = [snap EXCEPT ![s] = Checkpointed(@, phase)]
    BY DEF Checkpoint
<1>2. PICK sn : sn = Checkpointed(snap[s], phase)
    OBVIOUS
<1>3. SnapshotInv(s, sn)
    BY <1>2, NowFacts, CheckpointedKeeps
<1>4. PICK st : st = [Now EXCEPT !.snap[s] = sn]
    OBVIOUS
<1>5. Sound(st) /\ st.queue = queue /\ st.worker = worker
    BY <1>3, <1>4, NowFacts, Journaled
<1>6. st.snap = snap'
    BY <1>1, <1>2, <1>4 DEF Now
<1>7. Become({st}) /\ UNCHANGED faults
    BY <1>5, <1>6 DEF Become, Checkpoint
<1> QED
    BY <1>5, <1>7, BecomeKeeps, FaultsBounded

LEMMA TaskFacts ==
    ASSUME HelperInv, NEW w \in Worker
    PROVE  /\ worker[w].at \in {"preparing", "holding"} => worker[w] \in Working /\ worker[w].event \in Event
           /\ worker[w].at \in {"idle", "parked"} => worker[w] \in Resting
BY NowFacts DEF Task, Resting, Working

LEMMA PollKeeps ==
    ASSUME HelperInv, NEW w \in Worker, Poll(w)
    PROVE  HelperInv'
<1>1. CASE Unleased(Now) # {}
    <2>1. Sound(Leased(Now, w))
        BY <1>1, NowFacts, LeasedKeeps
    <2>2. Become({Leased(Now, w)}) /\ UNCHANGED faults
        BY <1>1 DEF Poll
    <2> QED
        BY <2>1, <2>2, BecomeKeeps, FaultsBounded
<1>2. CASE Unleased(Now) = {}
    <2>1. PICK task : task = [Now.worker[w] EXCEPT !.at = "parked"]
        OBVIOUS
    <2>2. task \in Task /\ task.current = FALSE
        <3>1. worker[w] \in Resting
            BY TaskFacts DEF Poll
        <3> QED
            BY <2>1, <3>1, NowFacts DEF Resting, Task
    <2>3. Sound([Now EXCEPT !.worker[w] = task])
        BY <2>2, NowFacts, AgentStep
    <2>4. Become({[Now EXCEPT !.worker[w] = task]}) /\ UNCHANGED faults
        BY <1>2, <2>1 DEF Poll
    <2> QED
        BY <2>3, <2>4, BecomeKeeps, FaultsBounded
<1> QED
    BY <1>1, <1>2

\* An agent that stops, whatever it was doing.
LEMMA IdleKeeps ==
    ASSUME HelperInv, NEW w \in Worker, worker' = [worker EXCEPT ![w] = Idle],
           UNCHANGED <<snap, queue>>, faults' \in 0..MaxFaults
    PROVE  HelperInv'
<1>1. PICK st : st = [Now EXCEPT !.worker[w] = Idle]
    OBVIOUS
<1>2. Sound(st) /\ st.snap = snap /\ st.queue = queue
    BY <1>1, NowFacts, AgentStep, IdleTask
<1>3. st.worker = worker'
    BY <1>1 DEF Now
<1>4. Become({st})
    BY <1>2, <1>3 DEF Become
<1> QED
    BY <1>2, <1>4, BecomeKeeps

LEMMA PreparedKeeps ==
    ASSUME HelperInv, NEW w \in Worker, Prepared(w)
    PROVE  HelperInv'
<1>1. worker[w] \in Working /\ worker[w].event \in Event
    BY TaskFacts DEF Prepared
<1>2. PICK e : e = [worker[w].event EXCEPT !.tried = TRUE]
    OBVIOUS
<1>3. e \in Event /\ e.id \in Session /\ Same(e, worker[w].event)
    BY <1>1, <1>2 DEF Event, Same
<1>4. PICK kept : kept = Kept(Now, w, e)
    OBVIOUS
<1>5. Sound(kept) /\ kept.worker[w] \in Working
    BY <1>1, <1>3, <1>4, NowFacts, KeptKeeps
<1>6. PICK sn : sn = Requested(kept.snap[e.id], e)
    OBVIOUS
<1>7. SnapshotInv(e.id, sn)
    BY <1>3, <1>5, <1>6, StateFacts, RequestedKeeps
<1>8. PICK st : st = [kept EXCEPT !.snap[e.id] = sn]
    OBVIOUS
<1>9. Sound(st) /\ st.worker = kept.worker
    BY <1>3, <1>5, <1>7, <1>8, Journaled
<1>10. Sound(Delivered(st, w))
    BY <1>5, <1>9, DeliveredKeeps
<1>11. Become({Delivered(st, w)}) /\ UNCHANGED faults
    BY <1>2, <1>4, <1>6, <1>8 DEF Prepared
<1> QED
    BY <1>10, <1>11, BecomeKeeps, FaultsBounded

LEMMA GivenUp ==
    ASSUME HelperInv, NEW w \in Worker
    PROVE  /\ Sound([Now EXCEPT !.worker[w] = Idle])
           /\ [Now EXCEPT !.worker[w] = Idle].queue = queue
           /\ [Now EXCEPT !.worker[w] = Idle].snap = snap
BY NowFacts, AgentStep, IdleTask

LEMMA ReplyOfKeeps ==
    ASSUME HelperInv, NEW w \in Worker, Holds(w), NEW kind \in ReplyKinds, ReplyOf(w, kind),
           Fault \/ UNCHANGED faults
    PROVE  HelperInv'
<1>1. PICK e : e = worker[w].event
    OBVIOUS
<1>2. e.id \in Session
    BY <1>1, TaskFacts DEF Holds, Event
<1>3. PICK st : st = [Now EXCEPT !.worker[w] = Idle]
    OBVIOUS
<1>4. Sound(st)
    BY <1>3, GivenUp
<1>5. PICK sources : Become({Reply(st, e.id, kind, source, TRUE) : source \in sources})
    BY <1>1, <1>3 DEF ReplyOf
<1>6. \A x \in {Reply(st, e.id, kind, source, TRUE) : source \in sources} : Sound(x)
    BY <1>2, <1>4, ReplyKeeps
<1> QED
    BY <1>5, <1>6, BecomeKeeps, FaultsBounded

LEMMA AnswerKeeps ==
    ASSUME HelperInv, NEW w \in Worker, Answer(w)
    PROVE  HelperInv'
<1>1. PICK kind \in Kinds(worker[w].event.type) : ReplyOf(w, kind)
    BY DEF Answer
<1>2. kind \in ReplyKinds
    BY <1>1 DEF Kinds, ReplyKinds
<1> QED
    BY <1>1, <1>2, ReplyOfKeeps DEF Answer

LEMMA AnswerErrorKeeps ==
    ASSUME HelperInv, NEW w \in Worker, AnswerError(w)
    PROVE  HelperInv'
BY ReplyOfKeeps DEF AnswerError, ReplyKinds

LEMMA BounceKeeps ==
    ASSUME HelperInv, NEW w \in Worker, Bounce(w)
    PROVE  HelperInv'
<1>1. PICK e : e = worker[w].event
    OBVIOUS
<1>2. e.id \in Session
    BY <1>1, TaskFacts DEF Bounce, Holds, Event
<1>3. PICK x : x = Reply(Now, e.id, "done", Inferred(e.id, "done"), FALSE)
    OBVIOUS
<1>4. Sound(x)
    BY <1>2, <1>3, NowFacts, ReplyKeeps DEF ReplyKinds
<1>5. Become({x}) /\ Fault
    BY <1>1, <1>3 DEF Bounce
<1> QED
    BY <1>4, <1>5, BecomeKeeps, FaultsBounded

LEMMA CompleteKeeps ==
    ASSUME HelperInv, NEW s \in Session, Complete(s)
    PROVE  HelperInv'
<1>1. PICK kind \in ReplyKinds : kind = IF snap[s].phase = "discard_requested" THEN "discarded" ELSE "complete"
    BY DEF ReplyKinds
<1>2. PICK x : x = Reply(Now, s, kind, Inferred(s, kind), TRUE)
    OBVIOUS
<1>3. Sound(x)
    BY <1>2, NowFacts, ReplyKeeps
<1>4. Become({x}) /\ UNCHANGED faults
    BY <1>1, <1>2 DEF Complete
<1> QED
    BY <1>3, <1>4, BecomeKeeps, FaultsBounded

\* A lease that runs out, or is given back.
LEMMA Released ==
    ASSUME NEW st, Sound(st), NEW i \in DOMAIN st.queue, NEW e \in Event, Same(st.queue[i].event, e)
    PROVE  Sound([st EXCEPT !.queue[i].leased = FALSE, !.worker = Ended(@, e)])
<1>1. PICK q : q = [st.queue EXCEPT ![i].leased = FALSE]
    OBVIOUS
<1>2. PICK ws : ws = Ended(st.worker, e)
    OBVIOUS
<1>3. DeskInv(q, ws)
    BY <1>1, <1>2, StateFacts, ReleaseKeeps
<1>4. PICK x : x = [st EXCEPT !.queue[i].leased = FALSE, !.worker = Ended(@, e)]
    OBVIOUS
<1>5. x = [st EXCEPT !.queue = q, !.worker = ws]
    BY <1>1, <1>2, <1>4
<1>6. x = [snap |-> st.snap, queue |-> q, worker |-> ws]
    BY <1>5, BothFields
<1>7. Sound(x)
    BY <1>3, <1>6, DeskStep
<1> QED
    BY <1>4, <1>7

LEMMA ExpireKeeps ==
    ASSUME HelperInv, NEW i \in DOMAIN queue, Expire(i)
    PROVE  HelperInv'
<1>1. PICK e : e = queue[i].event
    OBVIOUS
<1>2. PICK st : st = [Now EXCEPT !.queue[i].leased = FALSE, !.worker = Ended(@, e)]
    OBVIOUS
<1>3. Sound(st)
    BY <1>1, <1>2, NowFacts, Released DEF Same
<1>4. \A x \in Flushed(st) : Sound(x)
    BY <1>3, FlushedKeeps
<1>5. Become(Flushed(st)) /\ UNCHANGED faults
    BY <1>1, <1>2 DEF Expire
<1> QED
    BY <1>4, <1>5, BecomeKeeps, FaultsBounded

LEMMA InterruptKeeps ==
    ASSUME HelperInv, NEW w \in Worker, Interrupt(w)
    PROVE  HelperInv'
BY IdleKeeps, FaultsBounded DEF Interrupt

LEMMA PollEndsKeeps ==
    ASSUME HelperInv, NEW w \in Worker, PollEnds(w)
    PROVE  HelperInv'
BY IdleKeeps, FaultsBounded DEF PollEnds

LEMMA RetryKeeps ==
    ASSUME HelperInv, NEW w \in Worker, Retry(w)
    PROVE  HelperInv'
<1>1. PICK e : e = worker[w].event
    OBVIOUS
<1>2. e \in Event
    BY <1>1, TaskFacts DEF Retry, Holds
<1>3. PICK match : match = Matching(Now, e.id, e.type)
    OBVIOUS
<1>4. PICK given : given = [Now EXCEPT !.worker[w] = Idle]
    OBVIOUS
<1>5. Sound(given) /\ given.queue = queue
    BY <1>4, GivenUp
<1>6. PICK i : i = First(match)
    OBVIOUS
<1>7. match # {}
    BY <1>1, <1>3 DEF Retry
<1>8. i \in DOMAIN queue /\ i \in match
    BY <1>3, <1>6, <1>7, NowFacts, MatchingFirst
<1>9. Same(queue[i].event, e)
    <2>1. e.type # Null
        BY <1>2, NullAssumption DEF Event
    <2>2. queue[i].event.id = e.id /\ e.type \in {Null, queue[i].event.type}
        BY <1>3, <1>8, NowFacts DEF Matching
    <2> QED
        BY <2>1, <2>2 DEF Same
<1>10. PICK st : st = [given EXCEPT !.queue[i].leased = FALSE, !.worker = Ended(@, e)]
    OBVIOUS
<1>11. Sound(st)
    BY <1>2, <1>5, <1>8, <1>9, <1>10, Released
<1>12. \A x \in Flushed(st) : Sound(x)
    BY <1>11, FlushedKeeps
<1>13. Become(Flushed(st)) /\ Fault
    BY <1>1, <1>3, <1>4, <1>6, <1>10 DEF Retry
<1> QED
    BY <1>12, <1>13, BecomeKeeps, FaultsBounded

LEMMA LeaseFailsKeeps ==
    ASSUME HelperInv, NEW w \in Worker, LeaseFails(w)
    PROVE  HelperInv'
<1>1. worker[w] \in Working /\ worker[w].event \in Event
    BY TaskFacts DEF LeaseFails
<1>2. PICK e : e = [worker[w].event EXCEPT !.tried = TRUE]
    OBVIOUS
<1>3. e \in Event /\ Same(e, worker[w].event)
    BY <1>1, <1>2 DEF Event, Same
<1>4. PICK kept : kept = Kept(Now, w, e)
    OBVIOUS
<1>5. Sound(kept)
    BY <1>1, <1>3, <1>4, NowFacts, KeptKeeps
<1>6. Sound([kept EXCEPT !.worker[w] = Idle])
    BY <1>5, IdleTask, AgentStep
<1>7. Become({[kept EXCEPT !.worker[w] = Idle]}) /\ Fault
    BY <1>2, <1>4 DEF LeaseFails
<1> QED
    BY <1>6, <1>7, BecomeKeeps, FaultsBounded
-----------------------------------------------------------------------------
(* A crash *)

\* A finite set is put into a sequence that has each of its elements once.
LEMMA SequenceOfSet ==
    ASSUME NEW S, IsFiniteSet(S)
    PROVE  /\ SetToSeq(S) \in Seq(S)
           /\ \A i, j \in DOMAIN SetToSeq(S) : SetToSeq(S)[i] = SetToSeq(S)[j] => i = j
<1>1. PICK n \in Nat : n = Cardinality(S)
    BY FS_CardinalityType
<1>2. PICK f \in [1..n -> S] : IsInjective(f)
    BY <1>1, FS_CardinalityType DEF ExistsBijection, Bijection, Injection
<1>3. PICK q : q = SetToSeq(S)
    OBVIOUS
<1>4. q \in [1..n -> S] /\ IsInjective(q)
    BY <1>1, <1>2, <1>3 DEF SetToSeq
<1>5. q \in Seq(S)
    BY <1>4, SeqDef
<1> QED
    BY <1>3, <1>4, <1>5 DEF IsInjective

LEMMA CrashKeeps ==
    ASSUME HelperInv, Crash
    PROVE  HelperInv'
<1>1. PICK active : active = {s \in Session : snap[s].pending # Null /\ snap[s].phase \notin CompletedPhases}
    OBVIOUS
<1>2. PICK S : S = {[event |-> snap[s].pending, leased |-> FALSE] : s \in active}
    OBVIOUS
<1>3. IsFiniteSet(S)
    <2>1. active \subseteq {s \in Session : snap[s].pending # Null}
        BY <1>1
    <2>2. IsFiniteSet(active)
        BY <2>1, NowFacts, FS_Subset DEF Sound, JournalsInv
    <2>3. PICK f : f = [s \in active |-> [event |-> snap[s].pending, leased |-> FALSE]]
        OBVIOUS
    <2>4. f \in Surjection(active, S)
        BY <1>2, <2>3 DEF Surjection
    <2> QED
        BY <2>2, <2>4, FS_Surjection
<1>4. ASSUME NEW x \in S
      PROVE  x \in Entry /\ ~ x.leased /\ \E s \in active : x.event = snap[s].pending /\ x.event.id = s
    <2>1. PICK s \in active : x = [event |-> snap[s].pending, leased |-> FALSE]
        BY <1>2
    <2>2. snap[s].pending \in Event /\ snap[s].pending.id = s
        BY <1>1, <2>1, NowFacts DEF SnapshotInv, Snapshot
    <2> QED
        BY <2>1, <2>2 DEF Entry
<1>5. \A x, y \in S : x.event.id = y.event.id => x = y
    BY <1>4 DEF Entry
<1>6. queue' = SetToSeq(S)
    BY <1>1, <1>2 DEF Crash, Restored
<1>7. queue' \in Seq(S) /\ \A i, j \in DOMAIN queue' : queue'[i] = queue'[j] => i = j
    BY <1>3, <1>6, SequenceOfSet
<1>8. queue' \in Seq(Entry) /\ \A i \in DOMAIN queue' : queue'[i] \in S
    BY <1>4, <1>7, SeqMonotonic, ElementOfSeq, LenProperties
<1>9. QueueInv(queue')
    BY <1>5, <1>7, <1>8 DEF QueueInv, Same
<1>10. worker' \in [Worker -> Task] /\ \A w \in Worker : worker'[w].current = FALSE
    <2>1. ASSUME NEW w \in Worker
          PROVE  /\ worker'[w] \in Task /\ worker'[w].current = FALSE
        <3>1. CASE Holds(w)
            <4>1. worker'[w] = [worker[w] EXCEPT !.current = FALSE]
                BY <3>1 DEF Crash
            <4>2. worker[w] \in Working
                BY <3>1, TaskFacts DEF Holds
            <4> QED
                BY <4>1, <4>2 DEF Working, Task
        <3>2. CASE ~ Holds(w)
            BY <3>2, IdleTask DEF Crash
        <3> QED
            BY <3>1, <3>2
    <2> QED
        BY <2>1 DEF Crash
<1>11. DeskInv(queue', worker')
    BY <1>8, <1>9, <1>10 DEF DeskInv, LeaseInv, HolderInv
<1>12. PICK x : x = [snap |-> snap, queue |-> queue', worker |-> worker']
    OBVIOUS
<1>13. Sound(x)
    BY <1>11, <1>12, NowFacts, DeskStep
<1>14. Become({x}) /\ Fault
    BY <1>12 DEF Become, Crash
<1> QED
    BY <1>13, <1>14, BecomeKeeps, FaultsBounded
-----------------------------------------------------------------------------
(* The theorems about Live *)

LEMMA LiveInitKeeps ==
    ASSUME LiveInit
    PROVE  HelperInv
<1>1. snap \in [Session -> Snapshot] /\ \A s \in Session : SnapshotInv(s, snap[s]) /\ snap[s].pending = Null
    BY DEF LiveInit, SnapshotInv, Snapshot, Phase
<1>2. IsFiniteSet({s \in Session : snap[s].pending # Null})
    <2>1. {s \in Session : snap[s].pending # Null} = {}
        BY <1>1
    <2> QED
        BY <2>1, FS_EmptySet
<1>3. DeskInv(queue, worker)
    <2>1. queue \in Seq(Entry) /\ DOMAIN queue = {}
        BY EmptySeq, LenProperties DEF LiveInit
    <2>2. worker \in [Worker -> Task] /\ \A w \in Worker : worker[w].current = FALSE
        BY IdleTask DEF LiveInit
    <2> QED
        BY <2>1, <2>2 DEF DeskInv, QueueInv, LeaseInv, HolderInv
<1>4. Sound(Now)
    BY <1>1, <1>2, <1>3 DEF Sound, Now, LiveState, JournalsInv, DeskInv
<1> QED
    BY <1>4, MaxFaultsAssumption DEF HelperInv, LiveInit

LEMMA LiveNextKeeps ==
    ASSUME HelperInv, LiveNext
    PROVE  HelperInv'
<1>1. ASSUME NEW s \in Session,
             \/ Generate(s) \/ DiscardOrphan(s) \/ ReportMountFailure(s) \/ Checkpoint(s) \/ Complete(s)
             \/ \E type \in {"accept", "discard"} : Decide(s, type)
      PROVE  HelperInv'
    BY <1>1, GenerateKeeps, DiscardOrphanKeeps, ReportMountFailureKeeps, CheckpointKeeps, CompleteKeeps, DecideKeeps
<1>2. ASSUME NEW w \in Worker, Agent(w) \/ Interrupt(w) \/ Retry(w) \/ LeaseFails(w)
      PROVE  HelperInv'
    BY <1>2, PollKeeps, PollEndsKeeps, PreparedKeeps, AnswerKeeps, AnswerErrorKeeps, BounceKeeps,
       InterruptKeeps, RetryKeeps, LeaseFailsKeeps DEF Agent
<1>3. ASSUME NEW i \in DOMAIN queue, Expire(i)
      PROVE  HelperInv'
    BY <1>3, ExpireKeeps
<1> QED
    BY <1>1, <1>2, <1>3, CrashKeeps DEF LiveNext, Browser

\* The inductive invariant of the helper holds of every behaviour.
THEOREM HelperInvariant == LiveSpec => []HelperInv
<1>1. LiveInit => HelperInv
    BY LiveInitKeeps
<1>2. HelperInv /\ [LiveNext]_liveVars => HelperInv'
    BY LiveNextKeeps DEF liveVars, HelperInv, Now
<1> QED
    BY <1>1, <1>2, PTL DEF LiveSpec

\* Journals, queue and agents keep their types, whatever goes wrong.
THEOREM LiveTypeCorrect == LiveSpec => []LiveTypeOK
<1>1. HelperInv => LiveTypeOK
    BY NowFacts DEF LiveTypeOK, HelperInv, Snapshot, Entry, Task, Resting, Working
<1> QED
    BY <1>1, HelperInvariant, PTL

\* For any number of sessions and agents, no late reply, checkpoint or preparation
\* offers the variants of a session whose user has decided (applyEvent in
\* session-store.mjs).
THEOREM LateWorkIsFencedTheorem == LiveSpec => []LateWorkIsFenced
<1>1. HelperInv => LateWorkIsFenced
    BY NowFacts DEF LateWorkIsFenced, SnapshotInv, Offered
<1> QED
    BY <1>1, HelperInvariant, PTL

\* For any number of agents, no event is with two of them while its lease runs
\* (leaseEvent, acknowledgePendingEvent and the lease timer of live-server.mjs).
THEOREM OneHolderTheorem == LiveSpec => []OneHolder
<1>1. HelperInv => OneHolder
    BY NowFacts DEF OneHolder, Sound, DeskInv, HolderInv
<1> QED
    BY <1>1, HelperInvariant, PTL
=============================================================================

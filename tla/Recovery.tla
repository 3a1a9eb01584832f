------------------------------ MODULE Recovery ------------------------------
(***************************************************************************)
(* Backup and restore of the local runtime (scripts/recovery.sh), around   *)
(* an application that files records: a row, then an object, then the row  *)
(* marked stored (Custody has the details).                                *)
(*                                                                         *)
(* Containers are stopped and started one after the other.  What a stopped *)
(* application had sent may still be carried out by a store that runs.     *)
(* Any command of the script may fail, which ends it (set -e) where the    *)
(* script has nothing better to do, and it may be killed between commands. *)
(***************************************************************************)
EXTENDS FiniteSets, Naturals

CONSTANTS
    Record,     \* records that are filed
    Lost,       \* what an emptied, or partly restored, store holds
    None        \* "no value"

VARIABLES
    up,         \* the containers that run
    db,         \* the rows: "pending" or "stored"
    objects,    \* the records whose object is in the store
    sent,       \* uploads and confirmations on their way to a running store
    heard,      \* the records whose upload the application knows to be there
    temp,       \* what the backup has copied so far
    destination,\* the backup that was made
    pc          \* the command the script comes to next

recoveryVars == <<up, db, objects, sent, heard, temp, destination, pc>>

Rows == [Record -> {"none", "pending", "stored"}]

ASSUME LostAssumption ==
    Lost \notin {None} \cup Rows /\ \A kept \in SUBSET Record : Lost # kept

Service == {"postgres", "minio", "api"}

BackupSteps == {"b stop api", "b dump", "b stop stores", "b copy", "b sums", "b move", "b start stores", "b start api"}
RestoreSteps == {"r stop api", "r stop stores", "r restore rows", "r empty objects", "r copy objects",
                 "r start stores", "r start api", "r wait"}

RecoveryTypeOK ==
    /\ up \subseteq Service
    /\ db \in Rows \cup {Lost}
    /\ objects \in {Lost} \cup SUBSET Record
    /\ sent \subseteq {"put", "confirm"} \X Record
    /\ heard \subseteq Record
    /\ temp \in [db : Rows \cup {None}, objects : (SUBSET Record) \cup {None}]
    /\ destination \in [db : Rows, objects : SUBSET Record] \cup {None}
    /\ pc \in {"idle", "restore failed"} \cup BackupSteps \cup RestoreSteps

NoCopy == [db |-> None, objects |-> None]

RecoveryInit ==
    /\ up = Service
    /\ db = [r \in Record |-> "none"]
    /\ objects = {}
    /\ sent = {}
    /\ heard = {}
    /\ temp = NoCopy
    /\ destination = None
    /\ pc = "idle"
-----------------------------------------------------------------------------
(* The application *)

script == <<temp, destination, pc>>

Running(services) == services \subseteq up

\* The row is committed, and the upload is sent: or lost, and the row stays.
File(r) ==
    /\ Running(Service) /\ db # Lost /\ db[r] = "none"
    /\ db' = [db EXCEPT ![r] = "pending"]
    /\ sent' = sent \cup {<<"put", r>>} \/ UNCHANGED sent
    /\ UNCHANGED <<up, objects, heard, script>>

\* The object store carries it out, whoever is still there to hear of it.
Put(r) ==
    /\ <<"put", r>> \in sent /\ "minio" \in up /\ objects # Lost
    /\ objects' = objects \cup {r}
    /\ sent' = sent \ {<<"put", r>>}
    /\ heard' = IF "api" \in up THEN heard \cup {r} ELSE heard
    /\ UNCHANGED <<up, db, script>>

Confirm(r) ==
    /\ r \in heard /\ Running({"api"})
    /\ sent' = sent \cup {<<"confirm", r>>}
    /\ heard' = heard \ {r}
    /\ UNCHANGED <<up, db, objects, script>>

Confirmed(r) ==
    /\ <<"confirm", r>> \in sent /\ "postgres" \in up /\ db # Lost
    /\ db' = IF db[r] = "pending" THEN [db EXCEPT ![r] = "stored"] ELSE db
    /\ sent' = sent \ {<<"confirm", r>>}
    /\ UNCHANGED <<up, objects, heard, script>>
-----------------------------------------------------------------------------
(* Containers *)

\* What a stopped process knew is gone; what was sent to a stopped store too.
Stopped(services) ==
    /\ up' = up \ services
    /\ heard' = IF "api" \in services THEN {} ELSE heard
    /\ sent' = {m \in sent : (m[1] = "put" => "minio" \notin services)
                             /\ (m[1] = "confirm" => "postgres" \notin services)}

Started(services) == up' = up \cup services /\ UNCHANGED <<heard, sent>>

\* A command that stops two containers, and may fail with one of them stopped.
StopSome(services) == \E S \in SUBSET services : Stopped(S)
-----------------------------------------------------------------------------
(* backup *)

stores == <<db, objects>>

Backup ==
    /\ pc = "idle" /\ Running(Service) /\ destination = None
    /\ pc' = "b stop api"
    /\ temp' = NoCopy
    /\ UNCHANGED <<up, stores, sent, heard, destination>>

\* Mutant: the application goes on while its stores are copied.
LeaveApiRunning ==
    /\ pc = "b stop api"
    /\ pc' = "b dump"
    /\ UNCHANGED <<up, stores, sent, heard, temp, destination>>

StopApi ==
    /\ pc = "b stop api"
    /\ Stopped({"api"})
    /\ pc' = "b dump"
    /\ UNCHANGED <<stores, temp, destination>>

Dump ==
    /\ pc = "b dump"
    /\ temp' = [temp EXCEPT !.db = db]
    /\ pc' = "b stop stores"
    /\ UNCHANGED <<up, stores, sent, heard, destination>>

StopStores ==
    /\ pc = "b stop stores"
    /\ Stopped({"postgres", "minio"})
    /\ pc' = "b copy"
    /\ UNCHANGED <<stores, temp, destination>>

CopyObjects ==
    /\ pc = "b copy"
    /\ temp' = [temp EXCEPT !.objects = objects]
    /\ pc' = "b move"
    /\ UNCHANGED <<up, stores, sent, heard, destination>>

\* The checksums, and mv of the finished directory.
Move ==
    /\ pc = "b move"
    /\ destination' = temp
    /\ pc' = "b start stores"
    /\ UNCHANGED <<up, stores, sent, heard, temp>>

\* Backups and restores end alike.
StartStores ==
    /\ pc \in {"b start stores", "r start stores"}
    /\ Started({"postgres", "minio"})
    /\ pc' = IF pc = "b start stores" THEN "b start api" ELSE "r start api"
    /\ UNCHANGED <<stores, temp, destination>>

StartApi ==
    /\ pc \in {"b start api", "r start api"}
    /\ Started({"api"})
    /\ pc' = IF pc = "b start api" THEN "idle" ELSE "r wait"
    /\ UNCHANGED <<stores, temp, destination>>

\* The dump or the copy fails: the containers are started again.
BackupFails ==
    /\ pc \in {"b dump", "b copy"}
    /\ Started(Service)
    /\ pc' = "idle"
    /\ UNCHANGED <<stores, temp, destination>>

\* Any other failure ends the script with the containers as they are.
BackupEnds ==
    /\ pc \in BackupSteps
    /\ CASE pc = "b stop api" -> StopSome({"api"})
         [] pc = "b stop stores" -> StopSome({"postgres", "minio"})
         [] OTHER -> UNCHANGED <<up, sent, heard>>
    /\ pc' = "idle"
    /\ UNCHANGED <<stores, temp, destination>>

\* The launcher, after a backup that ended early: all containers are started.
Launch ==
    /\ pc = "idle" /\ ~ Running(Service)
    /\ Started(Service)
    /\ UNCHANGED <<stores, script>>
-----------------------------------------------------------------------------
(* restore *)

Restore ==
    /\ pc = "idle" /\ Running(Service) /\ destination # None
    /\ pc' = "r stop api"
    /\ UNCHANGED <<up, stores, sent, heard, temp, destination>>

RestoreStopsApi ==
    /\ pc = "r stop api"
    /\ Stopped({"api"})
    /\ pc' = "r stop stores"
    /\ UNCHANGED <<stores, temp, destination>>

RestoreStopsStores ==
    /\ pc = "r stop stores"
    /\ Stopped({"postgres", "minio"})
    /\ pc' = "r restore rows"
    /\ UNCHANGED <<stores, temp, destination>>

\* PostgreSQL is started for pg_restore, and stopped again.
RestoreRows ==
    /\ pc = "r restore rows"
    /\ db' = destination.db
    /\ pc' = "r empty objects"
    /\ UNCHANGED <<up, objects, sent, heard, temp, destination>>

EmptyObjects ==
    /\ pc = "r empty objects"
    /\ objects' = Lost
    /\ pc' = "r copy objects"
    /\ UNCHANGED <<up, db, sent, heard, temp, destination>>

RestoreObjects ==
    /\ pc = "r copy objects"
    /\ objects' = destination.objects
    /\ pc' = "r start stores"
    /\ UNCHANGED <<up, db, sent, heard, temp, destination>>

Healthy ==
    /\ pc = "r wait"
    /\ pc' = "idle"
    /\ UNCHANGED <<up, stores, sent, heard, temp, destination>>

\* Mutant: a failed restore starts the containers again, as a failed backup does.
RestoreFailsAndStarts ==
    /\ pc \in {"r restore rows", "r empty objects", "r copy objects"}
    /\ db' = IF pc = "r restore rows" THEN Lost ELSE db
    /\ objects' = IF pc = "r restore rows" THEN objects ELSE Lost
    /\ Started(Service)
    /\ pc' = "restore failed"
    /\ UNCHANGED <<temp, destination>>

\* A command fails, with its work done in part.
RestoreFails ==
    /\ pc \in RestoreSteps
    /\ CASE pc = "r stop api" -> StopSome({"api"})
         [] pc = "r stop stores" -> StopSome({"postgres", "minio"})
         [] pc = "r start stores" -> \E S \in SUBSET {"postgres", "minio"} : Started(S)
         [] pc = "r start api" -> \E S \in SUBSET {"api"} : Started(S)
         [] OTHER -> UNCHANGED <<up, sent, heard>>
    /\ db' = IF pc = "r restore rows" THEN Lost ELSE db
    /\ objects' = IF pc \in {"r empty objects", "r copy objects"} THEN Lost ELSE objects
    /\ pc' = "restore failed"
    /\ UNCHANGED <<temp, destination>>
-----------------------------------------------------------------------------
RecoveryNext ==
    \/ \E r \in Record : File(r) \/ Put(r) \/ Confirm(r) \/ Confirmed(r)
    \/ Backup \/ StopApi \/ Dump \/ StopStores \/ CopyObjects \/ Move
    \/ StartStores \/ StartApi \/ BackupFails \/ BackupEnds \/ Launch
    \/ Restore \/ RestoreStopsApi \/ RestoreStopsStores \/ RestoreRows
    \/ EmptyObjects \/ RestoreObjects \/ Healthy \/ RestoreFails

RecoverySpec == RecoveryInit /\ [][RecoveryNext]_recoveryVars
-----------------------------------------------------------------------------
(* Properties *)

InCustody(d, o) == \A r \in Record : d[r] = "stored" => r \in o
Reconcilable(d, o) == \A r \in o : d[r] # "none"

\* A backup has the object of every row that reads stored, and the row of every
\* object, whatever was under way when the application was stopped.
BackupIsConsistent ==
    destination # None =>
        /\ InCustody(destination.db, destination.objects)
        /\ Reconcilable(destination.db, destination.objects)

\* The application never runs on rows of one moment and objects of another: not
\* after a restore that failed at any command.
ApplicationRunsOnMatchingStores ==
    "api" \in up =>
        /\ db # Lost /\ objects # Lost
        /\ InCustody(db, objects) /\ Reconcilable(db, objects)
=============================================================================

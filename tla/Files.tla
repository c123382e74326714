------------------------------- MODULE Files -------------------------------
(***************************************************************************)
(* The life of an attachment file on the server: its row, its object in    *)
(* storage, its deletion job, and the routes and cleanup workers that work *)
(* on them (server/files_service.py, server/attachment_cleanup.py,         *)
(* server/attachments.py, the file part of db/repository.py).              *)
(*                                                                         *)
(* No transaction locks the row it reads: each reads it in one step and    *)
(* writes it in a later one, and anything may be committed in between.     *)
(***************************************************************************)
EXTENDS Naturals, FiniteSets

CONSTANTS Files, Callers, Workers,
          MaxAttempts,     \* ATTACHMENTS_CLEANUP_MAX_ATTEMPTS
          Heard,           \* whether a module that extends this one takes the answers
          Disturbances     \* of {"storage_error", "worker_crash", "rollback", "crash"}

ASSUME FilesAssumption == MaxAttempts \in Nat \ {0} /\ Heard \in BOOLEAN

VARIABLES row,     \* of uploaded_files
          object,  \* in the bucket, by storage key
          form,    \* the presigned POST form of the file can be used
          job,     \* the active row of file_deletion_queue, if any
          call,    \* what each route handler is doing
          worker,  \* what each cleanup worker is doing
          torn     \* history: files whose object was deleted in a transaction that
                   \* did not commit, or that left no deletion date

fileVars == <<row, object, form, job, call, worker, torn>>

Idle == [at |-> "idle"]
At(pc, f, with) == [at |-> pc, file |-> f, with |-> with]
Results == {"ready", "failed", "processing"}

FilesInit ==
    /\ row = [f \in Files |-> [status |-> "none", gone |-> FALSE, elapsed |-> FALSE]]
    /\ object = [f \in Files |-> "none"]
    /\ form = [f \in Files |-> FALSE]
    /\ job = [f \in Files |-> [active |-> FALSE, attempts |-> 0]]
    /\ call = [c \in Callers |-> Idle]
    /\ worker = [w \in Workers |-> Idle]
    /\ torn = {}

Goto(c, pc, f, with) == call' = [call EXCEPT ![c] = At(pc, f, with)]
Answer(c, f, with) ==
    call' = [call EXCEPT ![c] = IF Heard THEN At("answered", f, with) ELSE Idle]
WorkerAt(w, pc, f, with) == worker' = [worker EXCEPT ![w] = At(pc, f, with)]

SetStatus(f, status) == row' = [row EXCEPT ![f].status = status]

\* enqueue_file_deletion_job reuses an active job.
Enqueue(f) ==
    job' = IF job[f].active THEN job
           ELSE [job EXCEPT ![f] = [active |-> TRUE, attempts |-> 0]]

Exists(f) == row[f].status # "none"
\* What get_uploaded_file_for_user and find_active_uploaded_file_by_hash see.
Visible(f) == Exists(f) /\ ~row[f].gone
\* What resolve_request_attachments accepts.
Usable(f) == Visible(f) /\ row[f].status = "ready"

----------------------------------------------------------------------------
(* Direct upload *)

CreateIntent(c, f) ==
    /\ ~Exists(f) /\ object[f] = "none"
    /\ call[c].at = "idle"
    /\ SetStatus(f, "uploading")
    /\ form' = [form EXCEPT ![f] = TRUE]
    /\ Answer(c, f, "uploading")
    /\ UNCHANGED <<object, job, worker, torn>>

\* The deletion of f has passed its object.
Erased(f) ==
    row[f].gone \/ \E w \in Workers : worker[w].at = "erased" /\ worker[w].file = f

\* The browser posts the file: deleting the row does not close the form, and an
\* object that comes too late stays.
Post(f) ==
    /\ form[f] /\ object[f] = "none"
    /\ \E o \in {"stored", "mismatched"} :
          object' = [object EXCEPT ![f] = IF Erased(f) THEN "stray" ELSE o]
    /\ UNCHANGED <<row, form, job, call, worker, torn>>

FormExpires(f) ==
    /\ form[f]
    /\ form' = [form EXCEPT ![f] = FALSE]
    /\ UNCHANGED <<row, object, job, call, worker, torn>>

\* expires_at passes: the form, which lives for five minutes, before the
\* intent, which lives for thirty.
Elapse(f) ==
    /\ Exists(f) /\ ~row[f].elapsed /\ ~form[f]
    /\ row' = [row EXCEPT ![f].elapsed = TRUE]
    /\ UNCHANGED <<object, form, job, call, worker, torn>>

CompleteRead(c, f) ==
    /\ call[c].at = "idle" /\ Exists(f)
    /\ IF row[f].status = "uploading"
       THEN Goto(c, IF row[f].elapsed THEN "intent_expired" ELSE "checking", f, "")
       ELSE Answer(c, f, IF row[f].status \in {"ready", "processing"}
                         THEN row[f].status ELSE "invalid_state")
    /\ UNCHANGED <<row, object, form, job, worker, torn>>

\* The transaction of an expired intent does not read the row again.
CompleteExpired(c) ==
    LET f == call[c].file
    IN /\ call[c].at = "intent_expired"
       /\ SetStatus(f, "expired")
       /\ Enqueue(f)
       /\ Answer(c, f, "expired")
       /\ UNCHANGED <<object, form, worker, torn>>

\* head_object, and for small files get_bytes and the ingestion of the text.
CompleteCheck(c) ==
    LET f == call[c].file
    IN /\ call[c].at = "checking"
       /\ \/ object[f] = "none" /\ Answer(c, f, "not_complete")
          \/ object[f] = "mismatched" /\ Goto(c, "mismatch", f, "")
          \/ object[f] \in {"stored", "stray"} /\ \E result \in Results : Goto(c, "verified", f, result)
          \/ "storage_error" \in Disturbances /\ Answer(c, f, "error")
       /\ UNCHANGED <<row, object, form, job, worker, torn>>

\* _mark_direct_upload_failed and the last transaction of complete_direct_upload
\* read the row again ...
CompleteReread(c) ==
    LET f == call[c].file
    IN /\ \/ /\ call[c].at = "mismatch"
             /\ IF Visible(f) /\ row[f].status = "uploading"
                THEN Goto(c, "write_failed", f, "")
                ELSE Answer(c, f, "mismatch")
          \/ /\ call[c].at = "verified"
             /\ IF row[f].status = "uploading"
                THEN Goto(c, "write_result", f, call[c].with)
                ELSE Answer(c, f, IF row[f].status \in {"ready", "processing"}
                                  THEN row[f].status ELSE "invalid_state")
       /\ UNCHANGED <<row, object, form, job, worker, torn>>

CompleteFailed(c) ==
    LET f == call[c].file
    IN /\ call[c].at = "write_failed"
       /\ SetStatus(f, "failed")
       /\ Answer(c, f, "mismatch")
       /\ UNCHANGED <<object, form, job, worker, torn>>

\* ... and write it unconditionally: the result is rolled back if the row has a
\* deletion date by then.
CompleteWrite(c) ==
    LET f == call[c].file
    IN /\ call[c].at = "write_result"
       /\ IF row[f].gone
          THEN Answer(c, f, "error") /\ UNCHANGED row
          ELSE /\ row' = [row EXCEPT ![f].status = call[c].with, ![f].elapsed = FALSE]
               /\ Answer(c, f, call[c].with)
       /\ UNCHANGED <<object, form, job, worker, torn>>

----------------------------------------------------------------------------
(* Proxied upload *)

\* The object is put before the row is committed.
UploadPut(c, f) ==
    /\ ~Exists(f) /\ object[f] = "none" /\ ~form[f]
    /\ call[c].at = "idle"
    /\ \A d \in Callers : call[d] # At("put", f, "")
    /\ object' = [object EXCEPT ![f] = "stored"]
    /\ Goto(c, "put", f, "")
    /\ UNCHANGED <<row, form, job, worker, torn>>

UploadCommit(c) ==
    LET f == call[c].file
    IN /\ call[c].at = "put"
       /\ \E result \in Results :
             /\ SetStatus(f, result)
             /\ \/ Answer(c, f, result)
                \/ "rollback" \in Disturbances /\ Goto(c, "in_batch", f, "")
       /\ UNCHANGED <<object, form, job, worker, torn>>

\* The row cannot be written: the object is deleted again.
UploadUndone(c) ==
    LET f == call[c].file
    IN /\ call[c].at = "put"
       /\ object' = [object EXCEPT ![f] = "none"]
       /\ Answer(c, f, "error")
       /\ UNCHANGED <<row, form, job, worker, torn>>

\* rollback_batch_upload: a later file of the batch failed.  The object goes in
\* the transaction that marks the row, without a deletion date and without a job.
RollbackObject(c) ==
    LET f == call[c].file
    IN /\ call[c].at = "in_batch" /\ Visible(f)
       /\ object' = [object EXCEPT ![f] = "none"]
       /\ torn' = torn \cup {f}
       /\ Goto(c, "rollback", f, "")
       /\ UNCHANGED <<row, form, job, worker>>

RollbackCommit(c) ==
    /\ call[c].at = "rollback"
    /\ SetStatus(call[c].file, "deleted")
    /\ Answer(c, call[c].file, "error")
    /\ UNCHANGED <<object, form, job, worker, torn>>

----------------------------------------------------------------------------
(* Status, deletion and use *)

\* get_user_file ingests a file whose ingestion was deferred.
GetRead(c, f) ==
    /\ call[c].at = "idle" /\ Visible(f)
    /\ IF row[f].status = "processing"
       THEN \E result \in {"ready", "failed"} :
               /\ result = "ready" => object[f] # "none"
               /\ Goto(c, "ingested", f, result)
       ELSE Answer(c, f, row[f].status)
    /\ UNCHANGED <<row, object, form, job, worker, torn>>

GetWrite(c) ==
    /\ call[c].at = "ingested"
    /\ SetStatus(call[c].file, call[c].with)
    /\ Answer(c, call[c].file, call[c].with)
    /\ UNCHANGED <<object, form, job, worker, torn>>

DeleteRead(c, f) ==
    /\ call[c].at = "idle" /\ Exists(f)
    /\ IF row[f].status \in {"deleting", "deleted"}
       THEN Answer(c, f, row[f].status)
       ELSE Goto(c, "delete", f, "")
    /\ UNCHANGED <<row, object, form, job, worker, torn>>

DeleteWrite(c) ==
    LET f == call[c].file
    IN /\ call[c].at = "delete"
       /\ SetStatus(f, "deleting")
       /\ Enqueue(f)
       /\ Answer(c, f, "deleting")
       /\ UNCHANGED <<object, form, worker, torn>>

\* The process of a handler dies; its transaction is rolled back.
CallerCrash(c) ==
    /\ "crash" \in Disturbances
    /\ call[c].at \notin {"idle", "answered"}
    /\ call' = [call EXCEPT ![c] = Idle]
    /\ UNCHANGED <<row, object, form, job, worker, torn>>

CallStep(c) ==
    \/ CompleteExpired(c) \/ CompleteCheck(c) \/ CompleteReread(c) \/ CompleteFailed(c)
    \/ CompleteWrite(c) \/ UploadCommit(c) \/ UploadUndone(c) \/ RollbackCommit(c)
    \/ GetWrite(c) \/ DeleteWrite(c)

----------------------------------------------------------------------------
(* Cleanup: run_cleanup_cycle in every process *)

\* queue_expired_files lists the row ...
SweepRead(w, f) ==
    /\ worker[w].at = "idle"
    /\ Visible(f) /\ row[f].elapsed /\ row[f].status # "deleted"
    /\ WorkerAt(w, "sweep", f, IF row[f].status = "expired" THEN "expired" ELSE "")
    /\ UNCHANGED <<row, object, form, job, call, torn>>

\* Mutant: a file already marked is taken to have its job.
SweepWrite_OnlyNew(w) ==
    LET f == worker[w].file
    IN /\ worker[w].at = "sweep"
       /\ IF worker[w].with # "expired"
          THEN SetStatus(f, "expired") /\ Enqueue(f)
          ELSE UNCHANGED <<row, job>>
       /\ worker' = [worker EXCEPT ![w] = Idle]
       /\ UNCHANGED <<object, form, call, torn>>

\* ... and marks what it listed.
SweepWrite(w) ==
    LET f == worker[w].file
    IN /\ worker[w].at = "sweep"
       /\ IF worker[w].with # "expired" THEN SetStatus(f, "expired") ELSE UNCHANGED row
       /\ Enqueue(f)
       /\ worker' = [worker EXCEPT ![w] = Idle]
       /\ UNCHANGED <<object, form, call, torn>>

\* list_due_file_deletion_jobs does not lock what it lists.
JobList(w, f) ==
    /\ worker[w].at = "idle" /\ job[f].active
    /\ WorkerAt(w, "listed", f, job[f].attempts)
    /\ UNCHANGED <<row, object, form, job, call, torn>>

Locked(f) ==
    \E w \in Workers : worker[w].at \in {"erase", "erased"} /\ worker[w].file = f

\* Marking the job in progress waits for the worker that has it; the row is read
\* after that.
JobClaim(w) ==
    LET f == worker[w].file
    IN /\ worker[w].at = "listed" /\ ~Locked(f)
       /\ IF row[f].gone \/ row[f].status = "deleted"
          THEN /\ job' = [job EXCEPT ![f].active = FALSE]
               /\ worker' = [worker EXCEPT ![w] = Idle]
          ELSE WorkerAt(w, "erase", f, worker[w].with + 1) /\ UNCHANGED job
       /\ UNCHANGED <<row, object, form, call, torn>>

JobErase(w) ==
    LET f == worker[w].file
    IN /\ worker[w].at = "erase"
       /\ object' = [object EXCEPT ![f] = "none"]
       /\ WorkerAt(w, "erased", f, worker[w].with)
       /\ UNCHANGED <<row, form, job, call, torn>>

\* Mutant: the row keeps no deletion date.
JobCommit_NoDate(w) ==
    LET f == worker[w].file
    IN /\ worker[w].at = "erased"
       /\ row' = [row EXCEPT ![f].status = "deleted"]
       /\ job' = [job EXCEPT ![f].active = FALSE]
       /\ worker' = [worker EXCEPT ![w] = Idle]
       /\ UNCHANGED <<object, form, call, torn>>

JobCommit(w) ==
    LET f == worker[w].file
    IN /\ worker[w].at = "erased"
       /\ row' = [row EXCEPT ![f].status = "deleted", ![f].gone = TRUE]
       /\ job' = [job EXCEPT ![f].active = FALSE]
       /\ worker' = [worker EXCEPT ![w] = Idle]
       /\ UNCHANGED <<object, form, call, torn>>

Again(attempts) == attempts < MaxAttempts

\* Storage fails: another attempt, or after the last one the row is left for
\* queue_expired_files.
JobFails(w) ==
    LET f == worker[w].file
        attempts == worker[w].with
    IN /\ "storage_error" \in Disturbances
       /\ worker[w].at = "erase"
       /\ IF Again(attempts)
          THEN /\ job' = [job EXCEPT ![f] = [active |-> TRUE, attempts |-> attempts]]
               /\ UNCHANGED row
          ELSE /\ job' = [job EXCEPT ![f].active = FALSE]
               /\ SetStatus(f, "expired")
       /\ worker' = [worker EXCEPT ![w] = Idle]
       /\ UNCHANGED <<object, form, call, torn>>

WorkerCrash(w) ==
    /\ "worker_crash" \in Disturbances
    /\ worker[w].at # "idle"
    /\ worker' = [worker EXCEPT ![w] = Idle]
    /\ torn' = IF worker[w].at = "erased"
               THEN torn \cup {worker[w].file} ELSE torn
    /\ UNCHANGED <<row, object, form, job, call>>

WorkerStep(w) == SweepWrite(w) \/ JobClaim(w) \/ JobErase(w) \/ JobCommit(w)

----------------------------------------------------------------------------
(* Any client: calls any route on any file at any time *)

Request(c, f) ==
    \/ CreateIntent(c, f) \/ CompleteRead(c, f) \/ UploadPut(c, f)
    \/ GetRead(c, f) \/ DeleteRead(c, f)

Passing(f) == Post(f) \/ FormExpires(f) \/ Elapse(f)

Next ==
    \/ \E c \in Callers : CallStep(c) \/ RollbackObject(c) \/ CallerCrash(c)
    \/ \E c \in Callers, f \in Files : Request(c, f)
    \/ \E w \in Workers : WorkerStep(w) \/ JobFails(w) \/ WorkerCrash(w)
    \/ \E w \in Workers, f \in Files : SweepRead(w, f) \/ JobList(w, f)
    \/ \E f \in Files : Passing(f)

Spec == FilesInit /\ [][Next]_fileVars

\* Handlers go on, time passes, the cleanup cycles are repeated and the storage
\* does not refuse every deletion.
Fairness ==
    /\ \A c \in Callers : WF_fileVars(CallStep(c))
    /\ \A f \in Files :
          /\ WF_fileVars(FormExpires(f)) /\ WF_fileVars(Elapse(f))
          /\ SF_fileVars(\E w \in Workers : SweepRead(w, f))
          /\ SF_fileVars(\E w \in Workers : SweepWrite(w) /\ worker[w].file = f)
          /\ SF_fileVars(\E w \in Workers : JobList(w, f))
          /\ SF_fileVars(\E w \in Workers : JobClaim(w) /\ worker[w].file = f)
          /\ SF_fileVars(\E w \in Workers : JobErase(w) /\ worker[w].file = f)
          /\ SF_fileVars(\E w \in Workers : JobCommit(w) /\ worker[w].file = f)

FairSpec == Spec /\ Fairness

----------------------------------------------------------------------------
TypeOK ==
    /\ row \in [Files -> [status : {"none", "uploading", "deleting", "deleted", "expired"} \cup Results,
                          gone : BOOLEAN, elapsed : BOOLEAN]]
    /\ object \in [Files -> {"none", "stored", "mismatched", "stray"}]
    /\ form \in [Files -> BOOLEAN]
    /\ job \in [Files -> [active : BOOLEAN, attempts : 0 .. MaxAttempts - 1]]
    /\ torn \subseteq Files

\* A file that requests accept has its object, or is being deleted: unless a batch
\* rolled it back, or a worker died after it deleted the object.
UsableIsStored ==
    \A f \in Files :
        Usable(f) /\ f \notin torn => object[f] # "none" \/ job[f].active \/ Locked(f)

\* Whatever is read, ingested or completed while a deletion job waits, the file is
\* gone in the end, and its object with it: unless the object arrives after
\* its deletion.
DeletedForGood ==
    \A f \in Files : job[f].active ~> [](~Usable(f) /\ object[f] \in {"none", "stray"})

\* Nothing outlives its retention: abandoned intents, failed uploads and files
\* whose deletion failed are all deleted.
RetentionEnds == \A f \in Files : Exists(f) ~> row[f].gone \/ row[f].status = "deleted"
=============================================================================

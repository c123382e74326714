---------------------------- MODULE UploadQueue ----------------------------
(***************************************************************************)
(* The browser's attachment uploads (uploads/attachmentUploadQueue.ts,     *)
(* store/attachmentUploadStore.ts) against the server of module Files.     *)
(*                                                                         *)
(* JavaScript runs one continuation at a time: an action is what happens   *)
(* between two awaits.  A caller is one chain of awaits: a transfer slot   *)
(* of the queue, or a hand of the user (begin, retry).                     *)
(***************************************************************************)
EXTENDS Files, Sequences, SequencesExt

CONSTANTS Tasks,      \* client ids
          Slots,      \* DEFAULT_MAX_CONCURRENCY transfers at a time
          MaxPolls,   \* the length of DEFAULT_POLL_DELAYS_MS
          Failures    \* of {"network"}

Hands == Callers \ Slots
None == "none"

ASSUME QueueAssumption ==
    /\ Slots \subseteq Callers /\ IsFiniteSet(Slots)
    /\ MaxPolls \in Nat \ {0}
    /\ None \notin Files

VARIABLES task,        \* the upload store
          pending,     \* pendingTransfers
          authorized,  \* uploadAuthorizations: the file a task may post
          controller,  \* activeControllers: the slot that posts for a task
          polling,     \* pollingTasks
          flow,        \* where each chain of awaits is
          sent,        \* files whose POST was begun
          discards,    \* deletions under way that nobody waits for
          asked,       \* a prompt is sent, and its answer has not begun
          doubled,     \* history: tasks retried while something still worked on them
          left         \* history: files sent with a prompt, cleared with it, whose
                       \* call failed, or that a doubled task lost

queueVars == <<task, pending, authorized, controller, polling, flow, sent, discards,
               asked, doubled, left>>
vars == <<fileVars, queueVars>>

Away == [at |-> "away"]
Missing == [state |-> "missing", file |-> None, stage |-> ""]

Init ==
    /\ FilesInit
    /\ task = [t \in Tasks |-> Missing]
    /\ pending = <<>>
    /\ authorized = [t \in Tasks |-> None]
    /\ controller = [t \in Tasks |-> None]
    /\ polling = {}
    /\ flow = [c \in Callers |-> Away]
    /\ sent = {}
    /\ discards = {}
    /\ asked = FALSE
    /\ doubled = {}
    /\ left = {}

\* Hands, client ids and new files are names: the next one is taken.
Fresh(x, S) == x \in S /\ x = CHOOSE y \in S : TRUE

Listed(t) == task[t].state \notin {"missing", "removed"}
Active == {s \in Slots : flow[s].at # "away"}

Awaiting(at, t, f, attempt) ==
    [at |-> at, task |-> t, file |-> f, attempt |-> attempt, aborted |-> FALSE]

\* failTask; a completion that found a mismatch needs a fresh intent.
Failed(f, stage) == [state |-> "failed", file |-> f, stage |-> stage]

\* pendingTransfers.filter: SelectSeq(q, LAMBDA u : u # t), in a form to reason
\* about.
Without(q, t) ==
    LET kept     == {i \in DOMAIN q : q[i] # t}
        place(i) == Cardinality({k \in kept : k <= i})
    IN  [j \in 1 .. Cardinality(kept) |-> q[CHOOSE i \in kept : place(i) = j]]

\* drainTransfers, after a step that leaves the tasks `tasks', the pending
\* transfers q, the two maps auth and control and the flows base: one entry for
\* each free slot leaves the queue, passing over those without a task or an
\* authorization.  A transfer begins with the authorization it finds; the last
\* one of a task has its controller.
Drain(q, tasks, auth, control, base) ==
    LET free     == {s \in Slots : base[s].at = "away"}
        due(m)   == {i \in 1 .. m : tasks[q[i]].state \notin {"missing", "removed"} /\ auth[q[i]] # None}
        entry(t) == {i \in DOMAIN q : q[i] = t}
    IN \E m \in 0 .. Len(q) :
         /\ m = Len(q) \/ Cardinality(due(m)) = Cardinality(free)
         /\ \A k \in 0 .. m - 1 : Cardinality(due(k)) < Cardinality(free)
         /\ \E S \in SUBSET free : \E place \in Bijection(S, due(m)) :
               /\ flow' = [c \in Callers |->
                     IF c \in S THEN Awaiting("posting", q[place[c]], auth[q[place[c]]], 0)
                     ELSE base[c]]
               /\ controller' = [t \in Tasks |->
                     IF due(m) \cap entry(t) = {} THEN control[t]
                     ELSE CHOOSE s \in S : place[s] = Max(due(m) \cap entry(t))]
         /\ pending' = SubSeq(q, m + 1, Len(q))
         /\ sent' = sent \cup {auth[q[i]] : i \in due(m)}
         /\ task' = [t \in Tasks |->
               IF due(m) \cap entry(t) = {} THEN tasks[t]
               ELSE [tasks[t] EXCEPT !.state = "uploading", !.stage = ""]]
         /\ authorized' = auth

Quiet == UNCHANGED <<row, object, form, job, worker, torn>>

\* The answer of the awaited call, or an error instead of it.
Hears(c, a) ==
    \/ call[c].at = "answered" /\ a = call[c].with
    \/ "network" \in Failures /\ call[c].at \in {"idle", "answered"} /\ a = "error"
Heeds(c) == call' = [call EXCEPT ![c] = Idle]

\* The file that task t loses when it is given f, or none: another chain of
\* awaits, of the first retry or the second, had left it there.
Overwritten(t, f) == IF t \in doubled THEN {task[t].file} \ {None, f} ELSE {}

\* A flow that ends: a slot that becomes free drains the queue.
Ends(c, tasks) == Drain(pending, tasks, authorized, controller, [flow EXCEPT ![c] = Away])

----------------------------------------------------------------------------
(* The user *)

\* Bound: the user begins and retries only while there is a file for it.
FileLeft == \E f \in Files : ~Exists(f)

Begin(h, t) ==
    /\ Fresh(h, {g \in Hands : flow[g] = Away})
    /\ Fresh(t, {u \in Tasks : task[u] = Missing})
    /\ FileLeft
    /\ task' = [task EXCEPT ![t] = [state |-> "authorizing", file |-> None, stage |-> ""]]
    /\ flow' = [flow EXCEPT ![h] = Awaiting("authorizing", t, None, 0)]
    /\ UNCHANGED <<fileVars, pending, authorized, controller, polling, sent, discards,
                   asked, doubled, left>>

\* The task stays failed while the deletion of its old file is awaited, and may
\* be retried once more.
Busy(t) == \E c \in Callers : flow[c].at # "away" /\ flow[c].task = t

\* abort() of the controllers of T; the transfers notice it later.
Aborted(T, base) ==
    [c \in Callers |->
        IF base[c].at = "posting" /\ \E t \in T : controller[t] = c
        THEN [base[c] EXCEPT !.aborted = TRUE]
        ELSE base[c]]

Retry(h, t) ==
    /\ Fresh(h, {g \in Hands : flow[g] = Away})
    /\ task[t].state = "failed" /\ FileLeft
    /\ doubled' = IF Busy(t) THEN doubled \cup {t} ELSE doubled
    /\ IF task[t].stage = "completion" /\ task[t].file # None
       THEN /\ task' = [task EXCEPT ![t].state = "processing", ![t].stage = ""]
            /\ flow' = [flow EXCEPT ![h] = Awaiting("completing", t, task[t].file, 0)]
            /\ UNCHANGED <<pending, authorized>>
       ELSE /\ pending' = Without(pending, t)
            /\ authorized' = [authorized EXCEPT ![t] = None]
            /\ IF task[t].file # None
               THEN /\ flow' = [Aborted({t}, flow) EXCEPT ![h] = Awaiting("replacing", t, task[t].file, 0)]
                    /\ UNCHANGED task
               ELSE /\ flow' = [Aborted({t}, flow) EXCEPT ![h] = Awaiting("authorizing", t, None, 0)]
                    /\ task' = [task EXCEPT ![t].state = "authorizing", ![t].stage = ""]
    /\ UNCHANGED <<fileVars, controller, polling, sent, discards, asked, left>>

\* The old file is deleted, or the attempt failed: a fresh start.
Replaced(h) ==
    LET t == flow[h].task
        f == flow[h].file
    IN /\ flow[h].at = "replacing"
       /\ \E a \in {"deleting", "deleted", "error"} :
             /\ Hears(h, a)
             /\ left' = left \cup (IF a = "error" THEN {f} ELSE {})
                             \cup (IF Listed(t) THEN Overwritten(t, f) ELSE {})
       /\ Heeds(h)
       /\ IF Listed(t)
          THEN /\ task' = [task EXCEPT ![t] = [state |-> "authorizing", file |-> None, stage |-> ""]]
               /\ flow' = [flow EXCEPT ![h] = Awaiting("authorizing", t, None, 0)]
          ELSE flow' = [flow EXCEPT ![h] = Away] /\ UNCHANGED task
       /\ Quiet
       /\ UNCHANGED <<pending, authorized, controller, polling, sent, discards, asked, doubled>>

\* removeAttachmentUpload, or clearAttachmentUploads when a new chat begins.
RemoveTask(t) ==
    /\ Listed(t)
    /\ task' = [task EXCEPT ![t] = [Missing EXCEPT !.state = "removed"]]
    /\ pending' = Without(pending, t)
    /\ authorized' = [authorized EXCEPT ![t] = None]
    /\ controller' = [controller EXCEPT ![t] = None]
    /\ polling' = polling \ {t}
    /\ flow' = Aborted({t}, flow)
    /\ discards' = discards \cup ({task[t].file} \ {None})
    /\ UNCHANGED <<fileVars, sent, asked, doubled, left>>

\* delete_user_file; a request that is lost is one that never arrives.
Discard(f) ==
    /\ f \in discards
    /\ discards' = discards \ {f}
    /\ IF row[f].status \in {"deleting", "deleted"} THEN UNCHANGED <<row, job>>
       ELSE SetStatus(f, "deleting") /\ Enqueue(f)
    /\ UNCHANGED <<object, form, call, worker, torn, task, pending, authorized, controller,
                   polling, flow, sent, asked, doubled, left>>

FilesOf(T) == {task[t].file : t \in T} \ {None}

\* A prompt is sent with the files of the ready tasks: attachmentUploadsBlockSubmission.
Submit ==
    /\ ~asked
    /\ \E t \in Tasks : Listed(t)
    /\ \A t \in Tasks : Listed(t) => task[t].state = "ready"
    /\ asked' = TRUE
    /\ left' = left \cup FilesOf({t \in Tasks : Listed(t)})
    /\ UNCHANGED <<fileVars, task, pending, authorized, controller, polling, flow, sent,
                   discards, doubled>>

\* deferredComposerClear: the first chunk of the answer clears every upload, those
\* attached meanwhile too, and deletes none of their files.
FirstChunk ==
    /\ asked
    /\ asked' = FALSE
    /\ task' = [t \in Tasks |-> IF Listed(t) THEN [Missing EXCEPT !.state = "removed"] ELSE task[t]]
    /\ pending' = <<>>
    /\ authorized' = [t \in Tasks |-> None]
    /\ controller' = [t \in Tasks |-> None]
    /\ polling' = {}
    /\ flow' = Aborted(Tasks, flow)
    /\ left' = left \cup FilesOf({t \in Tasks : Listed(t)})
    /\ UNCHANGED <<fileVars, sent, discards, doubled>>

\* The answer ends without a chunk, and the composer keeps what it has.
NoChunk ==
    /\ asked
    /\ asked' = FALSE
    /\ UNCHANGED <<fileVars, task, pending, authorized, controller, polling, flow, sent,
                   discards, doubled, left>>

\* Mutant: the intent of a removed task is left alone.
TooLate_Left(f) == discards
\* A task removed while its intent was made: the file is deleted.
TooLate(f) == discards \cup {f}

\* The server refuses an intent, a file over the limits of the plan.  Bound: only
\* when the files have run out.
Refused(h) == call[h].at = "idle" /\ ~FileLeft

Authorized(h) ==
    LET t == flow[h].task
        f == call[h].file
    IN /\ flow[h].at = "authorizing"
       /\ \/ /\ Hears(h, "error") \/ Refused(h)
             /\ Heeds(h)
             /\ Ends(h, IF Listed(t) THEN [task EXCEPT ![t] = Failed(@.file, "authorization")] ELSE task)
             /\ left' = IF call[h].at = "answered" THEN left \cup {f} ELSE left
             /\ UNCHANGED discards
          \/ /\ call[h].at = "answered" /\ Heeds(h)
             /\ left' = left \cup (IF Listed(t) THEN Overwritten(t, f) ELSE {})
             /\ IF Listed(t)
                THEN /\ Drain(Append(pending, t),
                              [task EXCEPT ![t] = [state |-> "authorizing", file |-> f, stage |-> ""]],
                              [authorized EXCEPT ![t] = f], controller,
                              [flow EXCEPT ![h] = Away])
                     /\ UNCHANGED discards
                ELSE /\ Ends(h, task) /\ discards' = TooLate(f)
       /\ Quiet /\ UNCHANGED <<polling, asked, doubled>>

----------------------------------------------------------------------------
(* A transfer: transferDirectFile *)

\* finally: the entries of the task go, whoever made them.
Posted(s, tasks, base) ==
    LET t == flow[s].task
    IN /\ Drain(pending, tasks, [authorized EXCEPT ![t] = None], [controller EXCEPT ![t] = None], base)
       /\ UNCHANGED <<fileVars, polling, discards, asked, doubled, left>>

PostSucceeds(s) ==
    LET t == flow[s].task
    IN /\ flow[s].at = "posting" /\ ~flow[s].aborted
       /\ object[flow[s].file] # "none"
       /\ IF Listed(t)
          THEN Posted(s, [task EXCEPT ![t].state = "processing"],
                      [flow EXCEPT ![s] = IF task[t].file = None THEN Away
                                          ELSE Awaiting("completing", t, task[t].file, 0)])
          ELSE Posted(s, task, [flow EXCEPT ![s] = Away])

\* One more attempt, then the upload has failed.
PostFails(s) ==
    LET t == flow[s].task
    IN /\ flow[s].at = "posting" /\ ~flow[s].aborted
       /\ "network" \in Failures
       /\ IF flow[s].attempt = 0 /\ Listed(t)
          THEN /\ task' = [task EXCEPT ![t].state = "uploading", ![t].stage = ""]
               /\ flow' = [flow EXCEPT ![s].attempt = 1]
               /\ UNCHANGED <<fileVars, pending, authorized, controller, polling, sent, discards,
                              asked, doubled, left>>
          ELSE Posted(s, IF Listed(t) THEN [task EXCEPT ![t] = Failed(@.file, "upload")] ELSE task,
                      [flow EXCEPT ![s] = Away])

\* Mutant: an aborted transfer does not give its slot back.
PostAborted_Kept(s) ==
    /\ flow[s].at = "posting" /\ flow[s].aborted
    /\ Posted(s, task, [flow EXCEPT ![s].at = "kept"])

PostAborted(s) ==
    /\ flow[s].at = "posting" /\ flow[s].aborted
    /\ Posted(s, task, [flow EXCEPT ![s] = Away])

----------------------------------------------------------------------------
(* Completion and polling, by a slot or by a retry *)

\* Mutant: a completed file is taken to be ready.
Shown_Ready(t, f, status) == [state |-> "ready", file |-> f, stage |-> ""]

\* completeAndPoll and pollProcessingFile check only that the task is listed.
Shown(t, f, status) ==
    IF status = "ready" THEN [state |-> "ready", file |-> f, stage |-> ""]
    ELSE IF status = "failed" THEN Failed(f, "processing")
    ELSE [state |-> "processing", file |-> f, stage |-> ""]

Stage(a) ==
    IF a = "expired" THEN "authorization"
    ELSE IF a = "mismatch" THEN "mismatch" ELSE "completion"

Completed(c) ==
    LET t == flow[c].task
        f == flow[c].file
    IN /\ flow[c].at = "completing"
       /\ \E a \in Results \cup {"not_complete", "invalid_state", "expired", "mismatch", "error"} :
             /\ Hears(c, a) /\ Heeds(c)
             /\ left' = left \cup (IF a \in Results /\ Listed(t) THEN Overwritten(t, f) ELSE {})
             /\ IF a \in {"not_complete", "error"} /\ flow[c].attempt = 0
                THEN /\ flow' = [flow EXCEPT ![c].attempt = 1]
                     /\ UNCHANGED <<task, pending, authorized, controller, polling, sent>>
                ELSE IF a = "processing" /\ Listed(t) /\ t \notin polling
                THEN /\ task' = [task EXCEPT ![t] = Shown(t, f, a)]
                     /\ polling' = polling \cup {t}
                     /\ flow' = [flow EXCEPT ![c] = Awaiting("waiting", t, None, 0)]
                     /\ UNCHANGED <<pending, authorized, controller, sent>>
                ELSE /\ Ends(c, IF ~Listed(t) THEN task
                                ELSE IF a \in Results THEN [task EXCEPT ![t] = Shown(t, f, a)]
                                ELSE [task EXCEPT ![t] = Failed(@.file, Stage(a))])
                     /\ UNCHANGED polling
       /\ Quiet /\ UNCHANGED <<discards, asked, doubled>>

\* The delay is over.
Poll(c) ==
    LET t == flow[c].task
    IN /\ flow[c].at = "waiting"
       /\ IF Listed(t) /\ task[t].file # None /\ task[t].state = "processing"
          THEN /\ flow' = [flow EXCEPT ![c].at = "fetching", ![c].file = task[t].file]
               /\ UNCHANGED <<task, pending, authorized, controller, polling, sent>>
          ELSE Ends(c, task) /\ polling' = polling \ {t}
       /\ UNCHANGED <<fileVars, discards, asked, doubled, left>>

\* An error ends the polling without a word.
Fetched(c) ==
    LET t == flow[c].task
        polls == flow[c].attempt + 1
    IN /\ flow[c].at = "fetching"
       /\ \E a \in {"uploading", "expired", "deleting", "deleted", "not_found", "error"} \cup Results :
             /\ Hears(c, a) /\ Heeds(c)
             /\ IF a \in {"ready", "failed"}
                THEN /\ Ends(c, IF Listed(t) THEN [task EXCEPT ![t] = Shown(t, task[t].file, a)] ELSE task)
                     /\ polling' = polling \ {t}
                ELSE IF a \in {"error", "not_found"} \/ polls = MaxPolls
                THEN Ends(c, task) /\ polling' = polling \ {t}
                ELSE /\ flow' = [flow EXCEPT ![c] = Awaiting("waiting", t, None, polls)]
                     /\ UNCHANGED <<task, pending, authorized, controller, polling, sent>>
       /\ Quiet /\ UNCHANGED <<discards, asked, doubled, left>>

----------------------------------------------------------------------------
(* The server's side of the awaited calls *)

\* get_user_file finds no row without a deletion date: 404.
GetNothing(c, f) ==
    /\ call[c].at = "idle" /\ Exists(f) /\ row[f].gone
    /\ Answer(c, f, "not_found")
    /\ Quiet

Serve(c) ==
    /\ \/ flow[c].at = "authorizing" /\ \E f \in Files : Fresh(f, {g \in Files : ~Exists(g)}) /\ CreateIntent(c, f)
       \/ flow[c].at = "completing" /\ CompleteRead(c, flow[c].file)
       \/ flow[c].at = "fetching" /\ (GetRead(c, flow[c].file) \/ GetNothing(c, flow[c].file))
       \/ flow[c].at = "replacing" /\ DeleteRead(c, flow[c].file)
       \/ CallStep(c)
    /\ UNCHANGED queueVars

Browse(c) ==
    \/ Replaced(c) \/ Authorized(c)
    \/ PostSucceeds(c) \/ PostFails(c) \/ PostAborted(c)
    \/ Completed(c) \/ Poll(c) \/ Fetched(c)

Arrives(f) == f \in sent /\ Post(f) /\ UNCHANGED queueVars
QueueNext ==
    \/ \E h \in Hands, t \in Tasks : Begin(h, t) \/ Retry(h, t)
    \/ \E t \in Tasks : RemoveTask(t)
    \/ Submit \/ FirstChunk \/ NoChunk
    \/ \E c \in Callers : Serve(c) \/ Browse(c)
    \/ \E f \in Files : Arrives(f) \/ Discard(f)

QueueSpec == Init /\ [][QueueNext]_vars

QueueFairness ==
    /\ \A c \in Callers : WF_vars(Serve(c) \/ Browse(c))
    /\ WF_vars(\E f \in Files : Arrives(f))

QueueFairSpec == QueueSpec /\ QueueFairness

----------------------------------------------------------------------------
\* The user is shown a file as ready only if requests accept it, or it is being
\* deleted or has expired since.  Not so for a task retried twice at once: the
\* polling of one file may end with the other one shown.
ReadyIsReady ==
    \A t \in Tasks :
        task[t].state = "ready" /\ t \notin doubled =>
            \/ Usable(task[t].file)
            \/ row[task[t].file].gone \/ row[task[t].file].status \in {"expired", "deleting"}

\* No upload is forgotten: a file that counts against the user's storage belongs to
\* a task or is about to be deleted, however uploads are retried and removed while
\* their calls are under way.  Kept unless it was sent or cleared with a prompt, a
\* call failed, or its task was retried twice at once and lost it to the other one.
Counted == {"uploading", "failed"} \cup Results
NothingForgotten ==
    \A f \in Files :
        row[f].status \in Counted =>
            \/ f \in discards \cup left
            \/ job[f].active
            \/ \E t \in Tasks : task[t].file = f
            \/ \E c \in Callers : flow[c].at = "authorizing" /\ call[c].at = "answered" /\ call[c].file = f

\* A task that authorizes or uploads comes to an end or is removed, whatever
\* happens to the other tasks: transfers give their slots back.  A task retried
\* twice at once may hang: one transfer drops the authorization of the other.
UploadsEnd ==
    \A t \in Tasks : []<>(task[t].state \notin {"authorizing", "uploading"} \/ t \in doubled)
=============================================================================

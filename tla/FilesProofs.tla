----------------------------- MODULE FilesProofs -----------------------------
(***************************************************************************)
(* Files that requests accept are stored, for any number of files, route   *)
(* handlers, cleanup workers and attempts, whichever disturbances happen.  *)
(* The rows are read in one step and written in a later one: what holds of *)
(* a file has to hold of what every handler remembers of it.               *)
(*                                                                         *)
(* The second half is about the browser's uploads: what is shown as ready  *)
(* is, and no upload is forgotten, for any number of tasks and transfers.  *)
(***************************************************************************)
EXTENDS UploadQueue, SequenceTheorems, FiniteSetTheorems, WellFoundedInduction, TLAPS

Statuses == {"none", "uploading", "deleting", "deleted", "expired"} \cup Results
Row == [status : Statuses, gone : BOOLEAN, elapsed : BOOLEAN]
Job == [active : BOOLEAN, attempts : 0 .. MaxAttempts - 1]
Objects == {"none", "stored", "mismatched", "stray"}

Places == {"checking", "intent_expired", "mismatch", "verified", "write_failed",
           "write_result", "put", "in_batch", "rollback", "ingested", "delete",
           "answered"}
Words == {"", "invalid_state", "not_complete", "error", "mismatch", "not_found"}
             \cup Statuses
Verdicts == {"verified", "write_result", "ingested"}
CallStates ==
    {Idle} \cup [at : Places \ Verdicts, file : Files, with : Words]
           \cup [at : Verdicts, file : Files, with : Results]

Sweeps == [at : {"sweep"}, file : Files, with : {"", "expired"}]
Listings == [at : {"listed"}, file : Files, with : 0 .. MaxAttempts - 1]
Erasures == [at : {"erase", "erased"}, file : Files, with : 1 .. MaxAttempts]
WorkerStates == {Idle} \cup Sweeps \cup Listings \cup Erasures

Types ==
    /\ TypeOK
    /\ call \in [Callers -> CallStates]
    /\ worker \in [Workers -> WorkerStates]

About(x, f) == x.at # "idle" /\ x.file = f

\* A file without a row is known to nobody but the handler that makes it.
Unknown(f) ==
    row[f].status = "none" =>
        /\ ~row[f].gone /\ ~job[f].active
        /\ \A w \in Workers : ~About(worker[w], f)
        /\ \A c \in Callers : call[c].at \in {"put", "answered"} \/ ~About(call[c], f)

\* One handler at a time puts a file, and its object stays until the commit.
Puts(x, f) == x.at = "put" /\ x.file = f
PutAlone(f) ==
    \A c \in Callers : Puts(call[c], f) =>
        /\ row[f].status = "none" /\ object[f] = "stored"
        /\ \A d \in Callers : Puts(call[d], f) => d = c

\* What a handler has found ready, and may write to the row later, was stored:
\* its object is only gone with the row, or in the hands of the worker that
\* marks the row next.
SaysReady(x, f) ==
    x.at \in Verdicts /\ x.file = f /\ x.with = "ready"
FoundReady(f) == row[f].status = "ready" \/ \E c \in Callers : SaysReady(call[c], f)
ErasedBy(w, f) == worker[w].at = "erased" /\ worker[w].file = f
Kept(f) ==
    f \notin torn /\ FoundReady(f) =>
        object[f] # "none" \/ row[f].gone \/ \E w \in Workers : ErasedBy(w, f)

\* The inductive invariant.
FilesInv == Types /\ \A f \in Files : Unknown(f) /\ PutAlone(f) /\ Kept(f)

-----------------------------------------------------------------------------
\* Nothing that is said of file g changes.
Same(g) ==
    /\ row'[g] = row[g] /\ object'[g] = object[g] /\ job'[g] = job[g]
    /\ g \in torn <=> g \in torn'
    /\ \A c \in Callers : call'[c] = call[c] \/ (~About(call[c], g) /\ ~About(call'[c], g))
    /\ \A w \in Workers : worker'[w] = worker[w] \/ (~About(worker[w], g) /\ ~About(worker'[w], g))

LEMMA Elsewhere ==
    ASSUME NEW g \in Files, Unknown(g), PutAlone(g), Kept(g), Same(g)
    PROVE  Unknown(g)' /\ PutAlone(g)' /\ Kept(g)'
<1>1. Unknown(g)'  BY DEF Unknown, Same
<1>2. PutAlone(g)'
  <2>1. \A c \in Callers : Puts(call'[c], g) <=> Puts(call[c], g)
    BY DEF Same, About, Puts
  <2> QED  BY <2>1 DEF PutAlone, Same
<1>3. Kept(g)'
  <2>1. \A c \in Callers : SaysReady(call'[c], g) <=> SaysReady(call[c], g)
    BY DEF Same, About, SaysReady, Verdicts
  <2>2. \A w \in Workers : ErasedBy(w, g)' <=> ErasedBy(w, g)
    BY DEF Same, About, ErasedBy
  <2>3. FoundReady(g)' <=> FoundReady(g)
    BY <2>1 DEF FoundReady, Same
  <2> QED  BY <2>2, <2>3 DEF Kept, Same
<1> QED  BY <1>1, <1>2, <1>3

\* A handler's step: its file f gets the row r, the object o and the job j, and
\* the handler goes to x.
CallerStep(c, f, r, o, j, x) ==
    /\ r \in Row /\ o \in Objects /\ j \in Job /\ x \in CallStates
    /\ row' = [row EXCEPT ![f] = r] /\ object' = [object EXCEPT ![f] = o]
    /\ job' = [job EXCEPT ![f] = j] /\ call' = [call EXCEPT ![c] = x]
    /\ form' \in [Files -> BOOLEAN] /\ worker' = worker
    /\ torn' = torn \/ torn' = torn \cup {f}
    /\ call[c].at = "idle" \/ call[c].file = f
    /\ x.at = "idle" \/ x.file = f
    /\ r.gone = row[f].gone
    /\ r.status = "none" =>
          row[f].status = "none" /\ ~j.active /\ x.at \in {"idle", "put", "answered"}
    /\ x.at = "put" \/ r.status # "none" \/ o # "stored" =>
          \A d \in Callers \ {c} : ~Puts(call[d], f)
    /\ x.at = "put" => r.status = "none" /\ o = "stored"
    /\ \/ o # "none" \/ f \in torn'
       \/ (r.status = "ready" \/ SaysReady(x, f) => FoundReady(f))
          /\ (o = object[f] \/ ~FoundReady(f))

LEMMA CallerMoves ==
    ASSUME FilesInv, NEW c \in Callers, NEW f \in Files, NEW r, NEW o, NEW j, NEW x,
           CallerStep(c, f, r, o, j, x)
    PROVE  FilesInv'
<1> USE DEF CallerStep
<1>1. Types /\ Types'
  BY DEF FilesInv, Types, TypeOK, Row, Job, Objects, Statuses
<1>2. /\ row'[f] = r /\ object'[f] = o /\ job'[f] = j /\ call'[c] = x
      /\ \A d \in Callers \ {c} : call'[d] = call[d]
  BY <1>1 DEF Types, TypeOK
<1>3. ASSUME NEW g \in Files, g # f PROVE Unknown(g)' /\ PutAlone(g)' /\ Kept(g)'
  <2>1. \A d \in Callers : d # c => call'[d] = call[d]  BY <1>2
  <2>2. ~About(call[c], g) /\ ~About(call'[c], g)  BY <1>2, <1>3 DEF About
  <2>3. row'[g] = row[g] /\ object'[g] = object[g] /\ job'[g] = job[g]
    BY <1>1, <1>3 DEF Types, TypeOK
  <2>4. Same(g)  BY <1>3, <2>1, <2>2, <2>3 DEF Same
  <2> QED  BY <2>4, Elsewhere DEF FilesInv
<1>4. Unknown(f) /\ PutAlone(f) /\ Kept(f)  BY DEF FilesInv
<1>5. Unknown(f)'
  <2> SUFFICES ASSUME r.status = "none"
               PROVE  /\ ~r.gone /\ ~j.active
                      /\ \A w \in Workers : ~About(worker[w], f)
                      /\ \A d \in Callers : call'[d].at \in {"put", "answered"} \/ ~About(call'[d], f)
    BY <1>2 DEF Unknown
  <2>1. x.at \in {"put", "answered"} \/ ~About(x, f)  BY DEF About
  <2> QED  BY <1>2, <1>4, <2>1 DEF Unknown
<1>6. PutAlone(f)'
  <2> SUFFICES ASSUME NEW d \in Callers, Puts(call'[d], f)
               PROVE  /\ r.status = "none" /\ o = "stored"
                      /\ \A e \in Callers : Puts(call'[e], f) => e = d
    BY <1>2 DEF PutAlone
  <2>1. CASE d = c
    BY <1>2, <2>1 DEF Puts
  <2>2. CASE d # c
    <3>1. Puts(call[d], f)  BY <1>2, <2>2
    <3>2. r.status = "none" /\ o = "stored" /\ x.at # "put"  BY <2>2, <3>1
    <3>3. ~Puts(call'[c], f)  BY <1>2, <3>2 DEF Puts
    <3> QED  BY <1>2, <1>4, <3>1, <3>2, <3>3 DEF PutAlone
  <2> QED  BY <2>1, <2>2
<1>7. Kept(f)'
  <2> SUFFICES ASSUME f \notin torn', FoundReady(f)', o = "none", ~r.gone
               PROVE  \E w \in Workers : ErasedBy(w, f)
    BY <1>2 DEF Kept, ErasedBy
  <2>1. r.status = "ready" \/ SaysReady(x, f) => FoundReady(f)  OBVIOUS
  <2>2. FoundReady(f)
    BY <1>2, <2>1 DEF FoundReady
  <2>3. o = object[f] /\ f \notin torn  BY <2>2
  <2> QED  BY <1>4, <2>2, <2>3 DEF Kept
<1> QED  BY <1>1, <1>3, <1>5, <1>6, <1>7 DEF FilesInv

\* A worker's step: its file f, which has a row, gets the row r, the object o and
\* the job j, and the worker goes to y.
WorkerMove(w, f, r, o, j, y) ==
    /\ r \in Row /\ o \in Objects /\ j \in Job /\ y \in WorkerStates
    /\ row' = [row EXCEPT ![f] = r] /\ object' = [object EXCEPT ![f] = o]
    /\ job' = [job EXCEPT ![f] = j] /\ worker' = [worker EXCEPT ![w] = y]
    /\ form' = form /\ call' = call
    /\ torn' = torn \/ torn' = torn \cup {f}
    /\ worker[w].at = "idle" \/ worker[w].file = f
    /\ y.at = "idle" \/ y.file = f
    /\ row[f].status # "none" /\ r.status # "none"
    /\ r.status = "ready" => row[f].status = "ready"
    /\ \/ f \in torn' \/ (y.at = "erased" /\ y.file = f) \/ r.gone
       \/ o = object[f] /\ r.gone = row[f].gone /\ ~ErasedBy(w, f)

LEMMA WorkerMoves ==
    ASSUME FilesInv, NEW w \in Workers, NEW f \in Files, NEW r, NEW o, NEW j, NEW y,
           WorkerMove(w, f, r, o, j, y)
    PROVE  FilesInv'
<1> USE DEF WorkerMove
<1>1. Types /\ Types'
  BY DEF FilesInv, Types, TypeOK, Row, Job, Objects, Statuses
<1>2. /\ row'[f] = r /\ object'[f] = o /\ job'[f] = j /\ worker'[w] = y
      /\ \A v \in Workers \ {w} : worker'[v] = worker[v]
  BY <1>1 DEF Types, TypeOK
<1>3. ASSUME NEW g \in Files, g # f PROVE Unknown(g)' /\ PutAlone(g)' /\ Kept(g)'
  <2>1. ~About(worker[w], g) /\ ~About(worker'[w], g)  BY <1>2, <1>3 DEF About
  <2>2. row'[g] = row[g] /\ object'[g] = object[g] /\ job'[g] = job[g]
    BY <1>1, <1>3 DEF Types, TypeOK
  <2>3. Same(g)  BY <1>2, <1>3, <2>1, <2>2 DEF Same
  <2> QED  BY <2>3, Elsewhere DEF FilesInv
<1>4. Unknown(f) /\ PutAlone(f) /\ Kept(f)  BY DEF FilesInv
<1>5. Unknown(f)'  BY <1>2 DEF Unknown
<1>6. PutAlone(f)'  BY <1>4 DEF PutAlone
<1>7. Kept(f)'
  <2> SUFFICES ASSUME f \notin torn', FoundReady(f)', o = "none", ~r.gone
               PROVE  \E v \in Workers : ErasedBy(v, f)'
    BY <1>2 DEF Kept
  <2>1. FoundReady(f)  BY <1>2 DEF FoundReady
  <2>2. CASE y.at = "erased" /\ y.file = f  BY <1>2, <2>2 DEF ErasedBy
  <2>3. CASE o = object[f] /\ r.gone = row[f].gone /\ ~ErasedBy(w, f)
    <3>1. PICK v \in Workers : ErasedBy(v, f)  BY <1>4, <2>1, <2>3 DEF Kept
    <3>2. v # w  BY <2>3, <3>1
    <3> QED  BY <1>2, <3>1, <3>2 DEF ErasedBy
  <2> QED  BY <2>2, <2>3
<1> QED  BY <1>1, <1>3, <1>5, <1>6, <1>7 DEF FilesInv

-----------------------------------------------------------------------------
\* What a handler works on has a row.
LEMMA WorkedOnIsKnown ==
    ASSUME FilesInv, NEW f \in Files
    PROVE  /\ \A c \in Callers : About(call[c], f) /\ call[c].at \notin {"put", "answered"}
                                     => row[f].status # "none"
           /\ \A w \in Workers : About(worker[w], f) => row[f].status # "none"
           /\ row[f].gone \/ job[f].active => row[f].status # "none"
           /\ row[f].status # "none" => \A c \in Callers : ~Puts(call[c], f)
<1>1. Unknown(f) /\ PutAlone(f) /\ Types  BY DEF FilesInv
<1> QED  BY <1>1 DEF Unknown, PutAlone

LEMMA StatesAreTyped ==
    ASSUME FilesInv
    PROVE  /\ \A f \in Files : row[f] \in Row /\ object[f] \in Objects /\ job[f] \in Job
           /\ \A c \in Callers : call[c] \in CallStates
           /\ \A w \in Workers : worker[w] \in WorkerStates
           /\ \A c \in Callers : call[c].at # "idle" => call[c].file \in Files
           /\ \A w \in Workers : worker[w].at # "idle" => worker[w].file \in Files
           /\ row \in [Files -> Row] /\ object \in [Files -> Objects] /\ job \in [Files -> Job]
           /\ torn \subseteq Files /\ form \in [Files -> BOOLEAN]
<1>1. Types  BY DEF FilesInv
<1>2. /\ row \in [Files -> Row] /\ object \in [Files -> Objects] /\ job \in [Files -> Job]
      /\ torn \subseteq Files /\ form \in [Files -> BOOLEAN]
  BY <1>1 DEF Types, TypeOK, Row, Objects, Job, Statuses
<1>3. /\ \A c \in Callers : call[c] \in CallStates
      /\ \A w \in Workers : worker[w] \in WorkerStates
  BY <1>1 DEF Types
<1>4. ASSUME NEW x \in CallStates \cup WorkerStates PROVE x.at # "idle" => x.file \in Files
  <2>1. CASE x = Idle  BY <2>1 DEF Idle
  <2>2. CASE x # Idle  BY <2>2 DEF CallStates, WorkerStates, Sweeps, Listings, Erasures
  <2> QED  BY <2>1, <2>2
<1>5. /\ \A c \in Callers : call[c].at # "idle" => call[c].file \in Files
      /\ \A w \in Workers : worker[w].at # "idle" => worker[w].file \in Files
  BY <1>3, <1>4
<1> QED  BY <1>2, <1>3, <1>4, <1>5

\* A handler that only reads: what it says is ready was found so, or is stored.
LEMMA CallerGoes ==
    ASSUME FilesInv, NEW c \in Callers, NEW f \in Files, NEW x \in CallStates,
           call' = [call EXCEPT ![c] = x],
           UNCHANGED <<row, object, form, job, worker, torn>>,
           call[c].at = "idle" \/ call[c].file = f,
           x.at = "idle" \/ x.file = f, x.at # "put",
           row[f].status # "none",
           SaysReady(x, f) => FoundReady(f) \/ object[f] # "none"
    PROVE  FilesInv'
<1> DEFINE r == row[f]
           o == object[f]
           j == job[f]
<1>1. r \in Row /\ o \in Objects /\ j \in Job /\ form' \in [Files -> BOOLEAN]
  BY StatesAreTyped
<1>2. row' = [row EXCEPT ![f] = r] /\ object' = [object EXCEPT ![f] = o]
      /\ job' = [job EXCEPT ![f] = j]
  BY StatesAreTyped
<1>3. \A d \in Callers : ~Puts(call[d], f)  BY WorkedOnIsKnown
<1>4. r.status = "ready" => FoundReady(f)  BY DEF FoundReady
<1> HIDE DEF r
<1>5. r.gone = row[f].gone /\ r.status # "none"  BY DEF r
<1>6. \/ o # "none"
      \/ (r.status = "ready" \/ SaysReady(x, f) => FoundReady(f)) /\ o = object[f]
  BY <1>4
<1>7. worker' = worker /\ torn' = torn  OBVIOUS
<1> HIDE DEF o, j
<1>8. CallerStep(c, f, r, o, j, x)
  BY <1>1, <1>2, <1>3, <1>5, <1>6, <1>7 DEF CallerStep
<1> QED  BY <1>8, CallerMoves

\* A handler that writes the row of a file that has one, and a job perhaps: it
\* writes ready only what was found ready.
LEMMA CallerWrites ==
    ASSUME FilesInv, NEW c \in Callers, NEW f \in Files, NEW x \in CallStates,
           NEW r \in Row, NEW j \in Job,
           row' = [row EXCEPT ![f] = r], job' = [job EXCEPT ![f] = j],
           call' = [call EXCEPT ![c] = x],
           UNCHANGED <<object, form, worker, torn>>,
           call[c].at = "idle" \/ call[c].file = f,
           x.at \in {"idle", "answered"}, x.at = "idle" \/ x.file = f,
           row[f].status # "none", r.status # "none", r.gone = row[f].gone,
           r.status = "ready" => FoundReady(f)
    PROVE  FilesInv'
<1> DEFINE o == object[f]
<1>1. o \in Objects /\ form' \in [Files -> BOOLEAN]  BY StatesAreTyped
<1>2. object' = [object EXCEPT ![f] = o]  BY StatesAreTyped
<1>3. \A d \in Callers : ~Puts(call[d], f)  BY WorkedOnIsKnown
<1>4. ~SaysReady(x, f)  BY DEF SaysReady, Verdicts
<1>5. CallerStep(c, f, r, o, j, x)
  BY <1>1, <1>2, <1>3, <1>4 DEF CallerStep
<1> QED  BY <1>5, CallerMoves

\* The states a handler goes to.
LEMMA PlacesAreStates ==
    ASSUME NEW f \in Files, NEW pc \in Places, NEW with \in Words,
           pc \in Verdicts => with \in Results
    PROVE  /\ At(pc, f, with) \in CallStates
           /\ At(pc, f, with).at = pc /\ At(pc, f, with).file = f /\ At(pc, f, with).with = with
BY DEF At, CallStates

LEMMA Answers ==
    ASSUME NEW c \in Callers, NEW f \in Files, NEW with \in Words, Answer(c, f, with)
    PROVE  \E x \in CallStates :
               /\ call' = [call EXCEPT ![c] = x]
               /\ x.at \in {"idle", "answered"} /\ (x.at = "idle" \/ x.file = f)
               /\ ~SaysReady(x, f)
<1> DEFINE x == IF Heard THEN At("answered", f, with) ELSE Idle
<1>1. x \in CallStates /\ x.at \in {"idle", "answered"} /\ (x.at = "idle" \/ x.file = f)
  <2>1. CASE Heard
    <3>1. x = At("answered", f, with)  BY <2>1
    <3>2. /\ At("answered", f, with) \in CallStates
          /\ At("answered", f, with).at = "answered" /\ At("answered", f, with).file = f
      <4>1. "answered" \in Places /\ "answered" \notin Verdicts  BY DEF Places, Verdicts
      <4> QED  BY <4>1, PlacesAreStates
    <3> QED  BY <3>1, <3>2
  <2>2. CASE ~Heard
    <3>1. x = Idle  BY <2>2
    <3>2. Idle \in CallStates /\ Idle.at = "idle"  BY DEF CallStates, Idle
    <3> QED  BY <3>1, <3>2
  <2> QED  BY <2>1, <2>2
<1> HIDE DEF x
<1>2. ~SaysReady(x, f)  BY <1>1 DEF SaysReady, Verdicts
<1>3. call' = [call EXCEPT ![c] = x]  BY DEF Answer, x
<1> QED  BY <1>1, <1>2, <1>3

LEMMA Goes ==
    ASSUME NEW c \in Callers, NEW f \in Files, NEW pc \in Places, NEW with \in Words,
           pc \in Verdicts => with \in Results, Goto(c, pc, f, with)
    PROVE  /\ call' = [call EXCEPT ![c] = At(pc, f, with)]
           /\ At(pc, f, with) \in CallStates
           /\ At(pc, f, with).at = pc /\ At(pc, f, with).file = f /\ At(pc, f, with).with = with
BY PlacesAreStates DEF Goto

\* A handler that answers with what it knows, or goes on to another read.
LEMMA AnswerKeeps ==
    ASSUME FilesInv, NEW c \in Callers, NEW f \in Files, NEW with \in Words,
           Answer(c, f, with), UNCHANGED <<row, object, form, job, worker, torn>>,
           call[c].at = "idle" \/ call[c].file = f, row[f].status # "none"
    PROVE  FilesInv'
<1>1. PICK x \in CallStates :
          /\ call' = [call EXCEPT ![c] = x]
          /\ x.at \in {"idle", "answered"} /\ (x.at = "idle" \/ x.file = f)
          /\ ~SaysReady(x, f)
  BY Answers
<1> QED  BY <1>1, CallerGoes

LEMMA GotoKeeps ==
    ASSUME FilesInv, NEW c \in Callers, NEW f \in Files, NEW pc \in Places, NEW with \in Words,
           pc \in Verdicts => with \in Results, Goto(c, pc, f, with), UNCHANGED <<row, object, form, job, worker, torn>>,
           call[c].at = "idle" \/ call[c].file = f, row[f].status # "none", pc # "put",
           with = "ready" => FoundReady(f) \/ object[f] # "none"
    PROVE  FilesInv'
<1> DEFINE x == At(pc, f, with)
<1>1. /\ x \in CallStates /\ call' = [call EXCEPT ![c] = x]
      /\ x.at = pc /\ x.file = f /\ x.with = with
  BY Goes
<1> HIDE DEF x
<1>2. SaysReady(x, f) => with = "ready"  BY <1>1 DEF SaysReady
<1> QED  BY <1>1, <1>2, CallerGoes

\* A handler that answers with what it has written to the row.
LEMMA WriteKeeps ==
    ASSUME FilesInv, NEW c \in Callers, NEW f \in Files, NEW with \in Words,
           NEW r \in Row, NEW j \in Job,
           Answer(c, f, with), row' = [row EXCEPT ![f] = r], job' = [job EXCEPT ![f] = j],
           UNCHANGED <<object, form, worker, torn>>,
           call[c].at = "idle" \/ call[c].file = f,
           row[f].status # "none", r.status # "none", r.gone = row[f].gone,
           r.status = "ready" => FoundReady(f)
    PROVE  FilesInv'
<1>1. PICK x \in CallStates :
          /\ call' = [call EXCEPT ![c] = x]
          /\ x.at \in {"idle", "answered"} /\ (x.at = "idle" \/ x.file = f)
          /\ ~SaysReady(x, f)
  BY Answers
<1>2. UNCHANGED object /\ UNCHANGED form /\ UNCHANGED worker /\ UNCHANGED torn  OBVIOUS
<1> QED  BY <1>1, <1>2, CallerWrites

LEMMA StatusIsRow ==
    ASSUME FilesInv, NEW f \in Files, NEW s \in Statuses, SetStatus(f, s)
    PROVE  \E r \in Row : /\ row' = [row EXCEPT ![f] = r]
                          /\ r.status = s /\ r.gone = row[f].gone
<1> DEFINE r == [row[f] EXCEPT !.status = s]
<1>1. row[f] \in Row  BY StatesAreTyped
<1>2. r \in Row /\ r.status = s /\ r.gone = row[f].gone  BY <1>1 DEF Row
<1>3. row' = [row EXCEPT ![f] = r]  BY DEF SetStatus
<1> QED  BY <1>2, <1>3

LEMMA EnqueueIsJob ==
    ASSUME FilesInv, NEW f \in Files, Enqueue(f)
    PROVE  \E j \in Job : job' = [job EXCEPT ![f] = j] /\ j.active
<1>1. job[f] \in Job /\ job \in [Files -> Job]  BY StatesAreTyped
<1>2. CASE job[f].active
  <2>1. job' = [job EXCEPT ![f] = job[f]]  BY <1>1, <1>2 DEF Enqueue
  <2> QED  BY <1>1, <1>2, <2>1
<1>3. CASE ~job[f].active
  <2>1. [active |-> TRUE, attempts |-> 0] \in Job  BY FilesAssumption DEF Job
  <2> QED  BY <1>3, <2>1 DEF Enqueue
<1> QED  BY <1>2, <1>3

LEMMA Unwritten ==
    ASSUME FilesInv, NEW f \in Files
    PROVE  /\ row' = row => row' = [row EXCEPT ![f] = row[f]]
           /\ job' = job => job' = [job EXCEPT ![f] = job[f]]
           /\ object' = object => object' = [object EXCEPT ![f] = object[f]]
BY StatesAreTyped

-----------------------------------------------------------------------------
(* The handlers that only read.                                            *)

LEMMA ReadsKeep ==
    ASSUME FilesInv, NEW c \in Callers, NEW f \in Files,
           CompleteRead(c, f) \/ GetRead(c, f) \/ DeleteRead(c, f)
    PROVE  FilesInv'
<1>1. row[f] \in Row /\ call[c].at = "idle"
  BY StatesAreTyped DEF CompleteRead, GetRead, DeleteRead
<1>2. row[f].status # "none" /\ row[f].status \in Statuses
  BY <1>1 DEF CompleteRead, GetRead, DeleteRead, Exists, Visible, Row
<1>3. row[f].status \in Words /\ "" \in Words /\ "invalid_state" \in Words
      /\ "ready" \in Words /\ "failed" \in Words
  BY <1>2 DEF Words, Statuses, Results
<1>4. UNCHANGED <<row, object, form, job, worker, torn>>
  BY DEF CompleteRead, GetRead, DeleteRead
<1>5. ASSUME NEW with \in Words, Answer(c, f, with) PROVE FilesInv'
  BY <1>1, <1>2, <1>4, <1>5, AnswerKeeps
<1>6. CASE CompleteRead(c, f)
  <2>1. CASE row[f].status = "uploading"
    <3> DEFINE pc == IF row[f].elapsed THEN "intent_expired" ELSE "checking"
    <3>1. pc \in Places /\ pc # "put" /\ pc \notin Verdicts  BY DEF Places, Verdicts
    <3>2. Goto(c, pc, f, "")  BY <1>6, <2>1 DEF CompleteRead
    <3> HIDE DEF pc
    <3> QED  BY <1>1, <1>2, <1>3, <1>4, <3>1, <3>2, GotoKeeps
  <2>2. CASE row[f].status # "uploading"
    <3> DEFINE with == IF row[f].status \in {"ready", "processing"}
                       THEN row[f].status ELSE "invalid_state"
    <3>1. with \in Words  BY <1>3
    <3>2. Answer(c, f, with)  BY <1>6, <2>2 DEF CompleteRead
    <3> HIDE DEF with
    <3> QED  BY <1>5, <3>1, <3>2
  <2> QED  BY <2>1, <2>2
<1>7. CASE GetRead(c, f)
  <2>1. CASE row[f].status = "processing"
    <3>1. PICK result \in {"ready", "failed"} :
              /\ result = "ready" => object[f] # "none"
              /\ Goto(c, "ingested", f, result)
      BY <1>7, <2>1 DEF GetRead
    <3>2. "ingested" \in Places /\ result \in Words /\ result \in Results
      BY <1>3 DEF Places, Results
    <3> QED  BY <1>1, <1>2, <1>4, <3>1, <3>2, GotoKeeps
  <2>2. CASE row[f].status # "processing"
    BY <1>3, <1>5, <1>7, <2>2 DEF GetRead
  <2> QED  BY <2>1, <2>2
<1>8. CASE DeleteRead(c, f)
  <2>1. CASE Answer(c, f, row[f].status)  BY <1>3, <1>5, <2>1
  <2>2. CASE Goto(c, "delete", f, "")
    <3>1. "delete" \in Places /\ "delete" \notin Verdicts  BY DEF Places, Verdicts
    <3> QED  BY <1>1, <1>2, <1>3, <1>4, <2>2, <3>1, GotoKeeps
  <2> QED  BY <1>8, <2>1, <2>2 DEF DeleteRead
<1> QED  BY <1>6, <1>7, <1>8

LEMMA ChecksKeep ==
    ASSUME FilesInv, NEW c \in Callers, CompleteCheck(c) \/ CompleteReread(c)
    PROVE  FilesInv'
<1> DEFINE f == call[c].file
<1>1. /\ call[c].at \in {"checking", "mismatch", "verified"} /\ call[c] \in CallStates
      /\ f \in Files /\ About(call[c], f)
  BY StatesAreTyped DEF CompleteCheck, CompleteReread, About
<1>2. row[f].status # "none" /\ row[f] \in Row /\ object[f] \in Objects
  BY <1>1, WorkedOnIsKnown, StatesAreTyped
<1>3. row[f].status \in Words /\ Results \subseteq Words
      /\ {"", "not_complete", "error", "mismatch", "invalid_state"} \subseteq Words
  BY <1>2 DEF Words, Statuses, Row, Results
<1>4. UNCHANGED <<row, object, form, job, worker, torn>>
  BY DEF CompleteCheck, CompleteReread
<1>5. /\ {"mismatch", "verified", "write_failed", "write_result"} \subseteq Places
      /\ "mismatch" \notin Verdicts /\ "write_failed" \notin Verdicts
  BY DEF Places, Verdicts
<1>6. call[c].at = "verified" => call[c].with \in Results
  BY <1>1 DEF CallStates, Idle, Verdicts
<1>7. ASSUME NEW with \in Words, Answer(c, f, with) PROVE FilesInv'
  BY <1>1, <1>2, <1>4, <1>7, AnswerKeeps
<1>8. CASE CompleteCheck(c)
  <2>1. CASE Answer(c, f, "not_complete") \/ Answer(c, f, "error")
    BY <1>3, <1>7, <2>1
  <2>2. CASE Goto(c, "mismatch", f, "")
    BY <1>1, <1>2, <1>3, <1>4, <1>5, <2>2, GotoKeeps
  <2>3. ASSUME object[f] # "none", NEW result \in Results, Goto(c, "verified", f, result)
        PROVE  FilesInv'
    <3>1. result \in Words  BY <1>3
    <3> QED  BY <1>1, <1>2, <1>4, <1>5, <2>3, <3>1, GotoKeeps
  <2> QED  BY <1>8, <2>1, <2>2, <2>3 DEF CompleteCheck
<1>9. CASE CompleteReread(c)
  <2>1. CASE Goto(c, "write_failed", f, "")
    BY <1>1, <1>2, <1>3, <1>4, <1>5, <2>1, GotoKeeps
  <2>2. CASE Answer(c, f, "mismatch")  BY <1>3, <1>7, <2>2
  <2>3. CASE call[c].at = "verified" /\ Goto(c, "write_result", f, call[c].with)
    <3>1. call[c].with = "ready" => FoundReady(f)
      BY <2>3 DEF FoundReady, SaysReady, Verdicts
    <3>2. call[c].with \in Words  BY <1>3, <1>6, <2>3
    <3> QED  BY <1>1, <1>2, <1>4, <1>5, <1>6, <2>3, <3>1, <3>2, GotoKeeps
  <2>4. CASE Answer(c, f, IF row[f].status \in {"ready", "processing"}
                          THEN row[f].status ELSE "invalid_state")
    <3> DEFINE with == IF row[f].status \in {"ready", "processing"}
                       THEN row[f].status ELSE "invalid_state"
    <3>1. with \in Words  BY <1>3
    <3> HIDE DEF with
    <3> QED  BY <1>7, <2>4, <3>1 DEF with
  <2> QED  BY <1>9, <2>1, <2>2, <2>3, <2>4 DEF CompleteReread
<1> QED  BY <1>8, <1>9

-----------------------------------------------------------------------------
(* The handlers that write.                                                *)

\* The handlers that write back what they have read: ready only when it was
\* found so.
LEMMA WritesKeep ==
    ASSUME FilesInv, NEW c \in Callers,
           \/ CompleteExpired(c) \/ CompleteFailed(c) \/ CompleteWrite(c)
           \/ RollbackCommit(c) \/ GetWrite(c) \/ DeleteWrite(c)
    PROVE  FilesInv'
<1> DEFINE f == call[c].file
<1>1. call[c].at \in {"intent_expired", "write_failed", "write_result", "rollback",
                      "ingested", "delete"}
  BY DEF CompleteExpired, CompleteFailed, CompleteWrite, RollbackCommit, GetWrite, DeleteWrite
<1>2. call[c] \in CallStates /\ f \in Files /\ About(call[c], f)
  BY <1>1, StatesAreTyped DEF About
<1>3. row[f].status # "none"  BY <1>1, <1>2, WorkedOnIsKnown
<1>4. call[c].at \in Verdicts => call[c].with \in Results
  BY <1>2 DEF CallStates, Idle, Verdicts
<1>5. job[f] \in Job /\ row[f] \in Row  BY <1>2, StatesAreTyped
<1>6. {"expired", "mismatch", "error", "deleting"} \subseteq Words  BY DEF Words, Statuses
<1>7. ASSUME CompleteExpired(c) \/ DeleteWrite(c) PROVE FilesInv'
  <2>1. PICK s \in {"expired", "deleting"} : SetStatus(f, s) /\ Answer(c, f, s) /\ Enqueue(f)
    BY <1>7 DEF CompleteExpired, DeleteWrite
  <2>2. s \in Statuses /\ s \in Words  BY DEF Statuses, Words
  <2>3. PICK r \in Row : row' = [row EXCEPT ![f] = r] /\ r.status = s /\ r.gone = row[f].gone
    BY <1>2, <2>1, <2>2, StatusIsRow
  <2>4. PICK j \in Job : job' = [job EXCEPT ![f] = j]
    BY <1>2, <2>1, EnqueueIsJob
  <2>5. UNCHANGED <<object, form, worker, torn>>
    BY <1>7 DEF CompleteExpired, DeleteWrite
  <2> QED  BY <1>2, <1>3, <2>1, <2>2, <2>3, <2>4, <2>5, WriteKeeps
<1>8. ASSUME NEW s \in Statuses, NEW with \in Words, SetStatus(f, s), Answer(c, f, with),
             s # "none", s = "ready" => FoundReady(f),
             UNCHANGED <<object, form, job, worker, torn>>
      PROVE  FilesInv'
  <2>1. PICK r \in Row : row' = [row EXCEPT ![f] = r] /\ r.status = s /\ r.gone = row[f].gone
    BY <1>2, <1>8, StatusIsRow
  <2>2. job' = [job EXCEPT ![f] = job[f]]  BY <1>2, <1>8, Unwritten
  <2>3. UNCHANGED <<object, form, worker, torn>>  BY <1>8
  <2> QED  BY <1>2, <1>3, <1>5, <1>8, <2>1, <2>2, <2>3, WriteKeeps
<1>9. CASE CompleteFailed(c)
  <2>1. "failed" \in Statuses  BY DEF Statuses, Results
  <2> QED  BY <1>6, <1>8, <1>9, <2>1 DEF CompleteFailed
<1>10. CASE RollbackCommit(c)
  <2>1. "deleted" \in Statuses  BY DEF Statuses
  <2> QED  BY <1>6, <1>8, <1>10, <2>1 DEF RollbackCommit
<1>11. ASSUME call[c].at \in Verdicts
       PROVE  /\ call[c].with \in Statuses /\ call[c].with # "none" /\ call[c].with \in Words
              /\ call[c].with = "ready" => FoundReady(f)
  BY <1>4, <1>11 DEF Statuses, Results, Words, FoundReady, SaysReady
<1>12. CASE GetWrite(c)
  <2>1. call[c].at \in Verdicts  BY <1>12 DEF GetWrite, Verdicts
  <2> QED  BY <1>8, <1>11, <1>12, <2>1 DEF GetWrite
<1>13. CASE CompleteWrite(c)
  <2>1. call[c].at \in Verdicts  BY <1>13 DEF CompleteWrite, Verdicts
  <2>2. CASE row[f].gone
    <3>1. Answer(c, f, "error") /\ UNCHANGED <<row, object, form, job, worker, torn>>
      BY <1>13, <2>2 DEF CompleteWrite
    <3> QED  BY <1>2, <1>3, <1>6, <3>1, AnswerKeeps
  <2>3. CASE ~row[f].gone
    <3>1. PICK with \in Words : with = call[c].with  BY <1>11, <2>1
    <3> DEFINE q == [row[f] EXCEPT !.status = with, !.elapsed = FALSE]
    <3>2. q \in Row /\ q.status = with /\ q.gone = row[f].gone
      BY <1>5, <1>11, <2>1, <3>1 DEF Row
    <3>3. /\ row' = [row EXCEPT ![f] = q] /\ Answer(c, f, with)
          /\ UNCHANGED <<object, form, worker, torn>> /\ UNCHANGED job
      BY <1>13, <2>3, <3>1 DEF CompleteWrite
    <3> HIDE DEF q
    <3>4. PICK r \in Row : r = q  BY <3>2
    <3>5. /\ row' = [row EXCEPT ![f] = r] /\ r.status # "none" /\ r.gone = row[f].gone
          /\ r.status = "ready" => FoundReady(f)
      BY <1>11, <2>1, <3>1, <3>2, <3>3, <3>4
    <3>6. job' = [job EXCEPT ![f] = job[f]]  BY <1>2, <3>3, Unwritten
    <3> QED  BY <1>2, <1>3, <1>5, <3>3, <3>5, <3>6, WriteKeeps
  <2> QED  BY <2>2, <2>3
<1> QED  BY <1>7, <1>9, <1>10, <1>12, <1>13

\* A row or an object is made, undone or rolled back.
LEMMA MakingKeeps ==
    ASSUME FilesInv, NEW c \in Callers, NEW f \in Files,
           CreateIntent(c, f) \/ UploadPut(c, f)
    PROVE  FilesInv'
<1>1. row[f] \in Row /\ object[f] \in Objects /\ job[f] \in Job /\ call[c].at = "idle"
      /\ row[f].status = "none" /\ object[f] = "none"
  BY StatesAreTyped DEF CreateIntent, UploadPut, Exists
<1>2. ~row[f].gone /\ ~job[f].active
  BY <1>1 DEF FilesInv, Unknown
<1>3. \A d \in Callers : ~Puts(call[d], f)
  BY <1>1 DEF FilesInv, PutAlone
<1>4. ~FoundReady(f)
  <2>1. \A d \in Callers : ~SaysReady(call[d], f)
    BY <1>1 DEF FilesInv, Unknown, SaysReady, About, Verdicts
  <2> QED  BY <1>1, <2>1 DEF FoundReady
<1>5. CASE CreateIntent(c, f)
  <2>1. "uploading" \in Words /\ "uploading" \in Statuses  BY DEF Words, Statuses
  <2>2. PICK x \in CallStates :
          /\ call' = [call EXCEPT ![c] = x]
          /\ x.at \in {"idle", "answered"} /\ (x.at = "idle" \/ x.file = f)
          /\ ~SaysReady(x, f)
    BY <1>5, <2>1, Answers DEF CreateIntent
  <2>3. PICK r \in Row : /\ row' = [row EXCEPT ![f] = r]
                         /\ r.status = "uploading" /\ r.gone = row[f].gone
    BY <1>5, <2>1, StatusIsRow DEF CreateIntent
  <2>4. /\ UNCHANGED object /\ UNCHANGED job /\ UNCHANGED worker /\ UNCHANGED torn
        /\ form' = [form EXCEPT ![f] = TRUE]
    BY <1>5 DEF CreateIntent
  <2>5. job' = [job EXCEPT ![f] = job[f]] /\ object' = [object EXCEPT ![f] = object[f]]
    BY <2>4, Unwritten
  <2>6. form' \in [Files -> BOOLEAN]  BY <2>4, StatesAreTyped
  <2>7. CallerStep(c, f, r, object[f], job[f], x)
    BY <1>1, <1>2, <1>3, <1>4, <2>2, <2>3, <2>4, <2>5, <2>6 DEF CallerStep
  <2> QED  BY <2>7, CallerMoves
<1>6. CASE UploadPut(c, f)
  <2> DEFINE x == At("put", f, "")
  <2>2. /\ x \in CallStates /\ call' = [call EXCEPT ![c] = x]
        /\ x.at = "put" /\ x.file = f /\ x.with = ""
    BY <1>6 DEF UploadPut, Goto, At, CallStates, Places, Verdicts, Words
  <2> HIDE DEF x
  <2>3. /\ UNCHANGED row /\ UNCHANGED job /\ UNCHANGED worker /\ UNCHANGED torn
        /\ UNCHANGED form /\ object' = [object EXCEPT ![f] = "stored"]
    BY <1>6 DEF UploadPut
  <2>4. job' = [job EXCEPT ![f] = job[f]] /\ row' = [row EXCEPT ![f] = row[f]]
    BY <2>3, Unwritten
  <2>5. form' \in [Files -> BOOLEAN]  BY <2>3, StatesAreTyped
  <2>6. "stored" \in Objects  BY DEF Objects
  <2>7. CallerStep(c, f, row[f], "stored", job[f], x)
    BY <1>1, <1>2, <1>3, <2>2, <2>3, <2>4, <2>5, <2>6 DEF CallerStep
  <2> QED  BY <2>7, CallerMoves
<1> QED  BY <1>5, <1>6

LEMMA PutsKeep ==
    ASSUME FilesInv, NEW c \in Callers, UploadCommit(c) \/ UploadUndone(c)
    PROVE  FilesInv'
<1> DEFINE f == call[c].file
<1>1. call[c].at = "put" /\ f \in Files  BY StatesAreTyped DEF UploadCommit, UploadUndone
<1>2. /\ row[f] \in Row /\ object[f] \in Objects /\ job[f] \in Job
      /\ form \in [Files -> BOOLEAN]
  BY <1>1, StatesAreTyped
<1>3. Puts(call[c], f) /\ Unknown(f) /\ PutAlone(f)  BY <1>1 DEF FilesInv, Puts
<1>4. /\ row[f].status = "none" /\ object[f] = "stored"
      /\ \A d \in Callers \ {c} : ~Puts(call[d], f)
  BY <1>3 DEF PutAlone
<1>5. ~row[f].gone /\ ~job[f].active  BY <1>3, <1>4 DEF Unknown
<1>6. ~FoundReady(f)
  <2>1. \A d \in Callers : ~SaysReady(call[d], f)
    BY <1>3, <1>4 DEF Unknown, SaysReady, About, Verdicts
  <2> QED  BY <1>4, <2>1 DEF FoundReady
<1>7. CASE UploadCommit(c)
  <2>1. PICK result \in Results :
             /\ SetStatus(f, result)
             /\ Answer(c, f, result) \/ Goto(c, "in_batch", f, "")
    BY <1>7 DEF UploadCommit
  <2>2. result \in Words /\ result \in Statuses /\ result # "none"
    BY DEF Words, Statuses, Results
  <2>3. \E x \in CallStates : /\ call' = [call EXCEPT ![c] = x]
                              /\ x.at \in {"idle", "answered", "in_batch"}
                              /\ x.at = "idle" \/ x.file = f
    <3>1. CASE Answer(c, f, result)  BY <1>1, <2>2, <3>1, Answers
    <3>2. CASE Goto(c, "in_batch", f, "")
      <4> DEFINE x == At("in_batch", f, "")
      <4>1. x \in CallStates /\ call' = [call EXCEPT ![c] = x] /\ x.at = "in_batch" /\ x.file = f
        BY <1>1, <3>2 DEF Goto, At, CallStates, Places, Verdicts, Words
      <4> HIDE DEF x
      <4> QED  BY <4>1
    <3> QED  BY <2>1, <3>1, <3>2
  <2>4. PICK x \in CallStates : /\ call' = [call EXCEPT ![c] = x]
                                /\ x.at \in {"idle", "answered", "in_batch"}
                                /\ x.at = "idle" \/ x.file = f
    BY <2>3
  <2>5. PICK r \in Row : /\ row' = [row EXCEPT ![f] = r]
                         /\ r.status = result /\ r.gone = row[f].gone
    BY <1>1, <2>1, <2>2, StatusIsRow
  <2>6. UNCHANGED object /\ UNCHANGED job /\ UNCHANGED worker /\ UNCHANGED torn
        /\ UNCHANGED form
    BY <1>7 DEF UploadCommit
  <2>7. job' = [job EXCEPT ![f] = job[f]] /\ object' = [object EXCEPT ![f] = object[f]]
    BY <1>1, <2>6, Unwritten
  <2>8. CallerStep(c, f, r, object[f], job[f], x)
    BY <1>2, <1>4, <1>5, <2>2, <2>4, <2>5, <2>6, <2>7 DEF CallerStep
  <2> QED  BY <1>1, <2>8, CallerMoves
<1>8. CASE UploadUndone(c)
  <2>1. "error" \in Words /\ "none" \in Objects  BY DEF Words, Objects
  <2>2. PICK x \in CallStates :
          /\ call' = [call EXCEPT ![c] = x]
          /\ x.at \in {"idle", "answered"} /\ (x.at = "idle" \/ x.file = f)
          /\ ~SaysReady(x, f)
    BY <1>1, <1>8, <2>1, Answers DEF UploadUndone
  <2>3. /\ UNCHANGED row /\ UNCHANGED job /\ UNCHANGED worker /\ UNCHANGED torn
        /\ UNCHANGED form /\ object' = [object EXCEPT ![f] = "none"]
    BY <1>8 DEF UploadUndone
  <2>4. job' = [job EXCEPT ![f] = job[f]] /\ row' = [row EXCEPT ![f] = row[f]]
    BY <1>1, <2>3, Unwritten
  <2>5. CallerStep(c, f, row[f], "none", job[f], x)
    BY <1>1, <1>2, <1>4, <1>5, <1>6, <2>1, <2>2, <2>3, <2>4 DEF CallerStep
  <2> QED  BY <1>1, <2>5, CallerMoves
<1> QED  BY <1>7, <1>8

LEMMA RollbackAndCrashKeep ==
    ASSUME FilesInv, NEW c \in Callers, RollbackObject(c) \/ CallerCrash(c)
    PROVE  FilesInv'
<1> DEFINE f == call[c].file
<1>1. call[c].at \notin {"idle", "answered"} /\ f \in Files
  BY StatesAreTyped DEF RollbackObject, CallerCrash
<1>2. /\ row[f] \in Row /\ object[f] \in Objects /\ job[f] \in Job
      /\ form \in [Files -> BOOLEAN]
  BY <1>1, StatesAreTyped
<1>3. CASE RollbackObject(c)
  <2>1. "none" \in Objects  BY DEF Objects
  <2> DEFINE x == At("rollback", f, "")
  <2>2. /\ x \in CallStates /\ call' = [call EXCEPT ![c] = x]
        /\ x.at = "rollback" /\ x.file = f /\ x.with = ""
    BY <1>1, <1>3 DEF RollbackObject, Goto, At, CallStates, Places, Verdicts, Words
  <2> HIDE DEF x
  <2>3. /\ UNCHANGED row /\ UNCHANGED job /\ UNCHANGED worker /\ UNCHANGED form
        /\ object' = [object EXCEPT ![f] = "none"] /\ torn' = torn \cup {f}
        /\ row[f].status # "none"
    BY <1>3 DEF RollbackObject, Visible, Exists
  <2>4. job' = [job EXCEPT ![f] = job[f]] /\ row' = [row EXCEPT ![f] = row[f]]
    BY <1>1, <2>3, Unwritten
  <2>5. \A d \in Callers : ~Puts(call[d], f)  BY <1>1, <2>3, WorkedOnIsKnown
  <2>6. CallerStep(c, f, row[f], "none", job[f], x)
    BY <1>1, <1>2, <2>1, <2>2, <2>3, <2>4, <2>5 DEF CallerStep
  <2> QED  BY <1>1, <2>6, CallerMoves
<1>4. CASE CallerCrash(c)
  <2>1. Idle \in CallStates /\ Idle.at = "idle"  BY DEF CallStates, Idle
  <2>2. /\ UNCHANGED row /\ UNCHANGED job /\ UNCHANGED worker /\ UNCHANGED form
        /\ UNCHANGED object /\ UNCHANGED torn /\ call' = [call EXCEPT ![c] = Idle]
    BY <1>4 DEF CallerCrash
  <2>3. job' = [job EXCEPT ![f] = job[f]] /\ row' = [row EXCEPT ![f] = row[f]]
        /\ object' = [object EXCEPT ![f] = object[f]]
    BY <1>1, <2>2, Unwritten
  <2>4. /\ row[f].status = "none" => ~job[f].active
        /\ row[f].status # "none" \/ object[f] # "stored" =>
              \A d \in Callers \ {c} : ~Puts(call[d], f)
    BY <1>1 DEF FilesInv, Unknown, PutAlone
  <2>5. ~SaysReady(Idle, f)  BY <2>1 DEF SaysReady, Verdicts
  <2>6. row[f].status = "ready" => FoundReady(f)  BY DEF FoundReady
  <2>7. CallerStep(c, f, row[f], object[f], job[f], Idle)
    BY <1>1, <1>2, <2>1, <2>2, <2>3, <2>4, <2>5, <2>6 DEF CallerStep
  <2> QED  BY <1>1, <2>7, CallerMoves
<1> QED  BY <1>3, <1>4

-----------------------------------------------------------------------------
(* The workers, and what happens to the bucket and the clock.              *)

LEMMA WorkersAreTyped ==
    /\ Idle \in WorkerStates /\ Idle.at = "idle"
    /\ \A y \in Sweeps : y.at = "sweep" /\ y.file \in Files
    /\ \A y \in Listings : /\ y.at = "listed" /\ y.file \in Files
                           /\ y.with \in 0 .. MaxAttempts - 1
    /\ \A y \in Erasures : /\ y.at \in {"erase", "erased"} /\ y.file \in Files
                           /\ y.with \in 1 .. MaxAttempts
    /\ \A y \in WorkerStates : /\ y.at = "listed" => y \in Listings
                               /\ y.at \in {"erase", "erased"} => y \in Erasures
<1>1. Idle \in WorkerStates /\ Idle.at = "idle"  BY DEF WorkerStates, Idle
<1>2. \A y \in Sweeps : y.at = "sweep" /\ y.file \in Files  BY DEF Sweeps
<1>3. \A y \in Listings : /\ y.at = "listed" /\ y.file \in Files
                         /\ y.with \in 0 .. MaxAttempts - 1
  BY DEF Listings
<1>4. \A y \in Erasures : /\ y.at \in {"erase", "erased"} /\ y.file \in Files
                         /\ y.with \in 1 .. MaxAttempts
  BY DEF Erasures
<1>5. ASSUME NEW y \in WorkerStates
      PROVE  /\ y.at = "listed" => y \in Listings
             /\ y.at \in {"erase", "erased"} => y \in Erasures
  BY <1>1, <1>2, <1>3, <1>4 DEF WorkerStates
<1> QED  BY <1>1, <1>2, <1>3, <1>4, <1>5

\* A worker that only takes note of a file that has a row.
LEMMA WorkerNotes ==
    ASSUME FilesInv, NEW w \in Workers, NEW f \in Files, NEW y \in WorkerStates,
           worker' = [worker EXCEPT ![w] = y], y.file = f,
           UNCHANGED <<row, object, form, job, call, torn>>,
           worker[w].at = "idle" \/ worker[w].file = f, ~ErasedBy(w, f),
           row[f].status # "none"
    PROVE  FilesInv'
<1>1. row[f] \in Row /\ object[f] \in Objects /\ job[f] \in Job  BY StatesAreTyped
<1>2. row' = [row EXCEPT ![f] = row[f]] /\ job' = [job EXCEPT ![f] = job[f]]
      /\ object' = [object EXCEPT ![f] = object[f]]
  BY Unwritten
<1>3. WorkerMove(w, f, row[f], object[f], job[f], y)
  BY <1>1, <1>2 DEF WorkerMove
<1> QED  BY <1>3, WorkerMoves

LEMMA WorkerReadsKeep ==
    ASSUME FilesInv, NEW w \in Workers, NEW f \in Files, SweepRead(w, f) \/ JobList(w, f)
    PROVE  FilesInv'
<1>1. worker[w].at = "idle" /\ row[f].status # "none" /\ ~ErasedBy(w, f)
  BY WorkedOnIsKnown DEF SweepRead, JobList, Visible, Exists, ErasedBy
<1>2. UNCHANGED <<row, object, form, job, call, torn>>  BY DEF SweepRead, JobList
<1>3. \E y \in WorkerStates : worker' = [worker EXCEPT ![w] = y] /\ y.file = f
  <2>1. CASE SweepRead(w, f)
    <3> DEFINE y == At("sweep", f, IF row[f].status = "expired" THEN "expired" ELSE "")
    <3>1. y \in Sweeps /\ y.file = f  BY DEF Sweeps, At
    <3>2. worker' = [worker EXCEPT ![w] = y]  BY <2>1 DEF SweepRead, WorkerAt
    <3> HIDE DEF y
    <3> QED  BY <3>1, <3>2 DEF WorkerStates
  <2>2. CASE JobList(w, f)
    <3> DEFINE y == At("listed", f, job[f].attempts)
    <3>1. job[f].attempts \in 0 .. MaxAttempts - 1  BY StatesAreTyped DEF Job
    <3>2. y \in Listings /\ y.file = f  BY <3>1 DEF Listings, At
    <3>3. worker' = [worker EXCEPT ![w] = y]  BY <2>2 DEF JobList, WorkerAt
    <3> HIDE DEF y
    <3> QED  BY <3>2, <3>3 DEF WorkerStates
  <2> QED  BY <2>1, <2>2
<1> QED  BY <1>1, <1>2, <1>3, WorkerNotes

LEMMA WorkerWritesKeep ==
    ASSUME FilesInv, NEW w \in Workers,
           \/ SweepWrite(w) \/ JobClaim(w) \/ JobErase(w) \/ JobCommit(w)
           \/ JobFails(w) \/ WorkerCrash(w)
    PROVE  FilesInv'
<1> DEFINE f == worker[w].file
<1>1. worker[w].at # "idle" /\ worker[w] \in WorkerStates /\ f \in Files
  BY StatesAreTyped DEF SweepWrite, JobClaim, JobErase, JobCommit, JobFails, WorkerCrash
<1>2. row[f].status # "none"  BY <1>1, WorkedOnIsKnown DEF About
<1>3. row[f] \in Row /\ object[f] \in Objects /\ job[f] \in Job /\ job \in [Files -> Job]
  BY <1>1, StatesAreTyped
<1>4. Idle \in WorkerStates /\ Idle.at = "idle"  BY WorkersAreTyped
<1>5. MaxAttempts \in Nat  BY FilesAssumption
<1>6. CASE SweepWrite(w)
  <2>1. ~ErasedBy(w, f)  BY <1>6 DEF SweepWrite, ErasedBy
  <2>2. PICK j \in Job : job' = [job EXCEPT ![f] = j]
    BY <1>1, <1>6, EnqueueIsJob DEF SweepWrite
  <2>3. \E r \in Row : /\ row' = [row EXCEPT ![f] = r] /\ r.gone = row[f].gone
                       /\ r = row[f] \/ r.status = "expired"
    <3>1. CASE SetStatus(f, "expired")
      <4>1. "expired" \in Statuses  BY DEF Statuses
      <4> QED  BY <1>1, <3>1, <4>1, StatusIsRow
    <3>2. CASE row' = row  BY <1>1, <1>3, <3>2, Unwritten
    <3> QED  BY <1>6, <3>1, <3>2 DEF SweepWrite
  <2>4. PICK r \in Row : /\ row' = [row EXCEPT ![f] = r] /\ r.gone = row[f].gone
                         /\ r = row[f] \/ r.status = "expired"
    BY <2>3
  <2>5. /\ UNCHANGED object /\ UNCHANGED form /\ UNCHANGED call /\ UNCHANGED torn
        /\ worker' = [worker EXCEPT ![w] = Idle]
    BY <1>6 DEF SweepWrite
  <2>6. object' = [object EXCEPT ![f] = object[f]]  BY <1>1, <2>5, Unwritten
  <2>7. WorkerMove(w, f, r, object[f], j, Idle)
    BY <1>2, <1>3, <1>4, <2>1, <2>2, <2>4, <2>5, <2>6 DEF WorkerMove
  <2> QED  BY <1>1, <2>7, WorkerMoves
<1>7. CASE JobClaim(w)
  <2>1. ~ErasedBy(w, f) /\ worker[w].at = "listed"  BY <1>7 DEF JobClaim, ErasedBy
  <2>2. UNCHANGED <<row, object, form, call, torn>>  BY <1>7 DEF JobClaim
  <2>3. CASE WorkerAt(w, "erase", f, worker[w].with + 1) /\ UNCHANGED job
    <3>1. worker[w].with \in 0 .. MaxAttempts - 1
      BY <1>1, <2>1, WorkersAreTyped
    <3>2. worker[w].with + 1 \in 1 .. MaxAttempts  BY <1>5, <3>1
    <3> DEFINE y == At("erase", f, worker[w].with + 1)
    <3>3. y \in Erasures /\ y.file = f  BY <1>1, <3>2 DEF Erasures, At
    <3>4. worker' = [worker EXCEPT ![w] = y]  BY <2>3 DEF WorkerAt
    <3> HIDE DEF y
    <3>5. y \in WorkerStates  BY <3>3 DEF WorkerStates
    <3> QED  BY <1>1, <1>2, <2>1, <2>2, <2>3, <3>3, <3>4, <3>5, WorkerNotes
  <2>4. CASE job' = [job EXCEPT ![f].active = FALSE] /\ worker' = [worker EXCEPT ![w] = Idle]
    <3> DEFINE j == [job[f] EXCEPT !.active = FALSE]
    <3>1. j \in Job /\ job' = [job EXCEPT ![f] = j]  BY <1>3, <2>4 DEF Job
    <3>2. row' = [row EXCEPT ![f] = row[f]] /\ object' = [object EXCEPT ![f] = object[f]]
      BY <1>1, <2>2, Unwritten
    <3> HIDE DEF j
    <3>3. WorkerMove(w, f, row[f], object[f], j, Idle)
      BY <1>2, <1>3, <1>4, <2>1, <2>2, <2>4, <3>1, <3>2 DEF WorkerMove
    <3> QED  BY <1>1, <3>3, WorkerMoves
  <2> QED  BY <1>7, <2>3, <2>4 DEF JobClaim
<1>8. CASE JobErase(w)
  <2> DEFINE y == At("erased", f, worker[w].with)
  <2>1. worker[w].at = "erase" /\ worker' = [worker EXCEPT ![w] = y]
    BY <1>8 DEF JobErase, WorkerAt
  <2>2. worker[w].with \in 1 .. MaxAttempts  BY <1>1, <2>1, WorkersAreTyped
  <2>3. /\ y \in WorkerStates /\ y.at = "erased" /\ y.file = f
        /\ worker' = [worker EXCEPT ![w] = y]
    <3>1. y \in Erasures /\ y.at = "erased" /\ y.file = f
      BY <1>1, <2>2 DEF Erasures, At
    <3> HIDE DEF y
    <3> QED  BY <2>1, <3>1 DEF WorkerStates
  <2> HIDE DEF y
  <2>4. /\ UNCHANGED row /\ UNCHANGED form /\ UNCHANGED job /\ UNCHANGED call /\ UNCHANGED torn
        /\ object' = [object EXCEPT ![f] = "none"]
    BY <1>8 DEF JobErase
  <2>5. row' = [row EXCEPT ![f] = row[f]] /\ job' = [job EXCEPT ![f] = job[f]]
    BY <1>1, <2>4, Unwritten
  <2>6. "none" \in Objects  BY DEF Objects
  <2>7. WorkerMove(w, f, row[f], "none", job[f], y)
    BY <1>2, <1>3, <2>3, <2>4, <2>5, <2>6 DEF WorkerMove
  <2> QED  BY <1>1, <2>7, WorkerMoves
<1>9. CASE JobCommit(w)
  <2> DEFINE r == [row[f] EXCEPT !.status = "deleted", !.gone = TRUE]
             j == [job[f] EXCEPT !.active = FALSE]
  <2>1. r \in Row /\ r.status = "deleted" /\ r.gone  BY <1>3 DEF Row, Statuses
  <2>2. j \in Job  BY <1>3 DEF Job
  <2>3. /\ row' = [row EXCEPT ![f] = r] /\ job' = [job EXCEPT ![f] = j]
        /\ worker' = [worker EXCEPT ![w] = Idle]
        /\ UNCHANGED object /\ UNCHANGED form /\ UNCHANGED call /\ UNCHANGED torn
    BY <1>9 DEF JobCommit
  <2>4. object' = [object EXCEPT ![f] = object[f]]  BY <1>1, <2>3, Unwritten
  <2> HIDE DEF r, j
  <2>5. WorkerMove(w, f, r, object[f], j, Idle)
    BY <1>2, <1>3, <1>4, <2>1, <2>2, <2>3, <2>4 DEF WorkerMove
  <2> QED  BY <1>1, <2>5, WorkerMoves
<1>10. CASE JobFails(w)
  <2>1. /\ worker[w].at = "erase" /\ ~ErasedBy(w, f) /\ worker' = [worker EXCEPT ![w] = Idle]
        /\ UNCHANGED object /\ UNCHANGED form /\ UNCHANGED call /\ UNCHANGED torn
    BY <1>10 DEF JobFails, ErasedBy
  <2>2. worker[w].with \in 1 .. MaxAttempts  BY <1>1, <2>1, WorkersAreTyped
  <2>3. object' = [object EXCEPT ![f] = object[f]]  BY <1>1, <2>1, Unwritten
  <2>4. CASE Again(worker[w].with)
    <3> DEFINE j == [active |-> TRUE, attempts |-> worker[w].with]
    <3>1. j \in Job  BY <1>5, <2>2, <2>4 DEF Job, Again
    <3>2. job' = [job EXCEPT ![f] = j] /\ UNCHANGED row  BY <1>10, <2>4 DEF JobFails
    <3>3. row' = [row EXCEPT ![f] = row[f]]  BY <1>1, <3>2, Unwritten
    <3> HIDE DEF j
    <3>4. WorkerMove(w, f, row[f], object[f], j, Idle)
      BY <1>2, <1>3, <1>4, <2>1, <2>3, <3>1, <3>2, <3>3 DEF WorkerMove
    <3> QED  BY <1>1, <3>4, WorkerMoves
  <2>5. CASE ~Again(worker[w].with)
    <3> DEFINE j == [job[f] EXCEPT !.active = FALSE]
    <3>1. j \in Job  BY <1>3 DEF Job
    <3>2. job' = [job EXCEPT ![f] = j] /\ SetStatus(f, "expired")  BY <1>10, <2>5 DEF JobFails
    <3>3. "expired" \in Statuses  BY DEF Statuses
    <3>4. PICK r \in Row : /\ row' = [row EXCEPT ![f] = r]
                           /\ r.status = "expired" /\ r.gone = row[f].gone
      BY <1>1, <3>2, <3>3, StatusIsRow
    <3> HIDE DEF j
    <3>5. WorkerMove(w, f, r, object[f], j, Idle)
      BY <1>2, <1>3, <1>4, <2>1, <2>3, <3>1, <3>2, <3>4 DEF WorkerMove
    <3> QED  BY <1>1, <3>5, WorkerMoves
  <2> QED  BY <2>4, <2>5
<1>11. CASE WorkerCrash(w)
  <2>1. /\ UNCHANGED row /\ UNCHANGED object /\ UNCHANGED form /\ UNCHANGED job
        /\ UNCHANGED call /\ worker' = [worker EXCEPT ![w] = Idle]
        /\ torn' = IF worker[w].at = "erased" THEN torn \cup {f} ELSE torn
    BY <1>11 DEF WorkerCrash
  <2>2. row' = [row EXCEPT ![f] = row[f]] /\ job' = [job EXCEPT ![f] = job[f]]
        /\ object' = [object EXCEPT ![f] = object[f]]
    BY <1>1, <2>1, Unwritten
  <2>3. f \in torn' \/ ~ErasedBy(w, f)  BY <2>1 DEF ErasedBy
  <2>4. torn' = torn \/ torn' = torn \cup {f}  BY <2>1
  <2>5. WorkerMove(w, f, row[f], object[f], job[f], Idle)
    BY <1>2, <1>3, <1>4, <2>1, <2>2, <2>3, <2>4 DEF WorkerMove
  <2> QED  BY <1>1, <2>5, WorkerMoves
<1> QED  BY <1>6, <1>7, <1>8, <1>9, <1>10, <1>11

LEMMA PassingKeeps ==
    ASSUME FilesInv, NEW f \in Files, Passing(f)
    PROVE  FilesInv'
<1>1. /\ row[f] \in Row /\ row \in [Files -> Row] /\ object \in [Files -> Objects]
      /\ form \in [Files -> BOOLEAN] /\ Types
  BY StatesAreTyped DEF FilesInv
<1>2. \A g \in Files : Unknown(g) /\ PutAlone(g) /\ Kept(g)  BY DEF FilesInv
<1>3. CASE Post(f)
  <2>1. PICK o \in Objects : o # "none" /\ object' = [object EXCEPT ![f] = o]
    BY <1>3 DEF Post, Objects
  <2>2. UNCHANGED row /\ UNCHANGED form /\ UNCHANGED job /\ UNCHANGED call
        /\ UNCHANGED worker /\ UNCHANGED torn /\ object[f] = "none"
    BY <1>3 DEF Post
  <2>3. Types'
    <3>1. object' \in [Files -> Objects]  BY <1>1, <2>1
    <3> QED  BY <1>1, <2>2, <3>1 DEF Types, TypeOK, Objects
  <2>4. ASSUME NEW g \in Files PROVE Unknown(g)' /\ PutAlone(g)' /\ Kept(g)'
    <3>1. CASE g # f
      <4>1. object'[g] = object[g]  BY <1>1, <2>1, <3>1
      <4>2. Same(g)  BY <2>2, <4>1 DEF Same
      <4> QED  BY <1>2, <4>2, Elsewhere
    <3>2. CASE g = f
      <4>1. object'[f] # "none"  BY <1>1, <2>1
      <4>2. \A c \in Callers : ~Puts(call[c], f)  BY <1>2, <2>2 DEF PutAlone
      <4>3. Unknown(f)'  BY <1>2, <2>2 DEF Unknown
      <4>4. PutAlone(f)'  BY <2>2, <4>2 DEF PutAlone
      <4>5. Kept(f)'  BY <4>1 DEF Kept
      <4> QED  BY <3>2, <4>3, <4>4, <4>5
    <3> QED  BY <3>1, <3>2
  <2> QED  BY <2>3, <2>4 DEF FilesInv
<1>4. CASE FormExpires(f)
  <2>1. UNCHANGED row /\ UNCHANGED object /\ UNCHANGED job /\ UNCHANGED call
        /\ UNCHANGED worker /\ UNCHANGED torn /\ form' = [form EXCEPT ![f] = FALSE]
    BY <1>4 DEF FormExpires
  <2>2. Types'  BY <1>1, <2>1 DEF Types, TypeOK
  <2>3. \A g \in Files : Same(g)  BY <2>1 DEF Same
  <2> QED  BY <1>2, <2>2, <2>3, Elsewhere DEF FilesInv
<1>5. CASE Elapse(f)
  <2> DEFINE r == [row[f] EXCEPT !.elapsed = TRUE]
  <2>1. r \in Row /\ r.status = row[f].status /\ r.gone = row[f].gone  BY <1>1 DEF Row
  <2>2. UNCHANGED form /\ UNCHANGED object /\ UNCHANGED job /\ UNCHANGED call
        /\ UNCHANGED worker /\ UNCHANGED torn /\ row' = [row EXCEPT ![f] = r]
    BY <1>5 DEF Elapse
  <2> HIDE DEF r
  <2>3. Types'
    <3>1. row' \in [Files -> Row]  BY <1>1, <2>1, <2>2
    <3> QED  BY <1>1, <2>2, <3>1 DEF Types, TypeOK, Row, Statuses
  <2>4. \A g \in Files : row'[g].status = row[g].status /\ row'[g].gone = row[g].gone
    BY <1>1, <2>1, <2>2
  <2>5. ASSUME NEW g \in Files PROVE Unknown(g)' /\ PutAlone(g)' /\ Kept(g)'
    <3>1. Unknown(g)'  BY <1>2, <2>2, <2>4 DEF Unknown
    <3>2. PutAlone(g)'  BY <1>2, <2>2, <2>4 DEF PutAlone
    <3>3. FoundReady(g)' <=> FoundReady(g)  BY <2>2, <2>4 DEF FoundReady
    <3>4. Kept(g)'  BY <1>2, <2>2, <2>4, <3>3 DEF Kept, ErasedBy
    <3> QED  BY <3>1, <3>2, <3>4
  <2> QED  BY <2>3, <2>5 DEF FilesInv
<1> QED  BY <1>3, <1>4, <1>5 DEF Passing

-----------------------------------------------------------------------------
LEMMA FilesInvInit == FilesInit => FilesInv
<1> SUFFICES ASSUME FilesInit PROVE FilesInv
  OBVIOUS
<1>1. TypeOK
  BY FilesAssumption DEF FilesInit, TypeOK
<1>2. Types
  BY <1>1 DEF FilesInit, Types, CallStates, WorkerStates
<1>3. ASSUME NEW f \in Files PROVE Unknown(f) /\ PutAlone(f) /\ Kept(f)
  BY DEF FilesInit, Unknown, PutAlone, Kept, FoundReady, SaysReady, Puts, About, Idle, Verdicts
<1> QED  BY <1>2, <1>3 DEF FilesInv

LEMMA FilesInvNext == FilesInv /\ [Next]_fileVars => FilesInv'
<1> SUFFICES ASSUME FilesInv, [Next]_fileVars PROVE FilesInv'
  OBVIOUS
<1>1. ASSUME NEW c \in Callers, CallStep(c) \/ RollbackObject(c) \/ CallerCrash(c)
      PROVE  FilesInv'
  BY <1>1, ChecksKeep, WritesKeep, PutsKeep, RollbackAndCrashKeep DEF CallStep
<1>2. ASSUME NEW c \in Callers, NEW f \in Files, Request(c, f) PROVE FilesInv'
  BY <1>2, ReadsKeep, MakingKeeps DEF Request
<1>3. ASSUME NEW w \in Workers, WorkerStep(w) \/ JobFails(w) \/ WorkerCrash(w)
      PROVE  FilesInv'
  BY <1>3, WorkerWritesKeep DEF WorkerStep
<1>4. ASSUME NEW w \in Workers, NEW f \in Files, SweepRead(w, f) \/ JobList(w, f)
      PROVE  FilesInv'
  BY <1>4, WorkerReadsKeep
<1>5. ASSUME NEW f \in Files, Passing(f) PROVE FilesInv'
  BY <1>5, PassingKeeps
<1>6. CASE UNCHANGED fileVars
  <2>1. UNCHANGED row /\ UNCHANGED object /\ UNCHANGED form /\ UNCHANGED job
        /\ UNCHANGED call /\ UNCHANGED worker /\ UNCHANGED torn
    BY <1>6 DEF fileVars
  <2>2. Types'  BY <2>1 DEF FilesInv, Types, TypeOK
  <2>3. \A f \in Files : Same(f)  BY <2>1 DEF Same
  <2> QED  BY <2>2, <2>3, Elsewhere DEF FilesInv
<1> QED  BY <1>1, <1>2, <1>3, <1>4, <1>5, <1>6 DEF Next

LEMMA FilesInvHolds == Spec => []FilesInv
<1> QED  BY FilesInvInit, FilesInvNext, PTL DEF Spec

(* Rows, objects and jobs have their types: no job is tried more often     *)
(* than it may be.                                                         *)
THEOREM FilesTypeCorrect == Spec => []TypeOK
<1>1. FilesInv => TypeOK  BY DEF FilesInv, Types
<1> QED  BY <1>1, FilesInvHolds, PTL

LEMMA InvMeansStored == FilesInv => UsableIsStored
<1> SUFFICES ASSUME FilesInv, NEW f \in Files, Usable(f), f \notin torn, object[f] = "none"
             PROVE  Locked(f)
  BY DEF UsableIsStored
<1>1. FoundReady(f) /\ ~row[f].gone  BY DEF FoundReady, Usable, Visible
<1>2. PICK w \in Workers : ErasedBy(w, f)  BY <1>1 DEF FilesInv, Kept
<1> QED  BY <1>2 DEF Locked, ErasedBy

(* A file that requests accept has its object, or is being deleted, unless *)
(* a batch rolled it back or a worker died after it deleted the object.    *)
THEOREM UsableStaysStored == Spec => []UsableIsStored
<1> QED  BY InvMeansStored, FilesInvHolds, PTL

-----------------------------------------------------------------------------
(* A deletion that went through is final: what DeletedForGood says of the   *)
(* states, whatever is uploaded, read, ingested or completed afterwards.    *)

Empty(f) == object[f] \in {"none", "stray"}

\* From the deletion of its object to the deletion date of its row, and ever
\* after, nothing but a late post is in a file's place (process_file_deletion_queue).
ErasedIsEmpty == \A f \in Files : Erased(f) => Empty(f)

\* No handler takes a deletion date back.
GoneStays == \A f \in Files : row[f].gone => row'[f].gone
SameGone == \A f \in Files : row'[f].gone = row[f].gone

\* Marking a row leaves its deletion date alone.
LEMMA MarkLeavesGone ==
    ASSUME FilesInv, NEW f \in Files, NEW s, SetStatus(f, s)
    PROVE  SameGone
<1>1. row[f] \in Row /\ row \in [Files -> Row]  BY StatesAreTyped
<1>2. [row[f] EXCEPT !.status = s].gone = row[f].gone  BY <1>1 DEF Row
<1>3. row' = [row EXCEPT ![f] = [row[f] EXCEPT !.status = s]]  BY DEF SetStatus
<1> QED  BY <1>1, <1>2, <1>3 DEF SameGone

\* A step that erases nothing has only to leave what is erased empty.
LEMMA ErasesNothing ==
    ASSUME FilesInv, ErasedIsEmpty, SameGone,
           \A w \in Workers : worker'[w] = worker[w] \/ worker'[w].at # "erased",
           NEW f \in Files, NEW o,
           object' = object \/ object' = [object EXCEPT ![f] = o],
           Erased(f) => o \in {"none", "stray"}
    PROVE  ErasedIsEmpty' /\ GoneStays
<1>1. object \in [Files -> Objects]  BY StatesAreTyped
<1>2. GoneStays  BY DEF SameGone, GoneStays
<1>3. ASSUME NEW g \in Files, Erased(g)' PROVE Empty(g)'
  <2>1. Erased(g)
    <3>1. CASE row'[g].gone  BY <3>1 DEF SameGone, Erased
    <3>2. CASE \E w \in Workers : worker'[w].at = "erased" /\ worker'[w].file = g
      BY <3>2 DEF Erased
    <3> QED  BY <1>3, <3>1, <3>2 DEF Erased
  <2>2. Empty(g)  BY <2>1 DEF ErasedIsEmpty
  <2>3. g # f => object'[g] = object[g]  BY <1>1
  <2>4. object' # object /\ g = f => object'[g] = o  BY <1>1
  <2> QED  BY <2>1, <2>2, <2>3, <2>4 DEF Empty
<1> QED  BY <1>2, <1>3 DEF ErasedIsEmpty

LEMMA ErasedIsKnown ==
    ASSUME FilesInv, NEW f \in Files, Erased(f)
    PROVE  Exists(f)
BY WorkedOnIsKnown DEF Erased, About, Exists

\* Route handlers erase nothing, and put no object where a deletion has been.
LEMMA HandlersLeaveErased ==
    ASSUME FilesInv, ErasedIsEmpty, NEW c \in Callers,
           CallStep(c) \/ RollbackObject(c) \/ CallerCrash(c)
    PROVE  ErasedIsEmpty' /\ GoneStays
<1> DEFINE mine == call[c].file
<1>1. call[c].at # "idle" => mine \in Files  BY StatesAreTyped
<1>2. CASE UNCHANGED row /\ (CallStep(c) \/ RollbackObject(c) \/ CallerCrash(c))
  <2>1. UNCHANGED <<row, worker>> /\ mine \in Files
    BY <1>1, <1>2 DEF CallStep, CompleteExpired, CompleteCheck, CompleteReread, CompleteFailed,
       CompleteWrite, UploadCommit, UploadUndone, RollbackObject, RollbackCommit, GetWrite,
       DeleteWrite, CallerCrash
  <2>2. SameGone  BY <2>1 DEF SameGone
  <2>3. object' = object \/ object' = [object EXCEPT ![mine] = "none"]
    BY <1>2 DEF CallStep, CompleteExpired, CompleteCheck, CompleteReread, CompleteFailed,
       CompleteWrite, UploadCommit, UploadUndone, RollbackObject, RollbackCommit, GetWrite,
       DeleteWrite, CallerCrash
  <2> HIDE DEF mine
  <2> QED  BY <2>1, <2>2, <2>3, ErasesNothing
<1>3. CASE CompleteExpired(c) \/ CompleteFailed(c) \/ UploadCommit(c) \/ RollbackCommit(c)
           \/ GetWrite(c) \/ DeleteWrite(c)
  <2>1. UNCHANGED <<object, worker>> /\ mine \in Files
    BY <1>1, <1>3 DEF CompleteExpired, CompleteFailed, UploadCommit, RollbackCommit, GetWrite,
       DeleteWrite
  <2>2. \/ SetStatus(mine, "expired") \/ SetStatus(mine, "failed") \/ SetStatus(mine, "deleted")
        \/ SetStatus(mine, "deleting") \/ SetStatus(mine, call[c].with)
        \/ \E result \in Results : SetStatus(mine, result)
    BY <1>3 DEF CompleteExpired, CompleteFailed, UploadCommit, RollbackCommit, GetWrite, DeleteWrite
  <2> HIDE DEF mine
  <2>3. SameGone  BY <2>1, <2>2, MarkLeavesGone, Zenon
  <2>4. Erased(mine) => "none" \in {"none", "stray"}  OBVIOUS
  <2> QED  BY <2>1, <2>3, <2>4, ErasesNothing
<1>4. CASE CompleteWrite(c) /\ ~UNCHANGED row
  <2>1. /\ UNCHANGED <<object, worker>> /\ mine \in Files
        /\ row' = [row EXCEPT ![mine].status = call[c].with, ![mine].elapsed = FALSE]
    BY <1>1, <1>4 DEF CompleteWrite
  <2>2. row \in [Files -> Row]  BY StatesAreTyped
  <2> HIDE DEF mine
  <2>3. SameGone  BY <2>1, <2>2 DEF SameGone, Row
  <2>4. Erased(mine) => "none" \in {"none", "stray"}  OBVIOUS
  <2> QED  BY <2>1, <2>3, <2>4, ErasesNothing
<1>5. CompleteCheck(c) \/ CompleteReread(c) \/ UploadUndone(c) \/ RollbackObject(c) \/ CallerCrash(c)
         => UNCHANGED row
  BY DEF CompleteCheck, CompleteReread, UploadUndone, RollbackObject, CallerCrash
<1> QED  BY <1>2, <1>3, <1>4, <1>5 DEF CallStep

\* So do new requests: what is uploaded has no row yet.
LEMMA RequestsLeaveErased ==
    ASSUME FilesInv, ErasedIsEmpty, NEW c \in Callers, NEW f \in Files, Request(c, f)
    PROVE  ErasedIsEmpty' /\ GoneStays
<1>1. UNCHANGED worker
  BY DEF Request, CreateIntent, CompleteRead, UploadPut, GetRead, DeleteRead
<1>2. UNCHANGED row \/ SetStatus(f, "uploading")
  BY DEF Request, CreateIntent, CompleteRead, UploadPut, GetRead, DeleteRead
<1>3. \/ object' = object
      \/ object' = [object EXCEPT ![f] = "stored"] /\ ~Exists(f)
  BY DEF Request, CreateIntent, CompleteRead, UploadPut, GetRead, DeleteRead
<1>4. SameGone  BY <1>2, MarkLeavesGone DEF SameGone
<1>5. CASE object' = object
  <2>1. Erased(f) => "none" \in {"none", "stray"}  OBVIOUS
  <2> QED  BY <1>1, <1>4, <1>5, <2>1, ErasesNothing
<1>6. CASE object' = [object EXCEPT ![f] = "stored"] /\ ~Exists(f)
  <2>1. ~Erased(f)  BY <1>6, ErasedIsKnown
  <2> QED  BY <1>1, <1>4, <1>6, <2>1, ErasesNothing
<1> QED  BY <1>3, <1>5, <1>6

\* The form of a deleted row may still be posted: what arrives is a stray.
LEMMA PostsLeaveErased ==
    ASSUME FilesInv, ErasedIsEmpty, NEW f \in Files, Passing(f)
    PROVE  ErasedIsEmpty' /\ GoneStays
<1>1. UNCHANGED worker  BY DEF Passing, Post, FormExpires, Elapse
<1>2. UNCHANGED row \/ row' = [row EXCEPT ![f].elapsed = TRUE]
  BY DEF Passing, Post, FormExpires, Elapse
<1>3. row \in [Files -> Row]  BY StatesAreTyped
<1>4. SameGone  BY <1>2, <1>3 DEF SameGone, Row
<1>5. CASE Post(f)
  <2>1. PICK o \in {"stored", "mismatched"} :
               object' = [object EXCEPT ![f] = IF Erased(f) THEN "stray" ELSE o]
    BY <1>5 DEF Post
  <2> DEFINE p == IF Erased(f) THEN "stray" ELSE o
  <2>2. Erased(f) => p \in {"none", "stray"}  OBVIOUS
  <2>3. object' = [object EXCEPT ![f] = p]  BY <2>1
  <2> HIDE DEF p
  <2> QED  BY <1>1, <1>4, <2>2, <2>3, ErasesNothing
<1>6. CASE UNCHANGED object
  <2>1. Erased(f) => "none" \in {"none", "stray"}  OBVIOUS
  <2> QED  BY <1>1, <1>4, <1>6, <2>1, ErasesNothing
<1> QED  BY <1>5, <1>6 DEF Passing, FormExpires, Elapse

\* Only the job of a deletion erases, and it gives the row its deletion date last.
LEMMA WorkersErase ==
    ASSUME FilesInv, ErasedIsEmpty, NEW w \in Workers,
           \/ WorkerStep(w) \/ JobFails(w) \/ WorkerCrash(w)
           \/ \E f \in Files : SweepRead(w, f) \/ JobList(w, f)
    PROVE  ErasedIsEmpty' /\ GoneStays
<1> DEFINE mine == worker[w].file
<1>1. /\ worker[w].at # "idle" => mine \in Files
      /\ worker \in [Workers -> WorkerStates]
      /\ row \in [Files -> Row] /\ object \in [Files -> Objects]
  BY StatesAreTyped DEF FilesInv, Types
<1>2. CASE SweepWrite(w) \/ JobClaim(w) \/ JobFails(w) \/ WorkerCrash(w)
  <2>1. mine \in Files
    BY <1>1, <1>2 DEF SweepWrite, JobClaim, JobFails, WorkerCrash
  <2>2. \A v \in Workers : worker'[v] = worker[v] \/ worker'[v].at # "erased"
    BY <1>1, <1>2 DEF SweepWrite, JobClaim, JobFails, WorkerCrash, WorkerAt, At, Idle
  <2>3. UNCHANGED object /\ (UNCHANGED row \/ SetStatus(mine, "expired"))
    BY <1>2 DEF SweepWrite, JobClaim, JobFails, WorkerCrash
  <2> HIDE DEF mine
  <2>4. SameGone  BY <2>1, <2>3, MarkLeavesGone DEF SameGone
  <2>5. Erased(mine) => "none" \in {"none", "stray"}  OBVIOUS
  <2> QED  BY <2>1, <2>2, <2>3, <2>4, <2>5, ErasesNothing
<1>3. CASE JobErase(w)
  <2>1. /\ mine \in Files /\ UNCHANGED row
        /\ object' = [object EXCEPT ![mine] = "none"]
        /\ worker' = [worker EXCEPT ![w] = At("erased", mine, worker[w].with)]
    BY <1>1, <1>3 DEF JobErase, WorkerAt
  <2>2. ASSUME NEW g \in Files, g # mine, Erased(g)' PROVE Empty(g)'
    <3>1. ~(worker'[w].at = "erased" /\ worker'[w].file = g)  BY <1>1, <2>1, <2>2 DEF At
    <3>2. Erased(g)  BY <2>1, <2>2, <3>1 DEF Erased
    <3> QED  BY <1>1, <2>1, <2>2, <3>2 DEF ErasedIsEmpty, Empty
  <2>3. \A g \in Files : g = mine => object'[g] = "none"  BY <1>1, <2>1
  <2> QED  BY <2>1, <2>2, <2>3 DEF ErasedIsEmpty, Empty, GoneStays
<1>4. CASE JobCommit(w)
  <2>1. /\ mine \in Files /\ Erased(mine) /\ UNCHANGED object
        /\ row' = [row EXCEPT ![mine].status = "deleted", ![mine].gone = TRUE]
        /\ worker' = [worker EXCEPT ![w] = Idle]
    BY <1>1, <1>4 DEF JobCommit, Erased
  <2>2. ASSUME NEW g \in Files PROVE row'[g].gone <=> row[g].gone \/ g = mine
    <3>1. [row[mine] EXCEPT !.status = "deleted", !.gone = TRUE].gone = TRUE  BY <1>1, <2>1 DEF Row
    <3> QED  BY <1>1, <2>1, <3>1
  <2>3. ASSUME NEW g \in Files, Erased(g)' PROVE Erased(g)
    <3>1. ~(worker'[w].at = "erased" /\ worker'[w].file = g)  BY <1>1, <2>1 DEF Idle
    <3> QED  BY <2>1, <2>2, <2>3, <3>1 DEF Erased
  <2>4. ErasedIsEmpty'  BY <2>1, <2>3 DEF ErasedIsEmpty, Empty
  <2> QED  BY <2>2, <2>4 DEF GoneStays
<1>5. ASSUME NEW f \in Files, SweepRead(w, f) \/ JobList(w, f)
      PROVE  ErasedIsEmpty' /\ GoneStays
  <2>1. UNCHANGED <<row, object>>  BY <1>5 DEF SweepRead, JobList
  <2>2. \A v \in Workers : worker'[v] = worker[v] \/ worker'[v].at # "erased"
    <3>1. \/ WorkerAt(w, "sweep", f, "expired") \/ WorkerAt(w, "sweep", f, "")
          \/ WorkerAt(w, "listed", f, job[f].attempts)
      BY <1>5 DEF SweepRead, JobList
    <3>2. /\ At("sweep", f, "expired").at # "erased" /\ At("sweep", f, "").at # "erased"
          /\ At("listed", f, job[f].attempts).at # "erased"
      BY DEF At
    <3> QED  BY <1>1, <3>1, <3>2 DEF WorkerAt
  <2>3. SameGone  BY <2>1 DEF SameGone
  <2>4. Erased(f) => "none" \in {"none", "stray"}  OBVIOUS
  <2> QED  BY <2>1, <2>2, <2>3, <2>4, <1>5, ErasesNothing
<1> QED  BY <1>2, <1>3, <1>4, <1>5 DEF WorkerStep

LEMMA ErasedNext ==
    ASSUME FilesInv, ErasedIsEmpty, [Next]_fileVars
    PROVE  ErasedIsEmpty' /\ GoneStays
<1>1. CASE UNCHANGED fileVars
  <2>1. UNCHANGED <<row, object, worker>>  BY <1>1 DEF fileVars
  <2>2. ErasedIsEmpty' = ErasedIsEmpty  BY <2>1 DEF ErasedIsEmpty, Erased, Empty
  <2> QED  BY <2>1, <2>2 DEF GoneStays
<1>2. CASE Next
  BY <1>2, HandlersLeaveErased, RequestsLeaveErased, PostsLeaveErased, WorkersErase DEF Next
<1> QED  BY <1>1, <1>2

(* The rows with a deletion date keep it, and the storage is empty of what *)
(* they stood for but for an object that arrived after the deletion: the   *)
(* part of DeletedForGood that needs no fairness.                          *)
THEOREM DeletionIsFinal ==
    Spec => /\ []ErasedIsEmpty
            /\ [][GoneStays]_fileVars
<1>1. FilesInit => ErasedIsEmpty  BY DEF FilesInit, ErasedIsEmpty, Erased, Empty, Idle
<1>2. FilesInv /\ ErasedIsEmpty /\ [Next]_fileVars => ErasedIsEmpty'  BY ErasedNext
<1>3. FilesInv /\ ErasedIsEmpty /\ [Next]_fileVars => [GoneStays]_fileVars  BY ErasedNext
<1> QED  BY <1>1, <1>2, <1>3, FilesInvHolds, PTL DEF Spec

-----------------------------------------------------------------------------
(* The upload queue: for each task that was not retried twice at once, the *)
(* one chain of awaits that works on it, and for every task the files that *)
(* are its alone.                                                          *)

TaskStates == {"missing", "removed", "authorizing", "uploading", "failed"} \cup Results
Stages == {"", "authorization", "upload", "completion", "mismatch", "processing"}
TaskType == [state : TaskStates, file : Files \cup {None}, stage : Stages]
Fileless == {"authorizing", "waiting"}
Filing == {"replacing", "posting", "completing", "fetching"}
FlowType ==
    {Away}
    \cup [at : Fileless, task : Tasks, file : {None}, attempt : Nat, aborted : BOOLEAN]
    \cup [at : Filing, task : Tasks, file : Files, attempt : Nat, aborted : BOOLEAN]
Authority == [Tasks -> Files \cup {None}]

\* A chain at y waits for the call that is at z.
Asked(z, f, places) == z.at = "idle" \/ (z.at \in places \cup {"answered"} /\ z.file = f)
Completing == {"checking", "intent_expired", "mismatch", "verified", "write_failed", "write_result"}
Talks(y, z) ==
    /\ y.at \in {"away", "posting", "waiting"} => z.at = "idle"
    /\ y.at = "authorizing" => z.at \in {"idle", "answered"}
    /\ y.at = "replacing" => Asked(z, y.file, {"delete"})
    /\ y.at = "completing" => Asked(z, y.file, Completing)
    /\ y.at = "fetching" => Asked(z, y.file, {"ingested"})

\* A chain at y works on task t, whose entry is x.
On(y, t) == y.at # "away" /\ y.task = t
Fits(x, y) ==
    /\ x.state \notin {"missing", "ready"}
    /\ y.at = "authorizing" => x.file = None
    /\ y.at \in {"replacing", "completing", "fetching"} => x.file = y.file

Once(q, t) == \A i, j \in DOMAIN q : q[i] = t /\ q[j] = t => i = j
Waits(q, t) == \E i \in DOMAIN q : q[i] = t
Fewer(r, q, t) == (Waits(r, t) => Waits(q, t)) /\ (Once(q, t) => Once(r, t))

\* Task t waits for a transfer, or one chain works on it.
Alone(t, x, q, base) ==
    /\ Once(q, t)
    /\ Waits(q, t) => x.state = "authorizing" /\ \A c \in Callers : ~On(base[c], t)
    /\ \A c, d \in Callers : On(base[c], t) /\ On(base[d], t) => c = d
    /\ \A c \in Callers : On(base[c], t) => Fits(x, base[c])

\* The files a chain has, and those of a task.
Brings(y, z, f) ==
    y.at # "away" /\ (y.file = f \/ (y.at = "authorizing" /\ z.at = "answered" /\ z.file = f))
Owns(tasks, auth, base, calls, t, f) ==
    \/ tasks[t].file = f \/ auth[t] = f
    \/ \E c \in Callers : On(base[c], t) /\ Brings(base[c], calls[c], f)

Typed(tasks, q, auth, base, calls) ==
    /\ tasks \in [Tasks -> TaskType]
    /\ q \in Seq(Tasks) /\ auth \in Authority
    /\ base \in [Callers -> FlowType] /\ calls \in [Callers -> CallStates]
Lone(tasks, q, base, twice) ==
    \A t \in Tasks \ twice : tasks[t].state # "removed" => Alone(t, tasks[t], q, base)
Owned(tasks, auth, base, calls, made) ==
    \A t \in Tasks, f \in Files :
        Owns(tasks, auth, base, calls, t, f) =>
            f \in made /\ \A u \in Tasks : Owns(tasks, auth, base, calls, u, f) => t = u

Browser(tasks, q, auth, base, calls, twice, made) ==
    /\ Typed(tasks, q, auth, base, calls)
    /\ \A c \in Callers : Talks(base[c], calls[c])
    /\ Lone(tasks, q, base, twice)
    /\ Owned(tasks, auth, base, calls, made)

LEMMA FlowFields ==
    ASSUME NEW y \in FlowType
    PROVE  /\ y.at = "away" <=> y = Away
           /\ y.at # "away" => /\ y.at \in Fileless \cup Filing /\ y.task \in Tasks
                               /\ y.attempt \in Nat /\ y.aborted \in BOOLEAN
           /\ y.at \in Fileless => y.file = None
           /\ y.at \in Filing => y.file \in Files
BY DEF FlowType, Fileless, Filing, Away

LEMMA AwayIs == Away \in FlowType /\ Away.at = "away"
BY DEF FlowType, Away

-----------------------------------------------------------------------------
(* The queue of pending transfers.                                         *)

LEMMA InQueue ==
    ASSUME NEW q \in Seq(Tasks)
    PROVE  /\ Len(q) \in Nat /\ DOMAIN q = 1 .. Len(q)
           /\ \A i \in 1 .. Len(q) : q[i] \in Tasks
OBVIOUS

LEMMA Suffix ==
    ASSUME NEW q \in Seq(Tasks), NEW m \in 0 .. Len(q)
    PROVE  /\ SubSeq(q, m + 1, Len(q)) \in Seq(Tasks)
           /\ \A t \in Tasks : /\ Fewer(SubSeq(q, m + 1, Len(q)), q, t)
                               /\ Once(q, t) /\ Waits(SubSeq(q, m + 1, Len(q)), t) =>
                                      \A i \in 1 .. m : q[i] # t
<1>1. /\ Len(q) \in Nat /\ DOMAIN q = 1 .. Len(q) /\ m \in Nat /\ m <= Len(q)
      /\ \A i \in 1 .. Len(q) : q[i] \in Tasks
  BY InQueue
<1>2. \A i \in m + 1 .. Len(q) : q[i] \in Tasks  BY <1>1
<1>3. m + 1 \in Int /\ Len(q) \in Int  BY <1>1
<1> DEFINE rest == SubSeq(q, m + 1, Len(q))
<1>4. /\ rest \in Seq(Tasks)
      /\ Len(rest) = IF m + 1 <= Len(q) THEN Len(q) - (m + 1) + 1 ELSE 0
      /\ \A i \in 1 .. Len(q) - (m + 1) + 1 : rest[i] = q[m + 1 + i - 1]
  BY <1>2, <1>3, SubSeqProperties
<1> HIDE DEF rest
<1>5. DOMAIN rest = 1 .. Len(q) - m
  <2>1. DOMAIN rest = 1 .. Len(rest)  BY <1>4, InQueue
  <2> DEFINE n == Len(q)
             k == Len(rest)
  <2>2. m \in Nat /\ n \in Nat /\ m <= n /\ k = IF m + 1 <= n THEN n - (m + 1) + 1 ELSE 0
    BY <1>1, <1>4
  <2> HIDE DEF n, k
  <2>3. k = n - m  BY <2>2
  <2> QED  BY <2>1, <2>3 DEF n, k
<1>6. ASSUME NEW i \in DOMAIN rest PROVE m + i \in DOMAIN q /\ rest[i] = q[m + i] /\ m + i \notin 1 .. m
  <2>1. i \in 1 .. Len(q) - (m + 1) + 1 /\ m + 1 + i - 1 = m + i  BY <1>1, <1>5
  <2>2. rest[i] = q[m + 1 + i - 1]  BY <1>4, <2>1
  <2> QED  BY <1>1, <1>5, <2>1, <2>2
<1>7. \A i, j \in DOMAIN rest : m + i = m + j => i = j  BY <1>1, <1>5
<1>8. \A t \in Tasks : Fewer(rest, q, t)  BY <1>6, <1>7 DEF Fewer, Once, Waits
<1>9. ASSUME NEW t \in Tasks, Once(q, t), Waits(rest, t), NEW i \in 1 .. m, q[i] = t PROVE FALSE
  <2>1. PICK k \in DOMAIN rest : rest[k] = t  BY <1>9 DEF Waits
  <2>2. m + k \in DOMAIN q /\ q[m + k] = t /\ m + k # i  BY <1>6, <2>1
  <2>3. i \in DOMAIN q  BY <1>1
  <2> QED  BY <1>9, <2>2, <2>3 DEF Once
<1> QED  BY <1>4, <1>8, <1>9 DEF rest

\* The least number of a set.
LEMMA Least ==
    ASSUME NEW S, S \subseteq Nat, S # {}
    PROVE  \E i \in S : \A k \in S : i <= k
<1>1. PICK R : R = OpToRel(<, Nat)  OBVIOUS
<1>2. IsWellFoundedOn(R, Nat)  BY <1>1, NatLessThanWellFounded
<1>3. PICK i \in S : \A k \in S : <<k, i>> \notin R  BY <1>2, WFMin
<1>4. \A k \in S : ~(k < i)  BY <1>1, <1>3 DEF OpToRel
<1> QED  BY <1>4

\* Every rank in a set of positions is taken.
LEMMA Ranks ==
    ASSUME NEW n \in Nat, NEW K, K \subseteq 1 .. n, NEW j \in 1 .. Cardinality(K)
    PROVE  \E i \in K : Cardinality({k \in K : k <= i}) = j
<1> DEFINE below(i) == {k \in K : k <= i}
           rank(i)  == Cardinality(below(i))
<1>0. IsFiniteSet(K) /\ Cardinality(K) \in Nat
  <2>1. IsFiniteSet(1 .. n)  BY FS_Interval
  <2>2. IsFiniteSet(K)  BY <2>1, FS_Subset
  <2> QED  BY <2>2, FS_CardinalityType
<1>1. ASSUME NEW i PROVE IsFiniteSet(below(i)) /\ rank(i) \in Nat
  <2>1. below(i) \subseteq K  OBVIOUS
  <2>2. IsFiniteSet(below(i))  BY <1>0, <2>1, FS_Subset
  <2> QED  BY <2>2, FS_CardinalityType
<1>2. \A k \in K : k \in Nat /\ 1 <= k /\ k <= n  OBVIOUS
<1>3. below(n) = K /\ below(0) = {}
  <2>1. \A k \in K : k <= n /\ ~(k <= 0)  BY <1>2
  <2> QED  BY <2>1
<1>4. ASSUME NEW i \in Nat, i # 0
      PROVE  /\ i \notin K => below(i) = below(i - 1)
             /\ i \in K => below(i) = below(i - 1) \cup {i}
             /\ i \notin below(i - 1)
  <2>1. \A k \in K : k <= i <=> k <= i - 1 \/ k = i  BY <1>2
  <2>2. ~(i <= i - 1)  OBVIOUS
  <2> QED  BY <2>1, <2>2
<1> HIDE DEF below
<1>5. rank(n) = Cardinality(K) /\ rank(0) = 0  BY <1>3, FS_EmptySet
<1>6. ASSUME NEW i \in Nat, i # 0
      PROVE  /\ i \notin K => rank(i) = rank(i - 1)
             /\ i \in K => rank(i) = rank(i - 1) + 1
  <2>1. IsFiniteSet(below(i - 1))  BY <1>1
  <2> QED  BY <1>4, <1>6, <2>1, FS_AddElement
<1> HIDE DEF rank
<1> DEFINE S == {i \in 0 .. n : rank(i) >= j}
<1>7. S \subseteq Nat /\ S # {}
  <2>1. n \in S  BY <1>0, <1>5
  <2> QED  BY <2>1
<1>8. PICK i \in S : \A k \in S : i <= k  BY <1>7, Least
<1>9. i \in Nat /\ i <= n /\ i # 0 /\ rank(i) >= j  BY <1>0, <1>5, <1>8
<1>10. i - 1 \in 0 .. n /\ i - 1 \notin S  BY <1>8, <1>9
<1>11. rank(i) \in Nat /\ rank(i - 1) \in Nat /\ j \in Nat  BY <1>0, <1>1
<1>12. rank(i - 1) < j  BY <1>10, <1>11
<1>13. i \in K /\ rank(i) = j  BY <1>6, <1>9, <1>11, <1>12
<1> QED  BY <1>13 DEF rank, below

LEMMA Leaves ==
    ASSUME NEW q \in Seq(Tasks), NEW t \in Tasks
    PROVE  /\ Without(q, t) \in Seq(Tasks) /\ ~Waits(Without(q, t), t)
           /\ \A u \in Tasks : Fewer(Without(q, t), q, u)
<1>1. /\ Len(q) \in Nat /\ DOMAIN q = 1 .. Len(q)
      /\ \A i \in 1 .. Len(q) : q[i] \in Tasks
  BY InQueue
<1> DEFINE kept == {i \in DOMAIN q : q[i] # t}
           place(i) == Cardinality({k \in kept : k <= i})
           from(j) == CHOOSE i \in kept : place(i) = j
           r == [j \in 1 .. Cardinality(kept) |-> q[from(j)]]
<1>2. kept \subseteq 1 .. Len(q)  BY <1>1
<1>3. Cardinality(kept) \in Nat
  <2>1. IsFiniteSet(1 .. Len(q))  BY <1>1, FS_Interval
  <2>2. IsFiniteSet(kept)  BY <1>2, <2>1, FS_Subset
  <2> QED  BY <2>2, FS_CardinalityType
<1>4. ASSUME NEW j \in 1 .. Cardinality(kept) PROVE from(j) \in kept /\ place(from(j)) = j
  <2>1. \E i \in kept : place(i) = j  BY <1>1, <1>2, Ranks
  <2> QED  BY <2>1
<1>5. Without(q, t) = r  BY DEF Without
<1> HIDE DEF place
<1>6. /\ DOMAIN r = 1 .. Cardinality(kept)
      /\ \A j \in DOMAIN r : from(j) \in kept /\ place(from(j)) = j /\ r[j] = q[from(j)]
  BY <1>4
<1>7. \A j \in 1 .. Cardinality(kept) : r[j] \in Tasks  BY <1>1, <1>2, <1>6
<1>8. r \in Seq(Tasks)
  <2>1. PICK n \in Nat : n = Cardinality(kept)  BY <1>3
  <2>2. PICK s \in [1 .. n -> Tasks] : s = r  BY <1>7, <2>1
  <2>3. s \in Seq(Tasks)  OBVIOUS
  <2> QED  BY <2>2, <2>3
<1> HIDE DEF from
<1>9. \A i \in kept : i \in DOMAIN q /\ q[i] # t  OBVIOUS
<1> HIDE DEF kept, r
<1>10. ~Waits(r, t)  BY <1>6, <1>9 DEF Waits
<1>11. \A i, j \in DOMAIN r : from(i) = from(j) => i = j  BY <1>6
<1>12. \A u \in Tasks : Fewer(r, q, u)  BY <1>6, <1>9, <1>11 DEF Fewer, Once, Waits
<1> QED  BY <1>5, <1>8, <1>10, <1>12

LEMMA Joins ==
    ASSUME NEW q \in Seq(Tasks), NEW t \in Tasks
    PROVE  /\ Append(q, t) \in Seq(Tasks)
           /\ ~Waits(q, t) => Once(Append(q, t), t)
           /\ \A u \in Tasks : u # t => Fewer(Append(q, t), q, u)
<1>1. Len(q) \in Nat /\ DOMAIN q = 1 .. Len(q)  BY InQueue
<1> DEFINE r == Append(q, t)
<1>2. /\ r \in Seq(Tasks) /\ Len(r) = Len(q) + 1
      /\ \A i \in 1 .. Len(q) : r[i] = q[i]
      /\ r[Len(q) + 1] = t
  BY AppendProperties
<1>3. DOMAIN r = 1 .. Len(q) + 1  BY <1>2, InQueue
<1> HIDE DEF r
<1>4. \A i \in DOMAIN r : (i \in DOMAIN q /\ r[i] = q[i]) \/ (i = Len(q) + 1 /\ r[i] = t)
  BY <1>1, <1>2, <1>3
<1>5. ~Waits(q, t) => Once(r, t)  BY <1>4 DEF Waits, Once
<1>6. \A u \in Tasks : u # t => Fewer(r, q, u)  BY <1>4 DEF Fewer, Waits, Once
<1> QED  BY <1>2, <1>5, <1>6 DEF r

-----------------------------------------------------------------------------
(* Aborting a post changes nothing of this, and draining the queue gives   *)
(* each task that leaves it one chain.                                     *)

Flagged(base, flows) ==
    /\ base \in [Callers -> FlowType]
    /\ \A c \in Callers :
          /\ base[c].at = flows[c].at
          /\ base[c].at # "away" => base[c].task = flows[c].task /\ base[c].file = flows[c].file

LEMMA AloneFlagged ==
    ASSUME NEW flows, NEW base, Flagged(base, flows), NEW t \in Tasks, NEW x, NEW q,
           Alone(t, x, q, flows)
    PROVE  Alone(t, x, q, base)
<1>1. \A c \in Callers : On(base[c], t) <=> On(flows[c], t)  BY DEF On, Flagged
<1>2. \A c \in Callers : On(base[c], t) /\ Fits(x, flows[c]) => Fits(x, base[c])
  BY DEF On, Flagged, Fits
<1> QED  BY <1>1, <1>2 DEF Alone

LEMMA OwnsFlagged ==
    ASSUME NEW flows, NEW base, Flagged(base, flows), NEW t \in Tasks, NEW f \in Files,
           NEW tasks, NEW auth, NEW calls
    PROVE  Owns(tasks, auth, base, calls, t, f) <=> Owns(tasks, auth, flows, calls, t, f)
<1>1. \A c \in Callers : /\ On(base[c], t) <=> On(flows[c], t)
                         /\ Brings(base[c], calls[c], f) <=> Brings(flows[c], calls[c], f)
  BY DEF On, Flagged, Brings
<1> QED  BY <1>1 DEF Owns

LEMMA TalksFlagged ==
    ASSUME NEW flows, NEW base, Flagged(base, flows), NEW c \in Callers, NEW z, Talks(flows[c], z)
    PROVE  Talks(base[c], z)
BY DEF Flagged, Talks, Asked

LEMMA Drains ==
    ASSUME NEW tasks, NEW q, NEW auth, NEW control, NEW base, NEW calls, NEW twice, NEW made,
           Browser(tasks, q, auth, base, calls, twice, made),
           Drain(q, tasks, auth, control, base)
    PROVE  /\ Browser(task', pending', authorized', flow', calls, twice, made)
           /\ \A t \in Tasks : /\ task'[t].file = tasks[t].file
                               /\ task'[t].state = tasks[t].state \/ task'[t].state = "uploading"
                               /\ tasks[t].state = "removed" => task'[t].state = "removed"
           /\ \A c \in Callers : flow'[c] = base[c] \/ (base[c].at = "away" /\ flow'[c].at = "posting")
<1>0. /\ tasks \in [Tasks -> TaskType] /\ base \in [Callers -> FlowType]
      /\ q \in Seq(Tasks) /\ auth \in Authority /\ calls \in [Callers -> CallStates]
      /\ Len(q) \in Nat /\ DOMAIN q = 1 .. Len(q) /\ \A i \in 1 .. Len(q) : q[i] \in Tasks
  BY InQueue DEF Browser, Typed
<1> DEFINE free == {s \in Slots : base[s].at = "away"}
           due(m) == {i \in 1 .. m : tasks[q[i]].state \notin {"missing", "removed"} /\ auth[q[i]] # None}
           entry(t) == {i \in DOMAIN q : q[i] = t}
           up(t) == [tasks[t] EXCEPT !.state = "uploading", !.stage = ""]
           post(i) == Awaiting("posting", q[i], auth[q[i]], 0)
<1>1. \E m \in 0 .. Len(q) :
        /\ m = Len(q) \/ Cardinality(due(m)) = Cardinality(free)
        /\ \A k \in 0 .. m - 1 : Cardinality(due(k)) < Cardinality(free)
        /\ \E S \in SUBSET free : \E place \in Bijection(S, due(m)) :
              /\ flow' = [c \in Callers |-> IF c \in S THEN post(place[c]) ELSE base[c]]
              /\ controller' = [t \in Tasks |->
                    IF due(m) \cap entry(t) = {} THEN control[t]
                    ELSE CHOOSE s \in S : place[s] = Max(due(m) \cap entry(t))]
        /\ pending' = SubSeq(q, m + 1, Len(q))
        /\ sent' = sent \cup {auth[q[i]] : i \in due(m)}
        /\ task' = [t \in Tasks |-> IF due(m) \cap entry(t) = {} THEN tasks[t] ELSE up(t)]
        /\ authorized' = auth
  BY ZenonT(30) DEF Drain
<1> HIDE DEF free, due, entry, up, post
<1>2. PICK m \in 0 .. Len(q) :
        /\ \E S \in SUBSET free : \E place \in Bijection(S, due(m)) :
              flow' = [c \in Callers |-> IF c \in S THEN post(place[c]) ELSE base[c]]
        /\ pending' = SubSeq(q, m + 1, Len(q))
        /\ task' = [t \in Tasks |-> IF due(m) \cap entry(t) = {} THEN tasks[t] ELSE up(t)]
        /\ authorized' = auth
  BY <1>1
<1>3. PICK S \in SUBSET free : \E place \in Bijection(S, due(m)) :
              flow' = [c \in Callers |-> IF c \in S THEN post(place[c]) ELSE base[c]]
  BY <1>2
<1>4. PICK place \in Bijection(S, due(m)) :
              flow' = [c \in Callers |-> IF c \in S THEN post(place[c]) ELSE base[c]]
  BY <1>3
<1>5. PICK T : T = due(m)  OBVIOUS
<1>6. \A i \in T : /\ i \in DOMAIN q /\ i \in 1 .. m /\ q[i] \in Tasks
                   /\ tasks[q[i]].state \notin {"missing", "removed"}
                   /\ auth[q[i]] \in Files
  BY <1>0, <1>2, <1>5 DEF due, Authority
<1>7. /\ S \subseteq Callers
      /\ \A c \in S : base[c].at = "away" /\ place[c] \in T
      /\ \A c, d \in S : place[c] = place[d] => c = d
  <2>1. place \in [S -> T] /\ \A c, d \in S : place[c] = place[d] => c = d
    BY <1>5 DEF Bijection, Injection, IsInjective
  <2>2. Slots \subseteq Callers  BY QueueAssumption
  <2> QED  BY <2>1, <2>2 DEF free
<1>8. \A t \in Tasks : /\ up(t) \in TaskType /\ up(t).state = "uploading" /\ up(t).file = tasks[t].file
  <2> SUFFICES ASSUME NEW t \in Tasks
               PROVE  up(t) \in TaskType /\ up(t).state = "uploading" /\ up(t).file = tasks[t].file
    OBVIOUS
  <2>1. tasks[t] \in TaskType  BY <1>0
  <2>2. "uploading" \in TaskStates /\ "" \in Stages  BY DEF TaskStates, Stages
  <2> QED  BY <2>1, <2>2 DEF up, TaskType
<1>9. \A i \in T : /\ post(i) \in FlowType /\ post(i).at = "posting"
                   /\ post(i).task = q[i] /\ post(i).file = auth[q[i]]
  <2> SUFFICES ASSUME NEW i \in T
               PROVE  /\ post(i) \in FlowType /\ post(i).at = "posting"
                      /\ post(i).task = q[i] /\ post(i).file = auth[q[i]]
    OBVIOUS
  <2>1. q[i] \in Tasks /\ auth[q[i]] \in Files  BY <1>6
  <2>2. "posting" \in Filing /\ 0 \in Nat /\ FALSE \in BOOLEAN  BY DEF Filing
  <2>3. post(i).at = "posting" /\ post(i).task = q[i] /\ post(i).file = auth[q[i]]
    BY DEF post, Awaiting
  <2>4. post(i) \in [at : Filing, task : Tasks, file : Files, attempt : Nat, aborted : BOOLEAN]
    BY <2>1, <2>2 DEF post, Awaiting
  <2> QED  BY <2>3, <2>4 DEF FlowType
\* The tasks that leave the queue.
<1>10. PICK L : L = {q[i] : i \in T}  OBVIOUS
<1>11. /\ \A t \in Tasks : task'[t] = IF t \in L THEN up(t) ELSE tasks[t]
       /\ \A c \in Callers : flow'[c] = IF c \in S THEN post(place[c]) ELSE base[c]
       /\ task' \in [Tasks -> TaskType] /\ flow' \in [Callers -> FlowType]
  <2>1. \A t \in Tasks : due(m) \cap entry(t) = {} <=> t \notin L
    BY <1>5, <1>6, <1>10 DEF entry
  <2>2. task' = [t \in Tasks |-> IF due(m) \cap entry(t) = {} THEN tasks[t] ELSE up(t)]
    BY <1>2
  <2>3. \A t \in Tasks : task'[t] = IF t \in L THEN up(t) ELSE tasks[t]
    BY <2>1, <2>2
  <2>4. task' \in [Tasks -> TaskType]
    <3>1. \A t \in Tasks : (IF due(m) \cap entry(t) = {} THEN tasks[t] ELSE up(t)) \in TaskType
      BY <1>0, <1>8
    <3> QED  BY <2>2, <3>1
  <2>5. \A c \in Callers : flow'[c] = IF c \in S THEN post(place[c]) ELSE base[c]  BY <1>4
  <2>6. flow' \in [Callers -> FlowType]
    <3>1. \A c \in Callers : (IF c \in S THEN post(place[c]) ELSE base[c]) \in FlowType
      BY <1>0, <1>7, <1>9
    <3> QED  BY <1>4, <3>1
  <2> QED  BY <2>3, <2>4, <2>5, <2>6
<1>12. PICK rest : rest = SubSeq(q, m + 1, Len(q))  OBVIOUS
<1>13. /\ rest \in Seq(Tasks)
       /\ \A t \in Tasks : Fewer(rest, q, t) /\ (Once(q, t) /\ Waits(rest, t) => t \notin L)
  <2>1. /\ rest \in Seq(Tasks)
        /\ \A t \in Tasks : /\ Fewer(rest, q, t)
                            /\ Once(q, t) /\ Waits(rest, t) => \A i \in 1 .. m : q[i] # t
    BY <1>0, <1>12, Suffix
  <2> QED  BY <1>6, <1>10, <2>1
<1>14. pending' = rest /\ authorized' = auth  BY <1>2, <1>12
<1>15. Typed(task', pending', authorized', flow', calls)
  BY <1>0, <1>11, <1>13, <1>14 DEF Typed
<1>16. \A c \in Callers : flow'[c] = base[c] \/ (base[c].at = "away" /\ flow'[c].at = "posting")
  BY <1>7, <1>9, <1>11
<1>17. \A c \in Callers : Talks(flow'[c], calls[c])
  <2> SUFFICES ASSUME NEW c \in Callers PROVE Talks(flow'[c], calls[c])
    OBVIOUS
  <2>1. Talks(base[c], calls[c])  BY DEF Browser
  <2>2. CASE flow'[c] = base[c]  BY <2>1, <2>2
  <2>3. CASE base[c].at = "away" /\ flow'[c].at = "posting"  BY <2>1, <2>3 DEF Talks
  <2> QED  BY <1>16, <2>2, <2>3
<1>18. \A t \in Tasks : /\ task'[t].file = tasks[t].file
                        /\ task'[t].state = tasks[t].state \/ task'[t].state = "uploading"
                        /\ tasks[t].state = "removed" => task'[t].state = "removed"
  BY <1>6, <1>8, <1>10, <1>11
<1>19. Lone(task', pending', flow', twice)
  <2> SUFFICES ASSUME NEW t \in Tasks, t \notin twice, task'[t].state # "removed"
               PROVE  Alone(t, task'[t], rest, flow')
    BY <1>14 DEF Lone
  <2>1. Alone(t, tasks[t], q, base)  BY <1>18 DEF Browser, Lone
  <2>2. Once(rest, t) /\ (Waits(rest, t) => Waits(q, t))  BY <1>13, <2>1 DEF Fewer, Alone
  <2>3. CASE t \in L
    <3>1. PICK i \in T : q[i] = t  BY <1>10, <2>3
    <3>2. ~Waits(rest, t)  BY <1>13, <2>1, <2>3 DEF Alone
    <3>3. \A c \in Callers : ~On(base[c], t)  BY <1>6, <2>1, <3>1 DEF Alone, Waits
    <3>4. ASSUME NEW c \in Callers, On(flow'[c], t)
          PROVE  c \in S /\ place[c] = i /\ Fits(task'[t], flow'[c])
      <4>1. c \in S  BY <1>11, <3>3, <3>4
      <4>2. place[c] \in T /\ flow'[c].at = "posting" /\ q[place[c]] = t
        BY <1>7, <1>9, <1>11, <3>4, <4>1 DEF On
      <4>3. place[c] = i  BY <1>6, <2>1, <3>1, <4>2 DEF Alone, Once
      <4>4. task'[t].state = "uploading"  BY <1>8, <1>11, <2>3
      <4> QED  BY <4>1, <4>2, <4>3, <4>4 DEF Fits
    <3>5. \A c, d \in Callers : On(flow'[c], t) /\ On(flow'[d], t) => c = d  BY <1>7, <3>4
    <3> QED  BY <2>2, <3>2, <3>4, <3>5 DEF Alone
  <2>4. CASE t \notin L
    <3>1. task'[t] = tasks[t]  BY <1>11, <2>4
    <3>2. \A c \in Callers : On(flow'[c], t) => flow'[c] = base[c]
      BY <1>7, <1>9, <1>10, <1>11, <2>4 DEF On
    <3> QED  BY <2>1, <2>2, <3>1, <3>2 DEF Alone
  <2> QED  BY <2>3, <2>4
<1>20. ASSUME NEW t \in Tasks, NEW f \in Files, Owns(task', auth, flow', calls, t, f)
       PROVE  Owns(tasks, auth, base, calls, t, f)
  <2>1. CASE task'[t].file = f \/ auth[t] = f  BY <1>18, <2>1 DEF Owns
  <2>2. ASSUME NEW c \in Callers, On(flow'[c], t), Brings(flow'[c], calls[c], f)
        PROVE  Owns(tasks, auth, base, calls, t, f)
    <3>1. CASE c \in S
      <4>1. flow'[c].at = "posting" /\ q[place[c]] = t /\ flow'[c].file = auth[q[place[c]]]
        BY <1>7, <1>9, <1>11, <2>2, <3>1 DEF On
      <4>2. auth[t] = f  BY <2>2, <4>1 DEF Brings
      <4> QED  BY <4>2 DEF Owns
    <3>2. CASE c \notin S  BY <1>11, <2>2, <3>2 DEF Owns
    <3> QED  BY <3>1, <3>2
  <2> QED  BY <1>20, <2>1, <2>2 DEF Owns
<1>21. Owned(task', authorized', flow', calls, made)  BY <1>14, <1>20 DEF Browser, Owned
<1> QED  BY <1>15, <1>16, <1>17, <1>18, <1>19, <1>21 DEF Browser

-----------------------------------------------------------------------------
(* The invariant of the composition: what the browser shows as ready is    *)
(* so, and every file that has a row is remembered by somebody.            *)

Made == {f \in Files : Exists(f)}
BrowserInv == Browser(task, pending, authorized, flow, call, doubled, Made)

\* Ready, or being deleted or expired since.
Settled(f) == Usable(f) \/ row[f].gone \/ row[f].status \in {"expired", "deleting"}
HearsReady(y, z) ==
    y.at \in {"completing", "fetching"} /\ z.at = "answered" /\ z.with = "ready"
ReadyInv ==
    \A t \in Tasks \ doubled :
        /\ task[t].state = "ready" => task[t].file \in Files /\ Settled(task[t].file)
        /\ task[t].state # "removed" =>
               \A c \in Callers :
                   On(flow[c], t) /\ HearsReady(flow[c], call[c]) => Settled(flow[c].file)

Doomed(f) == row[f].status = "deleting" => job[f].active
Held(f) ==
    \/ f \in discards \cup left
    \/ job[f].active
    \/ \E t \in Tasks : task[t].file = f
    \/ \E c \in Callers : flow[c].at = "authorizing" /\ call[c].at = "answered" /\ call[c].file = f
KeptInv ==
    /\ \A f \in Files : row[f].status # "deleted" /\ Doomed(f)
    /\ \A c \in Callers :
          flow[c].at = "replacing" /\ call[c].at = "answered" => job[flow[c].file].active
    /\ discards \subseteq Made
    /\ Heard => \A f \in Made : Held(f)

QueueInv == FilesInv /\ BrowserInv /\ ReadyInv /\ KeptInv

LEMMA Forgets ==
    ASSUME FilesInv, NEW c \in Callers, call' = [call EXCEPT ![c] = Idle],
           UNCHANGED <<row, object, form, job, worker, torn>>
    PROVE  FilesInv'
<1> DEFINE f == call[c].file
<1>1. /\ UNCHANGED row /\ UNCHANGED job /\ UNCHANGED worker /\ UNCHANGED form
      /\ UNCHANGED object /\ UNCHANGED torn
  OBVIOUS
<1>2. Idle \in CallStates /\ Idle.at = "idle"  BY DEF CallStates, Idle
<1>3. CASE call[c].at = "idle"
  <2>1. call[c] \in CallStates  BY StatesAreTyped
  <2>2. call[c] = Idle  BY <1>3, <2>1 DEF CallStates, Places, Verdicts
  <2>3. call \in [Callers -> CallStates]  BY DEF FilesInv, Types
  <2>4. call' = call  BY <2>2, <2>3
  <2>5. UNCHANGED fileVars  BY <1>1, <2>4 DEF fileVars
  <2> QED  BY <2>5, FilesInvNext
<1>4. CASE call[c].at # "idle"
  <2>1. f \in Files  BY <1>4, StatesAreTyped
  <2>2. /\ row[f] \in Row /\ object[f] \in Objects /\ job[f] \in Job
        /\ form \in [Files -> BOOLEAN]
    BY <2>1, StatesAreTyped
  <2>3. job' = [job EXCEPT ![f] = job[f]] /\ row' = [row EXCEPT ![f] = row[f]]
        /\ object' = [object EXCEPT ![f] = object[f]]
    BY <1>1, <2>1, Unwritten
  <2>4. /\ row[f].status = "none" => ~job[f].active
        /\ row[f].status # "none" \/ object[f] # "stored" =>
              \A d \in Callers \ {c} : ~Puts(call[d], f)
    BY <2>1 DEF FilesInv, Unknown, PutAlone
  <2>5. ~SaysReady(Idle, f)  BY <1>2 DEF SaysReady, Verdicts
  <2>6. row[f].status = "ready" => FoundReady(f)  BY DEF FoundReady
  <2>7. CallerStep(c, f, row[f], object[f], job[f], Idle)
    BY <1>1, <1>2, <2>1, <2>2, <2>3, <2>4, <2>5, <2>6 DEF CallerStep
  <2> QED  BY <2>1, <2>7, CallerMoves
<1> QED  BY <1>3, <1>4

LEMMA DiscardKeeps ==
    ASSUME FilesInv, NEW f \in Files, row[f].status # "none",
           SetStatus(f, "deleting"), Enqueue(f),
           UNCHANGED <<object, form, call, worker, torn>>
    PROVE  FilesInv'
<1>1. UNCHANGED object /\ UNCHANGED form /\ UNCHANGED call /\ UNCHANGED worker /\ UNCHANGED torn
  OBVIOUS
<1>2. "deleting" \in Statuses  BY DEF Statuses
<1>3. PICK r \in Row : /\ row' = [row EXCEPT ![f] = r]
                       /\ r.status = "deleting" /\ r.gone = row[f].gone
  BY <1>2, StatusIsRow
<1>4. PICK j \in Job : job' = [job EXCEPT ![f] = j]  BY EnqueueIsJob
<1>5. row \in [Files -> Row] /\ job \in [Files -> Job] /\ Types  BY StatesAreTyped DEF FilesInv
<1>6. row' \in [Files -> Row] /\ job' \in [Files -> Job]  BY <1>3, <1>4, <1>5
<1>7. Types'  BY <1>1, <1>5, <1>6 DEF Types, TypeOK, Row, Job, Statuses
<1>8. ASSUME NEW g \in Files PROVE Unknown(g)' /\ PutAlone(g)' /\ Kept(g)'
  <2>0. Unknown(g) /\ PutAlone(g) /\ Kept(g)  BY DEF FilesInv
  <2>1. CASE g # f
    <3>1. row'[g] = row[g] /\ job'[g] = job[g]  BY <1>3, <1>4, <1>5, <2>1
    <3>2. Same(g)  BY <1>1, <3>1 DEF Same
    <3> QED  BY <2>0, <3>2, Elsewhere
  <2>2. CASE g = f
    <3>1. row'[g].status = "deleting" /\ row'[g].gone = row[g].gone  BY <1>3, <1>5, <2>2
    <3>2. Unknown(g)'  BY <3>1 DEF Unknown
    <3>3. PutAlone(g)'  BY <1>1, <2>0, <2>2 DEF PutAlone
    <3>4. FoundReady(g)' => FoundReady(g)  BY <1>1, <3>1 DEF FoundReady
    <3>5. Kept(g)'  BY <1>1, <2>0, <3>1, <3>4 DEF Kept, ErasedBy
    <3> QED  BY <3>2, <3>3, <3>5
  <2> QED  BY <2>1, <2>2
<1> QED  BY <1>7, <1>8 DEF FilesInv

LEMMA QueueTypes ==
    ASSUME QueueInv
    PROVE  /\ task \in [Tasks -> TaskType] /\ pending \in Seq(Tasks) /\ authorized \in Authority
           /\ flow \in [Callers -> FlowType] /\ call \in [Callers -> CallStates]
           /\ Flagged(flow, flow)
BY DEF QueueInv, BrowserInv, Browser, Typed, Flagged

\* A step of the browser, and the draining of the queue that may end it: the
\* tasks, the queue, the authorizations and the flows become ts, q2, auth2 and bs.
Steps(ts, q2, auth2, bs) ==
    /\ Typed(ts, q2, auth2, bs, call') /\ \A c \in Callers : Talks(bs[c], call'[c])
    /\ Lone(ts, q2, bs, doubled')
    /\ \A t \in Tasks, f \in Files :
           Owns(ts, auth2, bs, call', t, f) => Owns(task, authorized, flow, call, t, f)
    /\ doubled \subseteq doubled'
    /\ \A t \in Tasks : task[t].state = "removed" => ts[t].state = "removed"
    /\ \A t \in Tasks \ doubled' : ts[t].state = "ready" => ts[t].file \in Files /\ Settled(ts[t].file)
    /\ \A c \in Callers :
          call'[c] # Idle =>
              /\ call'[c] = call[c] /\ bs[c].at = flow[c].at
              /\ bs[c].at # "away" => bs[c].task = flow[c].task /\ bs[c].file = flow[c].file
    /\ \A t \in Tasks, f \in Files :
          task[t].file = f => ts[t].file = f \/ f \in discards' \cup left' \/ job[f].active
    /\ \A c \in Callers, f \in Files :
          flow[c].at = "authorizing" /\ call[c].at = "answered" /\ call[c].file = f =>
              \/ bs[c].at = "authorizing" /\ call'[c] = call[c]
              \/ f \in discards' \cup left' \/ \E t \in Tasks : ts[t].file = f
    /\ discards \cup left \subseteq discards' \cup left' /\ discards' \subseteq Made
    /\ UNCHANGED <<row, object, form, job, worker, torn>>

LEMMA StepsKeep ==
    ASSUME QueueInv, NEW ts, NEW q2, NEW auth2, NEW bs, NEW control,
           Steps(ts, q2, auth2, bs), FilesInv',
           \/ task' = ts /\ pending' = q2 /\ authorized' = auth2 /\ flow' = bs
           \/ Drain(q2, ts, auth2, control, bs)
    PROVE  QueueInv'
<1>0. /\ Browser(task, pending, authorized, flow, call, doubled, Made)
      /\ FilesInv /\ ReadyInv /\ KeptInv
  BY DEF QueueInv, BrowserInv
<1>1. /\ row' = row /\ job' = job /\ Made' = Made
      /\ doubled \subseteq doubled' /\ discards' \subseteq Made
      /\ discards \cup left \subseteq discards' \cup left'
  BY DEF Steps, Made, Exists
<1>2. Browser(ts, q2, auth2, bs, call', doubled', Made)
  <2>1. Owned(ts, auth2, bs, call', Made)  BY <1>0 DEF Steps, Browser, Owned
  <2> QED  BY <2>1 DEF Steps, Browser
<1>3. /\ Browser(task', pending', authorized', flow', call', doubled', Made)
      /\ \A t \in Tasks : /\ task'[t].file = ts[t].file
                          /\ task'[t].state = ts[t].state \/ task'[t].state = "uploading"
                          /\ ts[t].state = "removed" => task'[t].state = "removed"
      /\ \A c \in Callers : flow'[c] = bs[c] \/ (bs[c].at = "away" /\ flow'[c].at = "posting")
  <2>1. CASE Drain(q2, ts, auth2, control, bs)  BY <1>2, <2>1, Drains
  <2>2. CASE task' = ts /\ pending' = q2 /\ authorized' = auth2 /\ flow' = bs
    BY <1>2, <2>2
  <2> QED  BY <2>1, <2>2
<1>4. BrowserInv'  BY <1>1, <1>3 DEF BrowserInv
<1>5. \A f : Settled(f)' <=> Settled(f)
  BY <1>1 DEF Settled, Usable, Visible, Exists
\* What a chain has been told, it was told before.
<1>6. ASSUME NEW c \in Callers, call'[c].at = "answered"
      PROVE  /\ call'[c] = call[c] /\ flow'[c] = bs[c] /\ flow'[c].at = flow[c].at
             /\ flow'[c].at # "away" => flow'[c].task = flow[c].task /\ flow'[c].file = flow[c].file
  <2>1. call'[c] # Idle  BY <1>6 DEF Idle
  <2>2. bs[c].at # "away"  BY <1>2, <1>6 DEF Browser, Talks
  <2>3. flow'[c] = bs[c]  BY <1>3, <2>2
  <2> QED  BY <2>1, <2>3 DEF Steps
<1>7. ReadyInv'
  <2>1. ASSUME NEW t \in Tasks, t \notin doubled', task'[t].state = "ready"
        PROVE  task'[t].file \in Files /\ Settled(task[t].file)'
    <3>1. ts[t].state = "ready" /\ task'[t].file = ts[t].file  BY <1>3, <2>1
    <3>2. ts[t].file \in Files /\ Settled(ts[t].file)  BY <2>1, <3>1 DEF Steps
    <3> QED  BY <1>1, <3>1, <3>2 DEF Settled, Usable, Visible, Exists
  <2>2. ASSUME NEW t \in Tasks, t \notin doubled', task'[t].state # "removed",
               NEW c \in Callers, On(flow'[c], t), HearsReady(flow'[c], call'[c])
        PROVE  Settled(flow[c].file)'
    <3>1. /\ call'[c] = call[c] /\ flow'[c].at = flow[c].at
          /\ flow'[c].task = flow[c].task /\ flow'[c].file = flow[c].file
      BY <1>6, <2>2 DEF HearsReady, On
    <3>2. task[t].state # "removed" /\ t \notin doubled
      BY <1>1, <1>3, <2>2 DEF Steps
    <3>3. On(flow[c], t) /\ HearsReady(flow[c], call[c])  BY <2>2, <3>1 DEF On, HearsReady
    <3>4. Settled(flow[c].file)  BY <1>0, <3>2, <3>3 DEF ReadyInv
    <3> QED  BY <1>1, <3>1, <3>4 DEF Settled, Usable, Visible, Exists
  <2> QED  BY <2>1, <2>2 DEF ReadyInv
<1>8. KeptInv'
  <2>1. \A f \in Files : row'[f].status # "deleted" /\ Doomed(f)'
    BY <1>0, <1>1 DEF KeptInv, Doomed
  <2>2. ASSUME NEW c \in Callers, flow'[c].at = "replacing", call'[c].at = "answered"
        PROVE  job'[flow'[c].file].active
    BY <1>0, <1>1, <1>6, <2>2 DEF KeptInv
  <2>3. ASSUME Heard, NEW f \in Made PROVE Held(f)'
    <3>0. Held(f) /\ f \in Files  BY <1>0, <2>3 DEF KeptInv, Made
    <3>1. CASE f \in discards \cup left  BY <1>1, <3>1 DEF Held
    <3>2. CASE job[f].active  BY <1>1, <3>2 DEF Held
    <3>3. ASSUME NEW t \in Tasks, task[t].file = f PROVE Held(f)'
      <4>1. ts[t].file = f \/ f \in discards' \cup left' \/ job[f].active
        BY <3>0, <3>3 DEF Steps
      <4> QED  BY <1>1, <1>3, <3>3, <4>1 DEF Held
    <3>4. ASSUME NEW c \in Callers, flow[c].at = "authorizing", call[c].at = "answered",
                 call[c].file = f
          PROVE  Held(f)'
      <4>1. \/ bs[c].at = "authorizing" /\ call'[c] = call[c]
            \/ f \in discards' \cup left' \/ \E t \in Tasks : ts[t].file = f
        BY <3>0, <3>4 DEF Steps
      <4>2. CASE bs[c].at = "authorizing" /\ call'[c] = call[c]
        <5>1. flow'[c] = bs[c]  BY <1>3, <4>2
        <5> QED  BY <3>4, <4>2, <5>1 DEF Held
      <4> QED  BY <1>3, <4>1, <4>2 DEF Held
    <3> QED  BY <3>0, <3>1, <3>2, <3>3, <3>4 DEF Held
  <2> QED  BY <1>1, <2>1, <2>2, <2>3 DEF KeptInv
<1> QED  BY <1>4, <1>7, <1>8 DEF QueueInv

\* The chain of caller c works on task t: their entries become y and x, and the
\* answer that c waited for is taken.
Turn(t, c, x, y, q2, auth2) ==
    /\ x \in TaskType /\ y \in FlowType /\ q2 \in Seq(Tasks) /\ auth2 \in Authority
    /\ flow[c].at # "away" => flow[c].task = t
    /\ y.at # "away" => y.task = t
    /\ \A u \in Tasks : u # t => Fewer(q2, pending, u) /\ auth2[u] = authorized[u]
    /\ t \notin doubled' /\ x.state # "removed" =>
          /\ \A d \in Callers : d # c => ~On(flow[d], t)
          /\ Once(q2, t)
          /\ Waits(q2, t) => x.state = "authorizing" /\ y.at = "away"
          /\ y.at # "away" => Fits(x, y)
    /\ \A f \in Files :
          x.file = f \/ auth2[t] = f \/ (y.at # "away" /\ y.file = f) =>
              Owns(task, authorized, flow, call, t, f)
    /\ doubled \subseteq doubled' /\ doubled' \subseteq doubled \cup {t}
    /\ task[t].state = "removed" => x.state = "removed"
    /\ t \notin doubled' /\ x.state = "ready" => x.file \in Files /\ Settled(x.file)
    /\ \A f \in Files :
          task[t].file = f => x.file = f \/ f \in discards' \cup left' \/ job[f].active
    /\ \A f \in Files :
          flow[c].at = "authorizing" /\ call[c].at = "answered" /\ call[c].file = f
              => x.file = f \/ f \in discards' \cup left'
    /\ call' = [call EXCEPT ![c] = Idle]
    /\ discards \cup left \subseteq discards' \cup left' /\ discards' \subseteq Made
    /\ UNCHANGED <<row, object, form, job, worker, torn>>

LEMMA Turns ==
    ASSUME QueueInv, NEW t \in Tasks, NEW c \in Callers, NEW x, NEW y, NEW q2, NEW auth2,
           NEW base, NEW control, Flagged(base, flow), Turn(t, c, x, y, q2, auth2),
           \/ /\ task' = [task EXCEPT ![t] = x] /\ flow' = [base EXCEPT ![c] = y]
              /\ pending' = q2 /\ authorized' = auth2
           \/ Drain(q2, [task EXCEPT ![t] = x], auth2, control, [base EXCEPT ![c] = y])
    PROVE  QueueInv'
<1> DEFINE ts == [task EXCEPT ![t] = x]
           bs == [base EXCEPT ![c] = y]
<1>0. /\ Browser(task, pending, authorized, flow, call, doubled, Made)
      /\ FilesInv
      /\ task \in [Tasks -> TaskType] /\ flow \in [Callers -> FlowType]
      /\ base \in [Callers -> FlowType] /\ call \in [Callers -> CallStates]
      /\ x \in TaskType /\ y \in FlowType
  BY QueueTypes DEF QueueInv, BrowserInv, Turn, Flagged
<1>1. /\ ts[t] = x /\ \A u \in Tasks : u # t => ts[u] = task[u]
      /\ bs[c] = y /\ \A d \in Callers : d # c => bs[d] = base[d]
      /\ ts \in [Tasks -> TaskType] /\ bs \in [Callers -> FlowType]
  BY <1>0
<1>2. /\ call'[c] = Idle /\ \A d \in Callers : d # c => call'[d] = call[d]
      /\ call' \in [Callers -> CallStates] /\ Idle.at = "idle"
  <2>1. Idle \in CallStates /\ Idle.at = "idle"  BY DEF CallStates, Idle
  <2> QED  BY <1>0, <2>1 DEF Turn
<1> HIDE DEF ts, bs
<1>3. Typed(ts, q2, auth2, bs, call')  BY <1>1, <1>2 DEF Typed, Turn
<1>4. \A d \in Callers : Talks(bs[d], call'[d])
  <2> SUFFICES ASSUME NEW d \in Callers PROVE Talks(bs[d], call'[d])
    OBVIOUS
  <2>1. CASE d = c  BY <1>1, <1>2, <2>1 DEF Talks, Asked
  <2>2. CASE d # c
    <3>1. Talks(flow[d], call[d])  BY <1>0 DEF Browser
    <3> QED  BY <1>1, <1>2, <2>2, <3>1, TalksFlagged
  <2> QED  BY <2>1, <2>2
\* The chains of the other callers, and on the other tasks.
<1>5. \A d \in Callers : d # c => /\ \A u : On(bs[d], u) <=> On(flow[d], u)
                                  /\ bs[d].at = flow[d].at
                                  /\ bs[d].at # "away" => bs[d].task = flow[d].task /\ bs[d].file = flow[d].file
  BY <1>1 DEF Flagged, On
<1>6. \A u \in Tasks : u # t => ~On(flow[c], u) /\ ~On(bs[c], u)
  BY <1>1 DEF Turn, On
<1>7. Lone(ts, q2, bs, doubled')
  <2> SUFFICES ASSUME NEW u \in Tasks, u \notin doubled', ts[u].state # "removed"
               PROVE  Alone(u, ts[u], q2, bs)
    BY DEF Lone
  <2>1. CASE u = t
    <3>1. /\ \A d \in Callers : d # c => ~On(flow[d], t)
          /\ Once(q2, t)
          /\ Waits(q2, t) => x.state = "authorizing" /\ y.at = "away"
          /\ y.at # "away" => Fits(x, y)
      BY <1>1, <2>1 DEF Turn
    <3>2. \A d \in Callers : On(bs[d], t) => d = c /\ y.at # "away"  BY <1>1, <1>5, <3>1 DEF On
    <3> QED  BY <1>1, <2>1, <3>1, <3>2 DEF Alone
  <2>2. CASE u # t
    <3>1. u \notin doubled /\ ts[u] = task[u] /\ Fewer(q2, pending, u)
      BY <1>1, <2>2 DEF Turn
    <3>2. Alone(u, task[u], pending, flow)  BY <1>0, <3>1 DEF Browser, Lone
    <3>3. \A d \in Callers : On(bs[d], u) => /\ On(flow[d], u) /\ (Fits(task[u], flow[d]) => Fits(task[u], bs[d]))
      BY <1>5, <1>6, <2>2 DEF Fits, On
    <3> QED  BY <3>1, <3>2, <3>3 DEF Alone, Fewer
  <2> QED  BY <2>1, <2>2
<1>8. ASSUME NEW u \in Tasks, NEW f \in Files, Owns(ts, auth2, bs, call', u, f)
      PROVE  Owns(task, authorized, flow, call, u, f)
  <2>1. ASSUME NEW d \in Callers, d # c, On(bs[d], u), Brings(bs[d], call'[d], f)
        PROVE  Owns(task, authorized, flow, call, u, f)
    <3>1. On(flow[d], u) /\ Brings(flow[d], call[d], f)  BY <1>2, <1>5, <2>1 DEF Brings
    <3> QED  BY <3>1 DEF Owns
  <2>2. CASE u = t
    <3>1. CASE x.file = f \/ auth2[t] = f \/ (y.at # "away" /\ y.file = f)
      BY <2>2, <3>1 DEF Turn
    <3>2. CASE ~(x.file = f \/ auth2[t] = f \/ (y.at # "away" /\ y.file = f))
      <4>1. ~Brings(bs[c], call'[c], f)  BY <1>1, <1>2, <3>2 DEF Brings
      <4> QED  BY <1>1, <1>8, <2>1, <2>2, <3>2, <4>1 DEF Owns
    <3> QED  BY <3>1, <3>2
  <2>3. CASE u # t
    <3>1. ts[u] = task[u] /\ auth2[u] = authorized[u] /\ ~On(bs[c], u)
      BY <1>1, <1>6, <2>3 DEF Turn
    <3> QED  BY <1>8, <2>1, <3>1 DEF Owns
  <2> QED  BY <2>2, <2>3
<1>9. \A u \in Tasks : task[u].state = "removed" => ts[u].state = "removed"
  BY <1>1 DEF Turn
<1>10. ASSUME NEW u \in Tasks, u \notin doubled', ts[u].state = "ready"
       PROVE  ts[u].file \in Files /\ Settled(ts[u].file)
  <2>1. CASE u = t  BY <1>1, <1>10, <2>1 DEF Turn
  <2>2. CASE u # t  BY <1>1, <1>10, <2>2 DEF Turn, QueueInv, ReadyInv
  <2> QED  BY <2>1, <2>2
<1>11. \A d \in Callers :
          call'[d] # Idle =>
              /\ call'[d] = call[d] /\ bs[d].at = flow[d].at
              /\ bs[d].at # "away" => bs[d].task = flow[d].task /\ bs[d].file = flow[d].file
  BY <1>2, <1>5
<1>12. ASSUME NEW u \in Tasks, NEW f \in Files, task[u].file = f
       PROVE  ts[u].file = f \/ f \in discards' \cup left' \/ job[f].active
  <2>1. CASE u = t
    <3>1. task[t].file = f => x.file = f \/ f \in discards' \cup left' \/ job[f].active
      BY DEF Turn
    <3> QED  BY <1>1, <1>12, <2>1, <3>1
  <2>2. CASE u # t  BY <1>1, <1>12, <2>2
  <2> QED  BY <2>1, <2>2
<1>13. ASSUME NEW d \in Callers, NEW f \in Files, flow[d].at = "authorizing",
              call[d].at = "answered", call[d].file = f
       PROVE  \/ bs[d].at = "authorizing" /\ call'[d] = call[d]
              \/ f \in discards' \cup left' \/ \E u \in Tasks : ts[u].file = f
  <2>1. CASE d = c  BY <1>1, <1>13, <2>1 DEF Turn
  <2>2. CASE d # c  BY <1>2, <1>5, <1>13, <2>2
  <2> QED  BY <2>1, <2>2
<1>14. Steps(ts, q2, auth2, bs)
  <2>1. /\ doubled \subseteq doubled'
        /\ discards \cup left \subseteq discards' \cup left' /\ discards' \subseteq Made
        /\ UNCHANGED <<row, object, form, job, worker, torn>>
    BY DEF Turn
  <2> QED  BY ONLY <1>3, <1>4, <1>7, <1>8, <1>9, <1>10, <1>11, <1>12, <1>13, <2>1 DEF Steps
<1>15. FilesInv'  BY <1>0, Forgets DEF Turn
<1> QED  BY <1>14, <1>15, StepsKeep DEF ts, bs

-----------------------------------------------------------------------------
(* The steps of the browser.                                               *)

LEMMA IdleIs ==
    ASSUME QueueInv, NEW c \in Callers, call[c].at = "idle"
    PROVE  call = [call EXCEPT ![c] = Idle]
<1>1. call[c] = Idle  BY QueueTypes DEF CallStates, Places, Verdicts
<1> QED  BY <1>1, QueueTypes

LEMMA Chain ==
    ASSUME QueueInv, NEW c \in Callers, flow[c].at # "away", NEW t, t = flow[c].task
    PROVE  /\ t \in Tasks /\ task[t] \in TaskType /\ flow[c] \in FlowType
           /\ Talks(flow[c], call[c])
           /\ t \notin doubled /\ task[t].state # "removed" =>
                 /\ \A d \in Callers : d # c => ~On(flow[d], t)
                 /\ Once(pending, t) /\ ~Waits(pending, t) /\ Fits(task[t], flow[c])
           /\ \A f \in Files : task[t].file = f \/ flow[c].file = f =>
                  Owns(task, authorized, flow, call, t, f)
<1>1. t \in Tasks /\ task[t] \in TaskType /\ flow[c] \in FlowType
  BY QueueTypes, FlowFields
<1>2. Talks(flow[c], call[c]) /\ Lone(task, pending, flow, doubled)
  BY DEF QueueInv, BrowserInv, Browser
<1>3. On(flow[c], t)  BY DEF On
<1>4. t \notin doubled /\ task[t].state # "removed" =>
            /\ \A d \in Callers : d # c => ~On(flow[d], t)
            /\ Once(pending, t) /\ ~Waits(pending, t) /\ Fits(task[t], flow[c])
  BY <1>1, <1>2, <1>3 DEF Lone, Alone
<1>5. \A f \in Files : task[t].file = f \/ flow[c].file = f =>
            Owns(task, authorized, flow, call, t, f)
  BY <1>3 DEF Owns, Brings
<1> QED  BY <1>1, <1>2, <1>4, <1>5

\* The chain of caller c on task t, not about to get a file, goes on or ends: their
\* entries become y and x.
Onward(t, c, x, y, auth2, control) ==
    /\ flow[c].at \notin {"away", "authorizing"} /\ t = flow[c].task
    /\ x \in TaskType /\ x.file \in {None, task[t].file, flow[c].file}
    /\ y \in FlowType
    /\ y.at # "away" => y.task = t /\ y.file \in {None, task[t].file, flow[c].file}
    /\ t \notin doubled /\ x.state # "removed" /\ y.at # "away" => Fits(x, y)
    /\ t \notin doubled /\ x.state = "ready" => x.file \in Files /\ Settled(x.file)
    /\ task[t].state = "removed" => x.state = "removed"
    /\ \A f \in Files : task[t].file = f => x.file = f \/ f \in left' \/ job[f].active
    /\ call' = [call EXCEPT ![c] = Idle] /\ UNCHANGED <<row, object, form, job, worker, torn>>
    /\ left \subseteq left' /\ discards' = discards /\ doubled' = doubled
    /\ auth2 = authorized \/ auth2 = [authorized EXCEPT ![t] = None]
    /\ \/ /\ task' = [task EXCEPT ![t] = x] /\ flow' = [flow EXCEPT ![c] = y]
          /\ pending' = pending /\ authorized' = auth2
       \/ Drain(pending, [task EXCEPT ![t] = x], auth2, control, [flow EXCEPT ![c] = y])

LEMMA Proceeds ==
    ASSUME QueueInv, NEW c \in Callers, NEW t, NEW x, NEW y, NEW auth2, NEW control,
           Onward(t, c, x, y, auth2, control)
    PROVE  QueueInv'
<1>0. /\ flow[c].at \notin {"away", "authorizing"} /\ t = flow[c].task
      /\ x.file \in {None, task[t].file, flow[c].file}
      /\ auth2 = authorized \/ auth2 = [authorized EXCEPT ![t] = None]
      /\ y.at # "away" => y.task = t /\ y.file \in {None, task[t].file, flow[c].file}
      /\ t \notin doubled /\ x.state # "removed" /\ y.at # "away" => Fits(x, y)
      /\ task[t].state = "removed" => x.state = "removed"
      /\ doubled' = doubled
  BY DEF Onward
<1>1. /\ t \in Tasks /\ None \notin Files
      /\ t \notin doubled /\ task[t].state # "removed" =>
            /\ \A d \in Callers : d # c => ~On(flow[d], t)
            /\ Once(pending, t) /\ ~Waits(pending, t)
      /\ \A f \in Files : task[t].file = f \/ flow[c].file = f =>
             Owns(task, authorized, flow, call, t, f)
  BY <1>0, Chain, QueueAssumption
<1>2. /\ auth2 \in Authority /\ \A u \in Tasks : u # t => auth2[u] = authorized[u]
      /\ auth2[t] \in {None, authorized[t]}
  BY <1>0, <1>1, QueueTypes DEF Authority
<1>3. /\ pending \in Seq(Tasks) /\ Flagged(flow, flow) /\ discards \subseteq Made
  BY QueueTypes DEF QueueInv, KeptInv
<1>4. \A f \in Files :
          x.file = f \/ auth2[t] = f \/ (y.at # "away" /\ y.file = f) =>
              Owns(task, authorized, flow, call, t, f)
  <2> SUFFICES ASSUME NEW f \in Files, x.file = f \/ auth2[t] = f \/ (y.at # "away" /\ y.file = f)
               PROVE  Owns(task, authorized, flow, call, t, f)
    OBVIOUS
  <2>1. task[t].file = f \/ flow[c].file = f \/ authorized[t] = f  BY <1>0, <1>1, <1>2
  <2> QED  BY <1>1, <2>1 DEF Owns
<1>5. \A u \in Tasks : Fewer(pending, pending, u)  BY DEF Fewer
<1>6. t \notin doubled' /\ x.state # "removed" =>
          /\ \A d \in Callers : d # c => ~On(flow[d], t)
          /\ Once(pending, t)
          /\ Waits(pending, t) => x.state = "authorizing" /\ y.at = "away"
          /\ y.at # "away" => Fits(x, y)
  BY <1>0, <1>1
<1>7. Turn(t, c, x, y, pending, auth2)
  BY <1>0, <1>1, <1>2, <1>3, <1>4, <1>5, <1>6 DEF Turn, Onward
<1> QED  BY <1>1, <1>3, <1>7, Turns DEF Onward

LEMMA PostKeeps ==
    ASSUME QueueInv, NEW s \in Callers, PostSucceeds(s) \/ PostFails(s) \/ PostAborted(s)
    PROVE  QueueInv'
<1>0. flow[s].at = "posting"  BY DEF PostSucceeds, PostFails, PostAborted
<1>1. PICK t \in Tasks : t = flow[s].task  BY <1>0, Chain
<1>2. /\ flow[s] \in FlowType /\ task[t] \in TaskType /\ flow[s].file \in Files
      /\ call[s].at = "idle" /\ Away \in FlowType /\ Away.at = "away"
      /\ t \notin doubled /\ task[t].state # "removed" => Fits(task[t], flow[s])
      /\ task = [task EXCEPT ![t] = task[t]]
  <2>1. Talks(flow[s], call[s])  BY <1>0, Chain
  <2> QED  BY <1>0, <1>1, <2>1, Chain, QueueTypes, FlowFields, AwayIs DEF Talks, Filing
<1>3. call = [call EXCEPT ![s] = Idle]  BY <1>2, IdleIs
<1>4. ASSUME NEW x \in TaskType, x.file = task[t].file, x.state # "ready" \/ x = task[t],
             task[t].state = "removed" => x.state = "removed",
             NEW y \in FlowType,
             \/ y = Away
             \/ y.at = "completing" /\ y.task = t /\ y.file = task[t].file /\ x.state = "processing",
             Posted(s, [task EXCEPT ![t] = x], [flow EXCEPT ![s] = y])
      PROVE  QueueInv'
  <2>1. PICK auth2, control, tasks2, flow2 :
            /\ auth2 = [authorized EXCEPT ![t] = None] /\ control = [controller EXCEPT ![t] = None]
            /\ tasks2 = [task EXCEPT ![t] = x] /\ flow2 = [flow EXCEPT ![s] = y]
    OBVIOUS
  <2>2. Drain(pending, tasks2, auth2, control, flow2)  BY <1>1, <1>4, <2>1 DEF Posted
  <2>3. /\ call' = [call EXCEPT ![s] = Idle] /\ UNCHANGED <<row, object, form, job, worker, torn>>
        /\ discards' = discards /\ left' = left /\ doubled' = doubled
    BY <1>3, <1>4 DEF Posted, fileVars
  <2>4. t \notin doubled /\ x.state # "removed" /\ y.at # "away" => Fits(x, y)
    BY <1>2, <1>4 DEF Fits
  <2>5. t \notin doubled /\ x.state = "ready" => x.file \in Files /\ Settled(x.file)
    BY <1>1, <1>4 DEF QueueInv, ReadyInv
  <2>6. /\ x.file \in {None, task[t].file, flow[s].file}
        /\ y.at # "away" => y.task = t /\ y.file \in {None, task[t].file, flow[s].file}
        /\ \A f \in Files : task[t].file = f => x.file = f \/ f \in left' \/ job[f].active
        /\ left \subseteq left' /\ flow[s].at \notin {"away", "authorizing"}
        /\ task[t].state = "removed" => x.state = "removed"
        /\ auth2 = authorized \/ auth2 = [authorized EXCEPT ![t] = None]
        /\ \/ task' = tasks2 /\ flow' = flow2 /\ pending' = pending /\ authorized' = auth2
           \/ Drain(pending, tasks2, auth2, control, flow2)
    BY <1>0, <1>2, <1>4, <2>1, <2>2, <2>3
  <2>7. Onward(t, s, x, y, auth2, control)
    BY <1>1, <1>2, <1>4, <2>1, <2>3, <2>4, <2>5, <2>6 DEF Onward
  <2> QED  BY <2>7, Proceeds
<1>5. CASE PostSucceeds(s)
  <2>1. CASE Listed(t)
    <3> DEFINE x == [task[t] EXCEPT !.state = "processing"]
               y == IF task[t].file = None THEN Away ELSE Awaiting("completing", t, task[t].file, 0)
    <3>1. x \in TaskType /\ x.state = "processing" /\ x.file = task[t].file
      BY <1>2 DEF TaskType, TaskStates, Results
    <3>2. \/ y = Away
          \/ y.at = "completing" /\ y.task = t /\ y.file = task[t].file /\ y.file \in Files
      BY <1>2 DEF Awaiting, TaskType
    <3>3. y \in FlowType
      BY <1>1, <1>2, <3>2 DEF Awaiting, FlowType, Filing
    <3>4. Posted(s, [task EXCEPT ![t] = x], [flow EXCEPT ![s] = y])
      BY <1>1, <1>5, <2>1 DEF PostSucceeds
    <3> HIDE DEF x, y
    <3> QED  BY <1>4, <2>1, <3>1, <3>2, <3>3, <3>4 DEF Listed
  <2>2. CASE ~Listed(t)
    <3>1. Posted(s, [task EXCEPT ![t] = task[t]], [flow EXCEPT ![s] = Away])
      BY <1>1, <1>2, <1>5, <2>2 DEF PostSucceeds
    <3> QED  BY <1>2, <1>4, <3>1
  <2> QED  BY <2>1, <2>2
<1>6. CASE PostFails(s)
  <2>1. CASE flow[s].attempt = 0 /\ Listed(t)
    <3> DEFINE x == [task[t] EXCEPT !.state = "uploading", !.stage = ""]
               y == [flow[s] EXCEPT !.attempt = 1]
    <3>1. x \in TaskType /\ x.state = "uploading" /\ x.file = task[t].file
      BY <1>2 DEF TaskType, TaskStates, Stages
    <3>2. y.at = "posting" /\ y.task = t /\ y.file = flow[s].file /\ y \in FlowType
      BY <1>0, <1>1, <1>2 DEF FlowType, Fileless, Away
    <3>3. PICK tasks2, flow2 : tasks2 = [task EXCEPT ![t] = x] /\ flow2 = [flow EXCEPT ![s] = y]
      OBVIOUS
    <3>4. /\ task' = tasks2 /\ flow' = flow2
          /\ UNCHANGED <<row, object, form, job, worker, torn>> /\ call' = [call EXCEPT ![s] = Idle]
          /\ pending' = pending /\ authorized' = authorized
          /\ left' = left /\ discards' = discards /\ doubled' = doubled
      BY <1>1, <1>3, <1>6, <2>1, <3>3 DEF PostFails, fileVars
    <3> HIDE DEF x, y
    <3>5. Fits(x, y)  BY <3>1, <3>2 DEF Fits
    <3>6. task[t].state # "removed"  BY <2>1 DEF Listed
    <3>7. Onward(t, s, x, y, authorized, controller)
      BY <1>0, <1>1, <3>1, <3>2, <3>3, <3>4, <3>5, <3>6 DEF Onward
    <3> QED  BY <3>7, Proceeds
  <2>2. CASE ~(flow[s].attempt = 0 /\ Listed(t))
    <3>1. CASE Listed(t)
      <4> DEFINE x == Failed(task[t].file, "upload")
      <4>1. x \in TaskType /\ x.state = "failed" /\ x.file = task[t].file
        BY <1>2 DEF Failed, TaskType, TaskStates, Stages
      <4>2. Posted(s, [task EXCEPT ![t] = x], [flow EXCEPT ![s] = Away])
        BY <1>1, <1>6, <2>2, <3>1 DEF PostFails
      <4> HIDE DEF x
      <4> QED  BY <1>2, <1>4, <3>1, <4>1, <4>2 DEF Listed
    <3>2. CASE ~Listed(t)
      <4>1. Posted(s, [task EXCEPT ![t] = task[t]], [flow EXCEPT ![s] = Away])
        BY <1>1, <1>2, <1>6, <2>2, <3>2 DEF PostFails
      <4> QED  BY <1>2, <1>4, <4>1
    <3> QED  BY <3>1, <3>2
  <2> QED  BY <2>1, <2>2
<1>7. CASE PostAborted(s)
  <2>1. Posted(s, [task EXCEPT ![t] = task[t]], [flow EXCEPT ![s] = Away])
    BY <1>2, <1>7 DEF PostAborted
  <2> QED  BY <1>2, <1>4, <2>1
<1> QED  BY <1>5, <1>6, <1>7

\* An end that leaves the authorizations alone.
LEMMA Finishes ==
    ASSUME QueueInv, NEW c \in Callers, flow[c].at \notin {"away", "authorizing"},
           NEW t, t = flow[c].task, NEW x \in TaskType,
           x.file \in {task[t].file, flow[c].file},
           t \notin doubled /\ x.state = "ready" => x.file \in Files /\ Settled(x.file),
           task[t].state = "removed" => x.state = "removed",
           \A f \in Files : task[t].file = f => x.file = f \/ f \in left',
           call' = [call EXCEPT ![c] = Idle], UNCHANGED <<row, object, form, job, worker, torn>>,
           left \subseteq left', discards' = discards, doubled' = doubled,
           Ends(c, [task EXCEPT ![t] = x])
    PROVE  QueueInv'
<1>1. Away \in FlowType /\ Away.at = "away"  BY AwayIs
<1>2. PICK tasks2, flow2 : tasks2 = [task EXCEPT ![t] = x] /\ flow2 = [flow EXCEPT ![c] = Away]
  OBVIOUS
<1>3. Drain(pending, tasks2, authorized, controller, flow2)  BY <1>2 DEF Ends
<1>4. Onward(t, c, x, Away, authorized, controller)
  BY <1>1, <1>2, <1>3 DEF Onward
<1> QED  BY <1>4, Proceeds

LEMMA CompletedKeeps ==
    ASSUME QueueInv, NEW c \in Callers, Completed(c)
    PROVE  QueueInv'
<1>0. flow[c].at = "completing"  BY DEF Completed
<1>1. PICK t \in Tasks : t = flow[c].task  BY <1>0, Chain
<1>2. PICK f \in Files : f = flow[c].file  BY <1>0, Chain, FlowFields DEF Filing
<1>3. /\ flow[c] \in FlowType /\ task[t] \in TaskType /\ task[t].file \in Files \cup {None}
      /\ task = [task EXCEPT ![t] = task[t]]
      /\ t \notin doubled /\ Listed(t) => task[t].file = f
  BY <1>0, <1>1, <1>2, Chain, QueueTypes DEF TaskType, Fits, Listed
<1>4. PICK a \in Results \cup {"not_complete", "invalid_state", "expired", "mismatch", "error"} :
             /\ Hears(c, a) /\ Heeds(c)
             /\ left' = left \cup (IF a \in Results /\ Listed(t) THEN Overwritten(t, f) ELSE {})
             /\ IF a \in {"not_complete", "error"} /\ flow[c].attempt = 0
                THEN /\ flow' = [flow EXCEPT ![c].attempt = 1]
                     /\ UNCHANGED <<task, pending, authorized, controller, polling, sent>>
                ELSE IF a = "processing" /\ Listed(t) /\ t \notin polling
                THEN /\ task' = [task EXCEPT ![t] = Shown(t, f, a)]
                     /\ polling' = polling \cup {t}
                     /\ flow' = [flow EXCEPT ![c] = Awaiting("waiting", t, None, 0)]
                     /\ UNCHANGED <<pending, authorized, controller, sent>>
                ELSE /\ Ends(c, IF ~Listed(t) THEN task
                                ELSE IF a \in Results THEN [task EXCEPT ![t] = Shown(t, f, a)]
                                ELSE [task EXCEPT ![t] = Failed(@.file, Stage(a))])
                     /\ UNCHANGED polling
  BY <1>1, <1>2 DEF Completed
<1>5. /\ call' = [call EXCEPT ![c] = Idle] /\ UNCHANGED <<row, object, form, job, worker, torn>>
      /\ left \subseteq left' /\ discards' = discards /\ doubled' = doubled
  BY <1>4 DEF Heeds, Completed, Quiet
<1>6. ASSUME a \in Results, Listed(t)
      PROVE  /\ \A g \in Files : task[t].file = g => f = g \/ g \in left'
             /\ Shown(t, f, a) \in TaskType /\ Shown(t, f, a).file = f
             /\ Shown(t, f, a).state = "ready" => a = "ready"
             /\ a = "processing" => Shown(t, f, a).state = "processing"
             /\ t \notin doubled /\ Shown(t, f, a).state = "ready" => Settled(f)
  <2>1. \A g \in Files : task[t].file = g => f = g \/ g \in left'
    BY <1>3, <1>4, <1>6, QueueAssumption DEF Overwritten
  <2>2. /\ Shown(t, f, a) \in TaskType /\ Shown(t, f, a).file = f
        /\ Shown(t, f, a).state = "ready" => a = "ready"
        /\ a = "processing" => Shown(t, f, a).state = "processing"
    BY DEF Shown, Failed, TaskType, TaskStates, Stages, Results
  <2>3. t \notin doubled /\ a = "ready" => Settled(f)
    <3>1. a = "ready" => HearsReady(flow[c], call[c])  BY <1>0, <1>4 DEF Hears, HearsReady
    <3>2. On(flow[c], t)  BY <1>0, <1>1 DEF On
    <3> QED  BY <1>1, <1>2, <1>6, <3>1, <3>2 DEF QueueInv, ReadyInv, Listed
  <2> QED  BY <2>1, <2>2, <2>3
<1>7. CASE a \in {"not_complete", "error"} /\ flow[c].attempt = 0
  <2>1. PICK y : y = [flow[c] EXCEPT !.attempt = 1]  OBVIOUS
  <2>2. y.at = "completing" /\ y.task = t /\ y.file = f /\ y \in FlowType
    BY <1>0, <1>1, <1>2, <1>3, <2>1 DEF FlowType, Fileless, Filing, Away
  <2>3. PICK tasks2, flow2 : tasks2 = [task EXCEPT ![t] = task[t]] /\ flow2 = [flow EXCEPT ![c] = y]
    OBVIOUS
  <2>4. task' = tasks2 /\ flow' = flow2 /\ pending' = pending /\ authorized' = authorized
    BY <1>3, <1>4, <1>7, <2>1, <2>3
  <2>5. t \notin doubled /\ task[t].state # "removed" /\ y.at # "away" => Fits(task[t], y)
    BY <1>0, <1>1, <2>2, <1>2, Chain DEF Fits
  <2>6. t \notin doubled /\ task[t].state = "ready" => task[t].file \in Files /\ Settled(task[t].file)
    BY <1>1 DEF QueueInv, ReadyInv
  <2>7. Onward(t, c, task[t], y, authorized, controller)
    BY <1>0, <1>1, <1>2, <1>3, <1>5, <2>2, <2>3, <2>4, <2>5, <2>6 DEF Onward
  <2> QED  BY <2>7, Proceeds
<1>8. CASE ~(a \in {"not_complete", "error"} /\ flow[c].attempt = 0)
           /\ a = "processing" /\ Listed(t) /\ t \notin polling
  <2>1. PICK x, y : x = Shown(t, f, a) /\ y = Awaiting("waiting", t, None, 0)  OBVIOUS
  <2>2. y.at = "waiting" /\ y.task = t /\ y.file = None /\ y \in FlowType
    BY <1>1, <2>1 DEF Awaiting, FlowType, Fileless
  <2>3. PICK tasks2, flow2 : tasks2 = [task EXCEPT ![t] = x] /\ flow2 = [flow EXCEPT ![c] = y]
    OBVIOUS
  <2>4. task' = tasks2 /\ flow' = flow2 /\ pending' = pending /\ authorized' = authorized
    BY <1>4, <1>8, <2>1, <2>3
  <2>5. x \in TaskType /\ x.file = f /\ x.state = "processing"
        /\ \A g \in Files : task[t].file = g => f = g \/ g \in left'
    BY <1>6, <1>8, <2>1 DEF Results
  <2>6. Fits(x, y)  BY <2>2, <2>5 DEF Fits
  <2>7. task[t].state # "removed"  BY <1>8 DEF Listed
  <2>8. Onward(t, c, x, y, authorized, controller)
    BY <1>0, <1>1, <1>2, <1>5, <2>2, <2>3, <2>4, <2>5, <2>6, <2>7 DEF Onward
  <2> QED  BY <2>8, Proceeds
<1>9. CASE Ends(c, IF ~Listed(t) THEN task
                   ELSE IF a \in Results THEN [task EXCEPT ![t] = Shown(t, f, a)]
                   ELSE [task EXCEPT ![t] = Failed(@.file, Stage(a))])
  <2>1. CASE ~Listed(t)
    <3>1. Ends(c, [task EXCEPT ![t] = task[t]])  BY <1>3, <1>9, <2>1
    <3>2. t \notin doubled /\ task[t].state = "ready" => task[t].file \in Files /\ Settled(task[t].file)
      BY <1>1 DEF QueueInv, ReadyInv
    <3> QED  BY <1>0, <1>1, <1>3, <1>5, <3>1, <3>2, Finishes
  <2>2. CASE Listed(t) /\ a \in Results
    <3>1. PICK x : x = Shown(t, f, a)  OBVIOUS
    <3>2. Ends(c, [task EXCEPT ![t] = x])  BY <1>9, <2>2, <3>1
    <3>3. /\ x \in TaskType /\ x.file \in {task[t].file, flow[c].file}
          /\ t \notin doubled /\ x.state = "ready" => x.file \in Files /\ Settled(x.file)
          /\ task[t].state = "removed" => x.state = "removed"
          /\ \A g \in Files : task[t].file = g => x.file = g \/ g \in left'
      BY <1>2, <1>6, <2>2, <3>1 DEF Listed
    <3>4. flow[c].at \notin {"away", "authorizing"}  BY <1>0
    <3> QED  BY ONLY QueueInv, c \in Callers, <1>1, <1>5, <3>2, <3>3, <3>4, Finishes, ZenonT(60)
  <2>3. CASE Listed(t) /\ a \notin Results
    <3>1. PICK x : x = Failed(task[t].file, Stage(a))  OBVIOUS
    <3>2. Ends(c, [task EXCEPT ![t] = x])  BY <1>9, <2>3, <3>1
    <3>3. x \in TaskType /\ x.file = task[t].file /\ x.state = "failed"
      BY <1>3, <3>1 DEF Failed, Stage, TaskType, TaskStates, Stages
    <3>4. /\ x.file \in {task[t].file, flow[c].file} /\ x.state # "ready"
          /\ task[t].state # "removed" /\ flow[c].at \notin {"away", "authorizing"}
      BY <1>0, <2>3, <3>3 DEF Listed
    <3> QED  BY ONLY QueueInv, c \in Callers, <1>1, <1>5, <3>2, <3>3, <3>4, Finishes, ZenonT(60)
  <2> QED  BY <2>1, <2>2, <2>3
<1> QED  BY <1>4, <1>7, <1>8, <1>9

LEMMA PollKeeps ==
    ASSUME QueueInv, NEW c \in Callers, Poll(c)
    PROVE  QueueInv'
<1>0. flow[c].at = "waiting"  BY DEF Poll
<1>1. PICK t \in Tasks : t = flow[c].task  BY <1>0, Chain
<1>2. /\ flow[c] \in FlowType /\ task[t] \in TaskType /\ call[c].at = "idle"
      /\ task = [task EXCEPT ![t] = task[t]]
      /\ t \notin doubled /\ task[t].state # "removed" => Fits(task[t], flow[c])
  <2>1. Talks(flow[c], call[c])  BY <1>0, Chain
  <2> QED  BY <1>0, <1>1, <2>1, Chain, QueueTypes DEF Talks
<1>3. /\ call' = [call EXCEPT ![c] = Idle] /\ UNCHANGED <<row, object, form, job, worker, torn>>
      /\ left' = left /\ discards' = discards /\ doubled' = doubled
  <2>1. call = [call EXCEPT ![c] = Idle]  BY <1>2, IdleIs
  <2> QED  BY <2>1 DEF Poll, fileVars
<1>4. t \notin doubled /\ task[t].state = "ready" => task[t].file \in Files /\ Settled(task[t].file)
  BY <1>1 DEF QueueInv, ReadyInv
<1>5. CASE Listed(t) /\ task[t].file # None /\ task[t].state = "processing"
  <2>1. PICK f \in Files : f = task[t].file  BY <1>2, <1>5 DEF TaskType
  <2>2. PICK y0 : y0 = [flow[c] EXCEPT !.at = "fetching"]  OBVIOUS
  <2>3. PICK y : y = [y0 EXCEPT !.file = f]  OBVIOUS
  <2>4. /\ y.at = "fetching" /\ y.task = t /\ y.file = f /\ y \in FlowType
    <3>1. flow[c] \in [at : Fileless, task : Tasks, file : {None}, attempt : Nat, aborted : BOOLEAN]
      BY <1>0, <1>2 DEF FlowType, Filing, Away
    <3>2. /\ y0 \in [at : Filing, task : Tasks, file : {None}, attempt : Nat, aborted : BOOLEAN]
          /\ y0.at = "fetching" /\ y0.task = t
      BY <1>1, <2>2, <3>1 DEF Filing
    <3>3. /\ y \in [at : Filing, task : Tasks, file : Files, attempt : Nat, aborted : BOOLEAN]
          /\ y.at = "fetching" /\ y.task = t /\ y.file = f
      BY <2>3, <3>2
    <3> QED  BY <3>3 DEF FlowType
  <2>5. PICK tasks2, flow2 : tasks2 = [task EXCEPT ![t] = task[t]] /\ flow2 = [flow EXCEPT ![c] = y]
    OBVIOUS
  <2>6. task' = tasks2 /\ flow' = flow2 /\ pending' = pending /\ authorized' = authorized
    BY <1>1, <1>2, <1>5, <2>1, <2>2, <2>3, <2>5, QueueTypes DEF Poll
  <2>7. Fits(task[t], y)  BY <1>5, <2>1, <2>4 DEF Fits
  <2>8. Onward(t, c, task[t], y, authorized, controller)
    BY <1>0, <1>1, <1>2, <1>3, <1>4, <2>1, <2>4, <2>5, <2>6, <2>7 DEF Onward
  <2> QED  BY <2>8, Proceeds
<1>6. CASE ~(Listed(t) /\ task[t].file # None /\ task[t].state = "processing")
  <2>1. Ends(c, [task EXCEPT ![t] = task[t]])  BY <1>1, <1>2, <1>6 DEF Poll
  <2> QED  BY <1>0, <1>1, <1>2, <1>3, <1>4, <2>1, Finishes
<1> QED  BY <1>5, <1>6

LEMMA FetchedKeeps ==
    ASSUME QueueInv, NEW c \in Callers, Fetched(c)
    PROVE  QueueInv'
<1>0. flow[c].at = "fetching"  BY DEF Fetched
<1>1. PICK t \in Tasks : t = flow[c].task  BY <1>0, Chain
<1>2. PICK f \in Files : f = flow[c].file  BY <1>0, Chain, FlowFields DEF Filing
<1>3. /\ flow[c] \in FlowType /\ task[t] \in TaskType /\ flow[c].attempt + 1 \in Nat
      /\ task = [task EXCEPT ![t] = task[t]]
      /\ t \notin doubled /\ task[t].state # "removed" =>
            task[t].file = f /\ Fits(task[t], flow[c])
  BY <1>0, <1>1, <1>2, Chain, FlowFields, QueueTypes DEF Fits
<1>4. PICK a \in {"uploading", "expired", "deleting", "deleted", "not_found", "error"} \cup Results :
             /\ Hears(c, a) /\ Heeds(c)
             /\ IF a \in {"ready", "failed"}
                THEN Ends(c, IF Listed(t) THEN [task EXCEPT ![t] = Shown(t, task[t].file, a)] ELSE task)
                ELSE IF a \in {"error", "not_found"} \/ flow[c].attempt + 1 = MaxPolls
                THEN Ends(c, task)
                ELSE /\ flow' = [flow EXCEPT ![c] = Awaiting("waiting", t, None, flow[c].attempt + 1)]
                     /\ UNCHANGED <<task, pending, authorized, controller, polling, sent>>
  BY <1>1 DEF Fetched
<1>5. /\ call' = [call EXCEPT ![c] = Idle] /\ UNCHANGED <<row, object, form, job, worker, torn>>
      /\ left' = left /\ discards' = discards /\ doubled' = doubled
  BY <1>4 DEF Heeds, Fetched, Quiet
<1>6. t \notin doubled /\ task[t].state = "ready" => task[t].file \in Files /\ Settled(task[t].file)
  BY <1>1 DEF QueueInv, ReadyInv
<1>7. CASE a \in {"ready", "failed"} /\ Listed(t)
  <2>1. PICK x : x = Shown(t, task[t].file, a)  OBVIOUS
  <2>2. /\ x \in TaskType /\ x.file = task[t].file /\ (x.state = "ready" => a = "ready")
    BY <1>3, <2>1 DEF Shown, Failed, TaskType, TaskStates, Stages, Results
  <2>3. t \notin doubled /\ a = "ready" => x.file \in Files /\ Settled(x.file)
    <3>1. a = "ready" => HearsReady(flow[c], call[c])  BY <1>0, <1>4 DEF Hears, HearsReady
    <3>2. On(flow[c], t) /\ task[t].state # "removed"  BY <1>0, <1>1, <1>7 DEF On, Listed
    <3>3. t \notin doubled /\ a = "ready" => Settled(flow[c].file)
      BY <1>1, <3>1, <3>2 DEF QueueInv, ReadyInv
    <3> QED  BY <1>2, <1>3, <2>2, <3>2, <3>3
  <2>4. Ends(c, [task EXCEPT ![t] = x])  BY <1>4, <1>7, <2>1
  <2>5. task[t].state # "removed"  BY <1>7 DEF Listed
  <2> QED  BY <1>0, <1>1, <1>5, <2>2, <2>3, <2>4, <2>5, Finishes
<1>8. CASE Ends(c, task)
  <2>1. Ends(c, [task EXCEPT ![t] = task[t]])  BY <1>3, <1>8
  <2> QED  BY <1>0, <1>1, <1>3, <1>5, <1>6, <2>1, Finishes
<1>9. CASE /\ a \notin {"ready", "failed"}
           /\ ~(a \in {"error", "not_found"} \/ flow[c].attempt + 1 = MaxPolls)
  <2>1. PICK y : y = Awaiting("waiting", t, None, flow[c].attempt + 1)  OBVIOUS
  <2>2. y.at = "waiting" /\ y.task = t /\ y.file = None /\ y \in FlowType
    BY <1>1, <1>3, <2>1 DEF Awaiting, FlowType, Fileless
  <2>3. PICK tasks2, flow2 : tasks2 = [task EXCEPT ![t] = task[t]] /\ flow2 = [flow EXCEPT ![c] = y]
    OBVIOUS
  <2>4. task' = tasks2 /\ flow' = flow2 /\ pending' = pending /\ authorized' = authorized
    BY <1>3, <1>4, <1>9, <2>1, <2>3
  <2>5. t \notin doubled /\ task[t].state # "removed" => Fits(task[t], y)
    BY <1>3, <2>2 DEF Fits
  <2>6. Onward(t, c, task[t], y, authorized, controller)
    BY <1>0, <1>1, <1>3, <1>5, <1>6, <2>2, <2>3, <2>4, <2>5 DEF Onward
  <2> QED  BY <2>6, Proceeds
<1> QED  BY <1>4, <1>7, <1>8, <1>9

LEMMA AbortFlags ==
    ASSUME QueueInv, NEW T
    PROVE  Flagged(Aborted(T, flow), flow)
<1>1. flow \in [Callers -> FlowType]  BY QueueTypes
<1>2. ASSUME NEW c \in Callers, flow[c].at = "posting"
      PROVE  LET y == [flow[c] EXCEPT !.aborted = TRUE]
             IN  y \in FlowType /\ y.at = flow[c].at /\ y.task = flow[c].task /\ y.file = flow[c].file
  <2>1. flow[c] \in [at : Filing, task : Tasks, file : Files, attempt : Nat, aborted : BOOLEAN]
    BY <1>1, <1>2 DEF FlowType, Fileless, Away
  <2> QED  BY <2>1 DEF FlowType
<1>3. ASSUME NEW c \in Callers
      PROVE  /\ Aborted(T, flow)[c] \in FlowType
             /\ Aborted(T, flow)[c].at = flow[c].at
             /\ Aborted(T, flow)[c].at # "away" => /\ Aborted(T, flow)[c].task = flow[c].task
                                                  /\ Aborted(T, flow)[c].file = flow[c].file
  <2>1. CASE flow[c].at = "posting" /\ \E t \in T : controller[t] = c
    <3>1. Aborted(T, flow)[c] = [flow[c] EXCEPT !.aborted = TRUE]  BY <2>1 DEF Aborted
    <3> QED  BY <1>2, <2>1, <3>1
  <2>2. CASE ~(flow[c].at = "posting" /\ \E t \in T : controller[t] = c)
    <3>1. Aborted(T, flow)[c] = flow[c]  BY <2>2 DEF Aborted
    <3> QED  BY <1>1, <3>1
  <2> QED  BY <2>1, <2>2
<1>4. Aborted(T, flow) = [c \in Callers |-> Aborted(T, flow)[c]]  BY DEF Aborted
<1>5. Aborted(T, flow) \in [Callers -> FlowType]  BY <1>3, <1>4
<1> QED  BY <1>3, <1>5 DEF Flagged

\* A hand of the user takes up a task that no chain works on, or doubles it.
LEMMA TakesUp ==
    ASSUME QueueInv, NEW t \in Tasks, NEW h \in Callers, flow[h] = Away,
           NEW x \in TaskType, NEW y \in FlowType, NEW q2, NEW auth2,
           \/ q2 = pending /\ auth2 = authorized
           \/ q2 = Without(pending, t) /\ auth2 = [authorized EXCEPT ![t] = None],
           task[t].state \in {"missing", "failed"},
           y.at # "away", y.task = t, y.file \in {None, task[t].file}, x.file = task[t].file,
           x.state # "ready", Fits(x, y),
           doubled \subseteq doubled', doubled' \subseteq doubled \cup {t},
           t \in doubled' \/ \A d \in Callers : ~On(flow[d], t),
           UNCHANGED <<row, object, form, call, job, worker, torn>>,
           left' = left, discards' = discards, pending' = q2, authorized' = auth2,
           NEW base, Flagged(base, flow), task' = [task EXCEPT ![t] = x], flow' = [base EXCEPT ![h] = y]
    PROVE  QueueInv'
<1>1. /\ pending \in Seq(Tasks) /\ authorized \in Authority /\ None \notin Files
      /\ discards \subseteq Made /\ Away.at = "away"
  BY QueueTypes, QueueAssumption, AwayIs DEF QueueInv, KeptInv
<1>2. /\ q2 \in Seq(Tasks) /\ auth2 \in Authority
      /\ \A u \in Tasks : Fewer(q2, pending, u)
      /\ \A u \in Tasks : u # t => auth2[u] = authorized[u]
      /\ auth2[t] \in {None, authorized[t]}
  <2>1. CASE q2 = pending /\ auth2 = authorized  BY <1>1, <2>1 DEF Fewer
  <2>2. CASE q2 = Without(pending, t) /\ auth2 = [authorized EXCEPT ![t] = None]
    BY <1>1, <2>2, Leaves DEF Authority
  <2> QED  BY <2>1, <2>2
<1>3. call' = [call EXCEPT ![h] = Idle] /\ UNCHANGED <<row, object, form, job, worker, torn>>
  <2>1. Talks(flow[h], call[h])  BY DEF QueueInv, BrowserInv, Browser
  <2>2. call[h].at = "idle"  BY <1>1, <2>1 DEF Talks
  <2> QED  BY <2>2, IdleIs
<1>4. t \notin doubled' => Once(q2, t) /\ ~Waits(q2, t)
  <2>1. t \notin doubled' => Alone(t, task[t], pending, flow)
    BY DEF QueueInv, BrowserInv, Browser, Lone
  <2> QED  BY <1>2, <2>1 DEF Alone, Fewer
<1>5. \A f \in Files :
          x.file = f \/ auth2[t] = f \/ (y.at # "away" /\ y.file = f) =>
              Owns(task, authorized, flow, call, t, f)
  BY <1>1, <1>2 DEF Owns
<1>6. /\ t \notin doubled' /\ x.state # "removed" =>
            /\ \A d \in Callers : d # h => ~On(flow[d], t)
            /\ Once(q2, t)
            /\ Waits(q2, t) => x.state = "authorizing" /\ y.at = "away"
            /\ y.at # "away" => Fits(x, y)
      /\ flow[h].at = "away"
  BY <1>1, <1>4
<1>7. Turn(t, h, x, y, q2, auth2)
  BY <1>1, <1>2, <1>3, <1>5, <1>6 DEF Turn
<1> QED  BY <1>7, Turns

LEMMA BeginKeeps ==
    ASSUME QueueInv, NEW h \in Hands, NEW t \in Tasks, Begin(h, t)
    PROVE  QueueInv'
<1>1. h \in Callers /\ flow[h] = Away /\ task[t] = Missing /\ Flagged(flow, flow)
  BY QueueTypes DEF Begin, Fresh, Hands
<1>2. PICK x, y : /\ x = [state |-> "authorizing", file |-> None, stage |-> ""]
                  /\ y = Awaiting("authorizing", t, None, 0)
  OBVIOUS
<1>3. /\ x \in TaskType /\ x.file = None /\ x.state = "authorizing"
      /\ y \in FlowType /\ y.at = "authorizing" /\ y.task = t /\ y.file = None
  BY <1>2 DEF TaskType, TaskStates, Stages, Awaiting, FlowType, Fileless
<1>4. Fits(x, y)  BY <1>3 DEF Fits
<1>5. task[t].state = "missing" /\ task[t].file = None
  <2>1. Missing.state = "missing" /\ Missing.file = None  BY DEF Missing
  <2> QED  BY <1>1, <2>1
<1>6. t \in doubled' \/ \A d \in Callers : ~On(flow[d], t)
  <2>1. t \notin doubled => Alone(t, task[t], pending, flow)
    BY <1>5 DEF QueueInv, BrowserInv, Browser, Lone
  <2>2. doubled' = doubled  BY DEF Begin
  <2> QED  BY <1>5, <2>1, <2>2 DEF Alone, Fits
<1>7. /\ task' = [task EXCEPT ![t] = x] /\ flow' = [flow EXCEPT ![h] = y]
      /\ pending' = pending /\ authorized' = authorized
      /\ UNCHANGED <<row, object, form, call, job, worker, torn>>
      /\ left' = left /\ discards' = discards /\ doubled' = doubled
  BY <1>2 DEF Begin, fileVars
<1> QED  BY <1>1, <1>3, <1>4, <1>5, <1>6, <1>7, TakesUp

LEMMA RetryKeeps ==
    ASSUME QueueInv, NEW h \in Hands, NEW t \in Tasks, Retry(h, t)
    PROVE  QueueInv'
<1>1. /\ h \in Callers /\ flow[h] = Away /\ task[t].state = "failed"
      /\ Flagged(flow, flow) /\ Flagged(Aborted({t}, flow), flow)
      /\ task[t] \in TaskType /\ task = [task EXCEPT ![t] = task[t]]
  BY QueueTypes, AbortFlags DEF Retry, Fresh, Hands
<1>2. /\ doubled \subseteq doubled' /\ doubled' \subseteq doubled \cup {t}
      /\ t \in doubled' \/ \A d \in Callers : ~On(flow[d], t)
  BY DEF Retry, Busy, On
<1>3. /\ UNCHANGED <<row, object, form, call, job, worker, torn>>
      /\ left' = left /\ discards' = discards
  BY DEF Retry, fileVars
<1>4. CASE task[t].stage = "completion" /\ task[t].file # None
  <2>1. PICK x, y : /\ x = [task[t] EXCEPT !.state = "processing", !.stage = ""]
                    /\ y = Awaiting("completing", t, task[t].file, 0)
    OBVIOUS
  <2>2. /\ x \in TaskType /\ x.file = task[t].file /\ x.state = "processing"
        /\ y \in FlowType /\ y.at = "completing" /\ y.task = t /\ y.file = task[t].file
    BY <1>1, <1>4, <2>1 DEF TaskType, TaskStates, Stages, Results, Awaiting, FlowType, Filing
  <2>3. Fits(x, y)  BY <2>2 DEF Fits
  <2>4. /\ task' = [task EXCEPT ![t] = x] /\ flow' = [flow EXCEPT ![h] = y]
        /\ pending' = pending /\ authorized' = authorized
    BY <1>1, <1>4, <2>1, QueueTypes DEF Retry
  <2> QED  BY <1>1, <1>2, <1>3, <2>2, <2>3, <2>4, TakesUp
<1>5. CASE ~(task[t].stage = "completion" /\ task[t].file # None)
  <2>0. PICK q2, auth2, base :
            /\ q2 = Without(pending, t) /\ auth2 = [authorized EXCEPT ![t] = None]
            /\ base = Aborted({t}, flow) /\ pending' = q2 /\ authorized' = auth2
    BY <1>5 DEF Retry
  <2>1. CASE task[t].file # None
    <3>1. PICK y : y = Awaiting("replacing", t, task[t].file, 0)  OBVIOUS
    <3>2. y \in FlowType /\ y.at = "replacing" /\ y.task = t /\ y.file = task[t].file
      BY <1>1, <2>1, <3>1 DEF TaskType, Awaiting, FlowType, Filing
    <3>3. Fits(task[t], y)  BY <1>1, <3>2 DEF Fits
    <3>4. task' = [task EXCEPT ![t] = task[t]] /\ flow' = [base EXCEPT ![h] = y]
      BY <1>1, <1>5, <2>0, <2>1, <3>1 DEF Retry
    <3> QED  BY <1>1, <1>2, <1>3, <2>0, <3>2, <3>3, <3>4, TakesUp
  <2>2. CASE task[t].file = None
    <3>1. PICK x, y : /\ x = [task[t] EXCEPT !.state = "authorizing", !.stage = ""]
                      /\ y = Awaiting("authorizing", t, None, 0)
      OBVIOUS
    <3>2. /\ x \in TaskType /\ x.file = None /\ x.state = "authorizing"
          /\ y \in FlowType /\ y.at = "authorizing" /\ y.task = t /\ y.file = None
      BY <1>1, <2>2, <3>1 DEF TaskType, TaskStates, Stages, Awaiting, FlowType, Fileless
    <3>3. Fits(x, y)  BY <3>2 DEF Fits
    <3>4. task' = [task EXCEPT ![t] = x] /\ flow' = [base EXCEPT ![h] = y]
      BY <1>1, <1>5, <2>0, <2>2, <3>1, QueueTypes DEF Retry
    <3> QED  BY <1>1, <1>2, <1>3, <2>0, <2>2, <3>2, <3>3, <3>4, TakesUp
  <2> QED  BY <2>1, <2>2
<1> QED  BY <1>4, <1>5

LEMMA ReplacedKeeps ==
    ASSUME QueueInv, NEW h \in Callers, Replaced(h)
    PROVE  QueueInv'
<1>0. flow[h].at = "replacing"  BY DEF Replaced
<1>1. PICK t \in Tasks : t = flow[h].task  BY <1>0, Chain
<1>2. PICK f \in Files : f = flow[h].file  BY <1>0, Chain, FlowFields DEF Filing
<1>3. /\ task[t] \in TaskType /\ task = [task EXCEPT ![t] = task[t]] /\ Away \in FlowType /\ Away.at = "away"
      /\ t \notin doubled /\ task[t].state # "removed" => task[t].file = f
  BY <1>0, <1>1, <1>2, Chain, QueueTypes, AwayIs DEF Fits
<1>4. /\ call' = [call EXCEPT ![h] = Idle] /\ UNCHANGED <<row, object, form, job, worker, torn>>
      /\ discards' = discards /\ doubled' = doubled
      /\ pending' = pending /\ authorized' = authorized
  BY DEF Replaced, Heeds, Quiet
<1>5. PICK a \in {"deleting", "deleted", "error"} :
             /\ Hears(h, a)
             /\ left' = left \cup (IF a = "error" THEN {f} ELSE {})
                             \cup (IF Listed(t) THEN Overwritten(t, f) ELSE {})
  BY <1>1, <1>2 DEF Replaced
<1>6. f \in left' \/ job[f].active
  <2>1. a # "error" => call[h].at = "answered"  BY <1>5 DEF Hears
  <2> QED  BY <1>0, <1>2, <1>5, <2>1 DEF QueueInv, KeptInv
<1>7. CASE Listed(t)
  <2>1. PICK x, y : /\ x = [state |-> "authorizing", file |-> None, stage |-> ""]
                    /\ y = Awaiting("authorizing", t, None, 0)
    OBVIOUS
  <2>2. /\ x \in TaskType /\ x.file = None /\ x.state = "authorizing"
        /\ y \in FlowType /\ y.at = "authorizing" /\ y.task = t /\ y.file = None
    BY <1>1, <2>1 DEF TaskType, TaskStates, Stages, Awaiting, FlowType, Fileless
  <2>3. Fits(x, y)  BY <2>2 DEF Fits
  <2>4. \A g \in Files : task[t].file = g => g = f \/ g \in left'
    BY <1>3, <1>5, <1>7, QueueAssumption DEF Overwritten, Listed
  <2>5. task' = [task EXCEPT ![t] = x] /\ flow' = [flow EXCEPT ![h] = y]
    BY <1>1, <1>7, <2>1 DEF Replaced
  <2>6. task[t].state # "removed" /\ left \subseteq left'  BY <1>5, <1>7 DEF Listed
  <2>7. Onward(t, h, x, y, authorized, controller)
    BY <1>0, <1>1, <1>4, <1>6, <2>2, <2>3, <2>4, <2>5, <2>6 DEF Onward
  <2> QED  BY <2>7, Proceeds
<1>8. CASE ~Listed(t)
  <2>1. task' = [task EXCEPT ![t] = task[t]] /\ flow' = [flow EXCEPT ![h] = Away]
    BY <1>1, <1>3, <1>8 DEF Replaced
  <2>2. t \notin doubled /\ task[t].state = "ready" => task[t].file \in Files /\ Settled(task[t].file)
    BY <1>1 DEF QueueInv, ReadyInv
  <2>3. left \subseteq left'  BY <1>5
  <2>4. Onward(t, h, task[t], Away, authorized, controller)
    BY <1>0, <1>1, <1>3, <1>4, <2>1, <2>2, <2>3 DEF Onward
  <2> QED  BY <2>4, Proceeds
<1> QED  BY <1>7, <1>8

LEMMA AuthorizedKeeps ==
    ASSUME QueueInv, NEW h \in Callers, Authorized(h)
    PROVE  QueueInv'
<1>0. flow[h].at = "authorizing"  BY DEF Authorized
<1>1. PICK t \in Tasks : t = flow[h].task  BY <1>0, Chain
<1>2. PICK f : f = call[h].file  OBVIOUS
<1>3. /\ task[t] \in TaskType /\ task = [task EXCEPT ![t] = task[t]]
      /\ pending \in Seq(Tasks) /\ authorized \in Authority /\ Flagged(flow, flow)
      /\ Away \in FlowType /\ Away.at = "away" /\ None \notin Files
  BY <1>1, QueueTypes, AwayIs, QueueAssumption
<1>4. /\ call' = [call EXCEPT ![h] = Idle] /\ UNCHANGED <<row, object, form, job, worker, torn>>
      /\ doubled' = doubled
  BY DEF Authorized, Heeds, Quiet
<1>5. /\ t \notin doubled /\ task[t].state # "removed" =>
            /\ \A d \in Callers : d # h => ~On(flow[d], t)
            /\ Once(pending, t) /\ ~Waits(pending, t) /\ task[t].file = None
      /\ flow[h].file = None
      /\ \A g \in Files : task[t].file = g \/ authorized[t] = g => Owns(task, authorized, flow, call, t, g)
      /\ \A g \in Files : call[h].at = "answered" /\ g = f => Owns(task, authorized, flow, call, t, g)
  <2>1. On(flow[h], t) /\ flow[h] \in FlowType  BY <1>0, <1>1, Chain DEF On
  <2>2. flow[h].file = None  BY <1>0, <2>1, FlowFields DEF Fileless
  <2>3. \A g \in Files : call[h].at = "answered" /\ g = f => Owns(task, authorized, flow, call, t, g)
    BY <1>0, <1>2, <2>1 DEF Owns, Brings
  <2>4. \A g \in Files : task[t].file = g \/ authorized[t] = g => Owns(task, authorized, flow, call, t, g)
    BY DEF Owns
  <2>5. t \notin doubled /\ task[t].state # "removed" =>
            /\ \A d \in Callers : d # h => ~On(flow[d], t)
            /\ Once(pending, t) /\ ~Waits(pending, t) /\ Fits(task[t], flow[h])
    BY <1>0, <1>1, Chain
  <2> QED  BY <1>0, <2>2, <2>3, <2>4, <2>5 DEF Fits
<1>6. call[h].at = "answered" => f \in Files /\ f \in Made
  <2>1. call[h].at = "answered" => f \in Files
    BY <1>2, StatesAreTyped DEF QueueInv
  <2>2. Owned(task, authorized, flow, call, Made)
    BY DEF QueueInv, BrowserInv, Browser
  <2> QED  BY <1>1, <1>5, <2>1, <2>2 DEF Owned
<1>7. \A u \in Tasks : Fewer(pending, pending, u)  BY DEF Fewer
<1>8. t \notin doubled /\ task[t].state = "ready" => task[t].file \in Files /\ Settled(task[t].file)
  BY <1>1 DEF QueueInv, ReadyInv
<1>9. discards \subseteq Made  BY DEF QueueInv, KeptInv
\* The chain ends, and leaves to its task what it had.
<1>10. ASSUME NEW x \in TaskType, x.file = task[t].file, x = task[t] \/ x.state = "failed",
              task[t].state = "removed" => x.state = "removed",
              discards \subseteq discards', left \subseteq left', discards' \subseteq Made,
              call[h].at = "answered" => f \in discards' \cup left',
              Ends(h, [task EXCEPT ![t] = x])
       PROVE  QueueInv'
  <2>1. \A g \in Files :
            x.file = g \/ authorized[t] = g \/ (Away.at # "away" /\ Away.file = g) =>
                Owns(task, authorized, flow, call, t, g)
    BY <1>3, <1>5, <1>10
  <2>2. /\ t \notin doubled' /\ x.state # "removed" =>
              /\ \A d \in Callers : d # h => ~On(flow[d], t)
              /\ Once(pending, t)
              /\ Waits(pending, t) => x.state = "authorizing" /\ Away.at = "away"
              /\ Away.at # "away" => Fits(x, Away)
        /\ t \notin doubled' /\ x.state = "ready" => x.file \in Files /\ Settled(x.file)
    BY <1>3, <1>4, <1>5, <1>8, <1>10
  <2>3. \A g \in Files : flow[h].at = "authorizing" /\ call[h].at = "answered" /\ call[h].file = g
                            => x.file = g \/ g \in discards' \cup left'
    BY <1>2, <1>10
  <2>4. Turn(t, h, x, Away, pending, authorized)
    BY <1>1, <1>3, <1>4, <1>7, <1>10, <2>1, <2>2, <2>3 DEF Turn
  <2>5. Drain(pending, [task EXCEPT ![t] = x], authorized, controller, [flow EXCEPT ![h] = Away])
    BY <1>10 DEF Ends
  <2> QED  BY <1>1, <1>3, <2>4, <2>5, Turns
<1>11. CASE /\ Hears(h, "error") \/ Refused(h)
            /\ Ends(h, IF Listed(t) THEN [task EXCEPT ![t] = Failed(@.file, "authorization")] ELSE task)
            /\ left' = IF call[h].at = "answered" THEN left \cup {f} ELSE left
            /\ UNCHANGED discards
  <2>1. /\ discards \subseteq discards' /\ left \subseteq left' /\ discards' \subseteq Made
        /\ call[h].at = "answered" => f \in discards' \cup left'
    BY <1>9, <1>11
  <2>2. CASE Listed(t)
    <3>1. PICK x : x = Failed(task[t].file, "authorization")  OBVIOUS
    <3>2. x \in TaskType /\ x.file = task[t].file /\ x.state = "failed"
      BY <1>3, <3>1 DEF Failed, TaskType, TaskStates, Stages
    <3>3. Ends(h, [task EXCEPT ![t] = x])  BY <1>11, <2>2, <3>1
    <3>4. task[t].state # "removed"  BY <2>2 DEF Listed
    <3> QED  BY <1>10, <2>1, <3>2, <3>3, <3>4
  <2>3. CASE ~Listed(t)
    <3>1. Ends(h, [task EXCEPT ![t] = task[t]])  BY <1>3, <1>11, <2>3
    <3> QED  BY <1>3, <1>10, <2>1, <3>1
  <2> QED  BY <2>2, <2>3
<1>12. CASE /\ call[h].at = "answered" /\ Listed(t)
            /\ left' = left \cup Overwritten(t, f)
            /\ Drain(Append(pending, t),
                     [task EXCEPT ![t] = [state |-> "authorizing", file |-> f, stage |-> ""]],
                     [authorized EXCEPT ![t] = f], controller, [flow EXCEPT ![h] = Away])
            /\ UNCHANGED discards
  <2>1. PICK x, q2, auth2 :
            /\ x = [state |-> "authorizing", file |-> f, stage |-> ""]
            /\ q2 = Append(pending, t) /\ auth2 = [authorized EXCEPT ![t] = f]
    OBVIOUS
  <2>2. /\ x \in TaskType /\ x.file = f /\ x.state = "authorizing" /\ f \in Files
        /\ auth2 \in Authority /\ auth2[t] = f
        /\ \A u \in Tasks : u # t => auth2[u] = authorized[u]
        /\ task[t].state # "removed"
    BY <1>1, <1>3, <1>6, <1>12, <2>1 DEF TaskType, TaskStates, Stages, Authority, Listed
  <2>3. /\ q2 \in Seq(Tasks) /\ \A u \in Tasks : u # t => Fewer(q2, pending, u)
        /\ ~Waits(pending, t) => Once(q2, t)
    BY <1>1, <1>3, <2>1, Joins
  <2>4. \A g \in Files :
            x.file = g \/ auth2[t] = g \/ (Away.at # "away" /\ Away.file = g) =>
                Owns(task, authorized, flow, call, t, g)
    BY <1>3, <1>5, <1>12, <2>2
  <2>5. t \notin doubled' /\ x.state # "removed" =>
            /\ \A d \in Callers : d # h => ~On(flow[d], t)
            /\ Once(q2, t)
            /\ Waits(q2, t) => x.state = "authorizing" /\ Away.at = "away"
            /\ Away.at # "away" => Fits(x, Away)
    BY <1>3, <1>4, <1>5, <2>2, <2>3
  <2>6. \A g \in Files : task[t].file = g => x.file = g \/ g \in discards' \cup left' \/ job[g].active
    BY <1>3, <1>5, <1>12, <2>2 DEF Overwritten
  <2>7. Turn(t, h, x, Away, q2, auth2)
    BY <1>1, <1>2, <1>3, <1>4, <1>9, <1>12, <2>2, <2>3, <2>4, <2>5, <2>6 DEF Turn
  <2>8. Drain(q2, [task EXCEPT ![t] = x], auth2, controller, [flow EXCEPT ![h] = Away])
    BY <1>12, <2>1
  <2> QED  BY <1>1, <1>3, <2>7, <2>8, Turns
<1>13. CASE /\ call[h].at = "answered" /\ ~Listed(t)
            /\ left' = left /\ Ends(h, task) /\ discards' = TooLate(f)
  <2>1. Ends(h, [task EXCEPT ![t] = task[t]])  BY <1>3, <1>13
  <2>2. /\ discards \subseteq discards' /\ discards' \subseteq Made /\ left \subseteq left'
        /\ f \in discards'
    BY <1>6, <1>9, <1>13 DEF TooLate
  <2> QED  BY <1>3, <1>10, <2>1, <2>2
<1>14. \/ /\ Hears(h, "error") \/ Refused(h)
          /\ Ends(h, IF Listed(t) THEN [task EXCEPT ![t] = Failed(@.file, "authorization")] ELSE task)
          /\ left' = IF call[h].at = "answered" THEN left \cup {f} ELSE left
          /\ UNCHANGED discards
       \/ /\ call[h].at = "answered"
          /\ left' = left \cup (IF Listed(t) THEN Overwritten(t, f) ELSE {})
          /\ IF Listed(t)
             THEN /\ Drain(Append(pending, t),
                           [task EXCEPT ![t] = [state |-> "authorizing", file |-> f, stage |-> ""]],
                           [authorized EXCEPT ![t] = f], controller, [flow EXCEPT ![h] = Away])
                  /\ UNCHANGED discards
             ELSE Ends(h, task) /\ discards' = TooLate(f)
  BY <1>1, <1>2 DEF Authorized
<1> QED  BY <1>11, <1>12, <1>13, <1>14

-----------------------------------------------------------------------------
(* Removals, prompts and deletions.                                        *)

Removed == [Missing EXCEPT !.state = "removed"]

LEMMA RemovalKeeps ==
    ASSUME QueueInv, NEW R \in SUBSET Tasks,
           task' = [t \in Tasks |-> IF t \in R THEN Removed ELSE task[t]],
           pending' \in Seq(Tasks), \A t \in Tasks : Fewer(pending', pending, t),
           authorized' \in Authority, \A t \in Tasks : authorized'[t] \in {None, authorized[t]},
           Flagged(flow', flow),
           \A t \in R, f \in Files : task[t].file = f => f \in discards' \cup left',
           discards \cup left \subseteq discards' \cup left', discards' \subseteq Made,
           UNCHANGED fileVars, doubled' = doubled
    PROVE  QueueInv'
<1>1. /\ Browser(task, pending, authorized, flow, call, doubled, Made) /\ FilesInv /\ None \notin Files
      /\ task \in [Tasks -> TaskType] /\ flow \in [Callers -> FlowType]
  BY QueueTypes, QueueAssumption DEF QueueInv, BrowserInv
<1>2. Removed \in TaskType /\ Removed.state = "removed" /\ Removed.file = None
  BY DEF Removed, Missing, TaskType, TaskStates, Stages
<1>3. /\ \A t \in R : task'[t] = Removed
      /\ \A t \in Tasks \ R : task'[t] = task[t]
      /\ task' \in [Tasks -> TaskType]
  BY <1>1, <1>2
<1>4. call' = call /\ UNCHANGED <<row, object, form, job, worker, torn>>  BY DEF fileVars
<1>5. Typed(task', pending', authorized', flow', call')
  BY <1>1, <1>3, <1>4 DEF Typed, Flagged, Browser
<1>6. \A c \in Callers : Talks(flow'[c], call'[c])
  BY <1>1, <1>4, TalksFlagged DEF Browser
<1>7. Lone(task', pending', flow', doubled')
  <2> SUFFICES ASSUME NEW t \in Tasks, t \notin doubled, task'[t].state # "removed"
               PROVE  Alone(t, task'[t], pending', flow')
    BY DEF Lone
  <2>1. task'[t] = task[t]  BY <1>2, <1>3
  <2>2. Alone(t, task[t], pending, flow)  BY <1>1, <2>1 DEF Browser, Lone
  <2>3. Alone(t, task[t], pending, flow')  BY <2>2, AloneFlagged
  <2>4. Fewer(pending', pending, t)  OBVIOUS
  <2> QED  BY <2>1, <2>3, <2>4 DEF Alone, Fewer
<1>8. ASSUME NEW t \in Tasks, NEW f \in Files, Owns(task', authorized', flow', call', t, f)
      PROVE  Owns(task, authorized, flow, call, t, f)
  <2>1. Owns(task', authorized', flow, call, t, f)  BY <1>4, <1>8, OwnsFlagged
  <2>2. task'[t].file = f => task[t].file = f  BY <1>1, <1>2, <1>3
  <2>3. authorized'[t] = f => authorized[t] = f  BY <1>1
  <2> QED  BY <2>1, <2>2, <2>3 DEF Owns
<1>9. \A t \in Tasks : task[t].state = "removed" => task'[t].state = "removed"
  BY <1>2, <1>3
<1>10. \A t \in Tasks \ doubled' :
           task'[t].state = "ready" => task'[t].file \in Files /\ Settled(task'[t].file)
  <2> SUFFICES ASSUME NEW t \in Tasks, t \notin doubled, task'[t].state = "ready"
               PROVE  task'[t].file \in Files /\ Settled(task'[t].file)
    OBVIOUS
  <2>1. task'[t] = task[t]  BY <1>2, <1>3
  <2> QED  BY <2>1 DEF QueueInv, ReadyInv
<1>11. \A c \in Callers : /\ call'[c] = call[c] /\ flow'[c].at = flow[c].at
                          /\ flow'[c].at # "away" => flow'[c].task = flow[c].task /\ flow'[c].file = flow[c].file
  BY <1>4 DEF Flagged
<1>12. \A t \in Tasks, f \in Files :
           task[t].file = f => task'[t].file = f \/ f \in discards' \cup left' \/ job[f].active
  <2> SUFFICES ASSUME NEW t \in Tasks, NEW f \in Files, task[t].file = f
               PROVE  task'[t].file = f \/ f \in discards' \cup left'
    OBVIOUS
  <2>1. CASE t \in R  BY <2>1
  <2>2. CASE t \notin R  BY <1>3, <2>2
  <2> QED  BY <2>1, <2>2
<1>13. Steps(task', pending', authorized', flow')
  BY <1>4, <1>5, <1>6, <1>7, <1>8, <1>9, <1>10, <1>11, <1>12 DEF Steps
<1>14. FilesInv'  BY <1>1, FilesInvNext
<1> QED  BY <1>13, <1>14, StepsKeep

LEMMA RemoveTaskKeeps ==
    ASSUME QueueInv, NEW t \in Tasks, RemoveTask(t)
    PROVE  QueueInv'
<1>1. /\ pending \in Seq(Tasks) /\ authorized \in Authority /\ task \in [Tasks -> TaskType]
      /\ discards \subseteq Made /\ Owned(task, authorized, flow, call, Made)
  BY QueueTypes DEF QueueInv, KeptInv, BrowserInv, Browser
<1>2. /\ pending' = Without(pending, t) /\ authorized' = [authorized EXCEPT ![t] = None]
      /\ flow' = Aborted({t}, flow) /\ discards' = discards \cup ({task[t].file} \ {None})
      /\ task' = [task EXCEPT ![t] = Removed]
      /\ left' = left /\ UNCHANGED fileVars /\ doubled' = doubled
  BY DEF RemoveTask, Removed
<1>3. task' = [u \in Tasks |-> IF u \in {t} THEN Removed ELSE task[u]]
  BY <1>1, <1>2
<1>4. pending' \in Seq(Tasks) /\ \A u \in Tasks : Fewer(pending', pending, u)
  BY <1>1, <1>2, Leaves
<1>5. authorized' \in Authority /\ \A u \in Tasks : authorized'[u] \in {None, authorized[u]}
  BY <1>1, <1>2 DEF Authority
<1>6. Flagged(flow', flow)  BY <1>2, AbortFlags
<1>7. task[t].file \in Files => task[t].file \in Made
  BY <1>1 DEF Owned, Owns
<1>8. discards' \subseteq Made
  BY <1>1, <1>2, <1>7 DEF TaskType
<1>9. \A u \in {t}, f \in Files : task[u].file = f => f \in discards' \cup left'
  BY <1>2, QueueAssumption
<1>10. discards \cup left \subseteq discards' \cup left' /\ {t} \in SUBSET Tasks
  BY <1>2
<1> QED  BY <1>2, <1>3, <1>4, <1>5, <1>6, <1>8, <1>9, <1>10, RemovalKeeps

LEMMA PromptKeeps ==
    ASSUME QueueInv, Submit \/ NoChunk
    PROVE  QueueInv'
<1>1. /\ pending \in Seq(Tasks) /\ authorized \in Authority /\ task \in [Tasks -> TaskType]
      /\ Flagged(flow, flow) /\ discards \subseteq Made
  BY QueueTypes DEF QueueInv, KeptInv
<1>2. /\ UNCHANGED <<fileVars, task, pending, authorized, flow, discards, doubled>>
      /\ left \subseteq left'
  BY DEF Submit, NoChunk
<1>3. task' = [u \in Tasks |-> IF u \in {} THEN Removed ELSE task[u]]  BY <1>1, <1>2
<1>4. pending' \in Seq(Tasks) /\ \A u \in Tasks : Fewer(pending', pending, u)
  BY <1>1, <1>2 DEF Fewer
<1>5. authorized' \in Authority /\ \A u \in Tasks : authorized'[u] \in {None, authorized[u]}
  BY <1>1, <1>2
<1>6. /\ {} \in SUBSET Tasks /\ discards \cup left \subseteq discards' \cup left'
      /\ UNCHANGED fileVars /\ doubled' = doubled /\ discards' \subseteq Made /\ Flagged(flow', flow)
      /\ \A u \in {}, f \in Files : task[u].file = f => f \in discards' \cup left'
  BY <1>1, <1>2
<1> QED  BY <1>3, <1>4, <1>5, <1>6, RemovalKeeps

LEMMA FirstChunkKeeps ==
    ASSUME QueueInv, FirstChunk
    PROVE  QueueInv'
<1>1. task \in [Tasks -> TaskType] /\ discards \subseteq Made /\ None \notin Files
  BY QueueTypes, QueueAssumption DEF QueueInv, KeptInv
<1> DEFINE R == {t \in Tasks : Listed(t)}
<1>2. /\ task' = [t \in Tasks |-> IF Listed(t) THEN Removed ELSE task[t]]
      /\ pending' = <<>> /\ authorized' = [t \in Tasks |-> None]
      /\ flow' = Aborted(Tasks, flow)
      /\ left' = left \cup FilesOf(R)
      /\ UNCHANGED fileVars /\ discards' = discards /\ doubled' = doubled
  BY DEF FirstChunk, Removed
<1>3. task' = [t \in Tasks |-> IF t \in R THEN Removed ELSE task[t]]  BY <1>2
<1>4. <<>> \in Seq(Tasks) /\ DOMAIN (<<>>) = {}  OBVIOUS
<1>5. pending' \in Seq(Tasks) /\ \A u \in Tasks : Fewer(pending', pending, u)
  BY <1>2, <1>4 DEF Fewer, Waits, Once
<1>6. authorized' \in Authority /\ \A u \in Tasks : authorized'[u] \in {None, authorized[u]}
  BY <1>2 DEF Authority
<1>7. Flagged(flow', flow)  BY <1>2, AbortFlags
<1>8. \A u \in R, f \in Files : task[u].file = f => f \in discards' \cup left'
  BY <1>1, <1>2 DEF FilesOf
<1>9. /\ R \in SUBSET Tasks /\ discards \cup left \subseteq discards' \cup left'
      /\ discards' \subseteq Made
  BY <1>1, <1>2
<1> HIDE DEF R
<1> QED  BY <1>2, <1>3, <1>5, <1>6, <1>7, <1>8, <1>9, RemovalKeeps

LEMMA DiscardsKeep ==
    ASSUME QueueInv, NEW f \in Files, Discard(f)
    PROVE  QueueInv'
<1>0. /\ Browser(task, pending, authorized, flow, call, doubled, Made)
      /\ FilesInv /\ ReadyInv /\ KeptInv /\ flow \in [Callers -> FlowType]
  BY QueueTypes DEF QueueInv, BrowserInv
<1>1. /\ f \in discards /\ row[f].status \notin {"none", "deleted"} /\ discards' = discards \ {f}
      /\ UNCHANGED object /\ UNCHANGED form /\ UNCHANGED call /\ UNCHANGED worker /\ UNCHANGED torn
      /\ UNCHANGED task /\ UNCHANGED pending /\ UNCHANGED authorized /\ UNCHANGED flow
      /\ UNCHANGED doubled /\ UNCHANGED left
  BY <1>0 DEF Discard, KeptInv, Made, Exists
<1>2. /\ row \in [Files -> Row] /\ job \in [Files -> Job]  BY <1>0, StatesAreTyped
<1>3. /\ FilesInv'
      /\ \A g \in Files : /\ row'[g].gone = row[g].gone
                          /\ row'[g].status \in {row[g].status, "deleting"}
                          /\ row'[g].status = "none" <=> row[g].status = "none"
                          /\ job[g].active => job'[g].active
                          /\ Doomed(g)'
      /\ job'[f].active
  <2>0. \A g \in Files : Doomed(g)  BY <1>0 DEF KeptInv
  <2>1. CASE row[f].status \notin {"deleting", "deleted"} /\ SetStatus(f, "deleting") /\ Enqueue(f)
    <3>1. FilesInv'  BY <1>0, <1>1, <2>1, DiscardKeeps
    <3>2. "deleting" \in Statuses  BY DEF Statuses
    <3>3. PICK r \in Row : row' = [row EXCEPT ![f] = r] /\ r.status = "deleting" /\ r.gone = row[f].gone
      BY <1>0, <2>1, <3>2, StatusIsRow
    <3>4. PICK j \in Job : job' = [job EXCEPT ![f] = j] /\ j.active  BY <1>0, <2>1, EnqueueIsJob
    <3>5. \A g \in Files : /\ row'[g] = IF g = f THEN r ELSE row[g]
                           /\ job'[g] = IF g = f THEN j ELSE job[g]
      BY <1>2, <3>3, <3>4
    <3>6. \A g \in Files : Doomed(g)'  BY <2>0, <3>4, <3>5 DEF Doomed
    <3> QED  BY <1>1, <2>1, <3>1, <3>3, <3>4, <3>5, <3>6
  <2>2. CASE row[f].status \in {"deleting", "deleted"} /\ UNCHANGED <<row, job>>
    <3>1. UNCHANGED row /\ UNCHANGED job  BY <2>2
    <3>2. UNCHANGED fileVars  BY <1>1, <3>1 DEF fileVars
    <3>3. FilesInv'  BY <1>0, <3>2, FilesInvNext
    <3>4. job[f].active  BY <1>1, <2>0, <2>2 DEF Doomed
    <3>5. \A g \in Files : Doomed(g)'  BY <2>0, <3>1 DEF Doomed
    <3> QED  BY <3>1, <3>3, <3>4, <3>5
  <2> QED  BY <2>1, <2>2 DEF Discard
<1>4. Made' = Made  BY <1>3 DEF Made, Exists
<1>5. BrowserInv'  BY <1>0, <1>1, <1>4 DEF BrowserInv
<1>6. \A g \in Files : Settled(g) => Settled(g)'
  BY <1>3 DEF Settled, Usable, Visible, Exists
<1>7. ReadyInv'
  <2>1. ASSUME NEW t \in Tasks, t \notin doubled, task[t].state = "ready"
        PROVE  task[t].file \in Files /\ Settled(task[t].file)'
    <3>1. task[t].file \in Files /\ Settled(task[t].file)  BY <1>0, <2>1 DEF ReadyInv
    <3>2. PICK g \in Files : g = task[t].file  BY <3>1
    <3>3. Settled(g)'  BY <1>6, <3>1, <3>2
    <3> QED  BY <1>1, <3>2, <3>3 DEF Settled, Usable, Visible, Exists
  <2>2. ASSUME NEW t \in Tasks, t \notin doubled, task[t].state # "removed",
               NEW c \in Callers, On(flow[c], t), HearsReady(flow[c], call[c])
        PROVE  Settled(flow[c].file)'
    <3>1. Settled(flow[c].file)  BY <1>0, <2>2 DEF ReadyInv
    <3>2. flow[c].file \in Files  BY <1>0, <2>2, FlowFields DEF HearsReady, Filing
    <3>3. PICK g \in Files : g = flow[c].file  BY <3>2
    <3>4. Settled(g)'  BY <1>6, <3>1, <3>3
    <3> QED  BY <1>1, <3>3, <3>4 DEF Settled, Usable, Visible, Exists
  <2>3. \A t \in Tasks \ doubled' :
            /\ task'[t].state = "ready" => task'[t].file \in Files /\ Settled(task[t].file)'
            /\ task'[t].state # "removed" =>
                  \A c \in Callers :
                      On(flow'[c], t) /\ HearsReady(flow'[c], call'[c]) => Settled(flow[c].file)'
    BY <1>1, <2>1, <2>2
  <2> QED  BY <2>3 DEF ReadyInv
<1>8. KeptInv'
  <2>1. \A g \in Files : row'[g].status # "deleted" /\ Doomed(g)'
    BY <1>0, <1>3 DEF KeptInv
  <2>2. \A d \in Callers :
            flow'[d].at = "replacing" /\ call'[d].at = "answered" => job'[flow'[d].file].active
    <3> SUFFICES ASSUME NEW d \in Callers, flow[d].at = "replacing", call[d].at = "answered"
                 PROVE  job'[flow[d].file].active
      BY <1>1
    <3>1. job[flow[d].file].active /\ flow[d].file \in Files
      BY <1>0, FlowFields DEF KeptInv, Filing
    <3> QED  BY <1>3, <3>1
  <2>3. discards' \subseteq Made'  BY <1>0, <1>1, <1>4 DEF KeptInv
  <2>4. ASSUME Heard, NEW g \in Made PROVE Held(g)'
    <3>0. Held(g) /\ g \in Files  BY <1>0, <2>4 DEF KeptInv, Made
    <3>1. CASE g \in discards \cup left  BY <1>1, <1>3, <3>1 DEF Held
    <3>2. CASE g \notin discards \cup left  BY <1>1, <1>3, <3>0, <3>2 DEF Held
    <3> QED  BY <3>1, <3>2
  <2> QED  BY <1>4, <2>1, <2>2, <2>3, <2>4 DEF KeptInv
<1> QED  BY <1>3, <1>5, <1>7, <1>8 DEF QueueInv

LEMMA ArrivesKeeps ==
    ASSUME QueueInv, NEW f \in Files, Arrives(f)
    PROVE  QueueInv'
<1>0. /\ Browser(task, pending, authorized, flow, call, doubled, Made)
      /\ FilesInv /\ ReadyInv /\ KeptInv
  BY DEF QueueInv, BrowserInv
<1>1. /\ UNCHANGED row /\ UNCHANGED job /\ UNCHANGED call /\ UNCHANGED task /\ UNCHANGED pending
      /\ UNCHANGED authorized /\ UNCHANGED flow /\ UNCHANGED discards /\ UNCHANGED left
      /\ UNCHANGED doubled /\ Made' = Made
  BY DEF Arrives, Post, queueVars, Made, Exists
<1>2. FilesInv'  BY <1>0, PassingKeeps DEF Arrives, Passing
<1>3. BrowserInv'  BY <1>0, <1>1 DEF BrowserInv
<1>4. ReadyInv'
  BY <1>0, <1>1 DEF ReadyInv, Settled, Usable, Visible, Exists
<1>5. KeptInv'  BY <1>0, <1>1 DEF KeptInv, Held, Doomed
<1> QED  BY <1>2, <1>3, <1>4, <1>5 DEF QueueInv

-----------------------------------------------------------------------------
(* The steps of the server for the chains.                                 *)

\* What the chain of caller c may be told of its file f, and what becomes of f.
Served(c, f, z) ==
    /\ call' = [call EXCEPT ![c] = z] /\ (z.at = "idle" \/ z.file = f)
    /\ \A g \in Files \ {f} : row'[g] = row[g] /\ job'[g] = job[g]
    /\ row[f].status # "none" => row'[f].status # "none"
    /\ job[f].active => job'[f].active
    /\ row'[f].status # "deleted" /\ (row'[f].status = "deleting" => job'[f].active)
    /\ z.at = "answered" /\ z.with = "ready" => Settled(f)'
    /\ flow[c].at # "away" /\ Talks(flow[c], z)
    /\ IF flow[c].at = "authorizing"
       THEN /\ row[f].status = "none" /\ row'[f].status # "none"
            /\ Heard => z.at = "answered"
       ELSE /\ f = flow[c].file
            /\ flow[c].at = "replacing" /\ z.at = "answered" => job'[f].active

LEMMA Replies ==
    ASSUME NEW c \in Callers, NEW f \in Files, NEW with \in Words, Answer(c, f, with)
    PROVE  \E z \in CallStates :
               /\ call' = [call EXCEPT ![c] = z]
               /\ z.at \in {"idle", "answered"} /\ (Heard => z.at = "answered")
               /\ z.at = "idle" \/ (z.file = f /\ z.with = with)
<1>1. CASE Heard
  <2>1. "answered" \in Places /\ "answered" \notin Verdicts  BY DEF Places, Verdicts
  <2>2. PICK z : z = At("answered", f, with)  OBVIOUS
  <2>3. z \in CallStates /\ z.at = "answered" /\ z.file = f /\ z.with = with
    BY <2>1, <2>2, PlacesAreStates
  <2>4. call' = [call EXCEPT ![c] = z]  BY <1>1, <2>2 DEF Answer
  <2> QED  BY <2>3, <2>4
<1>2. CASE ~Heard
  <2>1. Idle \in CallStates /\ Idle.at = "idle"  BY DEF CallStates, Idle
  <2>2. call' = [call EXCEPT ![c] = Idle]  BY <1>2 DEF Answer
  <2> QED  BY <1>2, <2>1, <2>2
<1> QED  BY <1>1, <1>2

LEMMA AnswerTalks ==
    ASSUME NEW y, NEW z, y.at \notin {"away", "posting", "waiting"},
           z.at \in {"idle", "answered"}, z.at = "idle" \/ y.at = "authorizing" \/ z.file = y.file
    PROVE  Talks(y, z)
BY DEF Talks, Asked

\* The chains whose calls the server answers, and their files.
LEMMA ServedChain ==
    ASSUME QueueInv, NEW c \in Callers, Serve(c)
    PROVE  /\ flow[c].at \in {"authorizing", "completing", "fetching", "replacing"}
           /\ flow[c].at # "authorizing" => flow[c].file \in Files
           /\ call[c].at # "answered"
           /\ call[c].at # "idle" => flow[c].at # "authorizing" /\ call[c].file = flow[c].file
           /\ call[c].at \notin {"put", "rollback"}
           /\ Talks(flow[c], call[c])
<1>1. call[c].at # "answered"
  BY DEF Serve, CallStep, CreateIntent, CompleteRead, GetRead, GetNothing, DeleteRead,
         CompleteExpired, CompleteCheck, CompleteReread, CompleteFailed, CompleteWrite,
         UploadCommit, UploadUndone, RollbackCommit, GetWrite, DeleteWrite
<1>2. flow[c].at \in {"authorizing", "completing", "fetching", "replacing"} \/ call[c].at # "idle"
  BY DEF Serve, CallStep, CompleteExpired, CompleteCheck, CompleteReread, CompleteFailed,
         CompleteWrite, UploadCommit, UploadUndone, RollbackCommit, GetWrite, DeleteWrite
<1>3. Talks(flow[c], call[c]) /\ flow[c] \in FlowType
  BY QueueTypes DEF QueueInv, BrowserInv, Browser
<1>4. flow[c].at \in {"authorizing", "completing", "fetching", "replacing"}
  BY <1>2, <1>3, FlowFields DEF Talks, Fileless, Filing
<1>5. flow[c].at # "authorizing" => flow[c].file \in Files
  BY <1>3, <1>4, FlowFields DEF Filing
<1> QED  BY <1>1, <1>3, <1>4, <1>5 DEF Talks, Asked, Completing

LEMMA ServeFiles ==
    ASSUME QueueInv, NEW c \in Callers, Serve(c)
    PROVE  FilesInv'
<1>1. FilesInv  BY DEF QueueInv
<1>2. CASE \E f \in Files : CreateIntent(c, f)  BY <1>1, <1>2, FilesInvNext DEF Next, Request
<1>3. CASE CallStep(c)  BY <1>1, <1>3, FilesInvNext DEF Next
<1>4. ASSUME flow[c].at # "authorizing", NEW f \in Files, f = flow[c].file,
             CompleteRead(c, f) \/ GetRead(c, f) \/ DeleteRead(c, f)
      PROVE  FilesInv'
  BY <1>1, <1>4, FilesInvNext DEF Next, Request
<1>5. ASSUME NEW f \in Files, GetNothing(c, f) PROVE FilesInv'
  <2>1. UNCHANGED <<row, object, form, job, worker, torn>>  BY <1>5 DEF GetNothing, Quiet
  <2>2. "not_found" \in Words  BY DEF Words
  <2> QED  BY <1>1, <1>5, <2>1, <2>2, AnswerKeeps DEF GetNothing, Exists
<1>6. PICK f : f = flow[c].file  OBVIOUS
<1>7. flow[c].at # "authorizing" => f \in Files  BY <1>6, ServedChain
<1> QED  BY <1>2, <1>3, <1>4, <1>5, <1>6, <1>7 DEF Serve

\* What the server has found and answers, ...
LEMMA Told ==
    ASSUME QueueInv, NEW c \in Callers, Serve(c), flow[c].at # "authorizing",
           NEW f \in Files, f = flow[c].file, NEW with \in Words, Answer(c, f, with),
           row' = row, job' = job,
           with = "ready" => row[f].status = "ready",
           flow[c].at = "replacing" => job[f].active
    PROVE  \E z \in CallStates : Served(c, f, z)
<1>1. PICK z \in CallStates :
               /\ call' = [call EXCEPT ![c] = z]
               /\ z.at \in {"idle", "answered"} /\ (Heard => z.at = "answered")
               /\ z.at = "idle" \/ (z.file = f /\ z.with = with)
  BY Replies
<1>2. Talks(flow[c], z)
  BY <1>1, ServedChain, AnswerTalks
<1>3. row[f].status = "ready" => Settled(f)'
  BY DEF Settled, Usable, Visible, Exists
<1>i. "idle" # "answered"  OBVIOUS
<1>4. z.at = "answered" /\ z.with = "ready" => Settled(f)'  BY <1>1, <1>3, <1>i
<1>5. row[f].status # "deleted" /\ (row[f].status = "deleting" => job[f].active)
  BY DEF QueueInv, KeptInv, Doomed
<1> QED  BY <1>1, <1>2, <1>4, <1>5, ServedChain DEF Served

\* ... what it goes on to do, ...
LEMMA GoesOn ==
    ASSUME QueueInv, NEW c \in Callers, Serve(c), flow[c].at # "authorizing",
           NEW f \in Files, f = flow[c].file, NEW pc \in Places, NEW with \in Words,
           pc \in Verdicts => with \in Results, Goto(c, pc, f, with),
           row' = row, job' = job, pc # "answered",
           \/ flow[c].at = "completing" /\ pc \in Completing
           \/ flow[c].at = "replacing" /\ pc = "delete"
           \/ flow[c].at = "fetching" /\ pc = "ingested"
    PROVE  \E z \in CallStates : Served(c, f, z)
<1>1. PICK z : z = At(pc, f, with)  OBVIOUS
<1>2. z \in CallStates /\ z.at = pc /\ z.file = f /\ call' = [call EXCEPT ![c] = z]
  BY <1>1, Goes
<1>3. Talks(flow[c], z)
  BY <1>2, ServedChain DEF Talks, Asked
<1>4. row[f].status # "deleted" /\ (row[f].status = "deleting" => job[f].active)
  BY DEF QueueInv, KeptInv, Doomed
<1> QED  BY <1>2, <1>3, <1>4, ServedChain DEF Served

\* ... and what it has written and answers.
LEMMA Written ==
    ASSUME QueueInv, NEW c \in Callers, Serve(c), flow[c].at # "authorizing",
           NEW f \in Files, f = flow[c].file, NEW with \in Words, Answer(c, f, with),
           NEW r \in Row, NEW j \in Job, row' = [row EXCEPT ![f] = r], job' = [job EXCEPT ![f] = j],
           r.gone = row[f].gone, r.status \notin {"none", "deleted"},
           job[f].active => j.active, r.status = "deleting" => j.active,
           with = "ready" => r.status = "ready",
           flow[c].at = "replacing" => j.active
    PROVE  \E z \in CallStates : Served(c, f, z)
<1>0. row \in [Files -> Row] /\ job \in [Files -> Job]  BY StatesAreTyped DEF QueueInv
<1>1. PICK z \in CallStates :
               /\ call' = [call EXCEPT ![c] = z]
               /\ z.at \in {"idle", "answered"} /\ (Heard => z.at = "answered")
               /\ z.at = "idle" \/ (z.file = f /\ z.with = with)
  BY Replies
<1>2. Talks(flow[c], z)
  BY <1>1, ServedChain, AnswerTalks
<1>3. /\ row'[f] = r /\ job'[f] = j
      /\ \A g \in Files \ {f} : row'[g] = row[g] /\ job'[g] = job[g]
  BY <1>0
<1>4. r.status = "ready" => Settled(f)'
  BY <1>3 DEF Settled, Usable, Visible, Exists
<1>i. "idle" # "answered"  OBVIOUS
<1>5. z.at = "answered" /\ z.with = "ready" => Settled(f)'  BY <1>1, <1>4, <1>i
<1> QED  BY <1>1, <1>2, <1>3, <1>5, ServedChain DEF Served

LEMMA ReadsServe ==
    ASSUME QueueInv, NEW c \in Callers, Serve(c), flow[c].at # "authorizing",
           NEW f \in Files, f = flow[c].file,
           \/ flow[c].at = "completing" /\ CompleteRead(c, f)
           \/ flow[c].at = "fetching" /\ (GetRead(c, f) \/ GetNothing(c, f))
           \/ flow[c].at = "replacing" /\ DeleteRead(c, f)
           \/ CompleteCheck(c) \/ CompleteReread(c)
    PROVE  \E z \in CallStates : Served(c, f, z)
<1>0. row[f] \in Row /\ call[c] \in CallStates  BY StatesAreTyped DEF QueueInv
<1>1. row[f].status \in Words /\ row[f].status # "deleted"
      /\ (row[f].status = "deleting" => job[f].active)
  BY <1>0 DEF Row, Words, QueueInv, KeptInv, Doomed
<1>w. {"", "invalid_state", "not_complete", "error", "mismatch", "not_found"} \cup Results \subseteq Words
  BY DEF Words, Statuses
<1>p. /\ Completing \cup {"delete", "ingested"} \subseteq Places
      /\ "answered" \notin Completing \cup {"delete", "ingested"}
      /\ Verdicts = {"verified", "write_result", "ingested"}
  BY DEF Completing, Places, Verdicts
<1>2. row' = row /\ job' = job
  BY DEF CompleteRead, GetRead, GetNothing, DeleteRead, CompleteCheck, CompleteReread, Quiet
<1>3. CASE flow[c].at = "completing" /\ CompleteRead(c, f)
  <2>1. CASE row[f].status = "uploading"
    <3>1. PICK pc : pc = IF row[f].elapsed THEN "intent_expired" ELSE "checking"  OBVIOUS
    <3>2. Goto(c, pc, f, "")  BY <1>3, <2>1, <3>1 DEF CompleteRead
    <3>3. pc \in Completing /\ pc \notin Verdicts  BY <3>1 DEF Completing, Verdicts
    <3> QED  BY <1>2, <1>3, <1>w, <1>p, <3>2, <3>3, GoesOn
  <2>2. CASE row[f].status # "uploading"
    <3>1. PICK w : w = IF row[f].status \in {"ready", "processing"} THEN row[f].status ELSE "invalid_state"
      OBVIOUS
    <3>2. Answer(c, f, w)  BY <1>3, <2>2, <3>1 DEF CompleteRead
    <3>3. w \in Words /\ (w = "ready" => row[f].status = "ready")  BY <1>1, <1>w, <3>1
    <3> QED  BY <1>2, <1>3, <3>2, <3>3, Told
  <2> QED  BY <2>1, <2>2
<1>4. CASE flow[c].at = "fetching" /\ GetRead(c, f)
  <2>1. CASE row[f].status = "processing"
    <3>1. PICK result \in {"ready", "failed"} : Goto(c, "ingested", f, result)
      BY <1>4, <2>1 DEF GetRead
    <3>2. result \in Results  BY DEF Results
    <3> QED  BY <1>2, <1>4, <1>w, <1>p, <3>1, <3>2, GoesOn
  <2>2. CASE row[f].status # "processing"
    <3>1. PICK w : w = row[f].status  OBVIOUS
    <3>2. Answer(c, f, w)  BY <1>4, <2>2, <3>1 DEF GetRead
    <3> QED  BY <1>1, <1>2, <1>4, <3>1, <3>2, Told
  <2> QED  BY <2>1, <2>2
<1>5. CASE flow[c].at = "fetching" /\ GetNothing(c, f)
  BY <1>2, <1>5, <1>w, Told DEF GetNothing
<1>6. CASE flow[c].at = "replacing" /\ DeleteRead(c, f)
  <2>1. CASE row[f].status \in {"deleting", "deleted"}
    <3>1. PICK w : w = row[f].status  OBVIOUS
    <3>2. Answer(c, f, w)  BY <1>6, <2>1, <3>1 DEF DeleteRead
    <3> QED  BY <1>1, <1>2, <1>6, <2>1, <3>1, <3>2, Told
  <2>2. CASE row[f].status \notin {"deleting", "deleted"}
    <3>1. Goto(c, "delete", f, "")  BY <1>6, <2>2 DEF DeleteRead
    <3> QED  BY <1>2, <1>6, <1>w, <1>p, <3>1, GoesOn
  <2> QED  BY <2>1, <2>2
<1>7. CASE CompleteCheck(c)
  <2>1. call[c].at = "checking"  BY <1>7 DEF CompleteCheck
  <2>2. call[c].file = f /\ flow[c].at = "completing"
    BY <2>1, ServedChain DEF Talks, Asked
  <2>3. CASE Answer(c, f, "not_complete") \/ Answer(c, f, "error")
    BY <1>2, <1>w, <2>2, <2>3, Told
  <2>4. CASE Goto(c, "mismatch", f, "")
    <3>1. "mismatch" \in Completing /\ "mismatch" \notin Verdicts  BY DEF Completing, Verdicts
    <3> QED  BY <1>2, <1>w, <1>p, <2>2, <2>4, <3>1, GoesOn
  <2>5. CASE \E result \in Results : Goto(c, "verified", f, result)
    <3>1. "verified" \in Completing  BY DEF Completing
    <3> QED  BY <1>2, <1>w, <1>p, <2>2, <2>5, <3>1, GoesOn
  <2> QED  BY <1>7, <2>2, <2>3, <2>4, <2>5 DEF CompleteCheck
<1>8. CASE CompleteReread(c)
  <2>1. call[c].at \in {"mismatch", "verified"}  BY <1>8 DEF CompleteReread
  <2>2. call[c].file = f /\ flow[c].at = "completing"
    BY <2>1, ServedChain DEF Talks, Asked
  <2>3. CASE call[c].at = "mismatch" /\ Goto(c, "write_failed", f, "")
    <3>1. "write_failed" \in Completing /\ "write_failed" \notin Verdicts  BY DEF Completing, Verdicts
    <3> QED  BY <1>2, <1>w, <1>p, <2>2, <2>3, <3>1, GoesOn
  <2>4. CASE Answer(c, f, "mismatch")  BY <1>2, <1>w, <2>2, <2>4, Told
  <2>5. CASE call[c].at = "verified" /\ Goto(c, "write_result", f, call[c].with)
    <3>1. "write_result" \in Completing  BY DEF Completing
    <3>2. call[c].with \in Results  BY <1>0, <2>5 DEF CallStates, Verdicts, Idle
    <3> QED  BY <1>2, <1>w, <1>p, <2>2, <2>5, <3>1, <3>2, GoesOn
  <2>6. ASSUME NEW w, w = IF row[f].status \in {"ready", "processing"} THEN row[f].status ELSE "invalid_state",
               Answer(c, f, w)
        PROVE  \E z \in CallStates : Served(c, f, z)
    <3>1. w \in Words /\ (w = "ready" => row[f].status = "ready")  BY <1>1, <1>w, <2>6
    <3> QED  BY <1>2, <2>2, <2>6, <3>1, Told
  <2> QED  BY <1>8, <2>2, <2>3, <2>4, <2>5, <2>6 DEF CompleteReread
<1> QED  BY <1>3, <1>4, <1>5, <1>6, <1>7, <1>8

LEMMA WritesServe ==
    ASSUME QueueInv, NEW c \in Callers, Serve(c), flow[c].at # "authorizing",
           NEW f \in Files, f = flow[c].file, call[c].file = f,
           \/ CompleteExpired(c) \/ CompleteFailed(c) \/ CompleteWrite(c)
           \/ GetWrite(c) \/ DeleteWrite(c)
    PROVE  \E z \in CallStates : Served(c, f, z)
<1>0. FilesInv /\ row[f] \in Row /\ job[f] \in Job /\ call[c] \in CallStates
  BY StatesAreTyped DEF QueueInv
<1>w. {"expired", "mismatch", "deleting", "error"} \cup Results \subseteq Words
      /\ {"expired", "failed", "deleting"} \cup Results \subseteq Statuses
  BY DEF Words, Statuses, Results
<1>k. row[f].status # "deleted" /\ (row[f].status = "deleting" => job[f].active)
  BY DEF QueueInv, KeptInv, Doomed
<1>1. job' = job => job' = [job EXCEPT ![f] = job[f]]  BY <1>0, Unwritten
<1>2. CASE CompleteExpired(c)
  <2>1. SetStatus(f, "expired") /\ Enqueue(f) /\ Answer(c, f, "expired") /\ call[c].at = "intent_expired"
    BY <1>2 DEF CompleteExpired
  <2>2. PICK r \in Row : row' = [row EXCEPT ![f] = r] /\ r.status = "expired" /\ r.gone = row[f].gone
    BY <1>0, <1>w, <2>1, StatusIsRow
  <2>3. PICK j \in Job : job' = [job EXCEPT ![f] = j] /\ j.active  BY <1>0, <2>1, EnqueueIsJob
  <2> QED  BY <1>w, <2>1, <2>2, <2>3, Written
<1>3. CASE DeleteWrite(c)
  <2>1. SetStatus(f, "deleting") /\ Enqueue(f) /\ Answer(c, f, "deleting")
    BY <1>3 DEF DeleteWrite
  <2>2. PICK r \in Row : row' = [row EXCEPT ![f] = r] /\ r.status = "deleting" /\ r.gone = row[f].gone
    BY <1>0, <1>w, <2>1, StatusIsRow
  <2>3. PICK j \in Job : job' = [job EXCEPT ![f] = j] /\ j.active  BY <1>0, <2>1, EnqueueIsJob
  <2> QED  BY <1>w, <2>1, <2>2, <2>3, Written
<1>4. CASE CompleteFailed(c)
  <2>1. SetStatus(f, "failed") /\ Answer(c, f, "mismatch") /\ job' = job /\ call[c].at = "write_failed"
    BY <1>4 DEF CompleteFailed
  <2>2. PICK r \in Row : row' = [row EXCEPT ![f] = r] /\ r.status = "failed" /\ r.gone = row[f].gone
    BY <1>0, <1>w, <2>1, StatusIsRow
  <2>3. flow[c].at = "completing"  BY <2>1, ServedChain DEF Talks, Asked
  <2> QED  BY <1>0, <1>1, <1>w, <2>1, <2>2, <2>3, Written
<1>5. CASE GetWrite(c)
  <2>1. SetStatus(f, call[c].with) /\ Answer(c, f, call[c].with) /\ job' = job /\ call[c].at = "ingested"
    BY <1>5 DEF GetWrite
  <2>2. call[c].with \in Results  BY <1>0, <2>1 DEF CallStates, Verdicts, Idle
  <2>3. PICK w : w = call[c].with  OBVIOUS
  <2>4. PICK r \in Row : row' = [row EXCEPT ![f] = r] /\ r.status = w /\ r.gone = row[f].gone
    BY <1>0, <1>w, <2>1, <2>2, <2>3, StatusIsRow
  <2>5. flow[c].at = "fetching"  BY <2>1, ServedChain DEF Talks, Asked, Completing
  <2>6. r.status \notin {"none", "deleted", "deleting"}  BY <2>2, <2>3, <2>4 DEF Results
  <2> QED  BY <1>0, <1>1, <1>w, <2>1, <2>2, <2>3, <2>4, <2>5, <2>6, Written
<1>6. CASE CompleteWrite(c)
  <2>1. call[c].at = "write_result" /\ job' = job  BY <1>6 DEF CompleteWrite
  <2>2. call[c].with \in Results  BY <1>0, <2>1 DEF CallStates, Verdicts, Idle
  <2>3. flow[c].at = "completing"  BY <2>1, ServedChain DEF Talks, Asked
  <2>4. CASE Answer(c, f, "error") /\ row' = row  BY <1>w, <2>1, <2>3, <2>4, Told
  <2>5. CASE /\ row' = [row EXCEPT ![f].status = call[c].with, ![f].elapsed = FALSE]
             /\ Answer(c, f, call[c].with)
    <3>1. PICK w : w = call[c].with  OBVIOUS
    <3>2. PICK r0 : r0 = [row[f] EXCEPT !.status = w]  OBVIOUS
    <3>3. PICK r : r = [r0 EXCEPT !.elapsed = FALSE]  OBVIOUS
    <3>4. r0 \in Row /\ r0.status = w /\ r0.gone = row[f].gone
      BY <1>0, <1>w, <2>2, <3>1, <3>2 DEF Row
    <3>5. r \in Row /\ r.status = w /\ r.gone = row[f].gone  BY <3>3, <3>4 DEF Row
    <3>6. row' = [row EXCEPT ![f] = r]  BY <1>0, <2>5, <3>1, <3>2, <3>3, StatesAreTyped
    <3>7. r.status \notin {"none", "deleted", "deleting"}  BY <2>2, <3>1, <3>5 DEF Results
    <3>8. Answer(c, f, w) /\ w \in Words /\ row[f].gone = r.gone  BY <1>w, <2>2, <2>5, <3>1, <3>5
    <3>9. w = "ready" => r.status = "ready"  BY <3>5
    <3> QED  BY <1>0, <1>1, <2>1, <2>3, <3>5, <3>6, <3>7, <3>8, <3>9, Written
  <2> QED  BY <1>6, <2>4, <2>5 DEF CompleteWrite
<1> QED  BY <1>2, <1>3, <1>4, <1>5, <1>6

LEMMA IntentServes ==
    ASSUME QueueInv, NEW c \in Callers, Serve(c), flow[c].at = "authorizing",
           NEW f \in Files, CreateIntent(c, f)
    PROVE  \E z \in CallStates : Served(c, f, z)
<1>0. /\ FilesInv /\ row \in [Files -> Row] /\ row[f].status = "none" /\ job' = job
      /\ SetStatus(f, "uploading") /\ Answer(c, f, "uploading")
  BY StatesAreTyped DEF QueueInv, CreateIntent, Exists
<1>1. "uploading" \in Words /\ "uploading" \in Statuses  BY DEF Words, Statuses
<1>2. PICK z \in CallStates :
               /\ call' = [call EXCEPT ![c] = z]
               /\ z.at \in {"idle", "answered"} /\ (Heard => z.at = "answered")
               /\ z.at = "idle" \/ (z.file = f /\ z.with = "uploading")
  BY <1>0, <1>1, Replies
<1>3. PICK r \in Row : row' = [row EXCEPT ![f] = r] /\ r.status = "uploading" /\ r.gone = row[f].gone
  BY <1>0, <1>1, StatusIsRow
<1>4. /\ row'[f] = r /\ \A g \in Files \ {f} : row'[g] = row[g] /\ job'[g] = job[g]  BY <1>0, <1>3
<1>5. Talks(flow[c], z)  BY <1>2, ServedChain, AnswerTalks
<1>i. "idle" # "answered" /\ "uploading" # "ready"  OBVIOUS
<1>6. ~(z.at = "answered" /\ z.with = "ready")  BY <1>2, <1>i
<1> QED  BY <1>0, <1>2, <1>3, <1>4, <1>5, <1>6, ServedChain DEF Served

LEMMA Serves ==
    ASSUME QueueInv, NEW c \in Callers, Serve(c)
    PROVE  \E f \in Files, z \in CallStates : Served(c, f, z)
<1>1. CASE flow[c].at = "authorizing"
  <2>1. call[c].at = "idle"  BY <1>1, ServedChain
  <2>2. \E f \in Files : CreateIntent(c, f)
    BY <1>1, <2>1 DEF Serve, CallStep, CompleteExpired, CompleteCheck, CompleteReread, CompleteFailed,
         CompleteWrite, UploadCommit, UploadUndone, RollbackCommit, GetWrite, DeleteWrite
  <2> QED  BY <1>1, <2>2, IntentServes
<1>2. CASE flow[c].at # "authorizing"
  <2>1. PICK f \in Files : f = flow[c].file  BY <1>2, ServedChain
  <2>2. CASE CallStep(c)
    <3>1. call[c].at # "idle" /\ call[c].at \notin {"put", "rollback"}
      BY <2>2, ServedChain DEF CallStep, CompleteExpired, CompleteCheck, CompleteReread, CompleteFailed,
         CompleteWrite, UploadCommit, UploadUndone, RollbackCommit, GetWrite, DeleteWrite
    <3>2. call[c].file = f  BY <2>1, <3>1, ServedChain
    <3>3. \/ CompleteCheck(c) \/ CompleteReread(c)
          \/ CompleteExpired(c) \/ CompleteFailed(c) \/ CompleteWrite(c) \/ GetWrite(c) \/ DeleteWrite(c)
      BY <2>2, <3>1 DEF CallStep, UploadCommit, UploadUndone, RollbackCommit
    <3> QED  BY <1>2, <2>1, <3>2, <3>3, ReadsServe, WritesServe
  <2>3. CASE ~CallStep(c)
    <3>1. \/ flow[c].at = "completing" /\ CompleteRead(c, f)
          \/ flow[c].at = "fetching" /\ (GetRead(c, f) \/ GetNothing(c, f))
          \/ flow[c].at = "replacing" /\ DeleteRead(c, f)
      BY <1>2, <2>1, <2>3 DEF Serve
    <3> QED  BY <1>2, <2>1, <3>1, ReadsServe
  <2> QED  BY <2>2, <2>3
<1> QED  BY <1>1, <1>2

LEMMA ServeKeeps ==
    ASSUME QueueInv, NEW c \in Callers, Serve(c)
    PROVE  QueueInv'
<1>0. /\ Browser(task, pending, authorized, flow, call, doubled, Made)
      /\ Owned(task, authorized, flow, call, Made)
      /\ ReadyInv /\ KeptInv
      /\ call \in [Callers -> CallStates] /\ flow \in [Callers -> FlowType]
  BY QueueTypes DEF QueueInv, BrowserInv, Browser
<1>1. PICK f \in Files, z \in CallStates : Served(c, f, z)  BY Serves
<1>2. /\ UNCHANGED task /\ UNCHANGED pending /\ UNCHANGED authorized /\ UNCHANGED flow
      /\ UNCHANGED discards /\ UNCHANGED left /\ UNCHANGED doubled
  BY DEF Serve, queueVars
<1>3. FilesInv'  BY ServeFiles
<1>4. PICK t \in Tasks : t = flow[c].task  BY Chain, ServedChain
<1>5. /\ On(flow[c], t) /\ call[c].at # "answered" /\ flow[c].at # "away"
      /\ t \notin doubled /\ task[t].state # "removed" =>
            /\ \A d \in Callers : d # c => ~On(flow[d], t)
            /\ task[t].state # "ready"
  BY <1>4, Chain, ServedChain DEF On, Fits
<1>6. /\ call'[c] = z /\ \A d \in Callers : d # c => call'[d] = call[d]
      /\ call' \in [Callers -> CallStates] /\ (z.at = "idle" \/ z.file = f)
  BY <1>0, <1>1 DEF Served
<1>7. \A g \in Files : g \in Made => g \in Made'
  BY <1>1 DEF Served, Made, Exists
\* A chain that makes a file makes a new one.
<1>8. flow[c].at = "authorizing" => f \notin Made /\ f \in Made'
  BY <1>1 DEF Served, Made, Exists
<1>9. flow[c].at # "authorizing" => flow[c].file = f /\ Owns(task, authorized, flow, call, t, f)
  <2>1. flow[c].at # "authorizing" => flow[c].file = f  BY <1>1 DEF Served
  <2> QED  BY <1>5, <2>1 DEF Owns, Brings
\* Nobody else knows f.
<1>10. ASSUME NEW u \in Tasks, Owns(task, authorized, flow, call, u, f) PROVE u = t
  <2>1. f \in Made  BY <1>0, <1>10 DEF Owned
  <2> QED  BY <1>0, <1>8, <1>9, <1>10, <2>1 DEF Owned
<1>11. ASSUME NEW u \in Tasks, NEW g \in Files, Owns(task, authorized, flow, call', u, g)
       PROVE  \/ Owns(task, authorized, flow, call, u, g)
              \/ u = t /\ g = f /\ f \notin Made /\ f \in Made'
  <2>1. CASE task[u].file = g \/ authorized[u] = g  BY <2>1 DEF Owns
  <2>2. ASSUME NEW d \in Callers, On(flow[d], u), Brings(flow[d], call'[d], g)
        PROVE  \/ Owns(task, authorized, flow, call, u, g)
               \/ u = t /\ g = f /\ f \notin Made /\ f \in Made'
    <3>1. CASE d # c
      <4>1. Brings(flow[d], call[d], g)  BY <1>6, <2>2, <3>1
      <4> QED  BY <2>2, <4>1 DEF Owns
    <3>2. CASE d = c /\ flow[c].file = g
      <4>1. Brings(flow[c], call[c], g)  BY <1>5, <3>2 DEF Brings
      <4> QED  BY <2>2, <3>2, <4>1 DEF Owns
    <3>3. CASE d = c /\ flow[c].file # g
      <4>1. flow[c].at = "authorizing" /\ z.at = "answered" /\ z.file = g
        BY <1>6, <2>2, <3>3 DEF Brings
      <4>2. g = f /\ u = t  BY <1>4, <1>6, <2>2, <3>3, <4>1 DEF On
      <4> QED  BY <1>8, <4>1, <4>2
    <3> QED  BY <3>1, <3>2, <3>3
  <2> QED  BY <1>11, <2>1, <2>2 DEF Owns
<1>12. Owned(task, authorized, flow, call', Made')
  <2> SUFFICES ASSUME NEW u \in Tasks, NEW g \in Files, Owns(task, authorized, flow, call', u, g)
               PROVE  g \in Made' /\ \A v \in Tasks : Owns(task, authorized, flow, call', v, g) => u = v
    BY DEF Owned
  <2>1. CASE Owns(task, authorized, flow, call, u, g)
    <3>1. g \in Made /\ \A v \in Tasks : Owns(task, authorized, flow, call, v, g) => u = v
      BY <1>0, <2>1 DEF Owned
    <3> QED  BY <1>7, <1>11, <3>1
  <2>2. CASE u = t /\ g = f /\ f \notin Made /\ f \in Made'
    <3>1. \A v \in Tasks : ~Owns(task, authorized, flow, call, v, g)  BY <1>0, <2>2 DEF Owned
    <3> QED  BY <1>11, <2>2, <3>1
  <2> QED  BY <1>11, <2>1, <2>2
<1>13. BrowserInv'
  <2>1. Typed(task, pending, authorized, flow, call')
    BY <1>0, <1>6 DEF Browser, Typed
  <2>2. \A d \in Callers : Talks(flow[d], call'[d])
    BY <1>0, <1>1, <1>6 DEF Browser, Served
  <2>3. Lone(task, pending, flow, doubled)  BY <1>0 DEF Browser
  <2> QED  BY <1>2, <1>12, <2>1, <2>2, <2>3 DEF BrowserInv, Browser
<1>14. ASSUME NEW g \in Files, Settled(g), g # f PROVE Settled(g)'
  BY <1>1, <1>14 DEF Served, Settled, Usable, Visible, Exists
<1>15. ReadyInv'
  <2>1. ASSUME NEW u \in Tasks, u \notin doubled, task[u].state = "ready"
        PROVE  task[u].file \in Files /\ Settled(task[u].file)'
    <3>1. task[u].file \in Files /\ Settled(task[u].file)  BY <1>0, <2>1 DEF ReadyInv
    <3>2. PICK g \in Files : g = task[u].file  BY <3>1
    <3>3. u # t  BY <1>5, <2>1
    <3>4. g # f  BY <1>10, <3>2, <3>3 DEF Owns
    <3>5. Settled(g)'  BY <1>14, <3>1, <3>2, <3>4
    <3> QED  BY <1>2, <3>2, <3>5 DEF Settled, Usable, Visible, Exists
  <2>2. ASSUME NEW u \in Tasks, u \notin doubled, task[u].state # "removed",
               NEW d \in Callers, On(flow[d], u), HearsReady(flow[d], call'[d])
        PROVE  Settled(flow[d].file)'
    <3>1. CASE d = c
      <4>1. z.at = "answered" /\ z.with = "ready" /\ flow[c].at # "authorizing"
        BY <1>6, <2>2, <3>1 DEF HearsReady
      <4>2. Settled(f)'  BY <1>1, <4>1 DEF Served
      <4>3. flow[d].file = f  BY <1>9, <3>1, <4>1
      <4> QED  BY <1>2, <4>2, <4>3 DEF Settled, Usable, Visible, Exists
    <3>2. CASE d # c
      <4>1. HearsReady(flow[d], call[d])  BY <1>6, <2>2, <3>2
      <4>2. Settled(flow[d].file)  BY <1>0, <2>2, <4>1 DEF ReadyInv
      <4>3. flow[d].file \in Files  BY <1>0, <4>1, FlowFields DEF HearsReady, Filing
      <4>4. PICK g \in Files : g = flow[d].file  BY <4>3
      <4>5. u # t  BY <1>5, <2>2, <3>2
      <4>6. g # f
        <5>1. Brings(flow[d], call[d], g)  BY <2>2, <4>4 DEF Brings, On
        <5>2. Owns(task, authorized, flow, call, u, g)  BY <2>2, <5>1 DEF Owns
        <5> QED  BY <1>10, <4>5, <5>2
      <4>7. Settled(g)'  BY <1>14, <4>2, <4>4, <4>6
      <4> QED  BY <1>2, <4>4, <4>7 DEF Settled, Usable, Visible, Exists
    <3> QED  BY <3>1, <3>2
  <2>3. \A u \in Tasks \ doubled' :
            /\ task'[u].state = "ready" => task'[u].file \in Files /\ Settled(task[u].file)'
            /\ task'[u].state # "removed" =>
                  \A d \in Callers :
                      On(flow'[d], u) /\ HearsReady(flow'[d], call'[d]) => Settled(flow[d].file)'
    BY <1>2, <2>1, <2>2
  <2> QED  BY <2>3 DEF ReadyInv
<1>16. \A g \in Files : job[g].active => job'[g].active
  BY <1>1 DEF Served
<1>17. KeptInv'
  <2>1. \A g \in Files : row'[g].status # "deleted" /\ Doomed(g)'
    BY <1>0, <1>1 DEF KeptInv, Doomed, Served
  <2>2. ASSUME NEW d \in Callers, flow'[d].at = "replacing", call'[d].at = "answered"
        PROVE  job'[flow'[d].file].active
    <3>1. CASE d = c  BY <1>1, <1>2, <1>6, <2>2, <3>1 DEF Served
    <3>2. CASE d # c
      <4>1. call'[d] = call[d]  BY <1>6, <3>2
      <4>2. job[flow[d].file].active /\ flow[d].file \in Files
        BY <1>0, <1>2, <2>2, <4>1, FlowFields DEF KeptInv, Filing
      <4> QED  BY <1>2, <1>16, <4>2
    <3> QED  BY <3>1, <3>2
  <2>3. discards' \subseteq Made'
    <3>1. discards \subseteq Made /\ Made \subseteq Made'  BY <1>0, <1>7 DEF KeptInv, Made
    <3> QED  BY <1>2, <3>1
  <2>4. ASSUME Heard, NEW g \in Made' PROVE Held(g)'
    <3>0. g \in Files  BY DEF Made
    <3>1. CASE g \in Made
      <4>1. Held(g)  BY <1>0, <2>4, <3>1 DEF KeptInv
      <4>2. CASE job[g].active  BY <1>16, <3>0, <4>2 DEF Held
      <4>3. CASE \E d \in Callers : flow[d].at = "authorizing" /\ call[d].at = "answered" /\ call[d].file = g
        <5>1. PICK d \in Callers : flow[d].at = "authorizing" /\ call[d].at = "answered" /\ call[d].file = g
          BY <4>3
        <5>2. call'[d] = call[d]  BY <1>5, <1>6, <5>1
        <5> QED  BY <1>2, <5>1, <5>2 DEF Held
      <4> QED  BY <1>2, <4>1, <4>2, <4>3 DEF Held
    <3>2. CASE g \notin Made
      <4>1. row[g].status = "none" /\ row'[g].status # "none"  BY <3>0, <3>2 DEF Made, Exists
      <4>2. g = f  BY <1>1, <3>0, <4>1 DEF Served
      <4>3. flow[c].at = "authorizing"  BY <1>0, <1>9, <3>0, <3>2, <4>2 DEF Owned
      <4>4. z.at = "answered" /\ z.file = f  BY <1>1, <1>6, <2>4, <4>3 DEF Served
      <4> QED  BY <1>2, <1>6, <4>2, <4>3, <4>4 DEF Held
    <3> QED  BY <3>1, <3>2
  <2> QED  BY <2>1, <2>2, <2>3, <2>4 DEF KeptInv
<1> QED  BY <1>3, <1>13, <1>15, <1>17 DEF QueueInv

-----------------------------------------------------------------------------
(* What holds of the upload queue.                                         *)

LEMMA QueueInvInit == Init => QueueInv
<1> SUFFICES ASSUME Init PROVE QueueInv
  OBVIOUS
<1>1. FilesInv /\ \A f \in Files : row[f].status = "none"
  BY FilesInvInit DEF Init, FilesInit
<1>2. /\ \A t \in Tasks : task[t] = Missing /\ authorized[t] = None
      /\ \A c \in Callers : flow[c] = Away /\ call[c] = Idle
      /\ pending = <<>> /\ discards = {} /\ left = {} /\ Made = {}
  BY <1>1 DEF Init, FilesInit, Made, Exists
<1>3. Missing \in TaskType /\ Missing.file = None /\ Missing.state = "missing"
  BY DEF Missing, TaskType, TaskStates, Stages
<1>4. Idle.at = "idle" /\ Away.at = "away"  BY AwayIs DEF Idle
<1>5. Typed(task, pending, authorized, flow, call)
  <2>1. task \in [Tasks -> TaskType]  BY <1>3 DEF Init
  <2>2. authorized \in Authority  BY DEF Init, Authority
  <2>3. flow \in [Callers -> FlowType]  BY AwayIs DEF Init
  <2>4. call \in [Callers -> CallStates]  BY <1>1 DEF FilesInv, Types
  <2>5. pending \in Seq(Tasks)  BY <1>2
  <2> QED  BY <2>1, <2>2, <2>3, <2>4, <2>5 DEF Typed
<1>6. \A c \in Callers : Talks(flow[c], call[c])
  BY <1>2, <1>4 DEF Talks
<1>7. Lone(task, pending, flow, doubled)
  <2>1. DOMAIN pending = {}  BY <1>2
  <2>2. \A c \in Callers, t \in Tasks : ~On(flow[c], t)  BY <1>2, <1>4 DEF On
  <2> QED  BY <2>1, <2>2 DEF Lone, Alone, Once, Waits
<1>8. Owned(task, authorized, flow, call, Made)
  <2>1. \A t \in Tasks, f \in Files : ~Owns(task, authorized, flow, call, t, f)
    BY <1>2, <1>3, <1>4, QueueAssumption DEF Owns, On
  <2> QED  BY <2>1 DEF Owned
<1>9. BrowserInv  BY <1>5, <1>6, <1>7, <1>8 DEF BrowserInv, Browser
<1>10. ReadyInv
  <2>1. \A c \in Callers, t \in Tasks : ~On(flow[c], t)  BY <1>2, <1>4 DEF On
  <2>2. \A t \in Tasks : task[t].state # "ready"  BY <1>2, <1>3
  <2> QED  BY <2>1, <2>2 DEF ReadyInv
<1>11. KeptInv  BY <1>1, <1>2, <1>4 DEF KeptInv, Doomed
<1> QED  BY <1>1, <1>9, <1>10, <1>11 DEF QueueInv

LEMMA QueueInvNext == QueueInv /\ [QueueNext]_vars => QueueInv'
<1> SUFFICES ASSUME QueueInv, [QueueNext]_vars PROVE QueueInv'
  OBVIOUS
<1>1. ASSUME NEW h \in Hands, NEW t \in Tasks, Begin(h, t) \/ Retry(h, t) PROVE QueueInv'
  BY <1>1, BeginKeeps, RetryKeeps
<1>2. ASSUME NEW t \in Tasks, RemoveTask(t) PROVE QueueInv'
  BY <1>2, RemoveTaskKeeps
<1>3. CASE Submit \/ FirstChunk \/ NoChunk  BY <1>3, PromptKeeps, FirstChunkKeeps
<1>4. ASSUME NEW c \in Callers, Serve(c) PROVE QueueInv'
  BY <1>4, ServeKeeps
<1>5. ASSUME NEW c \in Callers, Browse(c) PROVE QueueInv'
  BY <1>5, ReplacedKeeps, AuthorizedKeeps, PostKeeps, CompletedKeeps, PollKeeps, FetchedKeeps DEF Browse
<1>6. ASSUME NEW f \in Files, Arrives(f) \/ Discard(f) PROVE QueueInv'
  BY <1>6, ArrivesKeeps, DiscardsKeep
<1>7. CASE UNCHANGED vars
  <2>1. /\ UNCHANGED fileVars /\ UNCHANGED task /\ UNCHANGED pending /\ UNCHANGED authorized
        /\ UNCHANGED flow /\ UNCHANGED discards /\ UNCHANGED left /\ UNCHANGED doubled
    BY <1>7 DEF vars, queueVars
  <2>2. UNCHANGED row /\ UNCHANGED job /\ UNCHANGED call  BY <2>1 DEF fileVars
  <2>3. Made' = Made  BY <2>2 DEF Made, Exists
  <2>4. FilesInv'  BY <2>1, FilesInvNext DEF QueueInv
  <2>5. BrowserInv'  BY <2>1, <2>2, <2>3 DEF QueueInv, BrowserInv
  <2>6. ReadyInv'  BY <2>1, <2>2 DEF QueueInv, ReadyInv, Settled, Usable, Visible, Exists
  <2>7. KeptInv'  BY <2>1, <2>2, <2>3 DEF QueueInv, KeptInv, Held, Doomed
  <2> QED  BY <2>4, <2>5, <2>6, <2>7 DEF QueueInv
<1> QED  BY <1>1, <1>2, <1>3, <1>4, <1>5, <1>6, <1>7 DEF QueueNext

LEMMA QueueInvHolds == QueueSpec => []QueueInv
<1> QED  BY QueueInvInit, QueueInvNext, PTL DEF QueueSpec

(* A file is shown as ready only if requests accept it, or it is being     *)
(* deleted or has expired since: whichever calls fail, and however many    *)
(* transfers, retries and removals are under way.  Tasks that were retried *)
(* while another chain still worked on them are exempt.                    *)
THEOREM ReadyStaysReady == QueueSpec => []ReadyIsReady
<1>1. QueueInv => ReadyIsReady  BY DEF QueueInv, ReadyInv, Settled, ReadyIsReady
<1> QED  BY <1>1, QueueInvHolds, PTL

(* A file that counts against the user's storage belongs to a task or is   *)
(* about to be deleted, however uploads are retried, twice at once as      *)
(* well.  Exempt, in left: a file sent or cleared with a prompt, the file  *)
(* of a call that failed, and a file that a task retried twice at once     *)
(* lost to the other retry.                                                *)
THEOREM NothingIsForgotten ==
    ASSUME Heard
    PROVE  QueueSpec => []NothingForgotten
<1>1. QueueInv => NothingForgotten
  <2> SUFFICES ASSUME QueueInv, NEW f \in Files, row[f].status \in Counted
               PROVE  \/ f \in discards \cup left
                      \/ job[f].active
                      \/ \E t \in Tasks : task[t].file = f
                      \/ \E c \in Callers : /\ flow[c].at = "authorizing"
                                            /\ call[c].at = "answered" /\ call[c].file = f
    BY DEF NothingForgotten
  <2>1. f \in Made  BY DEF Made, Exists, Counted, Results
  <2> QED  BY <2>1 DEF QueueInv, KeptInv, Held
<1> QED  BY <1>1, QueueInvHolds, PTL

(* The files of the queue are stored as those of any client are: one that  *)
(* requests accept has its object or is being deleted, unless a batch      *)
(* rolled it back or a worker died after it deleted the object.            *)
THEOREM QueuedFilesAreStored == QueueSpec => []UsableIsStored
<1>1. FilesInv => UsableIsStored  BY InvMeansStored
<1>2. QueueInv => FilesInv  BY DEF QueueInv
<1> QED  BY <1>1, <1>2, QueueInvHolds, PTL
=============================================================================

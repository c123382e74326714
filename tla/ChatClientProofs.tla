-------------------------- MODULE ChatClientProofs --------------------------
(***************************************************************************)
(* The transcript's invariants, for any number of questions and whichever  *)
(* disturbances happen.  Both rest on one request being under way at a     *)
(* time: the controller's.  What is saved where needs the history as well: *)
(* which answers a request was sent with, and from which session.          *)
(***************************************************************************)
EXTENDS ChatClient, WellFoundedInduction, TLAPS

Statuses == Working \cup {"none", "complete", "error", "cancelled"}
AnyTurn == Turns \cup {NoTurn}
Flying == {"optimizing", "asked", "streaming"}
RequestType ==
    [at : Flying \cup {"unused", "refreshing", "over"},
     kind : {"submit", "regenerate", "room"}, turn : AnyTurn, session : Sessions,
     context : SUBSET Questions, previous : AnyTurn, fresh : BOOLEAN]

\* Every variable has its type.
TypeOK ==
    /\ shown \in [Turns -> [status : Statuses, by : Sessions]]
    /\ \A t \in Shown : shown[t].by \in Questions
    /\ active \in AnyTurn /\ streaming \in BOOLEAN
    /\ session \in Sessions /\ controller \in Sessions
    /\ aborted \in SUBSET Questions
    /\ req \in [Questions -> RequestType]
    /\ server \in [Questions -> {"idle", "asked", "settled"}]
    /\ saved \in [Questions -> Sessions]
    /\ fresh \in BOOLEAN /\ strayed \in BOOLEAN

Used(r) == req[r].at # "unused"
Own(r) == <<r, "asked">>

\* Questions are used in their order, and one nobody asked is known nowhere.
Unknown(q) ==
    /\ active # Own(q) /\ shown[Own(q)].status = "none"
    /\ \A r \in Questions : req[r].turn # Own(q)
Numbered ==
    /\ \A r \in Questions : Used(r) => \A q \in Questions : q < r => Used(q)
    /\ controller # None => Used(controller)
    /\ \A r \in aborted : Used(r)
    /\ \A r \in Questions : ~Used(r) => Unknown(r)

\* What the code of a request is at decides what the server has of it.
Placed(r) ==
    /\ InFlight(r) /\ req[r].kind = "submit" =>
          req[r].turn = Own(r) /\ req[r].previous # Own(r)
    /\ req[r].at = "optimizing" => req[r].kind = "submit"
    /\ req[r].at \in {"unused", "optimizing"} => server[r] = "idle"

\* The request under way is the controller's, and the turn it works on is the
\* active one once it shows that it does.
Alone(r) ==
    Running(r) =>
        /\ controller = r
        /\ req[r].turn \in Shown =>
              /\ shown[req[r].turn].status \in Working \/ req[r].kind = "submit" =>
                    active = req[r].turn
              /\ req[r].kind # "submit" /\ req[r].at = "asked" =>
                    shown[req[r].turn].status \notin Working

RequestsInv == TypeOK /\ Numbered /\ \A r \in Questions : Placed(r) /\ Alone(r)
TranscriptInv == RequestsInv /\ WorkingTurnsAreServed

\* The answer that turn t shows is saved in the session that the next request
\* continues, or is not and never will be.
Settles(q, s) == server[q] = "settled" /\ (~strayed => saved[q] \in {None, s})
Answers(t) ==
    \/ shown[t].status = "complete"
    \/ \E r \in Questions : Running(r) /\ req[r].kind = "room" /\ req[r].turn = t
AnswersAreSaved ==
    \A t \in Shown : Answers(t) => Settles(shown[t].by, session)

\* A request continues the session and the answers it was sent with.
Asks(r) ==
    /\ ~strayed => /\ Running(r) => ~fresh /\ req[r].session = session
                   /\ Used(r) /\ req[r].fresh => req[r].session = None
    /\ \A q \in req[r].context : Settles(q, req[r].session)
    /\ saved[r] # None => saved[r] = SessionOf(r) /\ server[r] = "settled"
NewMeansNone == ~strayed /\ fresh => session = None

\* The inductive invariant.
ChatInv ==
    /\ TranscriptInv
    /\ AnswersAreSaved
    /\ \A r \in Questions : Asks(r)
    /\ NewMeansNone

-----------------------------------------------------------------------------
(* The operators *)

\* The newest of a set of turns is one of them: a set of turns has a newest one,
\* because no question comes after MaxQuestions.
LEMMA NewestIsOne ==
    ASSUME NEW turns \in SUBSET Turns
    PROVE  Newest(turns) \in turns \cup {NoTurn}
<1>1. CASE turns = {}  BY <1>1 DEF Newest
<1>2. CASE turns # {}
  <2> DEFINE left == {MaxQuestions - t[1] : t \in turns}
  <2>1. \A t \in turns : t[1] \in 1 .. MaxQuestions  BY DEF Turns, Questions
  <2>2. left \subseteq Nat /\ left # {}  BY <1>2, <2>1, ChatAssumption
  <2>3. PICK d \in left : \A e \in left : ~(<<e, d>> \in OpToRel(<, Nat))
    <3> HIDE DEF left
    <3> QED  BY <2>2, NatLessThanWellFounded, WFMin
  <2>4. PICK t \in turns : d = MaxQuestions - t[1]  BY <2>3
  <2>5. \A u \in turns : u[1] <= t[1]
    <3> SUFFICES ASSUME NEW u \in turns PROVE u[1] <= t[1]  OBVIOUS
    <3> DEFINE e == MaxQuestions - u[1]
    <3>1. e \in left /\ e \in Nat /\ d \in Nat  BY <2>2, <2>4
    <3>2. ~(e < d)  BY <2>3, <3>1 DEF OpToRel
    <3> QED  BY <2>1, <2>4, <3>2, ChatAssumption
  <2> QED  BY <1>2, <2>5 DEF Newest
<1> QED  BY <1>1, <1>2

\* The turn a question is shown in.
LEMMA OwnTurns ==
    /\ \A r \in Questions : Own(r) \in Turns /\ Own(r) # NoTurn
    /\ \A r, q \in Questions : Own(r) = Own(q) => r = q
    /\ \A r \in Questions, t \in Turns : t[2] = "history" => t # Own(r)
    /\ NoTurn \notin Turns
    /\ None \notin Questions
BY ChatAssumption DEF Own, Turns, Origins, Questions, NoTurn, None

\* A setter changes the status of one turn and nothing else of the transcript.
LEMMA StatusOfSets ==
    ASSUME TypeOK, NEW t \in AnyTurn, NEW status \in Statuses \ {"none"}
    PROVE  /\ StatusOf(t, status) \in [Turns -> [status : Statuses, by : Sessions]]
           /\ \A u \in Turns : StatusOf(t, status)[u].by = shown[u].by
           /\ \A u \in Turns \ {t} : StatusOf(t, status)[u] = shown[u]
           /\ \A u \in Turns : StatusOf(t, status)[u].status = "none"
                  <=> shown[u].status = "none"
           /\ t \in Shown => StatusOf(t, status)[t].status = status
           /\ t \notin Shown => StatusOf(t, status) = shown
BY DEF TypeOK, StatusOf, Shown

LEMMA AnsweredSets ==
    ASSUME TypeOK, NEW t \in AnyTurn, NEW r \in Questions
    PROVE  /\ Answered(t, r) \in [Turns -> [status : Statuses, by : Sessions]]
           /\ \A u \in Turns \ {t} : Answered(t, r)[u] = shown[u]
           /\ \A u \in Turns : Answered(t, r)[u].status = "none"
                  <=> shown[u].status = "none"
           /\ t \in Shown => /\ Answered(t, r)[t].status = "complete"
                             /\ Answered(t, r)[t].by = r
           /\ t \notin Shown => Answered(t, r) = shown
BY DEF TypeOK, Answered, Shown, Statuses, Sessions
-----------------------------------------------------------------------------
(* Types *)

LEMMA InitTypes == Init => TypeOK
<1> SUFFICES ASSUME Init PROVE TypeOK  OBVIOUS
<1> USE DEF Init, None, Sessions
<1>1. Hidden \in [status : Statuses, by : Sessions]  BY DEF Hidden, Statuses
<1>2. Unused \in RequestType  BY DEF Unused, RequestType, AnyTurn
<1> QED  BY <1>1, <1>2 DEF TypeOK, AnyTurn, Shown, Hidden

\* What Regenerate and Submit make of a question is a request.
LEMMA RequestIsTyped ==
    ASSUME TypeOK, NEW kind \in {"submit", "regenerate", "room"},
           NEW at \in {"optimizing", "asked"}, NEW t \in Turns, NEW turns \in SUBSET Shown
    PROVE  Request(kind, at, t, turns) \in RequestType
<1>1. Context(turns) \in SUBSET Questions  BY DEF TypeOK, Context
<1> QED  BY <1>1 DEF TypeOK, Request, RequestType, AnyTurn, Flying

\* The end of a request changes no other.
LEMMA EndsTyped ==
    ASSUME TypeOK, NEW r \in Questions, End(r)
    PROVE  /\ req' \in [Questions -> RequestType]
           /\ controller' \in Sessions
           /\ controller' # r /\ (controller # r => controller' = controller)
           /\ \A q \in Questions \ {r} : req'[q] = req[q]
           /\ req'[r].at = "over" /\ req'[r].kind = "submit"
           /\ req'[r].turn = req[r].turn /\ req'[r].session = req[r].session
           /\ req'[r].context = req[r].context /\ req'[r].fresh = req[r].fresh
<1>1. req[r] \in RequestType  BY DEF TypeOK
<1>2. req'[r] = [req[r] EXCEPT !.at = "over", !.kind = "submit", !.previous = NoTurn]
  BY DEF TypeOK, End
<1>3. req'[r] \in RequestType  BY <1>1, <1>2 DEF RequestType, AnyTurn
<1>4. req' \in [Questions -> RequestType]  BY <1>3 DEF TypeOK, End
<1>5. controller' \in Sessions /\ controller' # r /\ (controller # r => controller' = controller)
  BY OwnTurns DEF TypeOK, End, Sessions
<1>6. \A q \in Questions \ {r} : req'[q] = req[q]  BY DEF TypeOK, End
<1>7. req'[r].at = "over"  BY <1>1, <1>2 DEF RequestType
<1>8. req'[r].kind = "submit"  BY <1>1, <1>2 DEF RequestType
<1>9. req'[r].turn = req[r].turn /\ req'[r].session = req[r].session
  BY <1>1, <1>2 DEF RequestType
<1>10. req'[r].context = req[r].context /\ req'[r].fresh = req[r].fresh
  BY <1>1, <1>2 DEF RequestType
<1> QED  BY <1>4, <1>5, <1>6, <1>7, <1>8, <1>9, <1>10

\* A request that goes on changes its place only.
LEMMA GoesTyped ==
    ASSUME TypeOK, NEW r \in Questions, NEW at \in {"asked", "streaming", "refreshing"},
           Goto(r, at)
    PROVE  /\ req' \in [Questions -> RequestType]
           /\ \A q \in Questions \ {r} : req'[q] = req[q]
           /\ req'[r].at = at /\ req'[r].kind = req[r].kind
           /\ req'[r].turn = req[r].turn /\ req'[r].previous = req[r].previous
           /\ req'[r].session = req[r].session
           /\ req'[r].context = req[r].context /\ req'[r].fresh = req[r].fresh
<1>1. req[r] \in RequestType  BY DEF TypeOK
<1>2. req'[r] = [req[r] EXCEPT !.at = at]  BY DEF TypeOK, Goto
<1>3. req'[r] \in RequestType  BY <1>1, <1>2 DEF RequestType, Flying
<1>4. req' \in [Questions -> RequestType]  BY <1>3 DEF TypeOK, Goto
<1>5. \A q \in Questions \ {r} : req'[q] = req[q]  BY DEF TypeOK, Goto
<1>6. req'[r].at = at  BY <1>1, <1>2 DEF RequestType
<1>7. req'[r].kind = req[r].kind  BY <1>1, <1>2 DEF RequestType
<1>8. req'[r].turn = req[r].turn /\ req'[r].previous = req[r].previous
  BY <1>1, <1>2 DEF RequestType
<1>9. req'[r].session = req[r].session  BY <1>1, <1>2 DEF RequestType
<1>10. req'[r].context = req[r].context /\ req'[r].fresh = req[r].fresh
  BY <1>1, <1>2 DEF RequestType
<1> QED  BY <1>4, <1>5, <1>6, <1>7, <1>8, <1>9, <1>10

\* A page load ends every request.
LEMMA ReloadEnds ==
    ASSUME TypeOK, Reload, NEW r \in Questions
    PROVE  /\ Used(r) => req'[r].at = "over"
           /\ ~Used(r) => req'[r].at = "unused"
           /\ req'[r].turn = req[r].turn /\ req'[r].session = req[r].session
           /\ req'[r].context = req[r].context /\ req'[r].fresh = req[r].fresh
<1>1. CASE ~Used(r)  BY <1>1 DEF Reload, Used
<1>2. CASE Used(r)
  <2>1. req'[r] = [req[r] EXCEPT !.at = "over", !.kind = "submit", !.previous = NoTurn]
    BY <1>2 DEF Reload, Used
  <2>2. req[r] \in RequestType  BY DEF TypeOK
  <2>3. req'[r].at = "over"  BY <2>1, <2>2 DEF RequestType
  <2>4. req'[r].turn = req[r].turn  BY <2>1, <2>2 DEF RequestType
  <2>5. req'[r].session = req[r].session  BY <2>1, <2>2 DEF RequestType
  <2>6. req'[r].context = req[r].context  BY <2>1, <2>2 DEF RequestType
  <2>7. req'[r].fresh = req[r].fresh  BY <2>1, <2>2 DEF RequestType
  <2> QED  BY <1>2, <2>3, <2>4, <2>5, <2>6, <2>7
<1> QED  BY <1>1, <1>2

\* The transcript keeps its type when only statuses of shown turns change.
ShownType(map) ==
    /\ map \in [Turns -> [status : Statuses, by : Sessions]]
    /\ \A t \in Turns : map[t].status # "none" => map[t].by \in Questions

LEMMA SettersTyped ==
    ASSUME TypeOK, NEW t \in AnyTurn
    PROVE  /\ ShownType(shown)
           /\ \A status \in Statuses \ {"none"} : ShownType(StatusOf(t, status))
           /\ \A r \in Questions : ShownType(Answered(t, r))
           /\ t \in Turns => ShownType([shown EXCEPT ![t] = Hidden])
           /\ \A r \in Questions, status \in Statuses \ {"none"} :
                t \in Turns => ShownType([shown EXCEPT ![t] = [status |-> status, by |-> r]])
<1>1. ShownType(shown)  BY DEF TypeOK, ShownType, Shown
<1>2. ASSUME NEW status \in Statuses \ {"none"} PROVE ShownType(StatusOf(t, status))
  BY <1>1, <1>2, StatusOfSets DEF ShownType
<1>3. ASSUME NEW r \in Questions PROVE ShownType(Answered(t, r))
  BY <1>1, <1>3, AnsweredSets DEF ShownType
<1>4. ASSUME t \in Turns PROVE ShownType([shown EXCEPT ![t] = Hidden])
  BY <1>1, <1>4 DEF ShownType, Hidden, Statuses, Sessions
<1>5. ASSUME NEW r \in Questions, NEW status \in Statuses \ {"none"}, t \in Turns
      PROVE  ShownType([shown EXCEPT ![t] = [status |-> status, by |-> r]])
  BY <1>1, <1>5 DEF ShownType, Sessions
<1> QED  BY <1>1, <1>2, <1>3, <1>4, <1>5

LEMMA NewTranscripts ==
    ASSUME TypeOK
    PROVE  /\ ShownType([t \in Turns |-> Hidden])
           /\ \A seen \in SUBSET Questions : ShownType(FromHistory(seen))
<1>1. ShownType([t \in Turns |-> Hidden])
  BY DEF ShownType, Hidden, Statuses, Sessions
<1>2. ASSUME NEW seen \in SUBSET Questions PROVE ShownType(FromHistory(seen))
  <2> SUFFICES ASSUME NEW t \in Turns
               PROVE  /\ FromHistory(seen)[t] \in [status : Statuses, by : Sessions]
                      /\ FromHistory(seen)[t].status # "none" =>
                            FromHistory(seen)[t].by \in Questions
    BY DEF ShownType, FromHistory
  <2>1. t[1] \in Questions  BY DEF Turns
  <2>2. CASE t \in seen \X {"history"}
    BY <2>1, <2>2 DEF FromHistory, Statuses, Sessions
  <2>3. CASE t \notin seen \X {"history"}
    BY <2>3 DEF FromHistory, Hidden, Statuses, Sessions
  <2> QED  BY <2>2, <2>3
<1> QED  BY <1>1, <1>2

LEMMA TypesStay == TypeOK /\ [Next]_vars => TypeOK'
<1> SUFFICES ASSUME TypeOK, [Next]_vars PROVE TypeOK'  OBVIOUS
<1> DEFINE Rest ==
      /\ active' \in AnyTurn /\ streaming' \in BOOLEAN
      /\ session' \in Sessions /\ controller' \in Sessions
      /\ aborted' \in SUBSET Questions
      /\ req' \in [Questions -> RequestType]
      /\ server' \in [Questions -> {"idle", "asked", "settled"}]
      /\ saved' \in [Questions -> Sessions]
      /\ fresh' \in BOOLEAN /\ strayed' \in BOOLEAN
<1>0. ASSUME ShownType(shown'), Rest PROVE TypeOK'
  BY <1>0 DEF TypeOK, ShownType, Shown
<1>1. ASSUME NEW r \in Questions, NEW improve \in BOOLEAN, Submit(r, improve)
      PROVE  TypeOK'
  <2> DEFINE at == IF improve THEN "optimizing" ELSE "asked"
             status == IF improve THEN "optimizing" ELSE "streaming"
  <2>1. Own(r) \in Turns  BY OwnTurns
  <2>2. /\ req' = [req EXCEPT ![r] = Request("submit", at, Own(r), Shown)]
        /\ shown' = [shown EXCEPT ![Own(r)] = [status |-> status, by |-> r]]
        /\ active' = Own(r)
    BY <1>1 DEF Submit, Own
  <2>3. Request("submit", at, Own(r), Shown) \in RequestType  BY <2>1, RequestIsTyped
  <2>4. ShownType(shown')
    BY <2>1, <2>2, SettersTyped DEF AnyTurn, Statuses, Working
  <2> HIDE DEF at, status
  <2>5. req' \in [Questions -> RequestType]  BY <2>2, <2>3 DEF TypeOK
  <2>6. /\ controller' = r /\ aborted' = aborted \cup ({controller} \ {None})
        /\ server' = server \/ server' = [server EXCEPT ![r] = "asked"]
        /\ streaming' = TRUE /\ fresh' = FALSE
        /\ UNCHANGED <<session, saved, strayed>>
    BY <1>1 DEF Submit, Begin, Sent
  <2>7. Rest  BY <2>1, <2>2, <2>5, <2>6 DEF TypeOK, AnyTurn, Sessions
  <2> QED  BY <1>0, <2>4, <2>7
<1>2. ASSUME NEW r \in Questions, NEW t \in Turns, NEW kind \in {"regenerate", "room"},
             Regenerate(r, t, kind)
      PROVE  TypeOK'
  <2>1. Request(kind, "asked", t, {u \in Shown : u[1] < t[1]}) \in RequestType
    BY RequestIsTyped
  <2>2. Rest  BY <1>2, <2>1 DEF Regenerate, Begin, Sent, TypeOK, Sessions
  <2> QED  BY <1>0, <1>2, <2>2, SettersTyped DEF Regenerate, AnyTurn
<1>3. CASE Cancel
  <2>1. ShownType(shown')  BY <1>3, SettersTyped DEF Cancel, TypeOK, Statuses
  <2>2. Rest  BY <1>3 DEF Cancel, TypeOK, Sessions
  <2> QED  BY <1>0, <2>1, <2>2
<1>4. ASSUME NEW cancels \in BOOLEAN, NewChat(cancels) PROVE TypeOK'
  BY <1>0, <1>4, NewTranscripts DEF NewChat, TypeOK, Sessions, AnyTurn
<1>5. ASSUME NEW s \in Questions, Hydrate(s) PROVE TypeOK'
  <2>1. PICK seen \in SUBSET Thread(s) :
          /\ shown' = FromHistory(seen)
          /\ active' = Newest(seen \X {"history"})
    BY <1>5 DEF Hydrate
  <2>2. seen \in SUBSET Questions  BY DEF Thread
  <2>3. active' \in AnyTurn
    BY <2>1, <2>2, NewestIsOne DEF AnyTurn, Turns, Origins
  <2>4. Rest  BY <1>5, <2>3 DEF Hydrate, TypeOK, Sessions
  <2> QED  BY <1>0, <2>1, <2>2, <2>4, NewTranscripts
<1>6. CASE Reload
  <2>1. req' \in [Questions -> RequestType]
    <3> SUFFICES ASSUME NEW r \in Questions PROVE req'[r] \in RequestType
      BY <1>6 DEF Reload
    <3>1. req[r] \in RequestType  BY DEF TypeOK
    <3> QED  BY <1>6, <3>1 DEF Reload, RequestType, AnyTurn
  <2>2. Rest  BY <1>6, <2>1 DEF Reload, TypeOK, Sessions, AnyTurn
  <2> QED  BY <1>0, <1>6, <2>2, NewTranscripts DEF Reload
<1>7. ASSUME NEW r \in Questions, Stopped(r) PROVE TypeOK'
  <2>1. Rest  BY <1>7, EndsTyped DEF Stopped, transcript, TypeOK
  <2> QED  BY <1>0, <1>7, <2>1, SettersTyped DEF Stopped, transcript, TypeOK
<1>8. ASSUME NEW r \in Questions, Optimized(r) PROVE TypeOK'
  <2>1. req[r].turn \in AnyTurn  BY DEF TypeOK, RequestType
  <2>2. ShownType(shown')
    BY <1>8, <2>1, SettersTyped DEF Optimized, Statuses, Working
  <2>3. Rest  BY <1>8, GoesTyped DEF Optimized, Sent, TypeOK
  <2> QED  BY <1>0, <2>2, <2>3
<1>9. ASSUME NEW r \in Questions, Denied(r) PROVE TypeOK'
  <2>1. req[r].turn \in AnyTurn  BY DEF TypeOK, RequestType
  <2>2. active' \in AnyTurn
    BY <1>9, NewestIsOne DEF Denied, TypeOK, AnyTurn, Shown
  <2>3. ShownType(shown')
    <3>1. \/ active # NoTurn /\ shown' = [shown EXCEPT ![active] = Hidden]
          \/ shown' = StatusOf(req[r].turn, "complete")
          \/ shown' = shown
      BY <1>9 DEF Denied
    <3>2. CASE active # NoTurn /\ shown' = [shown EXCEPT ![active] = Hidden]
      BY <3>2, SettersTyped DEF TypeOK, AnyTurn
    <3>3. CASE shown' = StatusOf(req[r].turn, "complete")
      BY <2>1, <3>3, SettersTyped DEF Statuses
    <3>4. CASE shown' = shown  BY <2>1, <3>4, SettersTyped
    <3> QED  BY <3>1, <3>2, <3>3, <3>4
  <2>4. Rest  BY <1>9, <2>2, EndsTyped DEF Denied, TypeOK
  <2> QED  BY <1>0, <2>3, <2>4
<1>10. ASSUME NEW r \in Questions, FirstChunk(r) PROVE TypeOK'
  <2>1. req[r].turn \in AnyTurn  BY DEF TypeOK, RequestType
  <2>2. ShownType(shown')
    BY <1>10, <2>1, SettersTyped DEF FirstChunk, transcript, Statuses, Working
  <2>3. Rest  BY <1>10, <2>1, GoesTyped DEF FirstChunk, transcript, TypeOK
  <2> QED  BY <1>0, <2>2, <2>3
<1>11. ASSUME NEW r \in Questions, Done(r) PROVE TypeOK'
  <2>1. req[r].turn \in AnyTurn  BY DEF TypeOK, RequestType
  <2>2. ShownType(shown')  BY <1>11, <2>1, SettersTyped DEF Done
  <2>3. session' \in Sessions  BY <1>11 DEF Done, TypeOK, RequestType
  <2>4. Rest  BY <1>11, <2>3, GoesTyped DEF Done, TypeOK
  <2> QED  BY <1>0, <2>2, <2>4
<1>12. ASSUME NEW r \in Questions, Fails(r) PROVE TypeOK'
  <2>1. req[r].turn \in AnyTurn  BY DEF TypeOK, RequestType
  <2>2. ShownType(shown')
    BY <1>12, <2>1, SettersTyped DEF Fails, Statuses, TypeOK
  <2>3. Rest  BY <1>12, EndsTyped DEF Fails, TypeOK
  <2> QED  BY <1>0, <2>2, <2>3
<1>13. ASSUME NEW r \in Questions, Refreshed(r) PROVE TypeOK'
  <2>1. Rest  BY <1>13, EndsTyped DEF Refreshed, transcript, TypeOK
  <2> QED  BY <1>0, <1>13, <2>1, SettersTyped DEF Refreshed, transcript, TypeOK
<1>14. ASSUME NEW r \in Questions, Saves(r) \/ DoesNotSave(r) PROVE TypeOK'
  <2>1. SessionOf(r) \in Sessions  BY DEF SessionOf, TypeOK, RequestType, Sessions
  <2>2. Rest  BY <1>14, <2>1 DEF Saves, DoesNotSave, transcript, TypeOK
  <2>3. shown' = shown  BY <1>14 DEF Saves, DoesNotSave, transcript
  <2> QED  BY <1>0, <2>2, <2>3, SettersTyped DEF TypeOK
<1>15. CASE UNCHANGED vars
  BY <1>15 DEF vars, transcript, TypeOK, Shown
<1> QED  BY <1>1, <1>2, <1>3, <1>4, <1>5, <1>6, <1>7, <1>8, <1>9, <1>10, <1>11, <1>12,
            <1>13, <1>14, <1>15 DEF Next, RequestStep
-----------------------------------------------------------------------------
(* The requests *)

LEMMA OnlyOneRuns ==
    ASSUME RequestsInv, NEW r \in Questions, Running(r)
    PROVE  controller = r /\ \A q \in Questions \ {r} : ~Running(q)
BY DEF RequestsInv, Alone

\* A new request cuts off the one that is under way.
LEMMA BeginsAlone ==
    ASSUME RequestsInv, NEW r \in Questions, New(r), Begin(r),
           \A q \in Questions \ {r} : req'[q] = req[q]
    PROVE  /\ controller' = r /\ r \notin aborted'
           /\ \A q \in Questions \ {r} : ~Running(q)'
           /\ \A q \in Questions : Used(q) => q < r
           /\ \A q \in Questions : Running(q) => q \in aborted'
<1> USE DEF RequestsInv, TypeOK
<1>1. controller' = r /\ r \notin aborted'
  BY OwnTurns DEF Begin, New, Numbered, Used
<1>2. \A q \in Questions : Running(q) => q \in aborted'
  BY OwnTurns DEF Begin, Alone
<1>3. \A q \in Questions \ {r} : ~Running(q)'
  BY <1>2 DEF Running, InFlight, Begin
<1>4. \A q \in Questions : Used(q) => q < r
  <2> SUFFICES ASSUME NEW q \in Questions, Used(q) PROVE q < r  OBVIOUS
  <2>1. r # q /\ ~(r < q)  BY DEF New, Used, Numbered
  <2> QED  BY <2>1, ChatAssumption DEF Questions
<1> QED  BY <1>1, <1>2, <1>3, <1>4

\* What a question was asked with, and what the server has done with it, stays.
Keeps ==
    /\ \A r \in Questions : Used(r) =>
          /\ Used(r)' /\ req'[r].turn = req[r].turn /\ req'[r].session = req[r].session
          /\ req'[r].context = req[r].context /\ req'[r].fresh = req[r].fresh
    /\ \A r \in Questions : server[r] = "settled" =>
          server'[r] = "settled" /\ saved'[r] = saved[r]
    /\ aborted \subseteq aborted'
    /\ strayed => strayed'

LEMMA Kept == RequestsInv /\ [Next]_vars => Keeps
<1> SUFFICES ASSUME RequestsInv, [Next]_vars PROVE Keeps  OBVIOUS
<1> USE DEF RequestsInv, Used
<1>1. ASSUME NEW r \in Questions, NEW improve \in BOOLEAN, Submit(r, improve)
      PROVE  Keeps
  <2>1. req[r].at = "unused" /\ server[r] = "idle"  BY <1>1 DEF Submit, New, Placed
  <2>2. \A q \in Questions \ {r} : req'[q] = req[q]  BY <1>1 DEF Submit, TypeOK
  <2>3. \A q \in Questions \ {r} : server'[q] = server[q]  BY <1>1 DEF Submit, Sent, TypeOK
  <2>4. aborted \subseteq aborted' /\ saved' = saved /\ strayed' = strayed
    BY <1>1 DEF Submit, Begin
  <2> QED  BY <2>1, <2>2, <2>3, <2>4 DEF Keeps
<1>2. ASSUME NEW r \in Questions, NEW t \in Turns, NEW kind \in {"regenerate", "room"},
             Regenerate(r, t, kind)
      PROVE  Keeps
  <2>1. req[r].at = "unused" /\ server[r] = "idle"  BY <1>2 DEF Regenerate, New, Placed
  <2>2. \A q \in Questions \ {r} : req'[q] = req[q]  BY <1>2 DEF Regenerate, TypeOK
  <2>3. \A q \in Questions \ {r} : server'[q] = server[q]
    BY <1>2 DEF Regenerate, Sent, TypeOK
  <2>4. aborted \subseteq aborted' /\ saved' = saved /\ strayed' = strayed
    BY <1>2 DEF Regenerate, Begin
  <2> QED  BY <2>1, <2>2, <2>3, <2>4 DEF Keeps
<1>3. CASE Cancel  BY <1>3 DEF Cancel, Keeps
<1>4. ASSUME NEW cancels \in BOOLEAN, NewChat(cancels) PROVE Keeps
  BY <1>4 DEF NewChat, Keeps
<1>5. ASSUME NEW s \in Questions, Hydrate(s) PROVE Keeps  BY <1>5 DEF Hydrate, Keeps
<1>6. CASE Reload
  BY <1>6, ReloadEnds DEF Reload, Keeps
<1>7. ASSUME NEW r \in Questions, Stopped(r) \/ Refreshed(r) PROVE Keeps
  BY <1>7, EndsTyped DEF Stopped, Refreshed, Keeps
<1>8. ASSUME NEW r \in Questions, Optimized(r) PROVE Keeps
  <2>1. server[r] = "idle"  BY <1>8 DEF Optimized, Placed
  <2>2. server' = [server EXCEPT ![r] = "asked"]  BY <1>8 DEF Optimized, Sent
  <2> QED  BY <1>8, <2>1, <2>2, GoesTyped DEF Optimized, Keeps, TypeOK
<1>9. ASSUME NEW r \in Questions, Denied(r) \/ Fails(r) PROVE Keeps
  BY <1>9, EndsTyped DEF Denied, Fails, Keeps, TypeOK
<1>10. ASSUME NEW r \in Questions, FirstChunk(r) \/ Done(r) PROVE Keeps
  BY <1>10, GoesTyped DEF FirstChunk, Done, Keeps
<1>11. ASSUME NEW r \in Questions, Saves(r) \/ DoesNotSave(r) PROVE Keeps
  BY <1>11 DEF Saves, DoesNotSave, Keeps, TypeOK
<1>12. CASE UNCHANGED vars  BY <1>12 DEF vars, Keeps
<1> QED  BY <1>1, <1>2, <1>3, <1>4, <1>5, <1>6, <1>7, <1>8, <1>9, <1>10, <1>11,
            <1>12 DEF Next, RequestStep

\* A step that asks nothing new keeps the numbering, if no turn of a question that was
\* not asked appears.
LEMMA SameNumbers ==
    ASSUME RequestsInv,
           \A r \in Questions : Used(r)' <=> Used(r),
           \A r \in Questions : req'[r].turn = req[r].turn,
           controller' \in {None, controller},
           aborted' \subseteq {r \in Questions : Used(r)},
           \A r \in Questions : ~Used(r) => active' # Own(r) /\ shown'[Own(r)].status = "none"
    PROVE  Numbered'
<1>1. controller \in Questions \cup {None}  BY DEF RequestsInv, TypeOK, Sessions
<1>2. controller' # None => Used(controller)'  BY <1>1 DEF RequestsInv, Numbered
<1>3. \A r \in Questions : ~Used(r)' => Unknown(r)'
  BY DEF RequestsInv, Numbered, Unknown, Own
<1>4. \A r \in Questions : Used(r)' => \A q \in Questions : q < r => Used(q)'
  BY DEF RequestsInv, Numbered
<1>5. \A r \in aborted' : Used(r)'  OBVIOUS
<1> QED  BY <1>2, <1>3, <1>4, <1>5 DEF Numbered

\* What a setter leaves of the turns that are not shown.
LEMMA SettersKeepHidden ==
    ASSUME RequestsInv, NEW t \in AnyTurn, NEW q \in Questions, ~Used(q)
    PROVE  /\ \A status \in Statuses \ {"none"} : StatusOf(t, status)[Own(q)].status = "none"
           /\ \A r \in Questions : Answered(t, r)[Own(q)].status = "none"
           /\ t # Own(q) /\ t \in Turns =>
                 \A v : [shown EXCEPT ![t] = v][Own(q)].status = "none"
           /\ shown[Own(q)].status = "none"
<1>1. Own(q) \in Turns /\ shown[Own(q)].status = "none"
  BY OwnTurns DEF RequestsInv, Numbered, Unknown
<1>2. \A status \in Statuses \ {"none"} : StatusOf(t, status)[Own(q)].status = "none"
  BY <1>1, StatusOfSets DEF RequestsInv
<1>3. \A r \in Questions : Answered(t, r)[Own(q)].status = "none"
  BY <1>1, AnsweredSets DEF RequestsInv
<1>4. t # Own(q) /\ t \in Turns => \A v : [shown EXCEPT ![t] = v][Own(q)].status = "none"
  BY <1>1 DEF RequestsInv, TypeOK
<1> QED  BY <1>1, <1>2, <1>3, <1>4

LEMMA NumbersStay == RequestsInv /\ TypeOK' /\ [Next]_vars => Numbered'
<1> SUFFICES ASSUME RequestsInv, TypeOK', [Next]_vars PROVE Numbered'  OBVIOUS
<1> DEFINE Hides == \A r \in Questions :
                       ~Used(r) => active' # Own(r) /\ shown'[Own(r)].status = "none"
<1>0. /\ TypeOK /\ Numbered
      /\ \A r \in Questions : req[r].turn \in AnyTurn
      /\ \A q \in Questions : ~Used(q) => active # Own(q) /\ shown[Own(q)].status = "none"
      /\ \A q, r \in Questions : ~Used(q) => req[r].turn # Own(q)
      /\ active \in AnyTurn
  BY DEF RequestsInv, TypeOK, RequestType, Numbered, Unknown
<1>1. ASSUME NEW r \in Questions, New(r), Begin(r), Used(r)',
             \A q \in Questions \ {r} : req'[q] = req[q],
             \A q \in Questions \ {r} : ~Used(q) =>
                /\ active' # Own(q) /\ shown'[Own(q)].status = "none"
                /\ req'[r].turn # Own(q)
      PROVE  Numbered'
  <2>1. \A q \in Questions : Used(q)' <=> Used(q) \/ q = r  BY <1>1 DEF Used
  <2>2. \A q \in Questions : Used(q)' => \A p \in Questions : p < q => Used(p)'
    <3> SUFFICES ASSUME NEW q \in Questions, Used(q)', NEW p \in Questions, p < q
                 PROVE  Used(p)'
      OBVIOUS
    <3> QED  BY <1>0, <1>1, <2>1 DEF Numbered, New, Used
  <2>3. controller' = r /\ \A q \in aborted' : Used(q)
    BY <1>0, <1>1 DEF Begin, Numbered, TypeOK
  <2>4. \A q \in aborted' : Used(q)'  BY <2>1, <2>3 DEF TypeOK
  <2>5. ASSUME NEW q \in Questions, ~Used(q)' PROVE Unknown(q)'
    <3>1. q # r /\ ~Used(q)  BY <2>1, <2>5
    <3>2. \A p \in Questions : req'[p].turn # Own(q)  BY <1>0, <1>1, <3>1
    <3> QED  BY <1>1, <3>1, <3>2 DEF Unknown, Own
  <2> QED  BY <1>1, <2>2, <2>3, <2>4, <2>5 DEF Numbered
<1>2. ASSUME NEW r \in Questions, NEW improve \in BOOLEAN, Submit(r, improve)
      PROVE  Numbered'
  <2> DEFINE R == Request("submit", IF improve THEN "optimizing" ELSE "asked", Own(r), Shown)
             T == [status |-> IF improve THEN "optimizing" ELSE "streaming", by |-> r]
  <2>1. /\ req' = [req EXCEPT ![r] = R] /\ shown' = [shown EXCEPT ![Own(r)] = T]
        /\ active' = Own(r) /\ New(r) /\ Begin(r)
    BY <1>2 DEF Submit, Own
  <2>2. R.at # "unused" /\ R.turn = Own(r)  BY DEF Request
  <2> HIDE DEF R, T
  <2>3. Used(r)' /\ req'[r].turn = Own(r)  BY <1>0, <2>1, <2>2 DEF TypeOK, Used
  <2>4. \A q \in Questions \ {r} : Own(q) # Own(r)  BY OwnTurns
  <2>5. \A q \in Questions \ {r} : ~Used(q) => shown'[Own(q)].status = "none"
    BY <2>1, <2>4, OwnTurns, SettersKeepHidden DEF AnyTurn
  <2> QED  BY <1>0, <1>1, <2>1, <2>3, <2>4, <2>5 DEF TypeOK
<1>3. ASSUME NEW r \in Questions, NEW t \in Turns, NEW kind \in {"regenerate", "room"},
             Regenerate(r, t, kind)
      PROVE  Numbered'
  <2> DEFINE R == Request(kind, "asked", t, {u \in Shown : u[1] < t[1]})
  <2>1. /\ req' = [req EXCEPT ![r] = R] /\ shown' = shown
        /\ active' = active /\ New(r) /\ Begin(r) /\ shown[t].status # "none"
    BY <1>3 DEF Regenerate, Shown
  <2>2. R.at # "unused" /\ R.turn = t  BY DEF Request
  <2> HIDE DEF R
  <2>3. Used(r)' /\ req'[r].turn = t  BY <1>0, <2>1, <2>2 DEF TypeOK, Used
  <2>4. \A q \in Questions : ~Used(q) => shown[Own(q)].status = "none"
    BY <1>0 DEF Numbered, Unknown
  <2> QED  BY <1>0, <1>1, <2>1, <2>3, <2>4 DEF TypeOK
<1>4. ASSUME Hides, \A r \in Questions : Used(r)' <=> Used(r),
             \A r \in Questions : req'[r].turn = req[r].turn,
             controller' \in {None, controller},
             aborted' \subseteq {r \in Questions : Used(r)}
      PROVE  Numbered'
  BY <1>4, SameNumbers
<1>5. aborted \cup ({controller} \ {None}) \subseteq {r \in Questions : Used(r)}
  BY <1>0 DEF TypeOK, Numbered, Sessions
<1>6. CASE Cancel
  <2>1. Hides  BY <1>0, <1>6, SettersKeepHidden DEF Cancel, Statuses
  <2> QED  BY <1>4, <1>5, <1>6, <2>1 DEF Cancel, Used
<1>7. ASSUME NEW cancels \in BOOLEAN, NewChat(cancels) PROVE Numbered'
  <2>1. Hides  BY <1>7, OwnTurns DEF NewChat, Hidden
  <2> QED  BY <1>4, <1>5, <1>7, <2>1 DEF NewChat, Used
<1>8. ASSUME NEW s \in Questions, Hydrate(s) PROVE Numbered'
  <2>1. PICK seen \in SUBSET Thread(s) :
          /\ shown' = FromHistory(seen)
          /\ active' = Newest(seen \X {"history"})
    BY <1>8 DEF Hydrate
  <2>2. seen \X {"history"} \in SUBSET Turns  BY DEF Thread, Turns, Origins
  <2>3. \A r \in Questions : Own(r) \notin seen \X {"history"}  BY DEF Own
  <2>4. Hides  BY <2>1, <2>2, <2>3, NewestIsOne, OwnTurns DEF FromHistory, Hidden
  <2> QED  BY <1>4, <1>5, <1>8, <2>4 DEF Hydrate, Used
<1>9. CASE Reload
  <2>1. Hides  BY <1>9, OwnTurns DEF Reload, Hidden
  <2>3. \A r \in Questions : Used(r)' <=> Used(r)  BY <1>0, <1>9, ReloadEnds DEF Used
  <2>4. \A r \in Questions : req'[r].turn = req[r].turn  BY <1>0, <1>9, ReloadEnds
  <2>5. aborted' \subseteq {r \in Questions : Used(r)}
    BY <1>5, <1>9 DEF Reload, InFlight, Used
  <2> QED  BY <1>4, <1>9, <2>1, <2>3, <2>4, <2>5 DEF Reload
<1>10. ASSUME NEW r \in Questions, End(r), Hides, Used(r), aborted' = aborted PROVE Numbered'
  <2>1. \A q \in Questions : Used(q)' <=> Used(q)  BY <1>0, <1>10, EndsTyped DEF Used
  <2>2. \A q \in Questions : req'[q].turn = req[q].turn  BY <1>0, <1>10, EndsTyped
  <2>3. controller' \in {None, controller}  BY <1>10 DEF End
  <2> QED  BY <1>4, <1>5, <1>10, <2>1, <2>2, <2>3
<1>11. ASSUME NEW r \in Questions, NEW at \in {"asked", "streaming", "refreshing"},
              Goto(r, at), Hides, Used(r), aborted' = aborted, controller' = controller
       PROVE  Numbered'
  <2>1. \A q \in Questions : Used(q)' <=> Used(q)  BY <1>0, <1>11, GoesTyped DEF Used
  <2>2. \A q \in Questions : req'[q].turn = req[q].turn  BY <1>0, <1>11, GoesTyped
  <2> QED  BY <1>4, <1>5, <1>11, <2>1, <2>2
<1>12. ASSUME UNCHANGED transcript PROVE Hides
  BY <1>0, <1>12 DEF transcript, Numbered, Unknown
<1>13. ASSUME NEW r \in Questions, Stopped(r) \/ Refreshed(r) PROVE Numbered'
  BY <1>10, <1>12, <1>13 DEF Stopped, Refreshed, Used, InFlight
<1>14. ASSUME NEW r \in Questions, Optimized(r) PROVE Numbered'
  <2>1. Hides
    BY <1>0, <1>14, SettersKeepHidden DEF Optimized, Statuses, Working
  <2> QED  BY <1>11, <1>14, <2>1 DEF Optimized, Used
<1>15. ASSUME NEW r \in Questions, Denied(r) PROVE Numbered'
  <2>1. \/ /\ active # NoTurn /\ shown' = [shown EXCEPT ![active] = Hidden]
           /\ active' = Newest(Shown \ {active})
        \/ shown' = StatusOf(req[r].turn, "complete") /\ active' = active
        \/ shown' = shown /\ active' = active
    BY <1>15 DEF Denied
  <2>2. \A q \in Questions : ~Used(q) => Own(q) \notin Shown
    BY <1>0 DEF Numbered, Unknown, Shown
  <2>3. Newest(Shown \ {active}) \in (Shown \ {active}) \cup {NoTurn}
    BY NewestIsOne DEF Shown
  <2>4. Hides
    <3> SUFFICES ASSUME NEW q \in Questions, ~Used(q)
                 PROVE  active' # Own(q) /\ shown'[Own(q)].status = "none"
      OBVIOUS
    <3>1. active' # Own(q)  BY <1>0, <2>1, <2>2, <2>3, OwnTurns
    <3>2. active # NoTurn => [shown EXCEPT ![active] = Hidden][Own(q)].status = "none"
      BY <1>0, SettersKeepHidden DEF AnyTurn
    <3>3. StatusOf(req[r].turn, "complete")[Own(q)].status = "none"
      BY <1>0, SettersKeepHidden DEF Statuses
    <3> QED  BY <1>0, <2>1, <3>1, <3>2, <3>3
  <2> QED  BY <1>10, <1>15, <2>4 DEF Denied, Used
<1>16. ASSUME NEW r \in Questions, FirstChunk(r) PROVE Numbered'
  <2>1. CASE UNCHANGED transcript
    BY <1>11, <1>12, <1>16, <2>1 DEF FirstChunk, Used
  <2>2. CASE shown' = StatusOf(req[r].turn, "streaming") /\ active' = req[r].turn
    <3>1. Hides  BY <1>0, <2>2, SettersKeepHidden DEF Statuses, Working
    <3> QED  BY <1>11, <1>16, <3>1 DEF FirstChunk, Used
  <2> QED  BY <1>16, <2>1, <2>2 DEF FirstChunk
<1>17. ASSUME NEW r \in Questions, Done(r) PROVE Numbered'
  <2>1. Hides  BY <1>0, <1>17, SettersKeepHidden DEF Done
  <2> QED  BY <1>11, <1>17, <2>1 DEF Done, Used
<1>18. ASSUME NEW r \in Questions, Fails(r) PROVE Numbered'
  <2>1. Hides  BY <1>0, <1>18, SettersKeepHidden DEF Fails, Statuses
  <2> QED  BY <1>10, <1>18, <2>1 DEF Fails, Used
<1>19. ASSUME NEW r \in Questions, Saves(r) \/ DoesNotSave(r) PROVE Numbered'
  <2>1. Hides  BY <1>12, <1>19 DEF Saves, DoesNotSave
  <2> QED  BY <1>4, <1>5, <1>19, <2>1 DEF Saves, DoesNotSave, Used
<1>20. CASE UNCHANGED vars
  <2>1. Hides  BY <1>12, <1>20 DEF vars
  <2> QED  BY <1>4, <1>5, <1>20, <2>1 DEF vars, Used
<1> QED  BY <1>2, <1>3, <1>6, <1>7, <1>8, <1>9, <1>13, <1>14, <1>15, <1>16, <1>17, <1>18,
            <1>19, <1>20 DEF Next, RequestStep

\* Wherever nothing runs, or the code of the request under way is somewhere else.
LEMMA AloneStays == RequestsInv /\ TypeOK' /\ [Next]_vars
                        => \A q \in Questions : Placed(q)' /\ Alone(q)'
<1> SUFFICES ASSUME RequestsInv, TypeOK', [Next]_vars
             PROVE  \A q \in Questions : Placed(q)' /\ Alone(q)'
  OBVIOUS
<1> DEFINE Goal == \A q \in Questions : Placed(q)' /\ Alone(q)'
<1>0. /\ TypeOK /\ Numbered /\ \A q \in Questions : Placed(q) /\ Alone(q)
      /\ \A q \in Questions : req[q].turn \in AnyTurn
  BY DEF RequestsInv, TypeOK, RequestType
<1>1. ASSUME NEW r \in Questions, NEW improve \in BOOLEAN, Submit(r, improve) PROVE Goal
  <2> DEFINE at == IF improve THEN "optimizing" ELSE "asked"
             R == Request("submit", at, Own(r), Shown)
  <2>1. /\ req' = [req EXCEPT ![r] = R] /\ active' = Own(r) /\ New(r) /\ Begin(r)
    BY <1>1 DEF Submit, Own
  <2>2. R.at = at /\ R.kind = "submit" /\ R.turn = Own(r) /\ R.previous = active
    BY DEF Request
  <2>3. active # Own(r) /\ server[r] = "idle" /\ req[r].at = "unused"
    BY <1>0, <2>1 DEF New, Numbered, Used, Unknown, Placed
  <2>4. at = "optimizing" => server' = server
    BY <1>1 DEF Submit
  <2>5. at \in {"optimizing", "asked"}  OBVIOUS
  <2> HIDE DEF R, at
  <2>6. \A q \in Questions \ {r} : req'[q] = req[q]  BY <1>0, <2>1 DEF TypeOK
  <2>7. req'[r] = R  BY <1>0, <2>1 DEF TypeOK
  <2>8. \A q \in Questions \ {r} : server'[q] = server[q]
    BY <1>0, <1>1 DEF Submit, Sent, TypeOK
  <2>9. Placed(r)'
    BY <2>2, <2>3, <2>4, <2>5, <2>7 DEF Placed, Own
  <2>10. \A q \in Questions \ {r} : Placed(q)'
    BY <1>0, <2>6, <2>8 DEF Placed, InFlight, Own
  <2>11. controller' = r /\ \A q \in Questions \ {r} : ~Running(q)'
    BY <2>1, <2>6, BeginsAlone
  <2>12. Alone(r)'  BY <2>1, <2>2, <2>7, <2>11 DEF Alone
  <2> QED  BY <2>9, <2>10, <2>11, <2>12 DEF Alone
<1>2. ASSUME NEW r \in Questions, NEW t \in Turns, NEW kind \in {"regenerate", "room"},
             Regenerate(r, t, kind)
      PROVE  Goal
  <2> DEFINE R == Request(kind, "asked", t, {u \in Shown : u[1] < t[1]})
  <2>1. /\ req' = [req EXCEPT ![r] = R] /\ shown' = shown /\ New(r) /\ Begin(r)
        /\ shown[t].status \in {"complete", "error", "cancelled"}
    BY <1>2 DEF Regenerate
  <2>2. R.at = "asked" /\ R.kind = kind /\ R.turn = t  BY DEF Request
  <2> HIDE DEF R
  <2>3. \A q \in Questions \ {r} : req'[q] = req[q]  BY <1>0, <2>1 DEF TypeOK
  <2>4. req'[r] = R  BY <1>0, <2>1 DEF TypeOK
  <2>5. \A q \in Questions \ {r} : server'[q] = server[q]
    BY <1>0, <1>2 DEF Regenerate, Sent, TypeOK
  <2>6. Placed(r)'  BY <2>2, <2>4 DEF Placed
  <2>7. \A q \in Questions \ {r} : Placed(q)'
    BY <1>0, <2>3, <2>5 DEF Placed, InFlight, Own
  <2>8. controller' = r /\ \A q \in Questions \ {r} : ~Running(q)'
    BY <2>1, <2>3, BeginsAlone
  <2>9. Alone(r)'  BY <2>1, <2>2, <2>4, <2>8 DEF Alone, Working
  <2> QED  BY <2>6, <2>7, <2>8, <2>9 DEF Alone
<1>3. ASSUME \A q \in Questions : ~Running(q)', \A q \in Questions : Placed(q)' PROVE Goal
  BY <1>3 DEF Alone
<1>4. ASSUME req' = req, server' = server PROVE \A q \in Questions : Placed(q)'
  BY <1>0, <1>4 DEF Placed, InFlight, Own
<1>5. \A q \in Questions : Running(q) => q \in aborted \cup ({controller} \ {None})
  BY <1>0, OwnTurns DEF Alone
<1>6. CASE Cancel
  <2>1. \A q \in Questions : ~Running(q)'
    BY <1>5, <1>6 DEF Cancel, Running, InFlight
  <2> QED  BY <1>3, <1>4, <1>6, <2>1 DEF Cancel
<1>7. ASSUME NEW cancels \in BOOLEAN, NewChat(cancels) PROVE Goal
  <2>1. \A q \in Questions : req'[q].turn \notin Shown'
    BY <1>7, OwnTurns DEF NewChat, Shown, Hidden
  <2>2. \A q \in Questions : Placed(q)'  BY <1>4, <1>7 DEF NewChat
  <2>3. CASE cancels
    <3>1. \A q \in Questions : ~Running(q)'
      BY <1>5, <1>7, <2>3 DEF NewChat, Running, InFlight
    <3> QED  BY <1>3, <2>2, <3>1
  <2>4. CASE ~cancels
    <3>1. \A q \in Questions : Running(q)' => controller' = q
      BY <1>0, <1>7, <2>4 DEF NewChat, Running, InFlight, Alone
    <3> QED  BY <2>1, <2>2, <3>1 DEF Alone
  <2> QED  BY <2>3, <2>4
<1>8. ASSUME NEW s \in Questions, Hydrate(s) PROVE Goal
  <2>1. PICK seen \in SUBSET Thread(s) : shown' = FromHistory(seen)
    BY <1>8 DEF Hydrate
  <2>2. \A t \in Shown' : shown'[t].status = "complete" /\ t[2] = "history"
    BY <2>1 DEF FromHistory, Shown, Hidden
  <2>3. \A q \in Questions : Own(q) \notin Shown'
    BY <2>2, OwnTurns DEF Shown
  <2>4. req' = req /\ server' = server /\ aborted' = aborted /\ controller' = controller
    BY <1>8 DEF Hydrate
  <2>5. \A q \in Questions : Placed(q)'  BY <1>4, <2>4
  <2>6. ASSUME NEW q \in Questions, Running(q)', req'[q].turn \in Shown'
        PROVE  req'[q].kind # "submit" /\ shown'[req'[q].turn].status \notin Working
    <3>1. Running(q) /\ Placed(q)  BY <1>0, <2>4, <2>6 DEF Running, InFlight
    <3> QED  BY <2>2, <2>3, <2>4, <2>6, <3>1 DEF Placed, Running, Working
  <2>7. \A q \in Questions : Running(q)' => controller' = q
    BY <1>0, <2>4 DEF Running, InFlight, Alone
  <2> QED  BY <2>5, <2>6, <2>7 DEF Alone
<1>9. CASE Reload
  <2>1. \A q \in Questions : req'[q].at \in {"unused", "over"} /\ (~Used(q)' => ~Used(q))
    BY <1>0, <1>9, ReloadEnds DEF Used
  <2>2. \A q \in Questions : Placed(q)'
    BY <1>0, <1>9, <2>1 DEF Reload, Placed, InFlight, Used
  <2> QED  BY <1>3, <2>1, <2>2 DEF Running, InFlight
<1>10. ASSUME NEW r \in Questions, End(r), aborted' = aborted,
              \A q \in Questions \ {r} : server'[q] = server[q]
       PROVE  /\ \A q \in Questions : Placed(q)'
              /\ ~Running(r)'
              /\ \A q \in Questions \ {r} : Running(q)' => Running(q) /\ controller' = q
  <2>1. \A q \in Questions \ {r} : req'[q] = req[q]  BY <1>0, <1>10, EndsTyped
  <2>2. req'[r].at = "over" /\ (controller # r => controller' = controller)
    BY <1>0, <1>10, EndsTyped
  <2>3. \A q \in Questions \ {r} : Placed(q)'
    BY <1>0, <1>10, <2>1 DEF Placed, InFlight, Own
  <2>4. Placed(r)' /\ ~Running(r)'  BY <2>2 DEF Placed, InFlight, Running
  <2>5. \A q \in Questions \ {r} : Running(q)' => Running(q) /\ controller = q
    BY <1>0, <1>10, <2>1 DEF Running, InFlight, Alone
  <2> QED  BY <2>2, <2>3, <2>4, <2>5
<1>11. ASSUME NEW r \in Questions, NEW at \in {"asked", "streaming", "refreshing"}, Goto(r, at),
              Running(r), aborted' = aborted, \A q \in Questions \ {r} : server'[q] = server[q]
       PROVE  /\ \A q \in Questions : Placed(q)'
              /\ \A q \in Questions \ {r} : ~Running(q)'
              /\ controller = r
  <2>1. \A q \in Questions \ {r} : req'[q] = req[q]  BY <1>0, <1>11, GoesTyped
  <2>2. /\ req'[r].at = at /\ req'[r].kind = req[r].kind
        /\ req'[r].turn = req[r].turn /\ req'[r].previous = req[r].previous
    BY <1>0, <1>11, GoesTyped
  <2>3. \A q \in Questions \ {r} : Placed(q)'
    BY <1>0, <1>11, <2>1 DEF Placed, InFlight, Own
  <2>4. Placed(r)'  BY <1>0, <1>11, <2>2 DEF Placed, InFlight, Running, Own
  <2>5. \A q \in Questions \ {r} : ~Running(q)'
    BY <1>11, <2>1, OnlyOneRuns DEF Running, InFlight
  <2> QED  BY <1>11, <2>3, <2>4, <2>5, OnlyOneRuns
<1>12. ASSUME NEW r \in Questions, Stopped(r) \/ Refreshed(r) PROVE Goal
  <2>1. End(r) /\ aborted' = aborted /\ server' = server /\ UNCHANGED <<shown, active>>
    BY <1>12 DEF Stopped, Refreshed, transcript
  <2>2. /\ \A q \in Questions : Placed(q)'
        /\ ~Running(r)'
        /\ \A q \in Questions \ {r} : Running(q)' => Running(q) /\ controller' = q
    BY <1>10, <2>1
  <2>3. \A q \in Questions \ {r} : req'[q] = req[q]  BY <1>0, <2>1, EndsTyped
  <2>4. \A q \in Questions \ {r} : Alone(q)'
    BY <1>0, <2>1, <2>2, <2>3 DEF Alone, Shown
  <2> QED  BY <2>2, <2>4 DEF Alone
<1>13. ASSUME NEW r \in Questions, Denied(r) \/ Fails(r) PROVE Goal
  <2>1. /\ End(r) /\ aborted' = aborted /\ Running(r)
        /\ \A q \in Questions \ {r} : server'[q] = server[q]
    BY <1>0, <1>13 DEF Denied, Fails, Running, InFlight, TypeOK
  <2>2. \A q \in Questions : Placed(q)' /\ ~Running(q)'
    BY <1>10, <2>1, OnlyOneRuns
  <2> QED  BY <1>3, <2>2
<1>14. ASSUME NEW r \in Questions, Optimized(r) PROVE Goal
  <2>1. /\ Goto(r, "asked") /\ Running(r) /\ aborted' = aborted
        /\ \A q \in Questions \ {r} : server'[q] = server[q]
        /\ shown' = StatusOf(req[r].turn, "streaming") /\ active' = active
        /\ controller' = controller /\ req[r].kind = "submit"
    BY <1>0, <1>14 DEF Optimized, Sent, Running, InFlight, TypeOK, Placed
  <2>2. /\ \A q \in Questions : Placed(q)'
        /\ \A q \in Questions \ {r} : ~Running(q)'
        /\ controller = r
    BY <1>11, <2>1
  <2>3. req'[r].turn = req[r].turn /\ req'[r].kind = "submit"
    BY <1>0, <2>1, GoesTyped
  <2>4. req[r].turn \in Shown' => req[r].turn \in Shown
    BY <1>0, <2>1, StatusOfSets DEF Shown, Statuses, Working
  <2>5. Alone(r)'  BY <1>0, <2>1, <2>2, <2>3, <2>4 DEF Alone
  <2> QED  BY <2>2, <2>5 DEF Alone
<1>15. ASSUME NEW r \in Questions, FirstChunk(r) PROVE Goal
  <2>1. /\ Goto(r, "streaming") /\ Running(r) /\ aborted' = aborted
        /\ server' = server /\ controller' = controller
    BY <1>15 DEF FirstChunk, Running, InFlight
  <2>2. /\ \A q \in Questions : Placed(q)'
        /\ \A q \in Questions \ {r} : ~Running(q)'
        /\ controller = r
    BY <1>11, <2>1
  <2>3. /\ req'[r].turn = req[r].turn /\ req'[r].kind = req[r].kind
        /\ req'[r].at = "streaming"
    BY <1>0, <2>1, GoesTyped
  <2>4. CASE req[r].kind = "submit"
    <3>1. shown' = shown /\ active' = active  BY <1>15, <2>4 DEF FirstChunk, transcript
    <3>2. Alone(r)'  BY <1>0, <2>1, <2>2, <2>3, <2>4, <3>1 DEF Alone, Shown
    <3> QED  BY <2>2, <3>2 DEF Alone
  <2>5. CASE req[r].kind # "submit"
    <3>1. active' = req[r].turn  BY <1>15, <2>5 DEF FirstChunk
    <3>2. Alone(r)'  BY <2>1, <2>2, <2>3, <2>5, <3>1 DEF Alone
    <3> QED  BY <2>2, <3>2 DEF Alone
  <2> QED  BY <2>4, <2>5
<1>16. ASSUME NEW r \in Questions, Done(r) PROVE Goal
  <2>1. Goto(r, "refreshing") /\ Running(r) /\ aborted' = aborted /\ server' = server
    BY <1>16 DEF Done, Running, InFlight
  <2>2. \A q \in Questions : Placed(q)' /\ (q # r => ~Running(q)')
    BY <1>11, <2>1
  <2>3. ~Running(r)'  BY <1>0, <2>1, GoesTyped DEF Running, InFlight
  <2> QED  BY <1>3, <2>2, <2>3
<1>17. ASSUME NEW r \in Questions, Saves(r) \/ DoesNotSave(r) PROVE Goal
  <2>1. /\ UNCHANGED <<shown, active, controller, aborted, req>>
        /\ server[r] = "asked" /\ server' = [server EXCEPT ![r] = "settled"]
    BY <1>17 DEF Saves, DoesNotSave, transcript
  <2>2. \A q \in Questions : Placed(q)'
    BY <1>0, <2>1 DEF Placed, InFlight, Own, TypeOK
  <2>3. \A q \in Questions : Alone(q)'
    BY <1>0, <2>1 DEF Alone, Running, InFlight, Shown
  <2> QED  BY <2>2, <2>3
<1>18. CASE UNCHANGED vars
  <2>1. UNCHANGED <<shown, active, controller, aborted, req, server>>
    BY <1>18 DEF vars, transcript
  <2>2. \A q \in Questions : Alone(q)'
    BY <1>0, <2>1 DEF Alone, Running, InFlight, Shown
  <2> QED  BY <1>4, <2>1, <2>2
<1> QED  BY <1>1, <1>2, <1>6, <1>7, <1>8, <1>9, <1>12, <1>13, <1>14, <1>15, <1>16, <1>17,
            <1>18 DEF Next, RequestStep

LEMMA RequestsStay == RequestsInv /\ [Next]_vars => RequestsInv'
BY TypesStay, NumbersStay, AloneStays DEF RequestsInv

LEMMA InitRequests == Init => TranscriptInv /\ ChatInv
<1> SUFFICES ASSUME Init PROVE TranscriptInv /\ ChatInv  OBVIOUS
<1>1. TypeOK  BY InitTypes
<1>2. \A r \in Questions : /\ req[r].at = "unused" /\ req[r].turn = NoTurn
                           /\ req[r].context = {} /\ req[r].kind = "submit"
  BY DEF Init, Unused
<1>3. Shown = {} /\ aborted = {} /\ controller = None
  BY DEF Init, Shown, Hidden
<1>4. Numbered  BY <1>2, <1>3, OwnTurns DEF Numbered, Unknown, Used, Init, Hidden
<1>5. \A r \in Questions : Placed(r) /\ Alone(r) /\ Asks(r)
  BY <1>2 DEF Init, Placed, Alone, Asks, Running, InFlight, Used
<1>6. AnswersAreSaved /\ NewMeansNone /\ WorkingTurnsAreServed
  BY <1>3 DEF AnswersAreSaved, NewMeansNone, WorkingTurnsAreServed, Init
<1> QED  BY <1>1, <1>4, <1>5, <1>6 DEF ChatInv, TranscriptInv, RequestsInv

-----------------------------------------------------------------------------
(* The turns that look as if they were answered *)

Cut(t) == \E r \in aborted, later \in Questions :
             later > r /\ Used(later) /\ req[r].turn = t

LEMMA WorkingStays == TranscriptInv /\ RequestsInv' /\ [Next]_vars => WorkingTurnsAreServed'
<1> SUFFICES ASSUME TranscriptInv, RequestsInv', [Next]_vars,
                    NEW t \in Turns, t \in Shown', shown'[t].status \in Working
             PROVE  Served(t)' \/ Cut(t)'
  BY DEF WorkingTurnsAreServed, Cut, Used, Shown
<1>0. /\ RequestsInv /\ TypeOK /\ Numbered /\ TypeOK' /\ Keeps
      /\ \A q \in Questions : Placed(q) /\ Alone(q)
      /\ \A q \in Questions : req[q].turn \in AnyTurn
  BY Kept DEF TranscriptInv, RequestsInv, TypeOK, RequestType
<1>1. Cut(t) => Cut(t)'  BY <1>0 DEF Cut, Keeps, TypeOK, Numbered
<1>2. t \in Shown /\ shown[t].status \in Working => Served(t) \/ Cut(t)
  BY DEF TranscriptInv, WorkingTurnsAreServed, Cut, Used
\* The turn of the request under way is the active one.
<1>3. ASSUME NEW r \in Questions, Running(r), Served(t), shown[t].status \in Working, t \in Shown
      PROVE  /\ req[r].turn = t /\ active = t
             /\ req[r].kind # "submit" => req[r].at # "asked"
  BY <1>0, <1>3, OnlyOneRuns DEF Served, Alone
<1>4. ASSUME NEW r \in Questions, New(r), Begin(r), Used(r)', Served(t) \/ Cut(t),
             \A q \in Questions \ {r} : req'[q] = req[q]
      PROVE  Cut(t)'
  <2>1. CASE Served(t)
    <3>1. PICK q \in Questions : Running(q) /\ req[q].turn = t  BY <2>1 DEF Served
    <3>2. q \in aborted' /\ q < r  BY <1>0, <1>4, <3>1, BeginsAlone DEF Running, InFlight, Used
    <3>3. req'[q].turn = t  BY <1>0, <3>1 DEF Keeps, Used, Running, InFlight
    <3>4. r > q  BY <3>2, ChatAssumption DEF Questions
    <3> QED  BY <1>4, <3>2, <3>3, <3>4 DEF Cut
  <2> QED  BY <1>1, <1>4, <2>1
<1>5. ASSUME NEW r \in Questions, NEW improve \in BOOLEAN, Submit(r, improve)
      PROVE  Served(t)' \/ Cut(t)'
  <2> DEFINE R == Request("submit", IF improve THEN "optimizing" ELSE "asked", Own(r), Shown)
             T == [status |-> IF improve THEN "optimizing" ELSE "streaming", by |-> r]
  <2>1. /\ req' = [req EXCEPT ![r] = R] /\ shown' = [shown EXCEPT ![Own(r)] = T]
        /\ New(r) /\ Begin(r)
    BY <1>5 DEF Submit, Own
  <2>2. R.at \in {"optimizing", "asked"} /\ R.turn = Own(r)  BY DEF Request
  <2> HIDE DEF R, T
  <2>3. req'[r] = R /\ \A q \in Questions \ {r} : req'[q] = req[q]
    BY <1>0, <2>1 DEF TypeOK
  <2>4. CASE t = Own(r)
    <3>1. controller' = r /\ r \notin aborted'  BY <1>0, <2>1, <2>3, BeginsAlone
    <3> QED  BY <2>2, <2>3, <2>4, <3>1 DEF Served, Running, InFlight
  <2>5. CASE t # Own(r)
    <3>1. shown'[t] = shown[t]  BY <1>0, <2>1, <2>5 DEF TypeOK
    <3>2. Served(t) \/ Cut(t)  BY <1>2, <3>1 DEF Shown, Working
    <3> QED  BY <1>4, <2>1, <2>2, <2>3, <3>2 DEF Used
  <2> QED  BY <2>4, <2>5
<1>6. ASSUME NEW r \in Questions, NEW u \in Turns, NEW kind \in {"regenerate", "room"},
             Regenerate(r, u, kind)
      PROVE  Served(t)' \/ Cut(t)'
  <2> DEFINE R == Request(kind, "asked", u, {v \in Shown : v[1] < u[1]})
  <2>1. req' = [req EXCEPT ![r] = R] /\ shown' = shown /\ New(r) /\ Begin(r)
    BY <1>6 DEF Regenerate
  <2>2. R.at = "asked"  BY DEF Request
  <2> HIDE DEF R
  <2>3. Used(r)' /\ \A q \in Questions \ {r} : req'[q] = req[q]
    BY <1>0, <2>1, <2>2 DEF TypeOK, Used
  <2> QED  BY <1>2, <1>4, <2>1, <2>3 DEF Shown
<1>7. CASE Cancel
  <2>1. /\ active \in AnyTurn /\ shown' = StatusOf(active, "cancelled")
        /\ Running(controller) => controller \in Questions \/ controller = None
    BY <1>0, <1>7 DEF Cancel, TypeOK, Sessions
  <2>2. t # active /\ shown'[t] = shown[t]
    BY <1>0, <2>1, StatusOfSets DEF Statuses, Working, Shown
  <2>3. t \in Shown /\ shown[t].status \in Working  BY <2>2 DEF Shown, Working
  <2>4. ~Served(t)  BY <1>3, <2>2, <2>3 DEF Served
  <2> QED  BY <1>1, <1>2, <2>3, <2>4
<1>8. ASSUME NEW cancels \in BOOLEAN, NewChat(cancels) PROVE FALSE
  BY <1>8 DEF NewChat, Hidden, Working
<1>9. ASSUME NEW s \in Questions, Hydrate(s) PROVE FALSE
  BY <1>9 DEF Hydrate, FromHistory, Hidden, Working
<1>10. CASE Reload  BY <1>10 DEF Reload, Hidden, Working
\* What the request under way leaves working is not its turn.
<1>11. ASSUME NEW r \in Questions, Running(r), shown'[t] = shown[t],
              \/ t # active \/ t # req[r].turn
              \/ req[r].kind # "submit" /\ req[r].at = "asked"
       PROVE  Cut(t)'
  <2>1. t \in Shown /\ shown[t].status \in Working  BY <1>11 DEF Shown, Working
  <2> QED  BY <1>1, <1>2, <1>3, <1>11, <2>1
<1>12. ASSUME NEW r \in Questions, Denied(r) PROVE Cut(t)'
  <2>1. Running(r) /\ req[r].at \in {"optimizing", "asked"}
    BY <1>12 DEF Denied, Running, InFlight
  <2>2. CASE req[r].kind # "submit"
    <3>1. req[r].at = "asked"  BY <1>0, <2>1, <2>2 DEF Placed
    <3>2. shown' = StatusOf(req[r].turn, "complete") \/ shown' = shown
      BY <1>12, <2>2 DEF Denied
    <3>3. shown'[t] = shown[t]
      BY <1>0, <3>2, StatusOfSets DEF Statuses, Working, Shown
    <3> QED  BY <1>11, <2>1, <2>2, <3>1, <3>3
  <2>3. CASE req[r].kind = "submit"
    <3>1. req[r].turn = Own(r) /\ req[r].previous # Own(r) /\ Own(r) # NoTurn
      BY <1>0, <2>1, <2>3, OwnTurns DEF Placed, Running
    <3>2. CASE active \notin {NoTurn, req[r].previous}
      <4>1. shown' = [shown EXCEPT ![active] = Hidden]  BY <1>12, <2>3, <3>2 DEF Denied
      <4>2. t # active /\ shown'[t] = shown[t]
        BY <1>0, <4>1 DEF Hidden, Working, TypeOK
      <4> QED  BY <1>11, <2>1, <4>2
    <3>3. CASE active \in {NoTurn, req[r].previous}
      <4>1. shown' = shown  BY <1>12, <2>3, <3>3 DEF Denied
      <4>2. active # req[r].turn  BY <3>1, <3>3
      <4> QED  BY <1>11, <2>1, <4>1, <4>2
    <3> QED  BY <3>2, <3>3
  <2> QED  BY <2>2, <2>3
<1>13. ASSUME NEW r \in Questions, Fails(r) PROVE Cut(t)'
  <2>1. Running(r)  BY <1>13 DEF Fails, Running, InFlight
  <2>2. CASE req[r].kind = "room"
    <3>1. shown' = StatusOf(req[r].turn, "complete")  BY <1>13, <2>2 DEF Fails
    <3>2. t # req[r].turn /\ shown'[t] = shown[t]
      BY <1>0, <3>1, StatusOfSets DEF Statuses, Working, Shown
    <3> QED  BY <1>11, <2>1, <3>2
  <2>3. CASE req[r].kind # "room"
    <3>1. shown' = StatusOf(active, "error") /\ active \in AnyTurn
      BY <1>0, <1>13, <2>3 DEF Fails, TypeOK
    <3>2. t # active /\ shown'[t] = shown[t]
      BY <1>0, <3>1, StatusOfSets DEF Statuses, Working, Shown
    <3> QED  BY <1>11, <2>1, <3>2
  <2> QED  BY <2>2, <2>3
<1>14. ASSUME NEW r \in Questions, Done(r) PROVE Cut(t)'
  <2>1. Running(r) /\ shown' = Answered(req[r].turn, r)
    BY <1>14 DEF Done, Running, InFlight
  <2>2. t # req[r].turn /\ shown'[t] = shown[t]
    BY <1>0, <2>1, AnsweredSets DEF Working, Shown
  <2> QED  BY <1>11, <2>1, <2>2
\* A request that goes on serves its turn.
<1>15. ASSUME NEW r \in Questions, Running(r), Goto(r, "asked") \/ Goto(r, "streaming"),
              aborted' = aborted, controller' = controller, t = req[r].turn
       PROVE  Served(t)'
  <2>1. req'[r].turn = t /\ req'[r].at \in {"asked", "streaming"}
    BY <1>0, <1>15, GoesTyped
  <2>2. controller' = r /\ r \notin aborted'
    BY <1>0, <1>15, OnlyOneRuns DEF Running
  <2> QED  BY <2>1, <2>2 DEF Served, Running, InFlight
<1>16. ASSUME NEW r \in Questions, Optimized(r) PROVE Served(t)' \/ Cut(t)'
  <2>1. /\ Running(r) /\ shown' = StatusOf(req[r].turn, "streaming")
        /\ Goto(r, "asked") /\ aborted' = aborted /\ controller' = controller
    BY <1>16 DEF Optimized, Running, InFlight
  <2>2. CASE t = req[r].turn  BY <1>15, <2>1, <2>2
  <2>3. CASE t # req[r].turn
    <3>1. shown'[t] = shown[t]  BY <1>0, <2>1, <2>3, StatusOfSets DEF Statuses, Working
    <3> QED  BY <1>11, <2>1, <2>3, <3>1
  <2> QED  BY <2>2, <2>3
<1>17. ASSUME NEW r \in Questions, FirstChunk(r) PROVE Served(t)' \/ Cut(t)'
  <2>1. /\ Running(r) /\ (shown' = StatusOf(req[r].turn, "streaming") \/ shown' = shown)
        /\ Goto(r, "streaming") /\ aborted' = aborted /\ controller' = controller
    BY <1>17 DEF FirstChunk, transcript, Running, InFlight
  <2>2. CASE t = req[r].turn  BY <1>15, <1>17, <2>1, <2>2 DEF FirstChunk, Running, InFlight
  <2>3. CASE t # req[r].turn
    <3>1. shown'[t] = shown[t]  BY <1>0, <2>1, <2>3, StatusOfSets DEF Statuses, Working
    <3>2. Running(r)  BY <1>17 DEF FirstChunk, Running, InFlight
    <3> QED  BY <1>11, <2>3, <3>1, <3>2
  <2> QED  BY <2>2, <2>3
<1>18. ASSUME shown' = shown, aborted' = aborted,
              \A q \in Questions : Running(q) => req'[q] = req[q] /\ controller' = q
       PROVE  Served(t)' \/ Cut(t)'
  BY <1>0, <1>1, <1>2, <1>18 DEF Served, Running, InFlight, Shown
<1>19. ASSUME NEW r \in Questions, Stopped(r) \/ Refreshed(r) PROVE Served(t)' \/ Cut(t)'
  <2>1. End(r) /\ ~Running(r) /\ shown' = shown /\ aborted' = aborted
    BY <1>19 DEF Stopped, Refreshed, Running, InFlight, transcript
  <2>2. \A q \in Questions : Running(q) => req'[q] = req[q] /\ controller' = q
    BY <1>0, <2>1, EndsTyped, OnlyOneRuns
  <2> QED  BY <1>18, <2>1, <2>2
<1>20. ASSUME UNCHANGED <<shown, aborted, req, controller>> PROVE Served(t)' \/ Cut(t)'
  BY <1>0, <1>18, <1>20, OnlyOneRuns
<1>21. ASSUME NEW r \in Questions, Saves(r) \/ DoesNotSave(r) PROVE Served(t)' \/ Cut(t)'
  BY <1>20, <1>21 DEF Saves, DoesNotSave, transcript
<1>22. CASE UNCHANGED vars  BY <1>20, <1>22 DEF vars, transcript
<1> QED  BY <1>5, <1>6, <1>7, <1>8, <1>9, <1>10, <1>12, <1>13, <1>14, <1>16, <1>17, <1>19,
            <1>21, <1>22 DEF Next, RequestStep

\* For any number of questions, only the request under way works on a turn: whatever
\* order cancellations, failures, denials, regenerations, navigation and the server's
\* answers come in, no turn is left behind that looks as if it were still answered
\* (hooks/useChat.ts: submit, regenerate, cancel).
THEOREM WorkingIsServed == Spec => []WorkingTurnsAreServed
<1>1. Init => TranscriptInv  BY InitRequests
<1>2. TranscriptInv /\ [Next]_vars => TranscriptInv'
  BY RequestsStay, WorkingStays DEF TranscriptInv
<1>3. TranscriptInv => WorkingTurnsAreServed  BY DEF TranscriptInv
<1> QED  BY <1>1, <1>2, <1>3, PTL DEF Spec

-----------------------------------------------------------------------------
(* The turns that the user stopped *)

LEMMA StopsHold ==
    ASSUME RequestsInv, [Next]_vars, NEW t \in Turns, shown[t].status = "cancelled",
           shown'[t].status \in Working \cup {"complete"}, req' # req
    PROVE  Served(t)
<1>0. /\ TypeOK /\ Numbered
      /\ \A q \in Questions : req[q].turn \in AnyTurn
  BY DEF RequestsInv, TypeOK, RequestType
<1>1. shown'[t] # shown[t]  BY DEF Working
<1>2. ASSUME NEW r \in Questions, Running(r), req[r].turn = t PROVE Served(t)
  BY <1>2, OnlyOneRuns DEF Served
<1>3. ASSUME NEW r \in Questions, NEW improve \in BOOLEAN, Submit(r, improve) PROVE FALSE
  <2>1. shown[Own(r)].status = "none" /\ Own(r) \in Turns
    BY <1>0, <1>3, OwnTurns DEF Submit, New, Numbered, Used, Unknown
  <2>2. \A u \in Turns \ {Own(r)} : shown'[u] = shown[u]
    BY <1>0, <1>3 DEF Submit, Own, TypeOK
  <2> QED  BY <1>1, <2>1, <2>2
<1>4. ASSUME NEW r \in Questions, NEW u \in Turns, NEW kind \in {"regenerate", "room"},
             Regenerate(r, u, kind)
      PROVE  FALSE
  BY <1>1, <1>4 DEF Regenerate
<1>5. ASSUME Cancel \/ (\E cancels \in BOOLEAN : NewChat(cancels))
             \/ \E s \in Questions : Hydrate(s)
      PROVE  FALSE
  BY <1>5 DEF Cancel, NewChat, Hydrate
<1>6. CASE Reload  BY <1>6 DEF Reload, Hidden, Working
<1>7. ASSUME NEW r \in Questions, Stopped(r) \/ Refreshed(r) PROVE FALSE
  BY <1>1, <1>7 DEF Stopped, Refreshed, transcript
<1>8. ASSUME NEW r \in Questions, Optimized(r) PROVE Served(t)
  <2>1. Running(r) /\ shown' = StatusOf(req[r].turn, "streaming")
    BY <1>8 DEF Optimized, Running, InFlight
  <2>2. req[r].turn = t  BY <1>0, <1>1, <2>1, StatusOfSets DEF Statuses, Working
  <2> QED  BY <1>2, <2>1, <2>2
<1>9. ASSUME NEW r \in Questions, Denied(r) PROVE Served(t)
  <2>1. /\ Running(r)
        /\ \/ active # NoTurn /\ shown' = [shown EXCEPT ![active] = Hidden]
           \/ shown' = StatusOf(req[r].turn, "complete")
           \/ shown' = shown
    BY <1>9 DEF Denied, Running, InFlight
  <2>2. CASE active # NoTurn /\ shown' = [shown EXCEPT ![active] = Hidden]
    BY <1>0, <1>1, <2>2 DEF TypeOK, Hidden, Working, AnyTurn
  <2>3. CASE shown' = StatusOf(req[r].turn, "complete")
    <3>1. req[r].turn = t  BY <1>0, <1>1, <2>3, StatusOfSets DEF Statuses
    <3> QED  BY <1>2, <2>1, <3>1
  <2> QED  BY <1>1, <2>1, <2>2, <2>3
<1>10. ASSUME NEW r \in Questions, FirstChunk(r) PROVE Served(t)
  <2>1. Running(r) /\ shown' = StatusOf(req[r].turn, "streaming")
    BY <1>1, <1>10 DEF FirstChunk, transcript, Running, InFlight
  <2>2. req[r].turn = t  BY <1>0, <1>1, <2>1, StatusOfSets DEF Statuses, Working
  <2> QED  BY <1>2, <2>1, <2>2
<1>11. ASSUME NEW r \in Questions, Done(r) PROVE Served(t)
  <2>1. Running(r) /\ shown' = Answered(req[r].turn, r)
    BY <1>11 DEF Done, Running, InFlight
  <2>2. req[r].turn = t  BY <1>0, <1>1, <2>1, AnsweredSets
  <2> QED  BY <1>2, <2>1, <2>2
<1>12. ASSUME NEW r \in Questions, Fails(r) PROVE Served(t)
  <2>1. /\ Running(r)
        /\ \/ shown' = StatusOf(req[r].turn, "complete")
           \/ shown' = StatusOf(active, "error")
    BY <1>12 DEF Fails, Running, InFlight
  <2>2. CASE shown' = StatusOf(req[r].turn, "complete")
    <3>1. req[r].turn = t  BY <1>0, <1>1, <2>2, StatusOfSets DEF Statuses
    <3> QED  BY <1>2, <2>1, <3>1
  <2>3. CASE shown' = StatusOf(active, "error")
    <3>1. t = active  BY <1>0, <1>1, <2>3, StatusOfSets DEF Statuses, TypeOK
    <3>2. shown'[t] = shown[t] \/ shown'[t].status = "error"
      BY <1>0, <2>3, <3>1, StatusOfSets DEF Statuses, TypeOK
    <3> QED  BY <1>1, <3>2 DEF Working
  <2> QED  BY <2>1, <2>2, <2>3
<1>13. ASSUME NEW r \in Questions, Saves(r) \/ DoesNotSave(r) PROVE FALSE
  BY <1>13 DEF Saves, DoesNotSave
<1>14. CASE UNCHANGED vars  BY <1>14 DEF vars
<1> QED  BY <1>3, <1>4, <1>5, <1>6, <1>7, <1>8, <1>9, <1>10, <1>11, <1>12, <1>13, <1>14
         DEF Next, RequestStep

\* For any number of questions, what the user stopped is never worked on or completed
\* again by a request that was stopped: no late answer, optimizer result or failure of
\* it reaches the turn (hooks/useChat.ts: the signal is checked after every await).
THEOREM StoppedStays == Spec => CancelledStays
<1>1. Init => RequestsInv  BY InitRequests DEF TranscriptInv
<1>2. RequestsInv /\ [Next]_vars => RequestsInv'  BY RequestsStay
<1>3. RequestsInv /\ [Next]_vars =>
        [\A t \in Turns :
           /\ shown[t].status = "cancelled" /\ shown'[t].status \in Working \cup {"complete"}
           /\ req' # req
           => Served(t)]_vars
  BY StopsHold
<1> QED  BY <1>1, <1>2, <1>3, PTL DEF Spec, CancelledStays

-----------------------------------------------------------------------------
(* Where the questions are saved *)

LEMMA SettlesStays ==
    ASSUME Keeps, NEW q \in Questions
    PROVE  \A s : Settles(q, s) => /\ server'[q] = "settled"
                                   /\ ~strayed' => ~strayed /\ saved'[q] \in {None, s}
BY DEF Keeps, Settles

\* A step that completes nothing and stays in the session keeps the answers saved.
LEMMA AnswersKept ==
    ASSUME ChatInv, Keeps, session' = session,
           \A t \in Turns : t \in Shown' /\ Answers(t)' =>
              t \in Shown /\ Answers(t) /\ shown'[t].by = shown[t].by
    PROVE  AnswersAreSaved'
<1> SUFFICES ASSUME NEW t \in Turns, t \in Shown', Answers(t)'
             PROVE  Settles(shown[t].by, session)'
  BY DEF AnswersAreSaved, Shown
<1>1. t \in Shown /\ Answers(t) /\ shown'[t].by = shown[t].by  OBVIOUS
<1>2. Settles(shown[t].by, session) /\ shown[t].by \in Questions
  BY <1>1 DEF ChatInv, AnswersAreSaved, TranscriptInv, RequestsInv, TypeOK
<1> QED  BY <1>1, <1>2, SettlesStays DEF Settles

\* A question that is not asked in a step, nor saved, keeps what it asks.
AsTheyWere(q) ==
    /\ req'[q].session = req[q].session /\ req'[q].context = req[q].context
    /\ req'[q].fresh = req[q].fresh /\ (Used(q)' <=> Used(q)) /\ saved'[q] = saved[q]

LEMMA AsksKept ==
    ASSUME ChatInv, Keeps, NEW q \in Questions, AsTheyWere(q),
           ~strayed' /\ Running(q)' => ~fresh' /\ req'[q].session = session'
    PROVE  Asks(q)'
<1>1. Asks(q) /\ req[q].context \in SUBSET Questions
  BY DEF ChatInv, TranscriptInv, RequestsInv, TypeOK, RequestType
<1>2. \A p \in req'[q].context : Settles(p, req[q].session)'
  <2> SUFFICES ASSUME NEW p \in req[q].context PROVE Settles(p, req[q].session)'
    BY DEF AsTheyWere
  <2>1. p \in Questions /\ Settles(p, req[q].session)  BY <1>1 DEF Asks
  <2>2. req'[q].session = req[q].session  BY DEF AsTheyWere
  <2> QED  BY <2>1, <2>2, SettlesStays DEF Settles
<1>3. saved'[q] # None => saved'[q] = SessionOf(q)' /\ server'[q] = "settled"
  BY <1>1 DEF AsTheyWere, Asks, SessionOf, Keeps
<1>4. ~strayed' => (Used(q)' /\ req'[q].fresh => req'[q].session = None)
  BY <1>1 DEF AsTheyWere, Asks, Keeps
<1> QED  BY <1>2, <1>3, <1>4 DEF Asks

\* Requests that go on, or end, while the conversation stays where it is.
LEMMA SameConversation ==
    ASSUME ChatInv, Keeps, UNCHANGED <<session, fresh, strayed>>, NEW q \in Questions,
           AsTheyWere(q), Running(q)' => Running(q)
    PROVE  Asks(q)'
<1>1. ~strayed' /\ Running(q)' => ~fresh' /\ req'[q].session = session'
  BY DEF ChatInv, Asks, AsTheyWere
<1> QED  BY <1>1, AsksKept

\* A new question is sent with the session and the answers of the conversation.
LEMMA AsksInItsThread ==
    ASSUME ChatInv, Keeps, UNCHANGED <<session, saved, strayed>>, fresh' = FALSE,
           NEW r \in Questions, ~Used(r), NEW R, NEW turns \in SUBSET Shown,
           req' = [req EXCEPT ![r] = R], R.context = Context(turns), R.session = session,
           R.fresh = fresh, \A q \in Questions \ {r} : ~Running(q)'
    PROVE  /\ \A q \in Questions : Asks(q)'
           /\ NewMeansNone'
<1>1. /\ req'[r] = R /\ \A q \in Questions \ {r} : req'[q] = req[q]
  BY DEF ChatInv, TranscriptInv, RequestsInv, TypeOK
<1>2. \A q \in Questions \ {r} : Asks(q)'
  <2> SUFFICES ASSUME NEW q \in Questions \ {r} PROVE Asks(q)'  OBVIOUS
  <2>1. AsTheyWere(q)  BY <1>1 DEF AsTheyWere, Used
  <2> QED  BY <2>1, AsksKept
<1>3. \A p \in R.context : Settles(p, session)'
  <2> SUFFICES ASSUME NEW p \in R.context PROVE Settles(p, session)'  OBVIOUS
  <2>1. PICK t \in turns : shown[t].status = "complete" /\ p = shown[t].by
    BY DEF Context
  <2>2. Settles(p, session) /\ p \in Questions
    BY <2>1 DEF ChatInv, AnswersAreSaved, Answers, TranscriptInv, RequestsInv, TypeOK
  <2> QED  BY <2>2, SettlesStays DEF Settles
<1>4. \A p \in req'[r].context : Settles(p, req[r].session)'
  BY <1>1, <1>3 DEF Settles
<1>5. saved'[r] = None
  BY DEF ChatInv, Asks, TranscriptInv, RequestsInv, Placed, Used
<1>6. ~strayed' => /\ Running(r)' => ~fresh' /\ req'[r].session = session'
                   /\ req'[r].fresh => req'[r].session = None
  BY <1>1 DEF ChatInv, NewMeansNone
<1>7. Asks(r)'  BY <1>4, <1>5, <1>6 DEF Asks
<1> QED  BY <1>2, <1>7 DEF NewMeansNone

SavedInv == AnswersAreSaved /\ (\A r \in Questions : Asks(r)) /\ NewMeansNone

LEMMA SavedStays == ChatInv /\ TypeOK' /\ [Next]_vars => SavedInv'
<1> SUFFICES ASSUME ChatInv, TypeOK', [Next]_vars PROVE SavedInv'  OBVIOUS
<1>0. /\ RequestsInv /\ TypeOK /\ Numbered /\ Keeps
      /\ \A q \in Questions : Placed(q) /\ Alone(q) /\ Asks(q)
      /\ \A q \in Questions : req[q].turn \in AnyTurn
  BY Kept DEF ChatInv, TranscriptInv, RequestsInv, TypeOK, RequestType
<1> DEFINE Completes == \A t \in Turns :
               t \in Shown' /\ Answers(t)' =>
                  t \in Shown /\ Answers(t) /\ shown'[t].by = shown[t].by
\* The step of a request: it completes nothing, or only what was complete before.
<1>1. ASSUME UNCHANGED <<session, fresh, strayed>>, Completes,
             \A q \in Questions : AsTheyWere(q) /\ (Running(q)' => Running(q))
      PROVE  SavedInv'
  <2>1. AnswersAreSaved'  BY <1>0, <1>1, AnswersKept
  <2>2. \A q \in Questions : Asks(q)'  BY <1>0, <1>1, SameConversation
  <2> QED  BY <1>1, <2>1, <2>2 DEF SavedInv, NewMeansNone, ChatInv
<1>2. ASSUME NEW r \in Questions, NEW improve \in BOOLEAN, Submit(r, improve) PROVE SavedInv'
  <2> DEFINE R == Request("submit", IF improve THEN "optimizing" ELSE "asked", Own(r), Shown)
             T == [status |-> IF improve THEN "optimizing" ELSE "streaming", by |-> r]
  <2>1. /\ req' = [req EXCEPT ![r] = R] /\ shown' = [shown EXCEPT ![Own(r)] = T]
        /\ New(r) /\ Begin(r) /\ UNCHANGED <<session, saved, strayed>> /\ fresh' = FALSE
    BY <1>2 DEF Submit, Own
  <2>2. /\ R.context = Context(Shown) /\ R.session = session /\ R.fresh = fresh
        /\ R.kind = "submit" /\ T.status # "complete"
    BY DEF Request
  <2> HIDE DEF R, T
  <2>3. req'[r] = R /\ \A q \in Questions \ {r} : req'[q] = req[q]
    BY <1>0, <2>1 DEF TypeOK
  <2>4. \A q \in Questions \ {r} : ~Running(q)'  BY <1>0, <2>1, <2>3, BeginsAlone
  <2>5. ~Used(r)  BY <2>1 DEF New, Used
  <2>6. (\A q \in Questions : Asks(q)') /\ NewMeansNone'
    BY <1>0, <2>1, <2>2, <2>4, <2>5, AsksInItsThread
  <2>7. Completes
    <3> SUFFICES ASSUME NEW t \in Turns, t \in Shown', Answers(t)'
                 PROVE  t \in Shown /\ Answers(t) /\ shown'[t].by = shown[t].by
      OBVIOUS
    <3>1. shown'[t].status = "complete"  BY <2>2, <2>3, <2>4 DEF Answers
    <3>2. t # Own(r)  BY <1>0, <2>1, <2>2, <3>1 DEF TypeOK
    <3>3. shown'[t] = shown[t]  BY <1>0, <2>1, <3>2 DEF TypeOK
    <3> QED  BY <3>1, <3>3 DEF Answers, Shown
  <2>8. AnswersAreSaved'  BY <1>0, <2>1, <2>7, AnswersKept
  <2> QED  BY <2>6, <2>8 DEF SavedInv
<1>3. ASSUME NEW r \in Questions, NEW u \in Turns, NEW kind \in {"regenerate", "room"},
             Regenerate(r, u, kind)
      PROVE  SavedInv'
  <2> DEFINE before == {v \in Shown : v[1] < u[1]}
             R == Request(kind, "asked", u, before)
  <2>1. /\ req' = [req EXCEPT ![r] = R] /\ shown' = shown /\ u \in Shown
        /\ kind = "room" => shown[u].status = "complete"
        /\ New(r) /\ Begin(r) /\ UNCHANGED <<session, saved, strayed>> /\ fresh' = FALSE
    BY <1>3 DEF Regenerate
  <2>2. /\ R.context = Context(before) /\ R.session = session /\ R.fresh = fresh
        /\ R.kind = kind /\ R.turn = u
    BY DEF Request
  <2>3. before \in SUBSET Shown  OBVIOUS
  <2> HIDE DEF R, before
  <2>4. req'[r] = R /\ \A q \in Questions \ {r} : req'[q] = req[q]
    BY <1>0, <2>1 DEF TypeOK
  <2>5. \A q \in Questions \ {r} : ~Running(q)'  BY <1>0, <2>1, <2>4, BeginsAlone
  <2>6. ~Used(r)  BY <2>1 DEF New, Used
  <2>7. (\A q \in Questions : Asks(q)') /\ NewMeansNone'
    BY <1>0, <2>1, <2>2, <2>3, <2>5, <2>6, AsksInItsThread
  <2>8. Completes  BY <2>1, <2>2, <2>4, <2>5 DEF Answers, Shown
  <2>9. AnswersAreSaved'  BY <1>0, <2>1, <2>8, AnswersKept
  <2> QED  BY <2>7, <2>9 DEF SavedInv
<1>4. CASE Cancel
  <2>1. \A q \in Questions : ~Running(q)'
    BY <1>0, <1>4, OwnTurns DEF Cancel, Running, InFlight, Alone
  <2>2. active \in AnyTurn /\ shown' = StatusOf(active, "cancelled")
    BY <1>0, <1>4 DEF Cancel, TypeOK
  <2>3. Completes
    <3> SUFFICES ASSUME NEW t \in Turns, t \in Shown', Answers(t)'
                 PROVE  t \in Shown /\ Answers(t) /\ shown'[t].by = shown[t].by
      OBVIOUS
    <3>1. shown'[t].status = "complete"  BY <2>1 DEF Answers
    <3>2. shown'[t] = shown[t]
      BY <1>0, <2>2, <3>1, StatusOfSets DEF Statuses, Shown
    <3> QED  BY <3>1, <3>2 DEF Answers, Shown
  <2>4. \A q \in Questions : AsTheyWere(q)  BY <1>4 DEF Cancel, AsTheyWere, Used
  <2> QED  BY <1>1, <1>4, <2>1, <2>3, <2>4 DEF Cancel
<1>5. ASSUME NEW cancels \in BOOLEAN, NewChat(cancels) PROVE SavedInv'
  <2>1. AnswersAreSaved'  BY <1>5 DEF NewChat, AnswersAreSaved, Shown, Hidden
  <2>2. ~strayed' => \A q \in Questions : ~Running(q)'
    BY <1>0, <1>5, OwnTurns DEF NewChat, Running, InFlight, Alone
  <2>3. \A q \in Questions : AsTheyWere(q)  BY <1>5 DEF NewChat, AsTheyWere, Used
  <2>4. \A q \in Questions : Asks(q)'  BY <1>0, <2>2, <2>3, AsksKept
  <2> QED  BY <1>5, <2>1, <2>4 DEF SavedInv, NewMeansNone, NewChat
<1>6. ASSUME NEW s \in Questions, Hydrate(s) PROVE SavedInv'
  <2>1. PICK seen \in SUBSET Thread(s) : shown' = FromHistory(seen)
    BY <1>6 DEF Hydrate
  <2>2. UNCHANGED <<req, server, saved, aborted>> /\ session' = s /\ fresh' = FALSE
    BY <1>6 DEF Hydrate
  <2>3. AnswersAreSaved'
    <3> SUFFICES ASSUME NEW t \in Turns, t \in Shown'
                 PROVE  Settles(shown[t].by, session)'
      BY DEF AnswersAreSaved, Shown
    <3>1. t \in seen \X {"history"} /\ shown'[t].by = t[1]
      BY <2>1 DEF FromHistory, Shown, Hidden
    <3>2. t[1] \in Questions /\ saved[t[1]] = s /\ s # None
      BY <3>1, OwnTurns DEF Thread
    <3>3. server[t[1]] = "settled"  BY <1>0, <3>2 DEF Asks
    <3> QED  BY <2>2, <3>1, <3>2, <3>3 DEF Settles
  <2>4. ~strayed' => \A q \in Questions : ~Running(q)'
    BY <1>6, <2>2 DEF Hydrate, Running, InFlight
  <2>5. \A q \in Questions : AsTheyWere(q)  BY <2>2 DEF AsTheyWere, Used
  <2>6. \A q \in Questions : Asks(q)'  BY <1>0, <2>4, <2>5, AsksKept
  <2> QED  BY <2>2, <2>3, <2>6 DEF SavedInv, NewMeansNone
<1>7. CASE Reload
  <2>1. ASSUME NEW q \in Questions
        PROVE  /\ AsTheyWere(q)
               /\ ~Running(q)'
    BY <1>0, <1>7, ReloadEnds DEF Reload, AsTheyWere, Used, Running, InFlight
  <2>2. AnswersAreSaved'  BY <1>7 DEF Reload, AnswersAreSaved, Shown, Hidden
  <2>3. \A q \in Questions : Asks(q)'  BY <1>0, <2>1, AsksKept
  <2> QED  BY <1>7, <2>2, <2>3 DEF SavedInv, NewMeansNone, Reload
<1>8. ASSUME NEW r \in Questions, End(r), Used(r), Completes,
             UNCHANGED <<session, aborted, saved, fresh, strayed>>
      PROVE  SavedInv'
  <2>1. \A q \in Questions \ {r} : req'[q] = req[q]  BY <1>0, <1>8, EndsTyped
  <2>2. /\ req'[r].at = "over" /\ req'[r].session = req[r].session
        /\ req'[r].context = req[r].context /\ req'[r].fresh = req[r].fresh
    BY <1>0, <1>8, EndsTyped
  <2>3. \A q \in Questions : AsTheyWere(q) /\ (Running(q)' => Running(q))
    BY <1>8, <2>1, <2>2 DEF AsTheyWere, Used, Running, InFlight
  <2> QED  BY <1>1, <1>8, <2>3
<1>9. ASSUME NEW r \in Questions, NEW at \in {"asked", "streaming"}, Running(r), Goto(r, at),
             Completes, UNCHANGED <<session, aborted, saved, fresh, strayed>>
      PROVE  SavedInv'
  <2>1. \A q \in Questions \ {r} : req'[q] = req[q]  BY <1>0, <1>9, GoesTyped
  <2>2. /\ req'[r].at = at /\ req'[r].session = req[r].session
        /\ req'[r].context = req[r].context /\ req'[r].fresh = req[r].fresh
    BY <1>0, <1>9, GoesTyped
  <2>3. \A q \in Questions : AsTheyWere(q) /\ (Running(q)' => Running(q))
    BY <1>9, <2>1, <2>2 DEF AsTheyWere, Used, Running, InFlight
  <2> QED  BY <1>1, <1>9, <2>3
\* The turn of a retry was complete before.
<1>10. ASSUME NEW r \in Questions, Running(r), \A q \in Questions : ~Running(q)',
              \/ shown' = shown
              \/ active \in Turns /\ shown' = [shown EXCEPT ![active] = Hidden]
              \/ shown' = StatusOf(active, "error")
              \/ req[r].kind = "room" /\ shown' = StatusOf(req[r].turn, "complete")
       PROVE  Completes
  <2> SUFFICES ASSUME NEW t \in Turns, t \in Shown', Answers(t)'
               PROVE  t \in Shown /\ Answers(t) /\ shown'[t].by = shown[t].by
    OBVIOUS
  <2>1. shown'[t].status = "complete"  BY <1>10 DEF Answers
  <2>2. CASE shown' = shown  BY <2>1, <2>2 DEF Answers, Shown
  <2>3. CASE active \in Turns /\ shown' = [shown EXCEPT ![active] = Hidden]
    <3>1. shown'[t] = shown[t]  BY <1>0, <2>1, <2>3 DEF TypeOK, Hidden
    <3> QED  BY <2>1, <3>1 DEF Answers, Shown
  <2>4. CASE shown' = StatusOf(active, "error")
    <3>1. shown'[t] = shown[t]
      BY <1>0, <2>1, <2>4, StatusOfSets DEF TypeOK, Statuses, Shown
    <3> QED  BY <2>1, <3>1 DEF Answers, Shown
  <2>5. CASE req[r].kind = "room" /\ shown' = StatusOf(req[r].turn, "complete")
    <3>1. t \in Shown /\ shown'[t].by = shown[t].by
      BY <1>0, <2>1, <2>5, StatusOfSets DEF Statuses, Shown
    <3>2. CASE t = req[r].turn  BY <1>10, <2>5, <3>1, <3>2 DEF Answers
    <3>3. CASE t # req[r].turn
      <4>1. shown'[t] = shown[t]  BY <1>0, <2>5, <3>3, StatusOfSets DEF Statuses
      <4> QED  BY <2>1, <3>1, <4>1 DEF Answers
    <3> QED  BY <3>2, <3>3
  <2> QED  BY <1>10, <2>2, <2>3, <2>4, <2>5
<1>11. ASSUME NEW r \in Questions, Stopped(r) \/ Refreshed(r) PROVE SavedInv'
  <2>1. /\ End(r) /\ Used(r) /\ UNCHANGED <<session, aborted, saved, fresh, strayed>>
        /\ shown' = shown
    BY <1>11 DEF Stopped, Refreshed, transcript, Used, InFlight
  <2>2. \A q \in Questions : Running(q)' => Running(q) /\ req'[q] = req[q]
    BY <1>0, <2>1, EndsTyped DEF Running, InFlight
  <2>3. Completes  BY <2>1, <2>2 DEF Answers, Shown
  <2> QED  BY <1>8, <2>1, <2>3
<1>12. ASSUME NEW r \in Questions, Denied(r) \/ Fails(r) PROVE SavedInv'
  <2>1. /\ End(r) /\ Used(r) /\ UNCHANGED <<session, aborted, saved, fresh, strayed>>
        /\ Running(r)
    BY <1>12 DEF Denied, Fails, Used, Running, InFlight
  <2>2. \A q \in Questions : ~Running(q)'
    BY <1>0, <2>1, EndsTyped, OnlyOneRuns DEF Running, InFlight
  <2>3. active \in AnyTurn  BY <1>0 DEF TypeOK
  <2>4. \/ shown' = shown
        \/ active \in Turns /\ shown' = [shown EXCEPT ![active] = Hidden]
        \/ shown' = StatusOf(active, "error")
        \/ req[r].kind = "room" /\ shown' = StatusOf(req[r].turn, "complete")
    BY <1>12, <2>3 DEF Denied, Fails, AnyTurn
  <2>5. Completes  BY <1>10, <2>1, <2>2, <2>4
  <2> QED  BY <1>8, <2>1, <2>5
<1>13. ASSUME NEW r \in Questions, NEW at \in {"asked", "streaming"}, Running(r), Goto(r, at),
              aborted' = aborted, shown' = shown \/ shown' = StatusOf(req[r].turn, "streaming")
       PROVE  Completes
  <2>1. \A q \in Questions \ {r} : ~Running(q)'
    <3>1. \A q \in Questions \ {r} : req'[q] = req[q] /\ ~Running(q)
      BY <1>0, <1>13, GoesTyped, OnlyOneRuns
    <3> QED  BY <1>13, <3>1 DEF Running, InFlight
  <2>2. req'[r].kind = req[r].kind /\ req'[r].turn = req[r].turn
    BY <1>0, <1>13, GoesTyped
  <2> SUFFICES ASSUME NEW t \in Turns, t \in Shown', Answers(t)'
               PROVE  t \in Shown /\ Answers(t) /\ shown'[t].by = shown[t].by
    OBVIOUS
  <2>3. t \in Shown /\ shown'[t].by = shown[t].by
    BY <1>0, <1>13, StatusOfSets DEF Shown, Statuses, Working
  <2>4. shown'[t].status = "complete" => shown'[t] = shown[t]
    BY <1>0, <1>13, StatusOfSets DEF Shown, Statuses, Working
  <2>5. Answers(t)  BY <1>13, <2>1, <2>2, <2>4 DEF Answers
  <2> QED  BY <2>3, <2>5
<1>14. ASSUME NEW r \in Questions, Optimized(r) PROVE SavedInv'
  <2>1. /\ Running(r) /\ Goto(r, "asked") /\ UNCHANGED <<session, aborted, saved, fresh, strayed>>
        /\ shown' = StatusOf(req[r].turn, "streaming")
    BY <1>14 DEF Optimized, Running, InFlight
  <2> QED  BY <1>9, <1>13, <2>1
<1>15. ASSUME NEW r \in Questions, FirstChunk(r) PROVE SavedInv'
  <2>1. /\ Running(r) /\ Goto(r, "streaming")
        /\ UNCHANGED <<session, aborted, saved, fresh, strayed>>
        /\ shown' = shown \/ shown' = StatusOf(req[r].turn, "streaming")
    BY <1>15 DEF FirstChunk, transcript, Running, InFlight
  <2> QED  BY <1>9, <1>13, <2>1
<1>16. ASSUME NEW r \in Questions, Done(r) PROVE SavedInv'
  <2> DEFINE named == IF saved[r] # None THEN saved[r] ELSE req[r].session
  <2>1. /\ Running(r) /\ server[r] = "settled" /\ Goto(r, "refreshing")
        /\ UNCHANGED <<aborted, server, saved, fresh, strayed>>
        /\ shown' = Answered(req[r].turn, r)
        /\ session' = IF named # None THEN named ELSE session
    BY <1>16 DEF Done, Running, InFlight
  <2>2. /\ \A q \in Questions \ {r} : req'[q] = req[q] /\ ~Running(q)
        /\ req'[r].at = "refreshing" /\ req'[r].session = req[r].session
        /\ req'[r].context = req[r].context /\ req'[r].fresh = req[r].fresh
    BY <1>0, <2>1, GoesTyped, OnlyOneRuns
  <2>3. \A q \in Questions : AsTheyWere(q) /\ ~Running(q)'
    BY <2>1, <2>2 DEF AsTheyWere, Used, Running, InFlight
  <2>4. \A q \in Questions : Asks(q)'  BY <1>0, <2>3, AsksKept
  <2>5. ~strayed => ~fresh /\ req[r].session = session  BY <1>0, <2>1 DEF Asks
  <2>6. saved[r] # None => saved[r] = SessionOf(r)  BY <1>0 DEF Asks
  <2>7. ~strayed => saved[r] \in {None, session'}  BY <2>1
  \* The session only changes from none to the one that the first answer was saved in.
  <2>8. ~strayed => session' = session \/ session = None
    BY <2>1, <2>5, <2>6 DEF SessionOf
  <2>9. AnswersAreSaved'
    <3> SUFFICES ASSUME NEW t \in Turns, t \in Shown', Answers(t)'
                 PROVE  Settles(shown[t].by, session)'
      BY DEF AnswersAreSaved, Shown
    <3>1. shown'[t].status = "complete"  BY <2>3 DEF Answers
    <3>2. CASE t = req[r].turn
      <4>1. shown'[t].by = r
        BY <1>0, <2>1, <3>2, AnsweredSets DEF Shown
      <4> QED  BY <2>1, <2>7, <4>1 DEF Settles
    <3>3. CASE t # req[r].turn
      <4>1. shown'[t] = shown[t]  BY <1>0, <2>1, <3>3, AnsweredSets
      <4>2. Settles(shown[t].by, session)
        BY <3>1, <4>1 DEF ChatInv, AnswersAreSaved, Answers, Shown
      <4> QED  BY <2>1, <2>8, <4>1, <4>2 DEF Settles
    <3> QED  BY <3>2, <3>3
  <2>10. NewMeansNone'  BY <2>1, <2>5 DEF NewMeansNone
  <2> QED  BY <2>4, <2>9, <2>10 DEF SavedInv
<1>17. ASSUME NEW r \in Questions, Saves(r) \/ DoesNotSave(r) PROVE SavedInv'
  <2>1. /\ UNCHANGED <<shown, session, aborted, req, fresh, strayed>> /\ server[r] = "asked"
        /\ saved' = saved \/ saved' = [saved EXCEPT ![r] = SessionOf(r)]
        /\ server' = [server EXCEPT ![r] = "settled"]
    BY <1>17 DEF Saves, DoesNotSave, transcript
  <2>2. Completes  BY <2>1 DEF Answers, Shown, Running, InFlight
  <2>3. AnswersAreSaved'  BY <1>0, <2>1, <2>2, AnswersKept
  <2>4. \A q \in Questions \ {r} : Asks(q)'
    <3> SUFFICES ASSUME NEW q \in Questions \ {r} PROVE Asks(q)'  OBVIOUS
    <3>1. AsTheyWere(q) /\ (Running(q)' => Running(q))
      BY <1>0, <2>1 DEF AsTheyWere, Used, TypeOK, Running, InFlight
    <3> QED  BY <1>0, <2>1, <3>1, SameConversation
  <2>5. Asks(r)'
    <3>1. \A p \in req'[r].context : Settles(p, req[r].session)'
      <4> SUFFICES ASSUME NEW p \in req[r].context PROVE Settles(p, req[r].session)'
        BY <2>1
      <4>1. p \in Questions /\ Settles(p, req[r].session)
        BY <1>0 DEF Asks, TypeOK, RequestType
      <4> QED  BY <1>0, <2>1, <4>1, SettlesStays DEF Settles
    <3>2. saved'[r] # None => saved'[r] = SessionOf(r)' /\ server'[r] = "settled"
      BY <1>0, <2>1 DEF Asks, SessionOf, TypeOK
    <3>3. ~strayed' => /\ Running(r)' => ~fresh' /\ req'[r].session = session'
                       /\ Used(r)' /\ req'[r].fresh => req'[r].session = None
      BY <1>0, <2>1 DEF Asks, Running, InFlight, Used
    <3> QED  BY <3>1, <3>2, <3>3 DEF Asks
  <2> QED  BY <2>1, <2>3, <2>4, <2>5 DEF SavedInv, NewMeansNone, ChatInv
<1>18. CASE UNCHANGED vars
  <2>1. UNCHANGED <<shown, session, aborted, req, fresh, strayed, saved>>
    BY <1>18 DEF vars, transcript
  <2>2. Completes  BY <2>1 DEF Answers, Shown, Running, InFlight
  <2>3. \A q \in Questions : AsTheyWere(q) /\ (Running(q)' => Running(q))
    BY <2>1 DEF AsTheyWere, Used, Running, InFlight
  <2> QED  BY <1>1, <2>1, <2>2, <2>3
<1> QED  BY <1>2, <1>3, <1>4, <1>5, <1>6, <1>7, <1>11, <1>12, <1>14, <1>15, <1>16, <1>17,
            <1>18 DEF Next, RequestStep

\* For any number of questions, and as long as the user leaves no request running, a
\* question is saved in the session of the answers that it was sent with, and the first
\* one after New chat in a session of its own, whatever was stopped, failed, loaded
\* again or lost by the server in between (hooks/useChat.ts: buildContext, setSessionId;
\* server/persistence.py: get_or_create_api_session).
THEOREM ThreadsKeepTogether == Spec => []SavedInItsThread
<1>1. Init => ChatInv  BY InitRequests
<1>2. ChatInv /\ [Next]_vars => ChatInv'
  <2>1. ChatInv /\ [Next]_vars => TranscriptInv'
    BY RequestsStay, WorkingStays DEF ChatInv, TranscriptInv
  <2>2. TranscriptInv' => TypeOK'  BY DEF TranscriptInv, RequestsInv
  <2> QED  BY <2>1, <2>2, SavedStays DEF ChatInv, SavedInv
<1>3. ChatInv => SavedInItsThread
  <2> SUFFICES ASSUME ChatInv, ~strayed, NEW r \in Questions, saved[r] # None
               PROVE  Continues(r)
    BY DEF SavedInItsThread
  <2>1. /\ saved[r] = SessionOf(r) /\ server[r] = "settled"
        /\ Used(r) /\ req[r].fresh => req[r].session = None
        /\ \A q \in req[r].context : saved[q] \in {None, req[r].session}
    BY DEF ChatInv, Asks, Settles
  <2>2. Used(r)  BY <2>1 DEF ChatInv, TranscriptInv, RequestsInv, Placed, Used
  <2> QED  BY <2>1, <2>2 DEF Continues, SessionOf
<1> QED  BY <1>1, <1>2, <1>3, PTL DEF Spec
=============================================================================

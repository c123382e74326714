--------------------------- MODULE RequestsProofs ---------------------------
(***************************************************************************)
(* Theorems of Requests for any requests, targets, costs and disturbances. *)
(***************************************************************************)
EXTENDS Requests, FiniteSetTheorems, TLAPS

Proved == INSTANCE UsageMeteringProofs

----------------------------------------------------------------------------
(* The local states.                                                          *)

Pc == {"idle", "reserved", "start", "preparing", "asking", "first_line",
       "late", "saving", "failing"} \cup Finished
RequestType ==
    [pc : Pc, kind : Kind, out : SUBSET Targets, shown : SUBSET Targets,
     failed : SUBSET Targets, research : BOOLEAN, thread : BOOLEAN]

Handlers ==
    /\ req \in [Requests -> RequestType]
    /\ registered \subseteq Requests
    /\ history \in [Requests -> {"none", "answer", "error"}]
    /\ excused \subseteq Requests
    /\ ledger = [r \in Requests |-> ledger[r]]

\* The targets a request asks are targets.
LEMMA AskedTargets == ASSUME NEW r PROVE Asked(r) \subseteq Targets
  BY TargetsAssumption DEF Asked

\* What a step may do to the account of a request: nothing, or one step of the
\* metering service; the registry and the excuses stay within the requests.
Paid == /\ Metering!Next \/ UNCHANGED metering
        /\ registered' \subseteq Requests /\ excused' \subseteq Requests
        /\ ledger' = [r \in Requests |-> ledger'[r]]

\* The bill of the targets T.
Bill(T) == MapThenSumSet(LAMBDA t : Cost[t], T)

\* What the theorems of metering assume of its constants.
LEMMA MeteringFacts ==
    Proved!IsFiniteSet(Requests) /\ Limits \subseteq Nat /\ Limits # {} /\ MaxQuantity \in Nat
  BY MeteringAssumption DEF IsFiniteSet, Proved!IsFiniteSet

LEMMA BillIsSum == ASSUME NEW T PROVE Bill(T) = Proved!Sum(Cost, T)
  BY DEF Bill, Proved!Sum, MapThenSumSet, MapThenFoldSet, Proved!MapThenSumSet,
         Proved!MapThenFoldSet

\* What is asked costs something.
LEMMA BillOf ==
    ASSUME NEW T \in SUBSET Targets
    PROVE  Bill(T) \in Nat /\ (Bill(T) = 0 <=> T = {})
<1>0. IsFiniteSet(T)  BY TargetsAssumption, FS_Subset
<1>1. Proved!IsFiniteSet(T) /\ \A t \in T : Cost[t] \in Nat /\ Cost[t] >= 1
  BY <1>0, CostAssumption DEF IsFiniteSet, Proved!IsFiniteSet
<1>2. Bill(T) \in Nat /\ \A t \in T : Cost[t] <= Bill(T)
  BY <1>1, BillIsSum, MeteringFacts, Proved!SumNat
<1>3. T = {} => Bill(T) = 0  BY BillIsSum, MeteringFacts, Proved!SumEmpty
<1> QED  BY <1>1, <1>2, <1>3

LEMMA TotalOf ==
    ASSUME NEW T \in SUBSET Targets, NEW research \in BOOLEAN
    PROVE  /\ Total(T, research) \in Nat
           /\ Total(T, research) = Bill(T) + IF research THEN ResearchCost ELSE 0
           /\ Total(T, research) = 0 <=> T = {} /\ ~research
<1>1. Total(T, research) = Bill(T) + IF research THEN ResearchCost ELSE 0
  BY DEF Total, Bill
<1> QED  BY <1>1, BillOf, CostAssumption

----------------------------------------------------------------------------
(* The items of a bill.  A bill that was cut is handed out along the answers; *)
(* the proof is by induction over the first answers of the request.           *)

ItemType == [model : [Targets -> Nat], research : Nat]

\* What the items of the answers add up to.
Added(m) == MapThenSumSet(LAMBDA t : m[t], Targets)

\* The items are for answers of T, none above what it costs.
Within(m, T) == \A t \in Targets : m[t] <= IF t \in T THEN Cost[t] ELSE 0

LEMMA WithinMore ==
    ASSUME NEW i \in ItemType, NEW S, NEW T, S \subseteq T, Within(i.model, S)
    PROVE  Within(i.model, T)
<1> SUFFICES ASSUME NEW t \in Targets
             PROVE  i.model[t] <= IF t \in T THEN Cost[t] ELSE 0
  BY DEF Within
<1>1. i.model[t] \in Nat /\ Cost[t] \in Nat  BY CostAssumption DEF ItemType
<1>2. i.model[t] <= IF t \in S THEN Cost[t] ELSE 0  BY DEF Within
<1> QED  BY <1>1, <1>2

LEMMA AddedIsSum == ASSUME NEW m PROVE Added(m) = Proved!Sum(m, Targets)
  BY DEF Added, Proved!Sum, MapThenSumSet, MapThenFoldSet, Proved!MapThenSumSet,
         Proved!MapThenFoldSet

LEMMA FiniteTargets ==
    ASSUME NEW T \in SUBSET Targets
    PROVE  IsFiniteSet(T) /\ Proved!IsFiniteSet(T)
  BY TargetsAssumption, FS_Subset DEF IsFiniteSet, Proved!IsFiniteSet

\* What is itemised for T only adds up over T.
LEMMA AddedOver ==
    ASSUME NEW T \in SUBSET Targets, NEW m \in [Targets -> Nat],
           \A t \in Targets \ T : m[t] = 0
    PROVE  Added(m) = Proved!Sum(m, T)
<1>1. /\ Proved!IsFiniteSet(Targets) /\ Proved!IsFiniteSet(T)
      /\ Proved!IsFiniteSet(Targets \ T)
  BY FiniteTargets
<1>2. Proved!Sum(m, Targets) = Proved!Sum(m, T) + Proved!Sum(m, Targets \ T)
  <2>1. \A t \in Targets : m[t] \in Int  OBVIOUS
  <2> QED  BY <1>1, <2>1, MeteringFacts, Proved!SumSplit
<1>3. Proved!Sum(m, Targets \ T) = 0  BY <1>1, MeteringFacts, Proved!SumZero
<1>4. Proved!Sum(m, T) \in Nat  BY <1>1, MeteringFacts, Proved!SumNat
<1> QED  BY <1>2, <1>3, <1>4, AddedIsSum

LEMMA NoItemsAdd ==
    /\ NoItems \in ItemType /\ Within(NoItems.model, {})
    /\ Added(NoItems.model) = 0 /\ NoItems.research = 0
<1>1. NoItems \in ItemType /\ NoItems.research = 0 /\ \A t \in Targets : NoItems.model[t] = 0
  BY DEF NoItems, ItemType
<1>2. Within(NoItems.model, {})  BY <1>1 DEF Within
<1>3. Proved!Sum(NoItems.model, Targets) = 0
  BY <1>1, FiniteTargets, MeteringFacts, Proved!SumZero
<1> QED  BY <1>1, <1>2, <1>3, AddedIsSum

\* Of some targets one comes last.
LEMMA LastTarget ==
    ASSUME NEW T \in SUBSET Targets, T # {}
    PROVE  \E x \in T : \A t \in T : t <= x
<1> DEFINE B == {s \in SUBSET T : s # {} /\ ~ \E x \in s : \A t \in s : t <= x}
<1> SUFFICES ASSUME B # {} PROVE FALSE  OBVIOUS
<1>1. \A s \in B : s \in SUBSET T /\ Proved!IsFiniteSet(s)  BY FiniteTargets
<1>2. PICK s \in B : \A x \in s : s \ {x} \notin B
  <2> HIDE DEF B
  <2> QED  BY <1>1, MeteringFacts, Proved!LeastSet
<1>3. PICK x : x \in s  OBVIOUS
<1>4. \A t \in s : t \in Nat  BY TargetsAssumption
<1>5. CASE s \ {x} = {}
  <2>1. \A t \in s : t <= x  BY <1>3, <1>4, <1>5
  <2> QED  BY <1>3, <2>1
<1>6. CASE s \ {x} # {}
  <2>1. PICK m \in s \ {x} : \A t \in s \ {x} : t <= m  BY <1>2, <1>3, <1>6
  <2>2. (\A t \in s : t <= m) \/ (\A t \in s : t <= x)  BY <1>3, <1>4, <2>1
  <2> QED  BY <1>3, <2>1, <2>2
<1> QED  BY <1>5, <1>6

\* Handed out along the answers, an amount is used up or covers their costs.
LEMMA HandedOut ==
    ASSUME NEW T \in SUBSET Targets, NEW A \in Nat, NEW m \in [Targets -> Nat],
           \A t \in T : m[t] = Metering!Smaller(Cost[t], Left(A, T, t))
    PROVE  Proved!Sum(m, T) = Metering!Smaller(A, Bill(T))
<1> DEFINE First(s) == \A t \in s, u \in T : u < t => u \in s
           B == {s \in SUBSET T : First(s) /\ Proved!Sum(m, s) # Metering!Smaller(A, Bill(s))}
<1> SUFFICES ASSUME B # {} PROVE FALSE
  <2>1. T \in SUBSET T /\ First(T)  OBVIOUS
  <2> QED  BY <2>1
<1>1. \A s \in B : s \in SUBSET T /\ Proved!IsFiniteSet(s)  BY FiniteTargets
<1>2. PICK s \in B : \A x \in s : s \ {x} \notin B
  <2> HIDE DEF B
  <2> QED  BY <1>1, MeteringFacts, Proved!LeastSet
<1>3. s # {}
  <2>1. Proved!Sum(m, {}) = 0 /\ Bill({}) = 0
    BY MeteringFacts, Proved!SumEmpty, BillIsSum
  <2>2. Metering!Smaller(A, 0) = 0  BY DEF Metering!Smaller
  <2> QED  BY <2>1, <2>2
<1>4. PICK x \in s : \A t \in s : t <= x  BY <1>3, LastTarget
<1> DEFINE R == s \ {x}
<1>5. x \in T /\ R \in SUBSET T /\ \A t \in T : t \in Nat  BY TargetsAssumption
<1>6. \A u \in T : u < x <=> u \in R  BY <1>4, <1>5
<1>7. First(R)  BY <1>5, <1>6
<1>8. Proved!Sum(m, R) = Metering!Smaller(A, Bill(R))  BY <1>2, <1>5, <1>7
<1>9. m[x] = Metering!Smaller(Cost[x], Metering!Larger(0, A - Bill(R)))
  <2>1. {u \in T : u < x} = R  BY <1>5, <1>6
  <2>2. Left(A, T, x) = Metering!Larger(0, A - Bill({u \in T : u < x}))  BY DEF Left, Bill
  <2> QED  BY <1>5, <2>1, <2>2
<1>10. Proved!IsFiniteSet(s) /\ x \in s /\ R \in SUBSET Targets  BY <1>1
<1>11. Proved!Sum(m, s) = m[x] + Proved!Sum(m, R)
  <2>1. \A t \in s : m[t] \in Int  OBVIOUS
  <2> QED  BY <1>10, <2>1, MeteringFacts, Proved!SumRemove
<1>12. Bill(s) = Cost[x] + Bill(R)
  <2>1. \A t \in s : Cost[t] \in Int  BY <1>5, CostAssumption
  <2>2. Proved!Sum(Cost, s) = Cost[x] + Proved!Sum(Cost, R)
    BY <1>10, <2>1, MeteringFacts, Proved!SumRemove
  <2> QED  BY <2>2, BillIsSum
<1>13. Bill(R) \in Nat /\ Cost[x] \in Nat  BY <1>5, <1>10, BillOf, CostAssumption
<1>14. Proved!Sum(m, s) # Metering!Smaller(A, Bill(s))  BY <1>2
<1> HIDE DEF R, B
<1> QED  BY <1>8, <1>9, <1>11, <1>12, <1>13, <1>14 DEF Metering!Smaller, Metering!Larger

\* The items of a bill add up to it, each for an answer of the request and none
\* above what the answer costs.
LEMMA ItemsOf ==
    ASSUME NEW T \in SUBSET Targets, NEW research \in BOOLEAN, NEW billed \in Nat,
           billed <= Total(T, research)
    PROVE  /\ Items(T, research, billed) \in ItemType
           /\ Within(Items(T, research, billed).model, T)
           /\ Added(Items(T, research, billed).model) + Items(T, research, billed).research
                = billed
<1> DEFINE search == IF research THEN Metering!Smaller(ResearchCost, billed) ELSE 0
           fee == IF research THEN ResearchCost ELSE 0
           A == billed - search
<1>1. /\ ResearchCost \in Nat /\ Bill(T) \in Nat /\ Total(T, research) = Bill(T) + fee
      /\ fee \in Nat
  BY CostAssumption, BillOf, TotalOf
<1>2. \A t \in Targets : Cost[t] \in Nat  BY CostAssumption
<1>3. Proved!IsFiniteSet(T)  BY FiniteTargets
<1>4. CASE billed >= Total(T, research)
  <2> DEFINE m == [t \in Targets |-> IF t \in T THEN Cost[t] ELSE 0]
  <2>1. Items(T, research, billed) = [model |-> m, research |-> fee]
    BY <1>4 DEF Items, Calculated
  <2>2. m \in [Targets -> Nat] /\ Within(m, T)  BY <1>2 DEF Within
  <2>3. Added(m) = Bill(T)
    <3>1. Added(m) = Proved!Sum(m, T)
      <4>1. \A t \in Targets \ T : m[t] = 0  OBVIOUS
      <4> HIDE DEF m
      <4> QED  BY <2>2, <4>1, AddedOver
    <3>2. Proved!Sum(m, T) = Proved!Sum(Cost, T)
      <4>1. \A t \in T : m[t] = Cost[t]  OBVIOUS
      <4> HIDE DEF m
      <4> QED  BY <1>3, <4>1, MeteringFacts, Proved!SumSame
    <3> QED  BY <3>1, <3>2, BillIsSum
  <2>4. billed = Bill(T) + fee  BY <1>1, <1>4
  <2> HIDE DEF m, fee
  <2> QED  BY <1>1, <2>1, <2>2, <2>3, <2>4 DEF ItemType
<1>5. CASE ~(billed >= Total(T, research))
  <2> DEFINE m == [t \in Targets |->
                     IF t \in T THEN Metering!Smaller(Cost[t], Left(A, T, t)) ELSE 0]
  <2>1. Items(T, research, billed) = [model |-> m, research |-> search]
    BY <1>5 DEF Items
  <2>2. search \in Nat /\ A \in Nat /\ search + A = billed /\ A <= Bill(T)
    BY <1>1, <1>5 DEF Metering!Smaller
  <2> HIDE DEF search, A, fee
  <2>3. \A t \in T : Left(A, T, t) \in Nat
    <3> TAKE t \in T
    <3>1. {u \in T : u < t} \in SUBSET Targets  OBVIOUS
    <3>2. Bill({u \in T : u < t}) \in Nat  BY <3>1, BillOf
    <3>3. Left(A, T, t) = Metering!Larger(0, A - Bill({u \in T : u < t}))  BY DEF Left, Bill
    <3> QED  BY <2>2, <3>2, <3>3 DEF Metering!Larger
  <2>4. \A t \in Targets : /\ m[t] \in Nat
                           /\ m[t] <= IF t \in T THEN Cost[t] ELSE 0
                           /\ t \notin T => m[t] = 0
    BY <1>2, <2>3 DEF Metering!Smaller
  <2>5. \A t \in T : m[t] = Metering!Smaller(Cost[t], Left(A, T, t))  OBVIOUS
  <2>6. m \in [Targets -> Nat] /\ Within(m, T)
    <3>1. m = [t \in Targets |-> m[t]]  OBVIOUS
    <3> HIDE DEF m
    <3> QED  BY <2>4, <3>1 DEF Within
  <2> HIDE DEF m
  <2>7. Added(m) = Proved!Sum(m, T)  BY <2>4, <2>6, AddedOver
  <2>8. Proved!Sum(m, T) = Metering!Smaller(A, Bill(T))  BY <2>2, <2>5, <2>6, HandedOut
  <2>9. Added(m) = A  BY <1>1, <2>2, <2>7, <2>8 DEF Metering!Smaller
  <2> QED  BY <2>1, <2>2, <2>6, <2>9 DEF ItemType
<1> QED  BY <1>4, <1>5

----------------------------------------------------------------------------
LEMMA FinalizePays ==
    ASSUME Handlers, NEW r \in Requests, NEW T \in SUBSET Targets,
           NEW research \in BOOLEAN, Finalize(r, T, research)
    PROVE  Paid
<1>1. /\ registered' \subseteq Requests /\ excused' \subseteq Requests
      /\ ledger' = [x \in Requests |-> ledger'[x]]
  BY DEF Finalize, Unregister, Handlers
<1>2. CASE Total(T, research) = 0
  BY <1>1, <1>2 DEF Finalize, Paid, Metering!Next
<1>3. CASE Total(T, research) # 0
  <2>1. Total(T, research) \in Nat  BY TotalOf
  <2>2. Total(T, research) \in Metering!Quantities
    BY <1>3, <2>1, BoundAssumption, MeteringAssumption DEF Metering!Quantities
  <2>3. Metering!SettleUsage(r, Total(T, research), planLimit[r])
    BY <1>3 DEF Finalize, Allowance
  <2>4. Metering!Next  BY <2>2, <2>3 DEF Metering!Next
  <2> QED  BY <1>1, <2>4 DEF Paid
<1> QED  BY <1>2, <1>3

LEMMA ReleasePays ==
    ASSUME Handlers, NEW r \in Requests, ReleaseSafely(r)
    PROVE  Paid
<1>1. /\ registered' \subseteq Requests /\ excused' \subseteq Requests
      /\ ledger' = [x \in Requests |-> ledger'[x]]
  BY DEF ReleaseSafely, Unregister, Excuse, Handlers
<1> QED  BY <1>1 DEF ReleaseSafely, Paid, Metering!Next

LEMMA RecoverPays ==
    ASSUME Handlers, NEW r \in Requests, Recover(r)
    PROVE  Paid
<1>1. /\ registered' \subseteq Requests /\ excused' \subseteq Requests
      /\ ledger' = [x \in Requests |-> ledger'[x]]
  BY DEF Recover, Unregister, Excuse, Handlers
<1> QED  BY <1>1 DEF Recover, Paid, Metering!Next

LEMMA NothingPaid == ASSUME Handlers, UNCHANGED billing PROVE Paid
  BY DEF Handlers, billing, Paid

\* A handler goes on with what it has.
Fits == req' \in [Requests -> RequestType]

LEMMA GotoFits == ASSUME Handlers, NEW r \in Requests, NEW pc \in Pc, Goto(r, pc) PROVE Fits
  BY DEF Handlers, Goto, Fits, RequestType

LEMMA PutFits ==
    ASSUME Handlers, NEW r \in Requests, NEW q \in RequestType, req' = [req EXCEPT ![r] = q]
    PROVE  Fits
  BY DEF Handlers, Fits

LEMMA StopFits == ASSUME Handlers, NEW r \in Requests, Stop(r) PROVE Fits
<1> DEFINE q == [req[r] EXCEPT !.pc = "over", !.thread = FALSE]
<1>1. req \in [Requests -> RequestType] /\ req[r] \in RequestType  BY DEF Handlers
<1>2. "over" \in Pc /\ FALSE \in BOOLEAN  BY DEF Pc, Finished
<1>3. q \in RequestType  BY <1>1, <1>2 DEF RequestType
<1>4. req' = [req EXCEPT ![r] = q]  BY <1>1 DEF Stop
<1> HIDE DEF q
<1> QED  BY <1>3, <1>4, PutFits

LEMMA AnsweredFits ==
    ASSUME Handlers, NEW r \in Requests, NEW T \in SUBSET Targets, NEW F \in SUBSET Targets,
           NEW research \in BOOLEAN, NEW pc \in Pc
    PROVE  Answered(r, T, F, research, pc) \in [Requests -> RequestType]
<1> DEFINE q == [req[r] EXCEPT !.pc = pc, !.out = T, !.failed = F, !.research = research,
                               !.thread = FALSE]
<1>1. req \in [Requests -> RequestType] /\ req[r] \in RequestType  BY DEF Handlers
<1>2. q \in RequestType  BY <1>1 DEF RequestType
<1>3. Answered(r, T, F, research, pc) = [req EXCEPT ![r] = q]  BY <1>1 DEF Answered
<1> HIDE DEF q
<1> QED  BY <1>1, <1>2, <1>3

LEMMA AfterFailureIs == ASSUME NEW r PROVE AfterFailure(r) \in {"failing", "over"}
  BY DEF AfterFailure

\* What a step of a handler leaves behind.
Keeps == /\ Fits /\ Paid
         /\ history' \in [Requests -> {"none", "answer", "error"}]

LEMMA ChatKeeps ==
    ASSUME Handlers, NEW r \in Requests, ChatStep(r) \/ ChatDisturbed(r)
    PROVE  Keeps
<1>0. /\ req \in [Requests -> RequestType]
      /\ history \in [Requests -> {"none", "answer", "error"}]
      /\ Asked(r) \subseteq Targets /\ req[r] \in RequestType
  BY AskedTargets DEF Handlers
<1> USE DEF Keeps
<1>1. CASE ChatRoutingFails(r)
  BY <1>0, <1>1, ReleasePays, StopFits DEF ChatRoutingFails
<1>2. CASE ChatStart(r)
  BY <1>0, <1>2, NothingPaid, GotoFits DEF ChatStart, Pc
<1>3. CASE ChatAsk(r)
  <2>1. Fits  BY <1>0, <1>3 DEF ChatAsk, Fits, RequestType, Pc
  <2> QED  BY <1>0, <1>3, <2>1, NothingPaid DEF ChatAsk
<1>4. ASSUME NEW credits \in Estimates, ChatAuthorizeFallback(r, credits) PROVE Keeps
  <2>1. Metering!SupplementReservation(r, credits) /\ credits \in Metering!Quantities
    BY <1>4, EstimatesAssumption DEF ChatAuthorizeFallback, Metering!Quantities
  <2>2. Metering!Next  BY <2>1 DEF Metering!Next
  <2> QED  BY <1>0, <1>4, <2>2 DEF ChatAuthorizeFallback, Paid, Fits, Handlers
<1>5. CASE ThreadEnds(r)
  <2>1. Fits  BY <1>0, <1>5 DEF ThreadEnds, Fits, RequestType
  <2> QED  BY <1>0, <1>5, <2>1, NothingPaid DEF ThreadEnds
<1>6. ASSUME NEW T \in SUBSET Asked(r), NEW research \in BOOLEAN, ChatAnswer(r, T, research)
      PROVE  Keeps
  <2>1. T \in SUBSET Targets /\ Asked(r) \ T \in SUBSET Targets  BY <1>0
  <2>2. /\ "saving" \in Pc /\ AfterFailure(r) \in Pc
    BY AfterFailureIs DEF Pc, Finished
  <2>3. Fits
    <3>1. PICK pc \in {"saving", AfterFailure(r)} :
             req' = Answered(r, T, Asked(r) \ T, research, pc)
      BY <1>6 DEF ChatAnswer
    <3>2. pc \in Pc  BY <2>2
    <3> QED  BY <2>1, <3>1, <3>2, AnsweredFits DEF Fits
  <2>4. Finalize(r, T, research) \/ Recover(r)  BY <1>6 DEF ChatAnswer, Billable
  <2>5. Paid  BY <2>1, <2>4, FinalizePays, RecoverPays
  <2> QED  BY <1>0, <1>6, <2>3, <2>5 DEF ChatAnswer
<1>7. ASSUME NEW research \in BOOLEAN, ChatFirstLine(r, research) PROVE Keeps
  <2> DEFINE answered == Answered(r, Asked(r), {}, research, "first_line")
  <2>1. answered \in [Requests -> RequestType]
    <3>1. "first_line" \in Pc /\ Asked(r) \in SUBSET Targets /\ {} \in SUBSET Targets
      BY <1>0 DEF Pc
    <3> QED  BY <3>1, AnsweredFits
  <2>2. req' = [answered EXCEPT ![r].shown = Asked(r)]  BY <1>7 DEF ChatFirstLine
  <2> HIDE DEF answered
  <2>3. Fits  BY <1>0, <2>1, <2>2 DEF Fits, RequestType
  <2> QED  BY <1>0, <1>7, <2>3, NothingPaid DEF ChatFirstLine
<1>8. CASE ChatBill(r)
  <2>1. "saving" \in Pc /\ "failing" \in Pc  BY DEF Pc
  <2>2. Fits  BY <1>8, <2>1, GotoFits DEF ChatBill
  <2>3. req[r].out \in SUBSET Targets  BY <1>0 DEF RequestType
  <2>4. req[r].research \in BOOLEAN  BY <1>0 DEF RequestType
  <2>5. Paid  BY <1>8, <2>3, <2>4, FinalizePays, RecoverPays DEF ChatBill, Billable
  <2> QED  BY <1>0, <1>8, <2>2, <2>5 DEF ChatBill
<1>9. CASE ChatSave(r)
  <2>1. Fits  BY <1>9, StopFits DEF ChatSave
  <2>2. history' \in [Requests -> {"none", "answer", "error"}]  BY <1>0, <1>9 DEF ChatSave
  <2> QED  BY <1>9, <2>1, <2>2, NothingPaid DEF ChatSave
<1>10. CASE ChatProviderRaises(r)
  <2>1. AfterFailure(r) \in Pc  BY AfterFailureIs DEF Pc, Finished
  <2>2. Fits  BY <1>0, <1>10, <2>1 DEF ChatProviderRaises, Fits, RequestType
  <2> QED  BY <1>0, <1>10, <2>2, ReleasePays DEF ChatProviderRaises
<1>11. CASE ChatCancelled(r)
  <2>1. Fits  BY <1>11, GotoFits DEF ChatCancelled, Pc, Finished
  <2>2. Paid  BY <1>11, ReleasePays, NothingPaid DEF ChatCancelled
  <2> QED  BY <1>0, <1>11, <2>1, <2>2 DEF ChatCancelled
<1>12. CASE ChatClosedAtStart(r)
  BY <1>0, <1>12, ReleasePays, StopFits DEF ChatClosedAtStart
<1>13. CASE ChatClosed(r)
  <2>1. "closed" \in Pc  BY DEF Pc, Finished
  <2> QED  BY <1>0, <1>13, <2>1, NothingPaid, GotoFits DEF ChatClosed
<1> QED
  BY <1>1, <1>2, <1>3, <1>4, <1>5, <1>6, <1>7, <1>8, <1>9, <1>10, <1>11, <1>12, <1>13
     DEF ChatStep, ChatDisturbed

LEMMA CompareKeeps ==
    ASSUME Handlers, NEW r \in Requests, CompareStep(r) \/ CompareDisturbed(r)
    PROVE  Keeps
<1>0. /\ req \in [Requests -> RequestType]
      /\ history \in [Requests -> {"none", "answer", "error"}]
      /\ Asked(r) \subseteq Targets /\ req[r] \in RequestType
  BY AskedTargets DEF Handlers
<1>a. req[r].out \in SUBSET Targets  BY <1>0 DEF RequestType
<1>b. req[r].research \in BOOLEAN  BY <1>0 DEF RequestType
<1>c. /\ "saving" \in Pc /\ "failing" \in Pc /\ "over" \in Pc /\ "closed" \in Pc
      /\ "asking" \in Pc /\ "preparing" \in Pc /\ "start" \in Pc
  BY DEF Pc, Finished
<1>d. CutOff(r) => Paid
  <2>1. Started(r) \in SUBSET Targets  BY <1>a DEF Started
  <2> QED  BY <1>b, <2>1, FinalizePays, RecoverPays, ReleasePays DEF CutOff
<1> USE DEF Keeps
<1>1. CASE CompareStart(r)
  BY <1>0, <1>1, <1>c, NothingPaid, GotoFits DEF CompareStart
<1>2. ASSUME NEW research \in BOOLEAN, ComparePrepare(r, research) PROVE Keeps
  <2>1. Fits  BY <1>0, <1>2, <1>c DEF ComparePrepare, Fits, RequestType
  <2> QED  BY <1>0, <1>2, <2>1, NothingPaid DEF ComparePrepare
<1>3. CASE CompareAsk(r)
  BY <1>0, <1>3, <1>c, NothingPaid, GotoFits DEF CompareAsk
<1>4. ASSUME NEW t \in Targets, NEW succeeds \in BOOLEAN, CompareTargetDone(r, t, succeeds)
      PROVE  Keeps
  <2>1. ASSUME succeeds PROVE Fits
    <3>1. req' = [req EXCEPT ![r].out = @ \cup {t}, ![r].shown = @ \cup {t}]
      BY <1>4, <2>1 DEF CompareTargetDone
    <3> DEFINE q == [req[r] EXCEPT !.out = @ \cup {t}, !.shown = @ \cup {t}]
    <3>2. q \in RequestType  BY <1>0 DEF RequestType
    <3>3. req' = [req EXCEPT ![r] = q]  BY <1>0, <3>1
    <3> HIDE DEF q
    <3> QED  BY <3>2, <3>3, PutFits
  <2>2. ASSUME ~succeeds PROVE Fits
    <3>1. req' = [req EXCEPT ![r].failed = @ \cup {t}]
      BY <1>4, <2>2 DEF CompareTargetDone
    <3> DEFINE q == [req[r] EXCEPT !.failed = @ \cup {t}]
    <3>2. q \in RequestType  BY <1>0 DEF RequestType
    <3>3. req' = [req EXCEPT ![r] = q]  BY <1>0, <3>1
    <3> HIDE DEF q
    <3> QED  BY <3>2, <3>3, PutFits
  <2>3. Fits  BY <2>1, <2>2
  <2> QED  BY <1>0, <1>4, <2>3, NothingPaid DEF CompareTargetDone
<1>5. CASE CompareBill(r)
  <2>1. Fits  BY <1>5, <1>c, GotoFits DEF CompareBill
  <2>2. Paid  BY <1>5, <1>a, <1>b, FinalizePays, RecoverPays DEF CompareBill
  <2> QED  BY <1>0, <1>5, <2>1, <2>2 DEF CompareBill
<1>6. ASSUME NEW T \in SUBSET Asked(r), NEW research \in BOOLEAN, CompareAnswer(r, T, research)
      PROVE  Keeps
  <2>1. T \in SUBSET Targets  BY <1>0
  <2>2. PICK pc \in {"saving", "over"} :
           req' = [req EXCEPT ![r].pc = pc, ![r].out = T,
                              ![r].failed = Asked(r) \ T, ![r].research = research]
    BY <1>6 DEF CompareAnswer
  <2>3. pc \in Pc  BY <1>c
  <2>4. Fits  BY <1>0, <2>1, <2>2, <2>3 DEF Fits, RequestType
  <2>5. Paid  BY <1>6, <2>1, FinalizePays, RecoverPays DEF CompareAnswer
  <2> QED  BY <1>0, <1>6, <2>4, <2>5 DEF CompareAnswer
<1>7. CASE CompareSave(r)
  <2>1. Fits  BY <1>7, StopFits DEF CompareSave
  <2>2. history' \in [Requests -> {"none", "answer", "error"}]  BY <1>0, <1>7 DEF CompareSave
  <2> QED  BY <1>7, <2>1, <2>2, NothingPaid DEF CompareSave
<1>8. CASE CompareRaises(r)
  <2>1. Fits  BY <1>8, <1>c, GotoFits, StopFits DEF CompareRaises
  <2>2. Paid  BY <1>8, <1>d, ReleasePays DEF CompareRaises
  <2> QED  BY <1>0, <1>8, <2>1, <2>2 DEF CompareRaises
<1>9. CASE CompareCancelled(r)
  <2>1. Paid  BY <1>9, <1>d, ReleasePays DEF CompareCancelled
  <2> QED  BY <1>0, <1>9, <2>1, StopFits DEF CompareCancelled
<1>10. CASE CompareClosedAtStart(r)
  BY <1>0, <1>10, ReleasePays, StopFits DEF CompareClosedAtStart
<1>11. CASE CompareClosed(r)
  BY <1>0, <1>11, <1>c, NothingPaid, GotoFits DEF CompareClosed
<1> QED
  BY <1>1, <1>2, <1>3, <1>4, <1>5, <1>6, <1>7, <1>8, <1>9, <1>10, <1>11
     DEF CompareStep, CompareDisturbed

LEMMA OptimizeKeeps ==
    ASSUME Handlers, NEW r \in Requests, OptimizeStep(r) \/ OptimizeDisturbed(r)
    PROVE  Keeps
<1>0. /\ req \in [Requests -> RequestType]
      /\ history \in [Requests -> {"none", "answer", "error"}]
      /\ Asked(r) \in SUBSET Targets /\ req[r] \in RequestType
  BY AskedTargets DEF Handlers
<1>c. /\ "saving" \in Pc /\ "over" \in Pc /\ "closed" \in Pc /\ "asking" \in Pc
      /\ "late" \in Pc
  BY DEF Pc, Finished
<1> USE DEF Keeps
<1>1. CASE OptimizeAsk(r)
  <2>1. Fits  BY <1>0, <1>1, <1>c DEF OptimizeAsk, Fits, RequestType
  <2> QED  BY <1>0, <1>1, <2>1, NothingPaid DEF OptimizeAsk
<1>2. ASSUME NEW T \in SUBSET Asked(r), OptimizeAnswer(r, T) PROVE Keeps
  <2>1. T \in SUBSET Targets /\ FALSE \in BOOLEAN  BY <1>0
  <2>2. Fits  BY <1>0, <1>2, <1>c, <2>1 DEF OptimizeAnswer, Fits, RequestType
  <2>3. Paid  BY <1>2, <2>1, FinalizePays, RecoverPays, ReleasePays DEF OptimizeAnswer
  <2> QED  BY <1>0, <1>2, <2>2, <2>3 DEF OptimizeAnswer
<1>3. CASE OptimizeTimeout(r)
  BY <1>0, <1>3, <1>c, NothingPaid, GotoFits DEF OptimizeTimeout, HandOver
<1>4. CASE OptimizeCancelled(r)
  BY <1>0, <1>4, ReleasePays, StopFits DEF OptimizeCancelled
<1>5. CASE AnalysisAnswer(r)
  <2>1. PICK pc \in {"saving", "over"} :
           req' = [req EXCEPT ![r].pc = pc, ![r].out = Asked(r), ![r].thread = FALSE]
    BY <1>5 DEF AnalysisAnswer
  <2>2. pc \in Pc  BY <1>c
  <2>3. Fits  BY <1>0, <2>1, <2>2 DEF Fits, RequestType
  <2>4. CASE Finalize(r, Asked(r), FALSE)
    <3>1. Paid  BY <1>0, <2>4, FinalizePays
    <3> QED  BY <1>0, <1>5, <2>3, <3>1 DEF AnalysisAnswer
  <2>5. CASE Excuse(r) /\ Unregister(r) /\ UNCHANGED <<metering, ledger>>
    <3>1. Paid  BY <2>5 DEF Excuse, Unregister, Paid, Handlers
    <3> QED  BY <1>0, <1>5, <2>3, <3>1 DEF AnalysisAnswer
  <2> QED  BY <1>5, <2>4, <2>5 DEF AnalysisAnswer
<1>6. CASE AnalysisFails(r)
  BY <1>0, <1>6, ReleasePays, StopFits DEF AnalysisFails
<1>7. CASE AnalysisAborted(r)
  BY <1>0, <1>7, <1>c, NothingPaid, GotoFits DEF AnalysisAborted
<1>8. CASE AnalysisSave(r)
  <2>1. Fits  BY <1>8, StopFits DEF AnalysisSave
  <2>2. history' \in [Requests -> {"none", "answer", "error"}]  BY <1>0, <1>8 DEF AnalysisSave
  <2> QED  BY <1>8, <2>1, <2>2, NothingPaid DEF AnalysisSave
<1> QED
  BY <1>1, <1>2, <1>3, <1>4, <1>5, <1>6, <1>7, <1>8 DEF OptimizeStep, OptimizeDisturbed

----------------------------------------------------------------------------
(* Every step is one of metering, or none.                                    *)

LEMMA InitHandlers == Init => Handlers /\ Metering!Init
<1>1. NoRequest \in RequestType
  BY DEF NoRequest, RequestType, Pc, Kind, Chats, Compares
<1> QED  BY <1>1 DEF Init, BillingInit, Handlers

LEMMA StepKeeps ==
    Handlers /\ [Next]_vars => Handlers' /\ (Metering!Next \/ UNCHANGED metering)
<1> SUFFICES ASSUME Handlers, [Next]_vars
             PROVE  Handlers' /\ (Metering!Next \/ UNCHANGED metering)
  OBVIOUS
<1>1. Keeps => Handlers' /\ (Metering!Next \/ UNCHANGED metering)
  BY DEF Keeps, Fits, Paid, Handlers
<1>0. /\ req \in [Requests -> RequestType]
      /\ history \in [Requests -> {"none", "answer", "error"}]
      /\ registered \subseteq Requests /\ excused \subseteq Requests
      /\ ledger = [r \in Requests |-> ledger[r]]
  BY DEF Handlers
<1>2. ASSUME NEW r \in Requests, Arrive(r) PROVE Keeps
  <2>1. PICK kind \in Kinds, estimate \in Estimates : Reserve(r, kind, estimate)
    BY <1>2 DEF Arrive
  <2>2. kind \in Kind /\ "reserved" \in Pc  BY KindsAssumption DEF Pc
  <2> DEFINE q == [req[r] EXCEPT !.pc = "reserved", !.kind = kind]
  <2>3. q \in RequestType  BY <1>0, <2>2 DEF RequestType
  <2>4. req' = [req EXCEPT ![r] = q]  BY <1>0, <2>1 DEF Reserve
  <2> HIDE DEF q
  <2>5. Fits  BY <2>3, <2>4, PutFits
  <2>6. estimate \in Metering!Quantities
    BY EstimatesAssumption DEF Metering!Quantities
  <2>7. Metering!Next  BY <2>1, <2>6 DEF Reserve, Metering!Next
  <2>8. registered' \subseteq Requests /\ excused' \subseteq Requests
    BY <1>0, <2>1 DEF Reserve
  <2>9. history' = history /\ ledger' = ledger  BY <2>1 DEF Reserve
  <2> QED  BY <1>0, <2>5, <2>7, <2>8, <2>9 DEF Keeps, Paid
<1>3. ASSUME NEW r \in Requests, Step(r) \/ Disturbed(r) PROVE Keeps
  BY <1>3, ChatKeeps, CompareKeeps, OptimizeKeeps DEF Step, Disturbed
<1>4. ASSUME req' = req, history' = history, excused' \subseteq Requests,
             registered' = registered, ledger' = ledger, Metering!Next
      PROVE  Keeps
  BY <1>0, <1>4 DEF Keeps, Fits, Paid
<1>5. ASSUME NEW r \in Requests, AgeReservation(r) PROVE Keeps
  <2>1. Metering!Next  BY <1>5 DEF AgeReservation, Metering!Next
  <2> QED  BY <1>0, <1>4, <1>5, <2>1 DEF AgeReservation
<1>6. ASSUME NEW R \in SUBSET Requests, Cleanup(R) PROVE Keeps
  <2>1. Metering!Next  BY <1>6 DEF Cleanup, Metering!Next
  <2> QED  BY <1>0, <1>4, <1>6, <2>1 DEF Cleanup
<1>7. ASSUME NEW R \in SUBSET Requests, Crash(R) PROVE Keeps
  <2>1. "over" \in Pc /\ FALSE \in BOOLEAN  BY DEF Pc, Finished
  <2>2. \A q \in RequestType : [q EXCEPT !.pc = "over", !.thread = FALSE] \in RequestType
    BY <2>1 DEF RequestType
  <2>3. req' = [r \in Requests |->
                   IF r \in R THEN [req[r] EXCEPT !.pc = "over", !.thread = FALSE] ELSE req[r]]
    BY <1>7 DEF Crash
  <2>4. Fits  BY <1>0, <2>2, <2>3 DEF Fits
  <2>5. UNCHANGED metering /\ history' = history /\ ledger' = ledger
    BY <1>7 DEF Crash
  <2>6. registered' \subseteq Requests /\ excused' \subseteq Requests
    BY <1>0, <1>7 DEF Crash
  <2> QED  BY <1>0, <2>4, <2>5, <2>6 DEF Keeps, Paid
<1>8. ASSUME Heartbeat PROVE Keeps
  <2>1. Metering!Next  BY <1>0, <1>8 DEF Heartbeat, Metering!Next
  <2> QED  BY <1>0, <1>4, <1>8, <2>1 DEF Heartbeat
<1>9. ASSUME ChangePlan PROVE Keeps
  <2>1. Metering!Next  BY <1>9 DEF ChangePlan, Metering!Next
  <2> QED  BY <1>0, <1>4, <1>9, <2>1 DEF ChangePlan
<1>10. CASE UNCHANGED vars
  BY <1>10 DEF vars, billing, Handlers
<1> QED
  BY <1>1, <1>2, <1>3, <1>5, <1>6, <1>7, <1>8, <1>9, <1>10 DEF Next

LEMMA HandlersAlways == Spec => []Handlers
  BY InitHandlers, StepKeeps, PTL DEF Spec

\* Every step of every request, disturbed or not, is one step of the metering
\* service on that request's own reservation, or none.
THEOREM RequestsAreMetered == Spec => ImplementsMetering
<1>1. Handlers /\ [Next]_vars => [Metering!Next]_(Metering!vars)
  <2>1. UNCHANGED metering => UNCHANGED Metering!vars
    BY DEF metering, Metering!vars, Metering!plan, Metering!counters, Metering!rows
  <2> QED  BY <2>1, StepKeeps
<1> QED
  BY <1>1, InitHandlers, HandlersAlways, PTL DEF Spec, ImplementsMetering, Metering!Spec

\* The proofs of metering speak of the same steps.
LEMMA SameOperators ==
    /\ \A r, q : Metering!ReserveUsage(r, q) <=> Proved!ReserveUsage(r, q)
    /\ \A r, a, l : Metering!SettleUsage(r, a, l) <=> Proved!SettleUsage(r, a, l)
    /\ \A r, t : Metering!SupplementReservation(r, t) <=> Proved!SupplementReservation(r, t)
    /\ \A r : Metering!ReleaseUsage(r) <=> Proved!ReleaseUsage(r)
    /\ \A R : Metering!TouchActivity(R) <=> Proved!TouchActivity(R)
    /\ \A r : Metering!BecomeStale(r) <=> Proved!BecomeStale(r)
    /\ \A l, p : Metering!ChangeSubscription(l, p) <=> Proved!ChangeSubscription(l, p)
<1> USE DEF Metering!plan, Proved!plan, Metering!counters, Proved!counters,
            Metering!rows, Proved!rows
<1>1. \A r, q : Metering!ReserveUsage(r, q) <=> Proved!ReserveUsage(r, q)
  BY DEF Metering!ReserveUsage, Proved!ReserveUsage, Metering!NewRequest, Proved!NewRequest,
         Metering!WithinAllowance, Proved!WithinAllowance
<1>2. \A r, a, l : Metering!SettleUsage(r, a, l) <=> Proved!SettleUsage(r, a, l)
  BY DEF Metering!SettleUsage, Proved!SettleUsage, Metering!Claimable, Proved!Claimable,
         Metering!Supplement, Proved!Supplement, Metering!Remaining, Proved!Remaining,
         Metering!Larger, Proved!Larger, Metering!Billed, Proved!Billed,
         Metering!Smaller, Proved!Smaller, Metering!ReservedAfter, Proved!ReservedAfter
<1>3. \A r, t : Metering!SupplementReservation(r, t) <=> Proved!SupplementReservation(r, t)
  BY DEF Metering!SupplementReservation, Proved!SupplementReservation,
         Metering!Claimable, Proved!Claimable, Metering!Remaining, Proved!Remaining,
         Metering!Larger, Proved!Larger
<1>4. \A r : Metering!ReleaseUsage(r) <=> Proved!ReleaseUsage(r)
  BY DEF Metering!ReleaseUsage, Proved!ReleaseUsage, Metering!Claimable, Proved!Claimable
<1>5. \A R : Metering!TouchActivity(R) <=> Proved!TouchActivity(R)
  BY DEF Metering!TouchActivity, Proved!TouchActivity, Metering!Open, Proved!Open
<1>6. \A r : Metering!BecomeStale(r) <=> Proved!BecomeStale(r)
  BY DEF Metering!BecomeStale, Proved!BecomeStale, Metering!Open, Proved!Open
<1>7. \A l, p : Metering!ChangeSubscription(l, p) <=> Proved!ChangeSubscription(l, p)
  <2>1. \A p, q : Metering!Concerns(p, q) <=> Proved!Concerns(p, q)
    BY DEF Metering!Concerns, Proved!Concerns, Metering!Open, Proved!Open
  <2>2. \A a, b : Metering!Larger(a, b) = Proved!Larger(a, b)
    BY DEF Metering!Larger, Proved!Larger
  <2> QED  BY <2>1, <2>2, Zenon DEF Metering!ChangeSubscription, Proved!ChangeSubscription
<1> QED  BY <1>1, <1>2, <1>3, <1>4, <1>5, <1>6, <1>7

LEMMA SameExpiry ==
    \A R : Metering!ExpireStaleReservations(R) <=> Proved!ExpireStaleReservations(R)
<1>1. \A R, p : Metering!HeldBy(R, p) = Proved!HeldBy(R, p)
  BY DEF Metering!HeldBy, Proved!HeldBy, Metering!MapThenSumSet, Metering!MapThenFoldSet,
         Proved!MapThenSumSet, Proved!MapThenFoldSet
<1>2. Metering!Open = Proved!Open  BY DEF Metering!Open, Proved!Open
<1>3. \A R : [p \in Periods |-> reserved[p] - Metering!HeldBy(R, p)]
             = [p \in Periods |-> reserved[p] - Proved!HeldBy(R, p)]
  BY <1>1
<1> QED
  BY <1>2, <1>3 DEF Metering!ExpireStaleReservations, Proved!ExpireStaleReservations,
     Metering!plan, Proved!plan

LEMMA SameMetering ==
    /\ Metering!Init <=> Proved!Init
    /\ Metering!Next <=> Proved!Next
    /\ Metering!TypeOK <=> Proved!TypeOK
    /\ Metering!ChargeWithinHold <=> Proved!ChargeWithinHold
<1>1. Metering!Init <=> Proved!Init  BY DEF Metering!Init, Proved!Init
<1>2. Metering!Quantities = Proved!Quantities  BY DEF Metering!Quantities, Proved!Quantities
<1>3. Metering!Next <=> Proved!Next
  BY <1>2, SameOperators, SameExpiry DEF Metering!Next, Proved!Next
<1>5. Metering!TypeOK <=> Proved!TypeOK
  BY DEF Metering!TypeOK, Proved!TypeOK, Metering!Closed, Proved!Closed
<1>6. Metering!ChargeWithinHold <=> Proved!ChargeWithinHold
  BY DEF Metering!ChargeWithinHold, Proved!ChargeWithinHold
<1> QED  BY <1>1, <1>3, <1>5, <1>6

LEMMA MeteringAlways == Spec => [](Metering!TypeOK /\ Metering!ChargeWithinHold)
<1>1. Proved!Spec => []Proved!TypeOK  BY Proved!Typing, MeteringFacts, PTL
<1>2. Proved!Spec => []Proved!ChargeWithinHold
  BY Proved!ChargesStayWithinHolds, MeteringFacts, PTL
<1>3. Metering!Init => Proved!Init  BY SameMetering
<1>4. [Metering!Next]_(Metering!vars) => [Proved!Next]_(Proved!vars)
  <2>1. UNCHANGED Metering!vars => UNCHANGED Proved!vars
    BY DEF Metering!vars, Proved!vars, Metering!plan, Proved!plan, Metering!counters,
           Proved!counters, Metering!rows, Proved!rows
  <2> QED  BY <2>1, SameMetering
<1>5. Metering!Spec => Proved!Spec  BY <1>3, <1>4, PTL DEF Metering!Spec, Proved!Spec
<1>6. Proved!TypeOK /\ Proved!ChargeWithinHold => Metering!TypeOK /\ Metering!ChargeWithinHold
  BY SameMetering
<1> QED  BY RequestsAreMetered, <1>1, <1>2, <1>5, <1>6, PTL DEF ImplementsMetering

----------------------------------------------------------------------------
(* What a request is charged.  The invariants of the runs are strengthened to *)
(* the whole life of a request: until it is billed it holds its reservation   *)
(* and has no ledger entry; a request that no failure touched leaves its      *)
(* handler as it deserves.                                                    *)

Before == {"reserved", "start", "preparing", "asking", "first_line", "late"}
After == {"saving", "failing", "over"}

\* A request that has no answers yet: all of them before they are asked, and
\* those that get their answers at once.
NoAnswersYet(r) ==
    \/ req[r].pc \in {"idle", "reserved", "start", "preparing", "late"}
    \/ req[r].pc = "asking" /\ req[r].kind # "compare_stream"

Registered(r) == r \in registered => req[r].pc \notin After
Unbilled(r) == req[r].pc \in Before \cup {"idle"} => Within(ledger[r].model, {})
Waiting(r) == NoAnswersYet(r) => req[r].out = {} /\ ~req[r].research
Shown(r) == req[r].kind \in Streams => /\ req[r].out \subseteq req[r].shown
                                       /\ Within(ledger[r].model, req[r].shown)
Deserving(r) ==
    r \notin excused =>
        /\ req[r].pc \in Before => state[r] = "reserved"
        /\ req[r].pc \in After => state[r] = IF Deserved(r) THEN "settled" ELSE "released"
Itemised(r) == /\ ledger[r] \in ItemType
               /\ Added(ledger[r].model) + ledger[r].research = settled[r]

RequestInv(r) ==
    Registered(r) /\ Unbilled(r) /\ Waiting(r) /\ Shown(r) /\ Deserving(r) /\ Itemised(r)

Known == Handlers /\ Metering!TypeOK /\ Metering!ChargeWithinHold

\* A request that a step leaves alone.
Untouched(r) ==
    /\ req'[r] = req[r] /\ ledger'[r] = ledger[r]
    /\ state'[r] = state[r] /\ settled'[r] = settled[r]
    /\ (r \in registered' <=> r \in registered)
    /\ (r \in excused' <=> r \in excused)

LEMMA UntouchedInv == ASSUME NEW r, RequestInv(r), Untouched(r) PROVE RequestInv(r)'
  BY DEF RequestInv, Registered, Unbilled, Waiting, Shown, Deserving, Itemised, Untouched,
         NoAnswersYet, Deserved

\* The three ends of a reservation, seen at the request.
Let(r) ==
    /\ r \notin registered' /\ ledger'[r] = ledger[r] /\ settled'[r] = settled[r]
    /\ r \in excused => r \in excused'
LetGo(r) == Let(r) /\ (r \notin excused' => (state[r] = "reserved" => state'[r] = "released"))
Lost(r) == Let(r) /\ (r \notin excused' => state[r] # "reserved")
Charged(r, T, research) ==
    /\ r \notin registered' /\ (r \in excused <=> r \in excused')
    /\ state'[r] = IF T # {} \/ research THEN "settled" ELSE "released"
    /\ ledger'[r] \in ItemType
    /\ Added(ledger'[r].model) + ledger'[r].research = settled'[r]
    /\ Within(ledger'[r].model, T)

\* ... and what else it touches.
Alone(r) ==
    \A x \in Requests \ {r} :
        /\ ledger'[x] = ledger[x] /\ state'[x] = state[x] /\ settled'[x] = settled[x]
        /\ (x \in registered' <=> x \in registered)
        /\ (x \in excused' <=> x \in excused)

\* Letting go and losing a reservation leaves the request without a charge.
LEMMA EndsLetGo ==
    ASSUME NEW r \in Requests, RequestInv(r), LetGo(r),
           req[r].pc \in Before, req'[r].pc \in {"failing", "over"},
           req'[r].kind = req[r].kind, req'[r].shown = req[r].shown,
           req'[r].out = {}, ~req'[r].research
    PROVE  RequestInv(r)'
  BY DEF RequestInv, Registered, Unbilled, Waiting, Shown, Deserving, Itemised, LetGo, Let,
         NoAnswersYet, Deserved, Before, After

LEMMA EndsLost ==
    ASSUME NEW r \in Requests, RequestInv(r), Lost(r),
           req[r].pc \in Before, req'[r].pc \in {"failing", "over"},
           req'[r].kind = req[r].kind, req'[r].shown = req[r].shown,
           req'[r].kind \in Streams => req'[r].out \subseteq req'[r].shown
    PROVE  RequestInv(r)'
  BY DEF RequestInv, Registered, Unbilled, Waiting, Shown, Deserving, Itemised, Lost, Let,
         NoAnswersYet, Deserved, Before, After

LEMMA EndsCharged ==
    ASSUME Handlers, NEW r \in Requests, RequestInv(r), NEW T \in SUBSET Targets,
           NEW research \in BOOLEAN, Charged(r, T, research),
           req[r].pc \in Before, req'[r].pc \in After,
           req'[r].kind = req[r].kind, req'[r].shown = req[r].shown,
           req'[r].out = T, req'[r].research = research,
           req'[r].kind \in Streams => T \subseteq req'[r].shown
    PROVE  RequestInv(r)'
<1>1. req'[r].kind \in Streams => Within(ledger'[r].model, req'[r].shown)
  <2> SUFFICES ASSUME T \subseteq req[r].shown PROVE Within(ledger'[r].model, req[r].shown)
    OBVIOUS
  <2>1. Within(ledger'[r].model, T) /\ ledger'[r] \in ItemType  BY DEF Charged
  <2> QED  BY <2>1, WithinMore
<1> QED
  BY <1>1 DEF RequestInv, Registered, Unbilled, Waiting, Shown, Deserving, Itemised, Charged,
         NoAnswersYet, Deserved, Before, After

\* Only the request's own entries change.
LEMMA ReleaseEffect ==
    ASSUME Known, NEW r \in Requests, Metering!ReleaseUsage(r)
    PROVE  /\ state[r] = "reserved" /\ state' = [state EXCEPT ![r] = "released"]
           /\ settled' = settled /\ state'[r] = "released"
           /\ \A x \in Requests \ {r} : state'[x] = state[x]
<1>1. state \in [Requests -> {"none", "reserved"} \cup Metering!Closed]
  BY DEF Known, Metering!TypeOK
<1>2. /\ state[r] = "reserved" /\ state' = [state EXCEPT ![r] = "released"]
      /\ settled' = settled
  BY DEF Metering!ReleaseUsage, Metering!Claimable
<1> QED  BY <1>1, <1>2

LEMMA UnregisterEffect ==
    ASSUME NEW r, Unregister(r)
    PROVE  r \notin registered' /\ \A x : x # r => (x \in registered' <=> x \in registered)
  BY DEF Unregister

LEMMA ExcuseEffect ==
    ASSUME NEW r, Excuse(r)
    PROVE  /\ \A x : x # r => (x \in excused' <=> x \in excused)
           /\ r \in excused => r \in excused'
           /\ r \notin excused' => state[r] # "reserved"
  BY DEF Excuse

LEMMA ReleaseLets ==
    ASSUME Known, NEW r \in Requests, ReleaseSafely(r)
    PROVE  LetGo(r) /\ Alone(r)
<1>1. ledger' = ledger /\ Unregister(r)  BY DEF ReleaseSafely
<1>2. CASE Metering!ReleaseUsage(r) /\ UNCHANGED excused
  BY <1>1, <1>2, ReleaseEffect, UnregisterEffect DEF LetGo, Let, Alone
<1>3. CASE Excuse(r) /\ UNCHANGED metering
  <2>1. state' = state /\ settled' = settled  BY <1>3 DEF metering
  <2> QED  BY <1>1, <1>3, <2>1, ExcuseEffect, UnregisterEffect DEF LetGo, Let, Alone
<1> QED  BY <1>2, <1>3 DEF ReleaseSafely

LEMMA RecoverLoses ==
    ASSUME Known, NEW r \in Requests, Recover(r)
    PROVE  Lost(r) /\ Alone(r)
<1>1. ledger' = ledger /\ Unregister(r) /\ Excuse(r)  BY DEF Recover
<1>2. settled' = settled /\ \A x \in Requests \ {r} : state'[x] = state[x]
  <2>1. CASE Metering!ReleaseUsage(r)  BY <2>1, ReleaseEffect
  <2>2. CASE UNCHANGED metering  BY <2>2 DEF metering
  <2> QED  BY <2>1, <2>2 DEF Recover
<1> QED  BY <1>1, <1>2, ExcuseEffect, UnregisterEffect DEF Lost, Let, Alone

LEMMA GivingUpLoses ==
    ASSUME Known, NEW r \in Requests, Excuse(r), Unregister(r), UNCHANGED <<metering, ledger>>
    PROVE  Lost(r) /\ Alone(r)
<1>1. state' = state /\ settled' = settled /\ ledger' = ledger  BY DEF metering
<1> QED  BY <1>1, ExcuseEffect, UnregisterEffect DEF Lost, Let, Alone

\* The bill of a settlement is at most what was used.
LEMMA SettleEffect ==
    ASSUME Known, NEW r \in Requests, NEW a \in Metering!Quantities,
           Metering!SettleUsage(r, a, planLimit[r])
    PROVE  /\ settled'[r] \in Nat /\ settled'[r] <= a
           /\ state'[r] = "settled"
           /\ \A x \in Requests \ {r} : state'[x] = state[x] /\ settled'[x] = settled[x]
<1>1. Metering!TypeOK'
  <2>1. Metering!Next  BY DEF Metering!Next
  <2>2. Proved!TypeOK'  BY <2>1, SameMetering, MeteringFacts, Proved!StepTypeOK DEF Known
  <2> QED  BY <2>2 DEF Metering!TypeOK, Proved!TypeOK, Metering!Closed, Proved!Closed
<1>2. /\ state \in [Requests -> {"none", "reserved"} \cup Metering!Closed]
      /\ settled \in [Requests -> Nat]
  BY DEF Known, Metering!TypeOK
<1>3. PICK hold : settled' = [settled EXCEPT ![r] = Metering!Smaller(a, hold)]
  BY DEF Metering!SettleUsage, Metering!Billed
<1>4. settled'[r] = a \/ (settled'[r] = hold /\ ~(a <= hold))
  BY <1>2, <1>3 DEF Metering!Smaller
<1>5. settled'[r] \in Nat  BY <1>1 DEF Metering!TypeOK
<1>6. a \in Nat  BY MeteringAssumption DEF Metering!Quantities
<1>7. settled'[r] <= a
  BY <1>4, <1>5, <1>6
<1>8. state' = [state EXCEPT ![r] = "settled"]  BY DEF Metering!SettleUsage
<1> QED  BY <1>2, <1>3, <1>5, <1>7, <1>8

LEMMA FinalizeCharges ==
    ASSUME Known, NEW r \in Requests, RequestInv(r), req[r].pc \in Before,
           NEW T \in SUBSET Targets, NEW research \in BOOLEAN, Finalize(r, T, research)
    PROVE  Charged(r, T, research) /\ Alone(r)
<1>1. Unregister(r) /\ excused' = excused  BY DEF Finalize
<1>2. /\ ledger[r] \in ItemType /\ Within(ledger[r].model, {})
      /\ Added(ledger[r].model) + ledger[r].research = settled[r]
  BY DEF RequestInv, Itemised, Unbilled
<1>3. Total(T, research) \in Nat /\ (Total(T, research) = 0 <=> T = {} /\ ~research)
      /\ Within(ledger[r].model, T)
  BY <1>2, TotalOf, WithinMore
<1>4. CASE Total(T, research) = 0
  <2>1. Metering!ReleaseUsage(r) /\ ledger' = ledger  BY <1>4 DEF Finalize
  <2>2. state'[r] = "released" /\ settled' = settled
        /\ \A x \in Requests \ {r} : state'[x] = state[x]
    BY <2>1, ReleaseEffect
  <2> QED  BY <1>1, <1>2, <1>3, <1>4, <2>1, <2>2, UnregisterEffect DEF Charged, Alone
<1>5. CASE Total(T, research) # 0
  <2> DEFINE a == Total(T, research)
  <2>1. /\ Metering!SettleUsage(r, a, planLimit[r])
        /\ ledger' = [ledger EXCEPT ![r] = Items(T, research, settled'[r])]
    BY <1>5 DEF Finalize, Allowance
  <2>2. a \in Metering!Quantities
    BY <1>3, <1>5, BoundAssumption, MeteringAssumption DEF Metering!Quantities
  <2> HIDE DEF a
  <2>3. /\ settled'[r] \in Nat /\ settled'[r] <= a /\ state'[r] = "settled"
        /\ \A x \in Requests \ {r} : state'[x] = state[x] /\ settled'[x] = settled[x]
    BY <2>1, <2>2, SettleEffect
  <2> DEFINE items == Items(T, research, settled'[r])
  <2>4. /\ items \in ItemType /\ Within(items.model, T)
        /\ Added(items.model) + items.research = settled'[r]
    BY <2>3, ItemsOf DEF a
  <2>5. ledger'[r] = items
        /\ \A x \in Requests \ {r} : ledger'[x] = ledger[x]
    BY <2>1 DEF Known, Handlers
  <2> HIDE DEF items
  <2> QED
    BY <1>1, <1>3, <1>5, <2>3, <2>4, <2>5, UnregisterEffect DEF Charged, Alone
<1> QED  BY <1>4, <1>5

\* The handler of a request changes the state of that request only.
Others(r) == \A x \in Requests \ {r} : req'[x] = req[x]
Every == \A x \in Requests : RequestInv(x)

LEMMA OneChanges ==
    ASSUME Every, NEW r \in Requests, Alone(r), Others(r), RequestInv(r)'
    PROVE  Every'
<1>1. \A x \in Requests \ {r} : Untouched(x)  BY DEF Alone, Others, Untouched
<1>2. \A x \in Requests \ {r} : RequestInv(x)'  BY <1>1, UntouchedInv DEF Every
<1> QED  BY <1>2 DEF Every

LEMMA GotoIs ==
    ASSUME Handlers, NEW r \in Requests, NEW pc, Goto(r, pc)
    PROVE  /\ req'[r].pc = pc /\ req'[r].kind = req[r].kind /\ req'[r].out = req[r].out
           /\ req'[r].shown = req[r].shown /\ req'[r].research = req[r].research
           /\ Others(r)
<1>1. req' = [req EXCEPT ![r] = [req[r] EXCEPT !.pc = pc]] /\ req[r] \in RequestType
  BY DEF Goto, Handlers
<1> QED  BY <1>1 DEF Others, RequestType, Handlers

LEMMA StopIs ==
    ASSUME Handlers, NEW r \in Requests, Stop(r)
    PROVE  /\ req'[r].pc = "over" /\ req'[r].kind = req[r].kind /\ req'[r].out = req[r].out
           /\ req'[r].shown = req[r].shown /\ req'[r].research = req[r].research
           /\ Others(r)
<1>1. req[r] \in RequestType /\ req \in [Requests -> RequestType]  BY DEF Handlers
<1>2. req' = [req EXCEPT ![r] = [req[r] EXCEPT !.pc = "over", !.thread = FALSE]]
  BY <1>1 DEF Stop
<1>3. req'[r] = [req[r] EXCEPT !.pc = "over", !.thread = FALSE]
  BY <1>1, <1>2
<1> QED  BY <1>1, <1>2, <1>3 DEF Others, RequestType

LEMMA AnsweredIs ==
    ASSUME Handlers, NEW r \in Requests, NEW T, NEW F, NEW research, NEW pc,
           req' = Answered(r, T, F, research, pc)
    PROVE  /\ req'[r].pc = pc /\ req'[r].kind = req[r].kind /\ req'[r].out = T
           /\ req'[r].shown = req[r].shown /\ req'[r].research = research
           /\ Others(r)
<1> DEFINE q == [req[r] EXCEPT !.pc = pc, !.out = T, !.failed = F, !.research = research,
                               !.thread = FALSE]
<1>1. req[r] \in RequestType /\ req \in [Requests -> RequestType]  BY DEF Handlers
<1>2. req' = [req EXCEPT ![r] = q]  BY <1>1 DEF Answered
<1>3. /\ q.pc = pc /\ q.kind = req[r].kind /\ q.out = T
      /\ q.shown = req[r].shown /\ q.research = research
  BY <1>1 DEF RequestType
<1> HIDE DEF q
<1> QED  BY <1>1, <1>2, <1>3 DEF Others

\* A handler goes on: no billing, the same answers.
LEMMA QuietAlone == ASSUME NEW r, UNCHANGED billing PROVE Alone(r)
  BY DEF billing, metering, Alone

LEMMA GoesOn ==
    ASSUME Every, NEW r \in Requests, UNCHANGED billing, Others(r),
           req'[r].kind = req[r].kind, req'[r].out = req[r].out,
           req'[r].shown = req[r].shown, req'[r].research = req[r].research,
           \/ /\ req[r].pc \in Before /\ req'[r].pc \in Before
              /\ NoAnswersYet(r)' => NoAnswersYet(r)
           \/ req[r].pc \in After /\ req'[r].pc \in After
           \/ req'[r].pc \in {"closed", req[r].pc}
    PROVE  Every'
<1>1. /\ ledger'[r] = ledger[r] /\ state'[r] = state[r] /\ settled'[r] = settled[r]
      /\ registered' = registered /\ excused' = excused
  BY DEF billing, metering
<1>2. RequestInv(r)  BY DEF Every
<1>3. RequestInv(r)'
  BY <1>1, <1>2 DEF RequestInv, Registered, Unbilled, Waiting, Shown, Deserving, Itemised,
         Deserved, Before, After, NoAnswersYet
<1> QED  BY <1>3, QuietAlone, OneChanges

LEMMA AskedType == ASSUME Handlers, NEW r \in Requests
    PROVE  /\ req \in [Requests -> RequestType] /\ req[r] \in RequestType
           /\ Asked(r) \subseteq Targets /\ Asked(r) # {}
           /\ req[r].out \in SUBSET Targets /\ req[r].shown \in SUBSET Targets
           /\ req[r].research \in BOOLEAN
<1>1. req \in [Requests -> RequestType] /\ req[r] \in RequestType  BY DEF Handlers
<1>2. req[r].out \in SUBSET Targets  BY <1>1 DEF RequestType
<1>3. req[r].shown \in SUBSET Targets  BY <1>1 DEF RequestType
<1>4. req[r].research \in BOOLEAN  BY <1>1 DEF RequestType
<1>5. Asked(r) # {} /\ Asked(r) \subseteq Targets  BY TargetsAssumption DEF Asked
<1> QED  BY <1>1, <1>2, <1>3, <1>4, <1>5

LEMMA ChatInv ==
    ASSUME Known, Every, NEW r \in Requests, ChatStep(r) \/ ChatDisturbed(r)
    PROVE  Every'
<1>0. Handlers /\ RequestInv(r)  BY DEF Known, Every
<1> USE DEF At
<1>1. CASE ChatRoutingFails(r)
  <2>1. LetGo(r) /\ Alone(r)  BY <1>1, ReleaseLets DEF ChatRoutingFails
  <2>2. Stop(r) /\ req[r].pc = "reserved"  BY <1>1 DEF ChatRoutingFails
  <2>3. req[r].out = {} /\ ~req[r].research
    BY <1>0, <2>2 DEF RequestInv, Waiting, NoAnswersYet
  <2>4. RequestInv(r)'
    <3>1. req[r].pc \in Before  BY <2>2 DEF Before
    <3> QED  BY <1>0, <2>1, <2>2, <2>3, <3>1, StopIs, EndsLetGo
  <2> QED  BY <1>0, <2>1, <2>2, <2>4, StopIs, OneChanges
<1>2. CASE ChatStart(r)
  <2>1. Goto(r, "start") /\ req[r].pc = "reserved" /\ UNCHANGED billing
    BY <1>2 DEF ChatStart
  <2> QED  BY <1>0, <2>1, GotoIs, GoesOn DEF Before, NoAnswersYet
<1>3. CASE ChatAsk(r)
  <2>1. /\ req[r].pc \in {"reserved", "start"} /\ UNCHANGED billing
        /\ req' = [req EXCEPT ![r].pc = "asking", ![r].thread = TRUE]
    BY <1>3 DEF ChatAsk
  <2>2. /\ req'[r].pc = "asking" /\ req'[r].kind = req[r].kind /\ req'[r].out = req[r].out
        /\ req'[r].shown = req[r].shown /\ req'[r].research = req[r].research
        /\ Others(r)
    BY <1>0, <2>1, AskedType DEF Others, RequestType
  <2> QED  BY <2>1, <2>2, GoesOn DEF Before, NoAnswersYet
<1>4. ASSUME NEW credits \in Estimates, ChatAuthorizeFallback(r, credits) PROVE Every'
  <2>1. /\ UNCHANGED <<req, registered, ledger, excused>>
        /\ state' = state /\ settled' = settled
    BY <1>4 DEF ChatAuthorizeFallback, Metering!SupplementReservation
  <2>2. \A x \in Requests : Untouched(x)  BY <2>1 DEF Untouched
  <2> QED  BY <2>2, UntouchedInv DEF Every
<1>5. CASE ThreadEnds(r)
  <2>1. /\ UNCHANGED billing
        /\ req' = [req EXCEPT ![r].thread = FALSE]
    BY <1>5 DEF ThreadEnds
  <2>2. /\ req'[r].pc = req[r].pc /\ req'[r].kind = req[r].kind /\ req'[r].out = req[r].out
        /\ req'[r].shown = req[r].shown /\ req'[r].research = req[r].research
        /\ Others(r)
    BY <1>0, <2>1, AskedType DEF Others, RequestType
  <2> QED  BY <2>1, <2>2, GoesOn
<1>6. ASSUME NEW T \in SUBSET Asked(r), NEW research \in BOOLEAN, ChatAnswer(r, T, research)
      PROVE  Every'
  <2>1. /\ req[r].pc = "asking" /\ req[r].kind \in Chats
        /\ req[r].kind = "chat" \/ T = {}
    BY <1>6 DEF ChatAnswer
  <2>2. T \in SUBSET Targets /\ req[r].pc \in Before
    BY <1>0, <2>1, AskedType DEF Before
  <2>3. req[r].kind \in Streams => T = {}
    BY <2>1 DEF Streams
  <2>4. CASE Finalize(r, T, research) /\ req' = Answered(r, T, Asked(r) \ T, research, "saving")
    <3>1. Charged(r, T, research) /\ Alone(r)  BY <1>0, <2>2, <2>4, FinalizeCharges
    <3>2. "saving" \in After  BY DEF After
    <3>3. RequestInv(r)'  BY <1>0, <2>2, <2>3, <2>4, <3>1, <3>2, AnsweredIs, EndsCharged
    <3> QED  BY <1>0, <2>4, <3>1, <3>3, AnsweredIs, OneChanges
  <2>5. CASE Recover(r) /\ req' = Answered(r, T, Asked(r) \ T, research, AfterFailure(r))
    <3>1. Lost(r) /\ Alone(r)  BY <2>5, RecoverLoses
    <3>2. /\ req'[r].pc = AfterFailure(r) /\ req'[r].kind = req[r].kind /\ req'[r].out = T
          /\ req'[r].shown = req[r].shown /\ Others(r)
      BY <1>0, <2>5, AnsweredIs
    <3>3. req'[r].kind \in Streams => req'[r].out \subseteq req'[r].shown
      BY <2>3, <3>2
    <3>4. RequestInv(r)'
      BY <1>0, <2>2, <3>1, <3>2, <3>3, AfterFailureIs, EndsLost
    <3> QED  BY <1>0, <3>1, <3>2, <3>4, OneChanges
  <2> QED  BY <1>6, <2>4, <2>5 DEF ChatAnswer, Billable
<1>7. ASSUME NEW research \in BOOLEAN, ChatFirstLine(r, research) PROVE Every'
  <2> DEFINE answered == Answered(r, Asked(r), {}, research, "first_line")
  <2>1. /\ req[r].pc = "asking" /\ UNCHANGED billing /\ req[r].kind = "chat_stream"
        /\ req' = [answered EXCEPT ![r].shown = Asked(r)]
    BY <1>7 DEF ChatFirstLine
  <2>2. /\ req'[r].pc = "first_line" /\ req'[r].kind = req[r].kind
        /\ req'[r].out = Asked(r) /\ req'[r].shown = Asked(r) /\ Others(r)
    <3>1. answered \in [Requests -> RequestType]
      <4>1. "first_line" \in Pc /\ Asked(r) \in SUBSET Targets /\ {} \in SUBSET Targets
        BY <1>0, AskedType DEF Pc
      <4> QED  BY <1>0, <4>1, AnsweredFits
    <3>2. \A x \in Requests \ {r} : answered[x] = req[x]
      BY <1>0, AskedType DEF Answered
    <3>3. answered[r].pc = "first_line" /\ answered[r].kind = req[r].kind
          /\ answered[r].out = Asked(r)
      <4> DEFINE q == [req[r] EXCEPT !.pc = "first_line", !.out = Asked(r), !.failed = {},
                                     !.research = research, !.thread = FALSE]
      <4>1. answered[r] = q  BY <1>0, AskedType DEF Answered
      <4>2. q.pc = "first_line" /\ q.kind = req[r].kind /\ q.out = Asked(r)
        BY <1>0, AskedType DEF RequestType
      <4> QED  BY <4>1, <4>2
    <3> HIDE DEF answered
    <3>4. req'[r] = [answered[r] EXCEPT !.shown = Asked(r)] /\ Others(r)
      BY <2>1, <3>1, <3>2 DEF Others
    <3> QED  BY <3>1, <3>3, <3>4 DEF RequestType
  <2>3. /\ ledger'[r] = ledger[r] /\ state'[r] = state[r] /\ settled'[r] = settled[r]
        /\ registered' = registered /\ excused' = excused
    BY <2>1 DEF billing, metering
  <2>4. Within(ledger[r].model, {}) /\ ledger[r] \in ItemType
    BY <1>0, <2>1 DEF RequestInv, Unbilled, Itemised, Before
  <2>5. Within(ledger[r].model, Asked(r))  BY <2>4, WithinMore
  <2> HIDE DEF answered
  <2>6. RequestInv(r)'
    BY <1>0, <2>1, <2>2, <2>3, <2>4, <2>5
       DEF RequestInv, Registered, Unbilled, Waiting, Shown, Deserving, Itemised,
           Deserved, Before, After, NoAnswersYet
  <2> QED  BY <2>1, <2>2, <2>6, QuietAlone, OneChanges
<1>8. CASE ChatBill(r)
  <2>1. req[r].pc = "first_line" /\ req[r].pc \in Before /\ req[r].kind = "chat_stream"
    BY <1>8 DEF ChatBill, Before
  <2>2. req[r].out \subseteq req[r].shown
    BY <1>0, <2>1 DEF RequestInv, Shown, Streams
  <2>3. req[r].out \in SUBSET Targets /\ req[r].research \in BOOLEAN  BY <1>0, AskedType
  <2>4. CASE Finalize(r, req[r].out, req[r].research) /\ Goto(r, "saving")
    <3>1. Charged(r, req[r].out, req[r].research) /\ Alone(r)
      BY <1>0, <2>1, <2>3, <2>4, FinalizeCharges
    <3>2. "saving" \in After  BY DEF After
    <3>3. RequestInv(r)'
      BY <1>0, <2>1, <2>2, <2>3, <2>4, <3>1, <3>2, GotoIs, EndsCharged
    <3> QED  BY <1>0, <2>4, <3>1, <3>3, GotoIs, OneChanges
  <2>5. CASE Recover(r) /\ Goto(r, "failing")
    <3>1. Lost(r) /\ Alone(r)  BY <2>5, RecoverLoses
    <3>2. RequestInv(r)'  BY <1>0, <2>1, <2>2, <2>5, <3>1, GotoIs, EndsLost
    <3> QED  BY <1>0, <2>5, <3>1, <3>2, GotoIs, OneChanges
  <2> QED  BY <1>8, <2>4, <2>5 DEF ChatBill, Billable
<1>9. CASE ChatSave(r)
  <2>1. Stop(r) /\ req[r].pc \in After /\ UNCHANGED billing /\ "over" \in After
    BY <1>9 DEF ChatSave, After
  <2> QED  BY <1>0, <2>1, StopIs, GoesOn
<1>10. CASE ChatProviderRaises(r)
  <2>1. LetGo(r) /\ Alone(r)  BY <1>10, ReleaseLets DEF ChatProviderRaises
  <2>2. /\ req[r].pc = "asking" /\ req[r].kind \in Chats
        /\ req' = [req EXCEPT ![r].pc = AfterFailure(r), ![r].thread = FALSE]
    BY <1>10 DEF ChatProviderRaises
  <2>3. req[r].out = {} /\ ~req[r].research
    BY <1>0, <2>2 DEF RequestInv, Waiting, NoAnswersYet, Chats
  <2>4. /\ req'[r].pc = AfterFailure(r) /\ req'[r].kind = req[r].kind
        /\ req'[r].out = req[r].out /\ req'[r].shown = req[r].shown
        /\ req'[r].research = req[r].research /\ Others(r)
    BY <1>0, <2>2, AskedType DEF Others, RequestType
  <2>5. req[r].pc \in Before  BY <2>2 DEF Before
  <2>6. RequestInv(r)'  BY <1>0, <2>1, <2>3, <2>4, <2>5, AfterFailureIs, EndsLetGo
  <2> QED  BY <2>1, <2>4, <2>6, OneChanges
<1>11. CASE ChatCancelled(r)
  <2>1. Goto(r, "over") /\ req[r].pc \in {"asking", "saving"} /\ req[r].kind \in Chats
    BY <1>11 DEF ChatCancelled
  <2>2. CASE req[r].pc = "asking"
    <3>1. LetGo(r) /\ Alone(r)  BY <1>11, <2>2, ReleaseLets DEF ChatCancelled
    <3>2. req[r].out = {} /\ ~req[r].research /\ req[r].pc \in Before
      BY <1>0, <2>1, <2>2 DEF RequestInv, Waiting, NoAnswersYet, Chats, Before
    <3>3. RequestInv(r)'  BY <1>0, <2>1, <3>1, <3>2, GotoIs, EndsLetGo
    <3> QED  BY <1>0, <2>1, <3>1, <3>3, GotoIs, OneChanges
  <2>3. CASE req[r].pc = "saving"
    <3>1. UNCHANGED billing  BY <1>11, <2>3 DEF ChatCancelled
    <3>2. req[r].pc \in After /\ "over" \in After  BY <2>3 DEF After
    <3> QED  BY <1>0, <2>1, <3>1, <3>2, GotoIs, GoesOn
  <2> QED  BY <2>1, <2>2, <2>3
<1>12. CASE ChatClosedAtStart(r)
  <2>1. LetGo(r) /\ Alone(r)  BY <1>12, ReleaseLets DEF ChatClosedAtStart
  <2>2. Stop(r) /\ req[r].pc = "start"  BY <1>12 DEF ChatClosedAtStart
  <2>3. req[r].out = {} /\ ~req[r].research /\ req[r].pc \in Before
    BY <1>0, <2>2 DEF RequestInv, Waiting, NoAnswersYet, Before
  <2>4. RequestInv(r)'  BY <1>0, <2>1, <2>2, <2>3, StopIs, EndsLetGo
  <2> QED  BY <1>0, <2>1, <2>2, <2>4, StopIs, OneChanges
<1>13. CASE ChatClosed(r)
  <2>1. Goto(r, "closed") /\ UNCHANGED billing  BY <1>13 DEF ChatClosed
  <2> QED  BY <1>0, <2>1, GotoIs, GoesOn
<1> QED
  BY <1>1, <1>2, <1>3, <1>4, <1>5, <1>6, <1>7, <1>8, <1>9, <1>10, <1>11, <1>12, <1>13
     DEF ChatStep, ChatDisturbed

LEMMA CompareInv ==
    ASSUME Known, Every, NEW r \in Requests, CompareStep(r) \/ CompareDisturbed(r)
    PROVE  Every'
<1>0. Handlers /\ RequestInv(r)  BY DEF Known, Every
<1> USE DEF At
<1>s. "compare_stream" \in Streams /\ "saving" \in After /\ "over" \in After
      /\ "failing" \in After
  BY DEF Streams, After
<1>f. ASSUME req[r].kind = "compare_stream" PROVE req[r].out \subseteq req[r].shown
  BY <1>0, <1>f, <1>s DEF RequestInv, Shown
\* A stream that is cut off: what it has is charged, or nothing is.
<1>c. ASSUME CutOff(r), req[r].kind = "compare_stream", req[r].pc \in Before,
             req'[r].pc \in {"failing", "over"}, req'[r].kind = req[r].kind,
             req'[r].out = req[r].out, req'[r].shown = req[r].shown,
             req'[r].research = req[r].research, Others(r)
      PROVE  Every'
  <2>1. Started(r) = req[r].out /\ req[r].out \in SUBSET Targets
        /\ req[r].research \in BOOLEAN
    BY <1>0, <1>c, <1>f, AskedType DEF Started
  <2>2. CASE Finalize(r, req[r].out, req[r].research)
    <3>1. Charged(r, req[r].out, req[r].research) /\ Alone(r)
      BY <1>0, <1>c, <2>1, <2>2, FinalizeCharges
    <3>2. req'[r].pc \in After  BY <1>c DEF After
    <3>3. RequestInv(r)'
      BY <1>0, <1>c, <1>f, <2>1, <3>1, <3>2, EndsCharged
    <3> QED  BY <1>c, <3>1, <3>3, OneChanges
  <2>3. CASE Recover(r)
    <3>1. Lost(r) /\ Alone(r)  BY <2>3, RecoverLoses
    <3>2. RequestInv(r)'  BY <1>0, <1>c, <1>f, <3>1, EndsLost
    <3> QED  BY <1>c, <3>1, <3>2, OneChanges
  <2>4. CASE ReleaseSafely(r) /\ req[r].out = {} /\ ~req[r].research
    <3>1. LetGo(r) /\ Alone(r)  BY <2>4, ReleaseLets
    <3>2. RequestInv(r)'  BY <1>0, <1>c, <2>4, <3>1, EndsLetGo
    <3> QED  BY <1>c, <3>1, <3>2, OneChanges
  <2> QED  BY <1>c, <2>1, <2>2, <2>3, <2>4 DEF CutOff
<1>1. CASE CompareStart(r)
  <2>1. Goto(r, "start") /\ req[r].pc = "reserved" /\ UNCHANGED billing
    BY <1>1 DEF CompareStart
  <2> QED  BY <1>0, <2>1, GotoIs, GoesOn DEF Before, NoAnswersYet
<1>2. ASSUME NEW research \in BOOLEAN, ComparePrepare(r, research) PROVE Every'
  <2>1. /\ req[r].pc = "preparing" /\ req[r].kind = "compare_stream" /\ UNCHANGED billing
        /\ req' = [req EXCEPT ![r].pc = "asking", ![r].research = research]
    BY <1>2 DEF ComparePrepare
  <2>2. /\ req'[r].pc = "asking" /\ req'[r].kind = req[r].kind /\ req'[r].out = req[r].out
        /\ req'[r].shown = req[r].shown /\ Others(r)
    BY <1>0, <2>1, AskedType DEF Others, RequestType
  <2>3. /\ ledger'[r] = ledger[r] /\ state'[r] = state[r] /\ settled'[r] = settled[r]
        /\ registered' = registered /\ excused' = excused
    BY <2>1 DEF billing, metering
  <2>4. RequestInv(r)'
    BY <1>0, <2>1, <2>2, <2>3
       DEF RequestInv, Registered, Unbilled, Waiting, Shown, Deserving, Itemised,
           Deserved, Before, After, NoAnswersYet
  <2> QED  BY <2>1, <2>2, <2>4, QuietAlone, OneChanges
<1>3. CASE CompareAsk(r)
  <2>1. CASE req[r].pc = "reserved" /\ req[r].kind = "compare" /\ Goto(r, "asking")
    <3>1. UNCHANGED billing  BY <1>3 DEF CompareAsk
    <3> QED  BY <1>0, <2>1, <3>1, GotoIs, GoesOn DEF Before, NoAnswersYet
  <2>2. CASE req[r].pc = "start" /\ Goto(r, "preparing")
    <3>1. UNCHANGED billing  BY <1>3 DEF CompareAsk
    <3> QED  BY <1>0, <2>2, <3>1, GotoIs, GoesOn DEF Before, NoAnswersYet
  <2> QED  BY <1>3, <2>1, <2>2 DEF CompareAsk
<1>4. ASSUME NEW t \in Targets, NEW succeeds \in BOOLEAN, CompareTargetDone(r, t, succeeds)
      PROVE  Every'
  <2>1. /\ req[r].pc = "asking" /\ req[r].kind = "compare_stream" /\ UNCHANGED billing
    BY <1>4 DEF CompareTargetDone
  <2>2. /\ req'[r].pc = "asking" /\ req'[r].kind = req[r].kind
        /\ req'[r].out \subseteq req'[r].shown /\ req'[r].shown \in SUBSET Targets
        /\ req'[r].research = req[r].research /\ Others(r)
    <3>1. CASE succeeds
      <4>1. req' = [req EXCEPT ![r].out = @ \cup {t}, ![r].shown = @ \cup {t}]
        BY <1>4, <3>1 DEF CompareTargetDone
      <4> DEFINE q == [req[r] EXCEPT !.out = @ \cup {t}, !.shown = @ \cup {t}]
      <4>2. req' = [req EXCEPT ![r] = q]  BY <1>0, <4>1, AskedType
      <4>3. /\ q.pc = req[r].pc /\ q.kind = req[r].kind /\ q.research = req[r].research
            /\ q.out = req[r].out \cup {t} /\ q.shown = req[r].shown \cup {t}
        BY <1>0, AskedType DEF RequestType
      <4> HIDE DEF q
      <4>4. req'[r] = q /\ Others(r)  BY <1>0, <4>2, AskedType DEF Others
      <4> QED  BY <1>0, <1>f, <2>1, <4>3, <4>4, AskedType
    <3>2. CASE ~succeeds
      <4>1. req' = [req EXCEPT ![r].failed = @ \cup {t}]
        BY <1>4, <3>2 DEF CompareTargetDone
      <4> DEFINE q == [req[r] EXCEPT !.failed = @ \cup {t}]
      <4>2. req' = [req EXCEPT ![r] = q]  BY <1>0, <4>1, AskedType
      <4>3. /\ q.pc = req[r].pc /\ q.kind = req[r].kind /\ q.research = req[r].research
            /\ q.out = req[r].out /\ q.shown = req[r].shown
        BY <1>0, AskedType DEF RequestType
      <4> HIDE DEF q
      <4>4. req'[r] = q /\ Others(r)  BY <1>0, <4>2, AskedType DEF Others
      <4> QED  BY <1>0, <1>f, <2>1, <4>3, <4>4, AskedType
    <3> QED  BY <3>1, <3>2
  <2>3. /\ ledger'[r] = ledger[r] /\ state'[r] = state[r] /\ settled'[r] = settled[r]
        /\ registered' = registered /\ excused' = excused
    BY <2>1 DEF billing, metering
  <2>4. Within(ledger[r].model, {}) /\ ledger[r] \in ItemType
    BY <1>0, <2>1 DEF RequestInv, Unbilled, Itemised, Before
  <2>5. Within(ledger[r].model, req'[r].shown)  BY <2>4, WithinMore
  <2>6. RequestInv(r)'
    BY <1>0, <2>1, <2>2, <2>3, <2>4, <2>5
       DEF RequestInv, Registered, Unbilled, Waiting, Shown, Deserving, Itemised,
           Deserved, Before, After, NoAnswersYet
  <2> QED  BY <2>1, <2>2, <2>6, QuietAlone, OneChanges
<1>5. CASE CompareBill(r)
  <2>1. req[r].kind = "compare_stream" /\ req[r].pc \in Before
    BY <1>5 DEF CompareBill, Before
  <2>2. req[r].out \in SUBSET Targets /\ req[r].research \in BOOLEAN  BY <1>0, AskedType
  <2>3. CASE Finalize(r, req[r].out, req[r].research) /\ Goto(r, "saving")
    <3>1. Charged(r, req[r].out, req[r].research) /\ Alone(r)
      BY <1>0, <2>1, <2>2, <2>3, FinalizeCharges
    <3>2. RequestInv(r)'
      BY <1>0, <1>f, <1>s, <2>1, <2>2, <2>3, <3>1, GotoIs, EndsCharged
    <3> QED  BY <1>0, <2>3, <3>1, <3>2, GotoIs, OneChanges
  <2>4. CASE Recover(r) /\ Goto(r, "failing")
    <3>1. Lost(r) /\ Alone(r)  BY <2>4, RecoverLoses
    <3>2. RequestInv(r)'  BY <1>0, <1>f, <2>1, <2>4, <3>1, GotoIs, EndsLost
    <3> QED  BY <1>0, <2>4, <3>1, <3>2, GotoIs, OneChanges
  <2> QED  BY <1>5, <2>3, <2>4 DEF CompareBill
<1>6. ASSUME NEW T \in SUBSET Asked(r), NEW research \in BOOLEAN, CompareAnswer(r, T, research)
      PROVE  Every'
  <2>1. req[r].kind = "compare" /\ req[r].pc \in Before /\ T \in SUBSET Targets
    BY <1>0, <1>6, AskedType DEF CompareAnswer, Before
  <2>2. "compare" \notin Streams  BY DEF Streams
  <2>3. ASSUME NEW pc, req' = [req EXCEPT ![r].pc = pc, ![r].out = T,
                                 ![r].failed = Asked(r) \ T, ![r].research = research]
        PROVE  /\ req'[r].pc = pc /\ req'[r].kind = req[r].kind /\ req'[r].out = T
               /\ req'[r].shown = req[r].shown /\ req'[r].research = research
               /\ Others(r)
    <3> DEFINE q == [req[r] EXCEPT !.pc = pc, !.out = T, !.failed = Asked(r) \ T,
                                   !.research = research]
    <3>1. req' = [req EXCEPT ![r] = q]  BY <1>0, <2>3, AskedType
    <3>2. /\ q.pc = pc /\ q.kind = req[r].kind /\ q.out = T
          /\ q.shown = req[r].shown /\ q.research = research
      BY <1>0, AskedType DEF RequestType
    <3> HIDE DEF q
    <3> QED  BY <1>0, <3>1, <3>2, AskedType DEF Others
  <2>4. CASE /\ Finalize(r, T, research)
             /\ req' = [req EXCEPT ![r].pc = "saving", ![r].out = T,
                                   ![r].failed = Asked(r) \ T, ![r].research = research]
    <3>1. Charged(r, T, research) /\ Alone(r)  BY <1>0, <2>1, <2>4, FinalizeCharges
    <3>2. /\ req'[r].pc = "saving" /\ req'[r].kind = req[r].kind /\ req'[r].out = T
          /\ req'[r].shown = req[r].shown /\ req'[r].research = research
          /\ Others(r)
      BY <2>3, <2>4
    <3>3. RequestInv(r)'  BY <1>0, <1>s, <2>1, <2>2, <3>1, <3>2, EndsCharged
    <3> QED  BY <3>1, <3>2, <3>3, OneChanges
  <2>5. CASE /\ Recover(r)
             /\ req' = [req EXCEPT ![r].pc = "over", ![r].out = T,
                                   ![r].failed = Asked(r) \ T, ![r].research = research]
    <3>1. Lost(r) /\ Alone(r)  BY <2>5, RecoverLoses
    <3>2. /\ req'[r].pc = "over" /\ req'[r].kind = req[r].kind
          /\ req'[r].shown = req[r].shown /\ Others(r)
      BY <2>3, <2>5
    <3>3. RequestInv(r)'  BY <1>0, <2>1, <2>2, <3>1, <3>2, EndsLost
    <3> QED  BY <3>1, <3>2, <3>3, OneChanges
  <2> QED  BY <1>6, <2>4, <2>5 DEF CompareAnswer
<1>7. CASE CompareSave(r)
  <2>1. Stop(r) /\ req[r].pc \in After /\ UNCHANGED billing
    BY <1>7 DEF CompareSave, After
  <2> QED  BY <1>0, <1>s, <2>1, StopIs, GoesOn
<1>8. ASSUME req[r].kind = "compare", req[r].pc = "asking", ReleaseSafely(r), Stop(r)
      PROVE  Every'
  <2>1. LetGo(r) /\ Alone(r)  BY <1>8, ReleaseLets
  <2>2. req[r].out = {} /\ ~req[r].research /\ req[r].pc \in Before
    BY <1>0, <1>8 DEF RequestInv, Waiting, NoAnswersYet, Before
  <2>3. RequestInv(r)'  BY <1>0, <1>8, <2>1, <2>2, StopIs, EndsLetGo
  <2> QED  BY <1>0, <1>8, <2>1, <2>3, StopIs, OneChanges
<1>9. CASE CompareRaises(r)
  <2>1. CASE req[r].kind = "compare_stream" /\ req[r].pc = "asking" /\ CutOff(r)
             /\ Goto(r, "failing")
    <3>1. req[r].pc \in Before  BY <2>1 DEF Before
    <3> QED  BY <1>0, <1>c, <2>1, <3>1, GotoIs
  <2> QED  BY <1>8, <1>9, <2>1 DEF CompareRaises
<1>10. CASE CompareCancelled(r)
  <2>1. CASE req[r].kind = "compare_stream" /\ req[r].pc \in {"preparing", "asking"}
             /\ CutOff(r) /\ Stop(r)
    <3>1. req[r].pc \in Before  BY <2>1 DEF Before
    <3> QED  BY <1>0, <1>c, <2>1, <3>1, StopIs
  <2> QED  BY <1>8, <1>10, <2>1 DEF CompareCancelled
<1>11. CASE CompareClosedAtStart(r)
  <2>1. LetGo(r) /\ Alone(r)  BY <1>11, ReleaseLets DEF CompareClosedAtStart
  <2>2. Stop(r) /\ req[r].pc = "start"  BY <1>11 DEF CompareClosedAtStart
  <2>3. req[r].out = {} /\ ~req[r].research /\ req[r].pc \in Before
    BY <1>0, <2>2 DEF RequestInv, Waiting, NoAnswersYet, Before
  <2>4. RequestInv(r)'  BY <1>0, <2>1, <2>2, <2>3, StopIs, EndsLetGo
  <2> QED  BY <1>0, <2>1, <2>2, <2>4, StopIs, OneChanges
<1>12. CASE CompareClosed(r)
  <2>1. Goto(r, "closed") /\ UNCHANGED billing  BY <1>12 DEF CompareClosed
  <2> QED  BY <1>0, <2>1, GotoIs, GoesOn
<1> QED
  BY <1>1, <1>2, <1>3, <1>4, <1>5, <1>6, <1>7, <1>9, <1>10, <1>11, <1>12
     DEF CompareStep, CompareDisturbed

LEMMA OptimizeInv ==
    ASSUME Known, Every, NEW r \in Requests, OptimizeStep(r) \/ OptimizeDisturbed(r)
    PROVE  Every'
<1>0. Handlers /\ RequestInv(r)  BY DEF Known, Every
<1> USE DEF At
<1>s. /\ "optimize" \notin Streams /\ "analysis" \notin Streams
      /\ "saving" \in After /\ "over" \in After
  BY DEF Streams, After
<1>1. CASE OptimizeAsk(r)
  <2>1. /\ req[r].pc = "reserved" /\ req[r].kind # "compare_stream" /\ UNCHANGED billing
        /\ req' = [req EXCEPT ![r].pc = "asking", ![r].thread = TRUE]
    BY <1>1 DEF OptimizeAsk
  <2>2. /\ req'[r].pc = "asking" /\ req'[r].kind = req[r].kind /\ req'[r].out = req[r].out
        /\ req'[r].shown = req[r].shown /\ req'[r].research = req[r].research
        /\ Others(r)
    BY <1>0, <2>1, AskedType DEF Others, RequestType
  <2> QED  BY <2>1, <2>2, GoesOn DEF Before, NoAnswersYet
<1>2. ASSUME NEW T \in SUBSET Asked(r), OptimizeAnswer(r, T) PROVE Every'
  <2>1. /\ req[r].kind = "optimize" /\ req[r].pc \in {"asking", "late"}
        /\ req' = [req EXCEPT ![r].pc = "over", ![r].out = T, ![r].thread = FALSE]
    BY <1>2 DEF OptimizeAnswer
  <2>2. req[r].out = {} /\ ~req[r].research /\ req[r].pc \in Before /\ T \in SUBSET Targets
    BY <1>0, <2>1, AskedType DEF RequestInv, Waiting, NoAnswersYet, Before
  <2>3. /\ req'[r].pc = "over" /\ req'[r].kind = req[r].kind /\ req'[r].out = T
        /\ req'[r].shown = req[r].shown /\ req'[r].research = req[r].research
        /\ Others(r)
    <3> DEFINE q == [req[r] EXCEPT !.pc = "over", !.out = T, !.thread = FALSE]
    <3>1. req' = [req EXCEPT ![r] = q]  BY <1>0, <2>1, AskedType
    <3>2. /\ q.pc = "over" /\ q.kind = req[r].kind /\ q.out = T
          /\ q.shown = req[r].shown /\ q.research = req[r].research
      BY <1>0, AskedType DEF RequestType
    <3> HIDE DEF q
    <3> QED  BY <1>0, <3>1, <3>2, AskedType DEF Others
  <2>4. req[r].research = FALSE  BY <1>0, <2>2, AskedType
  <2>5. CASE T = {} /\ ReleaseSafely(r)
    <3>1. LetGo(r) /\ Alone(r)  BY <2>5, ReleaseLets
    <3>2. RequestInv(r)'  BY <1>0, <2>2, <2>3, <2>5, <3>1, EndsLetGo
    <3> QED  BY <2>3, <3>1, <3>2, OneChanges
  <2>6. CASE Finalize(r, T, FALSE)
    <3>1. Charged(r, T, FALSE) /\ Alone(r)  BY <1>0, <2>2, <2>6, FinalizeCharges
    <3>2. RequestInv(r)'  BY <1>0, <1>s, <2>1, <2>2, <2>3, <2>4, <3>1, EndsCharged
    <3> QED  BY <2>3, <3>1, <3>2, OneChanges
  <2>7. CASE Recover(r)
    <3>1. Lost(r) /\ Alone(r)  BY <2>7, RecoverLoses
    <3>2. RequestInv(r)'  BY <1>0, <1>s, <2>1, <2>2, <2>3, <3>1, EndsLost
    <3> QED  BY <2>3, <3>1, <3>2, OneChanges
  <2> QED  BY <1>2, <2>5, <2>6, <2>7 DEF OptimizeAnswer
<1>3. CASE OptimizeTimeout(r)
  <2>1. /\ Goto(r, "late") /\ UNCHANGED billing /\ req[r].pc = "asking"
        /\ req[r].kind = "optimize"
    BY <1>3 DEF OptimizeTimeout, HandOver
  <2> QED  BY <1>0, <2>1, GotoIs, GoesOn DEF Before, NoAnswersYet
<1>4. ASSUME req[r].pc = "asking", req[r].kind \in {"optimize", "analysis"},
             ReleaseSafely(r), Stop(r)
      PROVE  Every'
  <2>1. LetGo(r) /\ Alone(r)  BY <1>4, ReleaseLets
  <2>2. req[r].out = {} /\ ~req[r].research /\ req[r].pc \in Before
    BY <1>0, <1>4 DEF RequestInv, Waiting, NoAnswersYet, Before
  <2>3. RequestInv(r)'  BY <1>0, <1>4, <2>1, <2>2, StopIs, EndsLetGo
  <2> QED  BY <1>0, <1>4, <2>1, <2>3, StopIs, OneChanges
<1>5. CASE AnalysisAnswer(r)
  <2>1. req[r].kind = "analysis" /\ req[r].pc = "asking"  BY <1>5 DEF AnalysisAnswer
  <2>2. /\ req[r].out = {} /\ ~req[r].research /\ req[r].pc \in Before
        /\ Asked(r) \in SUBSET Targets
    BY <1>0, <2>1, AskedType DEF RequestInv, Waiting, NoAnswersYet, Before
  <2>3. ASSUME NEW pc, req' = [req EXCEPT ![r].pc = pc, ![r].out = Asked(r), ![r].thread = FALSE]
        PROVE  /\ req'[r].pc = pc /\ req'[r].kind = req[r].kind /\ req'[r].out = Asked(r)
               /\ req'[r].shown = req[r].shown /\ req'[r].research = req[r].research
               /\ Others(r)
    <3> DEFINE q == [req[r] EXCEPT !.pc = pc, !.out = Asked(r), !.thread = FALSE]
    <3>1. req' = [req EXCEPT ![r] = q]  BY <1>0, <2>3, AskedType
    <3>2. /\ q.pc = pc /\ q.kind = req[r].kind /\ q.out = Asked(r)
          /\ q.shown = req[r].shown /\ q.research = req[r].research
      BY <1>0, AskedType DEF RequestType
    <3> HIDE DEF q
    <3> QED  BY <1>0, <3>1, <3>2, AskedType DEF Others
  <2>4. req[r].research = FALSE  BY <1>0, <2>2, AskedType
  <2>5. CASE /\ Finalize(r, Asked(r), FALSE)
             /\ req' = [req EXCEPT ![r].pc = "saving", ![r].out = Asked(r), ![r].thread = FALSE]
    <3>1. Charged(r, Asked(r), FALSE) /\ Alone(r)  BY <1>0, <2>2, <2>5, FinalizeCharges
    <3>2. /\ req'[r].pc = "saving" /\ req'[r].kind = req[r].kind /\ req'[r].out = Asked(r)
          /\ req'[r].shown = req[r].shown /\ req'[r].research = req[r].research
          /\ Others(r)
      BY <2>3, <2>5
    <3>3. RequestInv(r)'  BY <1>0, <1>s, <2>1, <2>2, <2>4, <3>1, <3>2, EndsCharged
    <3> QED  BY <3>1, <3>2, <3>3, OneChanges
  <2>6. CASE /\ Excuse(r) /\ Unregister(r) /\ UNCHANGED <<metering, ledger>>
             /\ req' = [req EXCEPT ![r].pc = "over", ![r].out = Asked(r), ![r].thread = FALSE]
    <3>1. Lost(r) /\ Alone(r)  BY <2>6, GivingUpLoses
    <3>2. /\ req'[r].pc = "over" /\ req'[r].kind = req[r].kind
          /\ req'[r].shown = req[r].shown /\ Others(r)
      BY <2>3, <2>6
    <3>3. RequestInv(r)'  BY <1>0, <1>s, <2>1, <2>2, <3>1, <3>2, EndsLost
    <3> QED  BY <3>1, <3>2, <3>3, OneChanges
  <2> QED  BY <1>5, <2>5, <2>6 DEF AnalysisAnswer
<1>6. CASE AnalysisAborted(r)
  <2>1. Goto(r, "closed") /\ UNCHANGED billing  BY <1>6 DEF AnalysisAborted
  <2> QED  BY <1>0, <2>1, GotoIs, GoesOn
<1>7. CASE AnalysisSave(r)
  <2>1. Stop(r) /\ req[r].pc \in After /\ UNCHANGED billing
    BY <1>7 DEF AnalysisSave, After
  <2> QED  BY <1>0, <1>s, <2>1, StopIs, GoesOn
<1> QED
  BY <1>1, <1>2, <1>3, <1>4, <1>5, <1>6, <1>7
     DEF OptimizeStep, OptimizeDisturbed, OptimizeCancelled, AnalysisFails

----------------------------------------------------------------------------
LEMMA InitEvery == Init => Every
<1> SUFFICES ASSUME Init, NEW r \in Requests PROVE RequestInv(r)
  BY DEF Every
<1>1. /\ req[r] = NoRequest /\ ledger[r] = NoItems /\ registered = {} /\ settled[r] = 0
  BY DEF Init, BillingInit, Metering!Init
<1>2. NoRequest.pc = "idle" /\ NoRequest.kind = "chat" /\ NoRequest.out = {}
      /\ NoRequest.research = FALSE
  BY DEF NoRequest
<1>3. NoItems \in ItemType /\ Within(NoItems.model, {}) /\ Added(NoItems.model) = 0
      /\ NoItems.research = 0
  BY NoItemsAdd
<1> QED
  BY <1>1, <1>2, <1>3 DEF RequestInv, Registered, Unbilled, Waiting, Shown, Deserving,
     Itemised, Before, After, Streams

LEMMA ReserveInv ==
    ASSUME Known, Every, NEW r \in Requests, Arrive(r)
    PROVE  Every'
<1>0. Handlers /\ RequestInv(r)  BY DEF Known, Every
<1>1. PICK kind \in Kinds, estimate \in Estimates : Reserve(r, kind, estimate)
  BY DEF Arrive
<1>2. /\ req[r].pc = "idle" /\ registered' = registered \cup {r}
      /\ req' = [req EXCEPT ![r].pc = "reserved", ![r].kind = kind]
      /\ ledger' = ledger /\ excused' = excused
  BY <1>1 DEF Reserve
<1>3. settled' = settled /\ state' = [state EXCEPT ![r] = "reserved"]
  BY <1>1 DEF Reserve, Metering!ReserveUsage
<1>4. state'[r] = "reserved" /\ \A x \in Requests \ {r} : state'[x] = state[x]
  BY <1>3 DEF Known, Metering!TypeOK
<1>5. /\ req'[r].pc = "reserved" /\ req'[r].out = req[r].out /\ req'[r].shown = req[r].shown
      /\ req'[r].research = req[r].research /\ Others(r)
  BY <1>0, <1>2, AskedType DEF Others, RequestType
<1>6. /\ Within(ledger[r].model, {}) /\ ledger[r] \in ItemType
      /\ req[r].out = {} /\ ~req[r].research
  BY <1>0, <1>2 DEF RequestInv, Unbilled, Itemised, Waiting, NoAnswersYet
<1>7. Within(ledger[r].model, req[r].shown)  BY <1>6, WithinMore
<1>8. RequestInv(r)'
  BY <1>0, <1>2, <1>3, <1>4, <1>5, <1>6, <1>7
     DEF RequestInv, Registered, Unbilled, Waiting, Shown, Deserving, Itemised, Before, After
<1>9. Alone(r)  BY <1>2, <1>3, <1>4 DEF Alone
<1> QED  BY <1>5, <1>8, <1>9, OneChanges

LEMMA StepEvery == Known /\ Every /\ [Next]_vars => Every'
<1> SUFFICES ASSUME Known, Every, [Next]_vars PROVE Every'
  OBVIOUS
<1>1. ASSUME UNCHANGED <<req, registered, ledger, excused, state, settled>> PROVE Every'
  <2>1. \A x \in Requests : Untouched(x)  BY <1>1 DEF Untouched
  <2> QED  BY <2>1, UntouchedInv DEF Every
<1>2. ASSUME NEW r \in Requests, AgeReservation(r) PROVE Every'
  BY <1>1, <1>2 DEF AgeReservation, Metering!BecomeStale, Metering!rows
<1>3. CASE Heartbeat
  BY <1>1, <1>3 DEF Heartbeat, Metering!TouchActivity, Metering!rows
<1>4. CASE ChangePlan
  BY <1>1, <1>4 DEF ChangePlan, Metering!ChangeSubscription, Metering!rows
<1>5. ASSUME NEW R \in SUBSET Requests, Cleanup(R) PROVE Every'
  <2>1. /\ UNCHANGED <<req, registered, ledger, settled>> /\ excused' = excused \cup R
        /\ state' = [x \in Requests |-> IF x \in R THEN "expired" ELSE state[x]]
    BY <1>5 DEF Cleanup, Metering!ExpireStaleReservations
  <2>2. ASSUME NEW x \in Requests \ R PROVE RequestInv(x)'
    BY <2>1, UntouchedInv DEF Untouched, Every
  <2>3. ASSUME NEW x \in R PROVE RequestInv(x)'
    <3>1. RequestInv(x)  BY DEF Every
    <3> QED
      BY <2>1, <3>1 DEF RequestInv, Registered, Unbilled, Waiting, Shown, Deserving, Itemised,
         NoAnswersYet
  <2> QED  BY <2>2, <2>3 DEF Every
<1>6. ASSUME NEW R \in SUBSET Requests, Crash(R) PROVE Every'
  <2>1. /\ UNCHANGED <<ledger, settled, state>> /\ excused' = excused \cup R
        /\ registered' = registered \ R
        /\ req' = [x \in Requests |->
                     IF x \in R THEN [req[x] EXCEPT !.pc = "over", !.thread = FALSE] ELSE req[x]]
    BY <1>6 DEF Crash, metering
  <2>2. ASSUME NEW x \in Requests \ R PROVE RequestInv(x)'
    BY <2>1, UntouchedInv DEF Untouched, Every
  <2>3. ASSUME NEW x \in R PROVE RequestInv(x)'
    <3>1. RequestInv(x)  BY DEF Every
    <3>2. req'[x] = [req[x] EXCEPT !.pc = "over", !.thread = FALSE] /\ req[x] \in RequestType
      BY <2>1 DEF Known, Handlers
    <3>3. /\ req'[x].pc = "over" /\ req'[x].kind = req[x].kind
          /\ req'[x].out = req[x].out /\ req'[x].shown = req[x].shown
      BY <3>2 DEF RequestType
    <3> QED
      BY <2>1, <3>1, <3>3 DEF RequestInv, Registered, Unbilled, Waiting, Shown, Deserving,
         Itemised, NoAnswersYet, Before
  <2> QED  BY <2>2, <2>3 DEF Every
<1>7. CASE UNCHANGED vars
  BY <1>1, <1>7 DEF vars, billing, metering
<1>8. ASSUME NEW r \in Requests, Step(r) \/ Disturbed(r) PROVE Every'
  BY <1>8, ChatInv, CompareInv, OptimizeInv DEF Step, Disturbed
<1> QED
  BY <1>2, <1>3, <1>4, <1>5, <1>6, <1>7, <1>8, ReserveInv DEF Next

LEMMA EveryAlways == Spec => []Every
<1>1. Handlers /\ Metering!TypeOK /\ Metering!ChargeWithinHold /\ Every /\ [Next]_vars => Every'
  BY StepEvery DEF Known
<1> QED  BY <1>1, InitEvery, HandlersAlways, MeteringAlways, PTL DEF Spec

\* The credit transactions of a request always add up to its charge: a charge
\* that was cut is handed out again over its items, none left and none too much.
THEOREM LedgersAddUp == Spec => []LedgerIsTheCharge
<1>1. Every => LedgerIsTheCharge
  BY DEF Every, RequestInv, Itemised, LedgerIsTheCharge, Added
<1> QED  BY <1>1, EveryAlways, PTL

\* Whatever path a handler takes to its end, the cleanup can reach its hold.
THEOREM EndedAreUnregistered == Spec => []HeldOnlyWhileServed
<1>1. Handlers /\ Every => HeldOnlyWhileServed
  BY DEF Every, RequestInv, Registered, HeldOnlyWhileServed, After, Handlers
<1> QED  BY <1>1, HandlersAlways, EveryAlways, PTL

\* A stream is charged for a model what its answer costs, if it was shown, and
\* else nothing.
THEOREM ShownCoversTheCharge == Spec => []OnlyShownIsCharged
<1>1. Every => OnlyShownIsCharged
  BY DEF Every, RequestInv, Shown, OnlyShownIsCharged, Within
<1> QED  BY <1>1, EveryAlways, PTL

\* A request that nothing got in the way of is charged if it had something to
\* charge, and let go otherwise, however it ended.
THEOREM EndsAreDeserved == Spec => []EndedAsDeserved
<1>1. Every => EndedAsDeserved
  BY DEF Every, RequestInv, Deserving, EndedAsDeserved, After
<1> QED  BY <1>1, EveryAlways, PTL

\* The variables of the requests keep their types.
THEOREM RequestsTyping == Spec => []TypeOK
<1>1. Handlers /\ Metering!TypeOK /\ Every => TypeOK
  <2> SUFFICES ASSUME Handlers, Metering!TypeOK, Every PROVE TypeOK  OBVIOUS
  <2>1. \A r \in Requests : ledger[r] \in ItemType
    BY DEF Every, RequestInv, Itemised
  <2>2. ledger = [r \in Requests |-> ledger[r]]  BY DEF Handlers
  <2>3. ledger \in [Requests -> ItemType]  BY <2>1, <2>2
  <2> QED  BY <2>3 DEF TypeOK, Handlers, RequestType, Pc, ItemType
<1> QED  BY <1>1, HandlersAlways, MeteringAlways, EveryAlways, PTL
=============================================================================

------------------------- MODULE OrchestratorProofs -------------------------
(***************************************************************************)
(* Smart requests call every model at most once and no more models than    *)
(* they have attempts, and circuits open only by the calls they admitted,  *)
(* for any registry, number of threads, thresholds and attempts.           *)
(***************************************************************************)
EXTENDS Orchestrator, FiniteSetTheorems, TLAPS

Distinct(s) == \A i, j \in DOMAIN s : s[i] = s[j] => i = j

Apart(s, t) == \A i \in DOMAIN s, j \in DOMAIN t : s[i] # t[j]

\* A smart request: what it may still call was not called before.  The
\* candidates left are of its tier, those called not above it, and those it
\* may climb to all above it.
Routed(q) ==
    /\ Distinct(q.called) /\ Distinct(q.left)
    /\ Apart(q.called, q.left)
    /\ \A i \in DOMAIN q.called : TierOf[q.called[i]] <= q.tier
    /\ \A i \in DOMAIN q.left : TierOf[q.left[i]] = q.tier
    /\ \A m \in q.allowed : TierOf[m] > q.tier
    /\ q.pc = "gate" =>
           \A m \in q.model :
               /\ TierOf[m] = q.tier
               /\ \A i \in DOMAIN q.called : q.called[i] # m
               /\ \A i \in DOMAIN q.left : q.left[i] # m

\* Every call costs an attempt, and one attempt is always left.
Counted(q) ==
    /\ q.attempt < MaxAttempts
    /\ Len(q.called) <= q.attempt + (IF q.pc = "smart" THEN 1 ELSE 0)
    /\ q.pc \notin {"choose", "gate", "smart"} => q.called = <<>> /\ q.left = <<>> /\ q.allowed = {}

Sound(q) == q \in RequestType /\ Routed(q) /\ Counted(q)

\* The inductive invariant.
OrchestratorInv ==
    /\ TypeOK
    /\ \A r \in Requests : Routed(request[r]) /\ Counted(request[r])

-----------------------------------------------------------------------------
LEMMA ConstantTypes ==
    /\ LastTier \in Nat /\ MaxAttempts \in Nat /\ MaxAttempts > 0
    /\ Threshold \in Nat /\ Threshold > 0 /\ Cooldown \in Nat
    /\ \A m \in Models : TierOf[m] \in Nat /\ TierOf[m] <= LastTier
BY OrchestratorAssumption, BreakerAssumption

LEMMA SelectionsAreRankings ==
    ASSUME NEW S \in SUBSET Models, NEW s \in Selections(S)
    PROVE  s \in Seq(S) /\ s \in Seq(Models) /\ Distinct(s)
<1>1. PICK kept \in SUBSET S : /\ s \in [1 .. Cardinality(kept) -> kept]
                               /\ \A i, j \in DOMAIN s : s[i] = s[j] => i = j
  BY DEF Selections
<1>2. IsFiniteSet(kept)  BY OrchestratorAssumption, FS_Subset
<1>3. Cardinality(kept) \in Nat  BY <1>2, FS_CardinalityType
<1>4. s \in [1 .. Cardinality(kept) -> S] /\ s \in [1 .. Cardinality(kept) -> Models]
  BY <1>1
<1>5. s \in Seq(S) /\ s \in Seq(Models)  BY <1>3, <1>4
<1> QED  BY <1>1, <1>5 DEF Distinct

\* The loop goes on only while attempts are left, and climbs only below the
\* last tier.
LEMMA DecisionGoesOn ==
    ASSUME NEW q \in RequestType, NEW outcome, NEW late \in BOOLEAN,
           Decision(q, outcome, late) # "stop"
    PROVE  /\ q.attempt + 1 < MaxAttempts
           /\ Decision(q, outcome, late) = "escalate" => q.tier < LastTier
<1>1. q.attempt \in Nat /\ q.tier \in Nat  BY ConstantTypes DEF RequestType, Tiers
<1>2. q.attempt + 1 < MaxAttempts  BY <1>1, ConstantTypes DEF Decision
<1>3. ASSUME Decision(q, outcome, late) = "escalate" PROVE q.tier < LastTier
  BY <1>1, <1>3 DEF Decision
<1> QED  BY <1>2, <1>3

LEMMA FreshIsSound == Sound(Fresh)
<1>1. Fresh \in RequestType  BY ConstantTypes DEF Fresh, RequestType, Tiers
<1>2. Routed(Fresh)  BY DEF Fresh, Routed, Distinct, Apart
<1>3. Counted(Fresh)  BY ConstantTypes DEF Fresh, Counted
<1> QED  BY <1>1, <1>2, <1>3 DEF Sound

\* One thread's request is replaced by a sound one.
Becomes(r) == \E q : Sound(q) /\ request' = [request EXCEPT ![r] = q]

LEMMA EndIsSound ==
    ASSUME NEW r \in Requests, End(r)
    PROVE  Becomes(r)
BY FreshIsSound DEF End, Becomes

\* The candidates of the next tier were never called: they are above all
\* that were.
LEMMA ClimbIsSound ==
    ASSUME NEW r \in Requests, NEW entry, Sound(entry), entry.pc = "choose",
           entry.tier < LastTier, Climb(r, entry)
    PROVE  Becomes(r)
<1> DEFINE next == Candidates(entry.tier + 1, entry.allowed)
<1>1. entry \in RequestType /\ Routed(entry) /\ Counted(entry)  BY DEF Sound
<1>2. CASE End(r)  BY <1>2, EndIsSound
<1>3. CASE \E left \in Selections(next) :
             request' = [request EXCEPT ![r] =
                 [entry EXCEPT !.pc = "choose", !.tier = @ + 1, !.left = left,
                               !.allowed = Above(entry.tier + 1, @)]]
  <2> DEFINE allowed == Above(entry.tier + 1, entry.allowed)
  <2>1. PICK left \in Selections(next) :
             request' = [request EXCEPT ![r] =
                 [entry EXCEPT !.pc = "choose", !.tier = @ + 1, !.left = left,
                               !.allowed = Above(entry.tier + 1, @)]]
    BY <1>3
  <2> DEFINE q == [entry EXCEPT !.pc = "choose", !.tier = @ + 1, !.left = left,
                                !.allowed = Above(entry.tier + 1, @)]
  <2>2. /\ next \in SUBSET Models
        /\ \A m \in next : TierOf[m] = entry.tier + 1
    BY <1>1 DEF Candidates, RequestType
  <2>3. /\ allowed \in SUBSET Models
        /\ \A m \in allowed : TierOf[m] > entry.tier + 1
    BY <1>1 DEF Above, RequestType
  <2>4. left \in Seq(next) /\ left \in Seq(Models) /\ Distinct(left)
    BY <2>2, SelectionsAreRankings
  <2>5. \A i \in DOMAIN left : TierOf[left[i]] = entry.tier + 1
    BY <2>2, <2>4
  <2>6. /\ entry.tier \in Nat /\ entry.tier + 1 \in Tiers
        /\ entry.called \in Seq(Models)
        /\ entry.attempt \in Nat
    BY <1>1, ConstantTypes DEF RequestType, Tiers
  <2> HIDE DEF allowed, next
  <2>7. /\ q.pc = "choose" /\ q.tier = entry.tier + 1 /\ q.left = left
        /\ q.allowed = allowed /\ q.model = entry.model /\ q.called = entry.called
        /\ q.attempt = entry.attempt
    BY <1>1 DEF RequestType, allowed
  <2>8. q \in RequestType
    BY <1>1, <2>3, <2>4, <2>6 DEF RequestType, allowed
  <2> HIDE DEF q
  <2>9. Routed(q)
    <3>1. \A i \in DOMAIN q.called : TierOf[q.called[i]] <= entry.tier
      BY <1>1, <2>7 DEF Routed
    <3>2. \A i \in DOMAIN q.called : TierOf[q.called[i]] \in Nat
      BY <2>6, <2>7, ConstantTypes
    <3>3. Apart(q.called, q.left)
      BY <2>5, <2>6, <2>7, <3>1, <3>2 DEF Apart
    <3>4. \A i \in DOMAIN q.called : TierOf[q.called[i]] <= q.tier
      BY <2>6, <2>7, <3>1, <3>2
    <3>5. Distinct(q.called)  BY <1>1, <2>7 DEF Routed
    <3> QED  BY <2>3, <2>4, <2>5, <2>7, <3>3, <3>4, <3>5 DEF Routed
  <2>10. Counted(q)
    BY <1>1, <2>7 DEF Counted
  <2> QED  BY <2>1, <2>8, <2>9, <2>10 DEF Becomes, Sound, q
<1> QED  BY <1>2, <1>3 DEF Climb

\* A judged answer ends the request or leaves it sound: the attempt is spent.
LEMMA JudgeIsSound ==
    ASSUME NEW r \in Requests, NEW outcome, request[r] \in RequestType,
           Sound(request[r]), request[r].pc \in {"gate", "smart"},
           Judge(r, outcome)
    PROVE  Becomes(r)
<1> DEFINE q == request[r]
<1>1. PICK late \in {TRUE, q.late} :
          LET next == [q EXCEPT !.pc = "choose", !.model = {}, !.late = late,
                                !.attempt = @ + 1]
              move == Decision(q, outcome, late)
          IN  \/ /\ outcome = "ok" \/ move = "stop"
                 /\ End(r)
              \/ /\ outcome # "ok" /\ move = "retry"
                 /\ request' = [request EXCEPT ![r] = next]
              \/ /\ outcome # "ok" /\ move = "escalate"
                 /\ Climb(r, next)
  BY DEF Judge
<1> DEFINE next == [q EXCEPT !.pc = "choose", !.model = {}, !.late = late,
                             !.attempt = @ + 1]
           move == Decision(q, outcome, late)
<1>2. q \in RequestType /\ Routed(q) /\ Counted(q)  BY DEF Sound
<1>3. late \in BOOLEAN  BY <1>2 DEF RequestType
<1>4. q.attempt \in Nat /\ q.tier \in Nat /\ q.called \in Seq(Models)
  BY <1>2, ConstantTypes DEF RequestType, Tiers
<1>5. ASSUME move # "stop" PROVE Sound(next) /\ next.pc = "choose" /\ next.tier = q.tier
  <2>1. q.attempt + 1 < MaxAttempts  BY <1>2, <1>3, <1>5, DecisionGoesOn
  <2>2. /\ next.pc = "choose" /\ next.tier = q.tier /\ next.left = q.left
        /\ next.allowed = q.allowed /\ next.called = q.called
        /\ next.attempt = q.attempt + 1
    BY <1>2 DEF RequestType
  <2> HIDE DEF q
  <2>3. next \in RequestType
    <3>1. q.attempt + 1 \in 0 .. MaxAttempts  BY <1>4, <2>1, ConstantTypes
    <3> QED  BY <1>2, <1>3, <3>1 DEF RequestType
  <2> HIDE DEF next
  <2>4. Routed(next)  BY <1>2, <2>2 DEF Routed
  <2>5. Len(q.called) <= q.attempt + 1
    BY <1>2, <1>4 DEF Counted
  <2>6. Counted(next)  BY <1>4, <2>1, <2>2, <2>5 DEF Counted
  <2> QED  BY <2>2, <2>3, <2>4, <2>6 DEF Sound
<1>6. CASE End(r)  BY <1>6, EndIsSound
<1>7. CASE move = "retry" /\ request' = [request EXCEPT ![r] = next]
  <2>1. Sound(next)  BY <1>5, <1>7
  <2> HIDE DEF next
  <2> QED  BY <1>7, <2>1 DEF Becomes
<1>8. CASE move = "escalate" /\ Climb(r, next)
  <2>1. Sound(next) /\ next.pc = "choose" /\ next.tier = q.tier  BY <1>5, <1>8
  <2>2. q.tier < LastTier  BY <1>2, <1>3, <1>8, DecisionGoesOn
  <2> HIDE DEF next
  <2> QED  BY <1>8, <2>1, <2>2, ClimbIsSound
<1> QED  BY <1>1, <1>6, <1>7, <1>8

\* A call that is judged is over.
LEMMA JudgeLeaves ==
    ASSUME NEW r \in Requests, NEW outcome, request \in [Requests -> RequestType],
           Judge(r, outcome)
    PROVE  request'[r].pc # "smart"
<1> DEFINE q == request[r]
<1>1. q \in RequestType  OBVIOUS
<1>2. ASSUME End(r) PROVE request'[r].pc # "smart"  BY <1>2 DEF End, Fresh
<1> DEFINE After(late) == [q EXCEPT !.pc = "choose", !.model = {}, !.late = late,
                                    !.attempt = @ + 1]
<1>3. PICK late \in {TRUE, q.late} :
          End(r) \/ request' = [request EXCEPT ![r] = After(late)] \/ Climb(r, After(late))
  BY DEF Judge
<1>4. ASSUME request' = [request EXCEPT ![r] = After(late)] PROVE request'[r].pc # "smart"
  BY <1>1, <1>4 DEF RequestType
<1>5. ASSUME Climb(r, After(late)), ~End(r) PROVE request'[r].pc # "smart"
  <2> DEFINE e == After(late)
             s == e.tier + 1
  <2>1. PICK left : request' = [request EXCEPT ![r] =
            [e EXCEPT !.pc = "choose", !.tier = @ + 1, !.left = left, !.allowed = Above(s, @)]]
    BY <1>5 DEF Climb
  <2>2. DOMAIN e = DOMAIN q /\ "pc" \in DOMAIN q  BY <1>1 DEF RequestType
  <2> HIDE DEF e
  <2>3. [e EXCEPT !.pc = "choose", !.tier = @ + 1, !.left = left, !.allowed = Above(s, @)].pc = "choose"
    BY <2>2
  <2> QED  BY <2>1, <2>3
<1> QED  BY <1>2, <1>3, <1>4, <1>5

LEMMA PlanIsSound ==
    ASSUME OrchestratorInv, NEW r \in Requests, Plan(r)
    PROVE  UNCHANGED request \/ Becomes(r)
<1>1. PICK allowed \in SUBSET Models, asked \in Tiers :
         \/ UNCHANGED request
         \/ \E tier \in Tiers :
              \E left \in Selections(Candidates(tier, allowed)) :
                   request' = [request EXCEPT ![r] =
                       [Fresh EXCEPT !.pc = "choose", !.tier = tier, !.left = left,
                                     !.allowed = Above(tier, allowed)]]
  BY DEF Plan
<1>2. ASSUME NEW tier \in Tiers, NEW left \in Selections(Candidates(tier, allowed)),
             request' = [request EXCEPT ![r] =
                 [Fresh EXCEPT !.pc = "choose", !.tier = tier, !.left = left,
                               !.allowed = Above(tier, allowed)]]
      PROVE  Becomes(r)
  <2> DEFINE candidates == Candidates(tier, allowed)
             above == Above(tier, allowed)
             q == [Fresh EXCEPT !.pc = "choose", !.tier = tier, !.left = left,
                                !.allowed = above]
  <2>1. candidates \in SUBSET Models /\ \A m \in candidates : TierOf[m] = tier
    BY DEF Candidates
  <2>2. above \in SUBSET Models /\ \A m \in above : TierOf[m] > tier
    BY DEF Above
  <2>3. left \in Seq(candidates) /\ left \in Seq(Models) /\ Distinct(left)
    BY <2>1, SelectionsAreRankings
  <2>4. \A i \in DOMAIN left : TierOf[left[i]] = tier
    BY <2>1, <2>3
  <2> HIDE DEF above
  <2>5. /\ q.pc = "choose" /\ q.tier = tier /\ q.left = left /\ q.allowed = above
        /\ q.called = <<>> /\ q.attempt = 0
    BY DEF Fresh
  <2>6. request' = [request EXCEPT ![r] = q]  BY <1>2 DEF above
  <2>7. q \in RequestType
    <3>1. Fresh \in RequestType  BY FreshIsSound DEF Sound
    <3> QED  BY <2>2, <2>3, <3>1 DEF RequestType
  <2> HIDE DEF q, candidates
  <2>8. Routed(q)
    BY <2>2, <2>3, <2>4, <2>5 DEF Routed, Distinct, Apart
  <2>9. Counted(q)  BY <2>5, ConstantTypes DEF Counted
  <2> QED  BY <2>6, <2>7, <2>8, <2>9 DEF Becomes, Sound
<1> QED  BY <1>1, <1>2

\* The candidate at hand is taken off those left, so that it is neither
\* among them nor among those called.
LEMMA ChooseIsSound ==
    ASSUME OrchestratorInv, NEW r \in Requests, Choose(r)
    PROVE  Becomes(r)
<1> DEFINE q == request[r]
<1>1. Sound(q) /\ q \in RequestType /\ Routed(q) /\ Counted(q)
  BY DEF OrchestratorInv, TypeOK, Sound
<1>2. q.pc = "choose"  BY DEF Choose, At
<1>3. CASE q.left = <<>> /\ q.tier = LastTier /\ End(r)
  BY <1>3, EndIsSound
<1>4. CASE q.left = <<>> /\ q.tier < LastTier /\ Climb(r, q)
  <2> HIDE DEF q
  <2> QED  BY <1>1, <1>2, <1>4, ClimbIsSound
<1>5. ASSUME q.left # <<>>, NEW pc \in {"choose", "gate"},
             request' = [request EXCEPT ![r] =
                 [q EXCEPT !.left = Tail(@), !.pc = pc,
                           !.model = IF pc = "gate" THEN {Head(q.left)} ELSE {}]]
      PROVE  Becomes(r)
  <2> DEFINE model == IF pc = "gate" THEN {Head(q.left)} ELSE {}
             p == [q EXCEPT !.left = Tail(@), !.pc = pc, !.model = model]
  <2> HIDE DEF q
  <2>1. /\ q.left \in Seq(Models) /\ q.called \in Seq(Models)
        /\ q.tier \in Nat /\ q.attempt \in Nat
    BY <1>1, ConstantTypes DEF RequestType, Tiers
  <2>2. /\ Head(q.left) \in Models /\ Head(q.left) = q.left[1]
        /\ Tail(q.left) \in Seq(Models)
        /\ Len(q.left) \in Nat /\ Len(q.left) >= 1
        /\ DOMAIN q.left = 1 .. Len(q.left)
        /\ DOMAIN Tail(q.left) = 1 .. Len(q.left) - 1
        /\ \A i \in 1 .. Len(q.left) - 1 : Tail(q.left)[i] = q.left[i + 1]
    BY <1>5, <2>1
  <2>3. model \in SUBSET Models /\ \A m \in model : m = q.left[1]
    BY <2>2
  <2> HIDE DEF model
  <2>4. /\ p.pc = pc /\ p.left = Tail(q.left) /\ p.model = model
        /\ p.allowed = q.allowed /\ p.tier = q.tier /\ p.called = q.called
        /\ p.attempt = q.attempt
    BY <1>1 DEF RequestType
  <2>5. p \in RequestType  BY <1>1, <2>2, <2>3 DEF RequestType
  <2>6. request' = [request EXCEPT ![r] = p]  BY <1>5 DEF model
  <2> HIDE DEF p
  <2>7. Routed(p)
    <3>1. Distinct(p.called) /\ (\A i \in DOMAIN p.called : TierOf[p.called[i]] <= p.tier)
             /\ (\A m \in p.allowed : TierOf[m] > p.tier)
      BY <1>1, <2>4 DEF Routed
    <3>2. ASSUME NEW i \in DOMAIN p.left
          PROVE  i + 1 \in DOMAIN q.left /\ p.left[i] = q.left[i + 1] /\ i \in Nat /\ i >= 1
      BY <2>2, <2>4
    <3>3. Distinct(p.left)
      <4>1. Distinct(q.left)  BY <1>1 DEF Routed
      <4> SUFFICES ASSUME NEW i \in DOMAIN p.left, NEW j \in DOMAIN p.left, p.left[i] = p.left[j]
                   PROVE  i = j
        BY DEF Distinct
      <4>2. i + 1 = j + 1  BY <3>2, <4>1 DEF Distinct
      <4> QED  BY <3>2, <4>2
    <3>4. Apart(p.called, p.left)
      <4>1. Apart(q.called, q.left)  BY <1>1 DEF Routed
      <4> QED  BY <2>4, <3>2, <4>1 DEF Apart
    <3>5. \A i \in DOMAIN p.left : TierOf[p.left[i]] = p.tier
      <4>1. \A i \in DOMAIN q.left : TierOf[q.left[i]] = q.tier  BY <1>1 DEF Routed
      <4> QED  BY <2>4, <3>2, <4>1
    <3>6. ASSUME NEW m \in p.model
          PROVE  /\ TierOf[m] = p.tier
                 /\ \A i \in DOMAIN p.called : p.called[i] # m
                 /\ \A i \in DOMAIN p.left : p.left[i] # m
      <4>1. m = q.left[1] /\ 1 \in DOMAIN q.left  BY <2>2, <2>3, <2>4, <3>6
      <4>2. TierOf[m] = p.tier  BY <1>1, <2>4, <4>1 DEF Routed
      <4>3. \A i \in DOMAIN p.called : p.called[i] # m
        <5>1. Apart(q.called, q.left)  BY <1>1 DEF Routed
        <5> QED  BY <2>4, <4>1, <5>1 DEF Apart
      <4>4. ASSUME NEW i \in DOMAIN p.left PROVE p.left[i] # m
        <5>1. Distinct(q.left)  BY <1>1 DEF Routed
        <5>2. i + 1 # 1  BY <3>2
        <5> QED  BY <3>2, <4>1, <5>1, <5>2 DEF Distinct
      <4> QED  BY <4>2, <4>3, <4>4
    <3> QED  BY <3>1, <3>3, <3>4, <3>5, <3>6 DEF Routed
  <2>8. Counted(p)
    BY <1>1, <1>2, <2>4 DEF Counted
  <2> QED  BY <2>5, <2>6, <2>7, <2>8 DEF Becomes, Sound
<1> QED  BY <1>3, <1>4, <1>5 DEF Choose

\* A call goes to a model that was not called before and spends the attempt
\* that is still left.
LEMMA GateIsSound ==
    ASSUME OrchestratorInv, NEW r \in Requests, Gate(r)
    PROVE  Becomes(r)
<1> DEFINE q == request[r]
<1>1. Sound(q) /\ q \in RequestType /\ Routed(q) /\ Counted(q)
  BY DEF OrchestratorInv, TypeOK, Sound
<1>2. q.pc = "gate"  BY DEF Gate, At
<1>3. ASSUME Judge(r, "provider_error") PROVE Becomes(r)
  BY <1>1, <1>2, <1>3, JudgeIsSound
<1>4. ASSUME NEW m \in q.model,
             request' = [request EXCEPT ![r].pc = "smart", ![r].called = Append(@, m)]
      PROVE  Becomes(r)
  <2> DEFINE p == [q EXCEPT !.pc = "smart", !.called = Append(@, m)]
  <2>1. request' = [request EXCEPT ![r] = p]
    BY <1>4
  <2> HIDE DEF q
  <2>2. m \in Models /\ q.called \in Seq(Models) /\ q.attempt \in Nat /\ q.tier \in Nat
    BY <1>1, <1>4, ConstantTypes DEF RequestType, Tiers
  <2>3. /\ p.pc = "smart" /\ p.called = Append(q.called, m) /\ p.left = q.left
        /\ p.model = q.model /\ p.allowed = q.allowed /\ p.tier = q.tier
        /\ p.attempt = q.attempt
    BY <1>1 DEF RequestType
  <2>4. /\ Append(q.called, m) \in Seq(Models)
        /\ Len(q.called) \in Nat
        /\ DOMAIN q.called = 1 .. Len(q.called)
        /\ DOMAIN Append(q.called, m) = 1 .. Len(q.called) + 1
        /\ Len(Append(q.called, m)) = Len(q.called) + 1
        /\ \A i \in 1 .. Len(q.called) : Append(q.called, m)[i] = q.called[i]
        /\ Append(q.called, m)[Len(q.called) + 1] = m
    BY <2>2
  <2>5. p \in RequestType  BY <1>1, <2>4 DEF RequestType
  <2> HIDE DEF p
  <2>6. /\ TierOf[m] = q.tier
        /\ \A i \in DOMAIN q.called : q.called[i] # m
        /\ \A i \in DOMAIN q.left : q.left[i] # m
    BY <1>1, <1>2, <1>4 DEF Routed
  <2>7. \A i \in DOMAIN p.called :
            \/ i \in DOMAIN q.called /\ p.called[i] = q.called[i]
            \/ i = Len(q.called) + 1 /\ p.called[i] = m
    BY <2>3, <2>4
  <2>8. Routed(p)
    <3>1. Distinct(p.called)
      <4>1. Distinct(q.called)  BY <1>1 DEF Routed
      <4> QED  BY <2>6, <2>7, <4>1 DEF Distinct
    <3>2. Apart(p.called, p.left)
      <4>1. Apart(q.called, q.left)  BY <1>1 DEF Routed
      <4> QED  BY <2>3, <2>6, <2>7, <4>1 DEF Apart
    <3>3. \A i \in DOMAIN p.called : TierOf[p.called[i]] <= p.tier
      <4>1. \A i \in DOMAIN q.called : TierOf[q.called[i]] <= q.tier  BY <1>1 DEF Routed
      <4> QED  BY <2>2, <2>3, <2>6, <2>7, <4>1
    <3>4. /\ Distinct(p.left)
          /\ \A i \in DOMAIN p.left : TierOf[p.left[i]] = p.tier
          /\ \A k \in p.allowed : TierOf[k] > p.tier
      BY <1>1, <2>3 DEF Routed
    <3> QED  BY <2>3, <3>1, <3>2, <3>3, <3>4 DEF Routed
  <2>9. Counted(p)
    <3>1. q.attempt < MaxAttempts /\ Len(q.called) <= q.attempt
      BY <1>1, <1>2, <2>2, <2>4 DEF Counted
    <3> QED  BY <2>2, <2>3, <2>4, <3>1 DEF Counted
  <2> QED  BY <2>1, <2>5, <2>8, <2>9 DEF Becomes, Sound
<1> QED  BY <1>3, <1>4 DEF Gate

LEMMA SmartAnswerIsSound ==
    ASSUME OrchestratorInv, NEW r \in Requests, SmartAnswer(r)
    PROVE  Becomes(r)
<1>1. Sound(request[r]) /\ request[r] \in RequestType
  BY DEF OrchestratorInv, TypeOK, Sound
<1>2. request[r].pc = "smart"  BY DEF SmartAnswer, At
<1>3. PICK outcome : Judge(r, outcome)  BY DEF SmartAnswer
<1> QED  BY <1>1, <1>2, <1>3, JudgeIsSound

\* Outside the loop of the smart requests nothing is called or left: such a
\* request stays sound, whatever its other fields become.
LEMMA OtherIsSound ==
    ASSUME OrchestratorInv, NEW r \in Requests, NEW p \in RequestType,
           request[r].pc \notin {"choose", "gate", "smart"},
           p.pc \notin {"choose", "gate", "smart"},
           p.called = request[r].called, p.left = request[r].left,
           p.allowed = request[r].allowed, p.attempt = request[r].attempt
    PROVE  Sound(p)
<1>1. Counted(request[r]) /\ request[r] \in RequestType  BY DEF OrchestratorInv, TypeOK
<1>2. p.called = <<>> /\ p.left = <<>> /\ p.allowed = {}  BY <1>1 DEF Counted
<1>3. Routed(p)  BY <1>2 DEF Routed, Distinct, Apart
<1>4. p.attempt < MaxAttempts  BY <1>1 DEF Counted
<1>5. p.attempt \in Nat  BY ConstantTypes DEF RequestType
<1>6. Counted(p)  BY <1>2, <1>4, <1>5 DEF Counted
<1> QED  BY <1>3, <1>6 DEF Sound

LEMMA DirectAndCompareAreSound ==
    ASSUME OrchestratorInv, NEW r \in Requests,
           \/ DirectStart(r) \/ DirectAnswer(r) \/ CompareStart(r)
           \/ CompareCheck(r) \/ CompareCall(r) \/ CompareRecord(r)
    PROVE  UNCHANGED request \/ Becomes(r)
<1> DEFINE q == request[r]
<1>1. q \in RequestType  BY DEF OrchestratorInv, TypeOK
<1>2. CASE DirectStart(r)
  <2>1. ASSUME NEW m \in Models,
               request' = [request EXCEPT ![r] = [@ EXCEPT !.pc = "direct", !.model = {m}]]
        PROVE  Becomes(r)
    <3> DEFINE p == [q EXCEPT !.pc = "direct", !.model = {m}]
    <3>1. p \in RequestType  BY <1>1 DEF RequestType
    <3>2. q.pc = "idle"  BY <1>2 DEF DirectStart, At
    <3>3. /\ p.pc = "direct" /\ p.called = q.called /\ p.left = q.left
          /\ p.allowed = q.allowed /\ p.attempt = q.attempt
      BY <1>1 DEF RequestType
    <3>4. Sound(p)  BY <3>1, <3>2, <3>3, OtherIsSound
    <3> QED  BY <2>1, <3>4 DEF Becomes
  <2> QED  BY <1>2, <2>1 DEF DirectStart
<1>3. CASE DirectAnswer(r)  BY <1>3, EndIsSound DEF DirectAnswer
<1>4. CASE CompareStart(r)
  <2>1. PICK targets \in SUBSET Targets :
         request' = [request EXCEPT ![r] = [@ EXCEPT !.pc = "check", !.todo = targets]]
    BY <1>4 DEF CompareStart
  <2> DEFINE p == [q EXCEPT !.pc = "check", !.todo = targets]
  <2>2. targets \in SUBSET Models  BY OrchestratorAssumption
  <2>3. p \in RequestType  BY <1>1, <2>2 DEF RequestType
  <2>4. q.pc = "idle"  BY <1>4 DEF CompareStart, At
  <2>5. /\ p.pc = "check" /\ p.called = q.called /\ p.left = q.left
        /\ p.allowed = q.allowed /\ p.attempt = q.attempt
    BY <1>1 DEF RequestType
  <2>6. Sound(p)  BY <2>3, <2>4, <2>5, OtherIsSound
  <2> QED  BY <2>1, <2>6 DEF Becomes
<1>5. CASE CompareCheck(r)
  <2>1. q.pc = "check"  BY <1>5 DEF CompareCheck, At
  <2>2. ASSUME NEW m \in q.todo,
               request' = [request EXCEPT ![r].todo = @ \ {m}, ![r].missed = @ \cup {m}]
        PROVE  Becomes(r)
    <3> DEFINE p == [q EXCEPT !.todo = @ \ {m}, !.missed = @ \cup {m}]
    <3>1. p \in RequestType  BY <1>1 DEF RequestType
    <3>2. /\ p.pc = q.pc /\ p.called = q.called /\ p.left = q.left
          /\ p.allowed = q.allowed /\ p.attempt = q.attempt
      BY <1>1 DEF RequestType
    <3>3. Sound(p)  BY <2>1, <3>1, <3>2, OtherIsSound
    <3> QED  BY <2>2, <3>3 DEF Becomes
  <2>3. ASSUME NEW m \in q.todo,
               request' = [request EXCEPT ![r].todo = @ \ {m}, ![r].clients = @ \cup {m}]
        PROVE  Becomes(r)
    <3> DEFINE p == [q EXCEPT !.todo = @ \ {m}, !.clients = @ \cup {m}]
    <3>1. p \in RequestType  BY <1>1 DEF RequestType
    <3>2. /\ p.pc = q.pc /\ p.called = q.called /\ p.left = q.left
          /\ p.allowed = q.allowed /\ p.attempt = q.attempt
      BY <1>1 DEF RequestType
    <3>3. Sound(p)  BY <2>1, <3>1, <3>2, OtherIsSound
    <3> QED  BY <2>3, <3>3 DEF Becomes
  <2> QED  BY <1>5, <2>2, <2>3 DEF CompareCheck
<1>6. CASE CompareCall(r)
  <2>1. ASSUME request' = [request EXCEPT ![r].pc = "record"] PROVE Becomes(r)
    <3> DEFINE p == [q EXCEPT !.pc = "record"]
    <3>1. p \in RequestType  BY <1>1 DEF RequestType
    <3>2. q.pc = "check"  BY <1>6 DEF CompareCall, At
    <3>3. /\ p.pc = "record" /\ p.called = q.called /\ p.left = q.left
          /\ p.allowed = q.allowed /\ p.attempt = q.attempt
      BY <1>1 DEF RequestType
    <3>4. Sound(p)  BY <3>1, <3>2, <3>3, OtherIsSound
    <3> QED  BY <2>1, <3>4 DEF Becomes
  <2> QED  BY <1>6, <2>1, EndIsSound DEF CompareCall
<1>7. CASE CompareRecord(r)
  <2>1. PICK m \in q.clients \cup q.missed :
            LET rest == [q EXCEPT !.clients = @ \ {m}, !.missed = @ \ {m}]
            IN  request' = [request EXCEPT ![r] =
                    IF rest.clients \cup rest.missed = {} THEN Fresh ELSE rest]
    BY <1>7 DEF CompareRecord
  <2> DEFINE p == [q EXCEPT !.clients = @ \ {m}, !.missed = @ \ {m}]
  <2>2. CASE request' = [request EXCEPT ![r] = Fresh]
    BY <2>2, FreshIsSound DEF Becomes
  <2>3. CASE request' = [request EXCEPT ![r] = p]
    <3>1. p \in RequestType  BY <1>1 DEF RequestType
    <3>2. q.pc = "record"  BY <1>7 DEF CompareRecord, At
    <3>3. /\ p.pc = q.pc /\ p.called = q.called /\ p.left = q.left
          /\ p.allowed = q.allowed /\ p.attempt = q.attempt
      BY <1>1 DEF RequestType
    <3>4. Sound(p)  BY <3>1, <3>2, <3>3, OtherIsSound
    <3> QED  BY <2>3, <3>4 DEF Becomes
  <2> QED  BY <2>1, <2>2, <2>3
<1> QED  BY <1>2, <1>3, <1>4, <1>5, <1>6, <1>7

-----------------------------------------------------------------------------
(* The circuits: whose failure or success was recorded, or whose time went *)
(* by.                                                                     *)

LEMMA FailureIsTyped ==
    ASSUME NEW entry \in Circuits
    PROVE  AfterFailure(entry) \in Circuits
<1>1. entry.failures \in Nat /\ entry.failures < Threshold  BY ConstantTypes DEF Circuits
<1>2. CASE entry.failures + 1 >= Threshold
  BY <1>2, ConstantTypes DEF AfterFailure, Circuits
<1>3. CASE entry.failures + 1 < Threshold
  <2>1. entry.failures + 1 \in 0 .. Threshold - 1  BY <1>1, <1>3, ConstantTypes
  <2>2. AfterFailure(entry) = [entry EXCEPT !.failures = entry.failures + 1]
    BY <1>1, <1>3, ConstantTypes DEF AfterFailure
  <2> QED  BY <2>1, <2>2 DEF Circuits
<1> QED  BY <1>1, <1>2, <1>3, ConstantTypes

LEMMA BreakerStepsAreTyped ==
    ASSUME BreakerType, NEW m \in Models,
           \/ RecordFailure(m) \/ RecordSuccess(m) \/ Tick(m) \/ Forget(m)
    PROVE  /\ BreakerType'
           /\ Tick(m) \/ Forget(m) => \A k \in Models : circuit'[k].open <= circuit[k].open
           /\ \A k \in Models \ {m} : circuit'[k] = circuit[k]
<1>1. circuit[m] \in Circuits  BY DEF BreakerType
<1>2. CASE RecordFailure(m)
  <2>1. AfterFailure(circuit[m]) \in Circuits  BY <1>1, FailureIsTyped
  <2>2. circuit' = [circuit EXCEPT ![m] = AfterFailure(circuit[m])]  BY <1>2 DEF RecordFailure
  <2>3. BreakerType' /\ \A k \in Models \ {m} : circuit'[k] = circuit[k]
    BY <2>1, <2>2 DEF BreakerType
  <2> HIDE DEF BreakerType
  <2>4. ASSUME Tick(m) \/ Forget(m), NEW k \in Models
        PROVE  circuit'[k].open <= circuit[k].open
    <3>1. \A j \in Models : circuit[j].open \in Nat /\ circuit[j].failures \in Nat
      BY ConstantTypes DEF BreakerType, Circuits
    <3>2. CASE Tick(m)
      <4>1. circuit'[k].open = IF k = m THEN circuit[k].open - 1 ELSE circuit[k].open
        BY <3>2 DEF Tick, BreakerType, Circuits
      <4> QED  BY <3>1, <4>1
    <3>3. CASE Forget(m)
      <4>1. circuit'[k].open = circuit[k].open
        BY <3>3 DEF Forget, BreakerType, Circuits
      <4> QED  BY <3>1, <4>1
    <3> QED  BY <2>4, <3>2, <3>3
  <2> QED  BY <2>3, <2>4
<1>3. CASE RecordSuccess(m)
  <2>1. Closed \in Circuits  BY ConstantTypes DEF Closed, Circuits
  <2>2. circuit' = [circuit EXCEPT ![m] = Closed]  BY <1>3 DEF RecordSuccess
  <2>3. BreakerType' /\ \A k \in Models : circuit'[k] = IF k = m THEN Closed ELSE circuit[k]
    BY <2>1, <2>2 DEF BreakerType
  <2>4. \A k \in Models : circuit'[k].open <= circuit[k].open
    <3>1. \A j \in Models : circuit[j].open \in Nat
      BY ConstantTypes DEF BreakerType, Circuits
    <3> QED  BY <2>3, <3>1 DEF Closed
  <2> QED  BY <2>3, <2>4
<1>4. CASE Tick(m)
  <2>1. circuit' = [circuit EXCEPT ![m] = [circuit[m] EXCEPT !.open = circuit[m].open - 1]]
    BY <1>4 DEF Tick
  <2>2. circuit[m].open \in Nat /\ circuit[m].open # 0 /\ circuit[m].open <= Cooldown
    BY <1>1, <1>4, ConstantTypes DEF Tick, Allows, Circuits
  <2>3. circuit[m].open - 1 \in 0 .. Cooldown  BY <2>2, ConstantTypes
  <2>4. [circuit[m] EXCEPT !.open = circuit[m].open - 1] \in Circuits
    BY <1>1, <2>3 DEF Circuits
  <2>5. \A k \in Models : circuit[k].open \in Nat
    BY ConstantTypes DEF BreakerType, Circuits
  <2>6. [circuit[m] EXCEPT !.open = circuit[m].open - 1].open = circuit[m].open - 1
    BY <1>1 DEF Circuits
  <2>7. BreakerType' /\ \A k \in Models \ {m} : circuit'[k] = circuit[k]
    BY <2>1, <2>4 DEF BreakerType
  <2>8. circuit'[m].open = circuit[m].open - 1
    BY <2>1, <2>6 DEF BreakerType
  <2> QED  BY <2>2, <2>5, <2>7, <2>8
<1>5. CASE Forget(m)
  <2>1. circuit' = [circuit EXCEPT ![m] = [circuit[m] EXCEPT !.failures = circuit[m].failures - 1]]
    BY <1>5 DEF Forget
  <2>2. circuit[m].failures \in 0 .. Threshold - 1 /\ circuit[m].failures > 0
    BY <1>1, <1>5 DEF Forget, Circuits
  <2>3. circuit[m].failures - 1 \in 0 .. Threshold - 1  BY <2>2, ConstantTypes
  <2>4. [circuit[m] EXCEPT !.failures = circuit[m].failures - 1] \in Circuits
    BY <1>1, <2>3 DEF Circuits
  <2>5. \A k \in Models : circuit[k].open \in Nat
    BY ConstantTypes DEF BreakerType, Circuits
  <2>6. [circuit[m] EXCEPT !.failures = circuit[m].failures - 1].open = circuit[m].open
    BY <1>1 DEF Circuits
  <2>7. BreakerType' /\ \A k \in Models \ {m} : circuit'[k] = circuit[k]
    BY <2>1, <2>4 DEF BreakerType
  <2>8. circuit'[m].open = circuit[m].open
    BY <2>1, <2>6 DEF BreakerType
  <2> QED  BY <2>5, <2>7, <2>8
<1> QED  BY <1>2, <1>3, <1>4, <1>5

\* Every step keeps the circuits typed, and opens only one whose call it ends.
LEMMA CircuitsOpenByCalls ==
    ASSUME OrchestratorInv, [Next]_vars
    PROVE  /\ BreakerType'
           /\ \A m \in Models :
                  circuit'[m].open > circuit[m].open =>
                      \E r \in Requests : Calls(r, m) /\ request'[r] # request[r]
<1>1. BreakerType /\ (\A m \in Models : circuit[m].open \in Nat)
  BY ConstantTypes DEF OrchestratorInv, TypeOK, BreakerType, Circuits
<1>2. ASSUME UNCHANGED circuit
      PROVE  BreakerType' /\ \A m \in Models : ~ (circuit'[m].open > circuit[m].open)
  BY <1>1, <1>2 DEF BreakerType
<1>3. ASSUME NEW r \in Requests, NEW m \in Models, Calls(r, m),
             RecordFailure(m) \/ RecordSuccess(m)
      PROVE  /\ BreakerType'
             /\ \A k \in Models : circuit'[k].open > circuit[k].open => Calls(r, k)
  <2>1. BreakerType' /\ \A k \in Models \ {m} : circuit'[k] = circuit[k]
    BY <1>1, <1>3, BreakerStepsAreTyped
  <2> QED  BY <1>1, <1>3, <2>1
<1>4. ASSUME NEW r \in Requests PROVE request[r] \in RequestType
  BY DEF OrchestratorInv, TypeOK
<1>5. ASSUME NEW r \in Requests, Start(r) PROVE UNCHANGED circuit
  BY <1>5 DEF Start, Plan, DirectStart, CompareStart
<1>6. ASSUME NEW r \in Requests, Choose(r) \/ Gate(r) \/ CompareCall(r)
      PROVE  UNCHANGED circuit
  BY <1>6 DEF Choose, Gate, CompareCall
<1>7. ASSUME NEW r \in Requests, SmartAnswer(r)
      PROVE  /\ \E m \in Models : Calls(r, m) /\ (RecordFailure(m) \/ RecordSuccess(m))
             /\ request'[r] # request[r]
  <2>1. PICK m \in request[r].model, outcome \in Outcomes :
            Judge(r, outcome) /\ (RecordFailure(m) \/ RecordSuccess(m))
    BY <1>7 DEF SmartAnswer, Record
  <2>2. m \in Models  BY <1>4 DEF RequestType
  <2>3. request[r].pc = "smart"  BY <1>7 DEF SmartAnswer, At
  <2>4. request'[r].pc # "smart"  BY <2>1, JudgeLeaves DEF OrchestratorInv, TypeOK
  <2> QED  BY <2>1, <2>2, <2>3, <2>4 DEF Calls
<1>8. ASSUME NEW r \in Requests, DirectAnswer(r)
      PROVE  \/ UNCHANGED circuit
             \/ /\ \E m \in Models : Calls(r, m) /\ (RecordFailure(m) \/ RecordSuccess(m))
                /\ request'[r] # request[r]
  <2>1. ASSUME NEW m \in request[r].model, RecordFailure(m) \/ RecordSuccess(m)
        PROVE  m \in Models /\ Calls(r, m)
    BY <1>4, <1>8 DEF RequestType, Calls, DirectAnswer, At
  <2>2. request'[r] # request[r]
    BY <1>8 DEF DirectAnswer, At, End, Fresh, OrchestratorInv, TypeOK
  <2> QED  BY <1>8, <2>1, <2>2 DEF DirectAnswer, Record
<1>9. ASSUME NEW r \in Requests, CompareCheck(r)
      PROVE  \/ UNCHANGED circuit
             \/ /\ \E m \in Models : Calls(r, m) /\ (RecordFailure(m) \/ RecordSuccess(m))
                /\ request'[r] # request[r]
  <2>1. PICK m \in request[r].todo :
            /\ RecordFailure(m) \/ UNCHANGED circuit
            /\ \/ request' = [request EXCEPT ![r].todo = @ \ {m}, ![r].missed = @ \cup {m}]
               \/ request' = [request EXCEPT ![r].todo = @ \ {m}, ![r].clients = @ \cup {m}]
    BY <1>9 DEF CompareCheck
  <2>2. m \in Models /\ Calls(r, m)  BY <1>4 DEF RequestType, Calls
  <2>3. request'[r].todo = request[r].todo \ {m}
    BY <1>4, <2>1 DEF OrchestratorInv, TypeOK, RequestType
  <2> QED  BY <2>1, <2>2, <2>3
<1>10. ASSUME NEW r \in Requests, CompareRecord(r)
       PROVE  /\ \E m \in Models : Calls(r, m) /\ (RecordFailure(m) \/ RecordSuccess(m))
              /\ request'[r] # request[r]
  <2> DEFINE q == request[r]
  <2>1. PICK m \in q.clients \cup q.missed :
            /\ RecordFailure(m) \/ RecordSuccess(m)
            /\ LET rest == [q EXCEPT !.clients = @ \ {m}, !.missed = @ \ {m}]
               IN  request' = [request EXCEPT ![r] =
                       IF rest.clients \cup rest.missed = {} THEN Fresh ELSE rest]
    BY <1>10 DEF CompareRecord, Record
  <2>2. m \in Models /\ Calls(r, m)  BY <1>4 DEF RequestType, Calls
  <2>3. q.pc = "record"  BY <1>10 DEF CompareRecord, At
  <2> DEFINE rest == [q EXCEPT !.clients = @ \ {m}, !.missed = @ \ {m}]
  <2>4. m \notin rest.clients \cup rest.missed  BY <1>4 DEF RequestType
  <2>5. Fresh.pc = "idle"  BY DEF Fresh
  <2>6. request'[r] = Fresh \/ request'[r] = rest  BY <2>1 DEF OrchestratorInv, TypeOK
  <2> HIDE DEF rest
  <2> QED  BY <2>1, <2>2, <2>3, <2>4, <2>5, <2>6
<1>11. ASSUME NEW m \in Models, Tick(m) \/ Forget(m)
       PROVE  BreakerType' /\ \A k \in Models : ~ (circuit'[k].open > circuit[k].open)
  <2>1. BreakerType' /\ \A k \in Models : circuit'[k].open <= circuit[k].open
    BY <1>1, <1>11, BreakerStepsAreTyped
  <2>2. \A k \in Models : circuit'[k].open \in Nat
    BY <2>1, ConstantTypes DEF BreakerType, Circuits
  <2> QED  BY <1>1, <2>1, <2>2
<1>12. CASE UNCHANGED vars  BY <1>2, <1>12 DEF vars
<1>13. ASSUME NEW r \in Requests, Start(r) \/ Serve(r)
       PROVE  \/ UNCHANGED circuit
              \/ /\ \E m \in Models : Calls(r, m) /\ (RecordFailure(m) \/ RecordSuccess(m))
                 /\ request'[r] # request[r]
  BY <1>5, <1>6, <1>7, <1>8, <1>9, <1>10, <1>13 DEF Serve
<1>14. CASE \E r \in Requests : Start(r) \/ Serve(r)
  BY <1>2, <1>3, <1>13, <1>14
<1>15. CASE \E m \in Models : Cool(m) \/ Fade(m)
  BY <1>11, <1>15 DEF Cool, Fade
<1> QED  BY <1>12, <1>14, <1>15 DEF Next

LEMMA InvInit == Init => OrchestratorInv
<1> SUFFICES ASSUME Init PROVE OrchestratorInv
  OBVIOUS
<1>1. Closed \in Circuits  BY ConstantTypes DEF Closed, Circuits
<1>2. BreakerType  BY <1>1 DEF Init, BreakerInit, BreakerType
<1>3. \A r \in Requests : Sound(request[r])  BY FreshIsSound DEF Init
<1>4. request \in [Requests -> RequestType]  BY FreshIsSound DEF Init, Sound
<1>5. compares \in 0 .. MaxCompares  BY OrchestratorAssumption DEF Init
<1> QED  BY <1>2, <1>3, <1>4, <1>5 DEF OrchestratorInv, TypeOK, Sound

LEMMA InvNext == OrchestratorInv /\ [Next]_vars => OrchestratorInv'
<1> SUFFICES ASSUME OrchestratorInv, [Next]_vars PROVE OrchestratorInv'
  OBVIOUS
<1>1. BreakerType'  BY CircuitsOpenByCalls
<1>2. compares' \in 0 .. MaxCompares
  <2>1. compares \in 0 .. MaxCompares /\ MaxCompares \in Nat
    BY OrchestratorAssumption DEF OrchestratorInv, TypeOK
  <2>2. ASSUME NEW r \in Requests, CompareStart(r) PROVE compares' \in 0 .. MaxCompares
    BY <2>1, <2>2 DEF CompareStart
  <2>3. ASSUME NEW r \in Requests, Start(r) \/ Serve(r), ~CompareStart(r)
        PROVE  UNCHANGED compares
    BY <2>3 DEF Start, Serve, Plan, DirectStart, Choose, Gate, SmartAnswer,
                DirectAnswer, CompareCheck, CompareCall, CompareRecord
  <2>4. ASSUME NEW m \in Models, Cool(m) \/ Fade(m) PROVE UNCHANGED compares
    BY <2>4 DEF Cool, Fade
  <2> QED  BY <2>1, <2>2, <2>3, <2>4 DEF Next, vars
<1>3. UNCHANGED request \/ \E r \in Requests : Becomes(r)
  <2>1. ASSUME NEW r \in Requests, Start(r) \/ Serve(r)
        PROVE  UNCHANGED request \/ Becomes(r)
    BY <2>1, PlanIsSound, ChooseIsSound, GateIsSound, SmartAnswerIsSound,
       DirectAndCompareAreSound DEF Start, Serve
  <2>2. ASSUME NEW m \in Models, Cool(m) \/ Fade(m) PROVE UNCHANGED request
    BY <2>2 DEF Cool, Fade
  <2> QED  BY <2>1, <2>2 DEF Next, vars
<1>4. CASE UNCHANGED request
  BY <1>1, <1>2, <1>4 DEF OrchestratorInv, TypeOK, Routed, Counted
<1>5. ASSUME NEW r \in Requests, Becomes(r) PROVE OrchestratorInv'
  <2>1. PICK q : Sound(q) /\ request' = [request EXCEPT ![r] = q]  BY <1>5 DEF Becomes
  <2>2. request \in [Requests -> RequestType]  BY DEF OrchestratorInv, TypeOK
  <2>3. request' \in [Requests -> RequestType]  BY <2>1, <2>2 DEF Sound
  <2>4. \A s \in Requests : request'[s] = IF s = r THEN q ELSE request[s]
    BY <2>1, <2>2
  <2>5. ASSUME NEW s \in Requests PROVE Routed(request'[s]) /\ Counted(request'[s])
    BY <2>1, <2>4 DEF OrchestratorInv, Sound
  <2> QED  BY <1>1, <1>2, <2>3, <2>5 DEF OrchestratorInv, TypeOK, Routed, Counted
<1> QED  BY <1>3, <1>4, <1>5

LEMMA InvHolds == Spec => []OrchestratorInv
<1>1. Spec => Init /\ [][Next]_vars  BY DEF Spec
<1> QED  BY <1>1, InvInit, InvNext, PTL

(* Every state of a request and of a circuit has its type: attempts never  *)
(* exceed their bound, tiers their range, and cooldowns their length.      *)
THEOREM TypeCorrect == Spec => []TypeOK
<1>1. OrchestratorInv => TypeOK  BY DEF OrchestratorInv
<1> QED  BY <1>1, InvHolds, PTL

(* A smart request calls no model twice and at most MaxAttempts models.    *)
THEOREM CalledOnce == Spec => []EachModelOnce
<1>1. OrchestratorInv => EachModelOnce
  <2> SUFFICES ASSUME OrchestratorInv, NEW r \in Requests
               PROVE  /\ Len(request[r].called) <= MaxAttempts
                      /\ Distinct(request[r].called)
    BY DEF EachModelOnce, Distinct
  <2>1. Routed(request[r]) /\ Counted(request[r]) /\ request[r] \in RequestType
    BY DEF OrchestratorInv, TypeOK
  <2>2. request[r].attempt \in Nat /\ request[r].called \in Seq(Models)
    BY <2>1, ConstantTypes DEF RequestType
  <2>3. Len(request[r].called) <= MaxAttempts
    BY <2>1, <2>2, ConstantTypes DEF Counted
  <2> QED  BY <2>1, <2>3 DEF Routed
<1> QED  BY <1>1, InvHolds, PTL

(* A circuit opens, or stays open for longer, only when the answer to a    *)
(* call that it admitted is recorded, or that of a compare target.         *)
THEOREM OpenedByAdmitted == Spec => OpenedByCalls
<1>1. OrchestratorInv /\ [Next]_vars =>
        [\A m \in Models :
           circuit'[m].open > circuit[m].open =>
               \E r \in Requests : Calls(r, m) /\ request'[r] # request[r]]_vars
  BY CircuitsOpenByCalls
<1>2. Spec => [][Next]_vars  BY DEF Spec
<1> QED  BY <1>1, <1>2, InvHolds, PTL DEF OpenedByCalls
=============================================================================

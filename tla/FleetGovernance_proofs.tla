----------------------- MODULE FleetGovernance_proofs -----------------------
(***************************************************************************)
(* Proofs about module FleetGovernance, for any number of managers,        *)
(* agents, promotions and calls, in any interleaving.                      *)
(***************************************************************************)
EXTENDS FleetGovernance, TLAPS

Projection == [Promotion -> Memory \cup {None}]

(* What a call in hand may do next: it is about promotions that are in the *)
(* thread, and supersedes only what was once allowed and is no keystone.   *)
CallOK(k) ==
  /\ k.step \in {"review", "rollback", "resolve", "supersede"} => Known(k.p)
  /\ k.step = "supersede" =>
       \A q \in k.todo : Known(q) /\ q \in allowed /\ ~ ClaimOf(q).keystone

(* The inductive invariant behind HeldUntilAccepted and KeystoneStands. *)
Inv ==
  /\ TypeOK
  /\ HeldUntilAccepted
  /\ \A m \in Manager : CallOK(call[m])

(* An append leaves every memory in the thread, with its claim, and        *)
(* withdraws no permission.                                                *)
Grows ==
  /\ \A q \in Promotion : Known(q) => memory'[q] # None /\ memory'[q].claim = memory[q].claim
  /\ allowed \subseteq allowed'

(* A memory in the projection is a record of its type. *)
LEMMA KnownIsMemory ==
  ASSUME memory \in Projection, NEW p \in Promotion, Known(p)
  PROVE  memory[p] \in Memory
BY DEF Projection, Known

(* A promotion adds one memory or none. *)
LEMMA PromotedType ==
  ASSUME memory \in Projection, NEW p \in Promotion, NEW c \in Claim, NEW a \in Agent,
         NEW auto \in BOOLEAN
  PROVE  LET new == Promoted(p, c, a, auto)
         IN  /\ new \in Projection
             /\ \A q \in Promotion : Known(q) => new[q] = memory[q]
             /\ \A q \in Promotion \ {p} : new[q] = memory[q]
             /\ ~ Known(p) => /\ new[p].status = IF auto THEN "active" ELSE "pending"
                             /\ new[p].claim = c
<1> DEFINE rec == [claim |-> c, actor |-> a,
                   status |-> IF auto THEN "active" ELSE "pending", by |-> None]
<1>1. rec \in Memory
  BY DEF Memory, Status
<1>2. rec.status = (IF auto THEN "active" ELSE "pending") /\ rec.claim = c
  OBVIOUS
<1>3. Promoted(p, c, a, auto) = IF Known(p) THEN memory ELSE [memory EXCEPT ![p] = rec]
  BY DEF Promoted
<1> HIDE DEF rec
<1> QED BY <1>1, <1>2, <1>3 DEF Projection, Known

(* A review changes the status of one memory. *)
LEMMA ReviewedType ==
  ASSUME memory \in Projection, NEW p \in Promotion, Known(p), NEW decision \in Decision
  PROVE  LET new == Reviewed(p, decision)
         IN  /\ new \in Projection
             /\ new[p] # None
             /\ new[p].claim = memory[p].claim
             /\ new[p].status = IF decision = "accepted" THEN "active" ELSE decision
             /\ \A q \in Promotion \ {p} : new[q] = memory[q]
<1> DEFINE s == IF decision = "accepted" THEN "active" ELSE decision
           rec == [memory[p] EXCEPT !.status = s]
<1>1. memory[p] \in Memory
  BY KnownIsMemory
<1>2. s \in Status
  BY DEF Decision, Status
<1>3. rec \in Memory /\ rec.status = s /\ rec.claim = memory[p].claim
  BY <1>1, <1>2 DEF Memory
<1>4. Reviewed(p, decision) = [memory EXCEPT ![p] = rec]
  BY DEF Reviewed
<1>5. rec # None
  BY <1>3, NoneAssumption
<1> HIDE DEF rec
<1> QED BY <1>3, <1>4, <1>5 DEF Projection

(* A supersession changes status and winner of one memory. *)
LEMMA SupersededType ==
  ASSUME memory \in Projection, NEW old \in Promotion, Known(old), NEW p \in Promotion
  PROVE  LET new == Superseded(old, p)
         IN  /\ new \in Projection
             /\ new[old] # None
             /\ new[old].claim = memory[old].claim
             /\ new[old].status = "superseded"
             /\ new[old].by = p
             /\ \A q \in Promotion \ {old} : new[q] = memory[q]
<1> DEFINE rec == [memory[old] EXCEPT !.status = "superseded", !.by = p]
<1>1. memory[old] \in Memory
  BY KnownIsMemory
<1>3. /\ rec \in Memory /\ rec.status = "superseded" /\ rec.by = p
      /\ rec.claim = memory[old].claim
  BY <1>1 DEF Memory, Status
<1>4. Superseded(old, p) = [memory EXCEPT ![old] = rec]
  BY DEF Superseded, Projection
<1>5. rec # None
  BY <1>3, NoneAssumption
<1> HIDE DEF rec
<1> QED BY <1>3, <1>4, <1>5 DEF Projection

(* A rollback changes the status of p, and of what p had superseded. *)
LEMMA RolledBackType ==
  ASSUME memory \in Projection, NEW p \in Promotion, Known(p)
  PROVE  LET new == RolledBack(p)
         IN  /\ new \in Projection
             /\ \A q \in Promotion : Known(q) => new[q] # None /\ new[q].claim = memory[q].claim
             /\ new[p].status = "rolled_back"
             /\ \A q \in Promotion \ {p} :
                  /\ new[q] # memory[q] => HasStatus(q, "superseded") /\ new[q].status = "active"
                  /\ HasStatus(q, "superseded") /\ memory[q].by = p => new[q].status = "active"
<1> DEFINE new == RolledBack(p)
<1>1. ASSUME NEW q \in Promotion, Known(q), NEW s \in {"rolled_back", "active"}
      PROVE  LET rec == [memory[q] EXCEPT !.status = s]
             IN  rec \in Memory /\ rec # None /\ rec.status = s /\ rec.claim = memory[q].claim
  <2>1. memory[q] \in Memory
    BY <1>1, KnownIsMemory
  <2>2. s \in Status
    BY DEF Status
  <2> DEFINE rec == [memory[q] EXCEPT !.status = s]
  <2>3. rec \in Memory /\ rec.status = s /\ rec.claim = memory[q].claim
    BY <2>1, <2>2 DEF Memory
  <2> QED BY <2>3, NoneAssumption
<1>2. \A q \in Promotion :
        new[q] = IF q = p THEN [memory[q] EXCEPT !.status = "rolled_back"]
                 ELSE IF HasStatus(q, "superseded") /\ memory[q].by = p
                        THEN [memory[q] EXCEPT !.status = "active"]
                        ELSE memory[q]
  BY DEF RolledBack
<1>3. ASSUME NEW q \in Promotion
      PROVE  /\ new[q] \in Memory \cup {None}
             /\ Known(q) => new[q] # None /\ new[q].claim = memory[q].claim
             /\ q = p => new[q].status = "rolled_back"
             /\ q # p /\ new[q] # memory[q] =>
                  HasStatus(q, "superseded") /\ new[q].status = "active"
             /\ q # p /\ HasStatus(q, "superseded") /\ memory[q].by = p =>
                  new[q].status = "active"
  <2>1. CASE q = p
    <3>1. new[q] = [memory[q] EXCEPT !.status = "rolled_back"]
      BY <2>1, <1>2
    <3>2. new[q] \in Memory /\ new[q] # None /\ new[q].status = "rolled_back"
            /\ new[q].claim = memory[q].claim
      BY <2>1, <3>1, <1>1
    <3> QED BY <2>1, <3>2
  <2>2. CASE q # p /\ HasStatus(q, "superseded") /\ memory[q].by = p
    <3>1. Known(q)
      BY <2>2 DEF HasStatus
    <3>2. new[q] = [memory[q] EXCEPT !.status = "active"]
      BY <2>2, <1>2
    <3>3. new[q] \in Memory /\ new[q] # None /\ new[q].status = "active"
            /\ new[q].claim = memory[q].claim
      BY <3>1, <3>2, <1>1
    <3> QED BY <2>2, <3>3
  <2>3. CASE q # p /\ ~ (HasStatus(q, "superseded") /\ memory[q].by = p)
    <3>1. new[q] = memory[q]
      BY <2>3, <1>2
    <3> QED BY <3>1, <2>3 DEF Projection, Known
  <2> QED BY <2>1, <2>2, <2>3
<1>4. new \in Projection
  BY <1>3 DEF RolledBack, Projection
<1> QED BY <1>3, <1>4

(* Idle and the calls Start is given are calls. *)
LEMMA CallTypes ==
  /\ Idle \in Call
  /\ \A p \in Promotion, c \in Claim : AndResolve(p, c) \in Call
  /\ \A p \in Promotion, todo \in SUBSET Promotion : SupersedeAll(p, todo) \in Call
BY DEF Call, Idle, AndResolve, SupersedeAll

(* What a step must show to keep the part of Inv about memories and calls. *)
Memories ==
  /\ memory \in Projection
  /\ allowed \subseteq Promotion
  /\ call \in [Manager -> Call]
  /\ \A m \in Manager : CallOK(call[m])
  /\ HeldUntilAccepted

(* If nothing is lost from the thread, a call that was in order stays so,  *)
(* unless one of the memories it is to supersede becomes a keystone, which *)
(* Grows excludes.                                                         *)
LEMMA CallStaysOK ==
  ASSUME Memories, Grows, NEW k \in Call, CallOK(k)
  PROVE  CallOK(k)'
<1>1. \A q \in Promotion : Known(q) => Known(q)' /\ ClaimOf(q)' = ClaimOf(q)
  BY DEF Grows, Known, ClaimOf
<1>2. k.step \in {"review", "rollback", "resolve", "supersede"} => k.p \in Promotion
  BY DEF Call, Idle
<1>3. k.step = "supersede" => k.todo \subseteq Promotion
  BY DEF Call, Idle
<1> QED BY <1>1, <1>2, <1>3 DEF CallOK, Grows

(* A step in which one call goes on, and the thread grows, keeps the part  *)
(* of Inv about memories and calls.                                        *)
LEMMA CallGoesOn ==
  ASSUME Memories, Grows,
         memory' \in Projection, allowed' \subseteq Promotion, HeldUntilAccepted',
         NEW m \in Manager, NEW k \in Call, call' = [call EXCEPT ![m] = k], CallOK(k)'
  PROVE  Memories'
<1>1. call' \in [Manager -> Call]
  BY DEF Memories
<1>2. ASSUME NEW n \in Manager
      PROVE  CallOK(call[n])'
  <2>1. PICK j : j = call'[n]
    OBVIOUS
  <2>2. CASE n = m
    <3>1. j = k
      BY <2>1, <2>2 DEF Memories
    <3> QED BY <2>1, <3>1 DEF CallOK
  <2>3. CASE n # m
    <3>1. j = call[n] /\ j \in Call
      BY <2>1, <2>3 DEF Memories
    <3>2. CallOK(j)
      BY <3>1 DEF Memories
    <3>3. CallOK(j)'
      BY <3>1, <3>2, CallStaysOK
    <3> QED BY <2>1, <3>3 DEF CallOK
  <2> QED BY <2>2, <2>3
<1> QED BY <1>1, <1>2 DEF Memories

(* Such a step that appends nothing about memories. *)
LEMMA ThreadUnchanged ==
  ASSUME Memories, UNCHANGED <<memory, allowed>>,
         NEW m \in Manager, NEW k \in Call, call' = [call EXCEPT ![m] = k], CallOK(k)
  PROVE  Memories'
<1>1. Grows
  BY DEF Grows, Known
<1>2. HeldUntilAccepted'
  BY DEF Memories, HeldUntilAccepted, Active, HasStatus, Known
<1>3. memory' \in Projection /\ allowed' \subseteq Promotion
  BY DEF Memories
<1>4. CallOK(k)'
  BY <1>1, CallStaysOK
<1> QED BY <1>1, <1>2, <1>3, <1>4, CallGoesOn

(* Who takes effect by a step must be allowed. *)
LEMMA HeldByStep ==
  ASSUME Memories, Grows,
         \A q \in Promotion :
           memory'[q] # memory[q] /\ memory'[q].status \in {"active", "superseded"}
             => q \in allowed'
  PROVE  HeldUntilAccepted'
BY DEF Memories, Grows, HeldUntilAccepted, Active, HasStatus, Known

(* Every call a manager may start is in order. *)
LEMMA StartIsOK ==
  ASSUME Memories, NEW m \in Manager, NEW k \in Call, CallOK(k), Start(m, k),
         UNCHANGED <<memory, allowed>>
  PROVE  Memories'
BY ThreadUnchanged DEF Start

(* create_fleet, enroll_agent and assign_trust. *)
LEMMA GovernKeeps ==
  ASSUME Memories, NEW m \in Manager, NEW a \in Agent, NEW tier \in Tier, Govern(m, a, tier)
  PROVE  Memories'
<1> DEFINE k == [step |-> "trust", agent |-> a, tier |-> tier]
<1>1. k \in Call /\ CallOK(k)
  BY DEF Call, CallOK
<1>2. Start(m, k) /\ UNCHANGED <<memory, allowed>>
  BY DEF Govern
<1> HIDE DEF k
<1> QED BY <1>1, <1>2, StartIsOK

(* promote, propose, review and rollback, up to their first append. *)
LEMMA DecideKeeps ==
  ASSUME Memories, NEW m \in Manager, NEW k \in Call, CallOK(k), Decide(m, k)
  PROVE  Memories'
<1>1. Start(m, k) /\ UNCHANGED <<memory, allowed>>
  BY DEF Decide
<1> QED BY <1>1, StartIsOK

(* _propose. *)
LEMMA ProposeKeeps ==
  ASSUME Memories, NEW m \in Manager, NEW a \in Agent, NEW p \in Promotion, NEW c \in Claim,
         NEW scope \in Scope, NEW confident \in BOOLEAN, Propose(m, a, p, c, scope, confident)
  PROVE  Memories'
<1>1. PICK auto \in BOOLEAN :
        Decide(m, [step |-> "promote", p |-> p, claim |-> c, actor |-> a, auto |-> auto])
  BY DEF Propose
<1> DEFINE k == [step |-> "promote", p |-> p, claim |-> c, actor |-> a, auto |-> auto]
<1>2. k \in Call /\ CallOK(k)
  BY DEF Call, CallOK
<1>3. Decide(m, k)
  BY <1>1
<1> HIDE DEF k
<1> QED BY <1>2, <1>3, DecideKeeps

(* review_promotion. *)
LEMMA ReviewKeeps ==
  ASSUME Memories, NEW m \in Manager, NEW a \in Agent, NEW p \in Promotion,
         NEW decision \in Decision, Review(m, a, p, decision)
  PROVE  Memories'
<1> DEFINE k == [step |-> "review", p |-> p, decision |-> decision]
<1>1. k \in Call /\ CallOK(k)
  BY DEF Call, CallOK, Review
<1>2. Decide(m, k)
  BY DEF Review
<1> HIDE DEF k
<1> QED BY <1>1, <1>2, DecideKeeps

(* rollback_promotion. *)
LEMMA RollbackKeeps ==
  ASSUME Memories, NEW m \in Manager, NEW a \in Agent, NEW p \in Promotion, Rollback(m, a, p)
  PROVE  Memories'
<1> DEFINE k == [step |-> "rollback", p |-> p]
<1>1. k \in Call /\ CallOK(k)
  BY DEF Call, CallOK, Rollback
<1>2. Decide(m, k)
  BY DEF Rollback
<1> HIDE DEF k
<1> QED BY <1>1, <1>2, DecideKeeps

(* The agent.fleet.trust_assigned event of a call. *)
LEMMA AppendTrustKeeps ==
  ASSUME Memories, NEW m \in Manager, AppendTrust(m)
  PROVE  Memories'
<1>1. CallOK(Idle)
  BY DEF CallOK, Idle
<1> QED BY <1>1, CallTypes, ThreadUnchanged DEF AppendTrust

(* The promotion event of a proposal: allowed if the gate applied it. *)
LEMMA AppendPromotionKeeps ==
  ASSUME Memories, NEW m \in Manager, AppendPromotion(m)
  PROVE  Memories'
<1>1. PICK k \in Call : k = call[m]
  BY DEF Memories
<1>2. /\ k.step = "promote"
      /\ memory' = Promoted(k.p, k.claim, k.actor, k.auto)
      /\ allowed' = IF k.auto /\ ~ Known(k.p) THEN allowed \cup {k.p} ELSE allowed
      /\ call' = [call EXCEPT ![m] = IF k.auto THEN AndResolve(k.p, k.claim) ELSE Idle]
  BY <1>1 DEF AppendPromotion
<1>3. k.p \in Promotion /\ k.claim \in Claim /\ k.actor \in Agent /\ k.auto \in BOOLEAN
  BY <1>2 DEF Call, Idle
<1>4. /\ memory' \in Projection
      /\ \A q \in Promotion : Known(q) => memory'[q] = memory[q]
      /\ \A q \in Promotion \ {k.p} : memory'[q] = memory[q]
      /\ ~ Known(k.p) => memory'[k.p].status = IF k.auto THEN "active" ELSE "pending"
  BY <1>2, <1>3, PromotedType DEF Memories
<1>5. Grows
  BY <1>2, <1>4 DEF Grows, Known
<1>6. HeldUntilAccepted'
  <2>1. ASSUME NEW q \in Promotion, memory'[q] # memory[q],
               memory'[q].status \in {"active", "superseded"}
        PROVE  q \in allowed'
    <3>1. q = k.p /\ ~ Known(k.p)
      BY <1>4, <2>1
    <3>2. k.auto
      BY <3>1, <1>4, <2>1
    <3> QED BY <3>1, <3>2, <1>2
  <2> QED BY <2>1, <1>5, HeldByStep
<1>7. allowed' \subseteq Promotion
  BY <1>2, <1>3 DEF Memories
<1>8. k.p \in Promotion /\ memory'[k.p] # None
  <2>1. CASE Known(k.p)
    BY <2>1, <1>3, <1>4 DEF Known
  <2>2. CASE ~ Known(k.p)
    <3> DEFINE rec == [claim |-> k.claim, actor |-> k.actor,
                       status |-> IF k.auto THEN "active" ELSE "pending", by |-> None]
    <3>1. rec \in Memory
      BY <1>3 DEF Memory, Status
    <3>2. memory' = [memory EXCEPT ![k.p] = rec]
      BY <1>2, <2>2 DEF Promoted
    <3> HIDE DEF rec
    <3> QED BY <3>1, <3>2, <1>3, NoneAssumption DEF Memories, Projection
  <2> QED BY <2>1, <2>2
<1>9. PICK j \in Call : j = IF k.auto THEN AndResolve(k.p, k.claim) ELSE Idle
  BY <1>3, CallTypes
<1>10. CallOK(j)'
  BY <1>8, <1>9 DEF CallOK, AndResolve, Idle, Known
<1>11. call' = [call EXCEPT ![m] = j]
  BY <1>2, <1>9
<1> QED BY <1>4, <1>5, <1>6, <1>7, <1>10, <1>11, CallGoesOn

(* The event of a review: an acceptance allows. *)
LEMMA AppendReviewKeeps ==
  ASSUME Memories, NEW m \in Manager, AppendReview(m)
  PROVE  Memories'
<1>1. PICK k \in Call : k = call[m]
  BY DEF Memories
<1>2. /\ k.step = "review"
      /\ memory' = Reviewed(k.p, k.decision)
      /\ allowed' = IF k.decision = "accepted" THEN allowed \cup {k.p} ELSE allowed
      /\ call' = [call EXCEPT ![m] = IF k.decision = "accepted"
                                       THEN AndResolve(k.p, ClaimOf(k.p)) ELSE Idle]
  BY <1>1 DEF AppendReview
<1>3. k.p \in Promotion /\ k.decision \in Decision
  BY <1>2 DEF Call, Idle
<1>4. Known(k.p)
  <2>1. CallOK(k)
    BY <1>1 DEF Memories
  <2> QED BY <2>1, <1>2 DEF CallOK
<1>5. /\ memory' \in Projection
      /\ memory'[k.p] # None
      /\ memory'[k.p].claim = memory[k.p].claim
      /\ memory'[k.p].status = IF k.decision = "accepted" THEN "active" ELSE k.decision
      /\ \A q \in Promotion \ {k.p} : memory'[q] = memory[q]
  BY <1>2, <1>3, <1>4, ReviewedType DEF Memories
<1>6. Grows
  BY <1>2, <1>5 DEF Grows, Known
<1>7. HeldUntilAccepted'
  <2>1. ASSUME NEW q \in Promotion, memory'[q] # memory[q],
               memory'[q].status \in {"active", "superseded"}
        PROVE  q \in allowed'
    <3>1. q = k.p
      BY <1>5, <2>1
    <3>2. k.decision = "accepted"
      BY <3>1, <1>3, <1>5, <2>1 DEF Decision
    <3> QED BY <3>1, <3>2, <1>2
  <2> QED BY <2>1, <1>6, HeldByStep
<1>8. allowed' \subseteq Promotion
  BY <1>2, <1>3 DEF Memories
<1>9. ClaimOf(k.p) \in Claim
  BY <1>3, <1>4, KnownIsMemory DEF Memory, ClaimOf, Memories
<1>10. PICK j \in Call : j = IF k.decision = "accepted"
                               THEN AndResolve(k.p, ClaimOf(k.p)) ELSE Idle
  <2>1. AndResolve(k.p, ClaimOf(k.p)) \in Call
    BY <1>3, <1>9, CallTypes
  <2> QED BY <2>1, CallTypes
<1>11. CallOK(j)'
  <2>1. j = Idle \/ j = [step |-> "resolve", p |-> k.p]
    BY <1>10 DEF AndResolve
  <2> QED BY <2>1, <1>5 DEF CallOK, Idle, Known
<1>12. call' = [call EXCEPT ![m] = j]
  BY <1>2, <1>10
<1> QED BY <1>5, <1>6, <1>7, <1>8, <1>11, <1>12, CallGoesOn

(* _supersede_conflicts finds active memories, which are allowed, and      *)
(* leaves out keystones.                                                   *)
LEMMA ResolveKeeps ==
  ASSUME Memories, NEW m \in Manager, Resolve(m)
  PROVE  Memories'
<1>1. PICK k \in Call : k = call[m]
  BY DEF Memories
<1>2. PICK todo : todo = ToSupersede(k.p)
  OBVIOUS
<1>3. k.step = "resolve" /\ call' = [call EXCEPT ![m] = SupersedeAll(k.p, todo)]
        /\ UNCHANGED <<memory, allowed>>
  BY <1>1, <1>2 DEF Resolve
<1>4. k.p \in Promotion
  BY <1>3 DEF Call, Idle
<1>5. Known(k.p)
  <2>1. CallOK(k)
    BY <1>1 DEF Memories
  <2> QED BY <2>1, <1>3 DEF CallOK
<1>6. /\ todo \in SUBSET Promotion
      /\ \A q \in todo : Active(q) /\ ~ ClaimOf(q).keystone
  BY <1>2 DEF ToSupersede, ConflictingActives
<1>7. \A q \in todo : Known(q) /\ q \in allowed
  BY <1>6 DEF Memories, HeldUntilAccepted, Active, HasStatus
<1>8. PICK j \in Call : j = SupersedeAll(k.p, todo)
  BY <1>4, <1>6, CallTypes
<1>9. CallOK(j)
  <2>1. j = Idle \/ j = [step |-> "supersede", p |-> k.p, todo |-> todo]
    BY <1>8 DEF SupersedeAll
  <2> QED BY <2>1, <1>5, <1>6, <1>7 DEF CallOK, Idle
<1> QED BY <1>3, <1>8, <1>9, ThreadUnchanged

(* A supersession touches what was allowed and is no keystone. *)
LEMMA AppendSupersededKeeps ==
  ASSUME Memories, NEW m \in Manager, AppendSuperseded(m)
  PROVE  /\ Memories'
         /\ \A q \in Promotion : memory'[q] # memory[q] => Known(q) /\ ~ ClaimOf(q).keystone
<1>1. PICK k \in Call : k = call[m]
  BY DEF Memories
<1>2. PICK old \in k.todo :
        /\ memory' = Superseded(old, k.p)
        /\ call' = [call EXCEPT ![m] = SupersedeAll(k.p, k.todo \ {old})]
  BY <1>1 DEF AppendSuperseded
<1>3. k.step = "supersede" /\ UNCHANGED allowed
  BY <1>1 DEF AppendSuperseded
<1>4. k.p \in Promotion /\ k.todo \in SUBSET Promotion
  BY <1>3 DEF Call, Idle
<1>5. /\ Known(k.p)
      /\ \A q \in k.todo : Known(q) /\ q \in allowed /\ ~ ClaimOf(q).keystone
  <2>1. CallOK(k)
    BY <1>1 DEF Memories
  <2> QED BY <2>1, <1>3 DEF CallOK
<1>6. /\ memory' \in Projection
      /\ memory'[old] # None
      /\ memory'[old].claim = memory[old].claim
      /\ \A q \in Promotion \ {old} : memory'[q] = memory[q]
  BY <1>2, <1>4, <1>5, SupersededType DEF Memories
<1>7. Grows
  BY <1>3, <1>6 DEF Grows, Known
<1>8. HeldUntilAccepted'
  BY <1>3, <1>5, <1>6, <1>7, HeldByStep
<1>9. allowed' \subseteq Promotion
  BY <1>3 DEF Memories
<1>10. PICK todo \in SUBSET Promotion : todo = k.todo \ {old}
  BY <1>4
<1>11. PICK j \in Call : j = SupersedeAll(k.p, todo)
  BY <1>4, <1>10, CallTypes
<1>12. CallOK(j)
  <2>1. j = Idle \/ j = [step |-> "supersede", p |-> k.p, todo |-> todo]
    BY <1>11 DEF SupersedeAll
  <2> QED BY <2>1, <1>5, <1>10 DEF CallOK, Idle
<1>13. CallOK(j)'
  BY <1>7, <1>12, CallStaysOK
<1>14. call' = [call EXCEPT ![m] = j]
  BY <1>2, <1>10, <1>11
<1>15. Memories'
  BY <1>6, <1>7, <1>8, <1>9, <1>13, <1>14, CallGoesOn
<1> QED BY <1>15, <1>5, <1>6

(* A rollback brings back only what was superseded, hence allowed. *)
LEMMA AppendRollbackKeeps ==
  ASSUME Memories, NEW m \in Manager, AppendRollback(m)
  PROVE  Memories'
<1>1. PICK k \in Call : k = call[m]
  BY DEF Memories
<1>2. k.step = "rollback" /\ memory' = RolledBack(k.p)
        /\ call' = [call EXCEPT ![m] = Idle] /\ UNCHANGED allowed
  BY <1>1 DEF AppendRollback
<1>3. k.p \in Promotion
  BY <1>2 DEF Call, Idle
<1>4. Known(k.p)
  <2>1. CallOK(k)
    BY <1>1 DEF Memories
  <2> QED BY <2>1, <1>2 DEF CallOK
<1>5. /\ memory' \in Projection
      /\ \A q \in Promotion : Known(q) => memory'[q] # None /\ memory'[q].claim = memory[q].claim
      /\ memory'[k.p].status = "rolled_back"
      /\ \A q \in Promotion \ {k.p} :
           memory'[q] # memory[q] => HasStatus(q, "superseded") /\ memory'[q].status = "active"
  BY <1>2, <1>3, <1>4, RolledBackType DEF Memories
<1>6. Grows
  BY <1>2, <1>5 DEF Grows
<1>7. HeldUntilAccepted'
  <2>1. ASSUME NEW q \in Promotion, memory'[q] # memory[q],
               memory'[q].status \in {"active", "superseded"}
        PROVE  q \in allowed'
    <3>1. q # k.p
      BY <1>5, <2>1
    <3>2. HasStatus(q, "superseded")
      BY <3>1, <1>5, <2>1
    <3> QED BY <3>2, <1>2 DEF Memories, HeldUntilAccepted
  <2> QED BY <2>1, <1>6, HeldByStep
<1>8. allowed' \subseteq Promotion
  BY <1>2 DEF Memories
<1>9. CallOK(Idle)'
  BY DEF CallOK, Idle
<1> QED BY <1>2, <1>5, <1>6, <1>7, <1>8, <1>9, CallTypes, CallGoesOn

(* A call that is cut short is over; what it appended stays. *)
LEMMA AbortKeeps ==
  ASSUME Memories, NEW m \in Manager, Abort(m)
  PROVE  Memories'
<1>1. CallOK(Idle)
  BY DEF CallOK, Idle
<1> QED BY <1>1, CallTypes, ThreadUnchanged DEF Abort

(* Every action keeps the part of Inv about memories and calls. *)
LEMMA NextKeepsMemories ==
  ASSUME Memories, [Next]_vars
  PROVE  Memories'
<1>1. CASE UNCHANGED vars
  BY <1>1 DEF vars, Memories, HeldUntilAccepted, Active, HasStatus, Known, CallOK, ClaimOf
<1>2. ASSUME NEW m \in Manager, NEW a \in Agent,
             \/ CreateFleet(m, a)
             \/ \E b \in Agent, tier \in Tier :
                  EnrollAgent(m, a, b, tier) \/ AssignTrust(m, a, b, tier)
      PROVE  Memories'
  <2>1. PICK b \in Agent, tier \in Tier : Govern(m, b, tier)
    BY <1>2 DEF CreateFleet, EnrollAgent, AssignTrust, Tier
  <2> QED BY <2>1, GovernKeeps
<1>3. ASSUME NEW m \in Manager, NEW a \in Agent, NEW p \in Promotion,
             NEW c \in Claims[p], NEW scope \in Scope, NEW confident \in BOOLEAN,
             Propose(m, a, p, c, scope, confident)
      PROVE  Memories'
  BY <1>3, FleetAssumption, ProposeKeeps
<1>4. ASSUME NEW m \in Manager, NEW a \in Agent, NEW p \in Promotion,
             (\E decision \in Decision : Review(m, a, p, decision)) \/ Rollback(m, a, p)
      PROVE  Memories'
  BY <1>4, ReviewKeeps, RollbackKeeps
<1>5. ASSUME NEW m \in Manager,
             \/ AppendTrust(m) \/ AppendPromotion(m) \/ AppendReview(m) \/ Resolve(m)
             \/ AppendSuperseded(m) \/ AppendRollback(m) \/ Abort(m)
      PROVE  Memories'
  BY <1>5, AppendTrustKeeps, AppendPromotionKeeps, AppendReviewKeeps, ResolveKeeps,
     AppendSupersededKeeps, AppendRollbackKeeps, AbortKeeps
<1> QED BY <1>1, <1>2, <1>3, <1>4, <1>5 DEF Next

(* The part of TypeOK about everything else. *)
Others ==
  /\ trust \in [Agent -> Tier \cup {None}]
  /\ governance \in 0..MaxGovernance
  /\ calls \in 0..MaxCalls
  /\ aborts \in 0..MaxAborts
  /\ rollbacks \in Nat
  /\ alone \in BOOLEAN

(* Every action keeps those types. *)
LEMMA NextKeepsOthers ==
  ASSUME Others, call \in [Manager -> Call], [Next]_vars
  PROVE  Others'
<1> USE FleetAssumption DEF Others
<1>1. CASE UNCHANGED vars
  BY <1>1 DEF vars, bounds
<1>2. ASSUME NEW m \in Manager, NEW a \in Agent, NEW tier \in Tier, Govern(m, a, tier)
      PROVE  Others'
  <2>1. governance < MaxGovernance /\ governance' = governance + 1
          /\ UNCHANGED <<trust, calls, aborts, rollbacks>>
    BY <1>2 DEF Govern
  <2>2. alone' \in BOOLEAN
    BY <1>2 DEF Govern, Start
  <2> QED BY <2>1, <2>2
<1>3. ASSUME NEW m \in Manager, NEW k, Decide(m, k)
      PROVE  Others'
  <2>1. calls < MaxCalls /\ calls' = calls + 1
          /\ UNCHANGED <<trust, governance, aborts, rollbacks>>
    BY <1>3 DEF Decide
  <2>2. alone' \in BOOLEAN
    BY <1>3 DEF Decide, Start
  <2> QED BY <2>1, <2>2
<1>4. ASSUME NEW m \in Manager, AppendTrust(m)
      PROVE  Others'
  <2>1. call[m] \in Call /\ call[m].step = "trust"
    BY <1>4 DEF AppendTrust
  <2>2. call[m].tier \in Tier
    BY <2>1 DEF Call, Idle
  <2>3. trust' = [trust EXCEPT ![call[m].agent] = call[m].tier]
          /\ UNCHANGED <<governance, calls, aborts, rollbacks, alone>>
    BY <1>4 DEF AppendTrust, bounds
  <2> QED BY <2>2, <2>3
<1>5. ASSUME NEW m \in Manager,
             AppendPromotion(m) \/ AppendReview(m) \/ Resolve(m) \/ AppendSuperseded(m)
      PROVE  Others'
  BY <1>5 DEF AppendPromotion, AppendReview, Resolve, AppendSuperseded, bounds
<1>6. ASSUME NEW m \in Manager, AppendRollback(m)
      PROVE  Others'
  BY <1>6 DEF AppendRollback, bounds
<1>7. ASSUME NEW m \in Manager, Abort(m)
      PROVE  Others'
  <2>1. aborts < MaxAborts /\ aborts' = aborts + 1
          /\ UNCHANGED <<trust, governance, calls, rollbacks>>
    BY <1>7 DEF Abort
  <2>2. alone' \in BOOLEAN
    BY <1>7 DEF Abort
  <2> QED BY <2>1, <2>2
<1>8. "steward" \in Tier
  BY DEF Tier
<1>9. ASSUME NEW m \in Manager, NEW a \in Agent,
             \/ CreateFleet(m, a)
             \/ \E b \in Agent, tier \in Tier :
                  EnrollAgent(m, a, b, tier) \/ AssignTrust(m, a, b, tier)
      PROVE  Others'
  BY <1>2, <1>8, <1>9 DEF CreateFleet, EnrollAgent, AssignTrust
<1>10. ASSUME NEW m \in Manager, NEW a \in Agent, NEW p \in Promotion,
              \/ \E c \in Claims[p], scope \in Scope, confident \in BOOLEAN :
                   Propose(m, a, p, c, scope, confident)
              \/ \E decision \in Decision : Review(m, a, p, decision)
              \/ Rollback(m, a, p)
       PROVE  Others'
  BY <1>3, <1>10 DEF Propose, Review, Rollback
<1> QED BY <1>1, <1>4, <1>5, <1>6, <1>7, <1>9, <1>10 DEF Next

(* Inv in the two parts the steps are proved for. *)
LEMMA InvParts == Inv <=> Memories /\ Others
<1>1. Inv => Memories /\ Others
  BY DEF Inv, TypeOK, Memories, Others, Projection
<1>2. Memories /\ Others => Inv
  BY DEF Inv, TypeOK, Memories, Others, Projection, CallOK
<1> QED BY <1>1, <1>2

(* Inv holds in an empty thread. *)
LEMMA InitInv == Init => Inv
<1> SUFFICES ASSUME Init PROVE Memories /\ Others
  BY InvParts
<1>1. Others
  BY FleetAssumption DEF Init, Others
<1>2. \A m \in Manager : call[m] = Idle
  BY DEF Init
<1>3. \A m \in Manager : CallOK(call[m])
  BY <1>2 DEF CallOK, Idle
<1>4. memory \in Projection /\ allowed \subseteq Promotion
  BY DEF Init, Projection
<1>5. call \in [Manager -> Call]
  BY CallTypes DEF Init
<1>6. HeldUntilAccepted
  BY DEF Init, HeldUntilAccepted, Active, HasStatus, Known
<1> QED BY <1>1, <1>3, <1>4, <1>5, <1>6 DEF Memories

(* Inv is inductive. *)
LEMMA NextInv == Inv /\ [Next]_vars => Inv'
<1> SUFFICES ASSUME Inv, [Next]_vars PROVE Inv'
  OBVIOUS
<1>1. Memories /\ Others
  BY InvParts
<1>2. Memories'
  BY <1>1, NextKeepsMemories
<1>3. Others'
  BY <1>1, NextKeepsOthers DEF Memories
<1> QED BY <1>2, <1>3, InvParts, PTL

(* The invariant of every behaviour of the fleet. *)
THEOREM InvHolds == Spec => []Inv
BY InitInv, NextInv, PTL DEF Spec

(* Type correctness, and calls only about promotions in the thread. *)
THEOREM TypeCorrect == Spec => []TypeOK
<1>1. Inv => TypeOK
  BY DEF Inv
<1> QED BY <1>1, InvHolds, PTL

(* A held promotion takes effect only once a steward has accepted it,      *)
(* however many managers race.                                             *)
THEOREM HeldPromotionsWait == Spec => []HeldUntilAccepted
<1>1. Inv => HeldUntilAccepted
  BY DEF Inv
<1> QED BY <1>1, InvHolds, PTL

(* Memory p is a keystone in effect. *)
Stands(p) == Active(p) /\ ClaimOf(p).keystone

(* What may happen to it in one step. *)
KeystoneStep(p) ==
  Stands(p) /\ memory'[p] # memory[p] => memory'[p].status \in {"rejected", "deferred", "rolled_back"}

(* A promotion that is in the thread already changes nothing. *)
LEMMA AppendPromotionSparesKeystones ==
  ASSUME Memories, NEW m \in Manager, AppendPromotion(m), NEW p \in Promotion
  PROVE  KeystoneStep(p)
<1>1. PICK k \in Call : k = call[m]
  BY DEF Memories
<1>2. k.step = "promote" /\ memory' = Promoted(k.p, k.claim, k.actor, k.auto)
  BY <1>1 DEF AppendPromotion
<1>3. k.p \in Promotion /\ k.claim \in Claim /\ k.actor \in Agent /\ k.auto \in BOOLEAN
  BY <1>2 DEF Call, Idle
<1>4. \A q \in Promotion : Known(q) => memory'[q] = memory[q]
  BY <1>2, <1>3, PromotedType DEF Memories
<1> QED BY <1>4 DEF KeystoneStep, Stands, Active, HasStatus

(* A steward's review is an explicit decision, and acceptance of what is   *)
(* active already is none.                                                 *)
LEMMA AppendReviewSparesKeystones ==
  ASSUME Memories, NEW m \in Manager, AppendReview(m), NEW p \in Promotion
  PROVE  KeystoneStep(p)
<1>1. PICK k \in Call : k = call[m]
  BY DEF Memories
<1>2. k.step = "review" /\ memory' = Reviewed(k.p, k.decision)
  BY <1>1 DEF AppendReview
<1>3. k.p \in Promotion /\ k.decision \in Decision
  BY <1>2 DEF Call, Idle
<1>4. Known(k.p)
  <2>1. CallOK(k)
    BY <1>1 DEF Memories
  <2> QED BY <2>1, <1>2 DEF CallOK
<1>5. /\ memory'[k.p].status = IF k.decision = "accepted" THEN "active" ELSE k.decision
      /\ \A q \in Promotion \ {k.p} : memory'[q] = memory[q]
  BY <1>2, <1>3, <1>4, ReviewedType DEF Memories
<1>6. CASE p # k.p
  BY <1>5, <1>6 DEF KeystoneStep
<1>7. CASE p = k.p /\ k.decision # "accepted"
  BY <1>3, <1>5, <1>7 DEF KeystoneStep, Decision
<1>8. CASE p = k.p /\ k.decision = "accepted" /\ Active(p)
  <2>1. memory[p] \in Memory /\ memory[p].status = "active"
    BY <1>8, KnownIsMemory DEF Active, HasStatus, Memories
  <2>2. [memory[p] EXCEPT !.status = "active"] = memory[p]
    BY ONLY <2>1 DEF Memory
  <2>3. memory' = [memory EXCEPT ![p] = [memory[p] EXCEPT !.status = "active"]]
    BY <1>2, <1>8 DEF Reviewed
  <2>4. memory'[p] = memory[p]
    BY <2>2, <2>3 DEF Memories, Projection
  <2> QED BY <2>4 DEF KeystoneStep
<1> QED BY <1>6, <1>7, <1>8 DEF KeystoneStep, Stands

(* A rollback of something else touches superseded memories only. *)
LEMMA AppendRollbackSparesKeystones ==
  ASSUME Memories, NEW m \in Manager, AppendRollback(m), NEW p \in Promotion
  PROVE  KeystoneStep(p)
<1>1. PICK k \in Call : k = call[m]
  BY DEF Memories
<1>2. k.step = "rollback" /\ memory' = RolledBack(k.p)
  BY <1>1 DEF AppendRollback
<1>3. k.p \in Promotion
  BY <1>2 DEF Call, Idle
<1>4. Known(k.p)
  <2>1. CallOK(k)
    BY <1>1 DEF Memories
  <2> QED BY <2>1, <1>2 DEF CallOK
<1>5. /\ memory'[k.p].status = "rolled_back"
      /\ \A q \in Promotion \ {k.p} : memory'[q] # memory[q] => HasStatus(q, "superseded")
  BY <1>2, <1>3, <1>4, RolledBackType DEF Memories
<1> QED BY <1>5 DEF KeystoneStep, Stands, Active, HasStatus

(* A keystone in effect yields only to a steward's decision against it or  *)
(* to its own rollback, whatever other managers do between the check and   *)
(* the append of a supersession.                                           *)
THEOREM KeystonesStand == Spec => KeystoneStands
<1>1. ASSUME Inv, [Next]_vars, NEW p \in Promotion
      PROVE  KeystoneStep(p)
  <2>1. Memories
    BY <1>1, InvParts
  <2>2. CASE UNCHANGED memory
    BY <2>2 DEF KeystoneStep
  <2>3. ASSUME NEW m \in Manager, AppendSuperseded(m)
        PROVE  KeystoneStep(p)
    BY <2>1, <2>3, AppendSupersededKeeps DEF KeystoneStep, Stands
  <2>4. ASSUME NEW m \in Manager,
               AppendPromotion(m) \/ AppendReview(m) \/ AppendRollback(m)
        PROVE  KeystoneStep(p)
    BY <2>1, <2>4, AppendPromotionSparesKeystones, AppendReviewSparesKeystones,
       AppendRollbackSparesKeystones
  <2>5. \/ UNCHANGED memory
        \/ \E m \in Manager : AppendSuperseded(m)
        \/ \E m \in Manager : AppendPromotion(m) \/ AppendReview(m) \/ AppendRollback(m)
    <3>1. ASSUME NEW m \in Manager, NEW a \in Agent, NEW tier, Govern(m, a, tier)
          PROVE  UNCHANGED memory
      BY <3>1 DEF Govern
    <3>2. ASSUME NEW m \in Manager, NEW k, Decide(m, k)
          PROVE  UNCHANGED memory
      BY <3>2 DEF Decide
    <3>3. ASSUME NEW m \in Manager, NEW a \in Agent,
                 \/ CreateFleet(m, a)
                 \/ \E b \in Agent, tier \in Tier :
                      EnrollAgent(m, a, b, tier) \/ AssignTrust(m, a, b, tier)
          PROVE  UNCHANGED memory
      BY <3>1, <3>3 DEF CreateFleet, EnrollAgent, AssignTrust
    <3>4. ASSUME NEW m \in Manager, NEW a \in Agent, NEW q \in Promotion,
                 \/ \E c \in Claims[q], scope \in Scope, confident \in BOOLEAN :
                      Propose(m, a, q, c, scope, confident)
                 \/ \E decision \in Decision : Review(m, a, q, decision)
                 \/ Rollback(m, a, q)
          PROVE  UNCHANGED memory
      BY <3>2, <3>4 DEF Propose, Review, Rollback
    <3>5. ASSUME NEW m \in Manager, AppendTrust(m) \/ Resolve(m) \/ Abort(m)
          PROVE  UNCHANGED memory
      BY <3>5 DEF AppendTrust, Resolve, Abort
    <3>6. CASE UNCHANGED vars
      BY <3>6 DEF vars
    <3> QED BY <1>1, <3>3, <3>4, <3>5, <3>6 DEF Next
  <2> QED BY <2>2, <2>3, <2>4, <2>5
<1>2. Inv /\ [Next]_vars =>
        [\A p \in Promotion :
           Active(p) /\ ClaimOf(p).keystone /\ memory'[p] # memory[p]
             => memory'[p].status \in {"rejected", "deferred", "rolled_back"}]_vars
  BY <1>1 DEF KeystoneStep, Stands
<1> QED BY <1>2, InvHolds, PTL DEF Spec, KeystoneStands

-----------------------------------------------------------------------------
(* Why conflicts are settled.  The next invariant is of behaviours in      *)
(* which no call has overlapped another or was cut short.                  *)

(* At most one manager is in a call. *)
OneCall == \A m, n \in Manager : call[m] # Idle /\ call[n] # Idle => m = n

(* What a call is to supersede, and what for, are all in effect. *)
Sound(k) ==
  k.step = "supersede" =>
    /\ Active(k.p)
    /\ k.p \notin k.todo
    /\ \A q \in k.todo : Active(q)

(* Two memories in effect that must not stay so. *)
Open(p, q) ==
  /\ Active(p)
  /\ Active(q)
  /\ Conflict(ClaimOf(p), ClaimOf(q))
  /\ ~ ClaimOf(p).keystone
  /\ ~ ClaimOf(q).keystone

(* The call k is about to settle the conflict of p and q. *)
InHand(k, p, q) ==
  \/ k.step = "resolve" /\ (k.p = p \/ k.p = q)
  \/ k.step = "supersede" /\ k.p = p /\ q \in k.todo
  \/ k.step = "supersede" /\ k.p = q /\ p \in k.todo

(* What was superseded names its winner... *)
WinnerNamed == \A q \in Promotion : HasStatus(q, "superseded") => memory[q].by \in Promotion

(* ...which was not rolled back since. *)
WinnerStands ==
  \A q \in Promotion : HasStatus(q, "superseded") => ~ HasStatus(memory[q].by, "rolled_back")

(* Until a rollback, each open conflict is in hand. *)
ConflictsInHand ==
  rollbacks = 0 =>
    \A p, q \in Promotion : Open(p, q) => \E m \in Manager : InHand(call[m], p, q)

(* The inductive invariant behind ConflictsSettled and ChangesJustified. *)
SettledInv ==
  /\ WinnerNamed
  /\ alone => /\ OneCall
              /\ \A m \in Manager : Sound(call[m])
              /\ WinnerStands
              /\ ConflictsInHand

(* What a step does to a memory p, if calls do not overlap. *)
Justified == alone' => \A p \in Promotion :
                         memory'[p] # memory[p] => DecisionStands(p) /\ GivesWayToActive(p)

(* In such a behaviour the call that is in progress is the only one, and   *)
(* all that is open is in its hand.                                        *)
LEMMA OnlyCall ==
  ASSUME SettledInv, alone, NEW m \in Manager, call[m] # Idle
  PROVE  /\ \A n \in Manager \ {m} : call[n] = Idle
         /\ Sound(call[m])
         /\ WinnerStands
         /\ rollbacks = 0 => \A p, q \in Promotion : Open(p, q) => InHand(call[m], p, q)
<1>1. \A n \in Manager \ {m} : call[n] = Idle
  BY DEF SettledInv, OneCall
<1>2. ASSUME NEW p \in Promotion, NEW q \in Promotion, NEW n \in Manager,
             InHand(call[n], p, q)
      PROVE  n = m
  <2>1. call[n] # Idle
    BY <1>2 DEF InHand, Idle
  <2> QED BY <2>1, <1>1
<1>3. rollbacks = 0 => \A p, q \in Promotion : Open(p, q) => InHand(call[m], p, q)
  BY <1>2 DEF SettledInv, ConflictsInHand
<1> QED BY <1>1, <1>3 DEF SettledInv

(* What such a call must show to go on as j. *)
LEMMA CallSettles ==
  ASSUME SettledInv, call \in [Manager -> Call], NEW m \in Manager, call[m] # Idle,
         NEW j \in Call, call' = [call EXCEPT ![m] = j],
         alone' => alone, WinnerNamed', alone' => Sound(j)' /\ WinnerStands',
         alone' /\ rollbacks' = 0 =>
           \A p, q \in Promotion : Open(p, q)' => InHand(j, p, q)
  PROVE  SettledInv'
<1> SUFFICES ASSUME alone'
             PROVE  OneCall' /\ (\A n \in Manager : Sound(call[n])') /\ ConflictsInHand'
  BY DEF SettledInv
<1>1. \A n \in Manager \ {m} : call[n] = Idle
  BY OnlyCall
<1>2. call'[m] = j /\ \A n \in Manager \ {m} : call'[n] = Idle
  BY <1>1
<1>3. OneCall'
  BY <1>2 DEF OneCall, Idle
<1>4. ASSUME NEW n \in Manager
      PROVE  Sound(call[n])'
  <2>1. PICK i : i = call'[n]
    OBVIOUS
  <2>2. i = j \/ i = Idle
    BY <1>2, <2>1
  <2>3. Sound(i)'
    BY <2>2 DEF Sound, Idle
  <2> QED BY <2>1, <2>3 DEF Sound
<1>5. ConflictsInHand'
  BY <1>2 DEF ConflictsInHand, InHand
<1> QED BY <1>3, <1>4, <1>5

(* The promotion event: what it brings into effect is looked into next,    *)
(* unless it has no conflict key.                                          *)
LEMMA AppendPromotionSettles ==
  ASSUME Memories, SettledInv, NEW m \in Manager, AppendPromotion(m)
  PROVE  SettledInv' /\ Justified
<1>1. PICK k \in Call : k = call[m]
  BY DEF Memories
<1>2. /\ k.step = "promote"
      /\ memory' = Promoted(k.p, k.claim, k.actor, k.auto)
      /\ call' = [call EXCEPT ![m] = IF k.auto THEN AndResolve(k.p, k.claim) ELSE Idle]
      /\ UNCHANGED <<rollbacks, alone>>
  BY <1>1 DEF AppendPromotion
<1>3. k.p \in Promotion /\ k.claim \in Claim /\ k.actor \in Agent /\ k.auto \in BOOLEAN
  BY <1>2 DEF Call, Idle
<1>4. /\ \A q \in Promotion : Known(q) => memory'[q] = memory[q]
      /\ \A q \in Promotion \ {k.p} : memory'[q] = memory[q]
      /\ ~ Known(k.p) => /\ memory'[k.p].status = IF k.auto THEN "active" ELSE "pending"
                         /\ memory'[k.p].claim = k.claim
  BY <1>2, <1>3, PromotedType DEF Memories
<1>5. PICK j \in Call : j = IF k.auto THEN AndResolve(k.p, k.claim) ELSE Idle
  BY <1>3, CallTypes
<1>6. call[m] # Idle
  BY <1>1, <1>2 DEF Idle
<1>7. ASSUME NEW q \in Promotion, HasStatus(q, "superseded")'
      PROVE  memory'[q] = memory[q] /\ HasStatus(q, "superseded")
  <2>1. memory'[q].status = "superseded"
    BY <1>7 DEF HasStatus
  <2>2. memory'[q] = memory[q]
    BY <1>4, <2>1
  <2> QED BY <2>2, <1>7 DEF HasStatus, Known
<1>8. WinnerNamed'
  BY <1>7 DEF SettledInv, WinnerNamed
<1>9. alone' => Sound(j)' /\ WinnerStands'
  <2>1. Sound(j)'
    BY <1>5 DEF Sound, AndResolve, Idle
  <2>2. ASSUME alone, NEW q \in Promotion, HasStatus(q, "superseded")'
        PROVE  ~ HasStatus(memory[q].by, "rolled_back")'
    <3>1. PICK b \in Promotion : b = memory[q].by
      BY <1>7, <2>2 DEF SettledInv, WinnerNamed
    <3>2. ~ HasStatus(b, "rolled_back")
      BY <1>7, <2>2, <3>1 DEF SettledInv, WinnerStands
    <3>3. ~ HasStatus(b, "rolled_back")'
      BY <3>2, <1>4 DEF HasStatus, Known
    <3>4. b = memory'[q].by
      BY <3>1, <1>7, <2>2
    <3> QED BY <3>3, <3>4 DEF HasStatus, Known
  <2> QED BY <2>1, <2>2, <1>2 DEF WinnerStands
<1>10. ASSUME alone', rollbacks' = 0, NEW p \in Promotion, NEW q \in Promotion, Open(p, q)'
       PROVE  InHand(j, p, q)
  <2>1. ~ Open(p, q)
    BY <1>10, <1>1, <1>2, <1>6, OnlyCall DEF InHand
  <2>2. ~ Known(k.p) /\ k.auto /\ (p = k.p \/ q = k.p)
    BY <2>1, <1>4, <1>10 DEF Open, Active, HasStatus, ClaimOf, Known
  <2>3. k.claim.key # NoKey
    BY <2>2, <1>4, <1>10 DEF Open, Conflict, ClaimOf
  <2>4. j = [step |-> "resolve", p |-> k.p]
    BY <2>2, <2>3, <1>5 DEF AndResolve
  <2> QED BY <2>2, <2>4 DEF InHand
<1>11. SettledInv'
  BY <1>2, <1>5, <1>6, <1>8, <1>9, <1>10, CallSettles DEF Memories
<1>12. Justified
  BY <1>4 DEF Justified, DecisionStands, GivesWayToActive, Active, HasStatus
<1> QED BY <1>11, <1>12

(* The event of a review: the same of what it brings into effect. *)
LEMMA AppendReviewSettles ==
  ASSUME Memories, SettledInv, NEW m \in Manager, AppendReview(m)
  PROVE  SettledInv' /\ Justified
<1>1. PICK k \in Call : k = call[m]
  BY DEF Memories
<1>2. /\ k.step = "review"
      /\ memory' = Reviewed(k.p, k.decision)
      /\ call' = [call EXCEPT ![m] = IF k.decision = "accepted"
                                       THEN AndResolve(k.p, ClaimOf(k.p)) ELSE Idle]
      /\ UNCHANGED <<rollbacks, alone>>
  BY <1>1 DEF AppendReview
<1>3. k.p \in Promotion /\ k.decision \in Decision
  BY <1>2 DEF Call, Idle
<1>4. Known(k.p)
  <2>1. CallOK(k)
    BY <1>1 DEF Memories
  <2> QED BY <2>1, <1>2 DEF CallOK
<1>5. /\ memory'[k.p] # None
      /\ memory'[k.p].claim = memory[k.p].claim
      /\ memory'[k.p].status = IF k.decision = "accepted" THEN "active" ELSE k.decision
      /\ \A q \in Promotion \ {k.p} : memory'[q] = memory[q]
  BY <1>2, <1>3, <1>4, ReviewedType DEF Memories
<1>6. memory'[k.p].status \in {"active", "rejected", "deferred"}
        /\ (memory'[k.p].status = "active" => k.decision = "accepted")
  BY <1>3, <1>5 DEF Decision
<1>7. call[m] # Idle
  BY <1>1, <1>2 DEF Idle
<1>8. PICK j \in Call : j = IF k.decision = "accepted"
                              THEN AndResolve(k.p, ClaimOf(k.p)) ELSE Idle
  <2>1. ClaimOf(k.p) \in Claim
    BY <1>3, <1>4, KnownIsMemory DEF Memory, ClaimOf, Memories
  <2>2. AndResolve(k.p, ClaimOf(k.p)) \in Call
    BY <2>1, <1>3, CallTypes
  <2> QED BY <2>2, CallTypes
<1>9. ASSUME NEW q \in Promotion, HasStatus(q, "superseded")'
      PROVE  memory'[q] = memory[q] /\ HasStatus(q, "superseded")
  <2>1. memory'[q].status = "superseded"
    BY <1>9 DEF HasStatus
  <2>2. q # k.p
    BY <2>1, <1>6
  <2> QED BY <2>2, <1>5, <1>9 DEF HasStatus, Known
<1>10. WinnerNamed'
  BY <1>9 DEF SettledInv, WinnerNamed
<1>11. alone' => Sound(j)' /\ WinnerStands'
  <2>1. Sound(j)'
    BY <1>8 DEF Sound, AndResolve, Idle
  <2>2. ASSUME alone, NEW q \in Promotion, HasStatus(q, "superseded")'
        PROVE  ~ HasStatus(memory[q].by, "rolled_back")'
    <3>1. PICK b \in Promotion : b = memory[q].by
      BY <1>9, <2>2 DEF SettledInv, WinnerNamed
    <3>2. ~ HasStatus(b, "rolled_back")
      BY <1>9, <2>2, <3>1 DEF SettledInv, WinnerStands
    <3>3. ~ HasStatus(b, "rolled_back")'
      BY <3>2, <1>5, <1>6 DEF HasStatus, Known
    <3>4. b = memory'[q].by
      BY <3>1, <1>9, <2>2
    <3> QED BY <3>3, <3>4 DEF HasStatus, Known
  <2> QED BY <2>1, <2>2, <1>2 DEF WinnerStands
<1>12. ASSUME alone', rollbacks' = 0, NEW p \in Promotion, NEW q \in Promotion, Open(p, q)'
       PROVE  InHand(j, p, q)
  <2>1. ~ Open(p, q)
    BY <1>12, <1>1, <1>2, <1>7, OnlyCall DEF InHand
  <2>2. p = k.p \/ q = k.p
    BY <2>1, <1>5, <1>12 DEF Open, Active, HasStatus, ClaimOf, Known
  <2>3. k.decision = "accepted"
    BY <2>2, <1>6, <1>12 DEF Open, Active, HasStatus
  <2>4. ClaimOf(k.p).key # NoKey
    BY <2>2, <1>5, <1>12 DEF Open, Conflict, ClaimOf
  <2>5. j = [step |-> "resolve", p |-> k.p]
    BY <2>3, <2>4, <1>8 DEF AndResolve
  <2> QED BY <2>2, <2>5 DEF InHand
<1>13. SettledInv'
  BY <1>2, <1>7, <1>8, <1>10, <1>11, <1>12, CallSettles DEF Memories
<1>14. ASSUME NEW p \in Promotion, memory'[p] # memory[p]
       PROVE  DecisionStands(p) /\ GivesWayToActive(p)
  <2>1. p = k.p
    BY <1>14, <1>5
  <2> QED BY <2>1, <1>1, <1>2, <1>6 DEF DecisionStands, GivesWayToActive
<1> QED BY <1>13, <1>14 DEF Justified

(* _supersede_conflicts finds everything that is open. *)
LEMMA ResolveSettles ==
  ASSUME Memories, SettledInv, NEW m \in Manager, Resolve(m)
  PROVE  SettledInv'
<1>1. PICK k \in Call : k = call[m]
  BY DEF Memories
<1>2. PICK todo : todo = ToSupersede(k.p)
  OBVIOUS
<1>3. k.step = "resolve" /\ call' = [call EXCEPT ![m] = SupersedeAll(k.p, todo)]
        /\ UNCHANGED <<memory, rollbacks, alone>>
  BY <1>1, <1>2 DEF Resolve, bounds
<1>4. k.p \in Promotion
  BY <1>3 DEF Call, Idle
<1>5. /\ todo \in SUBSET Promotion
      /\ k.p \notin todo
      /\ \A q \in todo : Active(q)
      /\ todo # {} => Active(k.p)
  BY <1>2 DEF ToSupersede, ConflictingActives
<1>6. PICK j \in Call : j = SupersedeAll(k.p, todo)
  BY <1>4, <1>5, CallTypes
<1>7. call[m] # Idle
  BY <1>1, <1>3 DEF Idle
<1>8. WinnerNamed' /\ (alone' => WinnerStands')
  BY <1>3 DEF SettledInv, WinnerNamed, WinnerStands, HasStatus, Known
<1>9. Sound(j)'
  <2>1. j = Idle \/ (todo # {} /\ j = [step |-> "supersede", p |-> k.p, todo |-> todo])
    BY <1>6 DEF SupersedeAll
  <2>2. Sound(j)
    BY <2>1, <1>5 DEF Sound, Idle
  <2> QED BY <2>2, <1>3 DEF Sound, Active, HasStatus, Known
<1>10. ASSUME alone', rollbacks' = 0, NEW p \in Promotion, NEW q \in Promotion, Open(p, q)'
       PROVE  InHand(j, p, q)
  <2>1. Open(p, q)
    BY <1>10, <1>3 DEF Open, Active, HasStatus, ClaimOf, Known
  <2>2. k.p = p \/ k.p = q
    BY <2>1, <1>10, <1>1, <1>3, <1>7, OnlyCall DEF InHand
  <2>3. CASE k.p = p
    <3>1. q \in todo
      BY <2>1, <2>3, <1>2 DEF Open, ToSupersede, ConflictingActives, Conflict
    <3>2. j = [step |-> "supersede", p |-> k.p, todo |-> todo]
      BY <3>1, <1>6 DEF SupersedeAll
    <3> QED BY <3>1, <3>2, <2>3 DEF InHand
  <2>4. CASE k.p = q
    <3>1. p \in todo
      BY <2>1, <2>4, <1>2 DEF Open, ToSupersede, ConflictingActives, Conflict
    <3>2. j = [step |-> "supersede", p |-> k.p, todo |-> todo]
      BY <3>1, <1>6 DEF SupersedeAll
    <3> QED BY <3>1, <3>2, <2>4 DEF InHand
  <2> QED BY <2>2, <2>3, <2>4
<1> QED BY <1>3, <1>6, <1>7, <1>8, <1>9, <1>10, CallSettles DEF Memories

(* A supersession closes one conflict for a winner in effect. *)
LEMMA AppendSupersededSettles ==
  ASSUME Memories, SettledInv, NEW m \in Manager, AppendSuperseded(m)
  PROVE  SettledInv' /\ Justified
<1>1. PICK k \in Call : k = call[m]
  BY DEF Memories
<1>2. PICK old \in k.todo :
        /\ memory' = Superseded(old, k.p)
        /\ call' = [call EXCEPT ![m] = SupersedeAll(k.p, k.todo \ {old})]
  BY <1>1 DEF AppendSuperseded
<1>3. k.step = "supersede" /\ UNCHANGED <<rollbacks, alone>>
  BY <1>1 DEF AppendSuperseded
<1>4. k.p \in Promotion /\ k.todo \in SUBSET Promotion /\ old \in Promotion
  BY <1>2, <1>3 DEF Call, Idle
<1>5. Known(k.p) /\ \A q \in k.todo : Known(q)
  <2>1. CallOK(k)
    BY <1>1 DEF Memories
  <2> QED BY <2>1, <1>3 DEF CallOK
<1>6. /\ memory'[old] # None
      /\ memory'[old].status = "superseded"
      /\ memory'[old].by = k.p
      /\ \A q \in Promotion \ {old} : memory'[q] = memory[q]
  BY <1>2, <1>4, <1>5, SupersededType DEF Memories
<1>7. call[m] # Idle
  BY <1>1, <1>3 DEF Idle
<1>8. PICK todo \in SUBSET Promotion : todo = k.todo \ {old}
  BY <1>4
<1>9. PICK j \in Call : j = SupersedeAll(k.p, todo)
  BY <1>4, <1>8, CallTypes
<1>10. j = Idle \/ j = [step |-> "supersede", p |-> k.p, todo |-> todo]
  BY <1>9 DEF SupersedeAll
<1>11. alone => /\ Active(k.p) /\ k.p # old /\ \A q \in k.todo : Active(q)
                /\ Active(k.p)'
  <2>1. alone => Sound(k)
    BY <1>1 DEF SettledInv
  <2>2. alone => Active(k.p) /\ k.p # old /\ \A q \in k.todo : Active(q)
    BY <2>1, <1>2, <1>3 DEF Sound
  <2>3. alone => memory'[k.p] = memory[k.p]
    BY <2>2, <1>4, <1>6
  <2> QED BY <2>2, <2>3 DEF Active, HasStatus, Known
<1>12. WinnerNamed'
  BY <1>4, <1>6 DEF SettledInv, WinnerNamed, HasStatus, Known
<1>13. alone' => Sound(j)'
  <2>1. ASSUME alone, NEW q \in todo
        PROVE  Active(q)'
    <3>1. Active(q) /\ memory'[q] = memory[q]
      BY <2>1, <1>4, <1>6, <1>8, <1>11
    <3> QED BY <3>1 DEF Active, HasStatus, Known
  <2>2. alone => k.p \notin todo /\ Active(k.p)'
    BY <1>3, <1>11, <1>8, <1>1 DEF SettledInv, Sound
  <2> QED BY <2>1, <2>2, <1>3, <1>10 DEF Sound, Idle
<1>14. alone' => WinnerStands'
  <2>1. ASSUME alone, NEW q \in Promotion, HasStatus(q, "superseded")'
        PROVE  ~ HasStatus(memory[q].by, "rolled_back")'
    <3>1. CASE q = old
      <4>1. memory'[q].by = k.p
        BY <3>1, <1>6
      <4>2. memory'[k.p].status = "active"
        BY <2>1, <1>11 DEF Active, HasStatus
      <4> QED BY <4>1, <4>2 DEF HasStatus
    <3>2. CASE q # old
      <4>1. memory'[q] = memory[q] /\ HasStatus(q, "superseded")
        BY <2>1, <3>2, <1>6 DEF HasStatus, Known
      <4>2. PICK b \in Promotion : b = memory[q].by
        BY <4>1 DEF SettledInv, WinnerNamed
      <4>3. ~ HasStatus(b, "rolled_back")
        BY <4>1, <4>2, <2>1 DEF SettledInv, WinnerStands
      <4>4. memory'[b].status = "superseded" \/ memory'[b] = memory[b]
        BY <1>6
      <4>5. ~ HasStatus(b, "rolled_back")'
        BY <4>3, <4>4 DEF HasStatus, Known
      <4>6. b = memory'[q].by
        BY <4>1, <4>2
      <4> QED BY <4>5, <4>6 DEF HasStatus, Known
    <3> QED BY <3>1, <3>2
  <2> QED BY <2>1, <1>3 DEF WinnerStands
<1>15. ASSUME alone', rollbacks' = 0, NEW p \in Promotion, NEW q \in Promotion, Open(p, q)'
       PROVE  InHand(j, p, q)
  <2>1. p # old /\ q # old
    BY <1>6, <1>15 DEF Open, Active, HasStatus
  <2>2. Open(p, q)
    BY <2>1, <1>6, <1>15 DEF Open, Active, HasStatus, ClaimOf, Known
  <2>3. InHand(k, p, q)
    BY <2>2, <1>15, <1>1, <1>3, <1>7, OnlyCall
  <2>4. (k.p = p /\ q \in todo) \/ (k.p = q /\ p \in todo)
    BY <2>1, <2>3, <1>3, <1>8 DEF InHand
  <2>5. j = [step |-> "supersede", p |-> k.p, todo |-> todo]
    BY <2>4, <1>9 DEF SupersedeAll
  <2> QED BY <2>4, <2>5 DEF InHand
<1>16. call' = [call EXCEPT ![m] = j]
  BY <1>2, <1>8, <1>9
<1>17. SettledInv'
  BY <1>3, <1>7, <1>12, <1>13, <1>14, <1>15, <1>16, CallSettles DEF Memories
<1>18. ASSUME alone', NEW p \in Promotion, memory'[p] # memory[p]
       PROVE  DecisionStands(p) /\ GivesWayToActive(p)
  <2>1. p = old
    BY <1>18, <1>6
  <2>2. Active(p) /\ Active(k.p)
    BY <2>1, <1>3, <1>11, <1>18, <1>2
  <2> QED BY <2>1, <2>2, <1>6 DEF DecisionStands, GivesWayToActive, Active, HasStatus
<1> QED BY <1>17, <1>18 DEF Justified

(* A rollback brings back all that the memory had superseded. *)
LEMMA AppendRollbackSettles ==
  ASSUME Memories, Others, SettledInv, NEW m \in Manager, AppendRollback(m)
  PROVE  SettledInv' /\ Justified
<1>1. PICK k \in Call : k = call[m]
  BY DEF Memories
<1>2. k.step = "rollback" /\ memory' = RolledBack(k.p)
        /\ call' = [call EXCEPT ![m] = Idle] /\ UNCHANGED alone
        /\ rollbacks' = rollbacks + 1
  BY <1>1 DEF AppendRollback
<1>3. k.p \in Promotion
  BY <1>2 DEF Call, Idle
<1>4. Known(k.p)
  <2>1. CallOK(k)
    BY <1>1 DEF Memories
  <2> QED BY <2>1, <1>2 DEF CallOK
<1>5. /\ memory'[k.p].status = "rolled_back"
      /\ \A q \in Promotion \ {k.p} :
           /\ memory'[q] # memory[q] => HasStatus(q, "superseded") /\ memory'[q].status = "active"
           /\ HasStatus(q, "superseded") /\ memory[q].by = k.p => memory'[q].status = "active"
  BY <1>2, <1>3, <1>4, RolledBackType DEF Memories
<1>6. call[m] # Idle
  BY <1>1, <1>2 DEF Idle
<1>7. ASSUME NEW q \in Promotion, HasStatus(q, "superseded")'
      PROVE  memory'[q] = memory[q] /\ HasStatus(q, "superseded") /\ memory[q].by # k.p
  <2>1. memory'[q].status = "superseded"
    BY <1>7 DEF HasStatus
  <2>2. q # k.p
    BY <2>1, <1>5
  <2>3. memory'[q] = memory[q]
    BY <2>1, <2>2, <1>5
  <2>4. HasStatus(q, "superseded")
    BY <2>3, <1>7 DEF HasStatus, Known
  <2> QED BY <2>1, <2>2, <2>3, <2>4, <1>5
<1>8. WinnerNamed'
  BY <1>7 DEF SettledInv, WinnerNamed
<1>9. alone' => WinnerStands'
  <2>1. ASSUME alone, NEW q \in Promotion, HasStatus(q, "superseded")'
        PROVE  ~ HasStatus(memory[q].by, "rolled_back")'
    <3>1. PICK b \in Promotion : b = memory[q].by
      BY <1>7, <2>1 DEF SettledInv, WinnerNamed
    <3>2. ~ HasStatus(b, "rolled_back") /\ b # k.p
      BY <1>7, <2>1, <3>1 DEF SettledInv, WinnerStands
    <3>3. memory'[b] = memory[b] \/ memory'[b].status = "active"
      BY <3>2, <1>5
    <3>4. ~ HasStatus(b, "rolled_back")'
      BY <3>2, <3>3 DEF HasStatus, Known
    <3>5. b = memory'[q].by
      BY <3>1, <1>7, <2>1
    <3> QED BY <3>4, <3>5 DEF HasStatus, Known
  <2> QED BY <2>1, <1>2 DEF WinnerStands
<1>10. rollbacks' # 0
  BY <1>2 DEF Others
<1>11. Sound(Idle)'
  BY DEF Sound, Idle
<1>12. SettledInv'
  BY <1>2, <1>6, <1>8, <1>9, <1>10, <1>11, CallTypes, CallSettles DEF Memories
<1>13. ASSUME NEW p \in Promotion, memory'[p] # memory[p]
       PROVE  DecisionStands(p) /\ GivesWayToActive(p)
  <2>1. memory'[p].status # "superseded"
    BY <1>13, <1>5
  <2>2. DecisionStands(p)
    <3>1. CASE p = k.p
      BY <3>1, <1>1, <1>2 DEF DecisionStands
    <3>2. CASE p # k.p
      BY <3>2, <1>5, <1>13 DEF DecisionStands, HasStatus
    <3> QED BY <3>1, <3>2
  <2> QED BY <2>1, <2>2 DEF GivesWayToActive
<1> QED BY <1>12, <1>13 DEF Justified

(* A call that appends nothing about memories, and is not about to         *)
(* supersede, leaves all as it is when it ends.                            *)
LEMMA EndSettles ==
  ASSUME Memories, SettledInv, NEW m \in Manager, call[m] # Idle,
         alone' => alone /\ call[m].step \notin {"resolve", "supersede"},
         call' = [call EXCEPT ![m] = Idle], UNCHANGED <<memory, rollbacks>>
  PROVE  SettledInv'
<1>1. WinnerNamed' /\ (alone' => WinnerStands')
  BY DEF SettledInv, WinnerNamed, WinnerStands, HasStatus, Known
<1>2. ASSUME alone', rollbacks' = 0, NEW p \in Promotion, NEW q \in Promotion, Open(p, q)'
      PROVE  FALSE
  <2>1. Open(p, q)
    BY <1>2 DEF Open, Active, HasStatus, ClaimOf, Known
  <2> QED BY <2>1, <1>2, OnlyCall DEF InHand
<1>3. Sound(Idle)'
  BY DEF Sound, Idle
<1> QED BY <1>1, <1>2, <1>3, CallTypes, CallSettles DEF Memories

(* A call that starts: if it does not overlap another, nothing is open. *)
LEMMA StartSettles ==
  ASSUME Memories, SettledInv, NEW m \in Manager, NEW k \in Call, Start(m, k),
         k.step \notin {"resolve", "supersede"}, UNCHANGED <<memory, rollbacks>>
  PROVE  SettledInv'
<1>1. WinnerNamed' /\ (alone => WinnerStands')
  BY DEF SettledInv, WinnerNamed, WinnerStands, HasStatus, Known
<1>2. alone' => alone /\ \A n \in Manager : call[n] = Idle
  BY DEF Start
<1>3. call' = [call EXCEPT ![m] = k]
  BY DEF Start
<1>4. call'[m] = k /\ \A n \in Manager \ {m} : call'[n] = call[n]
  BY <1>3 DEF Memories
<1>5. alone' => OneCall'
  BY <1>2, <1>4 DEF OneCall, Idle
<1>6. ASSUME alone', NEW n \in Manager
      PROVE  Sound(call[n])'
  <2>1. PICK i : i = call'[n]
    OBVIOUS
  <2>2. i = k \/ i = Idle
    BY <1>2, <1>4, <1>6, <2>1
  <2>3. Sound(i)'
    BY <2>2 DEF Sound, Idle
  <2> QED BY <2>1, <2>3 DEF Sound
<1>7. ASSUME alone', rollbacks' = 0, NEW p \in Promotion, NEW q \in Promotion, Open(p, q)'
      PROVE  FALSE
  <2>1. Open(p, q)
    BY <1>7 DEF Open, Active, HasStatus, ClaimOf, Known
  <2>2. PICK n \in Manager : InHand(call[n], p, q)
    BY <2>1, <1>2, <1>7 DEF SettledInv, ConflictsInHand
  <2> QED BY <2>2, <1>2, <1>7 DEF InHand, Idle
<1> QED BY <1>1, <1>2, <1>5, <1>6, <1>7 DEF SettledInv, ConflictsInHand

(* SettledInv holds in an empty thread. *)
LEMMA InitSettled == Init => SettledInv
BY DEF Init, SettledInv, WinnerNamed, WinnerStands, OneCall, Sound, ConflictsInHand, Open,
       Active, HasStatus, Known, Idle

(* What is no append about memories leaves them as they are. *)
LEMMA OtherStepsSettle ==
  ASSUME Memories, SettledInv,
         [\E m \in Manager :
            \/ \E a \in Agent :
                 \/ CreateFleet(m, a)
                 \/ \E b \in Agent, tier \in Tier :
                      EnrollAgent(m, a, b, tier) \/ AssignTrust(m, a, b, tier)
                 \/ \E p \in Promotion :
                      \/ \E c \in Claims[p], scope \in Scope, confident \in BOOLEAN :
                           Propose(m, a, p, c, scope, confident)
                      \/ \E decision \in Decision : Review(m, a, p, decision)
                      \/ Rollback(m, a, p)
            \/ AppendTrust(m)
            \/ Abort(m)]_vars
  PROVE  SettledInv' /\ Justified
<1>1. CASE UNCHANGED vars
  BY <1>1 DEF vars, bounds, SettledInv, WinnerNamed, WinnerStands, OneCall, Sound,
              ConflictsInHand, InHand, Open, Active, HasStatus, Known, ClaimOf, Justified
<1>2. UNCHANGED memory => Justified
  BY DEF Justified
<1>3. ASSUME NEW m \in Manager, NEW a \in Agent, NEW tier \in Tier, Govern(m, a, tier)
      PROVE  SettledInv' /\ Justified
  <2> DEFINE k == [step |-> "trust", agent |-> a, tier |-> tier]
  <2>1. k \in Call /\ k.step = "trust"
    BY DEF Call
  <2>2. Start(m, k) /\ UNCHANGED <<memory, rollbacks>>
    BY <1>3 DEF Govern
  <2> HIDE DEF k
  <2> QED BY <2>1, <2>2, <1>2, StartSettles
<1>4. ASSUME NEW m \in Manager, NEW k \in Call, k.step \in {"promote", "review", "rollback"},
             Decide(m, k)
      PROVE  SettledInv' /\ Justified
  <2>1. Start(m, k) /\ UNCHANGED <<memory, rollbacks>>
    BY <1>4 DEF Decide
  <2> QED BY <2>1, <1>2, <1>4, StartSettles
<1>5. ASSUME NEW m \in Manager, NEW a \in Agent,
             \/ CreateFleet(m, a)
             \/ \E b \in Agent, tier \in Tier :
                  EnrollAgent(m, a, b, tier) \/ AssignTrust(m, a, b, tier)
      PROVE  SettledInv' /\ Justified
  <2>1. "steward" \in Tier
    BY DEF Tier
  <2> QED BY <1>3, <1>5, <2>1 DEF CreateFleet, EnrollAgent, AssignTrust
<1>6. ASSUME NEW m \in Manager, NEW a \in Agent, NEW p \in Promotion,
             NEW c \in Claims[p], NEW scope \in Scope, NEW confident \in BOOLEAN,
             Propose(m, a, p, c, scope, confident)
      PROVE  SettledInv' /\ Justified
  <2>1. PICK auto \in BOOLEAN :
          Decide(m, [step |-> "promote", p |-> p, claim |-> c, actor |-> a, auto |-> auto])
    BY <1>6 DEF Propose
  <2> DEFINE k == [step |-> "promote", p |-> p, claim |-> c, actor |-> a, auto |-> auto]
  <2>2. k \in Call /\ k.step = "promote"
    BY FleetAssumption DEF Call
  <2>3. Decide(m, k)
    BY <2>1
  <2> HIDE DEF k
  <2> QED BY <2>2, <2>3, <1>4
<1>7. ASSUME NEW m \in Manager, NEW a \in Agent, NEW p \in Promotion, NEW decision \in Decision,
             Review(m, a, p, decision)
      PROVE  SettledInv' /\ Justified
  <2> DEFINE k == [step |-> "review", p |-> p, decision |-> decision]
  <2>1. k \in Call /\ k.step = "review"
    BY DEF Call
  <2>2. Decide(m, k)
    BY <1>7 DEF Review
  <2> HIDE DEF k
  <2> QED BY <2>1, <2>2, <1>4
<1>8. ASSUME NEW m \in Manager, NEW a \in Agent, NEW p \in Promotion, Rollback(m, a, p)
      PROVE  SettledInv' /\ Justified
  <2> DEFINE k == [step |-> "rollback", p |-> p]
  <2>1. k \in Call /\ k.step = "rollback"
    BY DEF Call
  <2>2. Decide(m, k)
    BY <1>8 DEF Rollback
  <2> HIDE DEF k
  <2> QED BY <2>1, <2>2, <1>4
<1>9. ASSUME NEW m \in Manager, AppendTrust(m) \/ Abort(m)
      PROVE  SettledInv' /\ Justified
  <2>1. call[m] # Idle
    BY <1>9 DEF AppendTrust, Abort, Idle
  <2>2. call' = [call EXCEPT ![m] = Idle] /\ UNCHANGED <<memory, rollbacks>>
    BY <1>9 DEF AppendTrust, Abort
  <2>3. alone' => alone /\ call[m].step \notin {"resolve", "supersede"}
    BY <1>9 DEF AppendTrust, Abort
  <2> QED BY <2>1, <2>2, <2>3, <1>2, EndSettles
<1> QED BY <1>1, <1>5, <1>6, <1>7, <1>8, <1>9

(* SettledInv is inductive, given Inv. *)
LEMMA NextSettled ==
  ASSUME Memories, Others, SettledInv, [Next]_vars
  PROVE  SettledInv' /\ Justified
<1>1. ASSUME NEW m \in Manager, AppendPromotion(m) \/ AppendReview(m)
      PROVE  SettledInv' /\ Justified
  BY <1>1, AppendPromotionSettles, AppendReviewSettles
<1>2. ASSUME NEW m \in Manager, Resolve(m)
      PROVE  SettledInv' /\ Justified
  <2>1. Justified
    BY <1>2 DEF Justified, Resolve
  <2> QED BY <1>2, <2>1, ResolveSettles
<1>3. ASSUME NEW m \in Manager, AppendSuperseded(m) \/ AppendRollback(m)
      PROVE  SettledInv' /\ Justified
  BY <1>3, AppendSupersededSettles, AppendRollbackSettles
<1> QED BY <1>1, <1>2, <1>3, OtherStepsSettle DEF Next

(* Without overlaps and deaths between two appends, conflicts are settled. *)
THEOREM SettledHolds == Spec => []SettledInv
<1>1. Inv /\ SettledInv /\ [Next]_vars => SettledInv'
  BY InvParts, NextSettled
<1> QED BY <1>1, InvHolds, InitSettled, PTL DEF Spec

(* Between calls every key has the values that promotions and rollbacks    *)
(* leave it: nothing stays superseded by what was rolled back, and no two  *)
(* memories that conflict are both in effect, keystones aside, until       *)
(* something is rolled back.                                               *)
THEOREM SettlesConflicts == Spec => []ConflictsSettled
<1>1. SettledInv => ConflictsSettled
  <2>1. SettledInv => RollbackRestores
    BY DEF SettledInv, WinnerStands, RollbackRestores
  <2>2. SettledInv => ConflictsResolvedForward
    BY DEF SettledInv, ConflictsInHand, InHand, Idle, Open, ConflictsResolvedForward, Quiet,
           Resolved
  <2> QED BY <2>1, <2>2 DEF ConflictsSettled
<1> QED BY <1>1, SettledHolds, PTL

(* A memory comes into effect again, or goes out of it, only by a decision *)
(* or for a memory in effect, as long as calls do not overlap.             *)
THEOREM ChangesAreJustified == Spec => ChangesJustified
<1>1. Inv /\ SettledInv /\ [Next]_vars =>
        [alone' => \A p \in Promotion :
                     memory'[p] # memory[p] => DecisionStands(p) /\ GivesWayToActive(p)]_vars
  BY InvParts, NextSettled DEF Justified
<1> QED BY <1>1, InvHolds, SettledHolds, PTL DEF Spec, ChangesJustified
=============================================================================

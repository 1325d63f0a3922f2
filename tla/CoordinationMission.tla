------------------------ MODULE CoordinationMission ------------------------
(***************************************************************************)
(* A coordination mission (coordination.py): workers report findings to    *)
(* logs of their own; coordinators review and promote them in the log of   *)
(* the parent session.  All state is in the logs; each process folds what  *)
(* it has read, and appends later, without a lock in between.  One append  *)
(* is one step (AppendOnlyLog).                                            *)
(*                                                                         *)
(* A call is split between its last read and each of its appends.  Review  *)
(* statuses other than "accepted" are alike to every guard of the code.    *)
(***************************************************************************)
EXTENDS Integers, Sequences, FiniteSets

CONSTANTS
  Process,      \* processes of coordinators and of workers' agents
  Worker,
  Name,         \* finding ids a caller may pass instead of the default
  Claim,        \* what a finding says: [key, value, cited]
  NoKey,        \* the key of a claim that names none
  Status,       \* REVIEW_STATUSES
  Batches,      \* bound: what batches of decisions say of their findings
  MaxReports,   \* bound: findings reported
  MaxCalls,     \* bound: reviews, promotions, batches, conflict recordings
  MaxAborts     \* bound: calls cut between two appends

(* A caller's id is none of the ids that report_finding makes up, and a    *)
(* batch of no decisions, which does nothing, is not a batch.              *)
ASSUME MissionAssumption ==
  /\ Name \cap (Worker \X Nat) = {}
  /\ \A b \in Batches :
       b # <<>> /\ b \in Seq([status : Status, promote : BOOLEAN, force : BOOLEAN])
  /\ Claim \subseteq [key : {c.key : c \in Claim}, value : {c.value : c \in Claim}, cited : BOOLEAN]
  /\ "accepted" \in Status
  /\ {MaxReports, MaxCalls, MaxAborts} \subseteq Nat

VARIABLES
  parent,    \* the parent log: its coordination events
  worklog,   \* worklog[w]: the findings of worker w, in the order of its log
  call,      \* what is in the hand of each process
  reports, calls, aborts,   \* what the bounds count
  raced,     \* history: the kinds of calls of which two have overlapped
  reused,    \* history: an id was passed that a finding had already
  stranded   \* history: a batch was refused after it had appended

bounds == <<reports, calls, aborts>>
history == <<raced, reused, stranded>>
vars == <<parent, worklog, call, reports, calls, aborts, raced, reused, stranded>>

Idle == [step |-> "idle"]
-----------------------------------------------------------------------------
(* The fold of the logs. *)

Occurs(type) == {i \in DOMAIN parent : parent[i].type = type}

Registered == {parent[i].worker : i \in Occurs("worker")}

(* _workers: in the order in which they were created. *)
Rank(w) == CHOOSE i \in Occurs("worker") : parent[i].worker = w

(* The findings of registered workers, by worker and place in its log. *)
Found == UNION {{w} \X DOMAIN worklog[w] : w \in Registered}
Finding(s) == worklog[s[1]][s[2]]
Holders(id) == {s \in Found : Finding(s).id = id}

(* Mutation of First: the ids are not compared. *)
First_Any(id) ==
  CHOOSE s \in Found :
    \A t \in Found : Rank(s[1]) < Rank(t[1]) \/ (s[1] = t[1] /\ s[2] <= t[2])

(* _find_finding: the first of that id. *)
First(id) ==
  CHOOSE s \in Holders(id) :
    \A t \in Holders(id) : Rank(s[1]) < Rank(t[1]) \/ (s[1] = t[1] /\ s[2] <= t[2])

PromotedIds == {parent[i].id : i \in Occurs("promoted")}

ReviewsOf(id) == {i \in Occurs("reviewed") : parent[i].id = id}

(* Mutation of Reviewed: once accepted, always accepted. *)
Reviewed_Once(id) ==
  IF \E i \in ReviewsOf(id) : parent[i].status = "accepted" THEN "accepted" ELSE "pending"

(* _reviews: the last review of a finding counts. *)
Reviewed(id) ==
  IF ReviewsOf(id) = {}
    THEN "pending"
    ELSE parent[CHOOSE i \in ReviewsOf(id) : \A j \in ReviewsOf(id) : j <= i].status

(* _worker_findings: what is promoted is accepted, whatever reviews say. *)
StatusOf(id) == IF id \in PromotedIds THEN "accepted" ELSE Reviewed(id)

(* brief.accepted_findings, as checkout resolves them. *)
Accepted == {s \in Found : Finding(s).id \in PromotedIds /\ StatusOf(Finding(s).id) = "accepted"}

(* _promotion_refusal. *)
Refused(id, status) == status # "accepted" \/ ~ Finding(First(id)).cited

(* _detect_conflicts: the findings of a key, if their values differ.       *)
(* A conflict's signature is its key and the ids of all these findings.    *)
Claiming(key) == {s \in Found : Finding(s).key = key}
Signature(key) ==
  [key |-> key,
   ids |-> [id \in {Finding(s).id : s \in Claiming(key)} |-> Cardinality(Claiming(key) \cap Holders(id))]]
Detected ==
  {Signature(key) : key \in {k \in {c.key : c \in Claim} \ {NoKey} :
                               Cardinality({Finding(s).value : s \in Claiming(k)}) > 1}}

Recorded == {parent[i].signature : i \in Occurs("conflict")}
-----------------------------------------------------------------------------
Init ==
  /\ parent = <<>>
  /\ worklog = [w \in Worker |-> <<>>]
  /\ call = [p \in Process |-> Idle]
  /\ reports = 0
  /\ calls = 0
  /\ aborts = 0
  /\ raced = {}
  /\ reused = FALSE
  /\ stranded = FALSE

(* The kind of a call: only calls of one kind get in each other's way. *)
Kind(k) == CASE k.step = "idle" -> "idle"
             [] k.step = "report" -> "report"
             [] k.step \in {"detected", "conflicts"} -> "record"
             [] OTHER -> "decide"

Start(p, k) ==
  /\ call[p] = Idle
  /\ call' = [call EXCEPT ![p] = k]
  /\ raced' = IF \E q \in Process : Kind(call[q]) = Kind(k) THEN raced \cup {Kind(k)} ELSE raced

Decide(p, k) ==
  /\ call[p] = Idle
  /\ calls < MaxCalls
  /\ calls' = calls + 1
  /\ Start(p, k)
  /\ UNCHANGED <<parent, worklog, reports, aborts, reused, stranded>>

Goes(p, k) == call' = [call EXCEPT ![p] = k]

(* create_worker; to create it again changes nothing that is folded. *)
CreateWorker(p, w) ==
  /\ call[p] = Idle
  /\ w \notin Registered
  /\ parent' = Append(parent, [type |-> "worker", worker |-> w])
  /\ UNCHANGED <<worklog, call, bounds, history>>

UsedIds ==
  {Finding(s).id : s \in UNION {{w} \X DOMAIN worklog[w] : w \in Worker}}
    \cup {call[q].finding.id : q \in {q \in Process : call[q].step = "report"}}

(* Mutation of DefaultId: findings are numbered per mission, not by log. *)
DefaultId_Decided(w) == <<w, calls>>

(* The default id: the worker, and one more than the length of its log. *)
DefaultId(w) == <<w, Len(worklog[w]) + 1>>

(* report_finding, up to its append.  The worker need not be registered.   *)
Report(p, w, c, id) ==
  /\ reports < MaxReports
  /\ reports' = reports + 1
  /\ Start(p, [step    |-> "report",
               worker  |-> w,
               finding |-> [id |-> id, key |-> c.key, value |-> c.value, cited |-> c.cited]])
  /\ reused' = (reused \/ (id \in Name /\ id \in UsedIds))
  /\ UNCHANGED <<parent, worklog, calls, aborts, stranded>>

AppendFinding(p) ==
  LET k == call[p]
  IN  /\ k.step = "report"
      /\ worklog' = [worklog EXCEPT ![k.worker] = Append(@, k.finding)]
      /\ Goes(p, Idle)
      /\ UNCHANGED <<parent, bounds, history>>

Ids == {Finding(s).id : s \in Found}

Plan(id, status, promote, force) ==
  [id |-> id, status |-> status, promote |-> promote, force |-> force]

(* How a call goes on with what is left of its plans. *)
WithPlans(plans, batch) ==
  IF plans = <<>> THEN Idle ELSE [step |-> "review", plans |-> plans, batch |-> batch]

(* review_finding: a finding of that id must exist (and then always will). *)
Review(p, id, status) ==
  Decide(p, WithPlans(<<Plan(id, status, FALSE, FALSE)>>, FALSE))

(* Mutation of Valid: a citation is not asked for in advance. *)
Valid_Status(plan) == plan.promote /\ ~ plan.force => plan.status = "accepted"

(* What apply_approval_decisions asks of every decision before it appends  *)
(* anything; it depends only on the findings, so that reading them once or *)
(* once per decision is the same.                                          *)
Valid(plan) == plan.promote /\ ~ plan.force => ~ Refused(plan.id, plan.status)

ApplyDecisions(p, plans) ==
  /\ Decide(p, WithPlans(plans, TRUE))
  /\ \A i \in DOMAIN plans : Valid(plans[i])

(* The review of the first plan; it is promoted next if it says so. *)
AppendReview(p) ==
  LET k == call[p]
      plan == Head(k.plans)
  IN  /\ k.step = "review"
      /\ parent' = Append(parent, [type |-> "reviewed", id |-> plan.id, status |-> plan.status])
      /\ Goes(p, IF plan.promote /\ plan.status = "accepted"
                   THEN [k EXCEPT !.step = "promote"]
                   ELSE WithPlans(Tail(k.plans), k.batch))
      /\ UNCHANGED <<worklog, bounds, history>>

(* What promote_finding, having read the logs, will append. *)
Promotion(plans, status, batch) ==
  LET id == Head(plans).id
  IN  [step   |-> "append", plans |-> plans, batch |-> batch,
       source |-> First(id), forced |-> Refused(id, status)]

(* promote_finding. *)
Promote(p, id, force) ==
  /\ Decide(p, Promotion(<<Plan(id, "accepted", TRUE, force)>>, StatusOf(id), FALSE))
  /\ force \/ ~ Refused(id, StatusOf(id))

(* Mutation of Current: the status is the plan's, not the log's. *)
Current_Plan(plan) == plan.status

Current(plan) == StatusOf(plan.id)

(* promote_finding as a part of a batch: what it refuses ends the call,    *)
(* and the rest of the batch with it.                                      *)
PromoteDecided(p) ==
  LET k == call[p]
      plan == Head(k.plans)
  IN  /\ k.step = "promote"
      /\ IF plan.force \/ ~ Refused(plan.id, Current(plan))
           THEN Goes(p, Promotion(k.plans, Current(plan), TRUE)) /\ UNCHANGED stranded
           ELSE Goes(p, Idle) /\ stranded' = TRUE
      /\ UNCHANGED <<parent, worklog, bounds, raced, reused>>

(* The promotion, and its reinforcement, an append whose failure is        *)
(* swallowed; nothing in a mission is folded from it.                      *)
AppendPromotion(p) ==
  LET k == call[p]
      id == Head(k.plans).id
      promoted == [type |-> "promoted", id |-> id, source |-> k.source, forced |-> k.forced]
  IN  /\ k.step = "append"
      /\ parent' \in {Append(parent, promoted),
                      parent \o <<promoted, [type |-> "reinforced", id |-> id]>>}
      /\ Goes(p, WithPlans(Tail(k.plans), k.batch))
      /\ UNCHANGED <<worklog, bounds, history>>

(* record_detected_conflicts builds the brief... *)
DetectConflicts(p) == Decide(p, [step |-> "detected", detected |-> Detected])

ToRecord(conflicts) ==
  IF conflicts = {} THEN Idle ELSE [step |-> "conflicts", conflicts |-> conflicts]

(* Mutation of Missing: the recorded signatures are not looked at. *)
Missing_All(detected) == detected

Missing(detected) == detected \ Recorded

(* ...then reads which signatures are recorded... *)
ReadRecorded(p) ==
  /\ call[p].step = "detected"
  /\ Goes(p, ToRecord(Missing(call[p].detected)))
  /\ UNCHANGED <<parent, worklog, bounds, history>>

(* ...and appends the others one by one. *)
AppendConflict(p) ==
  LET k == call[p]
  IN  /\ k.step = "conflicts"
      /\ \E c \in k.conflicts :
           /\ parent' = Append(parent, [type |-> "conflict", signature |-> c])
           /\ Goes(p, ToRecord(k.conflicts \ {c}))
      /\ UNCHANGED <<worklog, bounds, history>>

(* The process dies in a call, or an append raises. *)
Abort(p) ==
  /\ call[p] # Idle
  /\ aborts < MaxAborts
  /\ aborts' = aborts + 1
  /\ Goes(p, Idle)
  /\ UNCHANGED <<parent, worklog, reports, calls, history>>

Next ==
  \E p \in Process :
    \/ \E w \in Worker :
         \/ CreateWorker(p, w)
         \/ \E c \in Claim, id \in Name \cup {DefaultId(w)} : Report(p, w, c, id)
    \/ AppendFinding(p)
    \/ \E id \in Ids :
         \/ \E status \in Status : Review(p, id, status)
         \/ \E force \in BOOLEAN : Promote(p, id, force)
    \/ \E b \in Batches : \E ids \in [DOMAIN b -> Ids] :
         ApplyDecisions(p, [i \in DOMAIN b |-> Plan(ids[i], b[i].status, b[i].promote, b[i].force)])
    \/ AppendReview(p)
    \/ PromoteDecided(p)
    \/ AppendPromotion(p)
    \/ DetectConflicts(p)
    \/ ReadRecorded(p)
    \/ AppendConflict(p)
    \/ Abort(p)

Spec == Init /\ [][Next]_vars
-----------------------------------------------------------------------------
AnyId == Name \cup (Worker \X (Nat \ {0}))

(* The events of the parent log are of their types and speak of findings   *)
(* that exist; so do the calls in hand.                                    *)
TypeOK ==
  /\ \A i \in DOMAIN parent :
       LET e == parent[i]
       IN  \/ e.type = "worker" /\ e.worker \in Worker
           \/ e.type = "reviewed" /\ e.id \in Ids /\ e.status \in Status
           \/ e.type = "promoted" /\ e.source \in Holders(e.id) /\ e.forced \in BOOLEAN
           \/ e.type = "reinforced" /\ e.id \in PromotedIds
           \/ e.type = "conflict" /\ DOMAIN e.signature.ids \subseteq Ids
  /\ \A w \in Worker : \A i \in DOMAIN worklog[w] : worklog[w][i].id \in AnyId
  /\ \A p \in Process :
       "plans" \in DOMAIN call[p] => call[p].plans # <<>> /\ Head(call[p].plans).id \in Ids
  /\ reports \in 0..MaxReports
  /\ calls \in 0..MaxCalls
  /\ aborts \in 0..MaxAborts
  /\ raced \subseteq {"report", "record", "decide"}
  /\ {reused, stranded} \subseteq BOOLEAN

(* "Promote a reviewed, cited finding": however calls interleave, what is  *)
(* promoted without force cites evidence, and was accepted in a review (or *)
(* promoted) before.                                                       *)
GateHolds ==
  \A i \in Occurs("promoted") :
    ~ parent[i].forced =>
      /\ Finding(parent[i].source).cited
      /\ \E j \in 1..(i - 1) :
           /\ parent[j].type \in {"reviewed", "promoted"}
           /\ parent[j].id = parent[i].id
           /\ parent[j].type = "reviewed" => parent[j].status = "accepted"

(* If decisions do not overlap, the review that let a finding through is   *)
(* the last one: nobody has withdrawn it meanwhile.                        *)
ReviewStands ==
  "decide" \notin raced =>
    \A i \in Occurs("promoted") :
      ~ parent[i].forced =>
        \/ \E j \in 1..(i - 1) : parent[j].type = "promoted" /\ parent[j].id = parent[i].id
        \/ \E j \in ReviewsOf(parent[i].id) :
             /\ j < i
             /\ parent[j].status = "accepted"
             /\ \A l \in ReviewsOf(parent[i].id) : l <= j \/ l > i

(* No finding is promoted past its reviews. *)
PromotionsReviewed == GateHolds /\ ReviewStands

PromotedSources == {parent[i].source : i \in Occurs("promoted")}

(* "Worker-local findings should never leak into accepted project memory   *)
(* unless the coordinator explicitly promotes them."                       *)
NoLeak == Accepted \subseteq PromotedSources

(* That holds as long as no two agents of a worker report at once under    *)
(* the default id, and no caller passes an id again.                       *)
NoLeakWithOwnIds == "report" \notin raced /\ ~ reused => NoLeak

(* If recordings do not overlap, no conflict is recorded twice. *)
ConflictsOnce ==
  "record" \notin raced =>
    \A i, j \in Occurs("conflict") : parent[i].signature = parent[j].signature => i = j

(* "Apply remote approval decisions atomically": a batch that was checked  *)
(* is not refused half-way, if decisions do not overlap and no other       *)
(* finding comes to bear an id that is decided on.                         *)
BatchApplies == raced \cap {"decide", "report"} = {} /\ ~ reused => ~ stranded
=============================================================================

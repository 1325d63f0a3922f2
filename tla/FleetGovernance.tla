-------------------------- MODULE FleetGovernance --------------------------
(***************************************************************************)
(* The fleet memory plane of src/src/zaxy/fleet.py: memories that agents   *)
(* promote to a fleet, which conflict with, supersede and reactivate each  *)
(* other, under stewards, a confidence gate and keystones.                 *)
(*                                                                         *)
(* Everything a FleetManager knows it reads from the thread of the fleet.  *)
(* Its projection, summarize_fleet_events, is a fold over the events of    *)
(* that thread, so the thread is represented by what it folds to: an       *)
(* append is one application of the fold.  Managers (the MCP server, a     *)
(* CLI call, a coordination run) append one event at a time, each sealed   *)
(* as module Eventloom says, and hold no lock between what they read and   *)
(* what they append.                                                       *)
(***************************************************************************)
EXTENDS Integers, FiniteSets

CONSTANTS Manager,        \* concurrent callers of FleetManager
          Agent,          \* agents
          Promotion,      \* promotion ids: one per kind, origin and source events
          Claim,          \* what may be promoted: [key, value, keystone]
          Claims,         \* Claims[p]: the claims promotion p may be proposed with
          NoKey,          \* a promotion without conflict key
          None,           \* not enrolled, not promoted, not superseded
          MaxGovernance,  \* bound: create, enroll and assign calls
          MaxCalls,       \* bound: propose, review and rollback calls
          MaxAborts       \* bound: calls that end between two appends

ASSUME FleetAssumption ==
  /\ \A c \in Claim : /\ DOMAIN c = {"key", "value", "keystone"}
                      /\ c.keystone \in BOOLEAN
  /\ Claims \in [Promotion -> SUBSET Claim]
  /\ None \notin Promotion
  /\ {MaxGovernance, MaxCalls, MaxAborts} \subseteq Nat

VARIABLES
  trust,       \* trust[a]: tier of agent a in the projection, or None
  memory,      \* memory[p]: [claim, actor, status, by] in the projection, or None
  call,        \* call[m]: the call manager m is in, at its next append
  governance,  \* number of create, enroll and assign calls
  calls,       \* number of propose, review and rollback calls
  aborts,      \* number of calls that were cut short
  rollbacks,   \* number of rollbacks in the thread (history)
  allowed,     \* promotions the gate applied or a steward accepted (history)
  alone        \* no call overlapped another or was cut short (history)

bounds == <<governance, calls, aborts>>
vars == <<trust, memory, call, bounds, rollbacks, allowed, alone>>
-----------------------------------------------------------------------------
Tier == {"untrusted", "member", "trusted", "steward"}
Scope == {"fleet", "global"}
Decision == {"accepted", "rejected", "deferred"}
Status == {"pending", "active", "rejected", "deferred", "superseded", "rolled_back"}

(* scope_permits_proposal, for the two scopes a promotion may have. *)
Permits(tier, scope) ==
  \/ tier \in {"trusted", "steward"}
  \/ tier = "member" /\ scope = "fleet"

Steward(a) == trust[a] = "steward"
Known(p) == memory[p] # None
HasStatus(p, s) == Known(p) /\ memory[p].status = s
Active(p) == HasStatus(p, "active")
ClaimOf(p) == memory[p].claim

(* _detect_conflicts, on claim keys: one key, two values. *)
Conflict(c, d) == c.key # NoKey /\ c.key = d.key /\ c.value # d.value

(* _conflicting_actives: what p, if it claims c, conflicts with. *)
ConflictingActives(p, c) ==
  {q \in Promotion \ {p} : Active(q) /\ Conflict(c, ClaimOf(q))}

Idle == [step |-> "idle"]
-----------------------------------------------------------------------------
(* The fold: what each event of the thread does to the projection. *)

(* Mutation of Promoted: a re-cited promotion takes the status it claims. *)
Promoted_Again(p, c, a, auto) ==
  [memory EXCEPT ![p] = [claim  |-> c,
                         actor  |-> a,
                         status |-> IF auto THEN "active" ELSE "pending",
                         by     |-> None]]

(* Only the first event of a promotion counts. *)
Promoted(p, c, a, auto) ==
  IF Known(p)
    THEN memory
    ELSE [memory EXCEPT ![p] = [claim  |-> c,
                                actor  |-> a,
                                status |-> IF auto THEN "active" ELSE "pending",
                                by     |-> None]]

(* Mutation of Reviewed: the decision is taken for a status. *)
Reviewed_AsIs(p, decision) == [memory EXCEPT ![p].status = decision]

Reviewed(p, decision) ==
  [memory EXCEPT ![p].status = IF decision = "accepted" THEN "active" ELSE decision]

Superseded(old, new) ==
  [memory EXCEPT ![old].status = "superseded", ![old].by = new]

(* Mutation of RolledBack: what p has superseded stays superseded. *)
RolledBack_Only(p) == [memory EXCEPT ![p].status = "rolled_back"]

(* What p has superseded comes back. *)
RolledBack(p) ==
  [q \in Promotion |->
     IF q = p
       THEN [memory[q] EXCEPT !.status = "rolled_back"]
       ELSE IF HasStatus(q, "superseded") /\ memory[q].by = p
              THEN [memory[q] EXCEPT !.status = "active"]
              ELSE memory[q]]
-----------------------------------------------------------------------------
Init ==
  /\ trust = [a \in Agent |-> None]
  /\ memory = [p \in Promotion |-> None]
  /\ call = [m \in Manager |-> Idle]
  /\ governance = 0
  /\ calls = 0
  /\ aborts = 0
  /\ rollbacks = 0
  /\ allowed = {}
  /\ alone = TRUE

(* Manager m starts a call, which goes on as k. *)
Start(m, k) ==
  /\ call[m] = Idle
  /\ call' = [call EXCEPT ![m] = k]
  /\ alone' = (alone /\ \A n \in Manager : call[n] = Idle)

Govern(m, a, tier) ==
  /\ governance < MaxGovernance
  /\ governance' = governance + 1
  /\ Start(m, [step |-> "trust", agent |-> a, tier |-> tier])
  /\ UNCHANGED <<trust, memory, calls, aborts, rollbacks, allowed>>

Decide(m, k) ==
  /\ calls < MaxCalls
  /\ calls' = calls + 1
  /\ Start(m, k)
  /\ UNCHANGED <<trust, memory, governance, aborts, rollbacks, allowed>>

(* create_fleet: the creator will be enrolled as a steward. *)
CreateFleet(m, a) == Govern(m, a, "steward")

(* enroll_agent: by a steward, or by anyone in a fleet without agents. *)
EnrollAgent(m, actor, a, tier) ==
  /\ (\A b \in Agent : trust[b] = None) \/ Steward(actor)
  /\ Govern(m, a, tier)

(* assign_trust. *)
AssignTrust(m, actor, a, tier) ==
  /\ Steward(actor)
  /\ trust[a] # None
  /\ Govern(m, a, tier)

AppendTrust(m) ==
  /\ call[m].step = "trust"
  /\ trust' = [trust EXCEPT ![call[m].agent] = call[m].tier]
  /\ call' = [call EXCEPT ![m] = Idle]
  /\ UNCHANGED <<memory, bounds, rollbacks, allowed, alone>>

(* _propose up to its gate event, which the projection does not look at.   *)
(* A refused or already active promotion leaves nothing in the thread.     *)
(* `confident`: the gate would apply it without review.                    *)
Propose(m, a, p, c, scope, confident) ==
  /\ c \in Claims[p]
  /\ Permits(trust[a], scope)
  /\ ~ Active(p)
  /\ Decide(m, [step   |-> "promote",
                p      |-> p,
                claim  |-> c,
                actor  |-> a,
                auto   |-> confident /\ \A q \in ConflictingActives(p, c) : ~ ClaimOf(q).keystone])

(* What a call does after it has made p active, or tried to: look for what *)
(* p conflicts with, if it has a conflict key.                             *)
AndResolve(p, c) ==
  IF c.key = NoKey THEN Idle ELSE [step |-> "resolve", p |-> p]

AppendPromotion(m) ==
  LET k == call[m]
  IN  /\ k.step = "promote"
      /\ memory' = Promoted(k.p, k.claim, k.actor, k.auto)
      /\ allowed' = IF k.auto /\ ~ Known(k.p) THEN allowed \cup {k.p} ELSE allowed
      /\ call' = [call EXCEPT ![m] = IF k.auto THEN AndResolve(k.p, k.claim) ELSE Idle]
      /\ UNCHANGED <<trust, bounds, rollbacks, alone>>

(* review_promotion. *)
Review(m, a, p, decision) ==
  /\ Steward(a)
  /\ Known(p)
  /\ Decide(m, [step |-> "review", p |-> p, decision |-> decision])

AppendReview(m) ==
  LET k == call[m]
  IN  /\ k.step = "review"
      /\ memory' = Reviewed(k.p, k.decision)
      /\ allowed' = IF k.decision = "accepted" THEN allowed \cup {k.p} ELSE allowed
      /\ call' = [call EXCEPT ![m] = IF k.decision = "accepted"
                                       THEN AndResolve(k.p, ClaimOf(k.p))
                                       ELSE Idle]
      /\ UNCHANGED <<trust, bounds, rollbacks, alone>>

(* Mutation of ToSupersede: a keystone is no exception. *)
ToSupersede_Keystones(p) == IF Active(p) THEN ConflictingActives(p, ClaimOf(p)) ELSE {}

(* Mutation of ToSupersede: the candidate need not be active. *)
ToSupersede_Pending(p) ==
  {q \in ConflictingActives(p, ClaimOf(p)) : ~ ClaimOf(q).keystone}

(* What p, if it is active by now, supersedes: never a keystone. *)
ToSupersede(p) ==
  IF Active(p)
    THEN {q \in ConflictingActives(p, ClaimOf(p)) : ~ ClaimOf(q).keystone}
    ELSE {}

SupersedeAll(p, todo) ==
  IF todo = {} THEN Idle ELSE [step |-> "supersede", p |-> p, todo |-> todo]

(* _supersede_conflicts reads the thread again... *)
Resolve(m) ==
  LET p == call[m].p
  IN  /\ call[m].step = "resolve"
      /\ call' = [call EXCEPT ![m] = SupersedeAll(p, ToSupersede(p))]
      /\ UNCHANGED <<trust, memory, bounds, rollbacks, allowed, alone>>

(* ...and appends one event for each memory it found (in the order of      *)
(* their ids, which are digests: any order).                               *)
AppendSuperseded(m) ==
  LET k == call[m]
  IN  /\ k.step = "supersede"
      /\ \E old \in k.todo :
           /\ memory' = Superseded(old, k.p)
           /\ call' = [call EXCEPT ![m] = SupersedeAll(k.p, k.todo \ {old})]
      /\ UNCHANGED <<trust, bounds, rollbacks, allowed, alone>>

(* rollback_promotion, by a steward or the actor of the promotion. *)
Rollback(m, a, p) ==
  /\ Known(p)
  /\ Steward(a) \/ memory[p].actor = a
  /\ Decide(m, [step |-> "rollback", p |-> p])

AppendRollback(m) ==
  LET p == call[m].p
  IN  /\ call[m].step = "rollback"
      /\ memory' = RolledBack(p)
      /\ rollbacks' = rollbacks + 1
      /\ call' = [call EXCEPT ![m] = Idle]
      /\ UNCHANGED <<trust, bounds, allowed, alone>>

(* The process of m dies in a call, or an append of it raises. *)
Abort(m) ==
  /\ call[m] # Idle
  /\ aborts < MaxAborts
  /\ aborts' = aborts + 1
  /\ alone' = (alone /\ call[m].step \notin {"resolve", "supersede"})
  /\ call' = [call EXCEPT ![m] = Idle]
  /\ UNCHANGED <<trust, memory, governance, calls, rollbacks, allowed>>

Next ==
  \E m \in Manager :
    \/ \E a \in Agent :
         \/ CreateFleet(m, a)
         \/ \E b \in Agent, tier \in Tier :
              EnrollAgent(m, a, b, tier) \/ AssignTrust(m, a, b, tier)
         \/ \E p \in Promotion :
              \/ \E c \in Claims[p], scope \in Scope, confident \in BOOLEAN :
                   Propose(m, a, p, c, scope, confident)
              \/ \E decision \in Decision : Review(m, a, p, decision)
              \/ Rollback(m, a, p)
    \/ AppendTrust(m)
    \/ AppendPromotion(m)
    \/ AppendReview(m)
    \/ Resolve(m)
    \/ AppendSuperseded(m)
    \/ AppendRollback(m)
    \/ Abort(m)

Spec == Init /\ [][Next]_vars
-----------------------------------------------------------------------------
Memory == [claim : Claim, actor : Agent, status : Status, by : Promotion \cup {None}]

ASSUME NoneAssumption == None \notin Memory \cup Tier

Call ==
  {Idle}
    \cup [step : {"trust"}, agent : Agent, tier : Tier]
    \cup [step : {"promote"}, p : Promotion, claim : Claim, actor : Agent, auto : BOOLEAN]
    \cup [step : {"review"}, p : Promotion, decision : Decision]
    \cup [step : {"rollback", "resolve"}, p : Promotion]
    \cup [step : {"supersede"}, p : Promotion, todo : SUBSET Promotion]

(* Every variable keeps its type; a call that reviews, rolls back or       *)
(* supersedes is about promotions that are in the thread.                  *)
TypeOK ==
  /\ trust \in [Agent -> Tier \cup {None}]
  /\ memory \in [Promotion -> Memory \cup {None}]
  /\ call \in [Manager -> Call]
  /\ governance \in 0..MaxGovernance
  /\ calls \in 0..MaxCalls
  /\ aborts \in 0..MaxAborts
  /\ rollbacks \in Nat
  /\ allowed \subseteq Promotion
  /\ alone \in BOOLEAN
  /\ \A m \in Manager :
       /\ call[m].step \in {"review", "rollback", "resolve", "supersede"} => Known(call[m].p)
       /\ call[m].step = "supersede" => \A q \in call[m].todo : Known(q)

(* A promotion the gate has held stays out of effect until a steward       *)
(* accepts it: no later proposal of the same source, supersession or       *)
(* reactivation, however they interleave, brings it in.                    *)
HeldUntilAccepted ==
  \A p \in Promotion : Active(p) \/ HasStatus(p, "superseded") => p \in allowed

(* "An active keystone is never auto-superseded - a live mandatory rule    *)
(* only ever changes through explicit steward action": whatever the other  *)
(* managers do between its check and its append, a call that promotes or   *)
(* accepts something else leaves every keystone as it is.                  *)
KeystoneStands ==
  [][\A p \in Promotion :
       Active(p) /\ ClaimOf(p).keystone /\ memory'[p] # memory[p]
         => memory'[p].status \in {"rejected", "deferred", "rolled_back"}]_vars

(* A decision against a memory stands: one that was rejected, deferred or  *)
(* rolled back returns only by a review.                                   *)
DecisionStands(p) ==
  HasStatus(p, "rejected") \/ HasStatus(p, "deferred") \/ HasStatus(p, "rolled_back")
    => \E m \in Manager : call[m].step \in {"review", "rollback"} /\ call[m].p = p

(* A memory gives way only to one in effect.  (So no two memories          *)
(* supersede each other, which would leave the key with no value at all.)  *)
GivesWayToActive(p) ==
  Active(p) /\ memory'[p].status = "superseded" => Active(memory'[p].by)

(* If calls do not overlap, no memory comes back into effect, and none     *)
(* goes out of it, but by a decision or for a memory in effect.            *)
ChangesJustified ==
  [][alone' => \A p \in Promotion :
                 memory'[p] # memory[p] => DecisionStands(p) /\ GivesWayToActive(p)]_vars

(* "a rolled-back promotion that had superseded an earlier memory          *)
(* re-activates that earlier memory": if calls do not overlap, nothing     *)
(* stays superseded by what was rolled back.                               *)
RollbackRestores ==
  alone => \A p \in Promotion :
             HasStatus(p, "superseded") => ~ HasStatus(memory[p].by, "rolled_back")

(* "Conflicts are resolved by additive supersession": between calls, no    *)
(* two memories in effect claim different values for one key, unless a     *)
(* steward let one stand beside a keystone.                                *)
Resolved ==
  \A p, q \in Promotion :
    /\ Active(p)
    /\ Active(q)
    /\ Conflict(ClaimOf(p), ClaimOf(q))
    => ClaimOf(p).keystone \/ ClaimOf(q).keystone

Quiet == alone /\ \A m \in Manager : call[m] = Idle

(* As long as nothing was rolled back: rolling back the winner over a      *)
(* memory that was itself superseded puts the loser beside its successor.  *)
ConflictsResolvedForward == Quiet /\ rollbacks = 0 => Resolved

(* Between calls every key has the values that promotions and rollbacks    *)
(* ought to leave it.                                                      *)
ConflictsSettled == RollbackRestores /\ ConflictsResolvedForward
=============================================================================

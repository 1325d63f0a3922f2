----------------------- MODULE CoordinationMission_proofs -----------------------
(***************************************************************************)
(* For any processes, workers, findings and batches, however their calls   *)
(* interleave or are cut: what is promoted has passed the gate; and, where *)
(* calls of one kind do not overlap and ids are not passed twice, accepted *)
(* state holds nothing but what was promoted, no conflict is recorded      *)
(* twice and no batch is refused half-way.                                 *)
(***************************************************************************)
EXTENDS CoordinationMission, WellFoundedInduction, TLAPS

Entries(s) == {s[i] : i \in DOMAIN s}

AnyPlan == [id : AnyId, status : Status, promote : BOOLEAN, force : BOOLEAN]
AnyFinding ==
  [id : AnyId, key : {c.key : c \in Claim}, value : {c.value : c \in Claim}, cited : BOOLEAN]

\* The logs are sequences; nobody but workers is registered.
LogsInv ==
  /\ parent \in Seq(Entries(parent))
  /\ worklog \in [Worker -> Seq(AnyFinding)]
  /\ Registered \subseteq Worker

\* What a call in hand can be, and that it speaks of findings that exist.
ReportOK(k) == k \in [step : {"report"}, worker : Worker, finding : AnyFinding]
PlansOK(plans) ==
  /\ plans \in Seq(AnyPlan) /\ plans # <<>>
  /\ \A i \in DOMAIN plans : plans[i].id \in Ids
DecideOK(k) ==
  /\ k \in [step : {"review", "promote"}, plans : Seq(AnyPlan), batch : BOOLEAN]
  /\ PlansOK(k.plans)
AppendOK(k) ==
  /\ k \in [step : {"append"}, plans : Seq(AnyPlan), batch : BOOLEAN,
            source : Worker \X Nat, forced : BOOLEAN]
  /\ PlansOK(k.plans)
  /\ k.source \in Holders(Head(k.plans).id)
DetectedOK(k) ==
  /\ k.step = "detected" /\ k \in [step : {"detected"}, detected : {k.detected}]
  /\ \A c \in k.detected : DOMAIN c.ids \subseteq Ids
ConflictsOK(k) ==
  /\ k.step = "conflicts" /\ k \in [step : {"conflicts"}, conflicts : {k.conflicts}]
  /\ \A c \in k.conflicts : DOMAIN c.ids \subseteq Ids
CallOK(k) ==
  k = Idle \/ ReportOK(k) \/ DecideOK(k) \/ AppendOK(k) \/ DetectedOK(k) \/ ConflictsOK(k)

\* Two calls of a kind at once have raced.
RaceInv ==
  \A p, q \in Process :
    p # q /\ Kind(call[p]) = Kind(call[q]) => Kind(call[p]) \in raced \cup {"idle"}

\* The finding was accepted, and that has not been withdrawn.
LetThrough(id) == id \in PromotedIds \/ \E j \in ReviewsOf(id) : parent[j].status = "accepted"
Stands(id) ==
  \/ id \in PromotedIds
  \/ \E j \in ReviewsOf(id) :
       parent[j].status = "accepted" /\ \A l \in ReviewsOf(id) : l <= j

\* A promotion that is about to be appended has passed the gate.
GateOK(k) ==
  k.step = "append" /\ ~ k.forced =>
    /\ Finding(k.source).cited
    /\ LetThrough(Head(k.plans).id)
    /\ "decide" \notin raced => Stands(Head(k.plans).id)

\* A conflict that is about to be recorded is not recorded yet.
RecordOK(k) ==
  "record" \notin raced /\ k.step = "conflicts" => k.conflicts \cap Recorded = {}

\* Ids are told apart: no two reports of a worker overlapped, no id was passed twice.
\* Then a default id says where its finding is, also the one in hand, and no two
\* findings bear one id.
OwnIds == "report" \notin raced /\ ~ reused
DefaultIds ==
  \A w \in Worker : \A i \in DOMAIN worklog[w] :
    worklog[w][i].id \in Name \/ worklog[w][i].id = <<w, i>>
UniqueIds ==
  \A v, w \in Worker : \A i \in DOMAIN worklog[v], j \in DOMAIN worklog[w] :
    worklog[v][i].id = worklog[w][j].id => v = w /\ i = j
NewIdOK(k) ==
  k.step = "report" =>
    /\ k.finding.id \in Name \/ k.finding.id = <<k.worker, Len(worklog[k.worker]) + 1>>
    /\ \A w \in Worker : \A i \in DOMAIN worklog[w] : worklog[w][i].id # k.finding.id

\* What is left of a batch stays valid, and what it promotes next is accepted.
BatchOK(k) ==
  /\ k.step \in {"review", "promote"} => \A i \in DOMAIN k.plans : Valid(k.plans[i])
  /\ k.step = "promote" => Head(k.plans).promote /\ Stands(Head(k.plans).id)
  /\ k.step = "append" => \A i \in DOMAIN k.plans : i # 1 => Valid(k.plans[i])

\* All that holds of a call in hand.
CallInv(k) ==
  /\ CallOK(k)
  /\ GateOK(k)
  /\ RecordOK(k)
  /\ OwnIds => NewIdOK(k)
  /\ OwnIds /\ "decide" \notin raced => BatchOK(k)
CallsInv == call = [p \in Process |-> call[p]] /\ \A p \in Process : CallInv(call[p])

\* The events of the parent log.
EventOK(e) ==
  \/ e.type = "worker" /\ e.worker \in Worker
  \/ e.type = "reviewed" /\ e.id \in Ids /\ e.status \in Status
  \/ e.type = "promoted" /\ e.source \in Holders(e.id) /\ e.forced \in BOOLEAN
  \/ e.type = "reinforced" /\ e.id \in PromotedIds
  \/ e.type = "conflict" /\ DOMAIN e.signature.ids \subseteq Ids
EventsInv == \A i \in DOMAIN parent : EventOK(parent[i])

BoundsInv ==
  /\ reports \in 0..MaxReports
  /\ calls \in 0..MaxCalls
  /\ aborts \in 0..MaxAborts
  /\ raced \subseteq {"report", "record", "decide"}
  /\ {reused, stranded} \subseteq BOOLEAN

IdsInv == OwnIds => DefaultIds /\ UniqueIds
StrandedInv == OwnIds /\ "decide" \notin raced => ~ stranded

IInv ==
  /\ LogsInv /\ EventsInv /\ BoundsInv
  /\ CallsInv /\ RaceInv
  /\ PromotionsReviewed /\ ConflictsOnce /\ IdsInv /\ StrandedInv
-----------------------------------------------------------------------------
\* A set of numbers that is not empty has a least one.
LEMMA NatMin ==
  ASSUME NEW T \in SUBSET Nat, T # {}
  PROVE  \E x \in T : \A y \in T : x <= y
  <1>1. PICK x \in T : \A y \in T : ~ (<<y, x>> \in OpToRel(<, Nat))
    BY NatLessThanWellFounded, WFMin
  <1>2. \A y \in T : ~ (y < x)
    BY <1>1 DEF OpToRel
  <1> QED
    BY <1>2

\* And one that has a bound has a greatest one.
LEMMA NatMax ==
  ASSUME NEW n \in Nat, NEW T \in SUBSET (1..n), T # {}
  PROVE  \E x \in T : \A y \in T : y <= x
  <1> DEFINE R == {n - x : x \in T}
  <1>1. R \in SUBSET Nat /\ R # {}
    <2>1. \A x \in T : n - x \in Nat
      OBVIOUS
    <2> QED
      BY <2>1
  <1>2. PICK r \in R : \A y \in R : r <= y
    BY <1>1, NatMin
  <1>3. PICK x \in T : r = n - x
    OBVIOUS
  <1>4. \A y \in T : n - x <= n - y
    BY <1>2, <1>3
  <1> QED
    BY <1>4

\* The findings of a log that only grows.
Grow ==
  /\ \A i \in DOMAIN parent : i \in DOMAIN parent' /\ parent'[i] = parent[i]
  /\ \A w \in Worker : \A i \in DOMAIN worklog[w] :
       i \in DOMAIN worklog'[w] /\ worklog'[w][i] = worklog[w][i]

\* What a call has found stays: nothing that is folded goes.
LEMMA Grows ==
  ASSUME Registered \subseteq Worker, Grow
  PROVE  /\ Registered \subseteq Registered'
         /\ Found \subseteq Found' /\ \A s \in Found : Finding(s)' = Finding(s)
         /\ Ids \subseteq Ids' /\ PromotedIds \subseteq PromotedIds'
         /\ \A id : Holders(id) \subseteq Holders(id)'
         /\ \A id : LetThrough(id) => LetThrough(id)'
  <1>1. ASSUME NEW type, NEW i \in Occurs(type)
        PROVE  i \in Occurs(type)' /\ parent'[i] = parent[i]
    BY DEF Occurs, Grow
  <1>2. Registered \subseteq Registered' /\ PromotedIds \subseteq PromotedIds'
    BY <1>1 DEF Registered, PromotedIds
  <1>3. ASSUME NEW s \in Found PROVE s \in Found' /\ Finding(s)' = Finding(s)
    <2>1. PICK w \in Registered : s \in {w} \X DOMAIN worklog[w]
      BY DEF Found
    <2>2. s = <<w, s[2]>> /\ s[1] = w /\ s[2] \in DOMAIN worklog[w] /\ w \in Worker
      BY <2>1
    <2>3. s[2] \in DOMAIN worklog'[w] /\ worklog'[w][s[2]] = worklog[w][s[2]]
      BY <2>2 DEF Grow
    <2>4. w \in Registered' /\ s \in {w} \X DOMAIN worklog'[w]
      BY <1>2, <2>2, <2>3
    <2> QED
      BY <2>2, <2>3, <2>4 DEF Found, Finding
  <1>4. Ids \subseteq Ids'
    BY <1>3 DEF Ids
  <1>5. ASSUME NEW id PROVE Holders(id) \subseteq Holders(id)'
    BY <1>3 DEF Holders
  <1>6. ASSUME NEW id, LetThrough(id) PROVE LetThrough(id)'
    <2>1. CASE id \in PromotedIds
      BY <1>2, <2>1 DEF LetThrough
    <2>2. ASSUME NEW j \in ReviewsOf(id), parent[j].status = "accepted"
          PROVE  LetThrough(id)'
      BY <1>1, <2>2 DEF ReviewsOf, LetThrough
    <2> QED
      BY <1>6, <2>1, <2>2 DEF LetThrough
  <1> QED
    BY <1>2, <1>3, <1>4, <1>5, <1>6

\* There is a first finding of an id that some finding bears: the order of the workers,
\* then that of their logs.
LEMMA FirstHolds ==
  ASSUME LogsInv, NEW id \in Ids
  PROVE  First(id) \in Holders(id)
  <1>1. \A w \in Registered : Rank(w) \in Nat /\ parent[Rank(w)].worker = w
    <2>1. DOMAIN parent \subseteq Nat
      BY DEF LogsInv
    <2>2. ASSUME NEW w \in Registered
          PROVE  Rank(w) \in Occurs("worker") /\ parent[Rank(w)].worker = w
      BY DEF Registered, Rank
    <2> QED
      BY <2>1, <2>2 DEF Occurs
  <1>2. \A s \in Holders(id) : s[1] \in Registered /\ s[2] \in Nat
    <2>1. ASSUME NEW s \in Found PROVE s[1] \in Registered /\ s[2] \in Nat
      <3>1. PICK w \in Registered : s \in {w} \X DOMAIN worklog[w]
        BY DEF Found
      <3>2. s[1] = w /\ s[2] \in DOMAIN worklog[w] /\ w \in Worker
        BY <3>1 DEF LogsInv
      <3> QED
        BY <3>2 DEF LogsInv
    <2> QED
      BY <2>1 DEF Holders
  <1> DEFINE R == {Rank(s[1]) : s \in Holders(id)}
  <1>3. Holders(id) # {}
    BY DEF Ids, Holders
  <1>4. R \in SUBSET Nat /\ R # {}
    BY <1>1, <1>2, <1>3
  <1>5. PICK r \in R : \A x \in R : r <= x
    BY <1>4, NatMin
  <1> DEFINE N == {s[2] : s \in {s \in Holders(id) : Rank(s[1]) = r}}
  <1>6. N \in SUBSET Nat /\ N # {}
    BY <1>2, <1>5
  <1>7. PICK n \in N : \A x \in N : n <= x
    BY <1>6, NatMin
  <1>8. PICK s \in Holders(id) : Rank(s[1]) = r /\ s[2] = n
    OBVIOUS
  <1>9. ASSUME NEW t \in Holders(id)
        PROVE  Rank(s[1]) < Rank(t[1]) \/ (s[1] = t[1] /\ s[2] <= t[2])
    <2>1. r <= Rank(t[1]) /\ Rank(t[1]) \in Nat /\ r \in Nat
      BY <1>1, <1>2, <1>4, <1>5
    <2>2. CASE Rank(t[1]) = r
      <3>1. s[1] = t[1]
        BY <1>1, <1>2, <1>8, <2>2
      <3>2. t[2] \in N
        BY <2>2
      <3> QED
        BY <1>7, <1>8, <3>1, <3>2
    <2>3. CASE Rank(t[1]) # r
      BY <1>8, <2>1, <2>3
    <2> QED
      BY <2>2, <2>3
  <1>10. \E u \in Holders(id) :
           \A t \in Holders(id) : Rank(u[1]) < Rank(t[1]) \/ (u[1] = t[1] /\ u[2] <= t[2])
    BY <1>8, <1>9
  <1> QED
    BY <1>10 DEF First

\* A finding that is accepted was promoted, or its last review accepts it.
LEMMA AcceptedStands ==
  ASSUME LogsInv, NEW id
  PROVE  StatusOf(id) = "accepted" <=> Stands(id)
  <1> DEFINE Last(i) == \A j \in ReviewsOf(id) : j <= i
  <1>1. /\ ReviewsOf(id) \subseteq 1..Len(parent) /\ Len(parent) \in Nat
    BY DEF LogsInv, ReviewsOf, Occurs
  <1>2. CASE ReviewsOf(id) = {}
    BY <1>2 DEF StatusOf, Reviewed, Stands
  <1>3. CASE ReviewsOf(id) # {}
    <2>1. \E i \in ReviewsOf(id) : Last(i)
      BY <1>1, <1>3, NatMax
    <2> DEFINE m == CHOOSE i \in ReviewsOf(id) : Last(i)
    <2>2. m \in ReviewsOf(id) /\ Last(m)
      BY <2>1
    <2>3. Reviewed(id) = parent[m].status
      BY <1>3 DEF Reviewed
    <2>4. \A i \in ReviewsOf(id) : Last(i) => i = m
      BY <1>1, <2>2
    <2> HIDE DEF m
    <2> QED
      BY <2>2, <2>3, <2>4 DEF StatusOf, Stands
  <1> QED
    BY <1>2, <1>3

\* What stands was let through.
LEMMA StandsLetThrough == ASSUME NEW id, Stands(id) PROVE LetThrough(id)
  BY DEF Stands, LetThrough

\* Where ids are told apart, the first finding of an id is the only one.
FirstIsOnly == \A id : \A s \in Holders(id) : First(id) = s
LEMMA FirstUnique == LogsInv /\ UniqueIds => FirstIsOnly
  <1> SUFFICES ASSUME LogsInv, UniqueIds, NEW id, NEW s \in Holders(id) PROVE First(id) = s
    BY DEF FirstIsOnly
  <1>1. ASSUME NEW t \in Found
        PROVE  /\ t[1] \in Worker /\ t[2] \in DOMAIN worklog[t[1]] /\ t = <<t[1], t[2]>>
               /\ Finding(t) = worklog[t[1]][t[2]]
    <2>1. PICK w \in Registered : t \in {w} \X DOMAIN worklog[w]
      BY DEF Found
    <2> QED
      BY <2>1 DEF LogsInv, Finding
  <1>2. ASSUME NEW t \in Holders(id) PROVE t = s
    <2>1. t \in Found /\ s \in Found /\ Finding(t).id = id /\ Finding(s).id = id
      BY DEF Holders
    <2>2. t[1] = s[1] /\ t[2] = s[2]
      BY <1>1, <2>1 DEF UniqueIds
    <2> QED
      BY <1>1, <2>1, <2>2
  <1>3. id \in Ids
    BY DEF Ids, Holders
  <1> QED
    BY <1>2, <1>3, FirstHolds

\* So a decision that was valid stays valid.
LEMMA ValidKept ==
  ASSUME LogsInv, LogsInv', Grow, UniqueIds, UniqueIds', NEW plan, plan.id \in Ids, Valid(plan)
  PROVE  Valid(plan)'
  <1>1. First(plan.id) \in Holders(plan.id)
    BY FirstHolds
  <1> DEFINE s == First(plan.id)
  <1>2. PICK t : t = s
    OBVIOUS
  <1>3. t \in Holders(plan.id)' /\ t \in Found /\ Finding(t)' = Finding(t)
    BY <1>1, <1>2, Grows DEF LogsInv, Holders
  <1>4. First(plan.id)' = t
    <2>1. (LogsInv /\ UniqueIds => FirstIsOnly)'
      BY FirstUnique, PTL
    <2> QED
      BY <1>3, <2>1 DEF FirstIsOnly
  <1>5. Finding(First(plan.id))' = Finding(First(plan.id))
    BY <1>2, <1>3, <1>4 DEF Finding
  <1> QED
    BY <1>5 DEF Valid, Refused

\* What holds of a call in hand still does when the logs grow, if no call of its kind
\* takes from it what it relies on.
LEMMA CallKept ==
  ASSUME LogsInv, LogsInv', Grow, IdsInv, IdsInv', NEW k,
         raced \subseteq raced', OwnIds' => OwnIds,
         CallOK(k), GateOK(k), RecordOK(k), OwnIds' => NewIdOK(k),
         OwnIds' /\ "decide" \notin raced' => BatchOK(k),
         Kind(k) = "decide" /\ "decide" \notin raced' => \A id : Stands(id) => Stands(id)',
         Kind(k) = "record" /\ "record" \notin raced' => Recorded' = Recorded,
         Kind(k) = "report" /\ "report" \notin raced' => worklog' = worklog
  PROVE  CallInv(k)'
  <1>1. /\ Ids \subseteq Ids' /\ \A id : Holders(id) \subseteq Holders(id)'
        /\ Found \subseteq Found' /\ \A s \in Found : Finding(s)' = Finding(s)
        /\ \A id : LetThrough(id) => LetThrough(id)'
    BY Grows DEF LogsInv
  <1>2. CASE k = Idle
    <2>1. k.step = "idle"
      BY <1>2 DEF Idle
    <2> QED
      BY <1>2, <2>1 DEF CallInv, CallOK, GateOK, RecordOK, NewIdOK, BatchOK
  <1>3. CASE ReportOK(k)
    <2>1. k.step = "report" /\ Kind(k) = "report"
      BY <1>3 DEF ReportOK, Kind
    <2>2. OwnIds' => NewIdOK(k)'
      BY <2>1 DEF NewIdOK, OwnIds
    <2> QED
      BY <1>3, <2>1, <2>2 DEF CallInv, CallOK, ReportOK, GateOK, RecordOK, BatchOK
  <1>4. CASE DecideOK(k)
    <2>1. k.step \in {"review", "promote"} /\ Kind(k) = "decide"
      BY <1>4 DEF DecideOK, Kind
    <2>2. PlansOK(k.plans) /\ PlansOK(k.plans)'
      BY <1>1, <1>4 DEF DecideOK, PlansOK
    <2>3. DecideOK(k)'
      BY <1>4, <2>2 DEF DecideOK
    <2>4. ASSUME OwnIds', "decide" \notin raced' PROVE BatchOK(k)'
      <3>1. BatchOK(k) /\ UniqueIds /\ UniqueIds'
        BY <2>4 DEF IdsInv
      <3>2. ASSUME NEW i \in DOMAIN k.plans PROVE Valid(k.plans[i])'
        <4>1. Valid(k.plans[i]) /\ k.plans[i].id \in Ids
          BY <2>1, <2>2, <3>1 DEF BatchOK, PlansOK
        <4> QED
          BY <3>1, <4>1, ValidKept
      <3>3. k.step = "promote" => Head(k.plans).promote /\ Stands(Head(k.plans).id)'
        BY <2>1, <2>4, <3>1 DEF BatchOK
      <3> QED
        BY <2>1, <3>2, <3>3 DEF BatchOK
    <2> QED
      BY <2>1, <2>3, <2>4 DEF CallInv, CallOK, GateOK, RecordOK, NewIdOK
  <1>5. CASE AppendOK(k)
    <2>1. k.step = "append" /\ Kind(k) = "decide"
      BY <1>5 DEF AppendOK, Kind
    <2>2. PlansOK(k.plans) /\ PlansOK(k.plans)'
      BY <1>1, <1>5 DEF AppendOK, PlansOK
    <2>3. AppendOK(k)'
      BY <1>1, <1>5, <2>2 DEF AppendOK
    <2>4. GateOK(k)'
      <3>1. k.source \in Found
        BY <1>5 DEF AppendOK, Holders
      <3> QED
        BY <1>1, <2>1, <3>1 DEF GateOK
    <2>5. ASSUME OwnIds', "decide" \notin raced' PROVE BatchOK(k)'
      <3>1. BatchOK(k) /\ UniqueIds /\ UniqueIds'
        BY <2>5 DEF IdsInv
      <3>2. ASSUME NEW i \in DOMAIN k.plans, i # 1 PROVE Valid(k.plans[i])'
        <4>1. Valid(k.plans[i]) /\ k.plans[i].id \in Ids
          BY <2>1, <2>2, <3>1, <3>2 DEF BatchOK, PlansOK
        <4> QED
          BY <3>1, <4>1, ValidKept
      <3> QED
        BY <2>1, <3>2 DEF BatchOK
    <2> QED
      BY <2>1, <2>3, <2>4, <2>5 DEF CallInv, CallOK, RecordOK, NewIdOK
  <1>6. CASE DetectedOK(k)
    <2>1. k.step = "detected"
      BY <1>6 DEF DetectedOK
    <2>2. DetectedOK(k)'
      BY <1>1, <1>6 DEF DetectedOK
    <2> QED
      BY <2>1, <2>2 DEF CallInv, CallOK, GateOK, RecordOK, NewIdOK, BatchOK
  <1>7. CASE ConflictsOK(k)
    <2>1. k.step = "conflicts" /\ Kind(k) = "record"
      BY <1>7 DEF ConflictsOK, Kind
    <2>2. ConflictsOK(k)'
      BY <1>1, <1>7 DEF ConflictsOK
    <2>3. RecordOK(k)'
      BY <2>1 DEF RecordOK
    <2> QED
      BY <2>1, <2>2, <2>3 DEF CallInv, CallOK, GateOK, NewIdOK, BatchOK
  <1> QED
    BY <1>2, <1>3, <1>4, <1>5, <1>6, <1>7 DEF CallOK
-----------------------------------------------------------------------------
\* A call that goes on, or ends, races with no other than before.
LEMMA GoesOn ==
  ASSUME CallsInv, RaceInv, NEW p \in Process, NEW k, call' = [call EXCEPT ![p] = k],
         Kind(k) \in {"idle", Kind(call[p])}, raced' = raced
  PROVE  RaceInv'
  <1>1. call'[p] = k /\ \A q \in Process \ {p} : call'[q] = call[q]
    BY DEF CallsInv
  <1>2. ASSUME NEW q \in Process, NEW r \in Process, q # r, Kind(call'[q]) = Kind(call'[r])
        PROVE  Kind(call'[q]) \in raced \cup {"idle"}
    <2>1. CASE q = p
      BY <1>1, <1>2, <2>1 DEF RaceInv
    <2>2. CASE r = p
      BY <1>1, <1>2, <2>2 DEF RaceInv
    <2>3. CASE q # p /\ r # p
      BY <1>1, <1>2, <2>3 DEF RaceInv
    <2> QED
      BY <2>1, <2>2, <2>3
  <1> QED
    BY <1>2 DEF RaceInv

\* A call that starts races with the calls of its kind that are in hand.
LEMMA StartRaces ==
  ASSUME CallsInv, RaceInv, BoundsInv, NEW p \in Process, NEW k, Start(p, k),
         Kind(k) \in {"report", "record", "decide"}
  PROVE  /\ RaceInv' /\ raced \subseteq raced'
         /\ raced' \subseteq {"report", "record", "decide"}
         /\ call' = [call EXCEPT ![p] = k] /\ call[p] = Idle
         /\ Kind(k) \notin raced' => \A q \in Process : Kind(call[q]) # Kind(k)
  <1>1. /\ call' = [call EXCEPT ![p] = k] /\ call[p] = Idle
        /\ raced' = IF \E q \in Process : Kind(call[q]) = Kind(k) THEN raced \cup {Kind(k)} ELSE raced
    BY DEF Start
  <1>2. call'[p] = k /\ \A q \in Process \ {p} : call'[q] = call[q]
    BY <1>1 DEF CallsInv
  <1>3. raced \subseteq raced' /\ raced' \subseteq {"report", "record", "decide"}
    BY <1>1 DEF BoundsInv
  <1>4. Kind(k) \notin raced' => \A q \in Process : Kind(call[q]) # Kind(k)
    BY <1>1
  <1>5. ASSUME NEW q \in Process, NEW r \in Process, q # r, Kind(call'[q]) = Kind(call'[r])
        PROVE  Kind(call'[q]) \in raced' \cup {"idle"}
    <2>1. CASE q = p \/ r = p
      BY <1>2, <1>4, <1>5, <2>1
    <2>2. CASE q # p /\ r # p
      BY <1>2, <1>3, <1>5, <2>2 DEF RaceInv
    <2> QED
      BY <2>1, <2>2
  <1>6. RaceInv'
    BY <1>5 DEF RaceInv
  <1> QED
    BY <1>1, <1>3, <1>4, <1>6

\* What the logs say stays true while they do not change.
LEMMA LogsKept ==
  ASSUME LogsInv, EventsInv, PromotionsReviewed, ConflictsOnce, IdsInv,
         UNCHANGED <<parent, worklog>>, raced \subseteq raced', OwnIds' => OwnIds
  PROVE  (LogsInv /\ EventsInv /\ PromotionsReviewed /\ ConflictsOnce /\ IdsInv)'
  <1>1. Grow
    BY DEF Grow
  <1>2. LogsInv'
    BY DEF LogsInv, Registered, Occurs
  <1>3. EventsInv'
    BY <1>1, Grows DEF LogsInv, EventsInv, EventOK
  <1>4. Occurs("promoted")' = Occurs("promoted") /\ Occurs("conflict")' = Occurs("conflict")
    BY DEF Occurs
  <1>5. \A id : ReviewsOf(id)' = ReviewsOf(id)
    BY DEF ReviewsOf, Occurs
  <1>6. GateHolds'
    BY <1>4 DEF PromotionsReviewed, GateHolds, Finding
  <1>7. ReviewStands'
    BY <1>4, <1>5 DEF PromotionsReviewed, ReviewStands
  <1>8. ConflictsOnce'
    BY <1>4 DEF ConflictsOnce
  <1>9. IdsInv'
    BY DEF IdsInv, DefaultIds, UniqueIds
  <1> QED
    BY <1>2, <1>3, <1>6, <1>7, <1>8, <1>9 DEF PromotionsReviewed

\* So does what holds of the other calls, when one call goes on and the logs do not change.
LEMMA OnlyCall ==
  ASSUME IInv, UNCHANGED <<parent, worklog>>, NEW p \in Process, NEW k,
         call' = [call EXCEPT ![p] = k], raced \subseteq raced', OwnIds' => OwnIds,
         CallOK(k), GateOK(k), RecordOK(k), OwnIds' => NewIdOK(k),
         OwnIds' /\ "decide" \notin raced' => BatchOK(k),
         RaceInv', BoundsInv', StrandedInv'
  PROVE  IInv'
  <1>1. Grow
    BY DEF Grow
  <1>2. (LogsInv /\ EventsInv /\ PromotionsReviewed /\ ConflictsOnce /\ IdsInv)'
    BY LogsKept DEF IInv
  <1>3. \A id : Stands(id) => Stands(id)'
    BY DEF Stands, ReviewsOf, PromotedIds, Occurs
  <1>4. Recorded' = Recorded
    BY DEF Recorded, Occurs
  <1>5. CallInv(k)'
    BY <1>1, <1>2, <1>3, <1>4, CallKept DEF IInv
  <1>6. ASSUME NEW l, CallInv(l) PROVE CallInv(l)'
    <2>1. /\ CallOK(l) /\ GateOK(l) /\ RecordOK(l) /\ (OwnIds' => NewIdOK(l))
          /\ OwnIds' /\ "decide" \notin raced' => BatchOK(l)
      BY <1>6 DEF CallInv
    <2> QED
      BY <1>1, <1>2, <1>3, <1>4, <2>1, CallKept DEF IInv
  <1>7. CallsInv'
    <2>1. call' = [q \in Process |-> call'[q]] /\ call'[p] = k
      BY DEF IInv, CallsInv
    <2>2. ASSUME NEW q \in Process, q # p PROVE CallInv(call[q])'
      <3>1. PICK l : l = call[q]
        OBVIOUS
      <3>2. CallInv(l) /\ call'[q] = l
        BY <2>2, <3>1 DEF IInv, CallsInv
      <3> QED
        BY <1>6, <3>2
    <2>3. CallInv(call[p])'
      BY <1>5, <2>1
    <2> QED
      BY <2>1, <2>2, <2>3 DEF CallsInv
  <1> QED
    BY <1>2, <1>7 DEF IInv

\* A call that starts, having changed nothing yet.
LEMMA Starts ==
  ASSUME IInv, NEW p \in Process, NEW k, Start(p, k), Kind(k) \in {"report", "record", "decide"},
         UNCHANGED <<parent, worklog, aborts, stranded>>,
         reports' \in 0..MaxReports, calls' \in 0..MaxCalls, reused' \in BOOLEAN,
         OwnIds' => OwnIds,
         CallOK(k), GateOK(k), RecordOK(k), OwnIds' => NewIdOK(k),
         OwnIds' /\ "decide" \notin raced' => BatchOK(k)
  PROVE  IInv'
  <1>1. /\ RaceInv' /\ raced \subseteq raced'
        /\ raced' \subseteq {"report", "record", "decide"}
        /\ call' = [call EXCEPT ![p] = k]
    BY StartRaces DEF IInv
  <1>2. BoundsInv'
    <2>1. aborts' \in 0..MaxAborts /\ stranded' \in BOOLEAN
      BY DEF IInv, BoundsInv
    <2> QED
      BY <1>1, <2>1 DEF BoundsInv
  <1>3. StrandedInv'
    BY <1>1 DEF IInv, StrandedInv
  <1> QED
    BY <1>1, <1>2, <1>3, OnlyCall
-----------------------------------------------------------------------------
\* Every id of a finding is one a finding can have, and is at a place in a log.
LEMMA IdsAny ==
  ASSUME LogsInv
  PROVE  /\ Ids \subseteq AnyId /\ Found \subseteq Worker \X Nat
         /\ \A s \in Found : Finding(s) \in AnyFinding
  <1>1. ASSUME NEW s \in Found PROVE s \in Worker \X Nat /\ Finding(s) \in AnyFinding
    <2>1. PICK w \in Registered : s \in {w} \X DOMAIN worklog[w]
      BY DEF Found
    <2>2. w \in Worker /\ s = <<w, s[2]>> /\ s[1] = w /\ s[2] \in DOMAIN worklog[w]
      BY <2>1 DEF LogsInv
    <2>3. worklog[w] \in Seq(AnyFinding)
      BY <2>2 DEF LogsInv
    <2>4. s[2] \in Nat /\ worklog[w][s[2]] \in AnyFinding
      BY <2>2, <2>3
    <2> QED
      BY <2>2, <2>4 DEF Finding
  <1> QED
    BY <1>1 DEF Ids, AnyFinding

\* A promotion in hand, as it was read off the logs.
LEMMA PromotionOK ==
  ASSUME LogsInv, NEW plans, PlansOK(plans), NEW status, NEW batch \in BOOLEAN,
         NEW k, k = Promotion(plans, status, batch),
         status = "accepted" => Stands(Head(plans).id)
  PROVE  /\ AppendOK(k) /\ GateOK(k) /\ RecordOK(k) /\ NewIdOK(k)
         /\ Kind(k) = "decide" /\ k.step = "append" /\ k.plans = plans
  <1> DEFINE id == Head(plans).id
  <1>1. id \in Ids
    BY DEF PlansOK
  <1>2. First(id) \in Holders(id) /\ First(id) \in Found
    BY <1>1, FirstHolds DEF Holders
  <1>3. First(id) \in Worker \X Nat
    BY <1>2, IdsAny
  <1>4. Refused(id, status) \in BOOLEAN
    BY DEF Refused
  <1>5. /\ k.step = "append" /\ k.plans = plans /\ k.source = First(id)
        /\ k = [step |-> "append", plans |-> plans, batch |-> batch,
                source |-> First(id), forced |-> k.forced]
    BY DEF Promotion
  <1>6. k.forced = Refused(id, status)
    BY DEF Promotion
  <1>7. k.forced \in BOOLEAN
    BY <1>4, <1>6
  <1>8. AppendOK(k)
    BY <1>2, <1>3, <1>5, <1>7 DEF AppendOK, PlansOK
  <1>9. ~ k.forced => status = "accepted" /\ Finding(First(id)).cited
    BY <1>6, Zenon DEF Refused
  <1>10. GateOK(k)
    BY <1>5, <1>9, StandsLetThrough DEF GateOK
  <1> QED
    BY <1>5, <1>8, <1>10 DEF RecordOK, NewIdOK, Kind

\* A report is taken in hand.
LEMMA ReportKeeps ==
  ASSUME IInv, NEW p \in Process, NEW w \in Worker, NEW c \in Claim,
         NEW id \in Name \cup {DefaultId(w)}, Report(p, w, c, id)
  PROVE  IInv'
  <1>1. PICK k : k = [step    |-> "report", worker  |-> w,
                      finding |-> [id |-> id, key |-> c.key, value |-> c.value, cited |-> c.cited]]
    OBVIOUS
  <1>2. /\ Start(p, k) /\ reports < MaxReports /\ reports' = reports + 1
        /\ UNCHANGED <<parent, worklog, calls, aborts, stranded>>
    BY <1>1 DEF Report
  <1>3. reused' = (reused \/ (id \in Name /\ id \in UsedIds))
    BY DEF Report
  <1>4. /\ worklog[w] \in Seq(AnyFinding) /\ Len(worklog[w]) \in Nat
        /\ DOMAIN worklog[w] = 1..Len(worklog[w])
    BY DEF IInv, LogsInv
  <1>5. CallOK(k)
    <2>1. id \in AnyId
      BY <1>4 DEF AnyId, DefaultId
    <2>2. [id |-> id, key |-> c.key, value |-> c.value, cited |-> c.cited] \in AnyFinding
      BY <2>1, MissionAssumption DEF AnyFinding
    <2> QED
      BY <1>1, <2>2 DEF CallOK, ReportOK
  <1>6. GateOK(k) /\ RecordOK(k) /\ BatchOK(k) /\ Kind(k) = "report"
    BY <1>1 DEF GateOK, RecordOK, BatchOK, Kind
  <1>7. raced \subseteq raced'
    BY <1>2, <1>6, StartRaces DEF IInv
  <1>8. reused' \in BOOLEAN /\ (~ reused' => ~ reused /\ (id \notin Name \/ id \notin UsedIds))
    BY <1>3, Zenon
  <1>9. OwnIds' => OwnIds
    BY <1>7, <1>8 DEF OwnIds
  <1>10. ASSUME OwnIds' PROVE NewIdOK(k)
    <2>1. DefaultIds /\ UniqueIds
      BY <1>9, <1>10 DEF IInv, IdsInv
    <2>2. id \in Name \/ id = <<w, Len(worklog[w]) + 1>>
      BY DEF DefaultId
    <2>3. ASSUME NEW v \in Worker, NEW i \in DOMAIN worklog[v], worklog[v][i].id = id PROVE FALSE
      <3>1. CASE id \in Name
        <4>1. <<v, i>> \in {v} \X DOMAIN worklog[v] /\ Finding(<<v, i>>).id = id
          BY <2>3 DEF Finding
        <4>2. id \in UsedIds
          BY <4>1 DEF UsedIds
        <4> QED
          BY <1>8, <1>10, <3>1, <4>2 DEF OwnIds
      <3>2. CASE id \notin Name
        <4>1. <<v, i>> = <<w, Len(worklog[w]) + 1>>
          BY <2>1, <2>2, <2>3, <3>2 DEF DefaultIds
        <4> QED
          BY <1>4, <4>1
      <3> QED
        BY <3>1, <3>2
    <2> QED
      BY <1>1, <2>2, <2>3 DEF NewIdOK
  <1>11. reports' \in 0..MaxReports /\ calls' \in 0..MaxCalls
    <2>1. MaxReports \in Nat /\ calls \in 0..MaxCalls /\ reports \in 0..MaxReports
      BY MissionAssumption DEF IInv, BoundsInv
    <2> QED
      BY <1>2, <2>1
  <1> QED
    BY <1>2, <1>5, <1>6, <1>8, <1>9, <1>10, <1>11, Starts

\* A call that decides or records is taken in hand: it counts, and changes nothing yet.
LEMMA DecideKeeps ==
  ASSUME IInv, NEW p \in Process, NEW k, Decide(p, k), Kind(k) \in {"record", "decide"},
         CallOK(k), GateOK(k), RecordOK(k), NewIdOK(k),
         OwnIds /\ "decide" \notin raced' => BatchOK(k)
  PROVE  IInv'
  <1>1. /\ Start(p, k) /\ calls < MaxCalls /\ calls' = calls + 1
        /\ UNCHANGED <<parent, worklog, reports, aborts, stranded>>
    BY DEF Decide
  <1>2. reused' = reused /\ reused \in BOOLEAN
    BY DEF Decide, IInv, BoundsInv
  <1>3. raced \subseteq raced'
    BY <1>1, StartRaces DEF IInv
  <1>4. OwnIds' => OwnIds
    BY <1>2, <1>3 DEF OwnIds
  <1>5. reports' \in 0..MaxReports /\ calls' \in 0..MaxCalls
    <2>1. MaxCalls \in Nat /\ calls \in 0..MaxCalls /\ reports \in 0..MaxReports
      BY MissionAssumption DEF IInv, BoundsInv
    <2> QED
      BY <1>1, <2>1
  <1>6. reused' \in BOOLEAN
    BY <1>2
  <1>7. OwnIds' => NewIdOK(k)
    OBVIOUS
  <1>8. OwnIds' /\ "decide" \notin raced' => BatchOK(k)
    BY <1>4
  <1> QED
    BY <1>1, <1>4, <1>5, <1>6, <1>7, <1>8, Starts

\* A review is taken in hand.
LEMMA ReviewKeeps ==
  ASSUME IInv, NEW p \in Process, NEW id \in Ids, NEW status \in Status, Review(p, id, status)
  PROVE  IInv'
  <1> DEFINE plan == Plan(id, status, FALSE, FALSE)
  <1>1. id \in AnyId
    BY IdsAny DEF IInv
  <1>2. PICK plans : plans = <<plan>>
    OBVIOUS
  <1>3. /\ plans \in Seq(AnyPlan) /\ plans # <<>> /\ DOMAIN plans = {1}
        /\ plans[1].id = id /\ ~ plans[1].promote
    BY <1>1, <1>2 DEF Plan, AnyPlan
  <1>4. PICK k : k = WithPlans(plans, FALSE)
    OBVIOUS
  <1>5. k = [step |-> "review", plans |-> plans, batch |-> FALSE]
    BY <1>3, <1>4 DEF WithPlans
  <1>6. CallOK(k)
    BY <1>3, <1>5 DEF CallOK, DecideOK, PlansOK
  <1>7. GateOK(k) /\ RecordOK(k) /\ NewIdOK(k) /\ Kind(k) = "decide"
    BY <1>5 DEF GateOK, RecordOK, NewIdOK, Kind
  <1>8. Valid(plans[1])
    BY <1>3 DEF Valid
  <1>9. BatchOK(k)
    BY <1>3, <1>5, <1>8 DEF BatchOK
  <1>10. Decide(p, k)
    BY <1>2, <1>4 DEF Review
  <1> QED
    BY <1>6, <1>7, <1>9, <1>10, DecideKeeps

\* A batch whose decisions are all valid is taken in hand.
LEMMA ApplyDecisionsKeeps ==
  ASSUME IInv, NEW p \in Process, NEW b \in Batches, NEW ids \in [DOMAIN b -> Ids], NEW plans,
         plans = [i \in DOMAIN b |-> Plan(ids[i], b[i].status, b[i].promote, b[i].force)],
         ApplyDecisions(p, plans)
  PROVE  IInv'
  <1>1. /\ b \in Seq([status : Status, promote : BOOLEAN, force : BOOLEAN]) /\ b # <<>>
    BY MissionAssumption
  <1>2. /\ Len(b) \in Nat /\ Len(b) # 0 /\ DOMAIN b = 1..Len(b)
        /\ \A i \in 1..Len(b) : b[i] \in [status : Status, promote : BOOLEAN, force : BOOLEAN]
    <2> DEFINE S == [status : Status, promote : BOOLEAN, force : BOOLEAN]
    <2>1. b \in Seq(S)
      BY <1>1
    <2> HIDE DEF S
    <2>2. /\ Len(b) \in Nat /\ Len(b) # 0 /\ DOMAIN b = 1..Len(b)
          /\ \A i \in 1..Len(b) : b[i] \in S
      BY ONLY <1>1, <2>1
    <2> QED
      BY <2>2 DEF S
  <1>3. \A i \in 1..Len(b) : ids[i] \in Ids /\ ids[i] \in AnyId
    BY <1>2, IdsAny DEF IInv
  <1>4. ASSUME NEW i \in 1..Len(b) PROVE plans[i] \in AnyPlan /\ plans[i].id \in Ids
    <2>1. plans[i] = [id |-> ids[i], status |-> b[i].status, promote |-> b[i].promote, force |-> b[i].force]
      BY <1>2 DEF Plan
    <2> QED
      BY <1>2, <1>3, <2>1 DEF AnyPlan
  <1>5. plans = [i \in 1..Len(b) |-> plans[i]] /\ DOMAIN plans = 1..Len(b)
    BY <1>2
  <1>6. plans \in Seq(AnyPlan) /\ plans # <<>>
    <2>1. plans \in [1..Len(b) -> AnyPlan]
      BY <1>4, <1>5
    <2>2. plans \in Seq(AnyPlan)
      BY <1>2, <2>1
    <2>3. 1 \in DOMAIN plans
      BY <1>2, <1>5
    <2> QED
      BY <2>2, <2>3
  <1>7. PICK k : k = WithPlans(plans, TRUE)
    OBVIOUS
  <1>8. k = [step |-> "review", plans |-> plans, batch |-> TRUE]
    BY <1>6, <1>7 DEF WithPlans
  <1>9. CallOK(k)
    BY <1>4, <1>5, <1>6, <1>8 DEF CallOK, DecideOK, PlansOK
  <1>10. GateOK(k) /\ RecordOK(k) /\ NewIdOK(k) /\ Kind(k) = "decide"
    BY <1>8 DEF GateOK, RecordOK, NewIdOK, Kind
  <1>11. Decide(p, k) /\ \A i \in DOMAIN plans : Valid(plans[i])
    <2>1. Decide(p, WithPlans(plans, TRUE)) /\ \A i \in DOMAIN plans : Valid(plans[i])
      BY DEF ApplyDecisions
    <2> QED
      BY <1>7, <2>1
  <1>12. BatchOK(k)
    BY <1>8, <1>11 DEF BatchOK
  <1> QED
    BY <1>9, <1>10, <1>11, <1>12, DecideKeeps

\* A promotion that the gate lets through, or that is forced, is taken in hand.
LEMMA PromoteKeeps ==
  ASSUME IInv, NEW p \in Process, NEW id \in Ids, NEW force \in BOOLEAN, Promote(p, id, force)
  PROVE  IInv'
  <1>1. id \in AnyId /\ LogsInv
    BY IdsAny DEF IInv
  <1>2. PICK plans : plans = <<Plan(id, "accepted", TRUE, force)>>
    OBVIOUS
  <1>3. /\ plans \in Seq(AnyPlan) /\ plans # <<>> /\ DOMAIN plans = {1}
        /\ plans[1].id = id /\ Head(plans).id = id
    BY <1>1, <1>2, MissionAssumption DEF Plan, AnyPlan
  <1>4. PlansOK(plans)
    BY <1>3 DEF PlansOK
  <1>5. PICK status : status = StatusOf(id)
    OBVIOUS
  <1>6. PICK batch \in BOOLEAN : batch = FALSE
    OBVIOUS
  <1>6a. PICK k : k = Promotion(plans, status, batch)
    OBVIOUS
  <1>7. status = "accepted" => Stands(Head(plans).id)
    BY <1>1, <1>3, <1>5, AcceptedStands
  <1>8. /\ AppendOK(k) /\ GateOK(k) /\ RecordOK(k) /\ NewIdOK(k)
        /\ Kind(k) = "decide" /\ k.step = "append" /\ k.plans = plans
    BY <1>1, <1>4, <1>6a, <1>7, PromotionOK
  <1>9. BatchOK(k)
    BY <1>3, <1>8 DEF BatchOK
  <1>10. Decide(p, k)
    BY <1>2, <1>5, <1>6, <1>6a DEF Promote
  <1> QED
    BY <1>8, <1>9, <1>10, DecideKeeps DEF CallOK

\* The conflicts that are detected are about findings.
LEMMA DetectConflictsKeeps ==
  ASSUME IInv, NEW p \in Process, DetectConflicts(p)
  PROVE  IInv'
  <1>1. PICK k : k = [step |-> "detected", detected |-> Detected]
    OBVIOUS
  <1>2. ASSUME NEW c \in Detected PROVE DOMAIN c.ids \subseteq Ids
    <2>1. PICK key : c = Signature(key)
      BY DEF Detected
    <2>2. DOMAIN c.ids = {Finding(s).id : s \in Claiming(key)}
      BY <2>1 DEF Signature
    <2> QED
      BY <2>2 DEF Claiming, Ids
  <1>3. CallOK(k)
    BY <1>1, <1>2 DEF CallOK, DetectedOK
  <1>4. GateOK(k) /\ RecordOK(k) /\ NewIdOK(k) /\ BatchOK(k) /\ Kind(k) = "record"
    BY <1>1 DEF GateOK, RecordOK, NewIdOK, BatchOK, Kind
  <1>5. Decide(p, k)
    BY <1>1 DEF DetectConflicts
  <1> QED
    BY <1>3, <1>4, <1>5, DecideKeeps
-----------------------------------------------------------------------------
\* Nothing is asked of a call that has ended.
LEMMA IdleOK ==
  /\ CallOK(Idle) /\ GateOK(Idle) /\ RecordOK(Idle) /\ NewIdOK(Idle) /\ BatchOK(Idle)
  /\ Kind(Idle) = "idle"
  <1>1. Idle.step = "idle"
    BY DEF Idle
  <1> QED
    BY <1>1 DEF CallOK, GateOK, RecordOK, NewIdOK, BatchOK, Kind

\* A call is cut.
LEMMA AbortKeeps == ASSUME IInv, NEW p \in Process, Abort(p) PROVE IInv'
  <1>1. PICK k : k = Idle
    OBVIOUS
  <1>2. call' = [call EXCEPT ![p] = k] /\ UNCHANGED <<parent, worklog>>
    BY <1>1 DEF Abort, Goes
  <1>3. UNCHANGED <<reports, calls, raced, reused, stranded>>
    BY DEF Abort, history
  <1>4. aborts' \in 0..MaxAborts
    <2>1. aborts < MaxAborts /\ aborts' = aborts + 1
      BY DEF Abort
    <2>2. MaxAborts \in Nat /\ aborts \in 0..MaxAborts
      BY MissionAssumption DEF IInv, BoundsInv
    <2> QED
      BY <2>1, <2>2
  <1>5. BoundsInv' /\ StrandedInv' /\ OwnIds' = OwnIds /\ raced' = raced
    BY <1>3, <1>4 DEF IInv, BoundsInv, StrandedInv, OwnIds
  <1>6. RaceInv'
    BY <1>1, <1>2, <1>5, IdleOK, GoesOn DEF IInv
  <1>7. CallOK(k) /\ GateOK(k) /\ RecordOK(k) /\ NewIdOK(k) /\ BatchOK(k)
    BY <1>1, IdleOK
  <1> QED
    BY <1>2, <1>5, <1>6, <1>7, OnlyCall

\* A batch goes on to a promotion; that it is refused half-way takes another decision,
\* or another finding of that id.
LEMMA PromoteDecidedKeeps == ASSUME IInv, NEW p \in Process, PromoteDecided(p) PROVE IInv'
  <1>1. PICK c : c = call[p]
    OBVIOUS
  <1>2. PICK plans : plans = c.plans
    OBVIOUS
  <1> DEFINE plan == Head(plans)
  <1>3. /\ c.step = "promote"
        /\ \/ /\ plan.force \/ ~ Refused(plan.id, Current(plan))
              /\ Goes(p, Promotion(plans, Current(plan), TRUE)) /\ UNCHANGED stranded
           \/ /\ ~ (plan.force \/ ~ Refused(plan.id, Current(plan)))
              /\ Goes(p, Idle) /\ stranded' = TRUE
    BY <1>1, <1>2 DEF PromoteDecided
  <1>4. UNCHANGED <<parent, worklog, reports, calls, aborts, raced, reused>>
    BY DEF PromoteDecided, bounds
  <1>5. CallInv(c) /\ LogsInv
    BY <1>1 DEF IInv, CallsInv
  <1>6. DecideOK(c) /\ Kind(c) = "decide"
    BY <1>3, <1>5 DEF CallInv, CallOK, Idle, ReportOK, AppendOK, DetectedOK, ConflictsOK, Kind
  <1>7. PlansOK(plans) /\ plan = plans[1] /\ 1 \in DOMAIN plans
    BY <1>2, <1>6 DEF DecideOK, PlansOK
  <1>8. OwnIds' = OwnIds /\ raced' = raced
    BY <1>4 DEF OwnIds
  <1>9. BoundsInv'
    BY <1>3, <1>4 DEF IInv, BoundsInv
  <1>10. CASE /\ plan.force \/ ~ Refused(plan.id, Current(plan))
              /\ Goes(p, Promotion(plans, Current(plan), TRUE)) /\ UNCHANGED stranded
    <2>1. PICK status : status = Current(plan)
      OBVIOUS
    <2>2. PICK batch \in BOOLEAN : batch = TRUE
      OBVIOUS
    <2>3. PICK k : k = Promotion(plans, status, batch)
      OBVIOUS
    <2>4. status = "accepted" => Stands(plan.id)
      BY <1>5, <2>1, AcceptedStands DEF Current
    <2>5. /\ AppendOK(k) /\ GateOK(k) /\ RecordOK(k) /\ NewIdOK(k)
          /\ Kind(k) = "decide" /\ k.step = "append" /\ k.plans = plans
      BY <1>5, <1>7, <2>3, <2>4, PromotionOK
    <2>6. OwnIds /\ "decide" \notin raced => BatchOK(k)
      BY <1>2, <1>3, <1>5, <2>5 DEF CallInv, BatchOK
    <2>7. call' = [call EXCEPT ![p] = k]
      BY <1>10, <2>1, <2>2, <2>3 DEF Goes
    <2>8. RaceInv'
      BY <1>1, <1>6, <1>8, <2>5, <2>7, GoesOn DEF IInv
    <2>9. StrandedInv'
      BY <1>8, <1>10 DEF IInv, StrandedInv
    <2> QED
      BY <1>4, <1>8, <1>9, <2>5, <2>6, <2>7, <2>8, <2>9, OnlyCall DEF CallOK
  <1>11. CASE /\ ~ (plan.force \/ ~ Refused(plan.id, Current(plan)))
              /\ Goes(p, Idle) /\ stranded' = TRUE
    <2>1. ASSUME OwnIds, "decide" \notin raced PROVE FALSE
      <3>1. Valid(plan) /\ plan.promote /\ Stands(plan.id)
        BY <1>2, <1>3, <1>5, <1>7, <2>1 DEF CallInv, BatchOK
      <3>2. Current(plan) = "accepted"
        BY <1>5, <3>1, AcceptedStands DEF Current
      <3>3. plan.force \/ Finding(First(plan.id)).cited
        BY <3>1 DEF Valid, Refused
      <3> QED
        BY <1>11, <3>2, <3>3 DEF Refused
    <2>2. PICK k : k = Idle
      OBVIOUS
    <2>3. CallOK(k) /\ GateOK(k) /\ RecordOK(k) /\ NewIdOK(k) /\ BatchOK(k) /\ Kind(k) = "idle"
      BY <2>2, IdleOK
    <2>4. call' = [call EXCEPT ![p] = k]
      BY <1>11, <2>2 DEF Goes
    <2>5. RaceInv'
      BY <1>8, <2>3, <2>4, GoesOn DEF IInv
    <2>6. StrandedInv'
      BY <1>8, <2>1 DEF StrandedInv
    <2> QED
      BY <1>4, <1>8, <1>9, <2>3, <2>4, <2>5, <2>6, OnlyCall
  <1> QED
    BY <1>3, <1>10, <1>11

\* The conflicts that are not recorded by now will be.
LEMMA ReadRecordedKeeps == ASSUME IInv, NEW p \in Process, ReadRecorded(p) PROVE IInv'
  <1>1. PICK c : c = call[p]
    OBVIOUS
  <1>2. PICK missing : missing = Missing(c.detected)
    OBVIOUS
  <1>3. PICK k : k = ToRecord(missing)
    OBVIOUS
  <1>4. c.step = "detected" /\ call' = [call EXCEPT ![p] = k] /\ UNCHANGED <<parent, worklog>>
    BY <1>1, <1>2, <1>3 DEF ReadRecorded, Goes
  <1>5. UNCHANGED <<reports, calls, aborts, raced, reused, stranded>>
    BY DEF ReadRecorded, bounds, history
  <1>6. CallInv(c)
    BY <1>1 DEF IInv, CallsInv
  <1>7. DetectedOK(c) /\ Kind(c) = "record"
    BY <1>4, <1>6 DEF CallInv, CallOK, Idle, ReportOK, DecideOK, AppendOK, ConflictsOK, Kind
  <1>8. BoundsInv' /\ StrandedInv' /\ OwnIds' = OwnIds /\ raced' = raced
    BY <1>5 DEF IInv, BoundsInv, StrandedInv, OwnIds
  <1>9. /\ CallOK(k) /\ GateOK(k) /\ RecordOK(k) /\ NewIdOK(k) /\ BatchOK(k)
        /\ Kind(k) \in {"idle", "record"}
    <2>1. CASE missing = {}
      BY <1>3, <2>1, IdleOK DEF ToRecord
    <2>2. CASE missing # {}
      <3>1. k = [step |-> "conflicts", conflicts |-> missing]
        BY <1>3, <2>2 DEF ToRecord
      <3>2. missing \subseteq c.detected /\ missing \cap Recorded = {}
        BY <1>2 DEF Missing
      <3>3. ConflictsOK(k)
        BY <1>7, <3>1, <3>2 DEF ConflictsOK, DetectedOK
      <3> QED
        BY <3>1, <3>2, <3>3 DEF CallOK, GateOK, RecordOK, NewIdOK, BatchOK, Kind
    <2> QED
      BY <2>1, <2>2
  <1>10. RaceInv'
    BY <1>1, <1>4, <1>7, <1>8, <1>9, GoesOn DEF IInv
  <1> QED
    BY <1>4, <1>8, <1>9, <1>10, OnlyCall
-----------------------------------------------------------------------------
\* The gate, promotion by promotion.
GateAt(i) ==
  ~ parent[i].forced =>
    /\ Finding(parent[i].source).cited
    /\ \E j \in 1..(i - 1) :
         /\ parent[j].type \in {"reviewed", "promoted"}
         /\ parent[j].id = parent[i].id
         /\ parent[j].type = "reviewed" => parent[j].status = "accepted"
StandsAt(i) ==
  "decide" \notin raced /\ ~ parent[i].forced =>
    \/ \E j \in 1..(i - 1) : parent[j].type = "promoted" /\ parent[j].id = parent[i].id
    \/ \E j \in ReviewsOf(parent[i].id) :
         /\ j < i
         /\ parent[j].status = "accepted"
         /\ \A l \in ReviewsOf(parent[i].id) : l <= j \/ l > i
GatesHold == \A i \in Occurs("promoted") : GateAt(i) /\ StandsAt(i)

\* That the gate held is as much as that it held for each promotion.
LEMMA GateAtEach == PromotionsReviewed <=> GatesHold
  <1>1. GateHolds <=> \A i \in Occurs("promoted") : GateAt(i)
    BY DEF GateHolds, GateAt
  <1>2. ReviewStands <=> \A i \in Occurs("promoted") : StandsAt(i)
    BY DEF ReviewStands, StandsAt
  <1> QED
    BY <1>1, <1>2 DEF PromotionsReviewed, GatesHold

\* What the logs record stays true of what was recorded when they grow.
LEMMA RecordsKept ==
  ASSUME LogsInv, LogsInv', EventsInv, PromotionsReviewed, Grow, raced' = raced,
         NEW i \in DOMAIN parent
  PROVE  EventOK(parent[i])' /\ (i \in Occurs("promoted") => GateAt(i)' /\ StandsAt(i)')
  <1>1. /\ Ids \subseteq Ids' /\ PromotedIds \subseteq PromotedIds'
        /\ Found \subseteq Found' /\ \A s \in Found : Finding(s)' = Finding(s)
        /\ \A id : Holders(id) \subseteq Holders(id)'
    BY Grows DEF LogsInv
  <1>2. /\ DOMAIN parent = 1..Len(parent) /\ Len(parent) \in Nat
        /\ DOMAIN parent' = 1..Len(parent') /\ Len(parent') \in Nat
    BY DEF LogsInv
  <1>3. \A j \in DOMAIN parent : j \in DOMAIN parent' /\ parent'[j] = parent[j]
    BY DEF Grow
  <1>4. PICK e : e = parent[i]
    OBVIOUS
  <1>5. EventOK(e) /\ parent'[i] = e
    BY <1>3, <1>4 DEF EventsInv
  <1>6. EventOK(e)'
    BY <1>1, <1>5 DEF EventOK
  <1>7. EventOK(parent[i])'
    BY <1>5, <1>6
  <1>8. ASSUME i \in Occurs("promoted") PROVE GateAt(i)' /\ StandsAt(i)'
    <2>1. e.type = "promoted" /\ GateAt(i) /\ StandsAt(i)
      BY <1>4, <1>8, GateAtEach DEF Occurs, GatesHold
    <2>2. e.source \in Found
      BY <1>5, <2>1 DEF EventOK, Holders
    <2>3. \A j \in 1..(i - 1) : j \in DOMAIN parent /\ parent'[j] = parent[j]
      BY <1>2, <1>3
    <2>4. GateAt(i)'
      BY <1>1, <1>4, <1>5, <2>1, <2>2, <2>3 DEF GateAt
    <2>5. ASSUME NEW id, NEW l \in ReviewsOf(id)' PROVE l \in ReviewsOf(id) \/ l > i
      <3>1. l \in DOMAIN parent' /\ (l \in DOMAIN parent \/ l > Len(parent))
        BY <1>2 DEF ReviewsOf, Occurs
      <3>2. CASE l \in DOMAIN parent
        BY <1>3, <3>2 DEF ReviewsOf, Occurs
      <3>3. CASE l > Len(parent)
        BY <1>2, <3>1, <3>3
      <3> QED
        BY <3>1, <3>2, <3>3
    <2>6. \A id : ReviewsOf(id) \subseteq ReviewsOf(id)'
      BY <1>3 DEF ReviewsOf, Occurs
    <2>7. ASSUME "decide" \notin raced, ~ e.forced
          PROVE  \/ \E j \in 1..(i - 1) : parent'[j].type = "promoted" /\ parent'[j].id = e.id
                 \/ \E j \in ReviewsOf(e.id)' :
                      /\ j < i
                      /\ parent'[j].status = "accepted"
                      /\ \A l \in ReviewsOf(e.id)' : l <= j \/ l > i
      <3>1. CASE \E j \in 1..(i - 1) : parent[j].type = "promoted" /\ parent[j].id = e.id
        BY <2>3, <3>1
      <3>2. ASSUME NEW j \in ReviewsOf(e.id), j < i, parent[j].status = "accepted",
                   \A l \in ReviewsOf(e.id) : l <= j \/ l > i
            PROVE  /\ j \in ReviewsOf(e.id)' /\ parent'[j].status = "accepted"
                   /\ \A l \in ReviewsOf(e.id)' : l <= j \/ l > i
        <4>1. parent'[j] = parent[j]
          BY <1>3 DEF ReviewsOf, Occurs
        <4> QED
          BY <2>5, <2>6, <3>2, <4>1
      <3> QED
        BY <1>4, <2>1, <2>7, <3>1, <3>2 DEF StandsAt
    <2>8. StandsAt(i)'
      BY <1>5, <2>7 DEF StandsAt
    <2> QED
      BY <2>4, <2>8
  <1> QED
    BY <1>7, <1>8

\* A step that grows the logs keeps the invariant, if it does so for what it adds, for
\* its own call, and for calls that rely on what they have read.
LEMMA LogStep ==
  ASSUME IInv, Grow, LogsInv', UNCHANGED <<reports, calls, aborts, raced, reused, stranded>>,
         NEW p \in Process, NEW k, call' = [call EXCEPT ![p] = k],
         CallInv(k)', Kind(k) \in {"idle", Kind(call[p])},
         Kind(call[p]) # "decide" => \A id : Stands(id) => Stands(id)',
         Kind(call[p]) # "record" => Recorded' = Recorded,
         Kind(call[p]) # "report" => worklog' = worklog,
         \A i \in DOMAIN parent' \ DOMAIN parent :
           /\ EventOK(parent[i])'
           /\ i \in Occurs("promoted")' => GateAt(i)' /\ StandsAt(i)',
         ConflictsOnce', IdsInv'
  PROVE  IInv'
  <1>1. BoundsInv' /\ StrandedInv' /\ OwnIds' = OwnIds /\ raced' = raced
    BY DEF IInv, BoundsInv, StrandedInv, OwnIds
  <1>2. RaceInv'
    BY <1>1, GoesOn DEF IInv
  <1>3. EventsInv'
    <2>1. ASSUME NEW i \in DOMAIN parent' PROVE EventOK(parent[i])'
      BY <1>1, RecordsKept DEF IInv
    <2> QED
      BY <2>1 DEF EventsInv
  <1>4. GatesHold'
    <2>1. ASSUME NEW i \in Occurs("promoted")', i \in DOMAIN parent PROVE i \in Occurs("promoted")
      BY <2>1 DEF Occurs, Grow
    <2>2. ASSUME NEW i \in Occurs("promoted")' PROVE GateAt(i)' /\ StandsAt(i)'
      <3>1. i \in DOMAIN parent'
        BY DEF Occurs
      <3>2. CASE i \in DOMAIN parent
        BY <1>1, <2>1, <3>2, RecordsKept DEF IInv
      <3>3. CASE i \notin DOMAIN parent
        BY <3>1, <3>3
      <3> QED
        BY <3>2, <3>3
    <2> QED
      BY <2>2 DEF GatesHold
  <1>5. PromotionsReviewed'
    BY <1>4, GateAtEach, PTL
  <1>6. ASSUME NEW q \in Process, q # p PROVE CallInv(call[q])'
    <2>1. PICK l : l = call[q]
      OBVIOUS
    <2>2. CallInv(l) /\ call'[q] = l
      BY <1>6, <2>1 DEF IInv, CallsInv
    <2>3. /\ CallOK(l) /\ GateOK(l) /\ RecordOK(l) /\ (OwnIds' => NewIdOK(l))
          /\ OwnIds' /\ "decide" \notin raced' => BatchOK(l)
      BY <1>1, <2>2 DEF CallInv
    <2>4. Kind(l) = Kind(call[p]) => Kind(l) \in raced' \cup {"idle"}
      BY <1>1, <1>6, <2>1 DEF IInv, RaceInv
    <2>5. /\ Kind(l) = "decide" /\ "decide" \notin raced' => \A id : Stands(id) => Stands(id)'
          /\ Kind(l) = "record" /\ "record" \notin raced' => Recorded' = Recorded
          /\ Kind(l) = "report" /\ "report" \notin raced' => worklog' = worklog
      BY <2>4
    <2>6. CallInv(l)'
      BY <1>1, <2>3, <2>5, CallKept DEF IInv
    <2> QED
      BY <2>2, <2>6
  <1>7. CallsInv'
    <2>1. call' = [q \in Process |-> call'[q]] /\ call'[p] = k
      BY DEF IInv, CallsInv
    <2>2. CallInv(call[p])'
      BY <2>1
    <2> QED
      BY <1>6, <2>1, <2>2 DEF CallsInv
  <1> QED
    BY <1>1, <1>2, <1>3, <1>5, <1>7 DEF IInv

\* What a longer parent log leaves as it was, by what is not new in it.
LEMMA ParentGrows ==
  ASSUME IInv, worklog' = worklog, raced' = raced, reused' = reused,
         parent' \in Seq(Entries(parent)'),
         \A i \in DOMAIN parent : i \in DOMAIN parent' /\ parent'[i] = parent[i],
         \A i \in DOMAIN parent' \ DOMAIN parent :
           parent'[i].type = "worker" => parent'[i].worker \in Worker
  PROVE  /\ LogsInv' /\ Grow /\ IdsInv'
         /\ (\A i \in DOMAIN parent' \ DOMAIN parent : parent'[i].type # "reviewed")
              => \A id : Stands(id) => Stands(id)'
         /\ (\A i \in DOMAIN parent' \ DOMAIN parent : parent'[i].type # "conflict")
              => Recorded' = Recorded /\ ConflictsOnce'
  <1>1. Grow
    BY DEF Grow
  <1>2. LogsInv'
    <2>1. ASSUME NEW i \in Occurs("worker")' PROVE parent'[i].worker \in Worker
      <3>1. i \in DOMAIN parent => i \in Occurs("worker") /\ parent'[i] = parent[i]
        BY DEF Occurs
      <3>2. i \in Occurs("worker") => parent[i].worker \in Worker
        BY DEF IInv, LogsInv, Registered
      <3> QED
        BY <3>1, <3>2 DEF Occurs
    <2>2. Registered' \subseteq Worker
      BY <2>1 DEF Registered
    <2> QED
      BY <2>2 DEF IInv, LogsInv
  <1>3. IdsInv'
    BY DEF IInv, IdsInv, OwnIds, DefaultIds, UniqueIds
  <1>4. ASSUME NEW type, \A i \in DOMAIN parent' \ DOMAIN parent : parent'[i].type # type
        PROVE  Occurs(type)' = Occurs(type) /\ \A i \in Occurs(type) : parent'[i] = parent[i]
    BY <1>4 DEF Occurs
  <1>5. ASSUME \A i \in DOMAIN parent' \ DOMAIN parent : parent'[i].type # "reviewed", NEW id, Stands(id)
        PROVE  Stands(id)'
    <2>1. Occurs("reviewed")' = Occurs("reviewed")
          /\ \A i \in Occurs("reviewed") : parent'[i] = parent[i]
      BY <1>4, <1>5
    <2>2. ReviewsOf(id)' = ReviewsOf(id) /\ \A i \in ReviewsOf(id) : parent'[i] = parent[i]
      BY <2>1 DEF ReviewsOf
    <2>3. PromotedIds \subseteq PromotedIds'
      BY <1>1, Grows DEF IInv, LogsInv
    <2> QED
      BY <1>5, <2>2, <2>3 DEF Stands
  <1>6. ASSUME \A i \in DOMAIN parent' \ DOMAIN parent : parent'[i].type # "conflict"
        PROVE  Recorded' = Recorded /\ ConflictsOnce'
    <2>1. Occurs("conflict")' = Occurs("conflict")
          /\ \A i \in Occurs("conflict") : parent'[i] = parent[i]
      BY <1>4, <1>6
    <2>2. Recorded' = Recorded
      BY <2>1 DEF Recorded
    <2>3. ConflictsOnce'
      BY <2>1 DEF IInv, ConflictsOnce
    <2> QED
      BY <2>2, <2>3
  <1> QED
    BY <1>1, <1>2, <1>3, <1>5, <1>6

\* The same for one more event.
LEMMA ParentAppends ==
  ASSUME IInv, worklog' = worklog, raced' = raced, reused' = reused,
         NEW e, parent' = Append(parent, e), e.type = "worker" => e.worker \in Worker
  PROVE  /\ LogsInv' /\ Grow /\ IdsInv'
         /\ DOMAIN parent = 1..Len(parent) /\ Len(parent) \in Nat
         /\ DOMAIN parent' = 1..(Len(parent) + 1) /\ parent'[Len(parent) + 1] = e
         /\ \A i \in DOMAIN parent' \ DOMAIN parent : i = Len(parent) + 1
         /\ e.type # "reviewed" => \A id : Stands(id) => Stands(id)'
         /\ e.type # "conflict" => Recorded' = Recorded /\ ConflictsOnce'
  <1>1. parent \in Seq(Entries(parent))
    BY DEF IInv, LogsInv
  <1>2. /\ parent' \in Seq(Entries(parent)')
        /\ DOMAIN parent = 1..Len(parent) /\ Len(parent) \in Nat
        /\ DOMAIN parent' = 1..(Len(parent) + 1) /\ parent'[Len(parent) + 1] = e
        /\ \A i \in DOMAIN parent : parent'[i] = parent[i]
    <2> DEFINE S == Entries(parent) \cup {e}
    <2>1. parent \in Seq(S) /\ e \in S
      BY <1>1 DEF Entries
    <2> HIDE DEF S
    <2>2. /\ parent' \in Seq(S) /\ Len(parent) \in Nat
          /\ DOMAIN parent = 1..Len(parent) /\ DOMAIN parent' = 1..(Len(parent) + 1)
          /\ parent'[Len(parent) + 1] = e /\ \A i \in DOMAIN parent : parent'[i] = parent[i]
      BY <2>1
    <2>3. parent' \in Seq(Entries(parent)')
      BY <2>2 DEF Entries
    <2> QED
      BY <2>2, <2>3
  <1>3. /\ \A i \in DOMAIN parent : i \in DOMAIN parent'
        /\ \A i \in DOMAIN parent' \ DOMAIN parent : i = Len(parent) + 1
    BY <1>2
  <1>4. \A i \in DOMAIN parent' \ DOMAIN parent : parent'[i] = e
    BY <1>2, <1>3
  <1>5. /\ LogsInv' /\ Grow /\ IdsInv'
        /\ e.type # "reviewed" => \A id : Stands(id) => Stands(id)'
        /\ e.type # "conflict" => Recorded' = Recorded /\ ConflictsOnce'
    BY <1>2, <1>3, <1>4, ParentGrows
  <1> QED
    BY <1>2, <1>3, <1>5
-----------------------------------------------------------------------------
\* A worker is registered: what it has reported is found.
LEMMA CreateWorkerKeeps ==
  ASSUME IInv, NEW p \in Process, NEW w \in Worker, CreateWorker(p, w)
  PROVE  IInv'
  <1>1. PICK e : e = [type |-> "worker", worker |-> w]
    OBVIOUS
  <1>2. PICK k : k = call[p]
    OBVIOUS
  <1>3. parent' = Append(parent, e) /\ k = Idle /\ call' = call /\ worklog' = worklog
    BY <1>1, <1>2 DEF CreateWorker
  <1>4. UNCHANGED <<reports, calls, aborts, raced, reused, stranded>>
    BY DEF CreateWorker, bounds, history
  <1>5. e.type = "worker" /\ e.worker = w
    BY <1>1
  <1>6. /\ LogsInv' /\ Grow /\ IdsInv'
        /\ parent'[Len(parent) + 1] = e
        /\ \A i \in DOMAIN parent' \ DOMAIN parent : i = Len(parent) + 1
        /\ \A id : Stands(id) => Stands(id)'
        /\ Recorded' = Recorded /\ ConflictsOnce'
    BY <1>3, <1>4, <1>5, ParentAppends
  <1>7. call' = [call EXCEPT ![p] = k]
    BY <1>2, <1>3 DEF IInv, CallsInv
  <1>8. CallInv(k)'
    <2>1. k.step = "idle"
      BY <1>3 DEF Idle
    <2> QED
      BY <1>3, <2>1 DEF CallInv, CallOK, GateOK, RecordOK, NewIdOK, BatchOK
  <1>9. ASSUME NEW i \in DOMAIN parent' \ DOMAIN parent
        PROVE  /\ EventOK(parent[i])'
               /\ i \in Occurs("promoted")' => GateAt(i)' /\ StandsAt(i)'
    <2>1. parent'[i] = e
      BY <1>6, <1>9
    <2>2. EventOK(e)'
      BY <1>5 DEF EventOK
    <2> QED
      BY <1>5, <2>1, <2>2 DEF Occurs
  <1> QED
    BY <1>2, <1>3, <1>4, <1>6, <1>7, <1>8, <1>9, LogStep

\* A conflict is recorded, which was not if no other recording is in hand.
LEMMA AppendConflictKeeps == ASSUME IInv, NEW p \in Process, AppendConflict(p) PROVE IInv'
  <1>1. PICK l : l = call[p]
    OBVIOUS
  <1>2. PICK c \in l.conflicts :
          /\ parent' = Append(parent, [type |-> "conflict", signature |-> c])
          /\ Goes(p, ToRecord(l.conflicts \ {c}))
    BY <1>1 DEF AppendConflict
  <1>3. PICK e : e = [type |-> "conflict", signature |-> c]
    OBVIOUS
  <1>4. PICK k : k = ToRecord(l.conflicts \ {c})
    OBVIOUS
  <1>5. /\ l.step = "conflicts" /\ worklog' = worklog
        /\ parent' = Append(parent, e) /\ call' = [call EXCEPT ![p] = k]
    BY <1>1, <1>2, <1>3, <1>4 DEF AppendConflict, Goes
  <1>6. UNCHANGED <<reports, calls, aborts, raced, reused, stranded>>
    BY DEF AppendConflict, bounds, history
  <1>7. CallInv(l)
    BY <1>1 DEF IInv, CallsInv
  <1>8. ConflictsOK(l) /\ Kind(l) = "record"
    BY <1>5, <1>7 DEF CallInv, CallOK, Idle, ReportOK, DecideOK, AppendOK, DetectedOK, Kind
  <1>9. e.type = "conflict" /\ e.signature = c
    BY <1>3
  <1>10. /\ LogsInv' /\ Grow /\ IdsInv'
         /\ DOMAIN parent = 1..Len(parent) /\ Len(parent) \in Nat
         /\ DOMAIN parent' = 1..(Len(parent) + 1) /\ parent'[Len(parent) + 1] = e
         /\ \A i \in DOMAIN parent' \ DOMAIN parent : i = Len(parent) + 1
         /\ \A id : Stands(id) => Stands(id)'
    BY <1>5, <1>6, <1>9, ParentAppends
  <1>11. Ids \subseteq Ids'
    BY <1>10, Grows DEF IInv, LogsInv
  <1>12. \A i \in DOMAIN parent : parent'[i] = parent[i]
    BY <1>10 DEF Grow
  <1>13. ASSUME NEW i \in Occurs("conflict")'
         PROVE  \/ i \in Occurs("conflict") /\ parent'[i] = parent[i]
                \/ i = Len(parent) + 1 /\ parent'[i] = e
    <2>1. i \in DOMAIN parent' /\ parent'[i].type = "conflict"
      BY DEF Occurs
    <2>2. CASE i \in DOMAIN parent
      BY <1>12, <2>1, <2>2 DEF Occurs
    <2>3. CASE i \notin DOMAIN parent
      BY <1>10, <2>1, <2>3
    <2> QED
      BY <2>2, <2>3
  <1>14. ASSUME "record" \notin raced PROVE c \notin Recorded
    BY <1>5, <1>7, <1>14 DEF CallInv, RecordOK
  <1>15. ConflictsOnce'
    <2>1. ASSUME "record" \notin raced, NEW i \in Occurs("conflict")', NEW j \in Occurs("conflict")',
                 parent'[i].signature = parent'[j].signature
          PROVE  i = j
      <3>1. \A m \in Occurs("conflict") : parent[m].signature # c
        BY <1>14, <2>1 DEF Recorded
      <3>2. CASE i \in Occurs("conflict") /\ j \in Occurs("conflict") /\ parent'[i] = parent[i] /\ parent'[j] = parent[j]
        BY <2>1, <3>2 DEF IInv, ConflictsOnce
      <3> QED
        BY <1>9, <1>13, <2>1, <3>1, <3>2
    <2> QED
      BY <1>6, <2>1 DEF ConflictsOnce
  <1>16. CallInv(k)' /\ Kind(k) \in {"idle", "record"}
    <2>1. CASE l.conflicts \ {c} = {}
      <3>1. k = Idle /\ k.step = "idle"
        BY <1>4, <2>1 DEF ToRecord, Idle
      <3> QED
        BY <3>1 DEF CallInv, CallOK, GateOK, RecordOK, NewIdOK, BatchOK, Kind
    <2>2. CASE l.conflicts \ {c} # {}
      <3>1. k = [step |-> "conflicts", conflicts |-> l.conflicts \ {c}]
        BY <1>4, <2>2 DEF ToRecord
      <3>2. ConflictsOK(k)'
        BY <1>8, <1>11, <3>1 DEF ConflictsOK
      <3>3. Recorded' \subseteq Recorded \cup {c}
        BY <1>9, <1>13 DEF Recorded
      <3>4. RecordOK(k)'
        BY <1>5, <1>6, <1>7, <3>1, <3>3 DEF CallInv, RecordOK
      <3> QED
        BY <3>1, <3>2, <3>4 DEF CallInv, CallOK, GateOK, NewIdOK, BatchOK, Kind
    <2> QED
      BY <2>1, <2>2
  <1>17. ASSUME NEW i \in DOMAIN parent' \ DOMAIN parent
         PROVE  /\ EventOK(parent[i])'
                /\ i \in Occurs("promoted")' => GateAt(i)' /\ StandsAt(i)'
    <2>1. parent'[i] = e
      BY <1>10, <1>17
    <2>2. EventOK(e)'
      BY <1>8, <1>9, <1>11 DEF EventOK, ConflictsOK
    <2> QED
      BY <1>9, <2>1, <2>2 DEF Occurs
  <1> QED
    BY <1>1, <1>5, <1>6, <1>8, <1>10, <1>15, <1>16, <1>17, LogStep

\* A finding lands in the log of its worker, where its id says if ids are told apart.
LEMMA AppendFindingKeeps == ASSUME IInv, NEW p \in Process, AppendFinding(p) PROVE IInv'
  <1>1. PICK l : l = call[p]
    OBVIOUS
  <1>2. PICK k : k = Idle
    OBVIOUS
  <1>3. PICK w : w = l.worker
    OBVIOUS
  <1>4. PICK f : f = l.finding
    OBVIOUS
  <1>5. /\ l.step = "report" /\ worklog' = [worklog EXCEPT ![w] = Append(worklog[w], f)]
        /\ call' = [call EXCEPT ![p] = k] /\ parent' = parent
    BY <1>1, <1>2, <1>3, <1>4 DEF AppendFinding, Goes
  <1>6. UNCHANGED <<reports, calls, aborts, raced, reused, stranded>>
    BY DEF AppendFinding, bounds, history
  <1>7. CallInv(l)
    BY <1>1 DEF IInv, CallsInv
  <1>8. ReportOK(l) /\ Kind(l) = "report"
    BY <1>5, <1>7 DEF CallInv, CallOK, Idle, DecideOK, AppendOK, DetectedOK, ConflictsOK, Kind
  <1>9. w \in Worker /\ f \in AnyFinding
    BY <1>3, <1>4, <1>8 DEF ReportOK
  <1> DEFINE n == Len(worklog[w])
  <1>10. /\ \A v \in Worker : worklog[v] \in Seq(AnyFinding)
         /\ n \in Nat
         /\ worklog' \in [Worker -> Seq(AnyFinding)]
         /\ \A v \in Worker \ {w} : worklog'[v] = worklog[v]
         /\ DOMAIN worklog[w] = 1..n /\ DOMAIN worklog'[w] = 1..(n + 1)
         /\ worklog'[w][n + 1] = f /\ \A i \in 1..n : worklog'[w][i] = worklog[w][i]
    <2>1. worklog \in [Worker -> Seq(AnyFinding)]
      BY DEF IInv, LogsInv
    <2>2. worklog'[w] = Append(worklog[w], f) /\ worklog[w] \in Seq(AnyFinding)
      BY <1>5, <1>9, <2>1
    <2>3. /\ Append(worklog[w], f) \in Seq(AnyFinding) /\ n \in Nat
          /\ DOMAIN worklog[w] = 1..n /\ DOMAIN Append(worklog[w], f) = 1..(n + 1)
          /\ Append(worklog[w], f)[n + 1] = f
          /\ \A i \in 1..n : Append(worklog[w], f)[i] = worklog[w][i]
      BY <1>9, <2>2
    <2>4. /\ worklog' \in [Worker -> Seq(AnyFinding)]
          /\ \A v \in Worker \ {w} : worklog'[v] = worklog[v]
      BY <1>5, <1>9, <2>1, <2>3
    <2> QED
      BY <2>1, <2>2, <2>3, <2>4
  <1> HIDE DEF n
  <1>11. LogsInv'
    BY <1>5, <1>10 DEF IInv, LogsInv, Registered, Occurs, Entries
  <1>12. Grow
    <2>1. ASSUME NEW v \in Worker, NEW i \in DOMAIN worklog[v]
          PROVE  i \in DOMAIN worklog'[v] /\ worklog'[v][i] = worklog[v][i]
      <3>1. CASE v = w
        BY <1>10, <2>1, <3>1
      <3>2. CASE v # w
        BY <1>10, <2>1, <3>2
      <3> QED
        BY <3>1, <3>2
    <2> QED
      BY <1>5, <2>1 DEF Grow
  <1>13. \A v \in Worker : \A i \in DOMAIN worklog'[v] :
           \/ i \in DOMAIN worklog[v] /\ worklog'[v][i] = worklog[v][i]
           \/ v = w /\ i = n + 1 /\ worklog'[v][i] = f
    <2>1. ASSUME NEW v \in Worker, NEW i \in DOMAIN worklog'[v]
          PROVE  \/ i \in DOMAIN worklog[v] /\ worklog'[v][i] = worklog[v][i]
                 \/ v = w /\ i = n + 1 /\ worklog'[v][i] = f
      <3>1. CASE v = w
        BY <1>10, <2>1, <3>1
      <3>2. CASE v # w
        BY <1>10, <2>1, <3>2
      <3> QED
        BY <3>1, <3>2
    <2> QED
      BY <2>1
  <1>14. ASSUME OwnIds PROVE DefaultIds' /\ UniqueIds'
    <2>1. DefaultIds /\ UniqueIds /\ NewIdOK(l)
      BY <1>7, <1>14 DEF IInv, IdsInv, CallInv
    <2>2. /\ f.id \in Name \/ f.id = <<w, n + 1>>
          /\ \A v \in Worker : \A i \in DOMAIN worklog[v] : worklog[v][i].id # f.id
      BY <1>3, <1>4, <1>5, <2>1 DEF NewIdOK, n
    <2>3. DefaultIds'
      BY <1>13, <2>1, <2>2 DEF DefaultIds
    <2>4. UniqueIds'
      BY <1>13, <2>1, <2>2 DEF UniqueIds
    <2> QED
      BY <2>3, <2>4
  <1>15. OwnIds' = OwnIds /\ Occurs("conflict")' = Occurs("conflict")
         /\ \A id : ReviewsOf(id)' = ReviewsOf(id) /\ PromotedIds' = PromotedIds
    BY <1>5, <1>6 DEF OwnIds, Occurs, ReviewsOf, PromotedIds
  <1>16. ConflictsOnce' /\ IdsInv' /\ Recorded' = Recorded
    BY <1>5, <1>6, <1>14, <1>15 DEF IInv, ConflictsOnce, IdsInv, Recorded
  <1>17. \A id : Stands(id) => Stands(id)'
    BY <1>5, <1>15 DEF Stands
  <1>18. CallInv(k)' /\ Kind(k) = "idle"
    <2>1. k.step = "idle"
      BY <1>2 DEF Idle
    <2> QED
      BY <1>2, <2>1 DEF CallInv, CallOK, GateOK, RecordOK, NewIdOK, BatchOK, Kind
  <1> QED
    BY <1>1, <1>5, <1>6, <1>8, <1>11, <1>12, <1>16, <1>17, <1>18, LogStep

\* What remains of the plans of a call, of which all but the first are valid.
LEMMA RestOK ==
  ASSUME LogsInv, Grow, NEW plans, PlansOK(plans), NEW batch \in BOOLEAN,
         NEW k, k = WithPlans(Tail(plans), batch),
         (OwnIds /\ "decide" \notin raced)' => \A i \in DOMAIN plans : i # 1 => Valid(plans[i])'
  PROVE  CallInv(k)' /\ Kind(k) \in {"idle", "decide"}
  <1>1. /\ plans \in Seq(AnyPlan) /\ plans # <<>> /\ \A i \in DOMAIN plans : plans[i].id \in Ids'
    BY Grows DEF LogsInv, PlansOK
  <1>2. CASE Tail(plans) = <<>>
    <2>1. k = Idle /\ k.step = "idle"
      BY <1>2 DEF WithPlans, Idle
    <2> QED
      BY <2>1 DEF CallInv, CallOK, GateOK, RecordOK, NewIdOK, BatchOK, Kind
  <1>3. CASE Tail(plans) # <<>>
    <2>1. PICK rest : rest = Tail(plans)
      OBVIOUS
    <2>2. /\ rest \in Seq(AnyPlan) /\ rest # <<>>
          /\ \A i \in DOMAIN rest : i + 1 \in DOMAIN plans /\ i + 1 # 1 /\ rest[i] = plans[i + 1]
      BY <1>1, <1>3, <2>1
    <2>3. k = [step |-> "review", plans |-> rest, batch |-> batch]
      BY <1>3, <2>1 DEF WithPlans
    <2>4. PlansOK(rest)'
      BY <1>1, <2>2 DEF PlansOK
    <2>5. DecideOK(k)'
      BY <2>2, <2>3, <2>4 DEF DecideOK
    <2>6. (OwnIds /\ "decide" \notin raced)' => \A i \in DOMAIN rest : Valid(rest[i])'
      <3>1. ASSUME (OwnIds /\ "decide" \notin raced)', NEW i \in DOMAIN rest PROVE Valid(rest[i])'
        <4>1. Valid(plans[i + 1])' /\ rest[i] = plans[i + 1]
          BY <2>2, <3>1
        <4> QED
          BY <4>1
      <3> QED
        BY <3>1
    <2>7. (OwnIds /\ "decide" \notin raced => BatchOK(k))'
      BY <2>3, <2>6 DEF BatchOK
    <2> QED
      BY <2>3, <2>5, <2>7 DEF CallInv, CallOK, GateOK, RecordOK, NewIdOK, Kind
  <1> QED
    BY <1>2, <1>3

\* The review of a plan: where nobody else decides, what it accepts stands.
LEMMA AppendReviewKeeps == ASSUME IInv, NEW p \in Process, AppendReview(p) PROVE IInv'
  <1>1. PICK l : l = call[p]
    OBVIOUS
  <1>2. PICK plans : plans = l.plans
    OBVIOUS
  <1>3. PICK plan : plan = Head(plans)
    OBVIOUS
  <1>4. PICK e : e = [type |-> "reviewed", id |-> plan.id, status |-> plan.status]
    OBVIOUS
  <1>5. PICK k : k = IF plan.promote /\ plan.status = "accepted"
                       THEN [l EXCEPT !.step = "promote"]
                       ELSE WithPlans(Tail(plans), l.batch)
    OBVIOUS
  <1>6. /\ l.step = "review" /\ worklog' = worklog
        /\ parent' = Append(parent, e) /\ call' = [call EXCEPT ![p] = k]
    BY <1>1, <1>2, <1>3, <1>4, <1>5 DEF AppendReview, Goes
  <1>7. UNCHANGED <<reports, calls, aborts, raced, reused, stranded>>
    BY DEF AppendReview, bounds, history
  <1>8. CallInv(l)
    BY <1>1 DEF IInv, CallsInv
  <1>9. DecideOK(l) /\ Kind(l) = "decide"
    BY <1>6, <1>8 DEF CallInv, CallOK, Idle, ReportOK, AppendOK, DetectedOK, ConflictsOK, Kind
  <1>10. /\ PlansOK(plans) /\ plans \in Seq(AnyPlan) /\ plan = plans[1] /\ 1 \in DOMAIN plans
         /\ plan.id \in Ids /\ plan \in AnyPlan /\ l.batch \in BOOLEAN
    BY <1>2, <1>3, <1>9 DEF DecideOK, PlansOK
  <1>11. e.type = "reviewed" /\ e.id = plan.id /\ e.status = plan.status
    BY <1>4
  <1>12. /\ LogsInv' /\ Grow /\ IdsInv'
         /\ DOMAIN parent = 1..Len(parent) /\ Len(parent) \in Nat
         /\ DOMAIN parent' = 1..(Len(parent) + 1) /\ parent'[Len(parent) + 1] = e
         /\ \A i \in DOMAIN parent' \ DOMAIN parent : i = Len(parent) + 1
         /\ Recorded' = Recorded /\ ConflictsOnce'
    BY <1>6, <1>7, <1>11, ParentAppends
  <1>13. Ids \subseteq Ids'
    BY <1>12, Grows DEF IInv, LogsInv
  <1>14. ASSUME (OwnIds /\ "decide" \notin raced)' PROVE \A i \in DOMAIN plans : Valid(plans[i])'
    <2>1. OwnIds /\ "decide" \notin raced
      BY <1>7, <1>14 DEF OwnIds
    <2>2. BatchOK(l) /\ UniqueIds /\ UniqueIds' /\ LogsInv
      BY <1>8, <1>12, <1>14, <2>1 DEF CallInv, IInv, IdsInv
    <2>3. ASSUME NEW i \in DOMAIN plans PROVE Valid(plans[i])'
      <3>1. Valid(plans[i]) /\ plans[i].id \in Ids
        BY <1>2, <1>6, <1>10, <2>2 DEF BatchOK, PlansOK
      <3> QED
        BY <1>12, <2>2, <3>1, ValidKept
    <2> QED
      BY <2>3
  <1>15. CallInv(k)' /\ Kind(k) \in {"idle", "decide"}
    <2>1. CASE plan.promote /\ plan.status = "accepted"
      <3>1. k = [l EXCEPT !.step = "promote"]
        BY <1>5, <2>1
      <3>2. /\ k \in [step : {"review", "promote"}, plans : Seq(AnyPlan), batch : BOOLEAN]
            /\ k.step = "promote" /\ k.plans = plans
        BY <1>2, <1>9, <3>1 DEF DecideOK
      <3>3. DecideOK(k)'
        BY <1>10, <1>13, <3>2 DEF DecideOK, PlansOK
      <3>4. Stands(plan.id)'
        <4>1. Len(parent) + 1 \in ReviewsOf(plan.id)' /\ parent'[Len(parent) + 1].status = "accepted"
          BY <1>11, <1>12, <2>1 DEF ReviewsOf, Occurs
        <4>2. \A i \in ReviewsOf(plan.id)' : i <= Len(parent) + 1
          BY <1>12 DEF ReviewsOf, Occurs
        <4> QED
          BY <4>1, <4>2 DEF Stands
      <3>5. (OwnIds /\ "decide" \notin raced => BatchOK(k))'
        BY <1>3, <1>14, <2>1, <3>2, <3>4 DEF BatchOK
      <3> QED
        BY <3>2, <3>3, <3>5 DEF CallInv, CallOK, GateOK, RecordOK, NewIdOK, Kind
    <2>2. CASE ~ (plan.promote /\ plan.status = "accepted")
      <3>1. k = WithPlans(Tail(plans), l.batch)
        BY <1>5, <2>2
      <3>2. PICK batch \in BOOLEAN : batch = l.batch
        BY <1>10
      <3> QED
        BY <1>10, <1>12, <1>14, <3>1, <3>2, RestOK DEF IInv
    <2> QED
      BY <2>1, <2>2
  <1>16. ASSUME NEW i \in DOMAIN parent' \ DOMAIN parent
         PROVE  /\ EventOK(parent[i])'
                /\ i \in Occurs("promoted")' => GateAt(i)' /\ StandsAt(i)'
    <2>1. parent'[i] = e
      BY <1>12, <1>16
    <2>2. EventOK(e)'
      BY <1>10, <1>11, <1>13 DEF EventOK, AnyPlan
    <2> QED
      BY <1>11, <2>1, <2>2 DEF Occurs
  <1> QED
    BY <1>1, <1>6, <1>7, <1>9, <1>12, <1>15, <1>16, LogStep

\* A promotion is appended, as it was read, and perhaps its reinforcement: nobody but the
\* call itself decided in between, or decisions have raced.
LEMMA AppendPromotionKeeps == ASSUME IInv, NEW p \in Process, AppendPromotion(p) PROVE IInv'
  <1>1. PICK l : l = call[p]
    OBVIOUS
  <1>2. PICK plans : plans = l.plans
    OBVIOUS
  <1>3. PICK id : id = Head(plans).id
    OBVIOUS
  <1>4. PICK e : e = [type |-> "promoted", id |-> id, source |-> l.source, forced |-> l.forced]
    OBVIOUS
  <1>5. PICK r : r = [type |-> "reinforced", id |-> id]
    OBVIOUS
  <1>6. PICK k : k = WithPlans(Tail(plans), l.batch)
    OBVIOUS
  <1>7. /\ l.step = "append" /\ worklog' = worklog
        /\ parent' = Append(parent, e) \/ parent' = parent \o <<e, r>>
        /\ call' = [call EXCEPT ![p] = k]
    BY <1>1, <1>2, <1>3, <1>4, <1>5, <1>6 DEF AppendPromotion, Goes
  <1>8. UNCHANGED <<reports, calls, aborts, raced, reused, stranded>>
    BY DEF AppendPromotion, bounds, history
  <1>9. CallInv(l)
    BY <1>1 DEF IInv, CallsInv
  <1>10. AppendOK(l) /\ Kind(l) = "decide"
    BY <1>7, <1>9 DEF CallInv, CallOK, Idle, ReportOK, DecideOK, DetectedOK, ConflictsOK, Kind
  <1>11. PlansOK(plans) /\ l.source \in Holders(id) /\ l.forced \in BOOLEAN /\ l.batch \in BOOLEAN
    BY <1>2, <1>3, <1>10 DEF AppendOK
  <1>12. /\ e.type = "promoted" /\ e.id = id /\ e.source = l.source /\ e.forced = l.forced
         /\ r.type = "reinforced" /\ r.id = id
    BY <1>4, <1>5
  <1> DEFINE n == Len(parent)
  <1>13. /\ parent' \in Seq(Entries(parent)') /\ n \in Nat /\ DOMAIN parent = 1..n
         /\ n + 1 \in DOMAIN parent' /\ parent'[n + 1] = e
         /\ \A i \in DOMAIN parent : i \in DOMAIN parent' /\ parent'[i] = parent[i]
         /\ \A i \in DOMAIN parent' \ DOMAIN parent :
              i = n + 1 \/ (i # n + 1 /\ parent'[i] = r)
    <2> DEFINE S == Entries(parent) \cup {e, r}
    <2>1. parent \in Seq(S) /\ e \in S /\ r \in S
      BY DEF IInv, LogsInv, Entries
    <2> HIDE DEF S
    <2>2. CASE parent' = Append(parent, e)
      BY <2>1, <2>2 DEF Entries
    <2>3. CASE parent' = parent \o <<e, r>>
      <3>1. /\ parent' \in Seq(S) /\ n \in Nat /\ DOMAIN parent = 1..n
            /\ DOMAIN parent' = 1..(n + 2) /\ \A i \in 1..n : parent'[i] = parent[i]
            /\ parent'[n + 1] = e /\ parent'[n + 2] = r
        BY <2>1, <2>3
      <3>2. parent' \in Seq(Entries(parent)')
        BY <3>1 DEF Entries
      <3> QED
        BY <3>1, <3>2
    <2> QED
      BY <1>7, <2>2, <2>3
  <1> HIDE DEF n
  <1>14. \A i \in DOMAIN parent' \ DOMAIN parent : parent'[i] = e \/ parent'[i] = r
    BY <1>13
  <1>15. /\ LogsInv' /\ Grow /\ IdsInv'
         /\ \A i : Stands(i) => Stands(i)'
         /\ Recorded' = Recorded /\ ConflictsOnce'
    BY <1>7, <1>8, <1>12, <1>13, <1>14, ParentGrows
  <1>16. /\ Found \subseteq Found' /\ \A s \in Found : Finding(s)' = Finding(s)
         /\ \A i : Holders(i) \subseteq Holders(i)'
    BY <1>15, Grows DEF IInv, LogsInv
  <1>17. CallInv(k)' /\ Kind(k) \in {"idle", "decide"}
    <2>1. ASSUME (OwnIds /\ "decide" \notin raced)' PROVE \A i \in DOMAIN plans : i # 1 => Valid(plans[i])'
      <3>1. OwnIds /\ "decide" \notin raced
        BY <1>8, <2>1 DEF OwnIds
      <3>2. BatchOK(l) /\ UniqueIds /\ UniqueIds' /\ LogsInv
        BY <1>9, <1>15, <2>1, <3>1 DEF CallInv, IInv, IdsInv
      <3>3. ASSUME NEW i \in DOMAIN plans, i # 1 PROVE Valid(plans[i])'
        <4>1. Valid(plans[i]) /\ plans[i].id \in Ids
          BY <1>2, <1>7, <1>11, <3>2, <3>3 DEF BatchOK, PlansOK
        <4> QED
          BY <1>15, <3>2, <4>1, ValidKept
      <3> QED
        BY <3>3
    <2>2. PICK batch \in BOOLEAN : batch = l.batch
      BY <1>11
    <2> QED
      BY <1>6, <1>11, <1>15, <2>1, <2>2, RestOK DEF IInv
  <1>18. ASSUME NEW i, i = n + 1 PROVE GateAt(i)' /\ StandsAt(i)'
    <2>1. parent'[i] = e /\ i \in Nat /\ \A j \in DOMAIN parent : j \in 1..(i - 1) /\ parent'[j] = parent[j]
      BY <1>13, <1>18
    <2>2. GateOK(l)
      BY <1>9 DEF CallInv
    <2>3. \A j \in Occurs("promoted") \cup ReviewsOf(id) : j \in DOMAIN parent
      BY DEF Occurs, ReviewsOf
    <2>4. ASSUME ~ l.forced
          PROVE  /\ Finding(l.source)'.cited
                 /\ \E j \in 1..(i - 1) :
                      /\ parent'[j].type \in {"reviewed", "promoted"}
                      /\ parent'[j].id = id
                      /\ parent'[j].type = "reviewed" => parent'[j].status = "accepted"
      <3>1. Finding(l.source).cited /\ LetThrough(id) /\ l.source \in Found
        BY <1>2, <1>3, <1>7, <1>11, <2>2, <2>4 DEF GateOK, Holders
      <3>2. CASE id \in PromotedIds
        <4>1. PICK j \in Occurs("promoted") : parent[j].id = id
          BY <3>2 DEF PromotedIds
        <4>2. parent[j].type = "promoted"
          BY <4>1 DEF Occurs
        <4> QED
          BY <1>16, <2>1, <2>3, <3>1, <4>1, <4>2
      <3>3. ASSUME NEW j \in ReviewsOf(id), parent[j].status = "accepted"
            PROVE  /\ parent'[j].type = "reviewed" /\ parent'[j].id = id
                   /\ parent'[j].status = "accepted" /\ j \in 1..(i - 1)
        BY <2>1, <2>3, <3>3 DEF ReviewsOf, Occurs
      <3> QED
        BY <1>16, <3>1, <3>2, <3>3 DEF LetThrough
    <2>5. GateAt(i)'
      BY <1>12, <2>1, <2>4 DEF GateAt
    <2>6. ReviewsOf(id)' = ReviewsOf(id)
      BY <1>12, <1>13, <1>14 DEF ReviewsOf, Occurs
    <2>7. ASSUME ~ l.forced, "decide" \notin raced
          PROVE  \/ \E j \in 1..(i - 1) : parent'[j].type = "promoted" /\ parent'[j].id = id
                 \/ \E j \in ReviewsOf(id)' :
                      /\ j < i /\ parent'[j].status = "accepted"
                      /\ \A m \in ReviewsOf(id)' : m <= j \/ m > i
      <3>1. Stands(id)
        BY <1>2, <1>3, <1>7, <2>2, <2>7 DEF GateOK
      <3>2. CASE id \in PromotedIds
        <4>1. PICK j \in Occurs("promoted") : parent[j].id = id
          BY <3>2 DEF PromotedIds
        <4>2. parent[j].type = "promoted"
          BY <4>1 DEF Occurs
        <4> QED
          BY <2>1, <2>3, <4>1, <4>2
      <3>3. ASSUME NEW j \in ReviewsOf(id), parent[j].status = "accepted",
                   \A m \in ReviewsOf(id) : m <= j
            PROVE  /\ j < i /\ parent'[j].status = "accepted"
                   /\ \A m \in ReviewsOf(id)' : m <= j \/ m > i
        <4>1. j \in 1..(i - 1) /\ parent'[j] = parent[j]
          BY <2>1, <2>3
        <4>2. j < i
          BY <2>1, <4>1
        <4> QED
          BY <2>6, <3>3, <4>1, <4>2
      <3> QED
        BY <2>6, <3>1, <3>2, <3>3 DEF Stands
    <2>8. StandsAt(i)'
      BY <1>8, <1>12, <2>1, <2>7 DEF StandsAt
    <2> QED
      BY <2>5, <2>8
  <1>19. ASSUME NEW i \in DOMAIN parent' \ DOMAIN parent
         PROVE  /\ EventOK(parent[i])'
                /\ i \in Occurs("promoted")' => GateAt(i)' /\ StandsAt(i)'
    <2>1. CASE i = n + 1
      <3>1. parent'[i] = e
        BY <1>13, <2>1
      <3>2. EventOK(e)'
        BY <1>11, <1>12, <1>16 DEF EventOK
      <3> QED
        BY <1>18, <2>1, <3>1, <3>2
    <2>2. CASE i # n + 1
      <3>1. parent'[i] = r
        BY <1>13, <1>19, <2>2
      <3>2. id \in PromotedIds'
        BY <1>12, <1>13 DEF PromotedIds, Occurs
      <3>3. EventOK(r)'
        BY <1>12, <3>2 DEF EventOK
      <3> QED
        BY <1>12, <3>1, <3>3 DEF Occurs
    <2> QED
      BY <2>1, <2>2
  <1> QED
    BY <1>1, <1>7, <1>8, <1>10, <1>15, <1>17, <1>19, LogStep
-----------------------------------------------------------------------------
\* Nothing is logged, and nothing in hand, at the start.
LEMMA InitIInv == Init => IInv
  <1> SUFFICES ASSUME Init PROVE IInv
    OBVIOUS
  <1>1. parent = <<>> /\ DOMAIN parent = {} /\ \A type : Occurs(type) = {}
    BY DEF Init, Occurs
  <1>2. LogsInv
    <2>1. parent \in Seq(Entries(parent))
      BY <1>1
    <2>2. worklog \in [Worker -> Seq(AnyFinding)]
      BY DEF Init
    <2> QED
      BY <1>1, <2>1, <2>2 DEF LogsInv, Registered
  <1>3. EventsInv /\ PromotionsReviewed /\ ConflictsOnce
    BY <1>1 DEF EventsInv, PromotionsReviewed, GateHolds, ReviewStands, ConflictsOnce
  <1>4. BoundsInv
    <2>1. MaxReports \in Nat /\ MaxCalls \in Nat /\ MaxAborts \in Nat
      BY MissionAssumption
    <2>2. reused \in BOOLEAN /\ stranded \in BOOLEAN
      BY DEF Init
    <2> QED
      BY <2>1, <2>2 DEF Init, BoundsInv
  <1>5. CallsInv
    <2>1. CallInv(Idle)
      BY IdleOK DEF CallInv
    <2> QED
      BY <2>1 DEF Init, CallsInv
  <1>6. RaceInv
    BY IdleOK DEF Init, RaceInv
  <1>7. IdsInv
    BY DEF Init, IdsInv, DefaultIds, UniqueIds
  <1>8. StrandedInv
    BY DEF Init, StrandedInv
  <1> QED
    BY <1>2, <1>3, <1>4, <1>5, <1>6, <1>7, <1>8 DEF IInv

\* Nor does a stutter change anything.
LEMMA StutterKeeps == ASSUME IInv, UNCHANGED vars PROVE IInv'
  <1>1. UNCHANGED <<parent, worklog, call, reports, calls, aborts, raced, reused, stranded>>
    BY DEF vars
  <1>2. Grow /\ OwnIds' = OwnIds /\ Recorded' = Recorded
    BY <1>1 DEF Grow, OwnIds, Recorded, Occurs
  <1>3. (LogsInv /\ EventsInv /\ PromotionsReviewed /\ ConflictsOnce /\ IdsInv)'
    BY <1>1, <1>2, LogsKept DEF IInv
  <1>4. \A id : Stands(id) => Stands(id)'
    BY <1>1 DEF Stands, ReviewsOf, PromotedIds, Occurs
  <1>5. BoundsInv' /\ StrandedInv'
    BY <1>1, <1>2 DEF IInv, BoundsInv, StrandedInv
  <1>6. RaceInv'
    BY <1>1 DEF IInv, RaceInv
  <1>7. ASSUME NEW l, CallInv(l) PROVE CallInv(l)'
    <2>1. /\ CallOK(l) /\ GateOK(l) /\ RecordOK(l) /\ (OwnIds' => NewIdOK(l))
          /\ OwnIds' /\ "decide" \notin raced' => BatchOK(l)
      BY <1>1, <1>2, <1>7 DEF CallInv
    <2> QED
      BY <1>1, <1>2, <1>3, <1>4, <2>1, CallKept DEF IInv
  <1>8. CallsInv'
    <2>1. ASSUME NEW q \in Process PROVE CallInv(call[q])'
      <3>1. PICK l : l = call[q]
        OBVIOUS
      <3>2. CallInv(l) /\ call'[q] = l
        BY <1>1, <3>1 DEF IInv, CallsInv
      <3> QED
        BY <1>7, <3>2
    <2> QED
      BY <1>1, <2>1 DEF IInv, CallsInv
  <1> QED
    BY <1>3, <1>5, <1>6, <1>8 DEF IInv

\* Every step keeps the invariant.
LEMMA NextIInv == IInv /\ [Next]_vars => IInv'
  <1> SUFFICES ASSUME IInv, [Next]_vars PROVE IInv'
    OBVIOUS
  <1>1. CASE UNCHANGED vars
    BY <1>1, StutterKeeps
  <1>2. ASSUME NEW p \in Process, NEW w \in Worker, CreateWorker(p, w) PROVE IInv'
    BY <1>2, CreateWorkerKeeps
  <1>3. ASSUME NEW p \in Process, NEW w \in Worker, NEW c \in Claim,
               NEW id \in Name \cup {DefaultId(w)}, Report(p, w, c, id)
        PROVE  IInv'
    BY <1>3, ReportKeeps
  <1>4. ASSUME NEW p \in Process, AppendFinding(p) PROVE IInv'
    BY <1>4, AppendFindingKeeps
  <1>5. ASSUME NEW p \in Process, NEW id \in Ids, NEW status \in Status, Review(p, id, status)
        PROVE  IInv'
    BY <1>5, ReviewKeeps
  <1>6. ASSUME NEW p \in Process, NEW id \in Ids, NEW force \in BOOLEAN, Promote(p, id, force)
        PROVE  IInv'
    BY <1>6, PromoteKeeps
  <1>7. ASSUME NEW p \in Process, NEW b \in Batches, NEW ids \in [DOMAIN b -> Ids],
               ApplyDecisions(p, [i \in DOMAIN b |-> Plan(ids[i], b[i].status, b[i].promote, b[i].force)])
        PROVE  IInv'
    <2>1. PICK plans : plans = [i \in DOMAIN b |-> Plan(ids[i], b[i].status, b[i].promote, b[i].force)]
      OBVIOUS
    <2>2. ApplyDecisions(p, plans)
      BY <1>7, <2>1
    <2> QED
      BY <2>1, <2>2, ApplyDecisionsKeeps
  <1>8. ASSUME NEW p \in Process, AppendReview(p) \/ PromoteDecided(p) \/ AppendPromotion(p)
        PROVE  IInv'
    BY <1>8, AppendReviewKeeps, PromoteDecidedKeeps, AppendPromotionKeeps
  <1>9. ASSUME NEW p \in Process, DetectConflicts(p) \/ ReadRecorded(p) \/ AppendConflict(p)
        PROVE  IInv'
    BY <1>9, DetectConflictsKeeps, ReadRecordedKeeps, AppendConflictKeeps
  <1>10. ASSUME NEW p \in Process, Abort(p) PROVE IInv'
    BY <1>10, AbortKeeps
  <1> QED
    BY <1>1, <1>2, <1>3, <1>4, <1>5, <1>6, <1>7, <1>8, <1>9, <1>10 DEF Next

\* The invariant holds in every reachable state.
LEMMA Invariant == Spec => []IInv
  BY InitIInv, NextIInv, PTL DEF Spec
-----------------------------------------------------------------------------
\* The events of the parent log, and the calls in hand, speak of findings that exist.
THEOREM TypeCorrect == Spec => []TypeOK
  <1>1. IInv => TypeOK
    <2> SUFFICES ASSUME IInv PROVE TypeOK
      OBVIOUS
    <2>1. \A i \in DOMAIN parent :
            LET e == parent[i]
            IN  \/ e.type = "worker" /\ e.worker \in Worker
                \/ e.type = "reviewed" /\ e.id \in Ids /\ e.status \in Status
                \/ e.type = "promoted" /\ e.source \in Holders(e.id) /\ e.forced \in BOOLEAN
                \/ e.type = "reinforced" /\ e.id \in PromotedIds
                \/ e.type = "conflict" /\ DOMAIN e.signature.ids \subseteq Ids
      BY DEF IInv, EventsInv, EventOK
    <2>2. ASSUME NEW w \in Worker, NEW i \in DOMAIN worklog[w]
          PROVE  worklog[w][i].id \in AnyId
      <3>1. worklog \in [Worker -> Seq(AnyFinding)]
        BY DEF IInv, LogsInv
      <3>2. worklog[w] \in Seq(AnyFinding)
        BY <3>1
      <3>3. worklog[w][i] \in AnyFinding
        BY <3>2
      <3> QED
        BY <3>3 DEF AnyFinding
    <2>3. ASSUME NEW p \in Process, "plans" \in DOMAIN call[p]
          PROVE  call[p].plans # <<>> /\ Head(call[p].plans).id \in Ids
      <3>1. PICK k : k = call[p]
        OBVIOUS
      <3>2. CallOK(k) /\ "plans" \in DOMAIN k
        BY <2>3, <3>1 DEF IInv, CallsInv, CallInv
      <3>3. DecideOK(k) \/ AppendOK(k)
        BY <3>2 DEF CallOK, Idle, ReportOK, DetectedOK, ConflictsOK
      <3>4. PlansOK(k.plans)
        BY <3>3 DEF DecideOK, AppendOK
      <3> QED
        BY <3>1, <3>4 DEF PlansOK
    <2>4. BoundsInv
      BY DEF IInv
    <2> QED
      BY <2>1, <2>2, <2>3, <2>4 DEF TypeOK, BoundsInv
  <1> QED
    BY <1>1, Invariant, PTL

\* However calls interleave or are cut, what is promoted without force cites evidence
\* and was accepted before; and where decisions do not overlap, no review has withdrawn
\* it (promote_finding, apply_approval_decisions).
THEOREM PromotionsAreReviewed == Spec => []PromotionsReviewed
  <1>1. IInv => PromotionsReviewed
    BY DEF IInv
  <1> QED
    BY <1>1, Invariant, PTL

\* A finding is in accepted state only if it was itself promoted, unless two agents of one
\* worker reported at once or an id was passed again (report_finding, _resolve_accepted_state).
THEOREM NothingLeaks == Spec => []NoLeakWithOwnIds
  <1>1. IInv => NoLeakWithOwnIds
    <2> SUFFICES ASSUME IInv, OwnIds, NEW s \in Accepted PROVE s \in PromotedSources
      BY DEF NoLeakWithOwnIds, NoLeak, OwnIds
    <2>1. UniqueIds /\ LogsInv /\ EventsInv
      BY DEF IInv, IdsInv
    <2>2. s \in Found /\ Finding(s).id \in PromotedIds
      BY DEF Accepted
    <2>3. PICK i \in Occurs("promoted") : parent[i].id = Finding(s).id
      BY <2>2 DEF PromotedIds
    <2>4. parent[i].source \in Holders(Finding(s).id)
      BY <2>1, <2>3 DEF EventsInv, EventOK, Occurs
    <2>5. s \in Holders(Finding(s).id)
      BY <2>2 DEF Holders
    <2>6. parent[i].source = s
      BY <2>1, <2>4, <2>5, FirstUnique DEF FirstIsOnly
    <2> QED
      BY <2>6 DEF PromotedSources
  <1> QED
    BY <1>1, Invariant, PTL

\* No conflict is recorded twice, unless two recordings overlapped
\* (record_detected_conflicts).
THEOREM ConflictsRecordedOnce == Spec => []ConflictsOnce
  <1>1. IInv => ConflictsOnce
    BY DEF IInv
  <1> QED
    BY <1>1, Invariant, PTL

\* A batch whose decisions were all valid is not refused half-way, unless decisions or
\* reports overlapped or an id was passed again (apply_approval_decisions).
THEOREM BatchesApply == Spec => []BatchApplies
  <1>1. IInv => BatchApplies
    BY DEF IInv, StrandedInv, OwnIds, BatchApplies
  <1> QED
    BY <1>1, Invariant, PTL
=============================================================================

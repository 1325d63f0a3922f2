------------------------- MODULE EmbeddedGraph_proofs -------------------------
(***************************************************************************)
(* The embedded graph: who may have it open, and what is in it.            *)
(*                                                                         *)
(* For any processes, servers and reapers, and any crashes and breaks: one *)
(* process at most has the graph open; an owner that was not robbed can be *)
(* found; who is killed could not be reached; and a repair that has met a  *)
(* broken owner ends only when that owner is ending or gone.               *)
(*                                                                         *)
(* For any tasks, events and names, and any faults: what the status calls  *)
(* integrity means that the graph is what the log says, at present and, if *)
(* events were projected in order, of any time; a name has one version at  *)
(* most that is current; a full reprojection restores the present.         *)
(***************************************************************************)
EXTENDS OwnerRuntime, GraphProjection, FiniteSetTheorems, SequenceTheorems, NaturalsInduction, TLAPS
-----------------------------------------------------------------------------
(* Who may have the graph open.                                            *)

\* Who has published a record, and will not listen or publish again.
Published == {"serving", "hung", "broken", "dying", "teardown", "remove", "unlock", "dead"}

\* A broken owner, and what becomes of it.
Gone == {"broken", "dying", "teardown", "remove", "unlock", "dead"}

\* The graph is open only between Setup and Teardown.
WritersInv ==
  \A p \in writers :
    at[p] \in {"listen", "publish", "serving", "hung", "broken", "dying", "teardown"}

\* The files of the owner on its way from Listen to serving.
FilesInv ==
  ~robbed => \A p \in Process :
               /\ at[p] = "publish" => socket = p
               /\ at[p] \in {"serving", "hung"} => record = p /\ socket = p

RecordInv == record # Nobody => at[record] \in Published

\* What a reaper knows of its target, however long ago it has looked: the target
\* has published, and if it serves still, its socket file is not the one in place;
\* after SIGKILL it is dead or about to be.
TargetInv ==
  \A p \in Process :
    /\ target[p] # Nobody =>
         at[p] \in {"check", "terminate", "confirm"} /\ at[target[p]] \in Published
    /\ at[p] = "terminate" =>
         target[p] # Nobody /\ (at[target[p]] \in {"serving", "hung"} => socket # target[p])
    /\ at[p] = "confirm" => target[p] # Nobody /\ at[target[p]] \in {"dying", "dead"}

\* The broken owner that p has found is its target until it is no longer broken.
FoundInv ==
  \A p \in Reaping :
    /\ at[p] \in {"off", "claim", "repair", "probe", "look"} => found[p] = Nobody
    /\ found[p] # Nobody =>
         /\ at[found[p]] \in Gone
         /\ at[p] \in {"check", "terminate"} => target[p] = found[p]
         /\ at[p] \notin {"check", "terminate", "dead"} => at[found[p]] # "broken"

\* Who only repairs claims nothing for longer than a repair.
RepairersInv == \A p \in Process \ Server : at[p] \in Repair \cup {"off", "decide", "done", "dead"}

\* The inductive invariant: what the code keeps true between any two of its steps.
OwnerInv == OwnerTypeOK /\ RepairersInv /\ WritersInv /\ FilesInv /\ RecordInv /\ TargetInv /\ FoundInv
-----------------------------------------------------------------------------
\* At the start nobody holds anything and nothing has been read.
LEMMA OwnerInitInv == OwnerInit => OwnerInv
  <1> SUFFICES ASSUME OwnerInit PROVE OwnerInv
    OBVIOUS
  <1>1. OwnerTypeOK
    <2>1. at \in [Process -> Step] /\ repaired \in [Process -> BOOLEAN]
      BY DEF OwnerInit, Step, UnderWay, Ended
    <2>2. {target, found} \subseteq [Process -> Process \cup {Nobody}]
      BY DEF OwnerInit
    <2>3. {lock, record, socket} \subseteq Process \cup {Nobody}
      BY DEF OwnerInit
    <2>4. writers \subseteq Server /\ robbed \in BOOLEAN
      BY DEF OwnerInit
    <2>5. crashes \in 0..MaxCrashes /\ breaks \in 0..MaxBreaks
      BY RuntimeAssumption DEF OwnerInit
    <2>6. \A p \in Process : (lock = p) = (at[p] \in Holding \cup {"release"})
      BY RuntimeAssumption DEF OwnerInit, Holding
    <2>7. \A p \in Process : target[p] # p
      BY RuntimeAssumption DEF OwnerInit
    <2> QED
      BY <2>1, <2>2, <2>3, <2>4, <2>5, <2>6, <2>7 DEF OwnerTypeOK
  <1>2. RepairersInv /\ WritersInv /\ FilesInv /\ RecordInv
    BY DEF OwnerInit, RepairersInv, WritersInv, FilesInv, RecordInv
  <1>3. TargetInv /\ FoundInv
    BY RuntimeAssumption DEF OwnerInit, TargetInv, FoundInv
  <1> QED
    BY <1>1, <1>2, <1>3 DEF OwnerInv

\* Most steps move one process along and leave the rest.  Those that matter: who
\* takes the lock finds nobody in Holding, so that the files it removes are no
\* owner's (Claim, Probe, Reclaim); a record that is read names a process that has
\* published (ReadRecord); a target that serves at the Check has lost its socket,
\* or a connection would have been accepted (Check); a reaper leaves its target
\* only when that has ended (Terminate) or was sent SIGKILL (Confirm).
LEMMA OwnerNextInv == OwnerInv /\ [OwnerNext]_ownerVars => OwnerInv'
  <1> SUFFICES ASSUME OwnerInv, [OwnerNext]_ownerVars PROVE OwnerInv'
    OBVIOUS
  <1> USE RuntimeAssumption
      DEF OwnerInv, OwnerTypeOK, RepairersInv, WritersInv, FilesInv, RecordInv, TargetInv, FoundInv,
          Step, Holding, UnderWay, Repair, Ended, Published, Gone,
          Go, files, Alive, Accepts, Lingers, TryClaim, Dies
  <1>1. ASSUME NEW p \in Process, Start(p) PROVE OwnerInv'
    BY <1>1 DEF Start
  <1>2. ASSUME NEW p \in Process, Claim(p) PROVE OwnerInv'
    BY <1>2 DEF Claim
  <1>3. ASSUME NEW p \in Process, LookForFiles(p) PROVE OwnerInv'
    BY <1>3 DEF LookForFiles
  <1>4. ASSUME NEW p \in Process, Probe(p) PROVE OwnerInv'
    BY <1>4 DEF Probe
  <1>5. ASSUME NEW p \in Process, ReadRecord(p) PROVE OwnerInv'
    BY <1>5 DEF ReadRecord
  <1>6. ASSUME NEW p \in Process, Check(p) PROVE OwnerInv'
    BY <1>6 DEF Check
  <1>7. ASSUME NEW p \in Process, Terminate(p) PROVE OwnerInv'
    BY <1>7 DEF Terminate
  <1>23. ASSUME NEW p \in Process, Confirm(p) PROVE OwnerInv'
    BY <1>23 DEF Confirm
  <1>24. ASSUME NEW p \in Process, Vanish(p) PROVE OwnerInv'
    BY <1>24 DEF Vanish
  <1>25. ASSUME NEW p \in Process, Hang(p) PROVE OwnerInv'
    BY <1>25 DEF Hang
  <1>8. ASSUME NEW p \in Process, Clear(p) PROVE OwnerInv'
    <2>1. robbed' \in BOOLEAN
      BY <1>8, Zenon DEF Clear
    <2>2. at' \in [Process -> Step] /\ {record', socket'} \subseteq Process \cup {Nobody}
      BY <1>8 DEF Clear
    <2>3. \A q \in Process : (lock' = q) = (at'[q] \in Holding \cup {"release"})
      BY <1>8 DEF Clear
    <2>4. UNCHANGED <<repaired, target, lock, writers, found, crashes, breaks>>
      BY <1>8 DEF Clear
    <2>5. OwnerTypeOK'
      BY <2>1, <2>2, <2>3, <2>4
    <2>6. RepairersInv' /\ WritersInv' /\ RecordInv' /\ TargetInv' /\ FoundInv'
      BY <1>8 DEF Clear
    <2>7. ~robbed' => lock = Nobody
      BY <1>8, Zenon DEF Clear
    <2>8. lock = Nobody => \A q \in Process : at'[q] \notin {"publish", "serving", "hung"}
      BY <1>8 DEF Clear
    <2>9. FilesInv'
      BY <2>7, <2>8
    <2> QED
      BY <2>5, <2>6, <2>9
  <1>9. ASSUME NEW p \in Process, Reclaim(p) PROVE OwnerInv'
    BY <1>9 DEF Reclaim
  <1>10. ASSUME NEW p \in Process, Release(p) PROVE OwnerInv'
    BY <1>10 DEF Release
  <1>11. ASSUME NEW p \in Process, Decide(p) PROVE OwnerInv'
    BY <1>11 DEF Decide
  <1>12. ASSUME NEW p \in Process, Setup(p) PROVE OwnerInv'
    <2>1. OwnerTypeOK'
      BY <1>12 DEF Setup
    <2>2. RepairersInv' /\ WritersInv'
      BY <1>12 DEF Setup
    <2>3. FilesInv' /\ RecordInv' /\ TargetInv' /\ FoundInv'
      BY <1>12 DEF Setup
    <2> QED
      BY <2>1, <2>2, <2>3
  <1>13. ASSUME NEW p \in Process, Listen(p) PROVE OwnerInv'
    BY <1>13 DEF Listen
  <1>14. ASSUME NEW p \in Process, Publish(p) PROVE OwnerInv'
    BY <1>14 DEF Publish
  <1>15. ASSUME NEW p \in Process, Break(p) PROVE OwnerInv'
    BY <1>15 DEF Break
  <1>16. ASSUME NEW p \in Process, Shutdown(p) PROVE OwnerInv'
    BY <1>16 DEF Shutdown
  <1>17. ASSUME NEW p \in Process, Teardown(p) PROVE OwnerInv'
    BY <1>17 DEF Teardown
  <1>18. ASSUME NEW p \in Process, Remove(p) PROVE OwnerInv'
    BY <1>18 DEF Remove
  <1>19. ASSUME NEW p \in Process, Unlock(p) PROVE OwnerInv'
    BY <1>19 DEF Unlock
  <1>20. ASSUME NEW p \in Process, Await(p) PROVE OwnerInv'
    BY <1>20 DEF Await
  <1>21. ASSUME NEW p \in Process, CrashOf(p) PROVE OwnerInv'
    BY <1>21 DEF CrashOf
  <1>22. CASE UNCHANGED ownerVars
    BY <1>22 DEF ownerVars
  <1> QED
    BY <1>1, <1>2, <1>3, <1>4, <1>5, <1>6, <1>7, <1>8, <1>9, <1>10, <1>11, <1>12, <1>13, <1>14,
       <1>15, <1>16, <1>17, <1>18, <1>19, <1>20, <1>21, <1>22, <1>23, <1>24, <1>25 DEF OwnerNext, Own

\* The invariant holds in every behaviour of the runtime.
LEMMA OwnerInvariant == OwnerSpec => []OwnerInv
  BY OwnerInitInv, OwnerNextInv, PTL DEF OwnerSpec

\* The lock is held by one process, and who has the graph open holds it.
LEMMA HoldersAreOne == OwnerInv => OneWriter
  <1> SUFFICES ASSUME OwnerInv PROVE Cardinality(writers) <= 1
    BY DEF OneWriter
  <1>1. writers \subseteq {lock}
    BY RuntimeAssumption DEF OwnerInv, OwnerTypeOK, WritersInv, Holding
  <1>2. Cardinality({lock}) = 1 /\ IsFiniteSet({lock})
    BY FS_Singleton
  <1> QED
    BY <1>1, <1>2, FS_Subset

\* Every variable keeps its type, and the lock is held by who may hold it.
THEOREM OwnerTypeCorrect == OwnerSpec => []OwnerTypeOK
  <1>1. OwnerInv => OwnerTypeOK
    BY DEF OwnerInv
  <1> QED
    BY <1>1, OwnerInvariant, PTL

\* No two processes have the graph open, and an owner that serves, and was not
\* robbed of its files by a reaper, is found by its record and its socket.
THEOREM OwnerIsOne == OwnerSpec => []OneOwner
  <1>1. OwnerInv => OwnerReachable
    BY RuntimeAssumption DEF OwnerInv, OwnerTypeOK, FilesInv, OwnerReachable, Accepts
  <1> QED
    BY <1>1, HoldersAreOne, OwnerInvariant, PTL DEF OneOwner

\* A repair that may kill, and has read the record of a broken owner, ends only when
\* that owner shuts down, has been sent SIGKILL, or is gone.
THEOREM BrokenOwnersAreReaped == OwnerSpec => []BrokenIsReaped
  <1>1. OwnerInv => BrokenIsReaped
    BY DEF OwnerInv, FoundInv, BrokenIsReaped, Repair
  <1> QED
    BY <1>1, OwnerInvariant, PTL

\* Who is killed could not be reached: a record of its own and a socket that
\* answers would be those of the holder of the lock, which has lost its socket.
THEOREM OnlyUnreachableAreReaped == OwnerSpec => ReapsOnlyUnreachable
  <1> DEFINE Reaps(p) == Terminate(p) /\ Alive(target[p]) => ~ (record = target[p] /\ Accepts)
  <1>1. OwnerInv => \A p \in Process : Reaps(p)
    BY RuntimeAssumption
    DEF Terminate, OwnerInv, OwnerTypeOK, TargetInv, Alive, Accepts, Holding, Published
  <1>2. OwnerInv /\ [OwnerNext]_ownerVars => [\A p \in Process : Reaps(p)]_ownerVars
    BY <1>1
  <1> QED
    BY <1>2, OwnerInvariant, PTL DEF OwnerSpec, ReapsOnlyUnreachable
-----------------------------------------------------------------------------
(* What is in the graph.                                                   *)
Ident == Name \X Nat
VersionRecord == [content : Content, to : {Open} \cup Nat]
Saying == [name : Name, content : Content]

\* What event i says in the log l: that n is c, or anything of n.
Says(l, i, n, c) == \E k \in DOMAIN l[i].says : l[i].says[k] = [name |-> n, content |-> c]
Mentioned(l, i, n) == \E c \in Content : Says(l, i, n, c)

\* What is said of n last by the first k of what is said, or that nothing is.
LastSaid(says, k, n, c) ==
  \E j \in 1..k : says[j].name = n /\ says[j].content = c /\ \A m \in 1..k : says[m].name = n => m <= j
Unsaid(says, k, n) == \A j \in 1..k : says[j].name # n

SaysLast(l, i, n, c) == LastSaid(l[i].says, Len(l[i].says), n, c)

\* A store is a graph with versions of entities, and caches.
AStore(E, C, N, R, c, x) ==
  [graph |-> [events |-> E, chain |-> C, nodes |-> N, rels |-> R], cache |-> c, index |-> x]

AreVersions(N) ==
  DOMAIN N \subseteq Ident /\ N \in [DOMAIN N -> VersionRecord]

IsStore(s) ==
  /\ s = AStore(s.graph.events, s.graph.chain, s.graph.nodes, s.graph.rels, s.cache, s.index)
  /\ AreVersions(s.graph.nodes)
  /\ s.cache \in [Name -> Ident \cup {None}]

Versions(s) == DOMAIN s.graph.nodes
IsOpen(s, k) == s.graph.nodes[k].to = Open
-----------------------------------------------------------------------------
\* The parts of a store that is put together.
LEMMA StoreParts ==
  ASSUME NEW E, NEW C, NEW N, NEW R, NEW c, NEW x
  PROVE  LET s == AStore(E, C, N, R, c, x)
         IN  /\ s.graph.events = E /\ s.graph.chain = C /\ s.graph.nodes = N
             /\ s.graph.rels = R /\ s.cache = c /\ s.index = x
             /\ AreVersions(N) /\ c \in [Name -> Ident \cup {None}] => IsStore(s)
  <1> DEFINE s == AStore(E, C, N, R, c, x)
  <1>1. /\ s.graph.events = E /\ s.graph.chain = C /\ s.graph.nodes = N
        /\ s.graph.rels = R /\ s.cache = c /\ s.index = x
    BY DEF AStore
  <1> HIDE DEF s
  <1>2. s = AStore(E, C, N, R, c, x)
    BY DEF s
  <1> QED
    BY <1>1, <1>2 DEF IsStore

\* The stores that the steps of an upsert make.
LEMMA MarkedStore ==
  ASSUME NEW s, IsStore(s), NEW i
  PROVE  Marked(s, i) = AStore(s.graph.events \cup {i}, s.graph.chain, s.graph.nodes, s.graph.rels,
                               s.cache, s.index)
  <1>1. ASSUME NEW E, NEW C, NEW N, NEW R, NEW c, NEW x
        PROVE  Marked(AStore(E, C, N, R, c, x), i) = AStore(E \cup {i}, C, N, R, c, x)
    BY DEF AStore, Marked
  <1> DEFINE same == AStore(s.graph.events, s.graph.chain, s.graph.nodes, s.graph.rels, s.cache, s.index)
  <1>2. Marked(same, i) =
          AStore(s.graph.events \cup {i}, s.graph.chain, s.graph.nodes, s.graph.rels,
            s.cache, s.index)
    BY <1>1
  <1>3. s = same
    BY DEF IsStore
  <1> QED
    BY <1>2, <1>3, Zenon

ChainWith(E, C, i) == IF i - 1 \in E THEN C \cup {i} ELSE C

LEMMA LinkedStore ==
  ASSUME NEW s, IsStore(s), NEW i
  PROVE  Linked(s, i) =
           AStore(s.graph.events, ChainWith(s.graph.events, s.graph.chain, i),
                  s.graph.nodes, s.graph.rels, s.cache, s.index)
  <1>1. ASSUME NEW E, NEW C, NEW N, NEW R, NEW c, NEW x
        PROVE  Linked(AStore(E, C, N, R, c, x), i) =
                 AStore(E, ChainWith(E, C, i), N, R, c, x)
    BY DEF AStore, Linked, ChainWith
  <1> DEFINE same == AStore(s.graph.events, s.graph.chain, s.graph.nodes, s.graph.rels, s.cache, s.index)
  <1>2. Linked(same, i) =
          AStore(s.graph.events, ChainWith(s.graph.events, s.graph.chain, i),
            s.graph.nodes, s.graph.rels, s.cache, s.index)
    BY <1>1
  <1>3. s = same
    BY DEF IsStore
  <1> QED
    BY <1>2, <1>3, Zenon

LEMMA ClosedStore ==
  ASSUME NEW s, IsStore(s), NEW i, NEW v
  PROVE  Closed(s, v, i) = AStore(s.graph.events, s.graph.chain, [s.graph.nodes EXCEPT ![v].to = i],
                                  s.graph.rels, s.cache, s.index)
  <1>1. ASSUME NEW E, NEW C, NEW N, NEW R, NEW c, NEW x
        PROVE  Closed(AStore(E, C, N, R, c, x), v, i) = AStore(E, C, [N EXCEPT ![v].to = i], R, c, x)
    BY DEF AStore, Closed
  <1> DEFINE same == AStore(s.graph.events, s.graph.chain, s.graph.nodes, s.graph.rels, s.cache, s.index)
  <1>2. Closed(same, v, i) =
          AStore(s.graph.events, s.graph.chain, [s.graph.nodes EXCEPT ![v].to = i],
            s.graph.rels, s.cache, s.index)
    BY <1>1
  <1>3. s = same
    BY DEF IsStore
  <1> QED
    BY <1>2, <1>3, Zenon

LEMMA CachedStore ==
  ASSUME NEW s, IsStore(s), NEW n, NEW v
  PROVE  [s EXCEPT !.cache[n] = v] = AStore(s.graph.events, s.graph.chain, s.graph.nodes, s.graph.rels,
                                            [s.cache EXCEPT ![n] = v], s.index)
  <1>1. ASSUME NEW E, NEW C, NEW N, NEW R, NEW c, NEW x
        PROVE  [AStore(E, C, N, R, c, x) EXCEPT !.cache[n] = v] = AStore(E, C, N, R, [c EXCEPT ![n] = v], x)
    BY DEF AStore
  <1> DEFINE same == AStore(s.graph.events, s.graph.chain, s.graph.nodes, s.graph.rels, s.cache, s.index)
  <1>2. [same EXCEPT !.cache[n] = v] =
          AStore(s.graph.events, s.graph.chain, s.graph.nodes, s.graph.rels,
            [s.cache EXCEPT ![n] = v], s.index)
    BY <1>1
  <1>3. s = same
    BY DEF IsStore
  <1> QED
    BY <1>2, <1>3, Zenon

LEMMA IndexedStore ==
  ASSUME NEW s, IsStore(s), NEW v
  PROVE  [s EXCEPT !.index = v] = AStore(s.graph.events, s.graph.chain, s.graph.nodes, s.graph.rels,
                                         s.cache, v)
  <1>1. ASSUME NEW E, NEW C, NEW N, NEW R, NEW c, NEW x
        PROVE  [AStore(E, C, N, R, c, x) EXCEPT !.index = v] = AStore(E, C, N, R, c, v)
    BY DEF AStore
  <1> DEFINE same == AStore(s.graph.events, s.graph.chain, s.graph.nodes, s.graph.rels, s.cache, s.index)
  <1>2. [same EXCEPT !.index = v] =
          AStore(s.graph.events, s.graph.chain, s.graph.nodes, s.graph.rels,
            s.cache, v)
    BY <1>1
  <1>3. s = same
    BY DEF IsStore
  <1> QED
    BY <1>2, <1>3, Zenon

LEMMA RelatingStore ==
  ASSUME NEW s, IsStore(s), NEW rels
  PROVE  Relating(s, rels) = AStore(s.graph.events, s.graph.chain, s.graph.nodes, s.graph.rels \cup rels,
                                    s.cache, s.index)
  <1>1. ASSUME NEW E, NEW C, NEW N, NEW R, NEW c, NEW x
        PROVE  Relating(AStore(E, C, N, R, c, x), rels) = AStore(E, C, N, R \cup rels, c, x)
    BY DEF AStore, Relating
  <1> DEFINE same == AStore(s.graph.events, s.graph.chain, s.graph.nodes, s.graph.rels, s.cache, s.index)
  <1>2. Relating(same, rels) =
          AStore(s.graph.events, s.graph.chain, s.graph.nodes, s.graph.rels \cup rels,
            s.cache, s.index)
    BY <1>1
  <1>3. s = same
    BY DEF IsStore
  <1> QED
    BY <1>2, <1>3, Zenon

Extended(N, key, new) == [k \in DOMAIN N \cup {key} |-> IF k = key THEN new ELSE N[k]]

LEMMA CreatedStore ==
  ASSUME NEW s, IsStore(s), NEW i, NEW said
  PROVE  Created(s, i, said) =
           AStore(s.graph.events, s.graph.chain,
                  Extended(s.graph.nodes, <<said.name, i>>, [content |-> said.content, to |-> Open]),
                  s.graph.rels, [s.cache EXCEPT ![said.name] = <<said.name, i>>], s.index)
  <1>1. ASSUME NEW E, NEW C, NEW N, NEW R, NEW c, NEW x
        PROVE  Created(AStore(E, C, N, R, c, x), i, said) =
                 AStore(E, C, Extended(N, <<said.name, i>>, [content |-> said.content, to |-> Open]), R,
                        [c EXCEPT ![said.name] = <<said.name, i>>], x)
    <2> DEFINE g == [events |-> E, chain |-> C, nodes |-> N, rels |-> R]
               s1 == [graph |-> g, cache |-> c, index |-> x]
               versions == Extended(N, <<said.name, i>>, [content |-> said.content, to |-> Open])
               filled == [c EXCEPT ![said.name] = <<said.name, i>>]
    <2>1. Created(s1, i, said) =
            [[s1 EXCEPT !.graph = [g EXCEPT !.nodes = versions]] EXCEPT !.cache = filled]
      BY Zenon DEF Created, Extended
    <2>2. \A N1 : [s1 EXCEPT !.graph = [g EXCEPT !.nodes = N1]] =
                    [graph |-> [events |-> E, chain |-> C, nodes |-> N1, rels |-> R], cache |-> c, index |-> x]
      OBVIOUS
    <2>3. \A g1, c1 : [[graph |-> g1, cache |-> c, index |-> x] EXCEPT !.cache = c1] =
                        [graph |-> g1, cache |-> c1, index |-> x]
      OBVIOUS
    <2> QED
      BY <2>1, <2>2, <2>3, Zenon DEF AStore
  <1> DEFINE same == AStore(s.graph.events, s.graph.chain, s.graph.nodes, s.graph.rels, s.cache, s.index)
  <1>2. Created(same, i, said) =
          AStore(s.graph.events, s.graph.chain,
            Extended(s.graph.nodes, <<said.name, i>>, [content |-> said.content, to |-> Open]),
            s.graph.rels, [s.cache EXCEPT ![said.name] = <<said.name, i>>], s.index)
    BY <1>1
  <1>3. s = same
    BY DEF IsStore
  <1> QED
    BY <1>2, <1>3, Zenon

\* What becomes of the versions when one is closed, or made.
LEMMA ClosedVersions ==
  ASSUME NEW N, AreVersions(N), NEW i \in Nat, NEW v \in DOMAIN N
  PROVE  /\ AreVersions([N EXCEPT ![v].to = i])
         /\ DOMAIN [N EXCEPT ![v].to = i] = DOMAIN N
         /\ \A k \in DOMAIN N : /\ [N EXCEPT ![v].to = i][k].content = N[k].content
                                /\ [N EXCEPT ![v].to = i][k].to = IF k = v THEN i ELSE N[k].to
  BY DEF AreVersions, VersionRecord

\* A version is added.
LEMMA ExtendedVersions ==
  ASSUME NEW N, AreVersions(N), NEW key \in Ident, NEW new \in VersionRecord
  PROVE  /\ AreVersions(Extended(N, key, new))
         /\ DOMAIN Extended(N, key, new) = DOMAIN N \cup {key}
         /\ \A k \in DOMAIN N \cup {key} : Extended(N, key, new)[k] = IF k = key THEN new ELSE N[k]
  BY DEF AreVersions, Extended

\* M has the versions of N and one of key.
ExtendsTo(N, key, new, M) ==
  /\ AreVersions(M)
  /\ DOMAIN M = DOMAIN N \cup {key}
  /\ \A k \in DOMAIN N \cup {key} : M[k] = IF k = key THEN new ELSE N[k]

LEMMA ExtensionIs ==
  ASSUME NEW N, AreVersions(N), NEW key \in Ident, NEW new \in VersionRecord
  PROVE  ExtendsTo(N, key, new, Extended(N, key, new))
  BY DEF AreVersions, Extended, ExtendsTo
-----------------------------------------------------------------------------
(* What event i says of an entity.                                         *)

\* At most one version of an entity is open.
OneEach(s) == \A j, k \in Versions(s) : j[1] = k[1] /\ IsOpen(s, j) /\ IsOpen(s, k) => j = k

\* The cache may know of a version that has been closed since, but never misses
\* one that is open.
CacheBounds(s) ==
  \A n \in Name : s.cache[n] # None =>
    /\ s.cache[n] \in Versions(s) /\ s.cache[n][1] = n
    /\ \A k \in Versions(s) : k[1] = n /\ IsOpen(s, k) => k = s.cache[n]

\* What the cache knows is open: true but for statements that failed.
Exact(s) == \A n \in Name : s.cache[n] # None => IsOpen(s, s.cache[n])

\* The version that an entity is taken to have is the open one, if there is one.
LEMMA VersionFacts ==
  ASSUME NEW s, IsStore(s), OneEach(s), CacheBounds(s), NEW n \in Name
  PROVE  /\ Version(s, n) # None => Version(s, n) \in Versions(s) /\ Version(s, n)[1] = n
         /\ \A k \in Versions(s) : k[1] = n /\ IsOpen(s, k) => k = Version(s, n)
         /\ Exact(s) /\ Version(s, n) # None => IsOpen(s, Version(s, n))
         /\ s.cache[n] # None => Version(s, n) = s.cache[n]
  <1>1. CASE s.cache[n] # None
    BY <1>1 DEF Version, CacheBounds, Exact
  <1>2. CASE s.cache[n] = None /\ Active(s.graph, n) = {}
    BY <1>2 DEF Version, Active, Versions, IsOpen
  <1>3. CASE s.cache[n] = None /\ Active(s.graph, n) # {}
    <2>1. PICK v \in Active(s.graph, n) : TRUE
      BY <1>3
    <2>2. \A k \in Active(s.graph, n) : k = v
      BY DEF Active, OneEach, Versions, IsOpen
    <2>3. v[2] \in Nat
      BY DEF Active, IsStore, AreVersions, Ident
    <2>4. \A k \in Active(s.graph, n) : k[2] <= v[2]
      BY <2>2, <2>3
    <2> DEFINE youngest == CHOOSE k \in Active(s.graph, n) : \A j \in Active(s.graph, n) : j[2] <= k[2]
    <2>5. youngest \in Active(s.graph, n)
      BY <2>4
    <2>6. Version(s, n) = youngest
      BY <1>3 DEF Version
    <2>7. Version(s, n) = v
      BY <2>2, <2>5, <2>6
    <2> QED
      BY <1>3, <2>2, <2>7 DEF Active, Versions, IsOpen
  <1> QED
    BY <1>1, <1>2, <1>3

\* Nothing cached is not a version.
LEMMA NoVersion == \A s : IsStore(s) => None \notin Versions(s)
  BY MarksAssumption DEF IsStore, AreVersions, Versions, Ident

\* What is known of n is the same in both stores.
Kept(s, t, n) ==
  \A k \in Ident : k[1] = n =>
    /\ k \in Versions(t) <=> k \in Versions(s)
    /\ k \in Versions(s) => t.graph.nodes[k] = s.graph.nodes[k]

\* Of n, t is what s becomes by an event i that says c of it: the version that was
\* taken for current is closed, and i makes a new one, or nothing changes.
Renewed(s, t, i, n, c) ==
  /\ <<n, i>> \in Versions(t)
  /\ t.graph.nodes[<<n, i>>] = [content |-> c, to |-> Open]
  /\ \A k \in Ident : k[1] = n /\ k # <<n, i>> =>
       /\ k \in Versions(t) <=> k \in Versions(s)
       /\ k \in Versions(s) =>
            /\ t.graph.nodes[k].content = s.graph.nodes[k].content
            /\ t.graph.nodes[k].to = IF k = Version(s, n) THEN i ELSE s.graph.nodes[k].to
  /\ t.cache[n] = <<n, i>>

Confirmed(s, t, n, c) ==
  /\ Version(s, n) # None /\ s.graph.nodes[Version(s, n)].content = c
  /\ Kept(s, t, n) /\ t.cache[n] = Version(s, n)

Retold(s, t, i, n, c) == Confirmed(s, t, n, c) \/ Renewed(s, t, i, n, c)

\* Only what is known of n may differ, and the relations.
OnlyOf(s, t, n) ==
  /\ t.graph.events = s.graph.events /\ t.graph.chain = s.graph.chain /\ t.index = s.index
  /\ \A m \in Name \ {n} : Kept(s, t, m) /\ t.cache[m] = s.cache[m]

\* What an assertion does: nothing new is said; the entity is new; a new version.
LEMMA AssertedSame ==
  ASSUME NEW s, IsStore(s), OneEach(s), CacheBounds(s), NEW i \in Nat,
         NEW said \in Saying, Same(s, said), NEW t, t = Asserted(s, i, said)
  PROVE  /\ IsStore(t) /\ OnlyOf(s, t, said.name) /\ Retold(s, t, i, said.name, said.content)
         /\ t.graph.nodes = s.graph.nodes /\ t.graph.rels = s.graph.rels
  <1> DEFINE n == said.name
             v == Version(s, n)
             filled == [s.cache EXCEPT ![n] = v]
  <1>1. n \in Name /\ v # None /\ v \in Versions(s) /\ s.graph.nodes[v].content = said.content
    BY VersionFacts DEF Same, Saying
  <1>2. t = AStore(s.graph.events, s.graph.chain, s.graph.nodes, s.graph.rels, filled, s.index)
    BY CachedStore DEF Asserted
  <1>3. filled \in [Name -> Ident \cup {None}]
    BY <1>1 DEF IsStore, AreVersions, Versions
  <1>4. /\ filled[n] = v
        /\ \A m \in Name \ {n} : filled[m] = s.cache[m]
    BY <1>1 DEF IsStore
  <1> HIDE DEF filled
  <1>5. /\ t.graph.events = s.graph.events /\ t.graph.chain = s.graph.chain /\ t.graph.nodes = s.graph.nodes
        /\ t.graph.rels = s.graph.rels /\ t.cache = filled /\ t.index = s.index /\ IsStore(t)
    BY <1>2, <1>3, StoreParts DEF IsStore
  <1> QED
    BY <1>1, <1>4, <1>5 DEF OnlyOf, Retold, Confirmed, Kept, Versions

LEMMA AssertedFirst ==
  ASSUME NEW s, IsStore(s), OneEach(s), CacheBounds(s), NEW i \in Nat,
         NEW said \in Saying, Version(s, said.name) = None,
         NEW t, t = Asserted(s, i, said)
  PROVE  /\ IsStore(t) /\ OnlyOf(s, t, said.name) /\ Renewed(s, t, i, said.name, said.content)
         /\ t.graph.rels = s.graph.rels
  <1> DEFINE n == said.name
             new == [content |-> said.content, to |-> Open]
             nodes == Extended(s.graph.nodes, <<n, i>>, new)
             filled == [s.cache EXCEPT ![n] = <<n, i>>]
  <1>1. n \in Name /\ <<n, i>> \in Ident /\ new \in VersionRecord
    BY DEF Ident, VersionRecord, Saying
  <1>2. ~ Same(s, said)
    BY DEF Same
  <1>3. t = AStore(s.graph.events, s.graph.chain, nodes, s.graph.rels, filled, s.index)
    BY <1>2, CreatedStore DEF Asserted
  <1>4. /\ filled \in [Name -> Ident \cup {None}]
        /\ filled[n] = <<n, i>>
        /\ \A m \in Name \ {n} : filled[m] = s.cache[m]
    BY <1>1 DEF IsStore
  <1> HIDE DEF new
  <1>5. /\ AreVersions(nodes)
        /\ DOMAIN nodes = Versions(s) \cup {<<n, i>>}
        /\ \A k \in Versions(s) \cup {<<n, i>>} : nodes[k] = IF k = <<n, i>> THEN new ELSE s.graph.nodes[k]
    <2>1. AreVersions(s.graph.nodes)
      BY DEF IsStore
    <2> QED
      BY <1>1, <2>1, ExtendedVersions DEF Versions
  <1> HIDE DEF filled, nodes
  <1>6. /\ t.graph.events = s.graph.events /\ t.graph.chain = s.graph.chain /\ t.graph.nodes = nodes
        /\ t.graph.rels = s.graph.rels /\ t.cache = filled /\ t.index = s.index /\ IsStore(t)
    BY <1>3, <1>4, <1>5, StoreParts
  <1>7. None \notin Versions(s)
    BY NoVersion
  <1>8. OnlyOf(s, t, n)
    BY <1>4, <1>5, <1>6 DEF OnlyOf, Kept, Versions
  <1>9. Renewed(s, t, i, n, said.content)
    <2>1. /\ <<n, i>> \in Versions(t)
          /\ t.graph.nodes[<<n, i>>] = [content |-> said.content, to |-> Open]
          /\ t.cache[n] = <<n, i>>
      BY <1>4, <1>5, <1>6 DEF Versions, new
    <2>2. ASSUME NEW k \in Ident, k[1] = n, k # <<n, i>>
          PROVE  /\ k \in Versions(t) <=> k \in Versions(s)
                 /\ k \in Versions(s) =>
                      /\ t.graph.nodes[k].content = s.graph.nodes[k].content
                      /\ t.graph.nodes[k].to = IF k = None THEN i ELSE s.graph.nodes[k].to
      BY <2>2, <1>5, <1>6, <1>7 DEF Versions
    <2> QED
      BY <2>1, <2>2 DEF Renewed
  <1> QED
    BY <1>6, <1>8, <1>9

\* The new version is there before relations are carried over to it.
MakesAnew(s, created, t, rels) ==
  /\ created.graph.nodes = t.graph.nodes /\ created.graph.rels = s.graph.rels
  /\ t.graph.rels = s.graph.rels \cup rels

LEMMA AssertedAnew ==
  ASSUME NEW s, IsStore(s), OneEach(s), CacheBounds(s), NEW i \in Nat,
         NEW said \in Saying, Version(s, said.name) # None, ~ Same(s, said),
         NEW created, created = Created(Closed(s, Version(s, said.name), i), i, said),
         NEW rels, NEW t, t = Relating(created, rels)
  PROVE  /\ IsStore(t) /\ OnlyOf(s, t, said.name) /\ Renewed(s, t, i, said.name, said.content)
         /\ MakesAnew(s, created, t, rels)
  <1> DEFINE n == said.name
             v == Version(s, n)
             new == [content |-> said.content, to |-> Open]
             filled == [s.cache EXCEPT ![n] = <<n, i>>]
             old == Closed(s, v, i)
  <1>1. n \in Name /\ <<n, i>> \in Ident /\ new \in VersionRecord
    BY DEF Ident, VersionRecord, Saying
  <1>2. v \in Versions(s) /\ v[1] = n
    BY <1>1, VersionFacts
  <1>14. PICK closing : closing = [s.graph.nodes EXCEPT ![v].to = i]
    OBVIOUS
  <1> DEFINE nodes == Extended(closing, <<n, i>>, new)
  <1>3. old = AStore(s.graph.events, s.graph.chain, closing, s.graph.rels, s.cache, s.index)
    BY <1>14, ClosedStore
  <1>4. /\ AreVersions(closing) /\ DOMAIN closing = Versions(s)
        /\ \A k \in Versions(s) : /\ closing[k].content = s.graph.nodes[k].content
                                  /\ closing[k].to = IF k = v THEN i ELSE s.graph.nodes[k].to
                                  /\ k # v => closing[k] = s.graph.nodes[k]
    BY <1>2, <1>14, ClosedVersions DEF IsStore, Versions
  <1>5. /\ filled \in [Name -> Ident \cup {None}]
        /\ filled[n] = <<n, i>>
        /\ \A m \in Name \ {n} : filled[m] = s.cache[m]
    BY <1>1 DEF IsStore
  <1> HIDE DEF old
  <1>6. /\ old.graph.events = s.graph.events /\ old.graph.chain = s.graph.chain /\ old.graph.nodes = closing
        /\ old.graph.rels = s.graph.rels /\ old.cache = s.cache /\ old.index = s.index /\ IsStore(old)
    BY <1>3, <1>4, StoreParts DEF IsStore
  <1>7. created = AStore(s.graph.events, s.graph.chain, nodes, s.graph.rels, filled, s.index)
    <2>1. created = Created(old, i, said)
      BY DEF old
    <2> QED
      BY <2>1, <1>6, CreatedStore
  <1> HIDE DEF new
  <1>8. /\ AreVersions(nodes)
        /\ DOMAIN nodes = Versions(s) \cup {<<n, i>>}
        /\ \A k \in Versions(s) \cup {<<n, i>>} : nodes[k] = IF k = <<n, i>> THEN new ELSE closing[k]
    <2>1. PICK key, w : key = <<n, i>> /\ w = new
      OBVIOUS
    <2>2. AreVersions(closing) /\ key \in Ident /\ w \in VersionRecord
      BY <1>1, <1>4, <2>1
    <2>4. ExtendsTo(closing, key, w, Extended(closing, key, w))
      BY <2>2, ExtensionIs
    <2>3. /\ AreVersions(nodes)
          /\ DOMAIN nodes = DOMAIN closing \cup {<<n, i>>}
          /\ \A k \in DOMAIN closing \cup {<<n, i>>} : nodes[k] = IF k = <<n, i>> THEN new ELSE closing[k]
      BY <2>1, <2>4 DEF ExtendsTo
    <2> QED
      BY <2>3, <1>4
  <1> HIDE DEF filled, nodes
  <1>9. /\ created.graph.events = s.graph.events /\ created.graph.chain = s.graph.chain
        /\ created.graph.nodes = nodes /\ created.graph.rels = s.graph.rels
        /\ created.cache = filled /\ created.index = s.index /\ IsStore(created)
    BY <1>5, <1>7, <1>8, StoreParts
  <1>10. t = AStore(s.graph.events, s.graph.chain, nodes, s.graph.rels \cup rels, filled, s.index)
    BY <1>9, RelatingStore
  <1>11. /\ t.graph.events = s.graph.events /\ t.graph.chain = s.graph.chain /\ t.graph.nodes = nodes
         /\ t.graph.rels = s.graph.rels \cup rels /\ t.cache = filled /\ t.index = s.index /\ IsStore(t)
    BY <1>5, <1>8, <1>10, StoreParts
  <1>12. OnlyOf(s, t, n)
    BY <1>2, <1>4, <1>5, <1>8, <1>11 DEF OnlyOf, Kept, Versions
  <1>13. Renewed(s, t, i, n, said.content)
    <2>1. /\ <<n, i>> \in Versions(t)
          /\ t.graph.nodes[<<n, i>>] = [content |-> said.content, to |-> Open]
          /\ t.cache[n] = <<n, i>>
      BY <1>5, <1>8, <1>11 DEF Versions, new
    <2>2. ASSUME NEW k \in Ident, k[1] = n, k # <<n, i>>
          PROVE  /\ k \in Versions(t) <=> k \in Versions(s)
                 /\ k \in Versions(s) =>
                      /\ t.graph.nodes[k].content = s.graph.nodes[k].content
                      /\ t.graph.nodes[k].to = IF k = v THEN i ELSE s.graph.nodes[k].to
      BY <2>2, <1>4, <1>8, <1>11 DEF Versions
    <2> QED
      BY <2>1, <2>2 DEF Renewed
  <1> QED
    BY <1>9, <1>11, <1>12, <1>13 DEF MakesAnew

\* Who is told of again has one open version at most, which the cache knows.
LEMMA RetoldKeeps ==
  ASSUME NEW s, NEW t, IsStore(s), IsStore(t), OneEach(s), CacheBounds(s),
         NEW i \in Nat, NEW n \in Name, NEW c, OnlyOf(s, t, n), Retold(s, t, i, n, c)
  PROVE  /\ OneEach(t) /\ CacheBounds(t)
         /\ Exact(s) => Exact(t)
         /\ t.cache[n] # None /\ t.graph.nodes[t.cache[n]].content = c
  <1> DEFINE v == Version(s, n)
  <1>1. /\ v # None => v \in Versions(s) /\ v[1] = n
        /\ \A k \in Versions(s) : k[1] = n /\ IsOpen(s, k) => k = v
        /\ Exact(s) /\ v # None => IsOpen(s, v)
    BY VersionFacts
  <1>2. Versions(s) \subseteq Ident /\ Versions(t) \subseteq Ident
    BY DEF IsStore, AreVersions, Versions
  <1>3. i # Open /\ None \notin Ident
    BY MarksAssumption DEF Ident
  <1>4. \A k \in Ident : k[1] \in Name
    BY DEF Ident
  <1>5. /\ t.cache[n] \in Versions(t) /\ t.cache[n][1] = n /\ t.graph.nodes[t.cache[n]].content = c
        /\ \A k \in Versions(t) : k[1] = n /\ IsOpen(t, k) => k = t.cache[n]
        /\ Exact(s) => IsOpen(t, t.cache[n])
    <2>1. CASE Confirmed(s, t, n, c)
      BY <1>1, <1>2, <2>1 DEF Confirmed, Kept, IsOpen
    <2>2. CASE Renewed(s, t, i, n, c)
      <3>1. /\ <<n, i>> \in Versions(t) /\ t.cache[n] = <<n, i>>
            /\ t.graph.nodes[<<n, i>>] = [content |-> c, to |-> Open]
        BY <2>2 DEF Renewed
      <3>2. ASSUME NEW k \in Versions(t), k[1] = n, IsOpen(t, k), k # <<n, i>>
            PROVE  FALSE
        <4>1. k \in Versions(s) /\ t.graph.nodes[k].to = IF k = v THEN i ELSE s.graph.nodes[k].to
          BY <1>2, <2>2, <3>2 DEF Renewed
        <4> QED
          BY <1>1, <1>3, <3>2, <4>1 DEF IsOpen
      <3> QED
        BY <3>1, <3>2 DEF IsOpen
    <2> QED
      BY <2>1, <2>2 DEF Retold
  <1>6. ASSUME NEW m \in Name \ {n}
        PROVE  /\ t.cache[m] = s.cache[m]
               /\ \A k \in Ident : k[1] = m => /\ k \in Versions(t) <=> k \in Versions(s)
                                               /\ k \in Versions(s) => (IsOpen(t, k) <=> IsOpen(s, k))
    BY DEF OnlyOf, Kept, IsOpen
  <1>7. OneEach(t)
    <2> SUFFICES ASSUME NEW j \in Versions(t), NEW k \in Versions(t), j[1] = k[1], IsOpen(t, j), IsOpen(t, k)
                 PROVE  j = k
      BY DEF OneEach
    <2>1. CASE j[1] = n
      BY <1>5, <2>1
    <2>2. CASE j[1] # n
      BY <1>2, <1>4, <1>6, <2>2 DEF OneEach
    <2> QED
      BY <2>1, <2>2
  <1>8. CacheBounds(t)
    <2> SUFFICES ASSUME NEW m \in Name, t.cache[m] # None
                 PROVE  /\ t.cache[m] \in Versions(t) /\ t.cache[m][1] = m
                        /\ \A k \in Versions(t) : k[1] = m /\ IsOpen(t, k) => k = t.cache[m]
      BY DEF CacheBounds
    <2>1. CASE m = n
      BY <1>5, <2>1
    <2>2. CASE m # n
      BY <1>2, <1>6, <2>2 DEF CacheBounds
    <2> QED
      BY <2>1, <2>2
  <1>9. ASSUME Exact(s), NEW m \in Name, t.cache[m] # None
        PROVE  IsOpen(t, t.cache[m])
    <2>1. CASE m = n
      BY <1>5, <1>9, <2>1
    <2>2. CASE m # n
      <3>1. s.cache[m] # None /\ s.cache[m] \in Versions(s) /\ s.cache[m][1] = m /\ IsOpen(s, s.cache[m])
        BY <1>6, <1>9, <2>2 DEF CacheBounds, Exact
      <3> QED
        BY <1>2, <1>6, <2>2, <3>1
    <2> QED
      BY <2>1, <2>2
  <1>10. t.cache[n] # None
    BY <1>2, <1>3, <1>5
  <1> QED
    BY <1>5, <1>7, <1>8, <1>9, <1>10 DEF Exact
-----------------------------------------------------------------------------
(* Relations.                                                              *)

RelEnds(s) == \A r \in s.graph.rels : r = <<r[1], r[2]>> /\ r[1] \in Versions(s) /\ r[2] \in Versions(s)

\* Two entities are related at present.
OpenRel(s, p) ==
  \E r \in s.graph.rels : r[1][1] = p[1] /\ r[2][1] = p[2] /\ IsOpen(s, r[1]) /\ IsOpen(s, r[2])

\* The relations of t are between entities that s relates.
NamesOf(r) == <<r[1][1], r[2][1]>>
RelNames(s, t) == \A r \in t.graph.rels : \E q \in s.graph.rels : NamesOf(r) = NamesOf(q)

\* What is carried over is between versions that there are.
LEMMA CarriedFacts ==
  ASSUME NEW s, RelEnds(s), NEW n, NEW i, <<n, i>> \in Versions(s), NEW r \in Carried(s, i, n)
  PROVE  /\ r = <<r[1], r[2]>> /\ r[1] \in Versions(s) /\ r[2] \in Versions(s)
         /\ \E q \in s.graph.rels : NamesOf(r) = NamesOf(q)
  <1> DEFINE prev == {k \in DOMAIN s.graph.nodes : k[1] = n /\ s.graph.nodes[k].to = i}
  <1>1. CASE \E q \in s.graph.rels : q[2] \in prev /\ r = <<q[1], <<n, i>>>>
    <2>1. PICK q \in s.graph.rels : q[2] \in prev /\ r = <<q[1], <<n, i>>>>
      BY <1>1
    <2> QED
      BY <2>1 DEF RelEnds, NamesOf, Versions
  <1>2. CASE \E q \in s.graph.rels : q[1] \in prev /\ r = <<<<n, i>>, q[2]>>
    <2>1. PICK q \in s.graph.rels : q[1] \in prev /\ r = <<<<n, i>>, q[2]>>
      BY <1>2
    <2> QED
      BY <2>1 DEF RelEnds, NamesOf, Versions
  <1> QED
    BY <1>1, <1>2, Zenon DEF Carried

\* Relations are kept by what is asserted of n, between other entities because
\* their versions stay, and of n because they are carried over.
LEMMA AssertedRels ==
  ASSUME NEW s, IsStore(s), OneEach(s), CacheBounds(s), RelEnds(s), NEW i \in Nat,
         NEW said \in Saying, NEW t, t = Asserted(s, i, said)
  PROVE  /\ RelEnds(t) /\ RelNames(s, t)
         /\ \A p : p[1] # p[2] /\ OpenRel(s, p) => OpenRel(t, p)
  <1> DEFINE n == said.name
             v == Version(s, n)
             created == Created(Closed(s, v, i), i, said)
  <1>1. n \in Name /\ Versions(s) \subseteq Ident
    BY DEF Saying, IsStore, AreVersions, Versions
  <1>2. CASE Same(s, said)
    BY <1>2, AssertedSame DEF RelEnds, RelNames, OpenRel, Versions, IsOpen
  <1>3. CASE v = None
    <2>1. IsStore(t) /\ OnlyOf(s, t, n) /\ Renewed(s, t, i, n, said.content) /\ t.graph.rels = s.graph.rels
      BY <1>3, AssertedFirst
    <2>2. ASSUME NEW k \in Versions(s)
          PROVE  k \in Versions(t) /\ (IsOpen(s, k) => IsOpen(t, k))
      <3>1. CASE k[1] # n
        <4>1. k[1] \in Name
          BY <1>1 DEF Ident
        <4> QED
          BY <1>1, <2>1, <3>1, <4>1 DEF OnlyOf, Kept, IsOpen
      <3>2. CASE k[1] = n /\ k # <<n, i>>
        <4>1. k # None
          BY NoVersion
        <4> QED
          BY <1>1, <1>3, <2>1, <3>2, <4>1 DEF Renewed, IsOpen
      <3>3. CASE k = <<n, i>>
        BY <1>3, <2>1, <3>3 DEF Renewed, IsOpen
      <3> QED
        BY <3>1, <3>2, <3>3
    <2> QED
      BY <2>1, <2>2 DEF RelEnds, RelNames, OpenRel
  <1>4. CASE v # None /\ ~ Same(s, said)
    <2> DEFINE rels == Carried(created, i, n)
    <2>1. t = Relating(created, rels)
      BY <1>4 DEF Asserted
    <2>2. PICK c, rels1 : c = created /\ rels1 = rels
      OBVIOUS
    <2> HIDE DEF created
    <2>3. /\ IsStore(t) /\ OnlyOf(s, t, n) /\ Renewed(s, t, i, n, said.content)
          /\ c.graph.nodes = t.graph.nodes /\ c.graph.rels = s.graph.rels
          /\ t.graph.rels = s.graph.rels \cup rels1
      <3>1. c = Created(Closed(s, Version(s, said.name), i), i, said)
        BY <2>2 DEF created
      <3>2. t = Relating(c, rels1)
        BY <2>1, <2>2
      <3> QED
        <4>1. Version(s, said.name) # None /\ ~ Same(s, said)
          BY <1>4
        <4>2. /\ IsStore(t) /\ OnlyOf(s, t, said.name) /\ Renewed(s, t, i, said.name, said.content)
              /\ MakesAnew(s, c, t, rels1)
          BY <4>1, <3>1, <3>2, AssertedAnew
        <4> QED
          BY <4>2 DEF MakesAnew
    <2>5. /\ <<n, i>> \in Versions(t) /\ IsOpen(t, <<n, i>>)
          /\ \A k \in Ident : k[1] = n /\ k # <<n, i>> /\ k \in Versions(s) =>
               k \in Versions(t) /\ t.graph.nodes[k].to = IF k = v THEN i ELSE s.graph.nodes[k].to
      BY <2>3 DEF Renewed, IsOpen
    <2>6. ASSUME NEW k \in Versions(s)
          PROVE  k \in Versions(t) /\ (IsOpen(s, k) => IsOpen(t, k) \/ (k = v /\ k # <<n, i>>))
      <3>1. CASE k[1] # n
        <4>1. k[1] \in Name
          BY <1>1 DEF Ident
        <4> QED
          BY <1>1, <2>3, <3>1, <4>1 DEF OnlyOf, Kept, IsOpen
      <3>2. CASE k[1] = n
        BY <1>1, <2>5, <3>2 DEF IsOpen
      <3> QED
        BY <3>1, <3>2
    <2>7. RelEnds(c) /\ <<n, i>> \in Versions(c)
      BY <2>3, <2>5, <2>6 DEF RelEnds, Versions
    <2>8. \A r \in rels1 : /\ r = <<r[1], r[2]>> /\ r[1] \in Versions(t) /\ r[2] \in Versions(t)
                           /\ \E q \in s.graph.rels : NamesOf(r) = NamesOf(q)
      BY <2>2, <2>3, <2>7, CarriedFacts DEF Versions
    <2>9. RelEnds(t) /\ RelNames(s, t)
      BY <2>3, <2>6, <2>8 DEF RelEnds, RelNames
    <2>10. ASSUME NEW p, p[1] # p[2], OpenRel(s, p)
           PROVE  OpenRel(t, p)
      <3>1. PICK r \in s.graph.rels : r[1][1] = p[1] /\ r[2][1] = p[2] /\ IsOpen(s, r[1]) /\ IsOpen(s, r[2])
        BY <2>10 DEF OpenRel
      <3>2. r = <<r[1], r[2]>> /\ r[1] \in Versions(s) /\ r[2] \in Versions(s)
        BY DEF RelEnds
      <3>3. v[1] = n /\ v \in Versions(s)
        BY <1>1, <1>4, VersionFacts
      <3>4. r[1] # v \/ r[2] # v
        BY <2>10, <3>1
      <3>5. CASE IsOpen(t, r[1]) /\ IsOpen(t, r[2])
        BY <2>3, <3>1, <3>5 DEF OpenRel
      <3>6. CASE r[1] = v /\ r[1] # <<n, i>> /\ IsOpen(t, r[2])
        <4>1. t.graph.nodes[v].to = i
          BY <1>1, <2>5, <3>2, <3>3, <3>6
        <4>2. <<<<n, i>>, r[2]>> \in rels1
          BY <2>2, <2>3, <2>6, <3>2, <3>3, <3>6, <4>1 DEF Carried, Versions, IsOpen
        <4> QED
          BY <2>3, <2>5, <3>1, <3>3, <3>6, <4>2 DEF OpenRel
      <3>7. CASE r[2] = v /\ r[2] # <<n, i>> /\ IsOpen(t, r[1])
        <4>1. t.graph.nodes[v].to = i
          BY <1>1, <2>5, <3>2, <3>3, <3>7
        <4>2. <<r[1], <<n, i>>>> \in rels1
          BY <2>2, <2>3, <2>6, <3>2, <3>3, <3>7, <4>1 DEF Carried, Versions, IsOpen
        <4> QED
          BY <2>3, <2>5, <3>1, <3>3, <3>7, <4>2 DEF OpenRel
      <3> QED
        BY <2>6, <3>1, <3>2, <3>4, <3>5, <3>6, <3>7
    <2> QED
      BY <2>9, <2>10
  <1> QED
    BY <1>2, <1>3, <1>4
-----------------------------------------------------------------------------
(* All that an event says.                                                 *)

\* A store that upserts keep, whatever statements failed before.
Coherent(s) == IsStore(s) /\ OneEach(s) /\ CacheBounds(s) /\ RelEnds(s)

\* Nothing that a search finds has changed.
SameContents(s, t) == t.graph.nodes = s.graph.nodes /\ t.graph.rels = s.graph.rels

IsCached(s, n) == s.cache[n] # None

\* What one assertion does.
LEMMA AssertedStep ==
  ASSUME NEW s, Coherent(s), NEW i \in Nat, NEW said \in Saying, NEW t, t = Asserted(s, i, said)
  PROVE  /\ Coherent(t) /\ OnlyOf(s, t, said.name) /\ Retold(s, t, i, said.name, said.content)
         /\ Exact(s) => Exact(t)
         /\ IsCached(t, said.name)
         /\ RelNames(s, t)
         /\ \A p : p[1] # p[2] /\ OpenRel(s, p) => OpenRel(t, p)
         /\ Same(s, said) => SameContents(s, t)
  <1>1. /\ IsStore(s) /\ OneEach(s) /\ CacheBounds(s) /\ RelEnds(s)
        /\ said.name \in Name
    BY DEF Coherent, Saying
  <1>2. IsStore(t) /\ OnlyOf(s, t, said.name) /\ Retold(s, t, i, said.name, said.content)
    <2>1. CASE Same(s, said)
      BY <1>1, <2>1, AssertedSame
    <2>2. CASE Version(s, said.name) = None
      BY <1>1, <2>2, AssertedFirst DEF Retold
    <2>3. CASE Version(s, said.name) # None /\ ~ Same(s, said)
      <3>1. PICK created, rels : /\ created = Created(Closed(s, Version(s, said.name), i), i, said)
                                 /\ rels = Carried(created, i, said.name)
        OBVIOUS
      <3>2. t = Relating(created, rels)
        BY <2>3, <3>1 DEF Asserted
      <3> QED
        BY <1>1, <2>3, <3>1, <3>2, AssertedAnew DEF Retold
    <2> QED
      BY <2>1, <2>2, <2>3
  <1>3. /\ OneEach(t) /\ CacheBounds(t)
        /\ Exact(s) => Exact(t)
        /\ IsCached(t, said.name)
    BY <1>1, <1>2, RetoldKeeps DEF IsCached
  <1>4. /\ RelEnds(t) /\ RelNames(s, t)
        /\ \A p : p[1] # p[2] /\ OpenRel(s, p) => OpenRel(t, p)
    BY <1>1, AssertedRels
  <1>5. Same(s, said) => SameContents(s, t)
    BY <1>1, AssertedSame DEF SameContents
  <1> QED
    BY <1>2, <1>3, <1>4, <1>5 DEF Coherent

\* What is kept is taken for the same version.
LEMMA VersionKept ==
  ASSUME NEW s, NEW t, IsStore(s), IsStore(t), NEW n \in Name, Kept(s, t, n), t.cache[n] = s.cache[n]
  PROVE  /\ Version(t, n) = Version(s, n)
         /\ \A k \in Ident : k[1] = n /\ k \in Versions(s) => t.graph.nodes[k] = s.graph.nodes[k]
  <1>1. Versions(s) \subseteq Ident /\ Versions(t) \subseteq Ident
    BY DEF IsStore, AreVersions, Versions
  <1>2. Active(t.graph, n) = Active(s.graph, n)
    BY <1>1 DEF Active, Kept, Versions
  <1> QED
    BY <1>2 DEF Version, Kept

\* Who is told of again, and then left alone.
LEMMA RetoldThenKept ==
  ASSUME NEW s, NEW u, NEW t, NEW i, NEW n, NEW c, Retold(s, u, i, n, c), <<n, i>> \in Ident,
         Kept(u, t, n), t.cache[n] = u.cache[n]
  PROVE  Retold(s, t, i, n, c)
  <1>1. CASE Confirmed(s, u, n, c)
    BY <1>1 DEF Retold, Confirmed, Kept
  <1>2. CASE Renewed(s, u, i, n, c)
    BY <1>2 DEF Retold, Renewed, Kept
  <1> QED
    BY <1>1, <1>2 DEF Retold

\* Who is left alone, and then told of again.
LEMMA KeptThenRetold ==
  ASSUME NEW s, NEW u, NEW t, IsStore(s), IsStore(u), OneEach(s), CacheBounds(s), NEW i, NEW n \in Name, NEW c,
         Kept(s, u, n), u.cache[n] = s.cache[n], Retold(u, t, i, n, c)
  PROVE  Retold(s, t, i, n, c)
  <1>1. PICK v : v = Version(s, n)
    OBVIOUS
  <1>2. /\ Version(u, n) = v
        /\ \A k \in Ident : k[1] = n /\ k \in Versions(s) => u.graph.nodes[k] = s.graph.nodes[k]
        /\ \A k \in Ident : k[1] = n => (k \in Versions(u) <=> k \in Versions(s))
    BY <1>1, VersionKept DEF Kept
  <1>3. v # None => v \in Ident /\ v \in Versions(s) /\ v[1] = n
    BY <1>1, VersionFacts DEF IsStore, AreVersions, Versions
  <1>4. CASE Confirmed(u, t, n, c)
    BY <1>1, <1>2, <1>3, <1>4 DEF Retold, Confirmed, Kept
  <1>5. CASE Renewed(u, t, i, n, c)
    BY <1>1, <1>2, <1>5 DEF Retold, Renewed
  <1> QED
    BY <1>4, <1>5 DEF Retold

\* Who is told of twice is told of what comes last.
LEMMA RetoldTwice ==
  ASSUME NEW s, NEW u, NEW t, IsStore(s), OneEach(s), CacheBounds(s), NEW i \in Nat, NEW n \in Name,
         NEW c, NEW d, Retold(s, u, i, n, c), IsCached(u, n), Retold(u, t, i, n, d)
  PROVE  Retold(s, t, i, n, d)
  <1>1. PICK v, w : v = Version(s, n) /\ w = <<n, i>>
    OBVIOUS
  <1>2. w \in Ident /\ w[1] = n
    BY <1>1 DEF Ident
  <1>3. v # None => v \in Ident /\ v \in Versions(s) /\ v[1] = n
    BY <1>1, VersionFacts DEF IsStore, AreVersions, Versions
  <1>4. Version(u, n) = u.cache[n]
    BY DEF Version, IsCached
  <1>5. CASE Confirmed(s, u, n, c)
    <2>1. v # None /\ Version(u, n) = v /\ Kept(s, u, n)
      BY <1>1, <1>4, <1>5 DEF Confirmed
    <2>2. CASE Confirmed(u, t, n, d)
      BY <1>1, <1>3, <2>1, <2>2 DEF Retold, Confirmed, Kept
    <2>3. CASE Renewed(u, t, i, n, d)
      BY <1>1, <2>1, <2>3 DEF Retold, Renewed, Kept
    <2> QED
      BY <2>2, <2>3 DEF Retold
  <1>6. CASE Renewed(s, u, i, n, c)
    <2>1. Version(u, n) = w /\ w \in Versions(u) /\ u.graph.nodes[w] = [content |-> c, to |-> Open]
      BY <1>1, <1>4, <1>6 DEF Renewed
    <2>2. CASE Confirmed(u, t, n, d)
      <3>1. c = d /\ Kept(u, t, n) /\ t.cache[n] = u.cache[n]
        BY <1>4, <2>1, <2>2 DEF Confirmed
      <3> QED
        BY <1>1, <1>2, <1>6, <3>1, RetoldThenKept DEF Retold
    <2>3. CASE Renewed(u, t, i, n, d)
      BY <1>1, <1>6, <2>1, <2>3 DEF Retold, Renewed
    <2> QED
      BY <2>2, <2>3 DEF Retold
  <1> QED
    BY <1>5, <1>6 DEF Retold

\* The version that is current then has what was said.
LEMMA RetoldContent ==
  ASSUME NEW s, NEW u, IsStore(s), OneEach(s), CacheBounds(s), NEW i, NEW n \in Name,
         NEW c, Retold(s, u, i, n, c), IsCached(u, n)
  PROVE  Version(u, n) # None /\ u.graph.nodes[Version(u, n)].content = c
  <1>1. Version(u, n) = u.cache[n] /\ u.cache[n] # None
    BY DEF Version, IsCached
  <1>2. Version(s, n) # None =>
          Version(s, n) \in Ident /\ Version(s, n) \in Versions(s) /\ Version(s, n)[1] = n
    BY VersionFacts DEF IsStore, AreVersions, Versions
  <1>3. CASE Confirmed(s, u, n, c)
    BY <1>1, <1>2, <1>3 DEF Confirmed, Kept
  <1>4. CASE Renewed(s, u, i, n, c)
    BY <1>1, <1>4 DEF Renewed
  <1> QED
    BY <1>3, <1>4 DEF Retold

\* A set of numbers has a least one: what inductions below rest on.
LEMMA NatMin ==
  ASSUME NEW T \in SUBSET Nat, T # {}
  PROVE  \E x \in T : \A y \in T : x <= y
  <1>1. PICK x \in T : \A y \in T : ~ (<<y, x>> \in OpToRel(<, Nat))
    BY NatLessThanWellFounded, WFMin
  <1>2. \A y \in T : ~ (y < x)
    BY <1>1 DEF OpToRel
  <1> QED
    BY <1>2

\* The last of some numbers up to m.
LEMMA NatMax ==
  ASSUME NEW m \in Nat, NEW T \in SUBSET (0..m), T # {}
  PROVE  \E x \in T : \A y \in T : y <= x
  <1> DEFINE bounds == {b \in Nat : \A y \in T : y <= b}
  <1>1. m \in bounds /\ bounds \in SUBSET Nat
    OBVIOUS
  <1>2. PICK b \in bounds : \A c \in bounds : b <= c
    BY <1>1, NatMin
  <1>3. b \in T
    <2> SUFFICES ASSUME b \notin T PROVE FALSE
      OBVIOUS
    <2>1. \A y \in T : y \in Nat /\ y <= b - 1
      BY <1>2
    <2>2. b - 1 \in Nat
      <3>1. PICK y \in T : TRUE
        OBVIOUS
      <3> QED
        BY <1>2, <2>1
    <2>3. b - 1 \in bounds
      BY <2>1, <2>2
    <2> QED
      BY <1>2, <2>2, <2>3
  <1> QED
    BY <1>2, <1>3

\* t is what s becomes by the first k assertions of event i.
Entered(s, i, k, t) ==
  /\ Coherent(t)
  /\ t.graph.events = s.graph.events \cup {i}
  /\ t.graph.chain = ChainWith(s.graph.events \cup {i}, s.graph.chain, i)
  /\ t.index = s.index
  /\ Exact(s) => Exact(t)
  /\ RelNames(s, t)
  /\ \A p : p[1] # p[2] /\ OpenRel(s, p) => OpenRel(t, p)
  /\ \A n \in Name :
       \/ Unsaid(log[i].says, k, n) /\ Kept(s, t, n) /\ t.cache[n] = s.cache[n]
       \/ \E c : LastSaid(log[i].says, k, n, c) /\ Retold(s, t, i, n, c) /\ IsCached(t, n)
  /\ (\A j \in 1..k : Same(s, log[i].says[j])) => SameContents(s, t)

\* An event as the extraction rules make it.
LEMMA EventSays ==
  ASSUME NEW e \in Extracts
  PROVE  /\ e.says \in Seq(Saying)
         /\ Len(e.says) \in Nat /\ DOMAIN e.says = 1..Len(e.says)
         /\ \A j \in 1..Len(e.says) : e.says[j] \in Saying /\ e.says[j].name \in Name
         /\ \A p \in e.links : p[1] \in Name /\ p[2] \in Name /\ p = <<p[1], p[2]>>
  <1>1. e.says \in Seq(Saying)
    BY ExtractsAssumption DEF Saying
  <1>2. DOMAIN e.says = 1..Len(e.says) /\ Len(e.says) \in Nat
    BY <1>1
  <1>3. ASSUME NEW j \in 1..Len(e.says)
        PROVE  e.says[j] \in Saying /\ e.says[j].name \in Name
    <2>1. e.says[j] \in Saying
      BY <1>1
    <2> QED
      BY <2>1 DEF Saying
  <1>4. e.links \subseteq Name \X Name
    BY ExtractsAssumption
  <1> QED
    BY <1>1, <1>2, <1>3, <1>4

\* What is said, and how the log has it.
LEMMA SaysFacts ==
  ASSUME NEW l, NEW i, l[i] \in Extracts
  PROVE  /\ \A n \in Name : Mentioned(l, i, n) <=> \E c : SaysLast(l, i, n, c)
         /\ \A n, c : SaysLast(l, i, n, c) => Says(l, i, n, c)
         /\ \A n, c, d : SaysLast(l, i, n, c) /\ SaysLast(l, i, n, d) => c = d
         /\ \A n, c : Says(l, i, n, c) => n \in Name /\ c \in Content /\ Mentioned(l, i, n)
         /\ \A n, k, c : k \in 0..Len(l[i].says) /\ LastSaid(l[i].says, k, n, c) => Says(l, i, n, c)
         /\ \A n : Unsaid(l[i].says, Len(l[i].says), n) => ~ Mentioned(l, i, n)
         /\ \A j \in 1..Len(l[i].says) : Says(l, i, l[i].says[j].name, l[i].says[j].content)
  <1>1. PICK says : says = l[i].says
    OBVIOUS
  <1>2. /\ DOMAIN says = 1..Len(says) /\ Len(says) \in Nat
        /\ \A j \in 1..Len(says) : says[j] \in Saying
    BY <1>1, EventSays
  <1>3. \A x \in Saying : /\ x = [name |-> x.name, content |-> x.content] /\ x.name \in Name /\ x.content \in Content
    BY DEF Saying
  <1>4. \A n, c : Says(l, i, n, c) <=> \E j \in 1..Len(says) : says[j] = [name |-> n, content |-> c]
    BY <1>1, <1>2 DEF Says
  <1>5. \A n, c : Says(l, i, n, c) <=> \E j \in 1..Len(says) : says[j].name = n /\ says[j].content = c
    <2> SUFFICES ASSUME NEW n, NEW c
                 PROVE  Says(l, i, n, c) <=> \E j \in 1..Len(says) : says[j].name = n /\ says[j].content = c
      OBVIOUS
    <2>1. ASSUME NEW j \in 1..Len(says)
          PROVE  says[j] = [name |-> n, content |-> c] <=> says[j].name = n /\ says[j].content = c
      <3>1. says[j] = [name |-> says[j].name, content |-> says[j].content]
        BY <1>2, <1>3
      <3>2. PICK x, y : x = says[j].name /\ y = says[j].content
        OBVIOUS
      <3>3. [name |-> x, content |-> y] = [name |-> n, content |-> c] <=> x = n /\ y = c
        OBVIOUS
      <3> QED
        BY <3>1, <3>2, <3>3
    <2> QED
      BY <1>4, <2>1
  <1>6. \A n, c : Says(l, i, n, c) => n \in Name /\ c \in Content
    BY <1>2, <1>3, <1>5
  <1>7. \A n, c : Says(l, i, n, c) => Mentioned(l, i, n)
    BY <1>6 DEF Mentioned
  <1>8. \A n, k, c : k \in 0..Len(says) /\ LastSaid(says, k, n, c) => Says(l, i, n, c)
    BY <1>2, <1>5 DEF LastSaid
  <1>9. \A n, c : SaysLast(l, i, n, c) <=> LastSaid(says, Len(says), n, c)
    BY <1>1 DEF SaysLast
  <1>10. \A n, c : SaysLast(l, i, n, c) => Says(l, i, n, c)
    <2>1. Len(says) \in 0..Len(says)
      BY <1>2
    <2> QED
      BY <1>8, <1>9, <2>1
  <1>11. \A n, c, d : SaysLast(l, i, n, c) /\ SaysLast(l, i, n, d) => c = d
    <2>1. \A j, k \in 1..Len(says) : j <= k /\ k <= j => j = k
      BY <1>2
    <2> QED
      BY <1>9, <2>1 DEF LastSaid
  <1>12. ASSUME NEW n \in Name, Mentioned(l, i, n)
         PROVE  \E c : SaysLast(l, i, n, c)
    <2> DEFINE T == {j \in 1..Len(says) : says[j].name = n}
    <2>1. T \in SUBSET (0..Len(says)) /\ T # {}
      BY <1>5, <1>12 DEF Mentioned
    <2>2. PICK j \in T : \A k \in T : k <= j
      BY <1>2, <2>1, NatMax
    <2>3. LastSaid(says, Len(says), n, says[j].content)
      BY <2>2 DEF LastSaid
    <2> QED
      BY <1>9, <2>3
  <1>13. \A n : Unsaid(says, Len(says), n) => ~ Mentioned(l, i, n)
    BY <1>5 DEF Unsaid, Mentioned
  <1>14. \A j \in 1..Len(says) : Says(l, i, says[j].name, says[j].content)
    BY <1>5
  <1>15. \A n \in Name : Mentioned(l, i, n) <=> \E c : SaysLast(l, i, n, c)
    BY <1>7, <1>10, <1>12
  <1> QED
    BY <1>1, <1>6, <1>7, <1>8, <1>10, <1>11, <1>13, <1>14, <1>15

\* The loop over what an event says: before the first, and by the next.
LEMMA EnteredFirst ==
  ASSUME NEW s, Coherent(s), NEW i \in Nat
  PROVE  Entered(s, i, 0, Linked(Marked(s, i), i))
  <1>1. PICK u : u = Marked(s, i)
    OBVIOUS
  <1>2. IsStore(s) /\ AreVersions(s.graph.nodes) /\ s.cache \in [Name -> Ident \cup {None}]
    BY DEF Coherent, IsStore
  <1>3. u = AStore(s.graph.events \cup {i}, s.graph.chain, s.graph.nodes, s.graph.rels, s.cache, s.index)
    BY <1>1, <1>2, MarkedStore
  <1>4. /\ IsStore(u) /\ u.graph.events = s.graph.events \cup {i} /\ u.graph.chain = s.graph.chain
        /\ u.graph.nodes = s.graph.nodes /\ u.graph.rels = s.graph.rels /\ u.cache = s.cache /\ u.index = s.index
    BY <1>2, <1>3, StoreParts
  <1>5. PICK t : t = Linked(u, i)
    OBVIOUS
  <1>6. t = AStore(u.graph.events, ChainWith(u.graph.events, u.graph.chain, i), u.graph.nodes, u.graph.rels,
                   u.cache, u.index)
    BY <1>4, <1>5, LinkedStore
  <1>7. /\ IsStore(t) /\ t.graph.events = u.graph.events
        /\ t.graph.chain = ChainWith(u.graph.events, u.graph.chain, i)
        /\ t.graph.nodes = u.graph.nodes /\ t.graph.rels = u.graph.rels /\ t.cache = u.cache /\ t.index = u.index
    BY <1>2, <1>4, <1>6, StoreParts
  <1>8. Coherent(t) /\ (Exact(s) => Exact(t))
    BY <1>4, <1>7 DEF Coherent, OneEach, CacheBounds, RelEnds, Exact, IsOpen, Versions
  <1>9. RelNames(s, t) /\ \A p : p[1] # p[2] /\ OpenRel(s, p) => OpenRel(t, p)
    BY <1>4, <1>7 DEF RelNames, OpenRel, IsOpen
  <1>10. \A n \in Name : Kept(s, t, n) /\ t.cache[n] = s.cache[n]
    BY <1>4, <1>7 DEF Kept, Versions
  <1> QED
    BY <1>1, <1>4, <1>5, <1>7, <1>8, <1>9, <1>10 DEF Entered, SameContents, Unsaid

LEMMA EnteredNext ==
  ASSUME NEW s, Coherent(s), NEW i \in Nat, log[i] \in Extracts, NEW k \in 1..Len(log[i].says),
         NEW u, Entered(s, i, k - 1, u), NEW t, t = Asserted(u, i, log[i].says[k])
  PROVE  Entered(s, i, k, t)
  <1>1. PICK says : says = log[i].says
    OBVIOUS
  <1>2. Len(says) \in Nat /\ \A j \in 1..Len(says) : says[j] \in Saying /\ says[j].name \in Name
    BY <1>1, EventSays
  <1>3. /\ k \in 1..Len(says) /\ k \in Nat /\ k - 1 \in Nat /\ k \in 1..k
        /\ \A j \in 1..k : j \in Nat /\ j <= k /\ (j = k \/ j \in 1..(k - 1))
        /\ \A j \in 1..(k - 1) : j \in 1..k /\ j # k
    BY <1>1, <1>2
  <1>4. PICK said \in Saying : said = says[k]
    BY <1>2, <1>3
  <1> DEFINE n == said.name
  <1>5. n \in Name /\ <<n, i>> \in Ident
    BY <1>2, <1>3, <1>4 DEF Ident
  <1>6. /\ Coherent(u) /\ u.graph.events = s.graph.events \cup {i}
        /\ u.graph.chain = ChainWith(s.graph.events \cup {i}, s.graph.chain, i)
        /\ u.index = s.index /\ (Exact(s) => Exact(u)) /\ RelNames(s, u)
        /\ \A p : p[1] # p[2] /\ OpenRel(s, p) => OpenRel(u, p)
    BY DEF Entered
  <1>7. \A m \in Name :
          \/ Unsaid(says, k - 1, m) /\ Kept(s, u, m) /\ u.cache[m] = s.cache[m]
          \/ \E c : LastSaid(says, k - 1, m, c) /\ Retold(s, u, i, m, c) /\ IsCached(u, m)
    BY <1>1 DEF Entered
  <1>8. (\A j \in 1..(k - 1) : Same(s, says[j])) => SameContents(s, u)
    BY <1>1 DEF Entered
  <1>9. /\ Coherent(t) /\ OnlyOf(u, t, n) /\ Retold(u, t, i, n, said.content)
        /\ Exact(u) => Exact(t)
        /\ IsCached(t, n)
        /\ RelNames(u, t)
        /\ \A p : p[1] # p[2] /\ OpenRel(u, p) => OpenRel(t, p)
        /\ Same(u, said) => SameContents(u, t)
    <2>1. t = Asserted(u, i, said) /\ Coherent(u)
      BY <1>1, <1>4, <1>6
    <2> QED
      BY <2>1, AssertedStep
  <1>10. IsStore(s) /\ IsStore(u) /\ IsStore(t) /\ OneEach(s) /\ CacheBounds(s)
    BY <1>6, <1>9 DEF Coherent
  <1>11. LastSaid(says, k, n, said.content) /\ Retold(s, t, i, n, said.content)
    <2>1. LastSaid(says, k, n, said.content)
      BY <1>3, <1>4 DEF LastSaid
    <2>2. CASE Kept(s, u, n) /\ u.cache[n] = s.cache[n]
      BY <1>5, <1>9, <1>10, <2>1, <2>2, KeptThenRetold
    <2>3. ASSUME NEW c, Retold(s, u, i, n, c), IsCached(u, n)
          PROVE  Retold(s, t, i, n, said.content)
      BY <1>5, <1>9, <1>10, <2>3, RetoldTwice
    <2> QED
      BY <1>5, <1>7, <2>1, <2>2, <2>3
  <1>12. ASSUME NEW m \in Name
         PROVE  \/ Unsaid(says, k, m) /\ Kept(s, t, m) /\ t.cache[m] = s.cache[m]
                \/ \E c : LastSaid(says, k, m, c) /\ Retold(s, t, i, m, c) /\ IsCached(t, m)
    <2>1. CASE m = n
      BY <1>9, <1>11, <2>1
    <2>2. CASE m # n
      <3>1. Kept(u, t, m) /\ t.cache[m] = u.cache[m] /\ <<m, i>> \in Ident
        BY <1>9, <2>2 DEF OnlyOf, Ident
      <3>2. CASE Unsaid(says, k - 1, m) /\ Kept(s, u, m) /\ u.cache[m] = s.cache[m]
        <4>1. Unsaid(says, k, m)
          BY <1>3, <1>4, <2>2, <3>2 DEF Unsaid
        <4>2. Kept(s, t, m) /\ t.cache[m] = s.cache[m]
          BY <3>1, <3>2 DEF Kept
        <4> QED
          BY <4>1, <4>2
      <3>3. CASE \E c : LastSaid(says, k - 1, m, c) /\ Retold(s, u, i, m, c) /\ IsCached(u, m)
        <4>1. PICK c : LastSaid(says, k - 1, m, c) /\ Retold(s, u, i, m, c) /\ IsCached(u, m)
          BY <3>3
        <4>2. LastSaid(says, k, m, c)
          BY <1>3, <1>4, <2>2, <4>1 DEF LastSaid
        <4>3. Retold(s, t, i, m, c)
          BY <3>1, <4>1, RetoldThenKept
        <4>4. IsCached(t, m)
          BY <3>1, <4>1 DEF IsCached
        <4> QED
          BY <4>2, <4>3, <4>4
      <3> QED
        BY <1>7, <3>2, <3>3
    <2> QED
      BY <2>1, <2>2
  <1>13. ASSUME \A j \in 1..k : Same(s, says[j])
         PROVE  SameContents(s, t)
    <2>1. SameContents(s, u)
      BY <1>3, <1>8, <1>13
    <2>2. Same(s, said)
      BY <1>3, <1>4, <1>13
    <2>3. CASE Kept(s, u, n) /\ u.cache[n] = s.cache[n]
      <3>1. Version(u, n) = Version(s, n)
        BY <1>5, <1>10, <2>3, VersionKept
      <3>2. Same(u, said)
        BY <2>1, <2>2, <3>1 DEF Same, SameContents
      <3> QED
        BY <1>9, <2>1, <3>2 DEF SameContents
    <2>4. ASSUME NEW c, LastSaid(says, k - 1, n, c), Retold(s, u, i, n, c), IsCached(u, n)
          PROVE  SameContents(s, t)
      <3>1. PICK j \in 1..(k - 1) : says[j].name = n /\ says[j].content = c
        BY <2>4 DEF LastSaid
      <3>2. Same(s, says[j])
        BY <1>3, <1>13
      <3>3. said.content = c
        BY <2>2, <3>1, <3>2 DEF Same
      <3>4. Version(u, n) # None /\ u.graph.nodes[Version(u, n)].content = c
        BY <1>5, <1>10, <2>4, RetoldContent
      <3>5. Same(u, said)
        BY <3>3, <3>4 DEF Same
      <3> QED
        BY <1>9, <2>1, <3>5 DEF SameContents
    <2> QED
      BY <1>5, <1>7, <2>3, <2>4
  <1>14. RelNames(s, t) /\ \A p : p[1] # p[2] /\ OpenRel(s, p) => OpenRel(t, p)
    BY <1>6, <1>9 DEF RelNames
  <1>15. t.graph.events = u.graph.events /\ t.graph.chain = u.graph.chain /\ t.index = u.index
    BY <1>9 DEF OnlyOf
  <1> QED
    BY <1>1, <1>6, <1>9, <1>12, <1>13, <1>14, <1>15 DEF Entered
-----------------------------------------------------------------------------
(* The loops of an upsert and of a replay.                                 *)

Enters(u, s, i, k) ==
  u = [n \in 0..k |-> IF n = 0 THEN Linked(Marked(s, i), i) ELSE Asserted(u[n - 1], i, log[i].says[n])]

\* The loop over what an event says can be run to any length.
LEMMA EntersExists ==
  ASSUME NEW s, NEW i, NEW m \in Nat
  PROVE  \E u : Enters(u, s, i, m)
  <1> DEFINE T == {k \in Nat : ~ \E u : Enters(u, s, i, k)}
             first == Linked(Marked(s, i), i)
  <1>1. SUFFICES ASSUME T # {} PROVE FALSE
    OBVIOUS
  <1>2. PICK k \in T : \A j \in T : k <= j
    BY <1>1, NatMin
  <1>3. k # 0
    <2>1. Enters([n \in 0..0 |-> first], s, i, 0)
      BY DEF Enters
    <2> QED
      BY <2>1
  <1>4. k - 1 \in Nat /\ k - 1 \notin T
    BY <1>2, <1>3
  <1>5. PICK u : Enters(u, s, i, k - 1)
    BY <1>4
  <1> DEFINE last == Asserted(u[k - 1], i, log[i].says[k])
             v == [n \in 0..k |-> IF n = k THEN last ELSE u[n]]
  <1>6. \A n \in 0..(k - 1) : v[n] = u[n]
    BY <1>2
  <1>7. v[k] = last
    BY <1>2
  <1>8. v = [n \in 0..k |-> v[n]]
    OBVIOUS
  <1> HIDE DEF v, first
  <1>9. ASSUME NEW n \in 0..k
        PROVE  v[n] = IF n = 0 THEN first ELSE Asserted(v[n - 1], i, log[i].says[n])
    <2>1. CASE n = k
      <3>1. n - 1 \in 0..(k - 1) /\ n # 0
        BY <1>3, <1>4, <2>1
      <3> QED
        BY <1>6, <1>7, <2>1, <3>1
    <2>2. CASE n # k
      <3>1. n \in 0..(k - 1) /\ (n # 0 => n - 1 \in 0..(k - 1))
        BY <2>2
      <3>2. u[n] = IF n = 0 THEN first ELSE Asserted(u[n - 1], i, log[i].says[n])
        BY <1>5, <3>1 DEF Enters, first
      <3> QED
        BY <1>6, <3>1, <3>2
    <2> QED
      BY <2>1, <2>2
  <1>10. v = [n \in 0..k |-> IF n = 0 THEN first ELSE Asserted(v[n - 1], i, log[i].says[n])]
    BY <1>8, <1>9
  <1>11. Enters(v, s, i, k)
    BY <1>10 DEF Enters, first
  <1> QED
    BY <1>2, <1>11

\* What becomes of a store by the first k assertions of an event.
LEMMA EntitiesAre ==
  ASSUME NEW s, Coherent(s), NEW i \in Nat, log[i] \in Extracts, NEW m \in 0..Len(log[i].says)
  PROVE  Entered(s, i, m, Entities(s, i, m))
  <1> DEFINE w == CHOOSE u : Enters(u, s, i, m)
  <1>0. Len(log[i].says) \in Nat /\ m \in Nat
    BY EventSays
  <1>1. Enters(w, s, i, m)
    BY <1>0, EntersExists
  <1>2. Entities(s, i, m) = w[m]
    BY DEF Entities, Enters
  <1> HIDE DEF w
  <1> DEFINE T == {k \in 0..m : ~ Entered(s, i, k, w[k])}
  <1>3. m \in 0..m /\ T \in SUBSET Nat
    OBVIOUS
  <1>4. SUFFICES ASSUME T # {} PROVE FALSE
    BY <1>2, <1>3
  <1>5. PICK k \in T : \A j \in T : k <= j
    BY <1>3, <1>4, NatMin
  <1>6. w[k] = IF k = 0 THEN Linked(Marked(s, i), i) ELSE Asserted(w[k - 1], i, log[i].says[k])
    BY <1>1, <1>5 DEF Enters
  <1>7. k # 0
    BY <1>5, <1>6, EnteredFirst
  <1>8. k - 1 \in 0..m /\ k - 1 \notin T /\ k \in 1..Len(log[i].says)
    BY <1>0, <1>5, <1>7
  <1>9. Entered(s, i, k - 1, w[k - 1])
    BY <1>8
  <1>10. Entered(s, i, k, w[k])
    BY <1>6, <1>7, <1>8, <1>9, EnteredNext
  <1> QED
    BY <1>5, <1>10
-----------------------------------------------------------------------------
(* Upserts.                                                                *)

\* Nothing is told of n at present.
Absent(s, n) == \A k \in Versions(s) : k[1] = n => ~ IsOpen(s, k)

\* t is what s becomes by the upsert of event i.
Upserted(s, i, t) ==
  /\ Coherent(t)
  /\ t.graph.events = s.graph.events \cup {i}
  /\ t.graph.chain = ChainWith(s.graph.events \cup {i}, s.graph.chain, i)
  /\ Exact(s) => Exact(t)
  /\ \A r \in t.graph.rels : NamesOf(r) \in log[i].links \/ \E q \in s.graph.rels : NamesOf(r) = NamesOf(q)
  /\ \A p : p[1] # p[2] /\ OpenRel(s, p) => OpenRel(t, p)
  /\ Exact(s) => \A p \in log[i].links : Absent(t, p[1]) \/ Absent(t, p[2]) \/ OpenRel(t, p)
  /\ \A n \in Name : \/ ~ Mentioned(log, i, n) /\ Kept(s, t, n)
                     \/ \E c : SaysLast(log, i, n, c) /\ Retold(s, t, i, n, c)
  /\ t.index # None => t.index = s.index /\ SameContents(s, t)

\* Relations between versions that there are.
LEMMA RelatedStore ==
  ASSUME NEW u, Coherent(u), NEW rels,
         \A r \in rels : r = <<r[1], r[2]>> /\ r[1] \in Versions(u) /\ r[2] \in Versions(u),
         NEW t, t = Relating(u, rels)
  PROVE  /\ Coherent(t) /\ t.graph.events = u.graph.events /\ t.graph.chain = u.graph.chain
         /\ t.graph.nodes = u.graph.nodes /\ t.graph.rels = u.graph.rels \cup rels
         /\ t.cache = u.cache /\ t.index = u.index
  <1>1. IsStore(u) /\ AreVersions(u.graph.nodes) /\ u.cache \in [Name -> Ident \cup {None}]
    BY DEF Coherent, IsStore
  <1>2. t = AStore(u.graph.events, u.graph.chain, u.graph.nodes, u.graph.rels \cup rels, u.cache, u.index)
    BY <1>1, RelatingStore
  <1>3. /\ t.graph.events = u.graph.events /\ t.graph.chain = u.graph.chain
        /\ t.graph.nodes = u.graph.nodes /\ t.graph.rels = u.graph.rels \cup rels
        /\ t.cache = u.cache /\ t.index = u.index /\ IsStore(t)
    BY <1>1, <1>2, StoreParts
  <1> QED
    BY <1>3 DEF Coherent, OneEach, CacheBounds, RelEnds, IsOpen, Versions

\* Entities that are looked up are cached, and nothing else changes.
LEMMA LookedStore ==
  ASSUME NEW s, Coherent(s), NEW names, NEW t, t = Looked(s, names)
  PROVE  /\ Coherent(t) /\ t.graph = s.graph /\ t.index = s.index
         /\ Exact(s) => Exact(t)
         /\ \A n \in Name : /\ t.cache[n] = IF n \in names THEN Version(s, n) ELSE s.cache[n]
                            /\ Version(t, n) = Version(s, n)
  <1>1. /\ IsStore(s) /\ OneEach(s) /\ CacheBounds(s) /\ RelEnds(s)
        /\ AreVersions(s.graph.nodes) /\ s.cache \in [Name -> Ident \cup {None}] /\ Versions(s) \subseteq Ident
    BY DEF Coherent, IsStore, AreVersions, Versions
  <1>2. PICK filled : filled = [n \in Name |-> IF n \in names THEN Version(s, n) ELSE s.cache[n]]
    OBVIOUS
  <1>3. t = [s EXCEPT !.cache = filled]
    <2>1. DOMAIN s.cache = Name
      BY <1>1
    <2>2. filled = [n \in DOMAIN s.cache |-> IF n \in names THEN Version(s, n) ELSE s.cache[n]]
      BY <1>2, <2>1
    <2>3. s = [graph |-> s.graph, cache |-> s.cache, index |-> s.index]
      BY <1>1 DEF IsStore, AStore
    <2>4. ASSUME NEW c, c = [n \in DOMAIN s.cache |-> IF n \in names THEN Version(s, n) ELSE s.cache[n]]
          PROVE  t = [s EXCEPT !.cache = c]
      BY <2>3, <2>4 DEF Looked
    <2> QED
      BY <2>2, <2>4
  <1>4. \A n \in Name : Version(s, n) # None => Version(s, n) \in Ident
    BY <1>1, VersionFacts
  <1>5. filled \in [Name -> Ident \cup {None}]
    BY <1>1, <1>2, <1>4
  <1>6. t = AStore(s.graph.events, s.graph.chain, s.graph.nodes, s.graph.rels, filled, s.index)
    <2>1. s = [graph |-> s.graph, cache |-> s.cache, index |-> s.index]
      BY <1>1 DEF IsStore, AStore
    <2>2. t = [graph |-> s.graph, cache |-> filled, index |-> s.index]
      BY <1>3, <2>1
    <2>3. s.graph = [events |-> s.graph.events, chain |-> s.graph.chain,
                     nodes |-> s.graph.nodes, rels |-> s.graph.rels]
      <3>1. s = AStore(s.graph.events, s.graph.chain, s.graph.nodes, s.graph.rels, s.cache, s.index)
        BY <1>1 DEF IsStore
      <3>2. \A E, C, N, R, c, x : AStore(E, C, N, R, c, x).graph = [events |-> E, chain |-> C, nodes |-> N, rels |-> R]
        BY DEF AStore
      <3> QED
        BY <3>1, <3>2
    <2> QED
      BY <2>2, <2>3 DEF AStore
  <1>7. /\ IsStore(t) /\ t.graph.events = s.graph.events /\ t.graph.chain = s.graph.chain
        /\ t.graph.nodes = s.graph.nodes /\ t.graph.rels = s.graph.rels
        /\ t.cache = filled /\ t.index = s.index
    BY <1>1, <1>5, <1>6, StoreParts
  <1>8. t.graph = s.graph
    BY <1>1, <1>6 DEF IsStore, AStore
  <1>9. \A n \in Name : t.cache[n] = IF n \in names THEN Version(s, n) ELSE s.cache[n]
    BY <1>2, <1>7
  <1>10. ASSUME NEW n \in Name
         PROVE  Version(t, n) = Version(s, n)
    <2>1. s.cache[n] # None => Version(s, n) = s.cache[n]
      BY DEF Version
    <2>2. CASE t.cache[n] # None
      BY <1>9, <2>1, <2>2 DEF Version
    <2>3. CASE t.cache[n] = None
      <3>1. s.cache[n] = None
        BY <1>9, <2>1, <2>3
      <3> QED
        BY <1>8, <2>3, <3>1 DEF Version
    <2> QED
      BY <2>2, <2>3
  <1>11. ASSUME NEW n \in Name, t.cache[n] # None
         PROVE  /\ t.cache[n] = Version(s, n)
                /\ t.cache[n] \in Versions(s) /\ t.cache[n][1] = n
                /\ \A k \in Versions(s) : k[1] = n /\ IsOpen(s, k) => k = t.cache[n]
                /\ Exact(s) => IsOpen(s, t.cache[n])
    <2>1. t.cache[n] = Version(s, n)
      BY <1>9, <1>11 DEF Version
    <2> QED
      BY <1>1, <1>11, <2>1, VersionFacts
  <1>12. CacheBounds(t) /\ (Exact(s) => Exact(t))
    BY <1>7, <1>11 DEF CacheBounds, Exact, Versions, IsOpen
  <1>13. OneEach(t) /\ RelEnds(t)
    BY <1>1, <1>7 DEF OneEach, RelEnds, Versions, IsOpen
  <1> QED
    BY <1>7, <1>8, <1>9, <1>10, <1>12, <1>13 DEF Coherent

\* The relations that an event makes are between versions of what it links.
LEMMA LinksAre ==
  ASSUME NEW u, Coherent(u), NEW i, log[i] \in Extracts, NEW links \in SUBSET log[i].links
  PROVE  /\ \A r \in Links(u, links) : /\ r = <<r[1], r[2]>> /\ r[1] \in Versions(u) /\ r[2] \in Versions(u)
                                       /\ NamesOf(r) \in log[i].links
         /\ Exact(u) => \A p \in links : Absent(u, p[1]) \/ Absent(u, p[2]) \/ \E r \in Links(u, links) :
                          r[1][1] = p[1] /\ r[2][1] = p[2] /\ IsOpen(u, r[1]) /\ IsOpen(u, r[2])
  <1>1. IsStore(u) /\ OneEach(u) /\ CacheBounds(u)
    BY DEF Coherent
  <1>2. \A n \in Name : /\ Version(u, n) # None => Version(u, n) \in Versions(u) /\ Version(u, n)[1] = n
                        /\ Exact(u) /\ Version(u, n) # None => IsOpen(u, Version(u, n))
                        /\ ~ Absent(u, n) => Version(u, n) # None
    <2>1. ASSUME NEW n \in Name, NEW k \in Versions(u), k[1] = n, IsOpen(u, k)
          PROVE  Version(u, n) # None
      BY <1>1, <2>1, VersionFacts, NoVersion
    <2> QED
      BY <1>1, <2>1, VersionFacts DEF Absent
  <1>3. \A p \in log[i].links : p[1] \in Name /\ p[2] \in Name /\ p = <<p[1], p[2]>>
    BY EventSays
  <1>4. ASSUME NEW r \in Links(u, links)
        PROVE  r = <<r[1], r[2]>> /\ r[1] \in Versions(u) /\ r[2] \in Versions(u) /\ NamesOf(r) \in log[i].links
    <2>1. PICK p \in links : r = <<Version(u, p[1]), Version(u, p[2])>> /\ Version(u, p[1]) # None /\ Version(u, p[2]) # None
      BY <1>4 DEF Links
    <2>2. p \in log[i].links
      OBVIOUS
    <2>3. /\ Version(u, p[1]) \in Versions(u) /\ Version(u, p[1])[1] = p[1]
          /\ Version(u, p[2]) \in Versions(u) /\ Version(u, p[2])[1] = p[2]
      BY <1>2, <1>3, <2>1, <2>2
    <2>4. p = <<p[1], p[2]>>
      BY <1>3, <2>2
    <2> QED
      BY <2>1, <2>2, <2>3, <2>4 DEF NamesOf
  <1>5. ASSUME Exact(u), NEW p \in links, ~ Absent(u, p[1]), ~ Absent(u, p[2])
        PROVE  \E r \in Links(u, links) :
                 r[1][1] = p[1] /\ r[2][1] = p[2] /\ IsOpen(u, r[1]) /\ IsOpen(u, r[2])
    <2>1. p[1] \in Name /\ p[2] \in Name
      BY <1>3
    <2>2. PICK v, w : v = Version(u, p[1]) /\ w = Version(u, p[2])
      OBVIOUS
    <2>3. v # None /\ v[1] = p[1] /\ w # None /\ w[1] = p[2] /\ IsOpen(u, v) /\ IsOpen(u, w)
      BY <1>2, <1>5, <2>1, <2>2
    <2>4. <<v, w>> \in Links(u, links)
      BY <2>2, <2>3 DEF Links
    <2> QED
      BY <2>3, <2>4
  <1> QED
    BY <1>4, <1>5

\* What is known of n does not depend on the relations, or on what is cached of others.
LEMMA RetoldSameNodes ==
  ASSUME NEW s, NEW u, NEW t, t.graph.nodes = u.graph.nodes, NEW n
  PROVE  /\ Kept(s, u, n) => Kept(s, t, n)
         /\ \A i, c : Retold(s, u, i, n, c) /\ t.cache[n] = u.cache[n] => Retold(s, t, i, n, c)
  BY DEF Retold, Confirmed, Renewed, Kept, Versions

\* What one upsert does.
LEMMA UpsertIs ==
  ASSUME NEW s, Coherent(s), NEW i \in Nat, log[i] \in Extracts, NEW t, t = Upsert(s, i)
  PROVE  Upserted(s, i, t)
  <1>1. PICK after : after = Entities(s, i, Len(log[i].says))
    OBVIOUS
  <1>2. Len(log[i].says) \in 0..Len(log[i].says) /\ DOMAIN log[i].says = 1..Len(log[i].says)
    BY EventSays
  <1>3. Entered(s, i, Len(log[i].says), after) /\ Coherent(after)
    BY <1>1, <1>2, EntitiesAre DEF Entered
  <1>4. PICK rels, looked : rels = Links(after, log[i].links) /\ looked = Looked(after, Ends(log[i].links))
    OBVIOUS
  <1>5. PICK u : u = Relating(looked, rels)
    OBVIOUS
  <1>6. t = [u EXCEPT !.index = Refreshed(s, i, rels)]
    BY <1>1, <1>4, <1>5 DEF Upsert
  <1>7. /\ Coherent(looked) /\ looked.graph = after.graph /\ looked.index = after.index
        /\ Exact(after) => Exact(looked)
        /\ \A n \in Name : looked.cache[n] = after.cache[n] \/ looked.cache[n] = Version(after, n)
    BY <1>3, <1>4, LookedStore
  <1>8. /\ \A r \in rels : /\ r = <<r[1], r[2]>> /\ r[1] \in Versions(after) /\ r[2] \in Versions(after)
                           /\ NamesOf(r) \in log[i].links
        /\ Exact(after) => \A p \in log[i].links : Absent(after, p[1]) \/ Absent(after, p[2]) \/ \E r \in rels :
                             r[1][1] = p[1] /\ r[2][1] = p[2] /\ IsOpen(after, r[1]) /\ IsOpen(after, r[2])
    BY <1>3, <1>4, LinksAre
  <1>9. /\ Coherent(u) /\ u.graph.events = after.graph.events /\ u.graph.chain = after.graph.chain
        /\ u.graph.nodes = after.graph.nodes /\ u.graph.rels = after.graph.rels \cup rels
        /\ u.cache = looked.cache /\ u.index = after.index
    <2>1. \A r \in rels : r = <<r[1], r[2]>> /\ r[1] \in Versions(looked) /\ r[2] \in Versions(looked)
      BY <1>7, <1>8 DEF Versions
    <2> QED
      BY <1>5, <1>7, <2>1, RelatedStore
  <1>10. PICK x : x = Refreshed(s, i, rels)
    OBVIOUS
  <1>11. /\ IsStore(t) /\ t.graph.events = u.graph.events /\ t.graph.chain = u.graph.chain
         /\ t.graph.nodes = u.graph.nodes /\ t.graph.rels = u.graph.rels
         /\ t.cache = u.cache /\ t.index = x
    <2>1. IsStore(u) /\ AreVersions(u.graph.nodes) /\ u.cache \in [Name -> Ident \cup {None}]
      BY <1>9 DEF Coherent, IsStore
    <2>2. t = AStore(u.graph.events, u.graph.chain, u.graph.nodes, u.graph.rels, u.cache, x)
      BY <1>6, <1>10, <2>1, IndexedStore
    <2> QED
      BY <2>1, <2>2, StoreParts
  <1>12. Coherent(t)
    BY <1>9, <1>11 DEF Coherent, OneEach, CacheBounds, RelEnds, IsOpen, Versions
  <1>13. t.graph.nodes = after.graph.nodes /\ t.graph.rels = after.graph.rels \cup rels /\ t.cache = looked.cache
    BY <1>9, <1>11
  <1>14. Exact(s) => Exact(t) /\ Exact(after)
    <2>1. Exact(s) => Exact(after)
      BY <1>3 DEF Entered
    <2>2. Exact(looked) => Exact(t)
      BY <1>7, <1>13 DEF Exact, IsOpen
    <2> QED
      BY <1>7, <2>1, <2>2
  <1>15. ASSUME NEW n \in Name
         PROVE  \/ ~ Mentioned(log, i, n) /\ Kept(s, t, n)
                \/ \E c : SaysLast(log, i, n, c) /\ Retold(s, t, i, n, c)
    <2>1. CASE Unsaid(log[i].says, Len(log[i].says), n) /\ Kept(s, after, n)
      BY <1>13, <2>1, RetoldSameNodes, SaysFacts
    <2>2. ASSUME NEW c, LastSaid(log[i].says, Len(log[i].says), n, c), Retold(s, after, i, n, c), IsCached(after, n)
          PROVE  SaysLast(log, i, n, c) /\ Retold(s, t, i, n, c)
      <3>1. t.cache[n] = after.cache[n]
        BY <1>7, <1>13, <2>2 DEF Version, IsCached
      <3> QED
        BY <1>13, <2>2, <3>1, RetoldSameNodes DEF SaysLast
    <2> QED
      BY <1>3, <2>1, <2>2 DEF Entered
  <1>16. ASSUME NEW r \in t.graph.rels
         PROVE  NamesOf(r) \in log[i].links \/ \E q \in s.graph.rels : NamesOf(r) = NamesOf(q)
    BY <1>3, <1>8, <1>13 DEF Entered, RelNames
  <1>17. ASSUME NEW p, OpenRel(after, p)
         PROVE  OpenRel(t, p)
    BY <1>13, <1>17 DEF OpenRel, IsOpen
  <1>18. \A p : p[1] # p[2] /\ OpenRel(s, p) => OpenRel(t, p)
    BY <1>3, <1>17 DEF Entered
  <1>19. ASSUME Exact(s), NEW p \in log[i].links, ~ Absent(t, p[1]), ~ Absent(t, p[2])
         PROVE  OpenRel(t, p)
    <2>1. ~ Absent(after, p[1]) /\ ~ Absent(after, p[2])
      BY <1>13, <1>19 DEF Absent, Versions, IsOpen
    <2> QED
      BY <1>8, <1>13, <1>14, <1>19, <2>1 DEF OpenRel, IsOpen
  <1>20. ASSUME t.index # None
         PROVE  t.index = s.index /\ SameContents(s, t)
    <2>1. rels = {} /\ (\A k \in DOMAIN log[i].says : Same(s, log[i].says[k])) /\ x = s.index
      BY <1>10, <1>11, <1>20 DEF Refreshed
    <2>2. SameContents(s, after)
      BY <1>2, <1>3, <2>1 DEF Entered
    <2> QED
      BY <1>11, <1>13, <2>1, <2>2 DEF SameContents
  <1>21. /\ t.graph.events = s.graph.events \cup {i}
         /\ t.graph.chain = ChainWith(s.graph.events \cup {i}, s.graph.chain, i)
    BY <1>3, <1>9, <1>11 DEF Entered
  <1> QED
    BY <1>12, <1>14, <1>15, <1>16, <1>18, <1>19, <1>20, <1>21 DEF Upserted
-----------------------------------------------------------------------------
(* What is in the graph comes from the log, whatever statements failed.    *)

\* Events are in the log, and a link to a predecessor means that it is there.
Chained(l, s) ==
  /\ s.graph.events \subseteq DOMAIN l
  /\ s.graph.chain \subseteq s.graph.events
  /\ \A m \in s.graph.chain : m - 1 \in s.graph.events

\* A version is what its event says, and was closed by hand or by an event that
\* says something of the same entity.
Attested(l, s) ==
  \A k \in Versions(s) :
    /\ k[2] \in s.graph.events /\ Says(l, k[2], k[1], s.graph.nodes[k].content)
    /\ s.graph.nodes[k].to \notin {Open, 0} =>
         s.graph.nodes[k].to \in s.graph.events /\ Mentioned(l, s.graph.nodes[k].to, k[1])

RelsAttested(l, s) ==
  \A r \in s.graph.rels : \E i \in s.graph.events : NamesOf(r) \in l[i].links

Sane(l, s) == Coherent(s) /\ Chained(l, s) /\ Attested(l, s) /\ RelsAttested(l, s)

\* t has the versions of s, some closed at i, and some that i makes.
Grown(s, t, i) ==
  \A k \in Versions(t) :
    \/ /\ k \in Versions(s) /\ t.graph.nodes[k].content = s.graph.nodes[k].content
       /\ \/ t.graph.nodes[k].to = s.graph.nodes[k].to
          \/ t.graph.nodes[k].to = i /\ Mentioned(log, i, k[1])
    \/ k[2] = i /\ Says(log, i, k[1], t.graph.nodes[k].content) /\ t.graph.nodes[k].to = Open

\* Relations of t are of s or of event i.
RelsOf(s, t, i) ==
  \A r \in t.graph.rels : NamesOf(r) \in log[i].links \/ \E q \in s.graph.rels : NamesOf(r) = NamesOf(q)

\* What the next store takes over from a sane one, and adds, is sane too.
LEMMA SaneStep ==
  ASSUME NEW s, Sane(log, s), NEW i \in DOMAIN log, log \in Seq(Extracts), NEW t, Coherent(t),
         t.graph.events = s.graph.events \cup {i},
         t.graph.chain = s.graph.chain \/ t.graph.chain = ChainWith(s.graph.events \cup {i}, s.graph.chain, i),
         Grown(s, t, i), RelsOf(s, t, i)
  PROVE  Sane(log, t)
  <1>1. Chained(log, s) /\ Attested(log, s) /\ RelsAttested(log, s)
    BY DEF Sane
  <1>2. Chained(log, t)
    BY <1>1 DEF Chained, ChainWith
  <1>3. Attested(log, t)
    <2> SUFFICES ASSUME NEW k \in Versions(t)
                 PROVE  /\ k[2] \in t.graph.events /\ Says(log, k[2], k[1], t.graph.nodes[k].content)
                        /\ t.graph.nodes[k].to \notin {Open, 0} =>
                             t.graph.nodes[k].to \in t.graph.events /\ Mentioned(log, t.graph.nodes[k].to, k[1])
      BY DEF Attested
    <2>1. CASE /\ k \in Versions(s) /\ t.graph.nodes[k].content = s.graph.nodes[k].content
               /\ \/ t.graph.nodes[k].to = s.graph.nodes[k].to
                  \/ t.graph.nodes[k].to = i /\ Mentioned(log, i, k[1])
      BY <1>1, <2>1 DEF Attested
    <2>2. CASE k[2] = i /\ Says(log, i, k[1], t.graph.nodes[k].content) /\ t.graph.nodes[k].to = Open
      BY <2>2
    <2> QED
      BY <2>1, <2>2 DEF Grown
  <1>4. RelsAttested(log, t)
    BY <1>1 DEF RelsAttested, RelsOf
  <1> QED
    BY <1>2, <1>3, <1>4 DEF Sane

\* What an event says closes versions of what it says something of, and makes some.
LEMMA RetoldGrows ==
  ASSUME NEW s, NEW t, IsStore(t), NEW i \in Nat, log[i] \in Extracts,
         \A n \in Name : Kept(s, t, n) \/ \E c : Says(log, i, n, c) /\ Retold(s, t, i, n, c)
  PROVE  Grown(s, t, i)
  <1> SUFFICES ASSUME NEW k \in Versions(t)
               PROVE  \/ /\ k \in Versions(s) /\ t.graph.nodes[k].content = s.graph.nodes[k].content
                         /\ \/ t.graph.nodes[k].to = s.graph.nodes[k].to
                            \/ t.graph.nodes[k].to = i /\ Mentioned(log, i, k[1])
                      \/ k[2] = i /\ Says(log, i, k[1], t.graph.nodes[k].content) /\ t.graph.nodes[k].to = Open
    BY DEF Grown
  <1>1. k \in Ident /\ k[1] \in Name /\ k = <<k[1], k[2]>>
    BY DEF IsStore, AreVersions, Versions, Ident
  <1>2. CASE Kept(s, t, k[1])
    BY <1>1, <1>2 DEF Kept
  <1>3. ASSUME NEW c, Says(log, i, k[1], c), Renewed(s, t, i, k[1], c)
        PROVE  \/ /\ k \in Versions(s) /\ t.graph.nodes[k].content = s.graph.nodes[k].content
                  /\ \/ t.graph.nodes[k].to = s.graph.nodes[k].to
                     \/ t.graph.nodes[k].to = i /\ Mentioned(log, i, k[1])
               \/ k[2] = i /\ Says(log, i, k[1], t.graph.nodes[k].content) /\ t.graph.nodes[k].to = Open
    <2>1. CASE k = <<k[1], i>>
      <3>1. t.graph.nodes[k] = [content |-> c, to |-> Open]
        BY <1>3, <2>1 DEF Renewed
      <3>2. t.graph.nodes[k].content = c /\ t.graph.nodes[k].to = Open
        BY <3>1
      <3>3. k[2] = i
        BY <2>1
      <3> QED
        BY <1>3, <3>2, <3>3
    <2>2. CASE k # <<k[1], i>>
      <3>1. PICK v : v = Version(s, k[1])
        OBVIOUS
      <3>2. /\ k \in Versions(s) /\ t.graph.nodes[k].content = s.graph.nodes[k].content
            /\ t.graph.nodes[k].to = IF k = v THEN i ELSE s.graph.nodes[k].to
        BY <1>1, <1>3, <2>2, <3>1 DEF Renewed
      <3>3. Mentioned(log, i, k[1])
        BY <1>3, SaysFacts
      <3> QED
        BY <3>2, <3>3
    <2> QED
      BY <2>1, <2>2
  <1> QED
    BY <1>1, <1>2, <1>3 DEF Retold, Confirmed

\* An upsert, the entities of one, and one that is cut leave a store sane.
LEMMA UpsertedSane ==
  ASSUME NEW s, Sane(log, s), NEW i \in DOMAIN log, log \in Seq(Extracts), NEW t, Upserted(s, i, t)
  PROVE  Sane(log, t)
  <1>1. log[i] \in Extracts /\ i \in Nat /\ Coherent(t) /\ IsStore(t)
    BY DEF Upserted, Coherent
  <1>2. Grown(s, t, i)
    <2>1. \A n, c : SaysLast(log, i, n, c) => Says(log, i, n, c)
      BY <1>1, SaysFacts
    <2>2. \A n \in Name : Kept(s, t, n) \/ \E c : Says(log, i, n, c) /\ Retold(s, t, i, n, c)
      BY <2>1 DEF Upserted
    <2> QED
      BY <1>1, <2>2, RetoldGrows
  <1>3. RelsOf(s, t, i)
    BY DEF Upserted, RelsOf
  <1>4. t.graph.events = s.graph.events \cup {i} /\ t.graph.chain = ChainWith(s.graph.events \cup {i}, s.graph.chain, i)
    BY DEF Upserted
  <1> QED
    BY <1>1, <1>2, <1>3, <1>4, SaneStep
-----------------------------------------------------------------------------
(* Upserts that a failing statement has ended.                             *)

LEMMA EnteredSane ==
  ASSUME NEW s, Sane(log, s), NEW i \in DOMAIN log, log \in Seq(Extracts), NEW k \in 0..Len(log[i].says),
         NEW t, Entered(s, i, k, t)
  PROVE  Sane(log, t)
  <1>1. log[i] \in Extracts /\ i \in Nat /\ Coherent(t) /\ IsStore(t)
    BY DEF Entered, Coherent
  <1>2. Grown(s, t, i)
    <2>1. \A n, c : LastSaid(log[i].says, k, n, c) => Says(log, i, n, c)
      BY <1>1, SaysFacts
    <2>2. \A n \in Name : Kept(s, t, n) \/ \E c : Says(log, i, n, c) /\ Retold(s, t, i, n, c)
      BY <2>1 DEF Entered
    <2> QED
      BY <1>1, <2>2, RetoldGrows
  <1>3. RelsOf(s, t, i)
    BY DEF Entered, RelNames, RelsOf
  <1>4. t.graph.events = s.graph.events \cup {i} /\ t.graph.chain = ChainWith(s.graph.events \cup {i}, s.graph.chain, i)
    BY DEF Entered
  <1> QED
    BY <1>1, <1>2, <1>3, <1>4, SaneStep

\* Of a version that is made anew, the relations may be carried over in part.
LEMMA PartlyAssertedSane ==
  ASSUME NEW s, Sane(log, s), NEW i \in DOMAIN log, log \in Seq(Extracts), i \in s.graph.events,
         NEW said \in Saying, Says(log, i, said.name, said.content), Mentioned(log, i, said.name),
         NEW t \in PartlyAsserted(s, i, said)
  PROVE  Sane(log, t) /\ t.graph.events = s.graph.events
  <1> DEFINE n == said.name
  <1>1. PICK v, u : v = Version(s, n) /\ u = Looked(s, {n})
    OBVIOUS
  <1>2. n \in Name /\ i \in Nat /\ log[i] \in Extracts /\ Coherent(s)
    BY DEF Sane, Saying
  <1>3. /\ Coherent(u) /\ u.graph = s.graph /\ Version(u, n) = v /\ u.cache[n] = v
        /\ i \in u.graph.events /\ u.graph.events \cup {i} = u.graph.events
    <2>1. PICK names : names = {n}
      OBVIOUS
    <2>2. u = Looked(s, names) /\ n \in names
      BY <1>1, <2>1
    <2>3. /\ Coherent(u) /\ u.graph = s.graph /\ Version(u, n) = Version(s, n)
          /\ u.cache[n] = IF n \in names THEN Version(s, n) ELSE s.cache[n]
      BY <1>2, <2>2, LookedStore
    <2> QED
      BY <1>1, <2>2, <2>3
  <1>4. Sane(log, u)
    BY <1>3 DEF Sane, Chained, Attested, RelsAttested, Versions
  <1>5. IsStore(u) /\ OneEach(u) /\ CacheBounds(u) /\ RelEnds(u)
    BY <1>3 DEF Coherent
  <1>6. Same(u, said) <=> Same(s, said)
    BY <1>1, <1>3 DEF Same
  <1>7. CASE v # None /\ t = Closed(u, v, i)
    <2>1. v \in Versions(u) /\ v[1] = n /\ \A k \in Versions(u) : k[1] = n /\ IsOpen(u, k) => k = v
      BY <1>2, <1>3, <1>5, <1>7, VersionFacts
    <2>2. AreVersions(u.graph.nodes) /\ u.cache \in [Name -> Ident \cup {None}] /\ Versions(u) \subseteq Ident
      BY <1>5 DEF IsStore, AreVersions, Versions
    <2>3. PICK closing : closing = [u.graph.nodes EXCEPT ![v].to = i]
      OBVIOUS
    <2>4. /\ AreVersions(closing) /\ DOMAIN closing = Versions(u)
          /\ \A k \in Versions(u) : /\ closing[k].content = u.graph.nodes[k].content
                                    /\ closing[k].to = IF k = v THEN i ELSE u.graph.nodes[k].to
      BY <1>2, <2>1, <2>2, <2>3, ClosedVersions DEF Versions
    <2>5. t = AStore(u.graph.events, u.graph.chain, closing, u.graph.rels, u.cache, u.index)
      BY <1>5, <1>7, <2>3, ClosedStore
    <2>6. /\ t.graph.events = u.graph.events /\ t.graph.chain = u.graph.chain /\ t.graph.nodes = closing
          /\ t.graph.rels = u.graph.rels /\ t.cache = u.cache /\ IsStore(t)
      BY <2>2, <2>4, <2>5, StoreParts
    <2>7. /\ Versions(t) = Versions(u)
          /\ \A k \in Versions(u) : t.graph.nodes[k].content = u.graph.nodes[k].content
          /\ \A k \in Versions(u) : t.graph.nodes[k].to = IF k = v THEN i ELSE u.graph.nodes[k].to
      BY <2>4, <2>6 DEF Versions
    <2>8. i # Open
      BY <1>2, MarksAssumption
    <2>9. \A k \in Versions(t) : IsOpen(t, k) => IsOpen(u, k) /\ k # v
      BY <2>7, <2>8 DEF IsOpen
    <2>10. OneEach(t) /\ CacheBounds(t)
      BY <1>5, <2>6, <2>7, <2>9 DEF OneEach, CacheBounds
    <2>11. Coherent(t) /\ RelsOf(u, t, i)
      BY <1>5, <2>6, <2>7, <2>10 DEF Coherent, RelEnds, RelsOf
    <2>12. Grown(u, t, i)
      BY <2>1, <2>7 DEF Grown
    <2> QED
      BY <1>3, <1>4, <2>6, <2>11, <2>12, SaneStep
  <1>8. ASSUME v # None, ~ Same(s, said), NEW created, created = Created(Closed(u, v, i), i, said),
               NEW rels \in SUBSET Carried(created, i, n), t = Relating(created, rels)
        PROVE  Sane(log, t) /\ t.graph.events = s.graph.events
    <2>1. /\ IsStore(t) /\ OnlyOf(u, t, n) /\ Renewed(u, t, i, n, said.content)
          /\ MakesAnew(u, created, t, rels)
      BY <1>2, <1>3, <1>5, <1>6, <1>8, AssertedAnew
    <2>2. OneEach(t) /\ CacheBounds(t)
      BY <1>2, <1>5, <2>1, RetoldKeeps DEF Retold
    <2>3. Versions(u) \subseteq Ident /\ Versions(t) \subseteq Ident
      BY <1>5, <2>1 DEF IsStore, AreVersions, Versions
    <2>4. Versions(u) \subseteq Versions(t) /\ <<n, i>> \in Versions(t)
      <3>1. \A k \in Ident : k[1] # n => (k \in Versions(t) <=> k \in Versions(u))
        BY <2>1 DEF OnlyOf, Kept, Ident
      <3> QED
        BY <2>1, <2>3, <3>1 DEF Renewed
    <2>5. /\ created.graph.nodes = t.graph.nodes /\ created.graph.rels = u.graph.rels
          /\ t.graph.rels = u.graph.rels \cup rels
      BY <2>1 DEF MakesAnew
    <2>6. RelEnds(created) /\ <<n, i>> \in Versions(created)
      BY <1>5, <2>4, <2>5 DEF RelEnds, Versions
    <2>7. \A r \in rels : /\ r = <<r[1], r[2]>> /\ r[1] \in Versions(t) /\ r[2] \in Versions(t)
                          /\ \E q \in u.graph.rels : NamesOf(r) = NamesOf(q)
      BY <1>8, <2>5, <2>6, CarriedFacts DEF Versions
    <2>8. RelEnds(t) /\ RelsOf(u, t, i)
      BY <1>5, <2>4, <2>5, <2>7 DEF RelEnds, RelsOf
    <2>9. Coherent(t)
      BY <2>1, <2>2, <2>8 DEF Coherent
    <2>10. \A m \in Name : Kept(u, t, m) \/ \E c : Says(log, i, m, c) /\ Retold(u, t, i, m, c)
      BY <2>1 DEF OnlyOf, Retold
    <2>11. Grown(u, t, i)
      BY <1>2, <2>1, <2>10, RetoldGrows
    <2>12. t.graph.events = u.graph.events /\ t.graph.chain = u.graph.chain
      BY <2>1 DEF OnlyOf
    <2> QED
      BY <1>3, <1>4, <2>8, <2>9, <2>11, <2>12, SaneStep
  <1>9. \/ t = s \/ t = u
        \/ v # None /\ t = Closed(u, v, i)
        \/ /\ v # None /\ ~ Same(s, said)
           /\ \E created : /\ created = Created(Closed(u, v, i), i, said)
                           /\ \E rels \in SUBSET Carried(created, i, n) : t = Relating(created, rels)
    <2>1. PICK old : old = IF v = None THEN u ELSE Closed(u, v, i)
      OBVIOUS
    <2>2. PICK created : created = Created(old, i, said)
      OBVIOUS
    <2>3. \/ t \in {s, u}
          \/ t \in (IF Same(s, said) THEN {} ELSE {old})
          \/ t \in (IF Same(s, said) \/ v = None THEN {}
                    ELSE {Relating(created, rels) : rels \in SUBSET Carried(created, i, n)})
      BY <1>1, <2>1, <2>2, Zenon DEF PartlyAsserted
    <2>4. CASE t \in (IF Same(s, said) THEN {} ELSE {old})
      BY <2>1, <2>4
    <2>5. CASE t \in (IF Same(s, said) \/ v = None THEN {}
                      ELSE {Relating(created, rels) : rels \in SUBSET Carried(created, i, n)})
      <3>1. v # None /\ ~ Same(s, said) /\ created = Created(Closed(u, v, i), i, said)
        BY <2>1, <2>2, <2>5
      <3>2. \E rels \in SUBSET Carried(created, i, n) : t = Relating(created, rels)
        BY <2>5, <3>1
      <3> QED
        BY <3>1, <3>2
    <2> QED
      BY <2>3, <2>4, <2>5
  <1> QED
    BY <1>3, <1>4, <1>7, <1>8, <1>9

LEMMA PartlyUpsertedSane ==
  ASSUME NEW s, Sane(log, s), NEW i \in DOMAIN log, log \in Seq(Extracts), NEW t \in PartlyUpserted(s, i)
  PROVE  Sane(log, t) /\ t.graph.events \subseteq s.graph.events \cup {i}
  <1> DEFINE says == log[i].says
             after == Entities(s, i, Len(says))
  <1>1. /\ log[i] \in Extracts /\ i \in Nat /\ Coherent(s) /\ IsStore(s)
        /\ DOMAIN says = 1..Len(says) /\ Len(says) \in Nat
    BY EventSays DEF Sane, Coherent
  <1>2. CASE t = s
    BY <1>2
  <1>3. CASE t = Marked(s, i)
    <2>1. AreVersions(s.graph.nodes) /\ s.cache \in [Name -> Ident \cup {None}]
      BY <1>1 DEF IsStore
    <2>2. t = AStore(s.graph.events \cup {i}, s.graph.chain, s.graph.nodes, s.graph.rels, s.cache, s.index)
      BY <1>1, <1>3, MarkedStore
    <2>3. /\ IsStore(t) /\ t.graph.events = s.graph.events \cup {i} /\ t.graph.chain = s.graph.chain
          /\ t.graph.nodes = s.graph.nodes /\ t.graph.rels = s.graph.rels /\ t.cache = s.cache
      BY <2>1, <2>2, StoreParts
    <2>4. Coherent(t) /\ Grown(s, t, i) /\ RelsOf(s, t, i)
      BY <1>1, <2>3 DEF Coherent, OneEach, CacheBounds, RelEnds, IsOpen, Versions, Grown, RelsOf
    <2> QED
      BY <2>3, <2>4, SaneStep
  <1>4. ASSUME NEW k \in DOMAIN says, t \in PartlyAsserted(Entities(s, i, k - 1), i, says[k])
        PROVE  Sane(log, t) /\ t.graph.events \subseteq s.graph.events \cup {i}
    <2>1. k - 1 \in 0..Len(says) /\ k \in 1..Len(says)
      BY <1>1
    <2>2. PICK u : u = Entities(s, i, k - 1)
      OBVIOUS
    <2>3. Entered(s, i, k - 1, u)
      BY <1>1, <2>1, <2>2, EntitiesAre
    <2>4. Sane(log, u) /\ u.graph.events = s.graph.events \cup {i}
      BY <2>1, <2>3, EnteredSane DEF Entered
    <2>5. says[k] \in Saying
      BY <1>1, <2>1, EventSays
    <2>6. Says(log, i, says[k].name, says[k].content) /\ Mentioned(log, i, says[k].name)
      BY <1>1, <2>1, SaysFacts
    <2>7. PICK said \in Saying : said = says[k]
      BY <2>5
    <2>8. t \in PartlyAsserted(u, i, said)
      BY <1>4, <2>2, <2>7
    <2>9. Says(log, i, said.name, said.content) /\ Mentioned(log, i, said.name) /\ i \in u.graph.events
      BY <2>4, <2>6, <2>7
    <2>10. Sane(log, t) /\ t.graph.events = u.graph.events
      BY <2>4, <2>8, <2>9, PartlyAssertedSane
    <2> QED
      BY <2>4, <2>10
  <1>5. ASSUME NEW done \in SUBSET log[i].links, NEW names,
               t = Relating(Looked(after, names), Links(after, done))
        PROVE  Sane(log, t) /\ t.graph.events \subseteq s.graph.events \cup {i}
    <2>1. PICK u, rels : u = Looked(after, names) /\ rels = Links(after, done)
      OBVIOUS
    <2>2. t = Relating(u, rels)
      BY <1>5, <2>1
    <2>3. Entered(s, i, Len(says), after)
      BY <1>1, EntitiesAre
    <2>4. Sane(log, after) /\ after.graph.events = s.graph.events \cup {i} /\ Coherent(after)
      <3>1. Sane(log, after)
        <4>1. Len(says) \in 0..Len(says)
          BY <1>1
        <4> QED
          BY <2>3, <4>1, EnteredSane
      <3> QED
        BY <2>3, <3>1 DEF Entered
    <2>5. Coherent(u) /\ u.graph = after.graph
      BY <2>1, <2>4, LookedStore
    <2>6. Sane(log, u)
      BY <2>4, <2>5 DEF Sane, Chained, Attested, RelsAttested, Versions
    <2>7. \A r \in rels : /\ r = <<r[1], r[2]>> /\ r[1] \in Versions(u) /\ r[2] \in Versions(u)
                          /\ NamesOf(r) \in log[i].links
      <3>1. \A r \in rels : /\ r = <<r[1], r[2]>> /\ r[1] \in Versions(after) /\ r[2] \in Versions(after)
                            /\ NamesOf(r) \in log[i].links
        BY <1>1, <2>1, <2>4, LinksAre
      <3> QED
        BY <2>5, <3>1 DEF Versions
    <2>8. \A r \in rels : r = <<r[1], r[2]>> /\ r[1] \in Versions(u) /\ r[2] \in Versions(u)
      BY <2>7
    <2>9. /\ Coherent(t) /\ t.graph.events = u.graph.events /\ t.graph.chain = u.graph.chain
          /\ t.graph.nodes = u.graph.nodes /\ t.graph.rels = u.graph.rels \cup rels
      BY <2>2, <2>5, <2>8, RelatedStore
    <2>10. Grown(u, t, i) /\ RelsOf(u, t, i)
      BY <2>7, <2>9 DEF Grown, RelsOf, Versions
    <2>11. t.graph.events = u.graph.events \cup {i}
      BY <2>4, <2>5, <2>9
    <2>12. Sane(log, t)
      BY <2>6, <2>9, <2>10, <2>11, SaneStep
    <2> QED
      BY <2>4, <2>5, <2>9, <2>12
  <1>6. \/ t = s
        \/ t = Marked(s, i)
        \/ \E k \in DOMAIN says : t \in PartlyAsserted(Entities(s, i, k - 1), i, says[k])
        \/ \E done \in SUBSET log[i].links : \E names : t = Relating(Looked(after, names), Links(after, done))
    <2> DEFINE CutAfter(l, done) == {Relating(Looked(after, Ends(done) \cup ends), Links(after, done)) :
                                       ends \in {{}, {l[1]}, {l[1], l[2]}}}
               Cut(l) == UNION {CutAfter(l, done) : done \in SUBSET (log[i].links \ {l})}
    <2>1. \/ t \in {s, Marked(s, i)}
          \/ t \in UNION {PartlyAsserted(Entities(s, i, k - 1), i, says[k]) : k \in DOMAIN says}
          \/ t \in UNION {Cut(l) : l \in log[i].links}
      BY Zenon DEF PartlyUpserted
    <2>2. CASE t \in UNION {Cut(l) : l \in log[i].links}
      <3> HIDE DEF Cut
      <3>1. PICK l \in log[i].links : t \in Cut(l)
        BY <2>2, Zenon
      <3>2. PICK done \in SUBSET (log[i].links \ {l}) : t \in CutAfter(l, done)
        BY <3>1, Zenon DEF Cut
      <3>3. done \in SUBSET log[i].links
        OBVIOUS
      <3>4. PICK ends : t = Relating(Looked(after, Ends(done) \cup ends), Links(after, done))
        BY <3>2, Zenon
      <3> QED
        BY <3>3, <3>4, Zenon
    <2>3. CASE t \in UNION {PartlyAsserted(Entities(s, i, k - 1), i, says[k]) : k \in DOMAIN says}
      BY <2>3, Zenon
    <2>4. CASE t \in {s, Marked(s, i)}
      BY <2>4, Zenon
    <2> QED
      BY <2>1, <2>2, <2>3, <2>4
  <1> QED
    BY <1>2, <1>3, <1>4, <1>5, <1>6
-----------------------------------------------------------------------------
(* What the graph says of the present, if no upsert was cut.               *)

\* n is told to be c at present, or nothing.
Presents(s, n, c) == \E k \in Versions(s) : k[1] = n /\ IsOpen(s, k) /\ s.graph.nodes[k].content = c

\* What is told of n at present is what event j says.  No later event that says
\* something of n is in the graph, or a link to a predecessor is missing.
LastTold(l, s, n, j) ==
  /\ \E c \in Content : Presents(s, n, c) /\ SaysLast(l, j, n, c)
  /\ \A i \in s.graph.events : i > j /\ Mentioned(l, i, n) => \E m \in (j + 1)..i : m \notin s.graph.chain

NeverTold(l, s, n) == Absent(s, n) /\ \A i \in s.graph.events : ~ Mentioned(l, i, n)

Lasts(l, s) == \A n \in Name : NeverTold(l, s, n) \/ \E j \in s.graph.events : LastTold(l, s, n, j)

\* Event i or an earlier one says something of both ends.
Known(l, i, p) == (\E x \in 1..i : Mentioned(l, x, p[1])) /\ (\E x \in 1..i : Mentioned(l, x, p[2]))

\* What the events X link is related at present, if it was known when they linked it.
Related(l, s, X) == \A i \in X : \A p \in l[i].links : p[1] # p[2] /\ Known(l, i, p) => OpenRel(s, p)

\* The events that all before them are linked to.
Solid(s) == {i \in s.graph.events : 2..i \subseteq s.graph.chain}

\* What an event says is what is told at present.
LEMMA RetoldPresents ==
  ASSUME NEW s, NEW t, Coherent(s), Exact(s), NEW i \in Nat, NEW n \in Name, NEW c, Retold(s, t, i, n, c)
  PROVE  Presents(t, n, c)
  <1>1. CASE Confirmed(s, t, n, c)
    <2>1. PICK v : v = Version(s, n)
      OBVIOUS
    <2>2. v # None /\ s.graph.nodes[v].content = c /\ Kept(s, t, n)
      BY <1>1, <2>1 DEF Confirmed
    <2>3. v \in Versions(s) /\ v[1] = n /\ IsOpen(s, v) /\ v \in Ident
      BY <2>1, <2>2, VersionFacts DEF Coherent, IsStore, AreVersions, Versions
    <2>4. v \in Versions(t) /\ t.graph.nodes[v] = s.graph.nodes[v]
      BY <2>2, <2>3 DEF Kept
    <2> QED
      BY <2>2, <2>3, <2>4 DEF Presents, IsOpen
  <1>2. CASE Renewed(s, t, i, n, c)
    <2>1. <<n, i>> \in Versions(t) /\ t.graph.nodes[<<n, i>>] = [content |-> c, to |-> Open]
      BY <1>2 DEF Renewed
    <2>2. t.graph.nodes[<<n, i>>].content = c /\ t.graph.nodes[<<n, i>>].to = Open /\ <<n, i>>[1] = n
      BY <2>1
    <2> QED
      BY <2>1, <2>2 DEF Presents, IsOpen
  <1> QED
    BY <1>1, <1>2 DEF Retold

\* What is not said anything of is told as before.
LEMMA KeptPresents ==
  ASSUME NEW s, NEW t, IsStore(s), IsStore(t), NEW n, Kept(s, t, n)
  PROVE  /\ \A c : Presents(s, n, c) => Presents(t, n, c)
         /\ Absent(s, n) => Absent(t, n)
  <1>1. Versions(s) \subseteq Ident /\ Versions(t) \subseteq Ident
    BY DEF IsStore, AreVersions, Versions
  <1> QED
    BY <1>1 DEF Kept, Presents, Absent, IsOpen

\* What the upsert of an event makes of an entity.
LEMMA UpsertedTells ==
  ASSUME NEW s, Coherent(s), NEW i \in Nat, log[i] \in Extracts, NEW t, Upserted(s, i, t), NEW n \in Name
  PROVE  /\ \A c : SaysLast(log, i, n, c) => Retold(s, t, i, n, c)
         /\ Exact(s) => \A c : SaysLast(log, i, n, c) => Presents(t, n, c)
         /\ Mentioned(log, i, n) => \E c \in Content : SaysLast(log, i, n, c)
         /\ ~ Mentioned(log, i, n) => Kept(s, t, n)
  <1>1. /\ Mentioned(log, i, n) <=> \E c : SaysLast(log, i, n, c)
        /\ \A c : SaysLast(log, i, n, c) => c \in Content
        /\ \A c, d : SaysLast(log, i, n, c) /\ SaysLast(log, i, n, d) => c = d
    BY SaysFacts
  <1>2. \/ ~ Mentioned(log, i, n) /\ Kept(s, t, n)
        \/ \E c : SaysLast(log, i, n, c) /\ Retold(s, t, i, n, c)
    BY DEF Upserted
  <1>3. \A c : SaysLast(log, i, n, c) => Retold(s, t, i, n, c)
    BY <1>1, <1>2
  <1>4. \A c : Exact(s) /\ SaysLast(log, i, n, c) => Presents(t, n, c)
    BY <1>3, RetoldPresents
  <1> QED
    BY <1>1, <1>2, <1>3, <1>4

\* What is told of, or was told of, is found.
LEMMA Finds ==
  ASSUME NEW s, Coherent(s), Exact(s), NEW i \in Nat, log[i] \in Extracts, NEW t, Upserted(s, i, t), NEW n \in Name,
         Mentioned(log, i, n) \/ ~ Absent(s, n)
  PROVE  ~ Absent(t, n)
  <1>1. CASE Mentioned(log, i, n)
    BY <1>1, UpsertedTells DEF Presents, Absent
  <1>2. CASE ~ Mentioned(log, i, n)
    <2>1. Kept(s, t, n) /\ Versions(s) \subseteq Ident
      BY <1>2, UpsertedTells DEF Coherent, IsStore, AreVersions, Versions
    <2> QED
      BY <1>2, <2>1 DEF Absent, Kept, IsOpen
  <1> QED
    BY <1>1, <1>2

\* A new event is projected; no event has been linked to it yet.
LEMMA LastsStep ==
  ASSUME NEW s, Sane(log, s), Exact(s), Lasts(log, s), NEW i \in DOMAIN log, log \in Seq(Extracts),
         i \notin s.graph.events, NEW t, Upserted(s, i, t)
  PROVE  Lasts(log, t)
  <1> SUFFICES ASSUME NEW n \in Name
               PROVE  NeverTold(log, t, n) \/ \E j \in t.graph.events : LastTold(log, t, n, j)
    BY DEF Lasts
  <1>1. /\ log[i] \in Extracts /\ i \in Nat /\ Coherent(s) /\ Coherent(t) /\ IsStore(s) /\ IsStore(t)
        /\ t.graph.events = s.graph.events \cup {i}
        /\ t.graph.chain \subseteq s.graph.chain \cup {i}
        /\ s.graph.events \subseteq Nat
    BY DEF Upserted, Sane, Coherent, Chained, ChainWith
  <1>2. i + 1 \notin s.graph.chain
    <2>1. (i + 1) - 1 = i
      BY <1>1
    <2> QED
      BY <2>1 DEF Sane, Chained
  <1>3. i + 1 \notin t.graph.chain
    BY <1>1, <1>2
  <1>4. CASE Mentioned(log, i, n)
    <2>1. PICK c \in Content : SaysLast(log, i, n, c)
      BY <1>1, <1>4, UpsertedTells
    <2>2. Presents(t, n, c)
      BY <1>1, <2>1, UpsertedTells
    <2>3. ASSUME NEW x \in t.graph.events, x > i
          PROVE  \E m \in (i + 1)..x : m \notin t.graph.chain
      <3>1. i + 1 \in (i + 1)..x
        BY <1>1, <2>3
      <3> QED
        BY <1>3, <3>1
    <2>4. LastTold(log, t, n, i)
      BY <2>1, <2>2, <2>3 DEF LastTold
    <2> QED
      BY <1>1, <2>4
  <1>5. CASE ~ Mentioned(log, i, n)
    <2>1. Kept(s, t, n)
      BY <1>1, <1>5, UpsertedTells
    <2>2. CASE NeverTold(log, s, n)
      BY <1>1, <1>5, <2>1, <2>2, KeptPresents DEF NeverTold
    <2>3. CASE \E j \in s.graph.events : LastTold(log, s, n, j)
      <3>1. PICK j \in s.graph.events : LastTold(log, s, n, j)
        BY <2>3
      <3>2. PICK c \in Content : Presents(s, n, c) /\ SaysLast(log, j, n, c)
        BY <3>1 DEF LastTold
      <3>3. Presents(t, n, c)
        BY <1>1, <2>1, <3>2, KeptPresents
      <3>4. ASSUME NEW x \in t.graph.events, x > j, Mentioned(log, x, n)
            PROVE  \E m \in (j + 1)..x : m \notin t.graph.chain
        <4>1. x \in s.graph.events /\ x # i /\ x \in Nat /\ j \in Nat
          BY <1>1, <1>5, <3>4
        <4>2. PICK m \in (j + 1)..x : m \notin s.graph.chain
          BY <3>1, <3>4, <4>1 DEF LastTold
        <4>3. CASE m = i
          <5>1. i + 1 \in (j + 1)..x
            BY <1>1, <4>1, <4>2, <4>3
          <5> QED
            BY <1>3, <5>1
        <4>4. CASE m # i
          BY <1>1, <4>2, <4>4
        <4> QED
          BY <4>3, <4>4
      <3>5. LastTold(log, t, n, j)
        BY <3>2, <3>3, <3>4 DEF LastTold
      <3> QED
        BY <1>1, <3>5
    <2> QED
      BY <2>2, <2>3 DEF Lasts
  <1> QED
    BY <1>4, <1>5

\* What an upsert relates, and what was related before it.
LEMMA RelatedStep ==
  ASSUME NEW s, Exact(s), NEW X, Related(log, s, X), NEW i, NEW t, Upserted(s, i, t),
         \A p \in log[i].links : Known(log, i, p) => ~ Absent(t, p[1]) /\ ~ Absent(t, p[2])
  PROVE  Related(log, t, X \cup {i})
  BY DEF Related, Upserted
-----------------------------------------------------------------------------
(* What the graph says of the past, if events were projected in order.     *)

\* A version that a search for the time i finds, of those up to m.
FoundAt(s, k, i, m) ==
  k[2] <= i /\ IF IsOpen(s, k) THEN i <= m \/ k[2] > m ELSE i < s.graph.nodes[k].to

\* What is found at the time of an event is what the event says, and something
\* is found of whatever it says something of.
Hist(l, s, m) ==
  /\ \A k \in Versions(s), i \in s.graph.events :
       FoundAt(s, k, i, m) => \A c : SaysLast(l, i, k[1], c) => c = s.graph.nodes[k].content
  /\ \A i \in s.graph.events, n \in Name : Mentioned(l, i, n) =>
       \E k \in Versions(s) : k[1] = n /\ k[2] <= i /\ (IsOpen(s, k) \/ i < s.graph.nodes[k].to)

\* Event m + 1 is projected, perhaps again.
LEMMA HistStep ==
  ASSUME NEW s, Sane(log, s), Exact(s), NEW m \in Nat, Hist(log, s, m), log \in Seq(Extracts),
         NEW i \in DOMAIN log, i = m + 1, i \in s.graph.events \/ \A x \in s.graph.events : x < i,
         NEW t, Upserted(s, i, t)
  PROVE  Hist(log, t, i)
  <1>1. /\ log[i] \in Extracts /\ i \in Nat /\ Coherent(s) /\ Coherent(t) /\ IsStore(s) /\ IsStore(t)
        /\ OneEach(s) /\ CacheBounds(s)
        /\ t.graph.events = s.graph.events \cup {i}
        /\ s.graph.events \subseteq Nat
    BY DEF Upserted, Sane, Coherent, Chained
  <1>2. Versions(s) \subseteq Ident /\ Versions(t) \subseteq Ident /\ None \notin Versions(s)
    BY <1>1, NoVersion DEF IsStore, AreVersions, Versions
  <1>3. i # Open
    BY <1>1, MarksAssumption
  <1>4. \A k \in Ident : k[1] \in Name /\ k[2] \in Nat /\ k = <<k[1], k[2]>>
    BY DEF Ident
  <1>5. \A k \in Versions(s) : k[2] \in s.graph.events
    BY DEF Sane, Attested
  <1>6. ASSUME NEW k \in Versions(s), ~ IsOpen(s, k), NEW x \in Nat, x < s.graph.nodes[k].to
        PROVE  s.graph.nodes[k].to \in s.graph.events
    <2>1. s.graph.nodes[k].to # Open /\ s.graph.nodes[k].to # 0
      <3>1. s.graph.nodes[k].to # Open
        BY <1>6 DEF IsOpen
      <3>2. s.graph.nodes[k].to # 0
        BY <1>6
      <3> QED
        BY <3>1, <3>2
    <2> QED
      BY <2>1 DEF Sane, Attested
  <1>7. \A k \in Versions(s), x \in s.graph.events : \A c :
          FoundAt(s, k, x, m) /\ SaysLast(log, x, k[1], c) => c = s.graph.nodes[k].content
    BY DEF Hist
  \* a closed version that the time i lies in
  <1>8. ASSUME NEW k \in Versions(s), ~ IsOpen(s, k), k[2] <= i, i < s.graph.nodes[k].to, NEW c, SaysLast(log, i, k[1], c)
        PROVE  c = s.graph.nodes[k].content
    <2>1. s.graph.nodes[k].to \in s.graph.events
      BY <1>1, <1>6, <1>8
    <2>2. s.graph.nodes[k].to \in Nat
      BY <1>1, <2>1
    <2>3. i \in s.graph.events
      BY <1>1, <1>8, <2>1, <2>2
    <2>4. FoundAt(s, k, i, m)
      BY <1>8 DEF FoundAt
    <2> QED
      BY <1>7, <1>8, <2>3, <2>4
  <1>9. ASSUME NEW k \in Versions(t), NEW x \in t.graph.events, FoundAt(t, k, x, i), NEW c, SaysLast(log, x, k[1], c)
        PROVE  c = t.graph.nodes[k].content
    <2> DEFINE n == k[1]
    <2>1. /\ n \in Name /\ k \in Ident /\ k[2] \in Nat /\ x \in Nat /\ k[2] <= x
          /\ x = i \/ (x \in s.graph.events /\ x # i)
          /\ IsOpen(t, k) => x <= i \/ k[2] > i
          /\ ~ IsOpen(t, k) => x < t.graph.nodes[k].to
          /\ log[x] \in Extracts
      <3>1. t.graph.events \subseteq DOMAIN log
        BY <1>1 DEF Sane, Chained
      <3> QED
        BY <1>1, <1>2, <1>4, <1>9, <3>1 DEF FoundAt
    <2>2. ASSUME k \in Versions(s), t.graph.nodes[k] = s.graph.nodes[k], x # i
          PROVE  c = t.graph.nodes[k].content
      <3>1. FoundAt(s, k, x, m)
        BY <2>1, <2>2, <1>1 DEF FoundAt, IsOpen
      <3> QED
        BY <1>7, <1>9, <2>1, <2>2, <3>1
    <2>3. CASE ~ Mentioned(log, i, n)
      <3>1. k \in Versions(s) /\ t.graph.nodes[k] = s.graph.nodes[k]
        <4>1. Kept(s, t, n)
          BY <1>1, <2>1, <2>3, UpsertedTells
        <4> QED
          BY <2>1, <4>1 DEF Kept
      <3>2. Mentioned(log, x, n)
        BY <1>9, <2>1, SaysFacts
      <3>3. x # i
        BY <2>3, <3>2
      <3> QED
        BY <2>2, <3>1, <3>3
    <2>4. CASE Mentioned(log, i, n)
      <3>1. PICK d \in Content : SaysLast(log, i, n, d)
        BY <1>1, <2>1, <2>4, UpsertedTells
      <3>2. Retold(s, t, i, n, d)
        BY <1>1, <2>1, <3>1, UpsertedTells
      <3>3. PICK v : v = Version(s, n)
        OBVIOUS
      <3>4. /\ v # None => v \in Versions(s) /\ v[1] = n /\ IsOpen(s, v)
            /\ IsOpen(s, k) /\ k \in Versions(s) => k = v
        BY <1>1, <2>1, <3>3, VersionFacts
      <3>5. x = i => c = d
        BY <1>1, <1>9, <3>1, SaysFacts
      <3>6. CASE Confirmed(s, t, n, d)
        <4>1. /\ k \in Versions(s) /\ t.graph.nodes[k] = s.graph.nodes[k]
              /\ v # None /\ s.graph.nodes[v].content = d
          BY <2>1, <3>3, <3>6 DEF Confirmed, Kept
        <4>2. CASE x # i
          BY <2>2, <4>1, <4>2
        <4>3. CASE x = i /\ IsOpen(s, k)
          BY <3>4, <3>5, <4>1, <4>3
        <4>4. CASE x = i /\ ~ IsOpen(s, k)
          <5>1. k[2] <= i /\ i < s.graph.nodes[k].to
            BY <2>1, <4>1, <4>4 DEF IsOpen
          <5> QED
            BY <1>8, <1>9, <4>1, <4>4, <5>1
        <4> QED
          BY <4>2, <4>3, <4>4
      <3>7. CASE Renewed(s, t, i, n, d)
        <4>1. CASE k = <<n, i>>
          <5>1. t.graph.nodes[k] = [content |-> d, to |-> Open]
            BY <3>7, <4>1 DEF Renewed
          <5>2. t.graph.nodes[k].content = d /\ t.graph.nodes[k].to = Open /\ k[2] = i
            BY <4>1, <5>1
          <5>3. x = i
            BY <1>1, <2>1, <5>2 DEF IsOpen
          <5> QED
            BY <3>5, <5>2, <5>3
        <4>2. CASE k # <<n, i>>
          <5>1. /\ k \in Versions(s) /\ t.graph.nodes[k].content = s.graph.nodes[k].content
                /\ t.graph.nodes[k].to = IF k = v THEN i ELSE s.graph.nodes[k].to
            BY <2>1, <3>3, <3>7, <4>2 DEF Renewed
          <5>2. CASE k = v
            <6>1. v # None
              BY <1>2, <5>1, <5>2
            <6>2. ~ IsOpen(t, k) /\ x < i /\ IsOpen(s, k)
              BY <1>3, <2>1, <3>4, <5>1, <5>2, <6>1 DEF IsOpen
            <6>3. x <= m
              BY <1>1, <2>1, <6>2
            <6>4. FoundAt(s, k, x, m) /\ x \in s.graph.events
              BY <2>1, <6>2, <6>3 DEF FoundAt
            <6> QED
              BY <1>7, <1>9, <5>1, <6>4
          <5>3. CASE k # v
            <6>1. ~ IsOpen(s, k) /\ ~ IsOpen(t, k) /\ x < s.graph.nodes[k].to
              BY <2>1, <3>4, <5>1, <5>3 DEF IsOpen
            <6>2. CASE x = i
              BY <1>8, <1>9, <2>1, <5>1, <6>1, <6>2
            <6>3. CASE x # i
              <7>1. FoundAt(s, k, x, m) /\ x \in s.graph.events
                BY <2>1, <6>1, <6>3 DEF FoundAt
              <7> QED
                BY <1>7, <1>9, <5>1, <7>1
            <6> QED
              BY <6>2, <6>3
          <5> QED
            BY <5>2, <5>3
        <4> QED
          BY <4>1, <4>2
      <3> QED
        BY <3>2, <3>6, <3>7 DEF Retold
    <2> QED
      BY <2>3, <2>4
  <1>10. ASSUME NEW x \in t.graph.events, NEW n \in Name, Mentioned(log, x, n)
         PROVE  \E k \in Versions(t) : k[1] = n /\ k[2] <= x /\ (IsOpen(t, k) \/ x < t.graph.nodes[k].to)
    <2>1. x \in Nat /\ (x = i \/ (x \in s.graph.events /\ x # i))
      BY <1>1
    <2>2. ASSUME x \in s.graph.events
          PROVE  \E k \in Versions(s) : k[1] = n /\ k[2] <= x /\ (IsOpen(s, k) \/ x < s.graph.nodes[k].to)
      BY <1>10, <2>2 DEF Hist
    <2>3. ASSUME Kept(s, t, n), NEW k \in Versions(s), k[1] = n
          PROVE  k \in Versions(t) /\ t.graph.nodes[k] = s.graph.nodes[k]
      BY <1>2, <2>3 DEF Kept
    <2>4. CASE ~ Mentioned(log, i, n)
      <3>1. Kept(s, t, n)
        BY <1>1, <2>4, UpsertedTells
      <3>2. x \in s.graph.events
        BY <1>10, <2>1, <2>4
      <3>3. PICK k \in Versions(s) : k[1] = n /\ k[2] <= x /\ (IsOpen(s, k) \/ x < s.graph.nodes[k].to)
        BY <2>2, <3>2
      <3> QED
        BY <2>3, <3>1, <3>3 DEF IsOpen
    <2>5. CASE Mentioned(log, i, n)
      <3>1. PICK d \in Content : SaysLast(log, i, n, d)
        BY <1>1, <2>5, UpsertedTells
      <3>2. Retold(s, t, i, n, d)
        BY <1>1, <3>1, UpsertedTells
      <3>3. PICK v : v = Version(s, n)
        OBVIOUS
      <3>4. /\ v # None => v \in Versions(s) /\ v[1] = n /\ IsOpen(s, v)
            /\ \A k \in Versions(s) : k[1] = n /\ IsOpen(s, k) => k = v
        BY <1>1, <3>3, VersionFacts
      <3>5. CASE Confirmed(s, t, n, d)
        <4>1. Kept(s, t, n) /\ v # None
          BY <3>3, <3>5 DEF Confirmed
        <4>2. CASE x \in s.graph.events
          <5>1. PICK k \in Versions(s) : k[1] = n /\ k[2] <= x /\ (IsOpen(s, k) \/ x < s.graph.nodes[k].to)
            BY <2>2, <4>2
          <5> QED
            BY <2>3, <4>1, <5>1 DEF IsOpen
        <4>3. CASE x \notin s.graph.events
          <5>1. x = i /\ \A y \in s.graph.events : y < i
            BY <2>1, <4>3
          <5>2. v[2] \in s.graph.events /\ v[2] \in Nat
            BY <1>1, <1>5, <3>4, <4>1
          <5>3. v[2] <= x
            BY <2>1, <5>1, <5>2
          <5> QED
            BY <2>3, <3>4, <4>1, <5>3 DEF IsOpen
        <4> QED
          BY <4>2, <4>3
      <3>6. CASE Renewed(s, t, i, n, d)
        <4>1. <<n, i>> \in Versions(t) /\ IsOpen(t, <<n, i>>)
          BY <3>6 DEF Renewed, IsOpen
        <4>2. CASE x >= i
          <5>1. <<n, i>>[1] = n /\ <<n, i>>[2] <= x
            BY <1>1, <2>1, <4>2
          <5> QED
            BY <4>1, <5>1
        <4>3. CASE x < i
          <5>1. x \in s.graph.events
            BY <1>1, <2>1, <4>3
          <5>2. PICK k \in Versions(s) : k[1] = n /\ k[2] <= x /\ (IsOpen(s, k) \/ x < s.graph.nodes[k].to)
            BY <2>2, <5>1
          <5>3. k \in Ident /\ k # <<n, i>>
            BY <1>1, <1>2, <2>1, <4>3, <5>2
          <5>4. k \in Versions(t) /\ t.graph.nodes[k].to = IF k = v THEN i ELSE s.graph.nodes[k].to
            BY <3>3, <3>6, <5>2, <5>3 DEF Renewed
          <5>5. CASE k = v
            BY <4>3, <5>2, <5>4, <5>5
          <5>6. CASE k # v
            BY <3>4, <5>2, <5>4, <5>6
          <5> QED
            BY <5>5, <5>6
        <4> QED
          BY <1>1, <2>1, <4>2, <4>3
      <3> QED
        BY <3>2, <3>5, <3>6 DEF Retold
    <2> QED
      BY <2>4, <2>5
  <1> QED
    BY <1>9, <1>10 DEF Hist
-----------------------------------------------------------------------------
(* Replays.                                                                *)

Replays(u, s, from, m) ==
  u = [i \in (from - 1)..m |-> IF i < from THEN s ELSE Upsert(u[i - 1], i)]

\* The loop over the events from the first to replay can be run to any length.
LEMMA ReplaysExists ==
  ASSUME NEW s, NEW from \in Nat \ {0}, NEW m \in Nat, m >= from - 1
  PROVE  \E u : Replays(u, s, from, m)
  <1> DEFINE T == {k \in Nat : k >= from - 1 /\ ~ \E u : Replays(u, s, from, k)}
  <1>1. SUFFICES ASSUME T # {} PROVE FALSE
    OBVIOUS
  <1>2. PICK k \in T : \A j \in T : k <= j
    BY <1>1, NatMin
  <1>3. k # from - 1
    <2>1. Replays([i \in (from - 1)..(from - 1) |-> s], s, from, from - 1)
      BY DEF Replays
    <2> QED
      BY <2>1
  <1>4. k - 1 \in Nat /\ k - 1 >= from - 1 /\ k - 1 \notin T /\ k >= from
    BY <1>2, <1>3
  <1>5. PICK u : Replays(u, s, from, k - 1)
    BY <1>4
  <1> DEFINE last == Upsert(u[k - 1], k)
             v == [i \in (from - 1)..k |-> IF i = k THEN last ELSE u[i]]
  <1>6. \A i \in (from - 1)..(k - 1) : v[i] = u[i]
    BY <1>2
  <1>7. v[k] = last
    BY <1>2
  <1>8. v = [i \in (from - 1)..k |-> v[i]]
    OBVIOUS
  <1> HIDE DEF v
  <1>9. ASSUME NEW i \in (from - 1)..k
        PROVE  v[i] = IF i < from THEN s ELSE Upsert(v[i - 1], i)
    <2>1. CASE i = k
      <3>1. i - 1 \in (from - 1)..(k - 1) /\ ~ (i < from)
        BY <1>4, <2>1
      <3>2. v[i - 1] = u[i - 1]
        BY <1>6, <3>1
      <3>3. v[i] = Upsert(v[i - 1], i)
        BY <1>7, <2>1, <3>2
      <3> QED
        BY <3>1, <3>3
    <2>2. CASE i # k
      <3>1. i \in (from - 1)..(k - 1) /\ (~ (i < from) => i - 1 \in (from - 1)..(k - 1))
        BY <2>2
      <3>2. u[i] = IF i < from THEN s ELSE Upsert(u[i - 1], i)
        BY <1>5, <3>1 DEF Replays
      <3> QED
        BY <1>6, <3>1, <3>2
    <2> QED
      BY <2>1, <2>2
  <1>10. v = [i \in (from - 1)..k |-> IF i < from THEN s ELSE Upsert(v[i - 1], i)]
    BY <1>8, <1>9
  <1>11. Replays(v, s, from, k)
    BY <1>10 DEF Replays
  <1> QED
    BY <1>2, <1>11

\* Of the events X, j is the last that says something of n, and is what is told.
ToldBy(t, n, j, X) ==
  /\ \E c \in Content : Presents(t, n, c) /\ SaysLast(log, j, n, c)
  /\ \A x \in X : Mentioned(log, x, n) => x <= j

Untold(b, t, n, X) == Kept(b, t, n) /\ \A x \in X : ~ Mentioned(log, x, n)

\* Events are there without a gap up to e, which is not before the replay.
InOrder(b, from) == \E e \in Nat : b.graph.events = 1..e /\ from - 1 <= e

\* What the events before the replay say is told, as far as they are needed.
Grounded(b, from) == 1..(from - 1) \subseteq b.graph.events /\ (from # 1 => Lasts(log, b))

\* t is what b becomes by a replay of the events from the first to m.
Caught(b, from, m, t) ==
  /\ Sane(log, t) /\ Exact(t)
  /\ t.graph.events = b.graph.events \cup (from..m)
  /\ t.graph.chain \subseteq b.graph.chain \cup (from..m)
  /\ (from + 1)..m \subseteq t.graph.chain
  /\ Grounded(b, from) => Related(log, t, from..m)
  /\ \A p : p[1] # p[2] /\ OpenRel(b, p) => OpenRel(t, p)
  /\ \A n \in Name : Untold(b, t, n, from..m) \/ \E j \in from..m : ToldBy(t, n, j, from..m)
  /\ InOrder(b, from) /\ Hist(log, b, from - 1) => Hist(log, t, m)

\* Before the first event of a replay, and by the next.
LEMMA CaughtFirst ==
  ASSUME NEW b, Sane(log, b), Exact(b), NEW from \in Nat \ {0}
  PROVE  Caught(b, from, from - 1, b)
  <1>1. from..(from - 1) = {} /\ (from + 1)..(from - 1) = {}
    OBVIOUS
  <1>2. \A n : Kept(b, b, n)
    BY DEF Kept
  <1> QED
    BY <1>1, <1>2 DEF Caught, Related, Untold

\* What was said by then is found.
LEMMA CaughtFinds ==
  ASSUME NEW b, Coherent(b), NEW from \in Nat \ {0}, NEW m \in Nat, NEW s, Coherent(s), Caught(b, from, m, s),
         Grounded(b, from), NEW n \in Name, NEW x \in 1..m, Mentioned(log, x, n)
  PROVE  ~ Absent(s, n)
  <1>1. IsStore(b) /\ IsStore(s) /\ Versions(b) \subseteq Ident
    BY DEF Coherent, IsStore, AreVersions, Versions
  <1>2. CASE \E j \in from..m : ToldBy(s, n, j, from..m)
    BY <1>2 DEF ToldBy, Presents, Absent
  <1>3. CASE Untold(b, s, n, from..m)
    <2>1. x \in 1..(from - 1) /\ from # 1
      <3>1. x \notin from..m
        BY <1>3 DEF Untold
      <3> QED
        BY <3>1
    <2>2. x \in b.graph.events /\ Lasts(log, b)
      BY <2>1 DEF Grounded
    <2>3. \E c \in Content : Presents(b, n, c)
      BY <2>2 DEF Lasts, NeverTold, LastTold
    <2>4. \E c \in Content : Presents(s, n, c)
      BY <1>1, <1>3, <2>3, KeptPresents DEF Untold
    <2> QED
      BY <2>4 DEF Presents, Absent
  <1> QED
    BY <1>2, <1>3 DEF Caught

LEMMA CaughtNext ==
  ASSUME NEW b, Coherent(b), NEW from \in Nat \ {0}, log \in Seq(Extracts), NEW i \in from..Len(log),
         NEW s, Caught(b, from, i - 1, s), NEW t, t = Upsert(s, i)
  PROVE  Caught(b, from, i, t)
  <1>1. i \in DOMAIN log /\ i \in Nat /\ log[i] \in Extracts
    <2>1. Len(log) \in Nat /\ DOMAIN log = 1..Len(log)
      OBVIOUS
    <2> QED
      BY <2>1
  <1>2. from..i = (from..(i - 1)) \cup {i}
    OBVIOUS
  <1>3. /\ Sane(log, s) /\ Exact(s) /\ s.graph.events = b.graph.events \cup (from..(i - 1))
        /\ s.graph.chain \subseteq b.graph.chain \cup (from..(i - 1))
        /\ (from + 1)..(i - 1) \subseteq s.graph.chain
        /\ Grounded(b, from) => Related(log, s, from..(i - 1))
        /\ \A p : p[1] # p[2] /\ OpenRel(b, p) => OpenRel(s, p)
    BY DEF Caught
  <1>4. \A n \in Name : Untold(b, s, n, from..(i - 1)) \/ \E j \in from..(i - 1) : ToldBy(s, n, j, from..(i - 1))
    BY DEF Caught
  <1>5. InOrder(b, from) /\ Hist(log, b, from - 1) => Hist(log, s, i - 1)
    BY DEF Caught
  <1>6. Coherent(s) /\ Upserted(s, i, t)
    BY <1>1, <1>3, UpsertIs DEF Sane
  <1>7. Sane(log, t) /\ Coherent(t)
    BY <1>1, <1>3, <1>6, UpsertedSane DEF Upserted
  <1>8. /\ Exact(t) /\ t.graph.events = s.graph.events \cup {i}
        /\ t.graph.chain = ChainWith(s.graph.events \cup {i}, s.graph.chain, i)
        /\ \A p : p[1] # p[2] /\ OpenRel(s, p) => OpenRel(t, p)
    BY <1>3, <1>6 DEF Upserted
  <1>9. t.graph.events = b.graph.events \cup (from..i)
    BY <1>2, <1>3, <1>8
  <1>10. t.graph.chain \subseteq b.graph.chain \cup (from..i)
    BY <1>2, <1>3, <1>8 DEF ChainWith
  <1>11. (from + 1)..i \subseteq t.graph.chain
    <2>1. \A x \in (from + 1)..i : x = i \/ x \in (from + 1)..(i - 1)
      OBVIOUS
    <2>2. s.graph.chain \subseteq t.graph.chain
      BY <1>8 DEF ChainWith
    <2>3. i >= from + 1 => i \in t.graph.chain
      <3>1. i >= from + 1 => i - 1 \in from..(i - 1)
        OBVIOUS
      <3> QED
        BY <1>3, <1>8, <3>1 DEF ChainWith
    <2> QED
      BY <1>3, <2>1, <2>2, <2>3
  <1>12. ASSUME Grounded(b, from)
         PROVE  Related(log, t, from..i)
    <2>1. ASSUME NEW n \in Name, NEW x \in 1..i, Mentioned(log, x, n)
          PROVE  ~ Absent(t, n)
      <3>1. Mentioned(log, i, n) \/ ~ Absent(s, n)
        <4>1. CASE x = i
          BY <2>1, <4>1
        <4>2. CASE x # i
          <5>1. i - 1 \in Nat /\ x \in 1..(i - 1)
            BY <1>1, <4>2
          <5> QED
            BY <1>6, <1>12, <2>1, <5>1, CaughtFinds
        <4> QED
          BY <4>1, <4>2
      <3> QED
        BY <1>1, <1>3, <1>6, <3>1, Finds
    <2>2. \A p \in log[i].links : p[1] \in Name /\ p[2] \in Name
      BY <1>1, EventSays
    <2>3. \A p \in log[i].links : Known(log, i, p) => ~ Absent(t, p[1]) /\ ~ Absent(t, p[2])
      BY <2>1, <2>2 DEF Known
    <2>4. Related(log, s, from..(i - 1))
      BY <1>3, <1>12
    <2> QED
      BY <1>2, <1>3, <1>6, <2>3, <2>4, RelatedStep
  <1>13. ASSUME NEW n \in Name
         PROVE  Untold(b, t, n, from..i) \/ \E j \in from..i : ToldBy(t, n, j, from..i)
    <2>1. CASE Mentioned(log, i, n)
      <3>1. PICK c \in Content : SaysLast(log, i, n, c)
        BY <1>1, <1>6, <2>1, UpsertedTells
      <3>2. Presents(t, n, c)
        BY <1>1, <1>3, <1>6, <3>1, UpsertedTells
      <3>3. i \in from..i /\ \A x \in from..i : x <= i
        OBVIOUS
      <3> QED
        BY <3>1, <3>2, <3>3 DEF ToldBy
    <2>2. CASE ~ Mentioned(log, i, n)
      <3>1. Kept(s, t, n)
        BY <1>1, <1>6, <2>2, UpsertedTells
      <3>2. CASE Untold(b, s, n, from..(i - 1))
        <4>1. Kept(b, t, n)
          BY <3>1, <3>2 DEF Untold, Kept
        <4> QED
          BY <1>2, <2>2, <3>2, <4>1 DEF Untold
      <3>3. CASE \E j \in from..(i - 1) : ToldBy(s, n, j, from..(i - 1))
        <4>1. PICK j \in from..(i - 1) : ToldBy(s, n, j, from..(i - 1))
          BY <3>3
        <4>2. PICK c \in Content : Presents(s, n, c) /\ SaysLast(log, j, n, c)
          BY <4>1 DEF ToldBy
        <4>3. Presents(t, n, c)
          <5>1. IsStore(s) /\ IsStore(t)
            BY <1>6, <1>7 DEF Coherent
          <5> QED
            BY <3>1, <4>2, <5>1, KeptPresents
        <4>4. \A x \in from..i : Mentioned(log, x, n) => x <= j
          BY <1>2, <2>2, <4>1 DEF ToldBy
        <4>5. ToldBy(t, n, j, from..i) /\ j \in from..i
          BY <1>2, <4>2, <4>3, <4>4 DEF ToldBy
        <4> QED
          BY <4>5
      <3> QED
        BY <1>4, <3>2, <3>3
    <2> QED
      BY <2>1, <2>2
  <1>14. ASSUME InOrder(b, from), Hist(log, b, from - 1)
         PROVE  Hist(log, t, i)
    <2>1. PICK e \in Nat : b.graph.events = 1..e /\ from - 1 <= e
      BY <1>14 DEF InOrder
    <2>2. i \in s.graph.events \/ \A x \in s.graph.events : x < i
      <3>1. CASE i <= e
        BY <1>1, <1>3, <2>1, <3>1
      <3>2. CASE e < i
        BY <1>1, <1>3, <2>1, <3>2
      <3> QED
        BY <1>1, <2>1, <3>1, <3>2
    <2>3. Hist(log, s, i - 1) /\ i - 1 \in Nat /\ i = (i - 1) + 1
      BY <1>1, <1>5, <1>14
    <2> QED
      BY <1>1, <1>3, <1>6, <2>2, <2>3, HistStep
  <1> QED
    BY <1>3, <1>7, <1>8, <1>9, <1>10, <1>11, <1>12, <1>13, <1>14 DEF Caught

\* What a replay makes of a store.
LEMMA ReplayedIs ==
  ASSUME log \in Seq(Extracts), NEW b, Sane(log, b), Exact(b), NEW from \in 1..Len(log)
  PROVE  Caught(b, from, Len(log), Replayed(b, from))
  <1> DEFINE w == CHOOSE u : Replays(u, b, from, Len(log))
  <1>1. Len(log) \in Nat /\ from \in Nat \ {0} /\ Len(log) >= from - 1
    <2>1. Len(log) \in Nat
      OBVIOUS
    <2> QED
      BY <2>1
  <1>2. Replays(w, b, from, Len(log))
    BY <1>1, ReplaysExists
  <1>3. Replayed(b, from) = w[Len(log)]
    BY DEF Replayed, Replays
  <1> HIDE DEF w
  <1> DEFINE T == {k \in Nat : k \in (from - 1)..Len(log) /\ ~ Caught(b, from, k, w[k])}
  <1>4. SUFFICES ASSUME T # {} PROVE FALSE
    BY <1>1, <1>3
  <1>5. PICK k \in T : \A j \in T : k <= j
    BY <1>4, NatMin
  <1>6. w[k] = IF k < from THEN b ELSE Upsert(w[k - 1], k)
    BY <1>2, <1>5 DEF Replays
  <1>7. k # from - 1
    BY <1>1, <1>5, <1>6, CaughtFirst
  <1>8. k - 1 \in (from - 1)..Len(log) /\ k - 1 \in Nat /\ k - 1 \notin T /\ k \in from..Len(log) /\ ~ (k < from)
    BY <1>1, <1>5, <1>7
  <1>9. Caught(b, from, k - 1, w[k - 1])
    BY <1>8
  <1>10. Caught(b, from, k, w[k])
    BY <1>1, <1>6, <1>8, <1>9, CaughtNext DEF Sane
  <1> QED
    BY <1>5, <1>10
-----------------------------------------------------------------------------
(* What the graph tells, and what the log says.                            *)

\* What the log says of n up to a time.
LEMMA MentionsAre ==
  ASSUME log \in Seq(Extracts), NEW time \in 0..Len(log), NEW n
  PROVE  /\ \A i : i \in Mentions(n, time) <=> i \in 1..time /\ Mentioned(log, i, n)
         /\ \A i \in 1..time : \A c : c \in SaidAt(n, i) <=> SaysLast(log, i, n, c)
  <1>1. \A i \in 1..time : log[i] \in Extracts
    <2>1. Len(log) \in Nat
      OBVIOUS
    <2> QED
      BY <2>1
  <1>2. ASSUME NEW i \in 1..time
        PROVE  /\ i \in Mentions(n, time) <=> Mentioned(log, i, n)
               /\ \A c : c \in SaidAt(n, i) <=> SaysLast(log, i, n, c)
    <2>1. PICK says : says = log[i].says
      OBVIOUS
    <2>2. DOMAIN says = 1..Len(says)
      BY <1>1, <2>1, EventSays
    <2>3. \A j \in DOMAIN says : says[j].name = n => Mentioned(log, i, n)
      <3>1. \A j \in DOMAIN says : Mentioned(log, i, says[j].name)
        BY <1>1, <2>1, <2>2, SaysFacts
      <3> QED
        BY <3>1
    <2>4. Mentioned(log, i, n) => \E j \in DOMAIN says : says[j].name = n
      <3>1. \A c : [name |-> n, content |-> c].name = n
        OBVIOUS
      <3> QED
        BY <2>1, <3>1, Zenon DEF Mentioned, Says
    <2>5. i \in Mentions(n, time) <=> \E j \in DOMAIN says : says[j].name = n
      BY <2>1 DEF Mentions
    <2>6. \A c : c \in SaidAt(n, i) <=>
                \E j \in DOMAIN says : /\ says[j].name = n /\ says[j].content = c
                                       /\ \A m \in DOMAIN says : says[m].name = n => m <= j
      BY <2>1 DEF SaidAt
    <2>7. \A c : c \in SaidAt(n, i) <=> SaysLast(log, i, n, c)
      BY <2>1, <2>2, <2>6 DEF SaysLast, LastSaid
    <2> QED
      BY <2>3, <2>4, <2>5, <2>7
  <1>3. Mentions(n, time) \subseteq 1..time
    BY DEF Mentions
  <1> QED
    BY <1>2, <1>3

\* What the log says of a name: what the last event that mentions it says.
LEMMA ToldIs ==
  ASSUME log \in Seq(Extracts), NEW time \in 0..Len(log), NEW n
  PROVE  /\ (\A i \in 1..time : ~ Mentioned(log, i, n)) => Told(n, time) = {}
         /\ \A j \in 1..time : \A c : SaysLast(log, j, n, c) /\ (\A i \in 1..time : Mentioned(log, i, n) => i <= j)
              => Told(n, time) = {c}
  <1>1. /\ \A i : i \in Mentions(n, time) <=> i \in 1..time /\ Mentioned(log, i, n)
        /\ \A i \in 1..time : \A c : c \in SaidAt(n, i) <=> SaysLast(log, i, n, c)
    BY MentionsAre
  <1>2. \A x : x \in Told(n, time) <=>
          \E i \in Mentions(n, time) : (\A j \in Mentions(n, time) : j <= i) /\ x \in SaidAt(n, i)
    BY DEF Told
  <1>3. ASSUME \A i \in 1..time : ~ Mentioned(log, i, n)
        PROVE  Told(n, time) = {}
    BY <1>1, <1>2, <1>3
  <1>4. ASSUME NEW j \in 1..time, NEW c, SaysLast(log, j, n, c), \A i \in 1..time : Mentioned(log, i, n) => i <= j
        PROVE  Told(n, time) = {c}
    <2>1. /\ log[j] \in Extracts /\ time \in Nat
      <3>1. Len(log) \in Nat
        OBVIOUS
      <3> QED
        BY <3>1
    <2>2. Mentioned(log, j, n) /\ \A d : SaysLast(log, j, n, d) => d = c
      BY <1>4, <2>1, SaysFacts
    <2>3. c \in Told(n, time)
      <3>1. j \in Mentions(n, time) /\ \A i \in Mentions(n, time) : i <= j
        BY <1>1, <1>4, <2>2
      <3>2. c \in SaidAt(n, j)
        BY <1>1, <1>4
      <3> QED
        BY <1>2, <3>1, <3>2
    <2>4. ASSUME NEW x \in Told(n, time)
          PROVE  x = c
      <3>1. PICK i \in Mentions(n, time) : (\A k \in Mentions(n, time) : k <= i) /\ x \in SaidAt(n, i)
        BY <1>2
      <3>2. i \in 1..time /\ Mentioned(log, i, n) /\ j \in Mentions(n, time)
        BY <1>1, <2>2
      <3>3. i <= j /\ j <= i
        BY <1>4, <3>1, <3>2
      <3>4. i = j
        BY <2>1, <3>2, <3>3
      <3> QED
        BY <1>1, <2>2, <3>1, <3>4
    <2> QED
      BY <2>3, <2>4
  <1> QED
    BY <1>3, <1>4

\* Every event is in the graph, and linked to its predecessor.
Whole(s) == s.graph.events = 1..Len(log) /\ 2..Len(log) \subseteq s.graph.chain

\* A graph that is whole, and told of the present, is what the log says.
LEMMA WholeIsFold ==
  ASSUME log \in Seq(Extracts), Sane(log, Store), Whole(Store), Lasts(log, Store),
         Related(log, Store, Solid(Store))
  PROVE  IsFold
  <1>1. Store.graph = graph /\ Len(log) \in Nat /\ DOMAIN log = 1..Len(log) /\ Len(log) \in 0..Len(log)
    <2>1. Len(log) \in Nat
      OBVIOUS
    <2> QED
      BY <2>1 DEF Store
  <1>2. graph.events = 1..Len(log) /\ 2..Len(log) \subseteq graph.chain
    BY <1>1 DEF Whole
  <1>3. IsStore(Store) /\ OneEach(Store) /\ RelEnds(Store) /\ RelsAttested(log, Store)
    BY DEF Sane, Coherent
  <1>4. ASSUME NEW n \in Name
        PROVE  Current(n) = Told(n, Len(log))
    <2>1. \A x : x \in Current(n) <=> Presents(Store, n, x)
      BY <1>1 DEF Current, Active, Presents, Versions, IsOpen
    <2>2. CASE NeverTold(log, Store, n)
      <3>1. Current(n) = {}
        BY <2>1, <2>2 DEF NeverTold, Absent, Presents
      <3>2. Told(n, Len(log)) = {}
        BY <1>1, <1>2, <2>2, ToldIs DEF NeverTold
      <3> QED
        BY <3>1, <3>2
    <2>3. CASE \E j \in graph.events : LastTold(log, Store, n, j)
      <3>1. PICK j \in 1..Len(log) : LastTold(log, Store, n, j)
        BY <1>2, <2>3
      <3>2. PICK c \in Content : Presents(Store, n, c) /\ SaysLast(log, j, n, c)
        BY <3>1 DEF LastTold
      <3>3. ASSUME NEW i \in 1..Len(log), Mentioned(log, i, n)
            PROVE  i <= j
        <4>1. i > j => \E m \in (j + 1)..i : m \notin graph.chain
          BY <1>1, <1>2, <3>1, <3>3 DEF LastTold
        <4>2. \A m \in (j + 1)..i : m \in 2..Len(log)
          BY <1>1
        <4> QED
          BY <1>1, <1>2, <4>1, <4>2
      <3>4. Told(n, Len(log)) = {c}
        BY <1>1, <3>2, <3>3, ToldIs
      <3>5. \A x : Presents(Store, n, x) => x = c
        BY <1>3, <3>2 DEF Presents, OneEach
      <3> QED
        BY <2>1, <3>2, <3>4, <3>5
    <2> QED
      BY <1>1, <2>2, <2>3 DEF Lasts
  <1> DEFINE linked == UNION {log[i].links : i \in DOMAIN log}
  <1>5. Relations \subseteq linked
    <2> SUFFICES ASSUME NEW r \in graph.rels
                 PROVE  <<r[1][1], r[2][1]>> \in linked
      BY DEF Relations
    <2>1. \E i \in graph.events : <<r[1][1], r[2][1]>> \in log[i].links
      BY <1>1, <1>3 DEF RelsAttested, NamesOf
    <2> QED
      BY <1>1, <1>2, <2>1
  <1>6. ASSUME NEW i \in DOMAIN log, NEW p \in KnownLinks(i), p[1] # p[2]
        PROVE  p \in Relations
    <2>1. /\ i \in 0..Len(log) /\ i \in graph.events /\ 2..i \subseteq graph.chain /\ log[i] \in Extracts
          /\ p \in log[i].links /\ Mentions(p[1], i) # {} /\ Mentions(p[2], i) # {}
      BY <1>1, <1>2 DEF KnownLinks
    <2>2. Known(log, i, p)
      <3>1. PICK x \in Mentions(p[1], i), y \in Mentions(p[2], i) : TRUE
        BY <2>1
      <3>2. x \in 1..i /\ Mentioned(log, x, p[1]) /\ y \in 1..i /\ Mentioned(log, y, p[2])
        BY <2>1, MentionsAre
      <3> QED
        BY <3>2 DEF Known
    <2>3. OpenRel(Store, p)
      <3>1. i \in Solid(Store)
        BY <1>1, <2>1 DEF Solid
      <3> QED
        BY <1>6, <2>1, <2>2, <3>1 DEF Related
    <2>4. PICK r \in graph.rels : /\ r[1][1] = p[1] /\ r[2][1] = p[2]
                                  /\ graph.nodes[r[1]].to = Open /\ graph.nodes[r[2]].to = Open
      BY <1>1, <2>3 DEF OpenRel, IsOpen
    <2>5. p = <<r[1][1], r[2][1]>>
      <3>1. p = <<p[1], p[2]>>
        BY <2>1, EventSays
      <3> QED
        BY <2>4, <3>1
    <2> QED
      BY <2>4, <2>5 DEF Relations
  <1> HIDE DEF linked
  <1>7. /\ \A n \in Name : Current(n) = Told(n, Len(log))
        /\ Relations \subseteq linked
        /\ \A i \in DOMAIN log : \A l \in KnownLinks(i) : l[1] = l[2] \/ l \in Relations
    BY <1>4, <1>5, <1>6
  <1> QED
    BY <1>7, Zenon DEF IsFold, linked

\* And of a time in the past, if it is told of that.
LEMMA WholeHistory ==
  ASSUME log \in Seq(Extracts), Sane(log, Store), graph.events = 1..Len(log), Hist(log, Store, Len(log)),
         NEW time \in DOMAIN log, NEW n \in Name
  PROVE  {graph.nodes[k].content :
            k \in {k \in DOMAIN graph.nodes :
                     /\ k[1] = n /\ k[2] <= time
                     /\ graph.nodes[k].to = Open \/ time < graph.nodes[k].to}} = Told(n, time)
  <1> DEFINE those == {k \in DOMAIN graph.nodes :
                         /\ k[1] = n /\ k[2] <= time
                         /\ graph.nodes[k].to = Open \/ time < graph.nodes[k].to}
  <1>1. /\ Store.graph = graph /\ Len(log) \in Nat /\ DOMAIN log = 1..Len(log) /\ time \in Nat /\ time \in 0..Len(log)
        /\ 1..time \subseteq graph.events /\ graph.events \subseteq Nat
    <2>1. Len(log) \in Nat
      OBVIOUS
    <2> QED
      BY <2>1 DEF Store
  <1>2. \A k \in those : /\ k \in DOMAIN graph.nodes /\ k[1] = n /\ k[2] <= time
                         /\ graph.nodes[k].to = Open \/ time < graph.nodes[k].to
    OBVIOUS
  <1>3. \A k \in DOMAIN graph.nodes : k[1] = n /\ k[2] <= time /\ (graph.nodes[k].to = Open \/ time < graph.nodes[k].to)
          => k \in those
    OBVIOUS
  <1> HIDE DEF those
  <1>4. \A k \in DOMAIN graph.nodes :
          /\ k[2] \in graph.events /\ Says(log, k[2], k[1], graph.nodes[k].content)
          /\ graph.nodes[k].to \notin {Open, 0} =>
               graph.nodes[k].to \in graph.events /\ Mentioned(log, graph.nodes[k].to, k[1])
    BY <1>1 DEF Sane, Attested, Versions
  <1>5. \A i \in 1..time : log[i] \in Extracts
    BY <1>1
  <1>6. ASSUME NEW i \in 1..time, NEW k \in DOMAIN graph.nodes, k[1] = n, k[2] <= i,
               graph.nodes[k].to = Open \/ i < graph.nodes[k].to, NEW c, SaysLast(log, i, n, c)
        PROVE  c = graph.nodes[k].content
    <2>1. FoundAt(Store, k, i, Len(log))
      BY <1>1, <1>6 DEF FoundAt, IsOpen
    <2> QED
      BY <1>1, <1>6, <2>1 DEF Hist, Versions
  <1>7. ASSUME NEW i \in 1..time, Mentioned(log, i, n)
        PROVE  \E k \in DOMAIN graph.nodes :
                 k[1] = n /\ k[2] <= i /\ (graph.nodes[k].to = Open \/ i < graph.nodes[k].to)
    <2>1. \E k \in Versions(Store) : k[1] = n /\ k[2] <= i /\ (IsOpen(Store, k) \/ i < Store.graph.nodes[k].to)
      BY <1>1, <1>7 DEF Hist
    <2> QED
      BY <1>1, <2>1 DEF Versions, IsOpen
  <1>8. CASE \A i \in 1..time : ~ Mentioned(log, i, n)
    <2>1. those = {}
      <3> SUFFICES ASSUME NEW k \in those PROVE FALSE
        OBVIOUS
      <3>1. k[2] \in 1..time /\ Says(log, k[2], n, graph.nodes[k].content)
        <4>1. k \in DOMAIN graph.nodes /\ k[1] = n /\ k[2] <= time
          BY <1>2
        <4> QED
          BY <1>1, <1>4, <4>1
      <3>2. Mentioned(log, k[2], n)
        BY <1>5, <3>1, SaysFacts
      <3> QED
        BY <1>8, <3>1, <3>2
    <2>2. Told(n, time) = {}
      BY <1>1, <1>8, ToldIs
    <2> QED
      BY <2>1, <2>2 DEF those
  <1>9. CASE \E i \in 1..time : Mentioned(log, i, n)
    <2> DEFINE T == {i \in 1..time : Mentioned(log, i, n)}
    <2>1. T \in SUBSET (0..time) /\ T # {}
      BY <1>9
    <2>2. PICK j \in T : \A i \in T : i <= j
      BY <1>1, <2>1, NatMax
    <2>3. j \in 1..time /\ Mentioned(log, j, n) /\ \A i \in 1..time : Mentioned(log, i, n) => i <= j
      BY <2>2
    <2>4. PICK c : SaysLast(log, j, n, c)
      BY <1>5, <2>3, SaysFacts
    <2>5. Told(n, time) = {c}
      BY <1>1, <2>3, <2>4, ToldIs
    <2>6. ASSUME NEW k \in those
          PROVE  graph.nodes[k].content = c
      <3>1. /\ k \in DOMAIN graph.nodes /\ k[1] = n /\ k[2] <= time
            /\ graph.nodes[k].to = Open \/ time < graph.nodes[k].to
        BY <1>2
      <3>2. k[2] \in 1..time /\ Says(log, k[2], n, graph.nodes[k].content)
        BY <1>1, <1>4, <3>1
      <3>3. Mentioned(log, k[2], n)
        BY <1>5, <3>2, SaysFacts
      <3>4. k[2] <= j
        BY <2>3, <3>2, <3>3
      <3>5. graph.nodes[k].to = Open \/ j < graph.nodes[k].to
        <4>1. ASSUME graph.nodes[k].to # Open
              PROVE  j < graph.nodes[k].to
          <5>1. time < graph.nodes[k].to
            BY <3>1, <4>1
          <5>2. graph.nodes[k].to \in Nat
            <6>1. graph.nodes[k].to # 0
              BY <1>1, <5>1
            <6> QED
              BY <1>1, <1>4, <3>1, <4>1, <6>1
          <5> QED
            BY <1>1, <2>3, <5>1, <5>2
        <4> QED
          BY <4>1
      <3> QED
        BY <1>6, <2>3, <2>4, <3>1, <3>4, <3>5
    <2>7. \E k \in those : TRUE
      <3>1. PICK k \in DOMAIN graph.nodes : k[1] = n /\ k[2] <= j /\ (graph.nodes[k].to = Open \/ j < graph.nodes[k].to)
        BY <1>7, <2>3
      <3>2. k[2] <= time
        BY <1>1, <1>4, <2>3, <3>1
      <3>3. graph.nodes[k].to = Open \/ time < graph.nodes[k].to
        <4> SUFFICES ASSUME graph.nodes[k].to # Open
                     PROVE  time < graph.nodes[k].to
          OBVIOUS
        <4>1. j < graph.nodes[k].to
          BY <3>1
        <4>2. graph.nodes[k].to # 0
          BY <1>1, <2>3, <4>1
        <4>3. graph.nodes[k].to \in Nat /\ graph.nodes[k].to \in graph.events /\ Mentioned(log, graph.nodes[k].to, n)
          BY <1>1, <1>4, <3>1, <4>2
        <4>4. graph.nodes[k].to \in 1..time => graph.nodes[k].to <= j
          BY <2>3, <4>3
        <4> QED
          BY <1>1, <2>3, <4>1, <4>3, <4>4
      <3> QED
        BY <1>3, <3>1, <3>2, <3>3
    <2>8. {graph.nodes[k].content : k \in those} = {c}
      BY <2>6, <2>7
    <2> QED
      BY <2>5, <2>8 DEF those
  <1> QED
    BY <1>8, <1>9
-----------------------------------------------------------------------------
(* Integrity, as the status reports it.                                    *)

Wholly == graph.events = 1..Len(log) /\ graph.chain = 2..Len(log)

\* The counts of the status agree only if nothing is missing.
LEMMA IntegrityIs ==
  ASSUME log \in Seq(Extracts), Chained(log, Store)
  PROVE  IntegrityOk <=> Wholly
  <1>1. Len(log) \in Nat /\ DOMAIN log = 1..Len(log)
    OBVIOUS
  <1>2. PICK m \in Nat : m = Len(log)
    BY <1>1
  <1>3. /\ graph.events \subseteq 1..m /\ graph.chain \subseteq graph.events
        /\ \A x \in graph.chain : x - 1 \in graph.events
    BY <1>1, <1>2 DEF Chained, Store
  <1>4. (log # <<>>) <=> m > 0
    BY <1>1, <1>2
  <1>5. ASSUME IntegrityOk
        PROVE  Wholly
    <2>1. /\ \A i \in graph.events : i = 1 \/ i - 1 \in graph.events
          /\ m > 0 => m \in graph.events
          /\ Cardinality(graph.chain) = Cardinality(graph.events) - (IF graph.events = {} THEN 0 ELSE 1)
      BY <1>2, <1>4, <1>5 DEF IntegrityOk
    <2>2. graph.events = 1..m
      <3> DEFINE T == {x \in Nat : x < m /\ m - x \notin graph.events}
      <3>1. ASSUME T # {} PROVE FALSE
        <4>1. PICK x \in T : \A y \in T : x <= y
          BY <3>1, NatMin
        <4>2. x # 0
          BY <2>1, <4>1
        <4>3. x - 1 \in Nat /\ x - 1 \notin T
          BY <4>1, <4>2
        <4>4. m - (x - 1) \in graph.events /\ m - (x - 1) # 1 /\ (m - (x - 1)) - 1 = m - x
          BY <4>1, <4>3
        <4> QED
          BY <2>1, <4>1, <4>4
      <3>2. ASSUME NEW i \in 1..m PROVE i \in graph.events
        <4>1. m - i \in Nat /\ m - i < m /\ m - (m - i) = i
          BY <3>2
        <4>2. m - i \notin T
          BY <3>1
        <4> QED
          BY <4>1, <4>2
      <3> QED
        BY <1>3, <3>2
    <2>3. graph.chain \in SUBSET (2..m)
      BY <1>3, <2>2
    <2>4. /\ IsFiniteSet(2..m) /\ Cardinality(2..m) = IF 2 > m THEN 0 ELSE m - 2 + 1
          /\ Cardinality(1..m) = IF 1 > m THEN 0 ELSE m - 1 + 1
      BY FS_Interval
    <2>5. Cardinality(graph.chain) = Cardinality(2..m)
      <3>1. CASE m = 0
        <4>1. graph.events = {}
          BY <2>2, <3>1
        <4>2. Cardinality(graph.events) = 0
          BY <2>2, <2>4, <3>1
        <4> QED
          BY <2>1, <2>4, <3>1, <4>1, <4>2
      <3>2. CASE m # 0
        <4>1. graph.events # {}
          BY <2>2, <3>2
        <4>2. Cardinality(graph.events) = m
          BY <2>2, <2>4, <3>2
        <4>3. Cardinality(2..m) = m - 1
          BY <2>4, <3>2
        <4> QED
          BY <2>1, <4>1, <4>2, <4>3
      <3> QED
        BY <3>1, <3>2
    <2>6. graph.chain = 2..m
      BY <2>3, <2>4, <2>5, FS_Subset
    <2> QED
      BY <1>2, <2>2, <2>6 DEF Wholly
  <1>6. ASSUME Wholly
        PROVE  IntegrityOk
    <2>1. graph.events = 1..m /\ graph.chain = 2..m
      BY <1>2, <1>6 DEF Wholly
    <2>2. \A i \in graph.events : i = 1 \/ i - 1 \in graph.events
      BY <2>1
    <2>3. log # <<>> => Len(log) \in graph.events
      BY <1>2, <1>4, <2>1
    <2>4. /\ Cardinality(2..m) = IF 2 > m THEN 0 ELSE m - 2 + 1
          /\ Cardinality(1..m) = IF 1 > m THEN 0 ELSE m - 1 + 1
      BY FS_Interval
    <2>5. Cardinality(graph.chain) = Cardinality(graph.events) - (IF graph.events = {} THEN 0 ELSE 1)
      <3>1. CASE m = 0
        BY <2>1, <2>4, <3>1
      <3>2. CASE m # 0
        <4>1. graph.events # {}
          BY <2>1, <3>2
        <4> QED
          BY <2>1, <2>4, <3>2, <4>1
      <3> QED
        BY <3>1, <3>2
    <2> QED
      BY <2>2, <2>3, <2>5 DEF IntegrityOk
  <1> QED
    BY <1>5, <1>6

\* No entity has two open versions.
LEMMA OneCurrent ==
  ASSUME Sane(log, Store)
  PROVE  OneCurrentVersion
  <1> SUFFICES ASSUME NEW n \in Name PROVE Cardinality(Active(graph, n)) <= 1
    BY DEF OneCurrentVersion
  <1>1. OneEach(Store) /\ Store.graph = graph
    BY DEF Sane, Coherent, Store
  <1>2. CASE Active(graph, n) = {}
    BY <1>2, FS_EmptySet
  <1>3. CASE Active(graph, n) # {}
    <2>1. PICK v \in Active(graph, n) : TRUE
      BY <1>3
    <2>2. \A k \in Active(graph, n) : k = v
      BY <1>1 DEF Active, OneEach, Versions, IsOpen
    <2>3. Active(graph, n) = {v}
      BY <2>2
    <2>4. Cardinality({v}) = 1
      BY FS_Singleton
    <2> QED
      BY <2>3, <2>4
  <1> QED
    BY <1>2, <1>3
-----------------------------------------------------------------------------
(* Two logs that agree on the events of a graph, and two stores with the   *)
(* same graph.                                                             *)

Agree(k, l, E) == E \subseteq DOMAIN l /\ \A i \in E : k[i] = l[i]

\* What holds of a store and a log holds with a longer log.
LEMMA SaneAgrees ==
  ASSUME NEW k, NEW l, NEW s, Agree(k, l, s.graph.events), Sane(k, s)
  PROVE  Sane(l, s)
  <1>1. \A i \in s.graph.events : k[i] = l[i]
    BY DEF Agree
  <1>2. \A i \in s.graph.events : \A n, c : Says(k, i, n, c) <=> Says(l, i, n, c)
    BY <1>1 DEF Says
  <1>3. \A i \in s.graph.events : \A n : Mentioned(k, i, n) <=> Mentioned(l, i, n)
    BY <1>2 DEF Mentioned
  <1>4. Coherent(s) /\ Chained(k, s) /\ Attested(k, s) /\ RelsAttested(k, s)
    BY DEF Sane
  <1>5. Chained(l, s)
    BY <1>4 DEF Chained, Agree
  <1>6. Attested(l, s)
    BY <1>2, <1>3, <1>4 DEF Attested
  <1>7. RelsAttested(l, s)
    BY <1>1, <1>4 DEF RelsAttested
  <1> QED
    BY <1>4, <1>5, <1>6, <1>7 DEF Sane

\* Where all before an event are linked to it, all of them are there.
LEMMA SolidPrefix ==
  ASSUME NEW l, NEW s, Chained(l, s), s.graph.events \subseteq Nat, NEW i \in Solid(s)
  PROVE  i \in s.graph.events /\ i \in Nat /\ 2..i \subseteq s.graph.chain /\ 1..i \subseteq s.graph.events
  <1>1. i \in s.graph.events /\ i \in Nat /\ 2..i \subseteq s.graph.chain
    BY DEF Solid
  <1>2. ASSUME NEW x \in 1..i
        PROVE  x \in s.graph.events
    <2>1. CASE x = i
      BY <1>1, <2>1
    <2>2. CASE x # i
      <3>1. x + 1 \in 2..i /\ (x + 1) - 1 = x
        BY <1>1, <2>2
      <3> QED
        BY <1>1, <3>1 DEF Chained
    <2> QED
      BY <2>1, <2>2
  <1> QED
    BY <1>1, <1>2

LEMMA TellsAgrees ==
  ASSUME NEW k, NEW l, NEW s, Agree(k, l, s.graph.events), Chained(k, s), s.graph.events \subseteq Nat
  PROVE  /\ Lasts(k, s) => Lasts(l, s)
         /\ Related(k, s, Solid(s)) => Related(l, s, Solid(s))
         /\ \A m : Hist(k, s, m) => Hist(l, s, m)
  <1>1. \A i \in s.graph.events : k[i] = l[i]
    BY DEF Agree
  <1>2. \A i \in s.graph.events : \A n, c : SaysLast(k, i, n, c) <=> SaysLast(l, i, n, c)
    BY <1>1 DEF SaysLast
  <1>3. \A i \in s.graph.events : \A n : Mentioned(k, i, n) <=> Mentioned(l, i, n)
    BY <1>1 DEF Mentioned, Says
  <1>4. ASSUME NEW n, NeverTold(k, s, n) PROVE NeverTold(l, s, n)
    BY <1>3, <1>4 DEF NeverTold
  <1>5. ASSUME NEW n, NEW j \in s.graph.events, LastTold(k, s, n, j) PROVE LastTold(l, s, n, j)
    BY <1>2, <1>3, <1>5 DEF LastTold
  <1>6. Lasts(k, s) => Lasts(l, s)
    BY <1>4, <1>5 DEF Lasts
  <1>7. ASSUME Related(k, s, Solid(s))
        PROVE  Related(l, s, Solid(s))
    <2> SUFFICES ASSUME NEW i \in Solid(s), NEW p \in l[i].links, p[1] # p[2], Known(l, i, p)
                 PROVE  OpenRel(s, p)
      BY DEF Related
    <2>1. i \in s.graph.events /\ 1..i \subseteq s.graph.events
      BY SolidPrefix
    <2>2. Known(k, i, p) /\ p \in k[i].links
      BY <1>1, <1>3, <2>1 DEF Known
    <2> QED
      BY <1>7, <2>2 DEF Related
  <1>8. ASSUME NEW m, Hist(k, s, m) PROVE Hist(l, s, m)
    <2>1. \A v \in Versions(s), i \in s.graph.events :
            FoundAt(s, v, i, m) => \A c : SaysLast(l, i, v[1], c) => c = s.graph.nodes[v].content
      BY <1>2, <1>8 DEF Hist
    <2>2. \A i \in s.graph.events, n \in Name : Mentioned(l, i, n) =>
            \E v \in Versions(s) : v[1] = n /\ v[2] <= i /\ (IsOpen(s, v) \/ i < s.graph.nodes[v].to)
      BY <1>3, <1>8 DEF Hist
    <2> QED
      BY <2>1, <2>2 DEF Hist
  <1> QED
    BY <1>6, <1>7, <1>8

\* What holds of a store holds of one with the same graph.
LEMMA SameGraph ==
  ASSUME NEW s, NEW t, t.graph = s.graph
  PROVE  /\ \A l : Lasts(l, s) => Lasts(l, t)
         /\ \A l, X : Related(l, s, X) => Related(l, t, X)
         /\ \A l, m : Hist(l, s, m) => Hist(l, t, m)
         /\ \A l : Chained(l, s) /\ Attested(l, s) /\ RelsAttested(l, s) =>
                   Chained(l, t) /\ Attested(l, t) /\ RelsAttested(l, t)
         /\ OneEach(s) /\ RelEnds(s) => OneEach(t) /\ RelEnds(t)
         /\ Solid(t) = Solid(s)
  <1>1. Versions(t) = Versions(s) /\ \A k : IsOpen(t, k) <=> IsOpen(s, k)
    BY DEF Versions, IsOpen
  <1>2. \A n, c : Presents(s, n, c) => Presents(t, n, c)
    BY <1>1 DEF Presents
  <1>3. \A n : Absent(s, n) => Absent(t, n)
    BY <1>1 DEF Absent
  <1>4. ASSUME NEW l, Lasts(l, s) PROVE Lasts(l, t)
    <2>1. \A n : NeverTold(l, s, n) => NeverTold(l, t, n)
      BY <1>3 DEF NeverTold
    <2>2. \A n, j : LastTold(l, s, n, j) => LastTold(l, t, n, j)
      BY <1>2 DEF LastTold
    <2> QED
      BY <1>4, <2>1, <2>2 DEF Lasts
  <1>5. ASSUME NEW l, NEW X, Related(l, s, X) PROVE Related(l, t, X)
    <2>1. \A p : OpenRel(s, p) => OpenRel(t, p)
      BY <1>1 DEF OpenRel
    <2> QED
      BY <1>5, <2>1 DEF Related
  <1>6. ASSUME NEW l, NEW m, Hist(l, s, m) PROVE Hist(l, t, m)
    <2>1. \A k, i : FoundAt(t, k, i, m) <=> FoundAt(s, k, i, m)
      BY <1>1 DEF FoundAt
    <2> QED
      BY <1>1, <1>6, <2>1 DEF Hist
  <1>7. ASSUME NEW l, Chained(l, s), Attested(l, s), RelsAttested(l, s)
        PROVE  Chained(l, t) /\ Attested(l, t) /\ RelsAttested(l, t)
    BY <1>1, <1>7 DEF Chained, Attested, RelsAttested
  <1>8. OneEach(s) /\ RelEnds(s) => OneEach(t) /\ RelEnds(t)
    BY <1>1 DEF OneEach, RelEnds
  <1>9. Solid(t) = Solid(s)
    BY DEF Solid
  <1> QED
    BY <1>4, <1>5, <1>6, <1>7, <1>8, <1>9

AreCaches(c) == c \in [Name -> Ident \cup {None}]

\* The same graph, with nothing cached.
LEMMA Emptied ==
  ASSUME NEW s, NEW g, NEW c, IsStore(s), s.graph = g, AreCaches(c), NEW x
  PROVE  IsStore([graph |-> g, cache |-> c, index |-> x])
  <1>1. PICK E, C, N, R : g = [events |-> E, chain |-> C, nodes |-> N, rels |-> R] /\ AreVersions(N)
    BY DEF IsStore, AStore
  <1>2. [graph |-> g, cache |-> c, index |-> x] = AStore(E, C, N, R, c, x)
    BY <1>1 DEF AStore
  <1> QED
    BY <1>1, <1>2, StoreParts DEF AreCaches

\* A restart keeps the graph and loses the caches.
LEMMA SaneEmptied ==
  ASSUME NEW l, NEW s, Sane(l, s), NEW t, t = [graph |-> s.graph, cache |-> NoCache, index |-> None]
  PROVE  Sane(l, t) /\ Exact(t) /\ t.graph = s.graph
  <1>1. t.graph = s.graph /\ t.cache = NoCache
    OBVIOUS
  <1>2. AreCaches(NoCache) /\ \A n \in Name : NoCache[n] = None
    BY DEF NoCache, AreCaches
  <1>3. IsStore(s) /\ OneEach(s) /\ RelEnds(s) /\ Chained(l, s) /\ Attested(l, s) /\ RelsAttested(l, s)
    BY DEF Sane, Coherent
  <1>4. IsStore(t)
    BY <1>2, <1>3, Emptied
  <1>5. CacheBounds(t) /\ Exact(t)
    BY <1>1, <1>2 DEF CacheBounds, Exact
  <1>6. OneEach(t) /\ RelEnds(t) /\ Chained(l, t) /\ Attested(l, t) /\ RelsAttested(l, t)
    BY <1>1, <1>3, SameGraph
  <1> QED
    BY <1>1, <1>4, <1>5, <1>6 DEF Sane, Coherent

\* A store that is empty.
LEMMA SaneEmpty ==
  ASSUME NEW l, NEW s, s = [graph |-> EmptyGraph, cache |-> NoCache, index |-> None]
  PROVE  /\ Sane(l, s) /\ Exact(s) /\ Lasts(l, s) /\ Related(l, s, Solid(s)) /\ Hist(l, s, 0)
         /\ s.graph.events = 1..0 /\ s.graph = EmptyGraph
  <1>1. PICK N : N = <<>>
    OBVIOUS
  <1>2. DOMAIN N = {} /\ AreVersions(N)
    BY <1>1 DEF AreVersions
  <1>3. NoCache \in [Name -> Ident \cup {None}] /\ \A n \in Name : NoCache[n] = None
    BY DEF NoCache
  <1>4. s = AStore({}, {}, N, {}, NoCache, None)
    BY <1>1 DEF AStore, EmptyGraph
  <1>5. /\ s.graph.events = {} /\ s.graph.chain = {} /\ s.graph.nodes = N /\ s.graph.rels = {}
        /\ s.cache = NoCache /\ IsStore(s)
    BY <1>2, <1>3, <1>4, StoreParts
  <1>6. Versions(s) = {}
    BY <1>2, <1>5 DEF Versions
  <1>7. Coherent(s) /\ Exact(s)
    BY <1>3, <1>5, <1>6 DEF Coherent, OneEach, CacheBounds, RelEnds, Exact
  <1>8. Chained(l, s) /\ Attested(l, s) /\ RelsAttested(l, s)
    BY <1>5, <1>6 DEF Chained, Attested, RelsAttested
  <1>9. Lasts(l, s)
    BY <1>5, <1>6 DEF Lasts, NeverTold, Absent
  <1>10. Related(l, s, Solid(s)) /\ Hist(l, s, 0)
    BY <1>5, <1>6 DEF Related, Hist, Solid
  <1>11. s.graph.events = 1..0 /\ s.graph = EmptyGraph
    BY <1>5
  <1> QED
    BY <1>7, <1>8, <1>9, <1>10, <1>11 DEF Sane
-----------------------------------------------------------------------------
(* What tasks have sealed and not projected.                               *)

\* Tasks have different events to project, none of which is in the graph.
Pending(q, l, E) ==
  /\ q \in [Task -> Seq(Nat)]
  /\ \A t \in Task : \A k \in 1..Len(q[t]) : q[t][k] \in DOMAIN l /\ q[t][k] \notin E
  /\ \A t, u \in Task : \A k \in 1..Len(q[t]), j \in 1..Len(q[u]) : q[t][k] = q[u][j] => t = u /\ k = j

\* t takes the first of its events, i, and is left with the rest.
Takes(q, t, i, p) == q[t] # <<>> /\ i = Head(q[t]) /\ p = [q EXCEPT ![t] = Tail(@)]

\* What tasks have to project stays apart when one takes an event, gives up, dies or seals.
LEMMA PendingTail ==
  ASSUME NEW q, NEW l, NEW E, Pending(q, l, E), NEW t \in Task, NEW i, NEW p, Takes(q, t, i, p),
         NEW F, F \subseteq E \cup {i}
  PROVE  i \in DOMAIN l /\ i \notin E /\ Pending(p, l, F)
  <1>0. q[t] # <<>> /\ i = Head(q[t]) /\ p = [q EXCEPT ![t] = Tail(@)]
    BY DEF Takes
  <1>2. q \in [Task -> Seq(Nat)]
    BY DEF Pending
  <1>3. q[t] \in Seq(Nat) /\ Len(q[t]) \in Nat /\ Len(q[t]) > 0
    BY <1>0, <1>2
  <1>4. /\ Tail(q[t]) \in Seq(Nat) /\ Len(Tail(q[t])) = Len(q[t]) - 1
        /\ \A k \in 1..(Len(q[t]) - 1) : Tail(q[t])[k] = q[t][k + 1]
        /\ i = q[t][1]
    BY <1>0, <1>3
  <1>5. p \in [Task -> Seq(Nat)] /\ p[t] = Tail(q[t]) /\ \A u \in Task : u # t => p[u] = q[u]
    BY <1>0, <1>2, <1>4
  <1>1. \A u, v \in Task : \A k \in 1..Len(q[u]), j \in 1..Len(q[v]) : q[u][k] = q[v][j] => u = v /\ k = j
    BY DEF Pending
  \* what p has, q has, but not at the head of t's
  <1>6. ASSUME NEW u \in Task, NEW k \in 1..Len(p[u])
        PROVE  \E j \in 1..Len(q[u]) : p[u][k] = q[u][j] /\ (u = t => j = k + 1) /\ (u # t => j = k)
    <2>1. CASE u = t
      <3>1. k + 1 \in 1..Len(q[t]) /\ k \in 1..(Len(q[t]) - 1)
        <4>1. k \in 1..(Len(q[t]) - 1)
          BY <1>4, <1>5, <2>1
        <4> QED
          BY <1>3, <4>1
      <3> QED
        BY <1>4, <1>5, <2>1, <3>1
    <2>2. CASE u # t
      BY <1>5, <2>2
    <2> QED
      BY <2>1, <2>2
  <1>7. 1 \in 1..Len(q[t])
    BY <1>3
  <1>8. i \in DOMAIN l /\ i \notin E
    BY <1>4, <1>7 DEF Pending
  <1>9. ASSUME NEW u \in Task, NEW k \in 1..Len(p[u])
        PROVE  p[u][k] \in DOMAIN l /\ p[u][k] \notin F
    <2>1. PICK j \in 1..Len(q[u]) : p[u][k] = q[u][j] /\ (u = t => j = k + 1)
      BY <1>6
    <2>2. q[u][j] \in DOMAIN l /\ q[u][j] \notin E
      BY DEF Pending
    <2>3. q[u][j] # i
      <3>1. q[u][j] = q[t][1] => u = t /\ j = 1
        BY <1>7 DEF Pending
      <3>2. ~ (k + 1 = 1)
        <4>1. Len(p[u]) \in Nat
          BY <1>5
        <4> QED
          BY <4>1
      <3> QED
        BY <1>4, <2>1, <3>1, <3>2
    <2> QED
      BY <2>1, <2>2, <2>3
  <1>10. ASSUME NEW u \in Task, NEW v \in Task, NEW k \in 1..Len(p[u]), NEW j \in 1..Len(p[v]), p[u][k] = p[v][j]
         PROVE  u = v /\ k = j
    <2>1. PICK a \in 1..Len(q[u]) : p[u][k] = q[u][a] /\ (u = t => a = k + 1) /\ (u # t => a = k)
      BY <1>6
    <2>2. PICK b \in 1..Len(q[v]) : p[v][j] = q[v][b] /\ (v = t => b = j + 1) /\ (v # t => b = j)
      BY <1>6
    <2>3. u = v /\ a = b
      <3>1. q[u][a] = q[v][b]
        BY <1>10, <2>1, <2>2
      <3> QED
        BY <1>1, <3>1
    <2>4. k \in Nat /\ j \in Nat
      <3>1. Len(p[u]) \in Nat /\ Len(p[v]) \in Nat
        BY <1>5
      <3> QED
        BY <3>1
    <2> QED
      <3>1. CASE u = t
        <4>1. a = k + 1 /\ b = j + 1
          <5>1. v = t
            BY <2>3, <3>1
          <5> QED
            BY <2>1, <2>2, <3>1, <5>1
        <4>2. k + 1 = j + 1
          BY <2>3, <4>1
        <4>3. k = j
          BY <2>4, <4>2
        <4> QED
          BY <2>3, <4>3
      <3>2. CASE u # t
        <4>1. a = k /\ b = j
          <5>1. v # t
            BY <2>3, <3>2
          <5> QED
            BY <2>1, <2>2, <3>2, <5>1
        <4> QED
          BY <2>3, <4>1
      <3> QED
        BY <3>1, <3>2
  <1> QED
    BY <1>5, <1>8, <1>9, <1>10 DEF Pending

LEMMA PendingNone ==
  ASSUME NEW q, NEW l, NEW E, Pending(q, l, E), NEW t \in Task, NEW p, p = [q EXCEPT ![t] = <<>>]
  PROVE  Pending(p, l, E)
  <1>1. q \in [Task -> Seq(Nat)]
    BY DEF Pending
  <1>2. <<>> \in Seq(Nat) /\ Len(<<>>) = 0
    OBVIOUS
  <1>3. p \in [Task -> Seq(Nat)] /\ Len(p[t]) = 0 /\ \A u \in Task : u # t => p[u] = q[u]
    BY <1>1, <1>2
  <1>4. \A u \in Task : \A k \in 1..Len(p[u]) : u # t
    BY <1>3
  <1> QED
    BY <1>3, <1>4 DEF Pending

LEMMA PendingIdle ==
  ASSUME NEW l, NEW E
  PROVE  Pending(Idle, l, E)
  <1>1. <<>> \in Seq(Nat) /\ Len(<<>>) = 0
    OBVIOUS
  <1>2. Idle \in [Task -> Seq(Nat)] /\ \A t \in Task : Len(Idle[t]) = 0
    BY <1>1 DEF Idle
  <1>3. \A t \in Task : 1..Len(Idle[t]) = {}
    BY <1>2
  <1> QED
    BY <1>2, <1>3 DEF Pending

\* t, which has nothing to project, seals b events after the m that there are.
Seals(q, t, m, b, p) == q[t] = <<>> /\ p = [q EXCEPT ![t] = [k \in 1..b |-> m + k]]

LEMMA PendingSealed ==
  ASSUME NEW q, NEW l, NEW E, NEW m \in Nat, DOMAIN l = 1..m, E \subseteq DOMAIN l, Pending(q, l, E),
         NEW t \in Task, NEW b \in Nat, NEW p, Seals(q, t, m, b, p),
         NEW longer, DOMAIN longer = 1..(m + b)
  PROVE  Pending(p, longer, E)
  <1>0. PICK more : q[t] = <<>> /\ more = [k \in 1..b |-> m + k] /\ p = [q EXCEPT ![t] = more]
    BY DEF Seals
  <1>1. \A u, v \in Task : \A k \in 1..Len(q[u]), j \in 1..Len(q[v]) : q[u][k] = q[v][j] => u = v /\ k = j
    BY DEF Pending
  <1>2. q \in [Task -> Seq(Nat)]
    BY DEF Pending
  <1>3. more \in Seq(Nat) /\ Len(more) = b /\ \A k \in 1..b : more[k] = m + k
    BY <1>0
  <1>4. p \in [Task -> Seq(Nat)] /\ p[t] = more /\ \A u \in Task : u # t => p[u] = q[u]
    BY <1>0, <1>2, <1>3
  <1>5. ASSUME NEW u \in Task, NEW k \in 1..Len(p[u])
        PROVE  /\ u = t => p[u][k] = m + k /\ k \in 1..b
               /\ u # t => p[u][k] = q[u][k] /\ k \in 1..Len(q[u]) /\ p[u][k] \in 1..m /\ p[u][k] \notin E
    BY <1>3, <1>4 DEF Pending
  <1>6. ASSUME NEW u \in Task, NEW k \in 1..Len(p[u])
        PROVE  p[u][k] \in DOMAIN longer /\ p[u][k] \notin E
    <2>1. CASE u = t
      <3>1. m + k \in 1..(m + b) /\ m + k \notin 1..m
        BY <1>5, <2>1
      <3> QED
        BY <1>5, <2>1, <3>1
    <2>2. CASE u # t
      <3>1. 1..m \subseteq 1..(m + b)
        OBVIOUS
      <3> QED
        BY <1>5, <2>2, <3>1
    <2> QED
      BY <2>1, <2>2
  <1>7. ASSUME NEW u \in Task, NEW v \in Task, NEW k \in 1..Len(p[u]), NEW j \in 1..Len(p[v]), p[u][k] = p[v][j]
        PROVE  u = v /\ k = j
    <2>1. CASE u = t /\ v = t
      <3>1. m + k = m + j /\ k \in 1..b /\ j \in 1..b
        BY <1>5, <1>7, <2>1
      <3> QED
        BY <2>1, <3>1
    <2>2. CASE u # t /\ v # t
      <3>1. q[u][k] = q[v][j] /\ k \in 1..Len(q[u]) /\ j \in 1..Len(q[v])
        BY <1>5, <1>7, <2>2
      <3> QED
        BY <1>1, <3>1
    <2>3. CASE u = t /\ v # t
      <3>1. m + k \in 1..m /\ k \in 1..b
        <4>1. p[u][k] = m + k /\ k \in 1..b
          BY <1>5, <2>3
        <4>2. p[v][j] \in 1..m
          BY <1>5, <2>3
        <4> QED
          BY <1>7, <4>1, <4>2
      <3> QED
        BY <3>1
    <2>4. CASE u # t /\ v = t
      <3>1. m + j \in 1..m /\ j \in 1..b
        <4>1. p[v][j] = m + j /\ j \in 1..b
          BY <1>5, <2>4
        <4>2. p[u][k] \in 1..m
          BY <1>5, <2>4
        <4> QED
          BY <1>7, <4>1, <4>2
      <3> QED
        BY <3>1
    <2> QED
      BY <2>1, <2>2, <2>3, <2>4
  <1> QED
    BY <1>4, <1>6, <1>7 DEF Pending
-----------------------------------------------------------------------------
(* The inductive invariant.                                                *)

Counted ==
  /\ log \in Seq(Extracts) /\ Len(log) <= MaxLog
  /\ faults \in 0..MaxFaults /\ tools \in 0..MaxTools
  /\ broken \in BOOLEAN /\ scarred \in BOOLEAN
  /\ closed \in [Name -> 0..MaxLog]

PendingNow == Pending(todo, log, graph.events)

SaneNow == Sane(log, Store)

CutScars == broken => scarred

\* The present is told as far as it is in the graph, if no upsert was cut; what an
\* event links, if the graph has all events before it, so that its ends are found.
Tells(l, s) == Exact(s) /\ Lasts(l, s) /\ Related(l, s, Solid(s))
TellsNow == Untouched => Tells(log, Store)

\* The past too, if events were projected in order.
Remembers(l, s) == \E e \in Nat : s.graph.events = 1..e /\ Hist(l, s, e)
RemembersNow == Untouched /\ ~ scarred => Remembers(log, Store)

GraphInv == Counted /\ PendingNow /\ SaneNow /\ CutScars /\ TellsNow /\ RemembersNow /\ SearchesAreFresh

\* The variables that an action of the model gives a store to.
LEMMA BecomesStore ==
  ASSUME NEW s, IsStore(s), Becomes(s)
  PROVE  Store' = s /\ graph' = s.graph
  <1>1. graph' = s.graph /\ cache' = s.cache /\ index' = s.index
    BY DEF Becomes
  <1>2. Store' = [graph |-> graph', cache |-> cache', index |-> index']
    BY DEF Store
  <1>3. s = [graph |-> s.graph, cache |-> s.cache, index |-> s.index]
    BY DEF IsStore, AStore
  <1> QED
    BY <1>1, <1>2, <1>3

LEMMA StoreFacts ==
  Store.graph = graph /\ Store.cache = cache /\ Store.index = index
  BY DEF Store

LEMMA LogFacts ==
  ASSUME log \in Seq(Extracts)
  PROVE  Len(log) \in Nat /\ DOMAIN log = 1..Len(log) /\ \A i \in DOMAIN log : log[i] \in Extracts /\ i \in Nat
  <1>1. Len(log) \in Nat /\ DOMAIN log = 1..Len(log)
    OBVIOUS
  <1> QED
    BY <1>1

\* An event is projected.
LEMMA ProjectKeeps ==
  ASSUME GraphInv, NEW t \in Task, Project(t)
  PROVE  GraphInv'
  <1> DEFINE i == Head(todo[t])
  <1>1. /\ todo[t] # <<>> /\ Becomes(Upsert(Store, i)) /\ todo' = [todo EXCEPT ![t] = Tail(@)] /\ Scars(i)
        /\ log' = log /\ faults' = faults /\ tools' = tools /\ broken' = broken /\ closed' = closed
    BY DEF Project
  <1>2. PICK s : s = Upsert(Store, i)
    OBVIOUS
  <1>3. Pending(todo, log, graph.events) /\ log \in Seq(Extracts) /\ Sane(log, Store) /\ Coherent(Store)
    BY DEF GraphInv, PendingNow, Counted, SaneNow, Sane
  <1>4. i \in DOMAIN log /\ i \notin graph.events
    <2>1. PICK E : E = graph.events
      OBVIOUS
    <2>2. Takes(todo, t, i, todo') /\ Pending(todo, log, E) /\ E \subseteq E \cup {i}
      BY <1>1, <1>3, <2>1 DEF Takes
    <2>3. i \in DOMAIN log /\ i \notin E
      BY <2>2, PendingTail
    <2> QED
      BY <2>1, <2>3
  <1>5. log[i] \in Extracts /\ i \in Nat
    BY <1>3, <1>4, LogFacts
  <1> HIDE DEF i
  <1>6. Upserted(Store, i, s)
    BY <1>2, <1>3, <1>5, UpsertIs
  <1>7. Sane(log, s) /\ IsStore(s)
    BY <1>3, <1>4, <1>6, UpsertedSane DEF Upserted, Coherent
  <1>8. Store' = s /\ graph' = s.graph
    BY <1>1, <1>2, <1>7, BecomesStore
  <1>9. s.graph.events = graph.events \cup {i}
    BY <1>6, StoreFacts DEF Upserted
  <1>10. PendingNow'
    <2>1. graph'.events \subseteq graph.events \cup {i}
      BY <1>8, <1>9
    <2>2. PICK E, F : E = graph.events /\ F = graph'.events
      OBVIOUS
    <2>3. Takes(todo, t, i, todo') /\ Pending(todo, log, E) /\ F \subseteq E \cup {i}
      BY <1>1, <1>3, <2>1, <2>2 DEF Takes, i
    <2>4. Pending(todo', log, F)
      BY <2>3, PendingTail
    <2> QED
      BY <1>1, <2>2, <2>4 DEF PendingNow
  <1>11. SaneNow'
    BY <1>1, <1>7, <1>8 DEF SaneNow
  <1>12. Counted' /\ CutScars'
    BY <1>1 DEF GraphInv, Counted, CutScars, Scars
  <1>13. ASSUME Untouched'
         PROVE  Untouched
    BY <1>1, <1>13 DEF Untouched
  <1>19. Store.graph.events \subseteq Nat /\ s.graph.events \subseteq Nat
    BY <1>3, <1>5, <1>9, LogFacts, StoreFacts DEF Sane, Chained
  \* no event is linked to i yet
  <1>20. Solid(s) \subseteq Solid(Store) \cup {i}
    <2> SUFFICES ASSUME NEW j \in Solid(s), j # i
                 PROVE  j \in Solid(Store)
      OBVIOUS
    <2>1. j \in Store.graph.events /\ j \in Nat /\ 2..j \subseteq s.graph.chain
      BY <1>9, <1>19, StoreFacts DEF Solid
    <2>2. s.graph.chain \subseteq Store.graph.chain \cup {i}
      BY <1>6 DEF Upserted, ChainWith
    <2>3. i + 1 \notin s.graph.chain
      <3>1. (i + 1) - 1 = i /\ i + 1 # i
        BY <1>5
      <3> QED
        BY <1>3, <1>4, <2>2, <3>1, StoreFacts DEF Sane, Chained
    <2>4. i \notin 2..j
      <3>1. i \in 2..j => i + 1 \in 2..j
        BY <1>5, <2>1
      <3> QED
        BY <2>1, <2>3, <3>1
    <2> QED
      BY <2>1, <2>2, <2>4 DEF Solid
  <1>14. ASSUME Untouched
         PROVE  Tells(log, s)
    <2>1. Exact(Store) /\ Lasts(log, Store) /\ Related(log, Store, Solid(Store))
      BY <1>14 DEF GraphInv, TellsNow, Tells
    <2>2. Exact(s)
      BY <1>6, <2>1 DEF Upserted
    <2>3. Lasts(log, s)
      BY <1>3, <1>4, <1>6, <2>1, LastsStep, StoreFacts
    <2>4. CASE i \in Solid(s)
      <3>1. ASSUME NEW n \in Name, NEW x \in 1..i, Mentioned(log, x, n)
            PROVE  ~ Absent(s, n)
        <4>1. CASE x = i
          BY <1>3, <1>5, <1>6, <2>1, <3>1, <4>1, Finds
        <4>2. CASE x # i
          <5>1. x \in Store.graph.events
            BY <1>7, <1>9, <1>19, <2>4, <4>2, SolidPrefix, StoreFacts DEF Sane
          <5>2. \E c \in Content : Presents(Store, n, c)
            BY <2>1, <3>1, <5>1 DEF Lasts, NeverTold, LastTold
          <5> QED
            BY <1>3, <1>5, <1>6, <2>1, <5>2, Finds DEF Presents, Absent
        <4> QED
          BY <4>1, <4>2
      <3>2. \A p \in log[i].links : p[1] \in Name /\ p[2] \in Name
        BY <1>5, ExtractsAssumption
      <3>3. \A p \in log[i].links : Known(log, i, p) => ~ Absent(s, p[1]) /\ ~ Absent(s, p[2])
        BY <3>1, <3>2 DEF Known
      <3>4. Related(log, s, Solid(Store) \cup {i})
        BY <1>6, <2>1, <3>3, RelatedStep
      <3>5. Related(log, s, Solid(s))
        BY <1>20, <3>4 DEF Related
      <3> QED
        BY <2>2, <2>3, <3>5 DEF Tells
    <2>5. CASE i \notin Solid(s)
      <3>1. Related(log, s, Solid(Store))
        BY <1>6, <2>1 DEF Related, Upserted
      <3>2. Related(log, s, Solid(s))
        BY <1>20, <2>5, <3>1 DEF Related
      <3> QED
        BY <2>2, <2>3, <3>2 DEF Tells
    <2> QED
      BY <2>4, <2>5
  <1>15. TellsNow'
    BY <1>1, <1>8, <1>13, <1>14 DEF TellsNow
  <1>16. ASSUME Untouched, ~ scarred'
         PROVE  Remembers(log, s)
    <2>1. ~ scarred /\ (i > 1 => i - 1 \in graph.events)
      BY <1>1, <1>16 DEF Scars
    <2>2. PICK e \in Nat : graph.events = 1..e /\ Hist(log, Store, e)
      BY <1>16, <2>1, StoreFacts DEF GraphInv, RemembersNow, Remembers
    <2>3. i = e + 1
      <3>1. DOMAIN log = 1..Len(log) /\ Len(log) \in Nat
        BY <1>3, LogFacts
      <3> QED
        BY <1>4, <1>5, <2>1, <2>2, <3>1
    <2>4. \A x \in graph.events : x < i
      BY <2>2, <2>3
    <2>5. Exact(Store)
      BY <1>16 DEF GraphInv, TellsNow, Tells
    <2>6. Hist(log, s, i)
      BY <1>3, <1>4, <1>6, <2>2, <2>3, <2>4, <2>5, HistStep, StoreFacts
    <2>7. s.graph.events = 1..i
      BY <1>9, <2>2, <2>3
    <2> QED
      BY <1>5, <2>6, <2>7 DEF Remembers
  <1>17. RemembersNow'
    BY <1>1, <1>8, <1>13, <1>16 DEF RemembersNow
  <1>18. SearchesAreFresh'
    <2> SUFFICES ASSUME index' # None, ~ broken'
                 PROVE  index' = Indexed'
      BY DEF SearchesAreFresh
    <2>1. index' = s.index
      BY <1>1, <1>2 DEF Becomes
    <2>2. s.index = index /\ SameContents(Store, s)
      BY <1>6, <2>1, StoreFacts DEF Upserted
    <2>3. graph'.nodes = graph.nodes /\ graph'.rels = graph.rels
      BY <1>8, <2>2, StoreFacts DEF SameContents
    <2>4. Indexed' = Indexed
      BY <2>3 DEF Indexed
    <2> QED
      BY <1>1, <2>1, <2>2, <2>4 DEF GraphInv, SearchesAreFresh
  <1> QED
    BY <1>10, <1>11, <1>12, <1>15, <1>17, <1>18 DEF GraphInv

\* The same store with other contents of the read caches.
LEMMA SaneReindexed ==
  ASSUME NEW l, NEW s, Sane(l, s), NEW t, NEW x, t = [graph |-> s.graph, cache |-> s.cache, index |-> x]
  PROVE  Sane(l, t) /\ (Exact(s) => Exact(t)) /\ t.graph = s.graph
  <1>1. t.graph = s.graph /\ t.cache = s.cache
    OBVIOUS
  <1>2. /\ IsStore(s) /\ OneEach(s) /\ CacheBounds(s) /\ RelEnds(s)
        /\ Chained(l, s) /\ Attested(l, s) /\ RelsAttested(l, s)
    BY DEF Sane, Coherent
  <1>3. IsStore(t)
    <2>1. PICK g, c : g = s.graph /\ c = s.cache /\ AreCaches(c)
      BY <1>2 DEF IsStore, AreCaches
    <2> QED
      BY <1>2, <2>1, Emptied
  <1>4. CacheBounds(t) /\ (Exact(s) => Exact(t))
    BY <1>1, <1>2 DEF CacheBounds, Exact, Versions, IsOpen
  <1>5. OneEach(t) /\ RelEnds(t) /\ Chained(l, t) /\ Attested(l, t) /\ RelsAttested(l, t)
    BY <1>1, <1>2, SameGraph
  <1> QED
    BY <1>1, <1>3, <1>4, <1>5 DEF Sane, Coherent

\* What is told does not depend on what is cached.
LEMMA TellsSameGraph ==
  ASSUME NEW l, NEW s, NEW t, t.graph = s.graph, Exact(t)
  PROVE  /\ Tells(l, s) => Tells(l, t)
         /\ Remembers(l, s) => Remembers(l, t)
  <1>1. Tells(l, s) => Tells(l, t)
    BY SameGraph DEF Tells
  <1>2. ASSUME NEW e \in Nat, s.graph.events = 1..e, Hist(l, s, e)
        PROVE  t.graph.events = 1..e /\ Hist(l, t, e)
    BY <1>2, SameGraph
  <1> QED
    BY <1>1, <1>2 DEF Remembers

\* A log that b events have been added to.
Longer(s, m, b, l) == \E more \in Seq(Extracts) : Len(s) = m /\ Len(more) = b /\ l = s \o more

\* Its length, and what it had.
LEMMA Lengthened ==
  ASSUME NEW s \in Seq(Extracts), NEW m \in Nat, NEW b \in Nat, NEW l, Longer(s, m, b, l)
  PROVE  /\ l \in Seq(Extracts) /\ Len(l) = m + b /\ DOMAIN l = 1..(m + b)
         /\ \A i \in 1..m : l[i] = s[i]
  <1>1. PICK more \in Seq(Extracts) : Len(s) = m /\ Len(more) = b /\ l = s \o more
    BY DEF Longer
  <1>2. l \in Seq(Extracts)
    BY <1>1
  <1>3. Len(l) = m + b
    <2>1. Len(s \o more) = Len(s) + Len(more)
      BY ConcatProperties
    <2> QED
      BY <1>1, <2>1
  <1>4. ASSUME NEW i \in 1..m
        PROVE  l[i] = s[i]
    <2>1. i \in 1..(Len(s) + Len(more)) /\ i <= Len(s)
      BY <1>1
    <2>2. (s \o more)[i] = s[i]
      BY <1>1, <2>1, ConcatProperties
    <2> QED
      BY <1>1, <2>2
  <1> QED
    BY <1>2, <1>3, <1>4

\* Nothing that is projected or cached changes.
LEMMA SealKeeps ==
  ASSUME GraphInv, NEW t \in Task, NEW batch \in Batches, Seal(t, batch)
  PROVE  GraphInv'
  <1>1. /\ todo[t] = <<>> /\ Len(log) + Len(batch) <= MaxLog /\ log' = log \o batch
        /\ todo' = [todo EXCEPT ![t] = [k \in DOMAIN batch |-> Len(log) + k]]
        /\ graph' = graph /\ index' = index /\ cache' = cache /\ faults' = faults /\ tools' = tools
        /\ broken' = broken /\ scarred' = scarred /\ closed' = closed
    BY DEF Seal
  <1>2. log \in Seq(Extracts) /\ Pending(todo, log, graph.events) /\ Sane(log, Store)
    BY DEF GraphInv, Counted, PendingNow, SaneNow
  <1>3. PICK b \in Nat : batch \in [1..b -> Extracts]
    <2>1. PICK b \in 1..MaxBatch : batch \in [1..b -> Extracts]
      BY DEF Batches
    <2>2. MaxBatch \in Nat
      BY BoundsAssumption
    <2> QED
      BY <2>1, <2>2
  <1>4. batch \in Seq(Extracts) /\ Len(batch) = b /\ DOMAIN batch = 1..b
    BY <1>3
  <1>5. PICK m \in Nat : m = Len(log) /\ DOMAIN log = 1..m
    BY <1>2
  <1>6. /\ log' \in Seq(Extracts) /\ Len(log') = m + b /\ DOMAIN log' = 1..(m + b)
        /\ \A i \in 1..m : log'[i] = log[i]
    <2>1. Longer(log, m, b, log')
      BY <1>1, <1>4, <1>5 DEF Longer
    <2> QED
      BY <1>2, <2>1, Lengthened
  <1>7. graph.events \subseteq 1..m
    BY <1>2, <1>5, StoreFacts DEF Sane, Chained
  <1>8. PICK l, E : l = log' /\ E = graph.events
    OBVIOUS
  <1>9. Agree(log, l, E)
    <2>1. 1..m \subseteq 1..(m + b)
      OBVIOUS
    <2> QED
      BY <1>6, <1>7, <1>8, <2>1 DEF Agree
  <1>10. Store' = Store
    BY <1>1 DEF Store
  <1>11. PendingNow'
    <2>1. PICK more : more = [k \in 1..b |-> m + k]
      OBVIOUS
    <2>2. todo' = [todo EXCEPT ![t] = more]
      BY <1>1, <1>4, <1>5, <2>1
    <2>3. Pending(todo, log, E) /\ E \subseteq DOMAIN log /\ DOMAIN l = 1..(m + b)
      BY <1>2, <1>5, <1>6, <1>7, <1>8
    <2>4. Seals(todo, t, m, b, todo')
      BY <1>1, <2>1, <2>2 DEF Seals
    <2>5. Pending(todo', l, E)
      BY <1>5, <2>3, <2>4, PendingSealed
    <2> QED
      BY <1>1, <1>8, <2>5 DEF PendingNow
  <1>12. SaneNow'
    <2>1. Sane(l, Store)
      BY <1>2, <1>8, <1>9, SaneAgrees, StoreFacts
    <2> QED
      BY <1>8, <1>10, <2>1 DEF SaneNow
  <1>13. Counted' /\ CutScars'
    <2>1. Len(log') <= MaxLog
      BY <1>1, <1>4, <1>5, <1>6
    <2> QED
      BY <1>1, <1>6, <2>1 DEF GraphInv, Counted, CutScars
  <1>14. Untouched' <=> Untouched
    BY <1>1 DEF Untouched
  <1>18. Chained(log, Store) /\ Store.graph.events \subseteq Nat
    <2>1. 1..m \subseteq Nat
      OBVIOUS
    <2> QED
      BY <1>2, <1>7, <2>1, StoreFacts DEF Sane
  <1>15. TellsNow'
    <2>1. Tells(log, Store) => Tells(l, Store)
      BY <1>8, <1>9, <1>18, TellsAgrees, StoreFacts DEF Tells
    <2> QED
      BY <1>8, <1>10, <1>14, <2>1 DEF GraphInv, TellsNow
  <1>16. RemembersNow'
    <2>1. \A e : Hist(log, Store, e) => Hist(l, Store, e)
      BY <1>8, <1>9, <1>18, TellsAgrees, StoreFacts
    <2>2. Remembers(log, Store) => Remembers(l, Store)
      BY <2>1 DEF Remembers
    <2> QED
      BY <1>1, <1>8, <1>10, <1>14, <2>2 DEF GraphInv, RemembersNow
  <1>17. SearchesAreFresh'
    BY <1>1 DEF GraphInv, SearchesAreFresh, Indexed
  <1> QED
    BY <1>11, <1>12, <1>13, <1>15, <1>16, <1>17 DEF GraphInv

\* The rest of a batch is given up.
LEMMA RaiseKeeps ==
  ASSUME GraphInv, NEW t \in Task, Raise(t)
  PROVE  GraphInv'
  <1>1. /\ todo' = [todo EXCEPT ![t] = <<>>]
        /\ log' = log /\ graph' = graph /\ index' = index /\ cache' = cache /\ faults' = faults /\ tools' = tools
        /\ broken' = broken /\ scarred' = scarred /\ closed' = closed
    BY DEF Raise
  <1>2. PICK E : E = graph.events
    OBVIOUS
  <1>3. Pending(todo', log, E)
    <2>1. Pending(todo, log, E)
      BY <1>2 DEF GraphInv, PendingNow
    <2> QED
      BY <1>1, <2>1, PendingNone
  <1>4. PendingNow'
    BY <1>1, <1>2, <1>3 DEF PendingNow
  <1>5. Store' = Store /\ (Untouched' <=> Untouched)
    BY <1>1 DEF Store, Untouched
  <1>6. SaneNow' /\ Counted' /\ CutScars' /\ SearchesAreFresh'
    BY <1>1, <1>5 DEF GraphInv, SaneNow, Counted, CutScars, SearchesAreFresh, Indexed
  <1>7. TellsNow' /\ RemembersNow'
    BY <1>1, <1>5 DEF GraphInv, TellsNow, RemembersNow
  <1> QED
    BY <1>4, <1>6, <1>7 DEF GraphInv

\* An upsert that is cut leaves a graph that is sane, and is remembered.
LEMMA DegradeKeeps ==
  ASSUME GraphInv, NEW t \in Task, Degrade(t)
  PROVE  GraphInv'
  <1>1. PICK i : i = Head(todo[t])
    OBVIOUS
  <1>2. /\ Fault /\ todo[t] # <<>> /\ \E s \in PartlyUpserted(Store, i) : Becomes(s)
        /\ todo' = [todo EXCEPT ![t] = Tail(@)] /\ broken' = TRUE /\ scarred' = TRUE
        /\ log' = log /\ tools' = tools /\ closed' = closed
    BY <1>1 DEF Degrade
  <1>3. PICK s \in PartlyUpserted(Store, i) : Becomes(s)
    BY <1>2
  <1>4. PICK E, F : E = graph.events /\ F = s.graph.events
    OBVIOUS
  <1>5. Pending(todo, log, E) /\ Takes(todo, t, i, todo') /\ log \in Seq(Extracts) /\ Sane(log, Store)
    BY <1>1, <1>2, <1>4 DEF GraphInv, PendingNow, Takes, Counted, SaneNow
  <1>6. i \in DOMAIN log
    <2>1. E \subseteq E \cup {i}
      OBVIOUS
    <2> QED
      BY <1>5, <2>1, PendingTail
  <1>7. Sane(log, s) /\ F \subseteq E \cup {i}
    BY <1>4, <1>5, <1>6, PartlyUpsertedSane, StoreFacts
  <1>8. Store' = s /\ graph' = s.graph
    <2>1. IsStore(s)
      BY <1>7 DEF Sane, Coherent
    <2> QED
      BY <1>3, <2>1, BecomesStore
  <1>9. Pending(todo', log, F)
    BY <1>5, <1>7, PendingTail
  <1>10. PendingNow' /\ SaneNow'
    BY <1>2, <1>4, <1>7, <1>8, <1>9 DEF PendingNow, SaneNow
  <1>11. Counted'
    <2>1. faults \in 0..MaxFaults /\ MaxFaults \in Nat
      BY BoundsAssumption DEF GraphInv, Counted
    <2>2. faults' \in 0..MaxFaults
      BY <1>2, <2>1 DEF Fault
    <2> QED
      BY <1>2, <2>2 DEF GraphInv, Counted
  <1>12. ~ Untouched' /\ CutScars' /\ SearchesAreFresh'
    BY <1>2 DEF Untouched, CutScars, SearchesAreFresh
  <1> QED
    BY <1>10, <1>11, <1>12 DEF GraphInv, TellsNow, RemembersNow

\* A crash loses what was cached and not projected, and may cut an upsert.
LEMMA CrashKeeps ==
  ASSUME GraphInv, Crash
  PROVE  GraphInv'
  <1>1. /\ Fault /\ cache' = NoCache /\ index' = None /\ todo' = Idle
        /\ log' = log /\ tools' = tools /\ closed' = closed
    BY DEF Crash
  <1>2. log \in Seq(Extracts) /\ Sane(log, Store)
    BY DEF GraphInv, Counted, SaneNow
  <1>3. PendingNow'
    BY <1>1, PendingIdle DEF PendingNow
  <1>4. faults' \in 0..MaxFaults
    <2>1. faults \in 0..MaxFaults /\ MaxFaults \in Nat
      BY BoundsAssumption DEF GraphInv, Counted
    <2> QED
      BY <1>1, <2>1 DEF Fault
  <1>5. SearchesAreFresh'
    BY <1>1 DEF SearchesAreFresh
  <1>6. Store' = [graph |-> graph', cache |-> NoCache, index |-> None]
    BY <1>1 DEF Store
  <1>7. CASE graph' = graph /\ UNCHANGED <<broken, scarred>>
    <2>1. PICK u : u = [graph |-> Store.graph, cache |-> NoCache, index |-> None]
      OBVIOUS
    <2>2. Store' = u
      BY <1>6, <1>7, <2>1, StoreFacts
    <2>3. Sane(log, u) /\ Exact(u) /\ u.graph = Store.graph
      BY <1>2, <2>1, SaneEmptied
    <2>4. Untouched' <=> Untouched
      BY <1>1, <1>7 DEF Untouched
    <2>5. (Tells(log, Store) => Tells(log, u)) /\ (Remembers(log, Store) => Remembers(log, u))
      BY <2>3, TellsSameGraph
    <2>6. SaneNow' /\ TellsNow' /\ RemembersNow'
      BY <1>1, <1>7, <2>2, <2>3, <2>4, <2>5 DEF GraphInv, SaneNow, TellsNow, RemembersNow
    <2>7. Counted' /\ CutScars'
      BY <1>1, <1>4, <1>7 DEF GraphInv, Counted, CutScars
    <2> QED
      BY <1>3, <1>5, <2>6, <2>7 DEF GraphInv
  <1>8. CASE \E t \in Task :
               /\ todo[t] # <<>>
               /\ log[Head(todo[t])].sound
               /\ \E s \in PartlyUpserted(Store, Head(todo[t])) : graph' = s.graph
               /\ broken' = TRUE
               /\ scarred' = TRUE
    <2>1. PICK t \in Task : /\ todo[t] # <<>> /\ broken' = TRUE /\ scarred' = TRUE
                            /\ \E s \in PartlyUpserted(Store, Head(todo[t])) : graph' = s.graph
      BY <1>8
    <2>2. PICK i, p, E : i = Head(todo[t]) /\ p = [todo EXCEPT ![t] = Tail(@)] /\ E = graph.events
      OBVIOUS
    <2>3. PICK s \in PartlyUpserted(Store, i) : graph' = s.graph
      BY <2>1, <2>2
    <2>4. i \in DOMAIN log
      <3>1. Takes(todo, t, i, p) /\ Pending(todo, log, E) /\ E \subseteq E \cup {i}
        BY <2>1, <2>2 DEF GraphInv, PendingNow, Takes
      <3> QED
        BY <3>1, PendingTail
    <2>5. Sane(log, s)
      BY <1>2, <2>4, PartlyUpsertedSane
    <2>6. PICK u : u = [graph |-> s.graph, cache |-> NoCache, index |-> None]
      OBVIOUS
    <2>7. Store' = u /\ Sane(log, u)
      BY <1>6, <2>3, <2>5, <2>6, SaneEmptied
    <2>8. SaneNow' /\ CutScars' /\ ~ Untouched'
      BY <1>1, <2>1, <2>7 DEF SaneNow, CutScars, Untouched
    <2>9. Counted'
      BY <1>1, <1>4, <2>1 DEF GraphInv, Counted
    <2> QED
      BY <1>3, <1>5, <2>8, <2>9 DEF GraphInv, TellsNow, RemembersNow
  <1> QED
    BY <1>7, <1>8 DEF Crash

\* A store that is lost is as good as new.
LEMMA QuarantineKeeps ==
  ASSUME GraphInv, Quarantine
  PROVE  GraphInv'
  <1>1. /\ Fault /\ todo = Idle /\ graph' = EmptyGraph /\ cache' = NoCache /\ index' = None
        /\ broken' = FALSE /\ scarred' = FALSE /\ log' = log /\ todo' = todo /\ tools' = tools /\ closed' = closed
    BY DEF Quarantine
  <1>2. PICK u : u = [graph |-> EmptyGraph, cache |-> NoCache, index |-> None]
    OBVIOUS
  <1>3. Store' = u
    BY <1>1, <1>2 DEF Store
  <1>4. /\ Sane(log, u) /\ Exact(u) /\ Lasts(log, u) /\ Related(log, u, Solid(u)) /\ Hist(log, u, 0)
        /\ u.graph.events = 1..0
    BY <1>2, SaneEmpty
  <1>5. Tells(log, u) /\ Remembers(log, u)
    BY <1>4 DEF Tells, Remembers
  <1>6. SaneNow' /\ TellsNow' /\ RemembersNow'
    BY <1>1, <1>3, <1>4, <1>5 DEF SaneNow, TellsNow, RemembersNow
  <1>7. PendingNow' /\ CutScars' /\ SearchesAreFresh'
    BY <1>1, PendingIdle DEF PendingNow, CutScars, SearchesAreFresh
  <1>8. Counted'
    <2>1. faults \in 0..MaxFaults /\ MaxFaults \in Nat
      BY BoundsAssumption DEF GraphInv, Counted
    <2>2. faults' \in 0..MaxFaults
      BY <1>1, <2>1 DEF Fault
    <2> QED
      BY <1>1, <2>2 DEF GraphInv, Counted
  <1> QED
    BY <1>6, <1>7, <1>8 DEF GraphInv

\* A search fills the read caches from what is open.
LEMMA SearchKeeps ==
  ASSUME GraphInv, Search
  PROVE  GraphInv'
  <1>1. /\ index' = Indexed /\ log' = log /\ graph' = graph /\ cache' = cache /\ todo' = todo
        /\ faults' = faults /\ tools' = tools /\ broken' = broken /\ scarred' = scarred /\ closed' = closed
    BY DEF Search
  <1>2. PICK u : u = [graph |-> Store.graph, cache |-> Store.cache, index |-> Indexed]
    OBVIOUS
  <1>3. Store' = u
    BY <1>1, <1>2, StoreFacts DEF Store
  <1>4. Sane(log, u) /\ (Exact(Store) => Exact(u)) /\ u.graph = Store.graph
    <2>1. Sane(log, Store)
      BY DEF GraphInv, SaneNow
    <2> QED
      BY <1>2, <2>1, SaneReindexed
  <1>5. Untouched' <=> Untouched
    BY <1>1 DEF Untouched
  <1>6. ASSUME Untouched
        PROVE  Tells(log, u) /\ (Remembers(log, Store) => Remembers(log, u))
    <2>1. Tells(log, Store) /\ Exact(Store)
      BY <1>6 DEF GraphInv, TellsNow, Tells
    <2> QED
      BY <1>4, <2>1, TellsSameGraph
  <1>7. SaneNow' /\ TellsNow' /\ RemembersNow'
    BY <1>1, <1>3, <1>4, <1>5, <1>6 DEF GraphInv, SaneNow, TellsNow, RemembersNow
  <1>8. PendingNow' /\ CutScars' /\ Counted'
    BY <1>1 DEF GraphInv, PendingNow, CutScars, Counted
  <1>9. SearchesAreFresh'
    BY <1>1 DEF SearchesAreFresh, Indexed
  <1> QED
    BY <1>7, <1>8, <1>9 DEF GraphInv

\* The open versions of n are closed, and n is cached no more.
Revokes(s, n, t) ==
  /\ t.graph.events = s.graph.events /\ t.graph.chain = s.graph.chain /\ t.graph.rels = s.graph.rels
  /\ t.graph.nodes = [k \in DOMAIN s.graph.nodes |->
                        IF k \in Active(s.graph, n) THEN [s.graph.nodes[k] EXCEPT !.to = 0] ELSE s.graph.nodes[k]]
  /\ t.cache = [s.cache EXCEPT ![n] = None]

\* What is left of the versions, and of the cache.
LEMMA RevokedVersions ==
  ASSUME NEW s, IsStore(s), NEW n \in Name, NEW t, Revokes(s, n, t)
  PROVE  /\ Versions(t) = Versions(s) /\ AreVersions(t.graph.nodes) /\ t.cache \in [Name -> Ident \cup {None}]
         /\ \A k \in Versions(s) : /\ t.graph.nodes[k].content = s.graph.nodes[k].content
                                   /\ t.graph.nodes[k].to \in {0, s.graph.nodes[k].to}
                                   /\ IsOpen(t, k) => IsOpen(s, k) /\ k[1] # n
         /\ t.cache[n] = None /\ \A m \in Name : m # n => t.cache[m] = s.cache[m]
  <1>1. Open # 0
    BY MarksAssumption
  <1>2. /\ t.graph.nodes = [k \in Versions(s) |->
             IF k \in Active(s.graph, n) THEN [s.graph.nodes[k] EXCEPT !.to = 0] ELSE s.graph.nodes[k]]
        /\ t.cache = [s.cache EXCEPT ![n] = None]
    BY DEF Revokes, Versions
  <1>3. /\ Versions(s) \subseteq Ident
        /\ \A k \in Versions(s) : s.graph.nodes[k] \in VersionRecord
        /\ s.cache \in [Name -> Ident \cup {None}]
    BY DEF IsStore, AreVersions, Versions
  <1>4. \A k \in Versions(s) : k \in Active(s.graph, n) <=> k[1] = n /\ IsOpen(s, k)
    BY DEF Active, Versions, IsOpen
  <1>5. ASSUME NEW v \in VersionRecord, NEW w, w = [v EXCEPT !.to = 0]
        PROVE  w \in VersionRecord /\ w.content = v.content /\ w.to = 0
    BY <1>5 DEF VersionRecord
  <1>6. Versions(t) = Versions(s)
    BY <1>2 DEF Versions
  <1>7. ASSUME NEW k \in Versions(s)
        PROVE  /\ t.graph.nodes[k] \in VersionRecord
               /\ t.graph.nodes[k].content = s.graph.nodes[k].content
               /\ t.graph.nodes[k].to \in {0, s.graph.nodes[k].to}
               /\ IsOpen(t, k) => IsOpen(s, k) /\ k[1] # n
    <2>1. CASE k \in Active(s.graph, n)
      <3>1. t.graph.nodes[k] = [s.graph.nodes[k] EXCEPT !.to = 0]
        BY <1>2, <2>1
      <3>2. /\ t.graph.nodes[k] \in VersionRecord /\ t.graph.nodes[k].content = s.graph.nodes[k].content
            /\ t.graph.nodes[k].to = 0
        BY <1>3, <1>5, <3>1, Zenon
      <3> QED
        BY <1>1, <3>2 DEF IsOpen
    <2>2. CASE k \notin Active(s.graph, n)
      <3>1. t.graph.nodes[k] = s.graph.nodes[k]
        BY <1>2, <2>2
      <3> QED
        BY <1>3, <1>4, <2>2, <3>1 DEF IsOpen
    <2> QED
      BY <2>1, <2>2
  <1>8. AreVersions(t.graph.nodes)
    <2>1. DOMAIN t.graph.nodes = Versions(s)
      BY <1>2
    <2>2. t.graph.nodes = [k \in Versions(s) |-> t.graph.nodes[k]]
      BY <1>2
    <2>3. t.graph.nodes \in [Versions(s) -> VersionRecord]
      BY <1>7, <2>2
    <2> QED
      BY <1>3, <2>1, <2>3 DEF AreVersions
  <1>9. /\ t.cache \in [Name -> Ident \cup {None}]
        /\ t.cache[n] = None /\ \A m \in Name : m # n => t.cache[m] = s.cache[m]
    BY <1>2, <1>3
  <1> QED
    BY <1>6, <1>7, <1>8, <1>9

\* The store stays sane: a version may be closed by hand.
LEMMA RevokedSane ==
  ASSUME NEW l, NEW s, Sane(l, s), NEW n \in Name, NEW t, Revokes(s, n, t), IsStore(t)
  PROVE  Sane(l, t)
  <1>1. /\ IsStore(s) /\ OneEach(s) /\ CacheBounds(s) /\ RelEnds(s)
        /\ Chained(l, s) /\ Attested(l, s) /\ RelsAttested(l, s)
    BY DEF Sane, Coherent
  <1>2. /\ Versions(t) = Versions(s)
        /\ \A k \in Versions(s) : /\ t.graph.nodes[k].content = s.graph.nodes[k].content
                                  /\ t.graph.nodes[k].to \in {0, s.graph.nodes[k].to}
                                  /\ IsOpen(t, k) => IsOpen(s, k) /\ k[1] # n
        /\ t.cache[n] = None /\ \A m \in Name : m # n => t.cache[m] = s.cache[m]
    BY <1>1, RevokedVersions
  <1>3. t.graph.events = s.graph.events /\ t.graph.chain = s.graph.chain /\ t.graph.rels = s.graph.rels
    BY DEF Revokes
  <1>4. OneEach(t) /\ RelEnds(t)
    BY <1>1, <1>2, <1>3 DEF OneEach, RelEnds
  <1>5. CacheBounds(t)
    BY <1>1, <1>2 DEF CacheBounds
  <1>6. Chained(l, t) /\ RelsAttested(l, t)
    BY <1>1, <1>3 DEF Chained, RelsAttested
  <1>7. Attested(l, t)
    <2> SUFFICES ASSUME NEW k \in Versions(s)
                 PROVE  /\ k[2] \in s.graph.events /\ Says(l, k[2], k[1], t.graph.nodes[k].content)
                        /\ t.graph.nodes[k].to \notin {Open, 0} =>
                             t.graph.nodes[k].to \in s.graph.events /\ Mentioned(l, t.graph.nodes[k].to, k[1])
      BY <1>2, <1>3 DEF Attested
    <2> QED
      BY <1>1, <1>2 DEF Attested
  <1> QED
    BY <1>4, <1>5, <1>6, <1>7 DEF Sane, Coherent

\* What was invalidated is closed, and is known to have been invalidated.
LEMMA InvalidateKeeps ==
  ASSUME GraphInv, NEW n \in Name, Invalidate(n)
  PROVE  GraphInv'
  <1>1. /\ Tool /\ Active(graph, n) # {} /\ index' = None /\ closed' = [closed EXCEPT ![n] = Len(log)]
        /\ cache' = [cache EXCEPT ![n] = None]
        /\ graph' = [graph EXCEPT !.nodes =
             [k \in DOMAIN @ |-> IF k \in Active(graph, n) THEN [@[k] EXCEPT !.to = 0] ELSE @[k]]]
        /\ log' = log /\ todo' = todo /\ faults' = faults /\ broken' = broken /\ scarred' = scarred
    BY DEF Invalidate
  <1>2. /\ Sane(log, Store) /\ log \in Seq(Extracts) /\ closed \in [Name -> 0..MaxLog] /\ Len(log) <= MaxLog
        /\ IsStore(Store)
    BY DEF GraphInv, SaneNow, Counted, Sane, Coherent
  <1>3. graph = [events |-> graph.events, chain |-> graph.chain, nodes |-> graph.nodes, rels |-> graph.rels]
    <2>1. Store.graph = [events |-> Store.graph.events, chain |-> Store.graph.chain,
                         nodes |-> Store.graph.nodes, rels |-> Store.graph.rels]
      BY <1>2 DEF IsStore, AStore
    <2> QED
      BY <2>1, StoreFacts
  <1>4. PICK N : N = [k \in DOMAIN graph.nodes |->
                        IF k \in Active(graph, n) THEN [graph.nodes[k] EXCEPT !.to = 0] ELSE graph.nodes[k]]
    OBVIOUS
  <1>5. graph' = [graph EXCEPT !.nodes = N]
    BY <1>1, <1>4, Zenon
  <1>6. graph' = [events |-> graph.events, chain |-> graph.chain, nodes |-> N, rels |-> graph.rels]
    BY <1>3, <1>5
  <1>7. PICK t : t = AStore(graph.events, graph.chain, N, graph.rels, cache', None)
    OBVIOUS
  <1>8. Store' = t
    BY <1>1, <1>6, <1>7 DEF Store, AStore
  <1>9. /\ t.graph.events = graph.events /\ t.graph.chain = graph.chain /\ t.graph.nodes = N
        /\ t.graph.rels = graph.rels /\ t.cache = cache'
    BY <1>7 DEF AStore
  <1>10. Revokes(Store, n, t)
    BY <1>1, <1>4, <1>9, StoreFacts DEF Revokes
  <1>11. IsStore(t)
    <2>1. AreVersions(N) /\ cache' \in [Name -> Ident \cup {None}]
      BY <1>2, <1>9, <1>10, RevokedVersions
    <2> QED
      BY <1>7, <2>1, StoreParts
  <1>12. Sane(log, t)
    BY <1>2, <1>10, <1>11, RevokedSane
  <1>13. Len(log) \in 1..MaxLog
    <2>1. PICK k : k \in Versions(Store)
      BY <1>1, StoreFacts DEF Active, Versions
    <2>2. k[2] \in DOMAIN log
      BY <1>2, <2>1 DEF Sane, Attested, Chained
    <2>3. Len(log) \in Nat /\ DOMAIN log = 1..Len(log) /\ MaxLog \in Nat
      BY <1>2, BoundsAssumption
    <2> QED
      BY <1>2, <2>2, <2>3
  <1>14. closed' \in [Name -> 0..MaxLog] /\ closed'[n] # 0
    <2>1. Len(log) \in 0..MaxLog /\ Len(log) # 0
      <3>1. MaxLog \in Nat
        BY BoundsAssumption
      <3> QED
        BY <1>13, <3>1
    <2> QED
      BY <1>1, <1>2, <2>1
  <1>15. tools' \in 0..MaxTools
    <2>1. tools \in 0..MaxTools /\ MaxTools \in Nat
      BY BoundsAssumption DEF GraphInv, Counted
    <2> QED
      BY <1>1, <2>1 DEF Tool
  <1>16. Counted' /\ CutScars' /\ SearchesAreFresh'
    BY <1>1, <1>14, <1>15 DEF GraphInv, Counted, CutScars, SearchesAreFresh
  <1>17. PendingNow'
    <2>1. graph'.events = graph.events
      BY <1>6
    <2> QED
      BY <1>1, <2>1 DEF GraphInv, PendingNow
  <1>18. SaneNow' /\ ~ Untouched'
    BY <1>1, <1>8, <1>12, <1>14 DEF SaneNow, Untouched
  <1> QED
    BY <1>16, <1>17, <1>18 DEF GraphInv, TellsNow, RemembersNow
-----------------------------------------------------------------------------
(* Reprojections: from the beginning, or over what is in the graph.        *)

\* What a replay leaves is told of the present.
LEMMA ReplayTells ==
  ASSUME log \in Seq(Extracts), NEW b, Sane(log, b), NEW from \in 1..Len(log), NEW t, Caught(b, from, Len(log), t),
         from = 1 \/ Tells(log, b)
  PROVE  Tells(log, t)
  <1>1. PICK m \in Nat : m = Len(log) /\ DOMAIN log = 1..m
    OBVIOUS
  <1>2. /\ Sane(log, t) /\ Exact(t) /\ t.graph.events = b.graph.events \cup (from..m)
        /\ t.graph.chain \subseteq b.graph.chain \cup (from..m)
        /\ Grounded(b, from) => Related(log, t, from..m)
        /\ \A p : p[1] # p[2] /\ OpenRel(b, p) => OpenRel(t, p)
        /\ \A n \in Name : Untold(b, t, n, from..m) \/ \E j \in from..m : ToldBy(t, n, j, from..m)
    BY <1>1 DEF Caught
  <1>3. /\ b.graph.events \subseteq 1..m /\ t.graph.events \subseteq 1..m /\ from \in 1..m
        /\ from # 1 => Lasts(log, b) /\ Related(log, b, Solid(b))
    BY <1>1, <1>2 DEF Sane, Chained, Tells
  <1>4. \A i \in t.graph.events : i \in Nat /\ (i \in from..m \/ (i \in b.graph.events /\ i < from /\ from # 1))
    <2>1. \A i \in 1..m : i \in Nat /\ (i \in from..m \/ (i < from /\ from # 1))
      BY <1>3
    <2> QED
      BY <1>2, <1>3, <2>1
  <1>5. IsStore(b) /\ IsStore(t)
    BY <1>2 DEF Sane, Coherent
  <1>6. Related(log, t, Solid(t))
    <2> SUFFICES ASSUME NEW i \in Solid(t), NEW p \in log[i].links, p[1] # p[2], Known(log, i, p)
                 PROVE  OpenRel(t, p)
      BY DEF Related
    <2>1. i \in t.graph.events /\ i \in Nat /\ 2..i \subseteq t.graph.chain /\ 1..i \subseteq t.graph.events
      <3>1. t.graph.events \subseteq Nat
        BY <1>4
      <3> QED
        BY <1>2, <3>1, SolidPrefix DEF Sane
    <2>2. CASE i \in from..m
      <3>1. 1..(from - 1) \subseteq b.graph.events
        <4> SUFFICES ASSUME NEW x \in 1..(from - 1)
                     PROVE  x \in b.graph.events
          OBVIOUS
        <4>1. x \in 1..i /\ x \notin from..m
          BY <1>3, <2>2
        <4> QED
          BY <1>2, <2>1, <4>1
      <3>2. Related(log, t, from..m)
        BY <1>2, <1>3, <3>1 DEF Grounded
      <3> QED
        BY <2>2, <3>2 DEF Related
    <2>3. CASE i \in b.graph.events /\ i < from /\ from # 1
      <3>1. 2..i \subseteq b.graph.chain
        <4> SUFFICES ASSUME NEW x \in 2..i
                     PROVE  x \in b.graph.chain
          OBVIOUS
        <4>1. x \notin from..m
          BY <1>3, <2>1, <2>3
        <4> QED
          BY <1>2, <2>1, <4>1
      <3>2. OpenRel(b, p)
        BY <1>3, <2>3, <3>1 DEF Related, Solid
      <3> QED
        BY <1>2, <3>2
    <2> QED
      BY <1>4, <2>1, <2>2, <2>3
  <1>7. ASSUME NEW n \in Name, NEW j \in from..m, ToldBy(t, n, j, from..m)
        PROVE  j \in t.graph.events /\ LastTold(log, t, n, j)
    <2>1. /\ \E c \in Content : Presents(t, n, c) /\ SaysLast(log, j, n, c)
          /\ \A x \in from..m : Mentioned(log, x, n) => x <= j
      BY <1>7 DEF ToldBy
    <2>2. \A i \in t.graph.events : i > j => i \in from..m
      BY <1>3, <1>4
    <2>3. \A i \in t.graph.events : ~ (i > j /\ Mentioned(log, i, n))
      BY <1>3, <1>4, <2>1, <2>2
    <2> QED
      BY <1>2, <2>1, <2>3 DEF LastTold
  <1>8. ASSUME NEW n \in Name, Untold(b, t, n, from..m), from = 1
        PROVE  NeverTold(log, t, n)
    <2>1. \A i \in t.graph.events : ~ Mentioned(log, i, n)
      BY <1>4, <1>8 DEF Untold
    <2>2. ASSUME NEW k \in Versions(t), k[1] = n
          PROVE  FALSE
      <3>1. PICK i : i = k[2]
        OBVIOUS
      <3>2. i \in t.graph.events /\ Says(log, i, n, t.graph.nodes[k].content) /\ log[i] \in Extracts
        BY <1>1, <1>2, <1>3, <2>2, <3>1, LogFacts DEF Sane, Attested
      <3>3. Mentioned(log, i, n)
        BY <3>2, SaysFacts
      <3> QED
        BY <2>1, <3>2, <3>3
    <2> QED
      BY <2>1, <2>2 DEF NeverTold, Absent
  <1>9. ASSUME NEW n \in Name, Untold(b, t, n, from..m), from # 1
        PROVE  NeverTold(log, t, n) \/ \E j \in t.graph.events : LastTold(log, t, n, j)
    <2>1. Kept(b, t, n) /\ \A x \in from..m : ~ Mentioned(log, x, n)
      BY <1>9 DEF Untold
    <2>2. (\A c : Presents(b, n, c) => Presents(t, n, c)) /\ (Absent(b, n) => Absent(t, n))
      BY <1>5, <2>1, KeptPresents
    <2>3. \A i \in t.graph.events : Mentioned(log, i, n) => i \in b.graph.events /\ i < from
      BY <1>4, <2>1
    <2>4. CASE NeverTold(log, b, n)
      BY <2>2, <2>3, <2>4 DEF NeverTold
    <2>5. CASE \E j \in b.graph.events : LastTold(log, b, n, j)
      <3>1. PICK j \in b.graph.events : LastTold(log, b, n, j)
        BY <2>5
      <3>2. \E c \in Content : Presents(t, n, c) /\ SaysLast(log, j, n, c)
        BY <2>2, <3>1 DEF LastTold
      <3>3. ASSUME NEW i \in t.graph.events, i > j, Mentioned(log, i, n)
            PROVE  \E x \in (j + 1)..i : x \notin t.graph.chain
        <4>1. i \in b.graph.events /\ i < from /\ i \in Nat /\ j \in Nat
          BY <1>3, <1>4, <2>3, <3>3
        <4>2. PICK x \in (j + 1)..i : x \notin b.graph.chain
          BY <3>1, <3>3, <4>1 DEF LastTold
        <4>3. x \notin from..m
          BY <1>3, <4>1
        <4> QED
          BY <1>2, <4>2, <4>3
      <3>4. LastTold(log, t, n, j) /\ j \in t.graph.events
        BY <1>2, <3>2, <3>3 DEF LastTold
      <3> QED
        BY <3>4
    <2> QED
      BY <1>3, <1>9, <2>4, <2>5 DEF Lasts
  <1>10. Lasts(log, t)
    BY <1>2, <1>7, <1>8, <1>9 DEF Lasts
  <1> QED
    BY <1>2, <1>6, <1>10 DEF Tells

\* What a replay that leaves no gap leaves is told of the past, too.
LEMMA ReplayRemembers ==
  ASSUME log \in Seq(Extracts), NEW b, Sane(log, b), NEW from \in 1..Len(log), NEW t, Caught(b, from, Len(log), t),
         Remembers(log, b), from > 1 => from - 1 \in b.graph.events
  PROVE  Remembers(log, t)
  <1>1. PICK m \in Nat : m = Len(log) /\ DOMAIN log = 1..m
    OBVIOUS
  <1>2. PICK e \in Nat : b.graph.events = 1..e /\ Hist(log, b, e)
    BY DEF Remembers
  <1>3. from \in 1..m /\ from - 1 <= e /\ e <= m /\ from - 1 \in Nat
    <2>1. e \in 1..e => e \in 1..m
      BY <1>1, <1>2 DEF Sane, Chained
    <2>2. from > 1 => from - 1 \in 1..e
      BY <1>2
    <2> QED
      BY <1>1, <2>1, <2>2
  <1>4. InOrder(b, from)
    BY <1>2, <1>3 DEF InOrder
  <1>5. Hist(log, b, from - 1)
    <2>1. \A k \in Versions(b), i \in b.graph.events : FoundAt(b, k, i, from - 1) => FoundAt(b, k, i, e)
      BY <1>2 DEF FoundAt
    <2> QED
      BY <1>2, <2>1 DEF Hist
  <1>6. t.graph.events = 1..m /\ Hist(log, t, m)
    <2>1. t.graph.events = (1..e) \cup (from..m) /\ Hist(log, t, m)
      BY <1>1, <1>2, <1>4, <1>5 DEF Caught
    <2>2. (1..e) \cup (from..m) = 1..m
      BY <1>3
    <2> QED
      BY <2>1, <2>2
  <1> QED
    BY <1>6 DEF Remembers

\* Where the graph is whole, it is what the log says.
FoldReady == log \in Seq(Extracts) /\ Sane(log, Store) /\ Wholly /\ Tells(log, Store)

LEMMA ReadyIsFold ==
  ASSUME FoldReady
  PROVE  IntegrityOk /\ IsFold
  <1>1. /\ log \in Seq(Extracts) /\ Sane(log, Store) /\ Wholly
        /\ Lasts(log, Store) /\ Related(log, Store, Solid(Store))
    BY StoreFacts DEF FoldReady, Tells
  <1>2. IntegrityOk
    BY <1>1, IntegrityIs DEF Sane
  <1>3. Whole(Store)
    BY <1>1, StoreFacts DEF Wholly, Whole
  <1> QED
    BY <1>1, <1>2, <1>3, WholeIsFold

\* The store that a reprojection starts from.
LEMMA ReprojectBase ==
  ASSUME GraphInv, NEW reset \in BOOLEAN, NEW b,
         b = [graph |-> IF reset THEN EmptyGraph ELSE graph, cache |-> NoCache, index |-> None]
  PROVE  /\ Sane(log, b) /\ Exact(b)
         /\ reset => Tells(log, b) /\ Remembers(log, b)
         /\ Untouched => Tells(log, b)
         /\ Untouched /\ ~ scarred => Remembers(log, b)
  <1>1. CASE reset
    <2>1. b = [graph |-> EmptyGraph, cache |-> NoCache, index |-> None]
      BY <1>1
    <2>2. /\ Sane(log, b) /\ Exact(b) /\ Lasts(log, b) /\ Related(log, b, Solid(b)) /\ Hist(log, b, 0)
          /\ b.graph.events = 1..0
      BY <2>1, SaneEmpty
    <2> QED
      BY <2>2 DEF Tells, Remembers
  <1>2. CASE ~ reset
    <2>1. b = [graph |-> Store.graph, cache |-> NoCache, index |-> None]
      BY <1>2, StoreFacts
    <2>2. Sane(log, Store)
      BY DEF GraphInv, SaneNow
    <2>3. Sane(log, b) /\ Exact(b) /\ b.graph = Store.graph
      BY <2>1, <2>2, SaneEmptied
    <2>4. (Tells(log, Store) => Tells(log, b)) /\ (Remembers(log, Store) => Remembers(log, b))
      BY <2>3, TellsSameGraph
    <2> QED
      BY <1>2, <2>3, <2>4 DEF GraphInv, TellsNow, RemembersNow
  <1> QED
    BY <1>1, <1>2

\* What a reprojection that succeeds leaves.
LEMMA ReprojectedIs ==
  ASSUME GraphInv, NEW from \in 1..MaxLog, NEW reset \in BOOLEAN, Reproject(from, reset),
         \A i \in from..Len(log) : log[i].sound
  PROVE  \E b, t : /\ b = [graph |-> IF reset THEN EmptyGraph ELSE graph, cache |-> NoCache, index |-> None]
                   /\ Sane(log, b) /\ Caught(b, from, Len(log), t)
                   /\ Store' = t /\ Sane(log, t)
  <1>1. PICK b : b = [graph |-> IF reset THEN EmptyGraph ELSE graph, cache |-> NoCache, index |-> None]
    OBVIOUS
  <1>2. PICK r : r = Replayed(b, from)
    OBVIOUS
  <1>3. /\ from \in 1..Len(log) /\ graph' = r.graph /\ cache' = NoCache /\ index' = None
    BY <1>1, <1>2 DEF Reproject
  <1>4. Sane(log, b) /\ Exact(b) /\ log \in Seq(Extracts)
    BY <1>1, ReprojectBase DEF GraphInv, Counted
  <1>5. Caught(b, from, Len(log), r)
    BY <1>2, <1>3, <1>4, ReplayedIs
  <1>6. PICK t : t = [graph |-> r.graph, cache |-> NoCache, index |-> None]
    OBVIOUS
  <1>7. Sane(log, t) /\ Exact(t) /\ t.graph = r.graph
    BY <1>5, <1>6, SaneEmptied DEF Caught
  <1>8. Caught(b, from, Len(log), t)
    <2>1. PICK L, R : L = Len(log) /\ R = from..L
      OBVIOUS
    <2>2. /\ r.graph.events = b.graph.events \cup R
          /\ r.graph.chain \subseteq b.graph.chain \cup R
          /\ (from + 1)..L \subseteq r.graph.chain
          /\ Grounded(b, from) => Related(log, r, R)
          /\ InOrder(b, from) /\ Hist(log, b, from - 1) => Hist(log, r, L)
      BY <1>5, <2>1 DEF Caught
    <2>3. /\ \A p : p[1] # p[2] /\ OpenRel(b, p) => OpenRel(r, p)
          /\ \A n \in Name : Untold(b, r, n, R) \/ \E j \in R : ToldBy(r, n, j, R)
      BY <1>5, <2>1 DEF Caught
    <2>4. (Related(log, r, R) => Related(log, t, R)) /\ (Hist(log, r, L) => Hist(log, t, L))
      BY <1>7, <2>2, SameGraph
    <2>5. \A p : OpenRel(r, p) => OpenRel(t, p)
      BY <1>7 DEF OpenRel, IsOpen
    <2>6. ASSUME NEW n \in Name
          PROVE  /\ Untold(b, r, n, R) => Untold(b, t, n, R)
                 /\ \A j : ToldBy(r, n, j, R) => ToldBy(t, n, j, R)
      BY <1>7 DEF Untold, ToldBy, Kept, Presents, Versions, IsOpen
    <2>7. \A n \in Name : Untold(b, t, n, R) \/ \E j \in R : ToldBy(t, n, j, R)
      BY <2>3, <2>6
    <2> QED
      BY <1>7, <2>1, <2>2, <2>3, <2>4, <2>5, <2>7 DEF Caught
  <1>9. Store' = t
    BY <1>3, <1>6 DEF Store
  <1> QED
    BY <1>1, <1>4, <1>7, <1>8, <1>9

\* A reprojection keeps the invariant, whether or not it succeeds.
LEMMA ReprojectKeeps ==
  ASSUME GraphInv, NEW from \in 1..MaxLog, NEW reset \in BOOLEAN, Reproject(from, reset)
  PROVE  GraphInv'
  <1>1. PICK b : b = [graph |-> IF reset THEN EmptyGraph ELSE graph, cache |-> NoCache, index |-> None]
    OBVIOUS
  <1>2. PICK sound \in BOOLEAN : sound <=> \A i \in from..Len(log) : log[i].sound
    OBVIOUS
  <1>3. /\ Tool /\ todo = Idle /\ from \in 1..Len(log) /\ cache' = NoCache /\ index' = None
        /\ log' = log /\ todo' = todo /\ faults' = faults /\ closed' = closed
        /\ ~ (\A i \in from..Len(log) : log[i].sound) => graph' = b.graph
    BY <1>1 DEF Reproject
  <1>4. /\ broken' <=> broken /\ ~ reset /\ ~ (sound /\ from = 1)
        /\ scarred' <=> (scarred /\ ~ reset) \/ (sound /\ from > 1 /\ from - 1 \notin b.graph.events)
        /\ broken' \in BOOLEAN /\ scarred' \in BOOLEAN
    <2>1. b.graph = IF reset THEN EmptyGraph ELSE graph
      BY <1>1
    <2>2. broken' = (broken /\ ~ reset /\ ~ ((\A i \in from..Len(log) : log[i].sound) /\ from = 1))
      BY DEF Reproject
    <2>3. scarred' = ((scarred /\ ~ reset) \/ ((\A i \in from..Len(log) : log[i].sound) /\ from > 1
                        /\ from - 1 \notin b.graph.events))
      BY <2>1 DEF Reproject
    <2> QED
      BY <1>2, <2>2, <2>3, Zenon
  <1>5. log \in Seq(Extracts) /\ Sane(log, Store)
    BY DEF GraphInv, Counted, SaneNow
  <1>6. /\ Sane(log, b)
        /\ reset => Tells(log, b) /\ Remembers(log, b)
        /\ Untouched => Tells(log, b)
        /\ Untouched /\ ~ scarred => Remembers(log, b)
    BY <1>1, ReprojectBase
  <1>7. /\ Untouched' /\ ~ reset /\ ~ (sound /\ from = 1) => Untouched
        /\ Untouched' /\ ~ scarred' /\ ~ reset => Untouched /\ ~ scarred
    <2>1. broken => scarred
      BY DEF GraphInv, CutScars
    <2>2. Untouched' <=> ~ broken' /\ \A n \in Name : closed[n] = 0
      BY <1>3 DEF Untouched
    <2>3. Untouched <=> ~ broken /\ \A n \in Name : closed[n] = 0
      BY DEF Untouched
    <2> QED
      BY <1>4, <2>1, <2>2, <2>3, Zenon
  <1>8. PendingNow' /\ SearchesAreFresh'
    BY <1>3, PendingIdle DEF PendingNow, SearchesAreFresh
  <1>9. Counted' /\ CutScars'
    <2>1. tools \in 0..MaxTools /\ MaxTools \in Nat
      BY BoundsAssumption DEF GraphInv, Counted
    <2>2. tools' \in 0..MaxTools
      BY <1>3, <2>1 DEF Tool
    <2>3. CutScars'
      <3>1. broken => scarred
        BY DEF GraphInv, CutScars
      <3> QED
        BY <1>4, <3>1, Zenon DEF CutScars
    <2>4. /\ log \in Seq(Extracts) /\ Len(log) <= MaxLog /\ faults \in 0..MaxFaults /\ closed \in [Name -> 0..MaxLog]
      BY DEF GraphInv, Counted
    <2>5. Counted'
      BY <1>3, <1>4, <2>2, <2>4 DEF Counted
    <2> QED
      BY <2>3, <2>5
  <1>10. CASE sound
    <2>1. PICK t : Caught(b, from, Len(log), t) /\ Store' = t /\ Sane(log, t)
      BY <1>1, <1>2, <1>10, ReprojectedIs
    <2>2. ASSUME Untouched'
          PROVE  Tells(log, t)
      <3>1. from = 1 \/ Tells(log, b)
        BY <1>6, <1>7, <2>2, Zenon
      <3> QED
        BY <1>3, <1>5, <1>6, <2>1, <3>1, ReplayTells
    <2>3. ASSUME Untouched', ~ scarred'
          PROVE  Remembers(log, t)
      <3>1. Remembers(log, b)
        BY <1>6, <1>7, <2>3, Zenon
      <3>2. from > 1 => from - 1 \in b.graph.events
        BY <1>4, <1>10, <2>3, Zenon
      <3> QED
        BY <1>3, <1>5, <1>6, <2>1, <3>1, <3>2, ReplayRemembers
    <2>4. SaneNow' /\ TellsNow' /\ RemembersNow'
      BY <1>3, <2>1, <2>2, <2>3 DEF SaneNow, TellsNow, RemembersNow
    <2> QED
      BY <1>8, <1>9, <2>4 DEF GraphInv
  <1>11. CASE ~ sound
    <2>1. Store' = b
      <3>1. graph' = b.graph
        BY <1>2, <1>3, <1>11
      <3> QED
        BY <1>1, <1>3, <3>1 DEF Store
    <2>2. Untouched' => Tells(log, b)
      BY <1>6, <1>7, <1>11, Zenon
    <2>3. Untouched' /\ ~ scarred' => Remembers(log, b)
      BY <1>6, <1>7, <1>11, Zenon
    <2>4. SaneNow' /\ TellsNow' /\ RemembersNow'
      BY <1>3, <1>6, <2>1, <2>2, <2>3 DEF SaneNow, TellsNow, RemembersNow
    <2> QED
      BY <1>8, <1>9, <2>4 DEF GraphInv
  <1> QED
    BY <1>10, <1>11

\* A full reprojection that succeeds makes the graph whole, whatever it was.
LEMMA ReprojectReadies ==
  ASSUME GraphInv, NEW reset \in BOOLEAN, Reproject(1, reset), \A i \in DOMAIN log : log[i].sound
  PROVE  FoldReady'
  <1>1. PICK m \in Nat : m = Len(log) /\ DOMAIN log = 1..m /\ log \in Seq(Extracts)
    BY DEF GraphInv, Counted
  <1>2. 1 \in 1..m /\ 1 \in 1..MaxLog /\ log' = log
    <2>1. 1 \in 1..Len(log) /\ log' = log
      BY DEF Reproject
    <2>2. Len(log) <= MaxLog /\ MaxLog \in Nat
      BY BoundsAssumption DEF GraphInv, Counted
    <2> QED
      BY <1>1, <2>1, <2>2
  <1>3. PICK b, t : Sane(log, b) /\ Caught(b, 1, Len(log), t) /\ Store' = t /\ Sane(log, t)
    <2>1. \A i \in 1..Len(log) : log[i].sound
      BY <1>1
    <2> QED
      BY <1>2, <2>1, ReprojectedIs
  <1>4. Tells(log, t)
    BY <1>1, <1>2, <1>3, ReplayTells
  <1>5. /\ t.graph.events = b.graph.events \cup (1..m) /\ b.graph.events \subseteq 1..m
        /\ (1 + 1)..m \subseteq t.graph.chain
    BY <1>1, <1>3 DEF Caught, Sane, Chained
  <1>6. t.graph.events = 1..m
    BY <1>5
  <1>7. t.graph.chain = 2..m
    <2>1. t.graph.chain \subseteq 1..m /\ \A x \in t.graph.chain : x - 1 \in 1..m
      BY <1>3, <1>6 DEF Sane, Chained
    <2>2. \A x \in 1..m : x - 1 \in 1..m => x \in 2..m
      OBVIOUS
    <2>3. 1 + 1 = 2
      OBVIOUS
    <2> QED
      BY <1>5, <2>1, <2>2, <2>3
  <1>8. graph' = t.graph
    BY <1>3, StoreFacts DEF Store
  <1>9. Wholly'
    BY <1>1, <1>2, <1>6, <1>7, <1>8 DEF Wholly
  <1> QED
    BY <1>1, <1>2, <1>3, <1>4, <1>9 DEF FoldReady

\* An empty log, and a store that is empty.
LEMMA InitGraphInv == Init => GraphInv
  <1> SUFFICES ASSUME Init PROVE GraphInv
    OBVIOUS
  <1>1. /\ log = <<>> /\ graph = EmptyGraph /\ cache = NoCache /\ index = None /\ todo = Idle /\ faults = 0 /\ tools = 0
        /\ broken = FALSE /\ scarred = FALSE /\ closed = [n \in Name |-> 0]
    BY DEF Init
  <1>2. {MaxLog, MaxFaults, MaxTools} \subseteq Nat
    BY BoundsAssumption
  <1>3. PICK u : u = [graph |-> EmptyGraph, cache |-> NoCache, index |-> None]
    OBVIOUS
  <1>4. Store = u
    BY <1>1, <1>3 DEF Store
  <1>5. /\ Sane(log, u) /\ Exact(u) /\ Lasts(log, u) /\ Related(log, u, Solid(u)) /\ Hist(log, u, 0)
        /\ u.graph.events = 1..0
    BY <1>3, SaneEmpty
  <1>6. Tells(log, u) /\ Remembers(log, u)
    BY <1>5 DEF Tells, Remembers
  <1>7. SaneNow /\ TellsNow /\ RemembersNow
    BY <1>4, <1>5, <1>6 DEF SaneNow, TellsNow, RemembersNow
  <1>8. PendingNow /\ SearchesAreFresh /\ CutScars
    BY <1>1, PendingIdle DEF PendingNow, SearchesAreFresh, CutScars
  <1>9. Counted
    <2>1. log \in Seq(Extracts) /\ Len(log) = 0
      BY <1>1
    <2>2. faults \in 0..MaxFaults /\ tools \in 0..MaxTools /\ Len(log) <= MaxLog
      BY <1>1, <1>2, <2>1
    <2>3. closed \in [Name -> 0..MaxLog]
      BY <1>1, <1>2
    <2> QED
      BY <1>1, <2>1, <2>2, <2>3 DEF Counted
  <1> QED
    BY <1>7, <1>8, <1>9 DEF GraphInv

\* Each step keeps it: a projection or a replay adds what events say, a cut one
\* only what they say; the rest leaves the graph alone, empties it, or closes what
\* is invalidated.
LEMMA NextGraphInv == GraphInv /\ [Next]_vars => GraphInv'
  <1> SUFFICES ASSUME GraphInv, [Next]_vars PROVE GraphInv'
    OBVIOUS
  <1>1. ASSUME NEW t \in Task, NEW batch \in Batches, Seal(t, batch) PROVE GraphInv'
    BY <1>1, SealKeeps
  <1>2. ASSUME NEW t \in Task, Project(t) PROVE GraphInv'
    BY <1>2, ProjectKeeps
  <1>3. ASSUME NEW t \in Task, Raise(t) PROVE GraphInv'
    BY <1>3, RaiseKeeps
  <1>4. ASSUME NEW t \in Task, Degrade(t) PROVE GraphInv'
    BY <1>4, DegradeKeeps
  <1>5. CASE Crash
    BY <1>5, CrashKeeps
  <1>6. CASE Quarantine
    BY <1>6, QuarantineKeeps
  <1>7. CASE Search
    BY <1>7, SearchKeeps
  <1>8. ASSUME NEW n \in Name, Invalidate(n) PROVE GraphInv'
    BY <1>8, InvalidateKeeps
  <1>9. ASSUME NEW from \in 1..MaxLog, NEW reset \in BOOLEAN, Reproject(from, reset) PROVE GraphInv'
    BY <1>9, ReprojectKeeps
  <1>10. CASE UNCHANGED vars
    <2>1. /\ log' = log /\ graph' = graph /\ index' = index /\ cache' = cache /\ todo' = todo /\ faults' = faults
          /\ tools' = tools /\ broken' = broken /\ scarred' = scarred /\ closed' = closed
      BY <1>10 DEF vars
    <2>2. Store' = Store /\ (Untouched' <=> Untouched)
      BY <2>1 DEF Store, Untouched
    <2>3. Counted' /\ PendingNow' /\ SaneNow' /\ CutScars'
      BY <2>1, <2>2 DEF GraphInv, Counted, PendingNow, SaneNow, CutScars
    <2>4. TellsNow' /\ RemembersNow' /\ SearchesAreFresh'
      BY <2>1, <2>2 DEF GraphInv, TellsNow, RemembersNow, SearchesAreFresh, Indexed
    <2> QED
      BY <2>3, <2>4 DEF GraphInv
  <1> QED
    BY <1>1, <1>2, <1>3, <1>4, <1>5, <1>6, <1>7, <1>8, <1>9, <1>10 DEF Next

\* The invariant holds in every behaviour of the projection.
LEMMA GraphInvariant == Spec => []GraphInv
  BY InitGraphInv, NextGraphInv, PTL DEF Spec

\* What the invariant says of the store, in the terms of the types.
LEMMA GraphTypes ==
  ASSUME GraphInv
  PROVE  TypeOK
  <1>1. /\ log \in Seq(Extracts) /\ Len(log) <= MaxLog
        /\ faults \in 0..MaxFaults /\ tools \in 0..MaxTools /\ closed \in [Name -> 0..MaxLog]
        /\ {broken, scarred} \subseteq BOOLEAN
    BY DEF GraphInv, Counted
  <1>2. PICK m \in Nat : m = Len(log) /\ DOMAIN log = 1..m
    BY <1>1
  <1>3. /\ IsStore(Store) /\ OneEach(Store) /\ CacheBounds(Store) /\ RelEnds(Store)
        /\ Chained(log, Store) /\ Attested(log, Store)
    BY DEF GraphInv, SaneNow, Sane, Coherent
  <1>4. graph.events \subseteq DOMAIN log /\ graph.chain \subseteq graph.events \ {1}
    <2>1. /\ graph.events \subseteq 1..m /\ graph.chain \subseteq graph.events
          /\ \A i \in graph.chain : i - 1 \in graph.events
      BY <1>2, <1>3, StoreFacts DEF Chained
    <2>2. ~ (1 - 1 \in 1..m)
      OBVIOUS
    <2>3. 1 \notin graph.chain
      BY <2>1, <2>2
    <2> QED
      BY <1>2, <2>1, <2>3
  <1>5. Versions(Store) = DOMAIN graph.nodes
    BY StoreFacts DEF Versions
  <1>6. ASSUME NEW k \in DOMAIN graph.nodes
        PROVE  /\ k \in Key
               /\ graph.nodes[k] \in [content : Content, to : {Open} \cup (0..Len(log))]
    <2>1. k \in Name \X Nat /\ graph.nodes[k] \in VersionRecord
      BY <1>3, <1>5, StoreFacts DEF IsStore, AreVersions, Ident
    <2>2. /\ k[2] \in 1..m
          /\ graph.nodes[k].to \notin {Open, 0} => graph.nodes[k].to \in 1..m
      BY <1>2, <1>3, <1>5, StoreFacts DEF Attested, Chained
    <2>3. k \in Name \X (1..MaxLog)
      <3>1. k[1] \in Name /\ k = <<k[1], k[2]>>
        BY <2>1
      <3>2. k[2] \in 1..MaxLog
        <4>1. m <= MaxLog /\ MaxLog \in Nat
          BY <1>1, <1>2, BoundsAssumption
        <4> QED
          BY <2>2, <4>1
      <3> QED
        BY <3>1, <3>2
    <2>4. graph.nodes[k].to \in {Open} \cup (0..Len(log))
      BY <1>2, <2>2
    <2>5. graph.nodes[k] \in [content : Content, to : {Open} \cup (0..Len(log))]
      BY <2>1, <2>4 DEF VersionRecord
    <2> QED
      BY <2>3, <2>5 DEF Key
  <1>7. graph.rels \subseteq (DOMAIN graph.nodes) \X (DOMAIN graph.nodes)
    <2>1. \A r \in graph.rels : r = <<r[1], r[2]>> /\ r[1] \in DOMAIN graph.nodes /\ r[2] \in DOMAIN graph.nodes
      BY <1>3, <1>5, StoreFacts DEF RelEnds
    <2> QED
      BY <2>1
  <1>8. \A n \in Name : cache[n] = None \/ (cache[n] \in DOMAIN graph.nodes /\ cache[n][1] = n)
    BY <1>3, <1>5, StoreFacts DEF CacheBounds
  <1>9. \A t \in Task : \A k \in DOMAIN todo[t] : todo[t][k] \in DOMAIN log
    <2>1. /\ todo \in [Task -> Seq(Nat)]
          /\ \A t \in Task : \A k \in 1..Len(todo[t]) : todo[t][k] \in DOMAIN log
      BY DEF GraphInv, PendingNow, Pending
    <2>2. \A t \in Task : DOMAIN todo[t] = 1..Len(todo[t])
      BY <2>1
    <2> QED
      BY <2>1, <2>2
  <1> QED
    BY <1>1, <1>4, <1>6, <1>7, <1>8, <1>9 DEF TypeOK

\* What the status calls integrity is that every event is there and linked: then
\* nothing that is told is older than what the log has.
LEMMA IntegrityTells ==
  ASSUME GraphInv
  PROVE  GraphTellsLog
  <1>1. log \in Seq(Extracts) /\ Sane(log, Store)
    BY DEF GraphInv, Counted, SaneNow
  <1>2. IntegrityOk => Wholly
    BY <1>1, IntegrityIs DEF Sane
  <1>3. IntegrityMeansFold
    <2> SUFFICES ASSUME IntegrityOk, Untouched PROVE IsFold
      BY DEF IntegrityMeansFold
    <2>1. FoldReady
      BY <1>1, <1>2 DEF GraphInv, TellsNow, FoldReady
    <2> QED
      BY <2>1, ReadyIsFold
  <1>4. HistoryIsFold
    <2> SUFFICES ASSUME IntegrityOk, Untouched, ~ scarred, NEW time \in DOMAIN log, NEW n \in Name
                 PROVE  {graph.nodes[k].content :
                           k \in {k \in DOMAIN graph.nodes :
                                    /\ k[1] = n /\ k[2] <= time
                                    /\ graph.nodes[k].to = Open \/ time < graph.nodes[k].to}} = Told(n, time)
      BY DEF HistoryIsFold
    <2>1. PICK e \in Nat : graph.events = 1..e /\ Hist(log, Store, e)
      BY StoreFacts DEF GraphInv, RemembersNow, Remembers
    <2>2. PICK m \in Nat : m = Len(log)
      BY <1>1
    <2>3. e = m
      <3>1. 1..e = 1..m
        BY <1>2, <2>1, <2>2 DEF Wholly
      <3>2. (e \in 1..e <=> e # 0) /\ (m \in 1..m <=> m # 0)
        OBVIOUS
      <3> QED
        BY <3>1, <3>2
    <2>4. graph.events = 1..Len(log) /\ Hist(log, Store, Len(log))
      BY <2>1, <2>2, <2>3
    <2> QED
      BY <1>1, <2>4, WholeHistory
  <1> QED
    BY <1>3, <1>4 DEF GraphTellsLog

\* Every variable keeps its type: what is in the store comes from the log.
THEOREM GraphTypeCorrect == Spec => []TypeOK
  BY GraphInvariant, GraphTypes, PTL

\* A search for the present is about one version of each name, the one that is
\* open, whatever was cut, replayed or projected out of order.
THEOREM SearchFindsOne == Spec => []PresentIsOne
  <1>1. GraphInv => PresentIsOne
    BY OneCurrent DEF GraphInv, SaneNow, PresentIsOne
  <1> QED
    BY <1>1, GraphInvariant, PTL

\* Where the status reports no missing events and links, the graph is what the log
\* says, but for links with an end that no event up to theirs has said: at present
\* if no upsert was cut and nothing invalidated, and at any time in the past if
\* events were projected in order too.
THEOREM IntegrityIsEnough == Spec => []GraphTellsLog
  BY GraphInvariant, IntegrityTells, PTL

\* A full reprojection of a log that can be extracted restores the present, but for
\* links with an end that no event up to theirs has said, in whatever state cut
\* upserts, lost events and invalidations have left the store.
THEOREM FullReprojectionRestores == Spec => ReprojectionRestores
  <1> DEFINE Restores(reset) == Reproject(1, reset) /\ (\A i \in DOMAIN log : log[i].sound) => IntegrityOk' /\ IsFold'
  <1>1. FoldReady => IntegrityOk /\ IsFold
    BY ReadyIsFold
  <1>2. FoldReady' => IntegrityOk' /\ IsFold'
    BY <1>1, PTL
  <1>3. GraphInv => \A reset \in BOOLEAN : Restores(reset)
    BY <1>2, ReprojectReadies
  <1>4. GraphInv /\ [Next]_vars => [\A reset \in BOOLEAN : Restores(reset)]_vars
    BY <1>3
  <1> QED
    BY <1>4, GraphInvariant, PTL DEF Spec, ReprojectionRestores
=============================================================================

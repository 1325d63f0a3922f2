-------------------------- MODULE GraphProjection --------------------------
(***************************************************************************)
(* The projection of one session's log into the embedded temporal graph    *)
(* (core/fabric_write.py, embedded_graph_store.py, the reproject command). *)
(* Tasks of one process seal events in worker threads and project them     *)
(* afterwards, one event at a time.  The statements of one upsert commit   *)
(* one by one, so that an engine error or the death of the process leaves  *)
(* any prefix of them.  A reprojection is a process of its own, alone with *)
(* the store; its bulk transaction commits as a whole or not at all.       *)
(*                                                                         *)
(* Time is the sequence number of events.  All relations are of one type.  *)
(***************************************************************************)
EXTENDS Integers, Sequences, FiniteSets

CONSTANTS
  Task,          \* tasks of the serving process
  Name, Content, \* entities, by type and name, and what is said of them
  Extracts,      \* what events extract to: [says, links, sound]
  Open,          \* valid_to of a version that is not closed
  None,          \* nothing cached
  MaxLog,        \* bound: events
  MaxBatch,      \* bound: events of one call
  MaxFaults,     \* bound: broken statements, crashes, lost stores
  MaxTools       \* bound: invalidations and reprojections

(* An event may link what it does not say (task.claimed links a task, a    *)
(* promotion the finding), as an entity of type "entity", and say one       *)
(* entity twice and differently.                                           *)
ASSUME ExtractsAssumption ==
  \A e \in Extracts :
    /\ e.says \in Seq([name : Name, content : Content])
    /\ e.links \subseteq Name \X Name
    /\ e.sound \in BOOLEAN

ASSUME MarksAssumption == Open \notin Nat /\ None \notin Name \X Nat

ASSUME BoundsAssumption == {MaxLog, MaxBatch, MaxFaults, MaxTools} \subseteq Nat

VARIABLES
  log,         \* the events, as what they extract to
  graph,       \* the store: events, chain links, entity versions, relations
  index,       \* the read caches: what was open when they were filled
  cache,       \* _active_entity_cache: the version each name is taken to have
  todo,        \* todo[t]: the events that task t has sealed and not projected
  faults, tools,   \* what the bounds count
  broken,      \* history: a projection was cut since the last full reprojection
  scarred,     \* history: an event was projected before its predecessor, or a
               \* projection cut, since the store was empty
  closed       \* history: names that were invalidated, and when

vars == <<log, graph, cache, index, todo, faults, tools, broken, scarred, closed>>

EmptyGraph == [events |-> {}, chain |-> {}, nodes |-> <<>>, rels |-> {}]
NoCache == [n \in Name |-> None]
Idle == [t \in Task |-> <<>>]
-----------------------------------------------------------------------------
(* One upsert.  What it acts on is the store and the caches.               *)

Active(g, n) == {k \in DOMAIN g.nodes : k[1] = n /\ g.nodes[k].to = Open}

(* _active_entity_state: the cache, else the youngest open version. *)
Version(s, n) ==
  IF s.cache[n] # None THEN s.cache[n]
  ELSE IF Active(s.graph, n) = {} THEN None
  ELSE CHOOSE k \in Active(s.graph, n) : \A l \in Active(s.graph, n) : l[2] <= k[2]

(* The cache is filled by what is looked up and found. *)
Looked(s, names) ==
  [s EXCEPT !.cache = [n \in DOMAIN @ |-> IF n \in names THEN Version(s, n) ELSE @[n]]]

Marked(s, i) == [s EXCEPT !.graph.events = @ \cup {i}]

(* Mutation of Linked: links are made whether or not the predecessor is    *)
(* there.                                                                  *)
Linked_Always(s, i) ==
  IF i > 1 THEN [s EXCEPT !.graph.chain = @ \cup {i}] ELSE s

(* NEXT_EVENT and PREVIOUS_EVENT: only if the predecessor is there. *)
Linked(s, i) ==
  IF i - 1 \in s.graph.events THEN [s EXCEPT !.graph.chain = @ \cup {i}] ELSE s

Closed(s, k, i) == [s EXCEPT !.graph.nodes[k].to = i]

Created(s, i, said) ==
  LET key == <<said.name, i>>
      new == [content |-> said.content, to |-> Open]
  IN  [s EXCEPT !.graph.nodes = [k \in DOMAIN @ \cup {key} |-> IF k = key THEN new ELSE @[k]],
                !.cache[said.name] = key]

(* What _copy_active_relationships_to_new_version carries over: relations  *)
(* of open versions with the versions that were closed at this time.       *)
Carried(s, i, n) ==
  LET prev == {k \in DOMAIN s.graph.nodes : k[1] = n /\ s.graph.nodes[k].to = i}
      open == {k \in DOMAIN s.graph.nodes : s.graph.nodes[k].to = Open}
  IN  {<<r[1], <<n, i>>>> : r \in {r \in s.graph.rels : r[2] \in prev /\ r[1] \in open}}
        \cup {<<<<n, i>>, r[2]>> : r \in {r \in s.graph.rels : r[1] \in prev /\ r[2] \in open}}

Relating(s, rels) == [s EXCEPT !.graph.rels = @ \cup rels]

Same(s, said) ==
  LET v == Version(s, said.name)
  IN  v # None /\ s.graph.nodes[v].content = said.content

(* One entity: nothing if it is as before, else a new version. *)
Asserted(s, i, said) ==
  LET v == Version(s, said.name)
      created == Created(IF v = None THEN s ELSE Closed(s, v, i), i, said)
  IN  IF Same(s, said) THEN [s EXCEPT !.cache[said.name] = v]
      ELSE IF v = None THEN created
      ELSE Relating(created, Carried(created, i, said.name))

(* What is left of it if a statement fails, the first of which looks it up. *)
PartlyAsserted(s, i, said) ==
  LET v == Version(s, said.name)
      looked == Looked(s, {said.name})
      old == IF v = None THEN looked ELSE Closed(looked, v, i)
      created == Created(old, i, said)
  IN  {s, looked}
        \cup (IF Same(s, said) THEN {} ELSE {old})
        \cup (IF Same(s, said) \/ v = None THEN {}
              ELSE {Relating(created, rels) : rels \in SUBSET Carried(created, i, said.name)})

(* The entities of an event, up to the k-th. *)
Entities(s, i, k) ==
  LET upTo[n \in 0..k] ==
        IF n = 0 THEN Linked(Marked(s, i), i) ELSE Asserted(upTo[n - 1], i, log[i].says[n])
  IN  upTo[k]

(* The relations between the versions that the ends have now; a link with  *)
(* an end that is not found is passed over, without a word.                *)
Links(s, links) ==
  {<<Version(s, l[1]), Version(s, l[2])>> :
     l \in {l \in links : Version(s, l[1]) # None /\ Version(s, l[2]) # None}}

Ends(links) == UNION {{l[1], l[2]} : l \in links}

(* The read caches are dropped at the end of an upsert that has written. *)
Refreshed(s, i, links) ==
  IF links = {} /\ \A k \in DOMAIN log[i].says : Same(s, log[i].says[k]) THEN s.index ELSE None

Upsert(s, i) ==
  LET after == Entities(s, i, Len(log[i].says))
      links == Links(after, log[i].links)
  IN  [Relating(Looked(after, Ends(log[i].links)), links) EXCEPT !.index = Refreshed(s, i, links)]

(* An upsert that a failing statement has ended, perhaps in the middle of  *)
(* a link.                                                                 *)
PartlyUpserted(s, i) ==
  LET says == log[i].says
      after == Entities(s, i, Len(says))
  IN  {s, Marked(s, i)}
        \cup (UNION {PartlyAsserted(Entities(s, i, k - 1), i, says[k]) : k \in DOMAIN says})
        \cup UNION {UNION {{Relating(Looked(after, Ends(done) \cup ends), Links(after, done)) :
                              ends \in {{}, {l[1]}, {l[1], l[2]}}} :
                            done \in SUBSET (log[i].links \ {l})} :
                     l \in log[i].links}

Store == [graph |-> graph, cache |-> cache, index |-> index]

(* What searches for the present index. *)
Indexed ==
  LET open == {k \in DOMAIN graph.nodes : graph.nodes[k].to = Open}
  IN  [versions |-> open, rels |-> graph.rels \cap (open \X open)]
-----------------------------------------------------------------------------
Init ==
  /\ log = <<>>
  /\ graph = EmptyGraph
  /\ cache = NoCache
  /\ index = None
  /\ todo = Idle
  /\ faults = 0
  /\ tools = 0
  /\ broken = FALSE
  /\ scarred = FALSE
  /\ closed = [n \in Name |-> 0]

(* append and append_batch: the events are sealed, in a worker thread. *)
Seal(t, batch) ==
  /\ todo[t] = <<>>
  /\ Len(log) + Len(batch) <= MaxLog
  /\ log' = log \o batch
  /\ todo' = [todo EXCEPT ![t] = [k \in DOMAIN batch |-> Len(log) + k]]
  /\ UNCHANGED <<graph, cache, index, faults, tools, broken, scarred, closed>>

Becomes(s) == graph' = s.graph /\ cache' = s.cache /\ index' = s.index

Scars(i) == scarred' = (scarred \/ (i > 1 /\ i - 1 \notin graph.events))

(* _project_event. *)
Project(t) ==
  LET i == Head(todo[t])
  IN  /\ todo[t] # <<>>
      /\ log[i].sound
      /\ Becomes(Upsert(Store, i))
      /\ todo' = [todo EXCEPT ![t] = Tail(@)]
      /\ Scars(i)
      /\ UNCHANGED <<log, faults, tools, broken, closed>>

(* What extract() refuses raises out of append, after the event has been   *)
(* sealed; the rest of a batch is sealed too, and is not projected.        *)
Raise(t) ==
  /\ todo[t] # <<>>
  /\ ~ log[Head(todo[t])].sound
  /\ todo' = [todo EXCEPT ![t] = <<>>]
  /\ UNCHANGED <<log, graph, cache, index, faults, tools, broken, scarred, closed>>

Fault == faults < MaxFaults /\ faults' = faults + 1

(* The engine fails a statement; the error is swallowed. *)
Degrade(t) ==
  LET i == Head(todo[t])
  IN  /\ Fault
      /\ todo[t] # <<>>
      /\ log[i].sound
      /\ \E s \in PartlyUpserted(Store, i) : Becomes(s)
      /\ todo' = [todo EXCEPT ![t] = Tail(@)]
      /\ broken' = TRUE
      /\ scarred' = TRUE
      /\ UNCHANGED <<log, tools, closed>>

(* The process dies, perhaps in an upsert, and starts again. *)
Crash ==
  /\ Fault
  /\ \/ graph' = graph /\ UNCHANGED <<broken, scarred>>
     \/ \E t \in Task :
          /\ todo[t] # <<>>
          /\ log[Head(todo[t])].sound
          /\ \E s \in PartlyUpserted(Store, Head(todo[t])) : graph' = s.graph
          /\ broken' = TRUE
          /\ scarred' = TRUE
  /\ cache' = NoCache
  /\ index' = None
  /\ todo' = Idle
  /\ UNCHANGED <<log, tools, closed>>

(* Mutation of Quarantine: the cache outlives the store. *)
Quarantine_KeepsCache ==
  /\ Fault
  /\ todo = Idle
  /\ graph' = EmptyGraph
  /\ broken' = FALSE
  /\ scarred' = FALSE
  /\ index' = None
  /\ UNCHANGED <<log, cache, todo, tools, closed>>

(* connect finds a store that it cannot open and moves it aside. *)
Quarantine ==
  /\ Fault
  /\ todo = Idle
  /\ graph' = EmptyGraph
  /\ cache' = NoCache
  /\ index' = None
  /\ broken' = FALSE
  /\ scarred' = FALSE
  /\ UNCHANGED <<log, todo, tools, closed>>

(* A search for the present fills the read caches. *)
Search ==
  /\ index = None
  /\ index' = Indexed
  /\ UNCHANGED <<log, graph, cache, todo, faults, tools, broken, scarred, closed>>

Tool == tools < MaxTools /\ tools' = tools + 1

(* Mutation of Invalidate: the read caches are kept. *)
Invalidate_KeepsIndex(n) ==
  /\ Tool
  /\ Active(graph, n) # {}
  /\ graph' = [graph EXCEPT !.nodes =
       [k \in DOMAIN @ |-> IF k \in Active(graph, n) THEN [@[k] EXCEPT !.to = 0] ELSE @[k]]]
  /\ cache' = [cache EXCEPT ![n] = None]
  /\ closed' = [closed EXCEPT ![n] = Len(log)]
  /\ UNCHANGED <<log, index, todo, faults, broken, scarred>>

(* memory_invalidate closes the open versions of a name; the log does not  *)
(* record it.                                                              *)
Invalidate(n) ==
  /\ Tool
  /\ Active(graph, n) # {}
  /\ graph' = [graph EXCEPT !.nodes =
       [k \in DOMAIN @ |-> IF k \in Active(graph, n) THEN [@[k] EXCEPT !.to = 0] ELSE @[k]]]
  /\ cache' = [cache EXCEPT ![n] = None]
  /\ index' = None
  /\ closed' = [closed EXCEPT ![n] = Len(log)]
  /\ UNCHANGED <<log, todo, faults, broken, scarred>>

(* Mutation of Replayed: relations of replayed events are not merged. *)
Replayed_Entities(s, from) ==
  LET upTo[i \in (from - 1)..Len(log)] ==
        IF i < from THEN s ELSE Entities(upTo[i - 1], i, Len(log[i].says))
  IN  upTo[Len(log)]

Replayed(s, from) ==
  LET upTo[i \in (from - 1)..Len(log)] == IF i < from THEN s ELSE Upsert(upTo[i - 1], i)
  IN  upTo[Len(log)]

(* zaxy reproject: one transaction, after the store has perhaps been       *)
(* removed; an event that cannot be extracted rolls it back.               *)
Reproject(from, reset) ==
  LET base == IF reset THEN EmptyGraph ELSE graph
      sound == \A i \in from..Len(log) : log[i].sound
      replayed == Replayed([graph |-> base, cache |-> NoCache, index |-> None], from)
  IN  /\ Tool
      /\ todo = Idle
      /\ from \in 1..Len(log)
      /\ graph' = IF sound THEN replayed.graph ELSE base
      /\ cache' = NoCache
      /\ index' = None
      /\ broken' = (broken /\ ~ reset /\ ~ (sound /\ from = 1))
      /\ scarred' = ((scarred /\ ~ reset) \/ (sound /\ from > 1 /\ from - 1 \notin base.events))
      /\ UNCHANGED <<log, todo, faults, closed>>

Batches == UNION {[1..n -> Extracts] : n \in 1..MaxBatch}

Next ==
  \/ \E t \in Task :
       \/ \E batch \in Batches : Seal(t, batch)
       \/ Project(t)
       \/ Raise(t)
       \/ Degrade(t)
  \/ Crash
  \/ Quarantine
  \/ Search
  \/ \E n \in Name : Invalidate(n)
  \/ \E from \in 1..MaxLog, reset \in BOOLEAN : Reproject(from, reset)

Spec == Init /\ [][Next]_vars
-----------------------------------------------------------------------------
Key == Name \X (1..MaxLog)

TypeOK ==
  /\ log \in Seq(Extracts)
  /\ Len(log) <= MaxLog
  /\ graph.events \subseteq DOMAIN log
  /\ graph.chain \subseteq graph.events \ {1}
  /\ DOMAIN graph.nodes \subseteq Key
  /\ \A k \in DOMAIN graph.nodes :
       graph.nodes[k] \in [content : Content, to : {Open} \cup (0..Len(log))]
  /\ graph.rels \subseteq (DOMAIN graph.nodes) \X (DOMAIN graph.nodes)
  /\ \A n \in Name : cache[n] = None \/ (cache[n] \in DOMAIN graph.nodes /\ cache[n][1] = n)
  /\ \A t \in Task : \A k \in DOMAIN todo[t] : todo[t][k] \in DOMAIN log
  /\ faults \in 0..MaxFaults
  /\ tools \in 0..MaxTools
  /\ {broken, scarred} \subseteq BOOLEAN
  /\ closed \in [Name -> 0..MaxLog]

(* Whatever was cut, replayed or projected out of order, a name never has  *)
(* two versions that are current.                                          *)
OneCurrentVersion == \A n \in Name : Cardinality(Active(graph, n)) <= 1

(* inspect_event_projection_status. *)
IntegrityOk ==
  /\ \A i \in graph.events : i = 1 \/ i - 1 \in graph.events
  /\ log # <<>> => Len(log) \in graph.events
  /\ Cardinality(graph.chain) = Cardinality(graph.events) - (IF graph.events = {} THEN 0 ELSE 1)

Mentions(n, time) == {i \in 1..time : \E k \in DOMAIN log[i].says : log[i].says[k].name = n}

(* What an event says of a name, last. *)
SaidAt(n, i) ==
  LET said == {k \in DOMAIN log[i].says : log[i].says[k].name = n}
  IN  {log[i].says[k].content : k \in {k \in said : \A j \in said : j <= k}}

(* What the log says of a name at a time: what its last event says. *)
Told(n, time) ==
  UNION {SaidAt(n, i) : i \in {i \in Mentions(n, time) : \A j \in Mentions(n, time) : j <= i}}

(* Entities and relations that a search for the present finds. *)
Current(n) == {graph.nodes[k].content : k \in Active(graph, n)}

Relations ==
  {<<r[1][1], r[2][1]>> :
     r \in {r \in graph.rels : graph.nodes[r[1]].to = Open /\ graph.nodes[r[2]].to = Open}}

(* The links of an event whose ends it or an earlier event has said. *)
KnownLinks(i) == {l \in log[i].links : Mentions(l[1], i) # {} /\ Mentions(l[2], i) # {}}

(* The graph tells what the log does, but for links with an end that no    *)
(* event up to theirs has said.  A relation of an entity with itself (a    *)
(* function that calls itself) is lost at the next version of the entity,  *)
(* which Carried leaves out.                                               *)
IsFold ==
  /\ \A n \in Name : Current(n) = Told(n, Len(log))
  /\ Relations \subseteq UNION {log[i].links : i \in DOMAIN log}
  /\ \A i \in DOMAIN log : \A l \in KnownLinks(i) : l[1] = l[2] \/ l \in Relations

Untouched == ~ broken /\ \A n \in Name : closed[n] = 0

(* "Graph status reports ... missing chain links": if it reports nothing,  *)
(* the graph is what the log says, although tasks project concurrently,    *)
(* events fail to be extracted, processes die and stores are lost.  The    *)
(* exceptions are an upsert that was cut, and what was invalidated.        *)
IntegrityMeansFold == IntegrityOk /\ Untouched => IsFold

(* The same of every time in the past, unless events were projected out of *)
(* order or in part (which a reprojection over the old store repairs for   *)
(* the present only).                                                      *)
HistoryIsFold ==
  IntegrityOk /\ Untouched /\ ~ scarred =>
    \A time \in DOMAIN log, n \in Name :
      {graph.nodes[k].content :
         k \in {k \in DOMAIN graph.nodes :
                  /\ k[1] = n /\ k[2] <= time
                  /\ graph.nodes[k].to = Open \/ time < graph.nodes[k].to}} = Told(n, time)

(* Where the status reports integrity, the graph tells what the log does.  *)
GraphTellsLog == IntegrityMeansFold /\ HistoryIsFold

(* Searches are served from what is open now, unless the upsert that       *)
(* changed it was cut (which skips the dropping of the read caches).       *)
SearchesAreFresh == index # None /\ ~ broken => index = Indexed

(* A search for the present is about one version of each name, the one     *)
(* that is open.                                                           *)
PresentIsOne == OneCurrentVersion /\ SearchesAreFresh

(* A full reprojection that succeeds restores the present, whatever state  *)
(* the store was in.                                                       *)
ReprojectionRestores ==
  [][\A reset \in BOOLEAN :
       Reproject(1, reset) /\ (\A i \in DOMAIN log : log[i].sound)
         => IntegrityOk' /\ IsFold']_vars
=============================================================================

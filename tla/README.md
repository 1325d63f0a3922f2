# Zaxy: a TLA+ development

Zaxy is a memory fabric for agents. Everything an agent is to remember is an
event in an append-only, hash-chained JSONL file (one per session, the
*Eventloom*); graph databases, indexes, caches and governance views are
projections that can be rebuilt from it. Several processes (MCP servers, CLI
calls, capture hooks, coordination runs) write and read the same files at once.

This directory holds TLA+ modules of the parts where that concurrency, crashes
and multi-step protocols matter, TLC configurations that check them on small
instances, and TLAPS proofs that hold for instances of any size. `PROJECT.json`
lists components, runs, mutants, the source lines behind each definition,
findings, hazards and theorems. Source paths below are under `src/src/zaxy/`.

Contents: 1 the system; 2 the modules; 3 the runs; 4 what the models show of the
code's promises; 5 fairness; 6 the proofs; 7 what is abstracted or left out;
8 the plan; 9 how to run.

## 1. The system

### Components, state, operations

| Component (source) | State it keeps | Operations | Module |
|---|---|---|---|
| Session log (`event.py`) | one JSONL file per session, guarded by `flock` | `append_many`, `read_all`, `replay`, `verify`, `read_from_offset` | `Eventloom`, abstractly `AppendOnlyLog` |
| Deferred reinforcement queue (`core/reinforcement_queue.py`, `core/fabric.py`) | a list of specs in memory, a drain task, a registry read by an exit hook | `enqueue`, `_drain`, `flush`, `drain_to_log_sync`, exit hook | `ReinforcementQueue` |
| Verified forgetting (`forgetting.py`, `core/fabric_write.py`) | an erasure vault file, a key-encryption key file, per-process copies of both | forgettable append, `verified_forget`, decrypting reads | `VerifiedForgetting` |
| Session retrieval cache (`retrieval_cache.py`) | per process: cached replay and verbatim index; on disk: two checkpoint files | `verified_replay`, `verbatim_index`, `invalidate` | `RetrievalCache` |
| Fleet memory plane (`fleet.py`, `evolution_policy.py`) | a projection of the fleet's thread; nothing else | `create_fleet`, `enroll_agent`, `assign_trust`, `promote`/`propose`, `review_promotion`, `rollback_promotion` | `FleetGovernance` |
| Coordination missions (`coordination.py`) | a parent log and a log per worker | create workers, report, review, promote, record conflicts, approval batches | `CoordinationMission` |
| Graph projections (`core/fabric_write.py`, `embedded_graph_store.py`, `cli/serving.py`) | the store: events, chain links, versions of entities, relations; caches | append and project, `append_batch`, invalidate, search, status, quarantine, reproject | `GraphProjection` |
| Client capture (`claude_capture.py`, `codex_capture.py`) and external ingest (`core/fabric_write.py`) | none but the references in the log | capture pass, watch loop, `append_batch` | `TranscriptCapture` |
| Owner runtime of the embedded graph (`mcp_runtime.py`, `mcp_server.py`, `cli/serving.py`) | owner lock, runtime record, proxy socket | claim, publish, await, repair (reap), shut down | `OwnerRuntime` |
| Plugin worker, packet sink, context refresh, refs | a subprocess and pipes; a queue and thread; a state file; last-event-wins views | request, enqueue, refresh, set | not modelled, sections 7 and 8 |
| Evolution writes, fabric facade, extraction, ranking, planning, salience, MCP dispatch, CLI, dashboard, onboarding, benchmarks | caches or none | | not modelled, section 7 |

### How they interact

- Everything writes through `append_many` of the session log. It takes the
  exclusive `flock`, seals each event against the locked tail, writes, fsyncs
  and unlocks. `AppendOnlyLog` states what that gives its callers: a log that
  only grows at its end, as one chain, in which what was acknowledged stays.
  Modules above the log therefore use *one* step for one append, and, where a
  death inside `append_many` matters (`TranscriptCapture`), a step that leaves a
  prefix of the batch.
- The log's guarantee ends with the call. Whatever a component reads first and
  appends later (a projection, a cached key, a queue head, the references already
  imported) may be stale when its append lands. This is the common source of
  hazards here, and why every module above the log keeps the steps between the
  reads and the writes apart.
- `append` seals in a worker thread and projects into the graph when the task
  resumes; the log is right at once, the graph later or, after a crash, never
  until a reprojection. Only the process that owns the embedded store may
  project: `OwnerRuntime` decides which that is, the others proxy to it.
- A checkout calls `flush` of the reinforcement queue before it reads, and the
  retrieval cache to read; both run in one asyncio process, the cache calls on
  worker threads.
- A forgettable append writes the vault *before* the log; a forget writes the
  gate decision to the log, *then* the vault, *then* the tombstone to the log.

### Hard behaviours, and the property each calls for

| Behaviour | Where | Properties |
|---|---|---|
| several writers, torn and partial writes, death of a lock holder | `event.py:343-387` | `ChainUnbroken`, `AckedDurable`, `TornTailIsFinal`, `EveryCallEnds`, `ImplementsAppendOnlyLog` |
| readers that take the lock per read, not per call | `event.py:475`, `503` | `ReadsSettled`, `FollowerExact` |
| two drains of one queue; failure, cancellation and exit between append and pop | `core/reinforcement_queue.py:84-120` | `NothingLostAlone`, `AppendsFaithful`, `FlushReturns` |
| load-once copy and whole-file rewrite; crash between key, seal, erasure and tombstone | `forgetting.py:142-200`, `core/fabric_write.py:733-760` | `KeptReadable`, `ForgettingOnRecord`, `KeysStayDestroyed` |
| a result put together from a signature, an offset and events taken at different times, by threads that share the entry | `retrieval_cache.py:99-330` | `ResultIsOfCall` |
| read-check-append without a lock; supersession, rejection, rollback in any order | `fleet.py:1500-1760` | `HeldUntilAccepted`, `KeystoneStands`, `ChangesJustified`, `ConflictsSettled` |
| the same over several logs, with ids read off a log's length and batches of decisions | `coordination.py:740-1490` | `PromotionsReviewed`, `NoLeakWithOwnIds`, `ConflictsOnce`, `BatchApplies` |
| projection after the append, out of order, statement by statement, into a store that may be lost | `core/fabric_write.py:314-430`, `embedded_graph_store.py:189-640`, `cli/serving.py:2120-2200` | `PresentIsOne`, `GraphTellsLog`, `ReprojectionRestores` |
| references read before an append by several passes, over a file that is being written | `claude_capture.py:55-200`, `codex_capture.py:70-260`, `core/fabric_write.py:396-425` | `CapturedFaithfully`, `ReturnedIsImported`, `EventuallyImported` |
| a lock that dies with its holder and files that do not; repairs that read, wait and kill | `mcp_runtime.py:38-311` | `OneOwner`, `BrokenIsReaped`, `ReapsOnlyUnreachable` |

`PROJECT.json` has the full list of hazards, each at its line, with those that no
property covers, or covers in part, and why.

## 2. The modules

Every module defines the code's operations as actions, in the order the code
does things; next to some definitions stands a variant named `X_Something`,
commented as a mutation of `X`: what the definition would be with a plausible
bug. No specification uses them. `PROJECT.json` pairs each property with one
under which TLC finds the property violated.

### AppendOnlyLog
The promise of a session log: `log` (events with sequence number and
predecessor) grows at its end as one chain, and `acked` receives only what an
append has added. `Append_` is an acknowledged append, `AppendUnacked` one whose
process died.

### Eventloom (implements AppendOnlyLog)
The file is a sequence of tokens: an event, a newline, or a torn record; an
offset is a number of tokens. `append_many` is `Call` (it waits for the lock),
`Lock`, one `Build` per item (the event is sealed against the
tail of the file for the first item, against its predecessor for the others),
`Refuse` (last line unreadable, or an invalid item), one or more `Write`s, and
`Return` (fsync, unlock). `Crash` may happen anywhere after `Call` and leaves any
prefix of the pending tokens, possibly a torn record. `replay` is two reads,
`ReplayEvents` and `ReplayVerify`, each under its own shared lock; `Follow` is
`read_from_offset` with the cursor of the call before.

Refinement: the abstract log is the events of `Settled`, the part of the file
that no current lock holder is writing; `acked` is itself. An append takes place
in the abstract log when the lock is released, by a return or by the kernel.

### ReinforcementQueue
Coroutines interleave only at `await`, so an action is the code between two
awaits: `Enqueue`; `StartTask`, `Flush`, `Wake` enter the loop of `_drain`; `Land` is
the append, `Pop` its continuation (`pop(0)` and the next turn), `Fail` its
exception. `LoopEnds` cancels everything; an append already handed to a worker
thread becomes an `Orphan` that still may write. `ExitAppend`, `ExitDone`, `ExitFail`
are the exit hook. History: `enqueued`, `cancelled`, and `overlapped` (two drains
had an append in hand at once).

### VerifiedForgetting
`disk` and `kekFile` are the two files, `mem[p]` what process p has loaded. A
forgettable append is `Encrypt`, `NewKek` (if no key file was found), `Store`
(rewrite of the whole vault), `Seal`. `verified_forget` is `Forget`, `Gate` (decision
recorded), `Erase` (rewrite), `Tombstone`. `SealFails`, `GateFails`, `TombstoneFails`
are appends that raise; `Crash` drops the process's copy. Cryptography is
symbolic: a wrapped key is the key it is wrapped under, and decrypts only with
that one.

### RetrievalCache
A call takes the file's signature (`Stat`), looks the entry up (`Lookup`: a hit,
an entry to extend, a cold start), and then either extends (`ExtendReplay`,
`ExtendIndex`), starts from a checkpoint (`ColdReplay`, `LoadIndex`), or reads all
(`FullReplay`, `RebuildIndex`), and stores under the *first* signature with an
offset taken *last* (`Store`). Threads interleave between these; `AppendEvent` is
another process, `Rewrite` an operator who puts back an older copy of the file
while nothing reads it, `Restart` empties a process's caches and leaves the
checkpoint files. An offset behind which only a newline is left reads as an empty tail,
since blank lines are skipped; one inside a record raises (`Readable`). `during[t]`
records what the log contained during t's call: a returned value must be one of
these. History: `kept`, the replays that an extension has kept because the tail was
empty.

### FleetGovernance
The thread of a fleet is represented by what `summarize_fleet_events` folds it
to: `trust` and `memory`. The fold of each event type is an operator (`Promoted`,
`Reviewed`, `Superseded`, `RolledBack`). A manager's call is split at its appends:
`Propose` (authority, gate and keystone check on the projection it reads) then
`AppendPromotion`, then, if the promotion is active, `Resolve` (reads the
projection again and finds what is superseded) and one `AppendSuperseded` per
memory; `Review` and `AppendReview` likewise; `Rollback` and `AppendRollback`.
`Abort` ends a call between two appends. History: `allowed` (applied by the gate or
accepted by a steward), `rollbacks`, and `alone` (no two calls overlapped, none
was cut in its conflict resolution).

### CoordinationMission
`parent` is the parent log (workers, reviews, promotions, reinforcements, recorded
conflicts), `worklog[w]` the findings of worker w. What the code folds on every call
(`_workers`, `_find_finding`, the last review of an id, the accepted state) are
operators over the logs. A call is split between its last read and each of its
appends: `Report`/`AppendFinding` (the default id is read off the length of the log),
`Review`, `Promote` and `ApplyDecisions` make plans that `AppendReview`,
`PromoteDecided` and `AppendPromotion` carry out one by one, checking again what the
code checks again; `ReadRecorded`/`AppendConflict` are `record_detected_conflicts`.
`Abort` cuts a call between two appends. History: which kinds of calls have
overlapped (`raced`), whether a caller passed an id again (`reused`), whether a batch
was refused after it had appended (`stranded`).

### GraphProjection
An event is what extraction makes of it: the entities it speaks of, in order, the
links between them, and whether its rule accepts it at all. `Seal` appends a batch,
`Project` takes the next event of a task, `Raise` is an event that cannot be extracted
(the rest of its batch is never projected), `Degrade` and `Crash` leave a prefix of
the statements of one upsert. An upsert marks the event, links it to its
predecessor if that is there, closes the version of a name and makes a new one unless
the content is the same, carries the relations over, and drops the caches. The loops
over what an event says and over the events of a replay are recursive functions
(`Entities`, `Replayed`).
`Invalidate`, `Search` (which fills the read cache), `Quarantine` (a store that cannot
be opened) and `Reproject` (from a sequence number, with or without emptying the
store; one transaction) are the tools. `IntegrityOk` is the status report. The link of
an event may have an end that the event does not say (`task.claimed` does not say the
task): it is looked up as an entity of type "entity", and the link is passed over if
there is none (`Links`). An entity here is a name *and* a type, so a link that misses
its end by the type is one to a name that nothing says.

### TranscriptCapture
A client writes its transcript line by line (`Write`, `EndLine`); a pass reads the
references in the log (`BeginCapture`), then the whole lines in its window (`Scan`),
then appends what is new (`AppendMany`), or dies in that (`Cut`). What a client has
written of a line may end inside a character (`split`, changed by `Write` and
`WriteOn`); a pass that reads that raises (`Garbled`). A `Watcher` is one process, whose
loop ends with the first exception or death; any other importer stands for calls that
are processes of their own (the Stop hook, producers). An output of a
command is recorded with its call, which for Codex the *same* scan must have met
and not skipped. `BeginIngest` is `append_batch` with the producers' references.
`raced` records that another append came between a call's read and its own.

### OwnerRuntime
A process is at one of the steps of `zaxy serve`: claim the lock, or look for the
owner's files, probe its lock, read its record, check its pid and socket, kill it,
clear its files and claim again; then set up the graph, listen, publish, serve, and
at the end tear down, remove its files, unlock. The lock (`flock`) goes with its
holder, record and socket file stay. `Terminate` is SIGTERM and then SIGKILL; a process
that was sent SIGKILL is `dying` until it `Vanish`es, and may be a zombie after that, so
that `Confirm`, 50 ms later, may find the pid gone (the repair goes on to `Clear`) or
still there (it ends with a warning). `Hang` is an owner whose event loop hangs: the
system goes on accepting connections for its socket, so every check finds it healthy.
`Break` is an owner whose socket dies under it, `CrashOf` any process at any step.
History: `found` (the broken owner a repair has met) and `robbed` (a reaper removed the files while somebody held the lock). Its
specification has names of its own (`OwnerInit`, `OwnerNext`, `OwnerSpec`), because
`EmbeddedGraph_proofs` extends it together with `GraphProjection`.

### The proof modules
`X_proofs` extends `X` and holds its invariant, lemmas and theorems.
`EmbeddedGraph_proofs` is about the embedded graph: who may have it open
(`OwnerRuntime`), and what is in it (`GraphProjection`).

## 3. The runs

| Run | Instance | Distinct states | What it shows |
|---|---|---|---|
| `eventloom_writers` | 2 writers x 2 calls, batches of 1-2, crash anywhere | 129 389 | chain, durability, torn tails refused, refinement of `AppendOnlyLog`, every waiting call ends |
| `eventloom_readers` | 3 writers x 1 call, batches of 1-2, one reader (one replay, any follows) | 424 938 | replay and incremental reads never see part of a live batch, the verdict covers the events, no event is missed or repeated |
| `reinforcement_drain` | 3 specs, 2 flushes, 2 failures | 244 770 | nothing lost, repeated or overtaken unless drains overlap; exit leaves nothing; every flush returns |
| `forgetting_one_process` | 3 cells, 3 forgets, 2 failures, 2 crashes | 380 201 | with one process at a time, what is forgotten stays so on the record, and the rest stays readable |
| `forgetting_resurrection` | 2 processes, 2 cells, 1 forget | violation | a stale copy brings a destroyed key back |
| `cache_shared` | 2 threads, both caches, 3 appends of 2-3 bytes, 1 rewrite, 3 calls, any restarts and invalidations | 3 882 912 | what a call returns is the log of some moment of the call, but for replays kept over an empty tail of a replaced log |
| `fleet_governed` | 2 managers, 3 promotions of one key (one possibly a keystone), 4 calls, 1 abort | 949 588 | held promotions wait, keystones stand in any interleaving; calls one after the other resolve conflicts, restore on rollback and respect decisions |
| `mission_governed` | 2 processes, 1 worker, 2 findings, 2 calls of any kind (batches of two decisions), 1 abort | 723 264 | the promotion gate, no leak into the accepted state, conflicts recorded once, batches that are not refused half-way |
| `graph_projected` | 2 tasks, 3 events, batches of 1-2, 1 fault, 2 tools | 627 491 | a status without complaint means that the graph is the fold of the log, but for links with an end that no event up to theirs has said; a full reprojection restores it |
| `capture_claude` | a watcher and another importer, 3 lines, window 2, 2 batches, 1 death | 338 476 | nothing imported twice or out of order without an overlap; a pass that returns has imported all; every line is imported in the end if the watcher lives |
| `capture_codex` | 1 importer, 2 lines | violation | an output whose call was imported before is never imported |
| `owner_lifecycle` | 3 servers and a process that only repairs, 2 crashes, 1 break | 919 847 | one owner, which can be found; only unreachable owners are killed; a repair does not leave an owner without a socket alone |

Why the bounds are enough to be of interest:
- *Eventloom*. Two writers are what a lost update takes; two calls each, so that an
  append lands on a log with a tail, on a cut one and on a torn one; two events
  are the least batch that can be cut in the middle. With three writers of one
  call a reader's two reads have appends before, between and after. A crash is
  not counted: it ends the call, and calls are bounded.
- *ReinforcementQueue*. Three specs give a head, one in the middle and a tail;
  two flushes and the task are all pairs of drains; two failures are a failure
  and a failed retry (or a failed exit hook).
- *VerifiedForgetting*. Three cells: one being forgotten, one being stored, one at
  rest. Two crashes: one in the erasure and one in whatever follows.
- *RetrievalCache*. Records of two or three bytes, the last of them the newline, so that
  after a rewrite an old offset may be the end of a record, its newline or neither; three
  calls: fill, extend or overwrite from a second thread, and observe. `Threshold` = 1, so that both long
  tails (rewrite the checkpoint) and empty ones occur.
- *FleetGovernance*. All promotions have one key and different values, the worst
  case for conflicts; three give a chain of supersessions; four calls let a
  chain be rolled back. One agent is enough because authority only widens what
  one may do: more agents add only refusals; the checks themselves are in the
  guards.
- *CoordinationMission*. Two findings are what a conflict, a shared id and a batch
  need; two values of one key, one without evidence, make every gate of a promotion
  open and shut; a batch decides twice, and may decide twice on one finding. Any
  two calls can overlap at every append. With one worker both findings are in one
  log, where default ids can meet.
- *GraphProjection*. Three events: one before, one after, and one to be cut, refused
  or late. The extracts make a name change, stay the same, be linked and not be
  linked; one says an entity twice, differently, and links it with itself; one links an
  end that only another one says, if any. Two tools are an invalidation and the reprojection after it, or a partial reprojection and a full one.
- *TranscriptCapture*. A window of two over three lines lets a line leave it; the third
  line may be the output of the first or of the second. The batch repeats a
  reference and has an item without one; handed in twice, it is a retry.
- *OwnerRuntime*. An owner, two contenders that meet it and each other, and a
  process whose repair may not kill. Two crashes kill an owner and who repairs it.

`CHECK_DEADLOCK FALSE` is set everywhere because every bound on calls lets a
behaviour come to rest. No run uses symmetry. Every property has a mutant in
`PROJECT.json` under which its run finds it violated.

## 4. What the models show of the code's promises

Two runs end in a counterexample; `PROJECT.json` quotes the lines.
1. **An erased key comes back** (`forgetting.py:157`): a server that loaded the
   vault before another process erased a key writes it back with its next store.
2. **Codex capture loses the output of a command** (`codex_capture.py:101`): a line
   that is in the log already is skipped before its call is noted, so the output of a
   call that an earlier pass imported is skipped by every later one.

Three more disagreements are behaviours of the models, and exceptions, as narrow as
the code allows, of the properties of passing runs:
- **A stale replay after a restore** (`retrieval_cache.py:198`): the log is put back from
  an older copy, and what is appended then makes the cached offset the last newline of
  the file (a record one byte longer than what was lost does). `read_from_offset` skips it
  as a blank line, nothing is there to verify, and the replay of the lost log is returned,
  and cached under the new signature. The docstring (lines 15-18) says that "any offset
  skew or log rewrite surfaces as a seq/hash mismatch". `ResultIsOfCall` excepts the
  replays that were `kept` in this way, and no other.
- **Relations that are never made** (`embedded_graph_store.py:554`): an event whose rule
  does not say an end of its link loses it without an error (`task.claimed`, and reviews
  and promotions of findings), unless an earlier event has said the end under the type
  `entity`; the status reports integrity, and no reprojection helps. The rule says "Link
  actor to claimed task." (`extract/rules_workflow.py:112`), the roadmap lists the others
  under "Required edges" (`docs/coordinate-roadmap.md:214-221`). `GraphTellsLog` and
  `ReprojectionRestores` demand the links whose ends an event up to theirs has said
  (`KnownLinks`).
- **Half a character ends a watcher** (`claude_capture.py:119`): a transcript that ends
  inside a UTF-8 character raises `UnicodeDecodeError`, which neither the reader nor
  the watch loop catches (`Garbled`); nothing starts the watcher again.
  `tests/test_claude_capture.py:341` says that undecodable lines are skipped.
  `EventuallyImported` holds while the watcher lives.

Some promises hold only under a condition, which the property of a passing run
states. What the models do outside the condition:
- A process that dies inside `append_many` leaves the first events of its batch,
  although `docs/external-ingest.md:13` calls the batch atomic; no property asks for
  more than prefixes.
- Overlapping drains of the reinforcement queue append the same head and pop two
  specs, of which one may be lost (`overlapped` in `NothingLostAlone`).
- Two processes that make the key-encryption key at once, or rewrite the vault from
  their copies, drop each other's keys (`KeptReadable` is checked for one process).
- The verbatim index survives a log that was replaced by a shorter one: an empty
  tail verifies against any anchor (exception in `ResultIsOfCall`, which otherwise
  excepts only the `kept` replays).
- Rollback of a fleet promotion that was itself superseded brings its loser back
  beside its own successor (exception in `ConflictsSettled`).
- Two agents of one worker that report at once get one default id; promoting one
  finding makes the other accepted as well (exception in `NoLeakWithOwnIds`).
- A reprojection reopens what `memory_invalidate` closed, since no event says it; an
  event that cannot be extracted keeps the rest of its batch out of the graph and
  makes every reprojection roll back; the status does not see an upsert that was
  cut; a reprojection over the old store restores the present, not the past
  (exceptions in `GraphTellsLog`, `ReprojectionRestores`).
- A relation of an entity with itself (a function that calls itself) is lost at the
  next version of the entity: what is carried over has one end closed now and the
  other open, and here both are closed (`embedded_graph_store.py:2188`; exception in
  `IsFold`).
- A link to an entity that an earlier event says is lost when the earlier event is not
  in the graph yet, until a replay (`KnownLinks` in `IsFold`, which the status must
  precede).
- Capture passes that overlap import the same lines twice; a line that leaves the
  window before any pass has seen it is never imported (`Undisturbed`, `Observable`).
- A reaper that clears the files after its kill holds no lock: a new owner that has
  published by then is robbed of them (`robbed` in `OwnerReachable`). A repair may end
  with a warning while the owner it has killed is not gone yet, or is a zombie: it has
  been sent SIGKILL, and no more is promised (`BrokenIsReaped`). An owner that hangs
  behind a socket that listens is healthy to every repair. A server whose
  claim fails because of an owner that ends right then neither repairs nor claims
  again, waits for a record and fails (`cli/serving.py:2063`).

## 5. Fairness

Three specifications assume any. `Eventloom!FairSpec`: weak fairness of a
writer's own steps (`Lock`, `Build`, `Refuse`, `Write`, `Return`): a process that runs
goes on, and the kernel grants a free lock. That suffices for `EveryCallEnds`
because calls are bounded; strong fairness, which `flock` does not promise, would
be needed against endless competitors. `ReinforcementQueue!FairSpec`: the event
loop runs every ready coroutine, an append ends (lands or fails), and a worker
thread ends. `TranscriptCapture!FairSpec`: a call that has begun goes on, whoever
made it, and a *watcher* begins a new pass when there is none, as its loop does
(`cli/workspace.py:526-534`) for as long as it lives. Nothing starts it again, nor
calls the Stop hook or a producer, so none of that is assumed, and `EventuallyImported`
holds while the watcher lives. Calls, crashes, failures, the end of the loop and
the choice of what is written are never forced. `OwnerRuntime` assumes none: nothing
in the code makes an owner that hangs end, a killed process vanish in time, or a client
try again.

## 6. The proofs

The proof modules hold for any sets of processes, readers, agents, promotions,
cells, findings, servers and transcripts, and any bounds; tlapm checks every leaf.
Each invariant below was checked by TLC on the run of its component before it was
proved. All safety properties and action properties of the passing runs are proved;
`ReturnedIsImported` is false of a Codex transcript, and proved of Claude's.

**Eventloom** (`TypeCorrect`, `ChainIsUnbroken`, `AckedIsDurable`). Neither property
is inductive: that the file is linked does not say that what a writer is about to
write continues it. `IInv` adds that exactly the lock's owner is building
(`LockInv`), that a batch in hand ends in an event and its newline (`PendingInv`),
that the file *followed by what each writer still has to write* is linked
(`ChainInv`; for a writer without the lock this is the file), and that every
event built is in the file or pending (`BuiltInv`). A `Write` moves tokens from one
to the other and leaves the concatenation as it was; a `Crash` takes a prefix of
it (`LinkedPrefix`) and perhaps a torn record (`LinkedTorn`); a `Build` extends it
(`LinkedAppend`).

A second invariant says what readers may meet (`ReadersSeeSettled`,
`FollowersAreExact`, `TornIsFinal`). `BatchesInv`: the events of the settled part of
the file are whole batches, but for calls recorded in `cut`, and a batch in hand is
complete once its last item is built; an unreadable last line is in nobody's hand.
`ReadersInv`: whatever a reader has read or compared is an *earlier state of the log*, a
prefix of complete batches, and the events of a replay are a prefix of what its verdict
was computed from. Both rest on lemmas about `Events`, the events of a piece of the file,
which is a recursive function: what it is of a file with one more token
(`EventsAppend`) and of two pieces (`EventsConcat`).

`Implementation` proves the refinement of `AppendOnlyLog`. `InitRefines` maps the initial
state; `StepRefines` maps each step: `LogExtends` says that a step adds to the settled
events a chain that continues them, or nothing, and `ReturnAcks` that a return
acknowledges exactly events that it has just settled. Assumption: `EventloomAssumption`
(bounds are naturals, the two "nobody" values are none of the others).

**ReinforcementQueue** (`TypeCorrect`, `NothingIsLost`, `AppendsAreFaithful`). The
properties are conditional, so half of the invariant is: unless drains have overlapped,
the queue is what is left of the specs that were enqueued (`SuffixInv`), the one drain that
has an append in hand writes its head (`WriterInv`), and what is popped is in the log, of
the rest at most the head (`LogInv`). The other half holds always: what the registry of
the exit hook knows, and what the end of the loop leaves behind (`EndInv`); without it a
worker thread that outlives the loop could race the exit hook unnoticed. Assumption:
`ReinforcementAssumption`.

**VerifiedForgetting** (`TypeCorrect`, `ErasuresAreAudited`; `RecordIsTrue`,
`ErasedStaysErased`, `KeptIsReadable`). The audit holds for any processes, because a
call's own steps order gate, erasure and tombstone (`CallsInv`) and the log never
shrinks. The other three do not (section 4) and are proved from `OneProcess`, any two
processes are the same: then its copy is the file (`CopyInv`), there is one
key-encryption key (`KekInv`), and a call that stores a key does so for a cell that is
in no log (`StoringInv`), so that it cannot undo an erasure of a sealed one
(`ErasedInv`). Assumption: `ForgettingAssumption`.

**RetrievalCache** (`TypeCorrect`, `AnswersAreTheLog`). What is stored under a signature
was read later than the signature was taken, with an offset taken later still. `IInv`
says what is true of such an entry all the same. `SeenSince`: what it holds was the log at
the time of its signature or since, so as long as the file has that signature it is the
log, and whoever looked at the file since has seen it. `Past`: a cached replay was the log
once, so an event that it shares with the present log has the same past in both; this
survives a log that is replaced, and makes an extension by a tail that verifies against
its last event right wherever its offset points. An empty tail verifies nothing: then the
replay is the log only if nothing is behind its offset. As long as no log is replaced
that is so, because an offset is where a record ends (`Boundary`), and an event that is
appended lies behind it (`KeptOK`: nothing is `kept`); after that the property excepts
what is `kept`, and an entry that holds it (`IsKept`). For the index, which is not verified against
anything when the tail is empty, the stronger `Exact` is needed (the entry is how the log
begins, up to its offset), which is why its property ends with the first replaced log.
`From(k)` is defined by the position in the log of the first event beyond the offset;
`FromIs` and `WithTail` are what the proofs use of it. Assumptions:
`RetrievalCacheAssumption`, and `NoneAssumption` (the value for "absent" is no event, entry
or list of events).

**FleetGovernance** (`TypeCorrect`, `HeldPromotionsWait`, `KeystonesStand`). The
danger is what a manager decided before others appended. `Inv` says of every call
in hand (`CallOK`) that what it will review, roll back or supersede is in the
thread, and that what it will supersede *was once allowed and is no keystone*.
This survives everything the others append because the fold never drops a
memory, never changes the claim of one (only the first event of a promotion
counts), and nothing is taken out of `allowed` (`Grows`, `CallStaysOK`). Each append
then has one lemma for what its fold does to the projection (`PromotedType`,
`ReviewedType`, `SupersededType`, `RolledBackType`) and one that it keeps the
invariant; `KeystonesStand` is an action property of the same invariant.

`SettlesConflicts` and `ChangesAreJustified` speak of calls that do not overlap, and need
`SettledInv`: at most one call is in hand (`OneCall`), what it is to supersede and what for
are in effect (`Sound`), the winner that a superseded memory names was not rolled back
since (`WinnerStands`: the rollback of a winner restores all that it superseded), and
until there is a rollback every open conflict is in hand of the one call that settles
it (`ConflictsInHand`). When no call is in hand, none is open. Assumptions:
`FleetAssumption`, and `NoneAssumption` (the value for "absent" is neither a memory nor a
tier).

**CoordinationMission** (`TypeCorrect`, `PromotionsAreReviewed`, `NothingLeaks`,
`ConflictsRecordedOnce`, `BatchesApply`). Again what counts is what a call knows between
its last read and its append. `GateOK`: a promotion in hand cites evidence and was let
through, and *stands* (no review withdrew it) unless two deciding calls have overlapped,
since only their reviews could. `RecordOK`: a conflict in hand is not recorded, unless two
recordings overlapped. `DefaultIds`, `UniqueIds` and `NewIdOK`: a default id says where its
finding is, also for the finding in hand, as long as nobody passed an id again and no two
reports of a worker overlapped; accepted state then holds what was promoted and nothing
beside it. `BatchOK`: all that is left of a batch stays valid while its own decisions are
appended one by one, so that it is never refused half-way. Assumptions:
`MissionAssumption` (an id that a caller passes has not the form of a default id; a batch
is a sequence of decisions, at least one: an empty one does nothing).

**TranscriptCapture** (`TypeCorrect`, `CapturesAreFaithful`, `ClaudePassesImportAll`). That
lines enter the log in order is not inductive, since passes leave lines out: half-written
ones, and those outside of the window. `LogOK` says that of no line in the log could an
earlier one still be taken: it is there, or can no longer be observed (and never will be:
windows only move on), or its call is known to a scan that skips what it knows. `TodoOK`
says the same of every line that a pass is about to append, once those before it are
appended; that is why a death in the middle of an append does no harm. `NewOK` holds
of calls that no append has overlapped, `DueOK` of all calls over a Claude transcript.
`AscendingIs` and `FreshIs` say what the two loops of the code take. Assumption:
`ImportAssumption` (the references of captures and of producers are of different kinds:
they are kept under different keys of a payload, `claude_capture.py:157`,
`core/fabric_write.py:103`).

**OwnerRuntime**, in `EmbeddedGraph_proofs` (`OwnerTypeCorrect`, `OwnerIsOne`, `BrokenOwnersAreReaped`,
`OnlyUnreachableAreReaped`). That the lock has one holder is in the type invariant;
`WritersInv` ties the open graph to the steps that hold it. The harder part is what a
reaper knows when it kills, long after it looked: `TargetInv` says that its target has
published at some time, and that, if it serves still, the socket file in place is not
its own. Then record and socket cannot both lead to it: a record that names it is
answered by nobody. Nobody gives a serving owner its socket back, and who clears or
makes the file holds the lock or has robbed an owner (`FilesInv`). Once it was sent
SIGKILL, a target is dying or dead, also where the repair that waits for it gives up.
`FoundInv` says that the broken owner a repair has met stays its target until it is shut
down, killed or gone: while it lives it holds the lock, so no other socket can pass for
its own. Assumption:
`RuntimeAssumption`.

**GraphProjection**, in `EmbeddedGraph_proofs` (`GraphTypeCorrect`, `SearchFindsOne`,
`IntegrityIsEnough`, `FullReprojectionRestores`). The difficulty is that an event may be
projected before its predecessor, in part, or twice, and that the status counts events
and links, not what they say. `GraphInv` has three layers.
1. *Always* (`SaneNow`): a name has one open version at most, and the cache misses none
   that is open, though it may know of one that was closed (`CacheBounds`); relations
   have both ends; a link means that the predecessor is there (`Chained`); every
   version says what its event says, and was closed by hand or by an event of the graph
   that says something of the same name (`Attested`). Every prefix of the statements
   of an upsert keeps this (`PartlyUpsertedSane`), and what tasks still have to project
   is apart, and not in the graph (`PendingNow`).
2. *Unless an upsert was cut, or something invalidated* (`TellsNow`): what is told of a
   name at present is what *some* event of the graph says, and between that event and
   any later one that mentions the name a link is missing (`LastTold`). This survives
   projections out of order: an old event that comes late and is told instead leaves a
   gap behind it, which no later projection closes, since a link is made only
   when its event is projected, and the events of tasks are different ones. The
   status reports integrity only if all events and links are there
   (`IntegrityIs`): then no gap is left, and what is told is what the last event says
   (`WholeIsFold`). A link needs more: it is made only if its ends are found, and an
   event that says one may come later than the link. So `Related` speaks of the events
   all of whose predecessors are in the graph and linked (`Solid`), and of links whose
   ends one of these, or the event itself, says (`Known`): of these ends something is
   told (`Lasts`), so they are found (`Finds`). An event that comes late makes no other
   event solid, as no link to it is there yet. Where the status reports integrity, all
   events are solid.
3. *If events were projected in order, too* (`RemembersNow`): events are there from the
   first without a gap, and what a search for the time of an event finds agrees with that
   event, and finds something of whatever it mentions (`Hist`). The step must hold for a
   replay over newer versions, so `Hist` counts an open version only as far as the
   replay has come, or if it is younger (`FoundAt`, `HistStep`).

An upsert is described once, by what it leaves (`Upserted`, from `UpsertIs` and, per
assertion, `AssertedSame`, `AssertedFirst`, `AssertedAnew`), so that nothing after it
looks at its statements again. A replay is described by `Caught`: what is told of a
name is either what it was, and no replayed event mentions it, or what the last replayed
event says that does; `ReplayedIs` proves this for a replay of any length. What the
replayed events link is related if all events before the replay are there and told
(`Grounded`, `CaughtFinds`). From the
first event on, everything is replayed, so `FoldReady` holds afterwards, whatever the store
was. Assumptions: `ExtractsAssumption` (the type of what a rule makes of an event, and no
more: a rule may link what it does not say, and say a name twice and differently),
`MarksAssumption` (the
values for "open" and "nothing" are no time and no version), `BoundsAssumption`.

**Induction.** The theorems of the library that take an operator as a parameter cannot be
used, so where a fact about sequences of any length is needed it is proved from a least
counterexample: the set of the lengths at which it fails is a set of naturals, and if it is
not empty it has a least member (`NatMin`, from `WFMin`). That recursive functions exist
(`FiltersExist`, `LoopExists`, `EntersExists`, `ReplaysExists`) and what they compute is
proved this way.

**Model-checked only.** Liveness (`EveryCallEnds`, `FlushReturns`, `EventuallyImported`) is
outside the prover's reach, as is `ENABLED`. `EventuallyImported` has the safety property
beside it that a pass that returns has imported all (`ReturnedIsImported`), which is proved.

## 7. Abstracted, or left out

*Inside the modelled parts.*
- A hash is the identity of an event: SHA-256 is taken as injective on content
  that is never repeated. Tampering with a file from outside is not modelled.
- The v1 and legacy record formats, `tail_events`/`last_event` (reads of the same
  tail), and a failing `flush` whose data is written again when the file object is
  closed (disk full) are not modelled.
- The reinforcement queue: SIGKILL, which loses what is only in memory; the
  projection of an append (a log append counts as done when it is sealed).
- The vault: two *threads* of one process rewriting it through the same temporary
  name; the gate's verdict, which `verified_forget` records but does not obey.
- The cache: a checkpoint that fails to parse is one that is absent. A call may
  raise (`Raised`) after a rewrite in which the cached offset is inside a record; the
  properties are about calls that return.
- The fleet: conflict detection is equality of key and difference of value; the
  confidence policy is its verdict, either one; the deferred alternatives of an
  offline policy, briefs and audits only read. Calls that overlap can supersede
  each other or revive a rejected memory: the properties under `alone` say what
  holds without overlap, and `HeldUntilAccepted`/`KeystoneStands` what holds always.
- Missions: assignments, escalations, hand-offs, synthesis decisions and approvals
  are appends that no modelled guard reads; conflicts with the source state and notes
  of sources are left out. An id that a caller passes may be one that is taken, but not
  one of the form `<worker>:finding:<n>` that the code would make up itself; the code
  does not look.
- The graph: all relations are of one type and carry no expiry; the other
  stores (`graph.py`, `latticedb_store.py`, `pggraph_store.py`), vectors and text search, and
  `retire_source_projections` are left out; time is the number of an event.
- Capture: the git observations of Codex, how session files are found, the files
  of the capture manager. What a line says is kept only as far as pairing needs it.
- The owner runtime: the bytes that are proxied; the test by `/proc` that a pid is a
  `zaxy serve` of this store is taken as right but for a process that is dying, which may
  have no command line any more; the backlog of a socket that hangs has room; pids are
  never reused; transports other than stdio take no lock.

*Components not modelled.*
- *Evolution writes* (outcomes, edits, rollbacks): gated single appends, no protocol
  between them beyond what `VerifiedForgetting` and `GraphProjection` have.
- *Extraction, retrieval planning, synthesis*: pure functions of one event or one
  text. *Ranking, salience, crystallization*: floating-point scores over a replay.
- *Facade, MCP server, command line, dashboard, viewer*: dispatch, I/O, rendering.
  *Onboarding, hooks*: write configuration of other programs. *Benchmarks*: measure.
- *Plugin worker, packet sink, context refresh, refs*: have state and are in the plan.

The map covers a small share of the 132 000 lines of the repository. Most of these
are benchmarks, stateless extraction and text rules, argument parsing and rendering:
they have no states to explore, and a model of them would restate them. What has
state that outlives a call, is shared between processes, or is written in more than
one step is concentrated in the files of section 1.

## 8. The plan

Done: the nine components of section 1 with a module; proofs of every safety and action
property that the passing runs check.

Next for the proofs: a statement of what one *file* promises that `TranscriptCapture`
and `CoordinationMission` use as one step, proved once over `AppendOnlyLog`. Then that
`GraphProjection` does not depend on how the statements of an upsert are cut: its first
layer needs no history variable and could be stated of any prefix at once.

Next for the models: the plugin worker (deadline against late answer,
`plugin_subprocess.py:148`) and the packet sink (a thread that ends,
`packet_analyzer.py:99`), then context refresh and refs. `GraphProjection` and
`OwnerRuntime` could be composed: a new owner opens the store a killed one has left in
the middle of an upsert. Their union is represented today by `Crash` in the first.

## 9. How to run

```
tlc -workers 2 -config EventloomWriters.cfg Eventloom.tla
tlc -workers 2 -config MissionGoverned.cfg MCCoordinationMission.tla
tlapm CoordinationMission_proofs.tla
tlapm EmbeddedGraph_proofs.tla
tlapm Eventloom_proofs.tla
tlapm FleetGovernance_proofs.tla
tlapm ReinforcementQueue_proofs.tla
tlapm RetrievalCache_proofs.tla
tlapm TranscriptCapture_proofs.tla
tlapm VerifiedForgetting_proofs.tla
```
Each run of `PROJECT.json` names its module and configuration; the longest takes
under two minutes, the proofs a few minutes each from nothing.

----------------------------- MODULE Eventloom -----------------------------
(***************************************************************************)
(* One session log: the JSONL file of src/src/zaxy/event.py, written by    *)
(* several processes under an exclusive flock and read under a shared one. *)
(*                                                                         *)
(* The file is a sequence of tokens.  A complete record is the token of    *)
(* its event, followed by a newline token; a crash in the middle of a      *)
(* write leaves any prefix of what the writer had to write: it may cut a   *)
(* record in two (the torn token), or cut it from its newline.             *)
(* A byte offset is a number of tokens.                                    *)
(*                                                                         *)
(* The hash of an event is its identity: SHA-256 over content that is      *)
(* never repeated is taken to be injective.                                *)
(***************************************************************************)
EXTENDS Integers, Sequences, FiniteSets

CONSTANTS Writer,        \* processes that append
          Reader,        \* processes that replay or follow the log
          NoHash,        \* prev_hash of the first event
          Nobody,        \* no process holds the exclusive lock
          MaxOps,        \* bound: append_many calls a writer makes
          MaxBatch,      \* bound: events of one call
          MaxReplays     \* bound: replays a reader makes

ASSUME EventloomAssumption ==
  /\ MaxOps \in Nat
  /\ MaxBatch \in Nat \ {0}
  /\ MaxReplays \in Nat
  /\ Nobody \notin Writer
  /\ NoHash \notin [by : Writer, op : Nat, idx : Nat, of : Nat]

VARIABLES
  file,        \* the JSONL file, a sequence of tokens
  owner,       \* holder of LOCK_EX, or Nobody
  pc,          \* pc[w]: where writer w is in append_many
  op,          \* op[w]: number of append_many calls w has started
  size,        \* size[w]: number of items of the current call
  bad,         \* bad[w]: position of an item that fails validation, or 0
  built,       \* built[w]: number of events built so far in this call
  pending,     \* pending[w]: tokens of the batch not yet in the file
  base,        \* length of the file when the current owner got the lock
  acked,       \* identities returned to callers (history)
  cut,         \* <<w, n>>: calls of which a crash left only a part (history)
  phase,       \* phase[r]: "idle", or "read" between the reads of a replay
  replaying,   \* replaying[r]: what the first read of a replay read
  report,      \* report[r]: result of the last replay
  replays,     \* replays[r]: number of replays r has finished
  cursor,      \* cursor[r]: offset of an incremental reader
  seen         \* seen[r]: what its reads have read so far (history)

writerVars == <<file, owner, pc, op, size, bad, built, pending, base, acked, cut>>
readerVars == <<phase, replaying, report, replays, cursor, seen>>
vars == <<writerVars, readerVars>>
-----------------------------------------------------------------------------
(* The idx-th of the `of` events of the op-th call of writer by. *)
Id == [by : Writer, op : Nat, idx : Nat, of : Nat]

Event == [kind : {"event"}, seq : Nat, id : Id, prev : Id \cup {NoHash}]
Newline == [kind |-> "newline"]
Torn == [kind |-> "torn"]
Token == Event \cup {Newline, Torn}

IsEvent(t) == t.kind = "event"

(* The events of a piece of the file, in order. *)
Events(f) ==
  LET upTo[n \in 0..Len(f)] ==
        IF n = 0 THEN <<>>
        ELSE IF IsEvent(f[n]) THEN Append(upTo[n - 1], f[n]) ELSE upTo[n - 1]
  IN  upTo[Len(f)]

(* Every line of f is one complete record: nothing is torn, and no record  *)
(* stands on the line of another.  The last newline may be missing.        *)
Parses(f) ==
  \A i \in DOMAIN f :
    /\ f[i] # Torn
    /\ i > 1 /\ IsEvent(f[i]) => ~ IsEvent(f[i - 1])

(* Mutation of TailAt: a torn last line is skipped, not refused. *)
TailAt_SkipTorn(f) ==
  LET events == {i \in DOMAIN f : IsEvent(f[i])}
  IN  IF events = {} THEN 0 ELSE CHOOSE i \in events : \A j \in events : j <= i

(* Position of the last event of f if the last line of f parses, 0 if f is *)
(* empty, -1 if json.loads of the last line raises.                        *)
TailAt(f) ==
  LET n == Len(f)
      k == IF n > 0 /\ f[n] = Newline THEN n - 1 ELSE n
  IN  CASE n = 0 -> 0
        [] n > 0 /\ k > 0 /\ IsEvent(f[k]) /\ (k > 1 => ~ IsEvent(f[k - 1])) -> k
        [] OTHER -> -1

(* verify_event_chain over a whole log. *)
ChainOk(events) ==
  \A i \in DOMAIN events :
    /\ events[i].seq = i
    /\ events[i].prev = IF i = 1 THEN NoHash ELSE events[i - 1].id

-----------------------------------------------------------------------------
Init ==
  /\ file = <<>>
  /\ owner = Nobody
  /\ pc = [w \in Writer |-> "idle"]
  /\ op = [w \in Writer |-> 0]
  /\ size = [w \in Writer |-> 0]
  /\ bad = [w \in Writer |-> 0]
  /\ built = [w \in Writer |-> 0]
  /\ pending = [w \in Writer |-> <<>>]
  /\ base = 0
  /\ acked = {}
  /\ cut = {}
  /\ phase = [r \in Reader |-> "idle"]
  /\ replaying = [r \in Reader |-> <<>>]
  /\ report = [r \in Reader |-> [events |-> <<>>, verified |-> <<>>, ok |-> TRUE]]
  /\ replays = [r \in Reader |-> 0]
  /\ cursor = [r \in Reader |-> 0]
  /\ seen = [r \in Reader |-> <<>>]

(* append_many is called with n items, of which the b-th is invalid        *)
(* (b = 0: none is).  The call waits for the exclusive lock.               *)
Call(w, n, b) ==
  /\ pc[w] = "idle"
  /\ op[w] < MaxOps
  /\ op' = [op EXCEPT ![w] = @ + 1]
  /\ size' = [size EXCEPT ![w] = n]
  /\ bad' = [bad EXCEPT ![w] = b]
  /\ pc' = [pc EXCEPT ![w] = "waiting"]
  /\ UNCHANGED <<file, owner, built, pending, base, acked, cut, readerVars>>

(* Mutation of Lock: the lock is shared, and does not exclude a writer. *)
Lock_Shared(w) ==
  /\ pc[w] = "waiting"
  /\ owner' = w
  /\ base' = Len(file)
  /\ built' = [built EXCEPT ![w] = 0]
  /\ pc' = [pc EXCEPT ![w] = "building"]
  /\ UNCHANGED <<file, op, size, bad, pending, acked, cut, readerVars>>

(* flock(LOCK_EX) returns: nobody holds it, and a shared lock is held only *)
(* within one read step.                                                   *)
Lock(w) ==
  /\ pc[w] = "waiting"
  /\ owner = Nobody
  /\ owner' = w
  /\ base' = Len(file)
  /\ built' = [built EXCEPT ![w] = 0]
  /\ pc' = [pc EXCEPT ![w] = "building"]
  /\ UNCHANGED <<file, op, size, bad, pending, acked, cut, readerVars>>

(* The record sealed for the next item: against the locked file tail for   *)
(* the first item, against the event built just before for the others.     *)
NextEvent(w) ==
  LET b     == pending[w]
      first == b = <<>> /\ TailAt(file) = 0
      last  == IF b = <<>> THEN file[TailAt(file)] ELSE b[Len(b) - 1]
  IN  [kind |-> "event",
       seq  |-> IF first THEN 1 ELSE last.seq + 1,
       id   |-> [by |-> w, op |-> op[w], idx |-> built[w] + 1, of |-> size[w]],
       prev |-> IF first THEN NoHash ELSE last.id]

(* One turn of the loop over the items. *)
Build(w) ==
  /\ pc[w] = "building"
  /\ built[w] < size[w]
  /\ TailAt(file) >= 0
  /\ built[w] + 1 # bad[w]
  /\ pending' = [pending EXCEPT ![w] = @ \o <<NextEvent(w), Newline>>]
  /\ built' = [built EXCEPT ![w] = @ + 1]
  /\ UNCHANGED <<file, owner, pc, op, size, bad, base, acked, cut, readerVars>>

(* The call is over, one way or another: its locals are gone and, by the   *)
(* finally clause or by the kernel, so is its lock.                        *)
Leave(w) ==
  /\ owner' = IF owner = w THEN Nobody ELSE owner
  /\ base' = IF owner = w THEN 0 ELSE base
  /\ pc' = [pc EXCEPT ![w] = "idle"]
  /\ size' = [size EXCEPT ![w] = 0]
  /\ bad' = [bad EXCEPT ![w] = 0]
  /\ built' = [built EXCEPT ![w] = 0]
  /\ pending' = [pending EXCEPT ![w] = <<>>]

(* Mutation of Refuse: the exception leaves without the finally clause. *)
Refuse_KeepsLock(w) ==
  /\ pc[w] = "building"
  /\ built[w] < size[w]
  /\ TailAt(file) < 0 \/ built[w] + 1 = bad[w]
  /\ pc' = [pc EXCEPT ![w] = "idle"]
  /\ pending' = [pending EXCEPT ![w] = <<>>]
  /\ UNCHANGED <<file, owner, op, size, bad, built, base, acked, cut, readerVars>>

(* An exception before anything is written: the last line does not parse,  *)
(* or an item fails validation.                                            *)
Refuse(w) ==
  /\ pc[w] = "building"
  /\ built[w] < size[w]
  /\ TailAt(file) < 0 \/ built[w] + 1 = bad[w]
  /\ Leave(w)
  /\ UNCHANGED <<file, op, acked, cut, readerVars>>

(* writelines and flush hand the batch to the file in one write or more. *)
Write(w, k) ==
  /\ pc[w] = "building"
  /\ built[w] = size[w]
  /\ pending[w] # <<>>
  /\ file' = file \o SubSeq(pending[w], 1, k)
  /\ pending' = [pending EXCEPT ![w] = SubSeq(@, k + 1, Len(@))]
  /\ UNCHANGED <<owner, pc, op, size, bad, built, base, acked, cut, readerVars>>

(* Mutation of BatchIds: the events returned do not name their writer. *)
BatchIds_Anonymous(w) ==
  {[by |-> Nobody, op |-> op[w], idx |-> i, of |-> size[w]] : i \in 1..size[w]}

BatchIds(w) ==
  {[by |-> w, op |-> op[w], idx |-> i, of |-> size[w]] : i \in 1..size[w]}

(* Mutation of Return: the caller is answered before the batch is written. *)
Return_Early(w) ==
  /\ pc[w] = "building"
  /\ built[w] = size[w]
  /\ acked' = acked \cup BatchIds(w)
  /\ Leave(w)
  /\ UNCHANGED <<file, op, cut, readerVars>>

(* fsync, unlock, and the events are returned to the caller. *)
Return(w) ==
  /\ pc[w] = "building"
  /\ built[w] = size[w]
  /\ pending[w] = <<>>
  /\ acked' = acked \cup BatchIds(w)
  /\ Leave(w)
  /\ UNCHANGED <<file, op, cut, readerVars>>

(* The process dies and is started again.  Whatever of the current write   *)
(* had reached the file stays: k tokens of it, and possibly the beginning  *)
(* of the next record.                                                     *)
Crash(w, k, torn) ==
  /\ pc[w] # "idle"
  /\ k > 0 \/ torn => built[w] = size[w]
  /\ torn => k < Len(pending[w]) /\ IsEvent(pending[w][k + 1])
  /\ file' = file \o SubSeq(pending[w], 1, k) \o (IF torn THEN <<Torn>> ELSE <<>>)
  /\ cut' = IF owner = w /\ k < Len(pending[w]) /\ Len(file') > base
              THEN cut \cup {<<w, op[w]>>}
              ELSE cut
  /\ Leave(w)
  /\ UNCHANGED <<op, acked, readerVars>>
-----------------------------------------------------------------------------
(* Mutation of CanRead: a reader takes no lock. *)
CanRead_NoLock == TRUE

(* A shared lock is granted when nobody holds the exclusive one. *)
CanRead == owner = Nobody

(* replay, first read: the events.  A file that does not parse raises. *)
ReplayEvents(r) ==
  /\ phase[r] = "idle"
  /\ replays[r] < MaxReplays
  /\ CanRead
  /\ replays' = [replays EXCEPT ![r] = @ + 1]
  /\ IF Parses(file)
       THEN /\ phase' = [phase EXCEPT ![r] = "read"]
            /\ replaying' = [replaying EXCEPT ![r] = file]
       ELSE UNCHANGED <<phase, replaying>>
  /\ UNCHANGED <<writerVars, report, cursor, seen>>

(* replay, second read: verify reads the file again. *)
ReplayVerify(r) ==
  /\ phase[r] = "read"
  /\ CanRead
  /\ phase' = [phase EXCEPT ![r] = "idle"]
  /\ replaying' = [replaying EXCEPT ![r] = <<>>]
  /\ IF Parses(file)
       THEN report' = [report EXCEPT ![r] = [events   |-> replaying[r],
                                             verified |-> file,
                                             ok       |-> ChainOk(Events(file))]]
       ELSE UNCHANGED report
  /\ UNCHANGED <<writerVars, replays, cursor, seen>>

(* Mutation of Follow: the next cursor leaves out the last record. *)
Follow_ShortCursor(r) ==
  LET rest == SubSeq(file, cursor[r] + 1, Len(file))
  IN  /\ CanRead
      /\ cursor[r] < Len(file)
      /\ Parses(rest)
      /\ cursor' = [cursor EXCEPT ![r] = Len(file) - 2]
      /\ seen' = [seen EXCEPT ![r] = @ \o rest]
      /\ UNCHANGED <<writerVars, phase, replaying, report, replays>>

(* read_from_offset from the cursor of the previous call. *)
Follow(r) ==
  LET rest == SubSeq(file, cursor[r] + 1, Len(file))
  IN  /\ CanRead
      /\ cursor[r] < Len(file)
      /\ Parses(rest)
      /\ cursor' = [cursor EXCEPT ![r] = Len(file)]
      /\ seen' = [seen EXCEPT ![r] = @ \o rest]
      /\ UNCHANGED <<writerVars, phase, replaying, report, replays>>

WriterStep(w) ==
  \/ Lock(w)
  \/ Build(w)
  \/ Refuse(w)
  \/ \E k \in 1..Len(pending[w]) : Write(w, k)
  \/ Return(w)

Next ==
  \/ \E w \in Writer :
       \/ \E n \in 1..MaxBatch : \E b \in 0..n : Call(w, n, b)
       \/ WriterStep(w)
       \/ \E k \in 0..Len(pending[w]), torn \in BOOLEAN : Crash(w, k, torn)
  \/ \E r \in Reader :
       \/ ReplayEvents(r)
       \/ ReplayVerify(r)
       \/ Follow(r)

Spec == Init /\ [][Next]_vars

(* A process that is running makes progress; calls and crashes may cease.  *)
FairSpec == Spec /\ \A w \in Writer : WF_vars(WriterStep(w))
-----------------------------------------------------------------------------
TypeOK ==
  /\ file \in Seq(Token)
  /\ owner \in Writer \cup {Nobody}
  /\ pc \in [Writer -> {"idle", "waiting", "building"}]
  /\ op \in [Writer -> Nat]
  /\ size \in [Writer -> Nat]
  /\ bad \in [Writer -> Nat]
  /\ built \in [Writer -> Nat]
  /\ pending \in [Writer -> Seq(Token)]
  /\ base \in Nat
  /\ acked \subseteq Id
  /\ cut \subseteq Writer \X Nat
  /\ phase \in [Reader -> {"idle", "read"}]
  /\ replaying \in [Reader -> Seq(Token)]
  /\ report \in [Reader -> [events : Seq(Token), verified : Seq(Token), ok : BOOLEAN]]
  /\ replays \in [Reader -> Nat]
  /\ cursor \in [Reader -> Nat]
  /\ seen \in [Reader -> Seq(Token)]

(* Position of the event before the event at position j of f. *)
Before(f, j) == IF IsEvent(f[j - 1]) THEN j - 1 ELSE j - 2

(* Every event of f is linked to the event before it, also across a lost   *)
(* newline.                                                                *)
Linked(f) ==
  \A j \in DOMAIN f : IsEvent(f[j]) =>
    \/ /\ j = 1
       /\ f[j].seq = 1
       /\ f[j].prev = NoHash
    \/ /\ j > 1
       /\ Before(f, j) \in DOMAIN f
       /\ IsEvent(f[Before(f, j)])
       /\ f[j].seq = f[Before(f, j)].seq + 1
       /\ f[j].prev = f[Before(f, j)].id

(* The file is one hash chain whatever the writers and their crashes do:   *)
(* no two appends are built on the same predecessor, which is why          *)
(* append_many builds the batch under the exclusive lock.                  *)
ChainUnbroken == Linked(file)

(* What append_many returned to a caller is in the file, for ever. *)
AckedDurable ==
  \A id \in acked : \E i \in DOMAIN file : IsEvent(file[i]) /\ file[i].id = id

(* The part of the file that is not being written. *)
Settled == SubSeq(file, 1, IF owner = Nobody THEN Len(file) ELSE base)

(* The batches of the events in `events` are complete, the calls in `dead` *)
(* excepted.                                                               *)
WholeBatches(events, dead) ==
  \A i \in DOMAIN events :
    \/ <<events[i].id.by, events[i].id.op>> \in dead
    \/ \A k \in 1..events[i].id.of :
         \E j \in DOMAIN events : events[j].id = [events[i].id EXCEPT !.idx = k]

(* No reader, locked only for each read, ever sees part of a batch that is *)
(* being written: neither replay nor an incremental reader.                *)
ReadsWholeBatches ==
  \A r \in Reader : /\ WholeBatches(Events(report[r].events), cut)
                    /\ WholeBatches(Events(seen[r]), cut)

(* The verdict of a replay covers the events it returns, although they     *)
(* come from two different reads of the file.                              *)
VerdictCoversEvents ==
  \A r \in Reader :
    /\ report[r].ok
    /\ Len(report[r].events) <= Len(report[r].verified)
    /\ report[r].events = SubSeq(report[r].verified, 1, Len(report[r].events))

(* What readers return, each read under the lock but nothing held between  *)
(* two reads, is a state of the log between two calls.                     *)
ReadsSettled == ReadsWholeBatches /\ VerdictCoversEvents

(* "incremental readers never miss or duplicate events": what a reader has *)
(* been given by successive read_from_offset calls is exactly the file     *)
(* before its cursor, also when a crash has cut a record or its newline.   *)
FollowerExact ==
  \A r \in Reader : seen[r] = SubSeq(file, 1, cursor[r])

(* Nothing is ever built on a torn record: a log that ends in one refuses  *)
(* every append.                                                           *)
TornTailIsFinal ==
  [][Len(file) > 0 /\ file[Len(file)] = Torn => UNCHANGED <<file, acked>>]_vars

(* Every call is answered (or its process dies), because every way out of  *)
(* the critical section, the exceptional ones too, releases the lock.      *)
EveryCallEnds == \A w \in Writer : pc[w] = "waiting" ~> pc[w] = "idle"

(* The log implements the abstract one: an append appears at once, when    *)
(* the lock is released.                                                   *)
Log == INSTANCE AppendOnlyLog WITH log <- Events(Settled), acked <- acked
ImplementsAppendOnlyLog == Log!LogSpec
=============================================================================

---------------------------- MODULE TranscriptCapture ----------------------------
(***************************************************************************)
(* The two ways in which events of other programs reach a session log, and *)
(* the reference that is to make them idempotent:                          *)
(*                                                                         *)
(*   - claude_capture.py and codex_capture.py scan the transcript that a   *)
(*     coding client writes line by line and append the turns, tool calls  *)
(*     and command outputs in it, each under the reference of its line;    *)
(*   - WriteEngine.append_batch (core/fabric_write.py) appends a batch a   *)
(*     producer hands it, each item under the producer's own reference.    *)
(*                                                                         *)
(* Both read the references that the log holds, leave out what is known,   *)
(* and append the rest with append_many, whose lock they do not hold while *)
(* they read.  A watcher, a Stop hook and producers run at once, and each  *)
(* may die in its append.  A line of a transcript keeps whether it is an   *)
(* output, and of which call; an event is its reference.  An append that   *)
(* is cut leaves whole records: the torn one is in module Eventloom.  The  *)
(* git-status observations of Codex, which take no line of a transcript,   *)
(* and the projection of what was imported are left out.                   *)
(***************************************************************************)
EXTENDS Naturals, Sequences, SequencesExt

CONSTANTS
  Importer,    \* those who run capture passes or call append_batch
  Watcher,     \* those of them that are one process, `capture ... --watch`; any
               \* other stands for the commands of the Stop hook and the
               \* producers, each call of which is a process of its own
  Client,      \* whose capture it is: "claude" or "codex"
  Window,      \* max_records_per_file
  ProducerRef, \* the references of producers
  NoRef,       \* of an item without a producer_ref
  Batches,     \* the batches a producer may hand in, sequences of references
  MaxRecords,  \* bound: lines of the transcript
  MaxIngests,  \* bound: calls of append_batch
  MaxCuts      \* bound: importers that die in their append

\* The references of a capture and those of producers are kept under payload
\* keys of their own, and are never taken for one another.
ASSUME ImportAssumption ==
  /\ Watcher \subseteq Importer
  /\ Client \in {"claude", "codex"}
  /\ Window \in Nat \ {0}
  /\ NoRef \notin ProducerRef
  /\ (ProducerRef \cup {NoRef}) \cap (1..MaxRecords) = {}
  /\ Batches \subseteq Seq(ProducerRef \cup {NoRef})
  /\ MaxRecords \in Nat /\ MaxIngests \in Nat /\ MaxCuts \in Nat

VARIABLES
  transcript, \* the lines of the client's session file
  torn,       \* whether its last line is still being written
  split,      \* whether what is there of it ends inside a character
  log,        \* the references in the session log, in its order
  at,         \* where each importer is
  known,      \* the references a pass has read from the log, until it scans
  todo,       \* the references it is about to append
  due,        \* history: what it has found to import, known or not
  raced,      \* history: whether the log has grown since it read the references
  ingests,    \* calls of append_batch so far
  cuts        \* deaths so far

vars == <<transcript, torn, split, log, at, known, todo, due, raced, ingests, cuts>>

Line == 1..MaxRecords
Ref == Line \cup ProducerRef

\* A line of the transcript: 0 for one that is an observation by itself, a turn
\* or a call of the shell, and for the output of a call the line of that call.
\* Lines that are no observation never come to anything and are left out.
Record == {0} \cup Line

References(l) == Range(l) \cap Ref

-----------------------------------------------------------------------------
(* The scan of a transcript *)

\* The lines that parse: a line that is half-written is no JSON and is skipped,
\* unless it ends inside a character (see Garbled).
Whole == IF torn THEN Len(transcript) - 1 ELSE Len(transcript)

\* rows[-max_records_per_file:]
InWindow(i) == i <= Whole /\ i + Window > Whole

\* An output is recorded with the command of its call, which this scan must
\* have met on an earlier line; a turn or a call is an observation by itself.
Observable(i) ==
  /\ InWindow(i)
  /\ transcript[i] # 0 => InWindow(transcript[i])

(* Mutation of MeetsCall: a call that was imported before is not noted. *)
MeetsCall_Unknown(i, refs) == transcript[i] # 0 => transcript[i] \notin refs

\* pending_calls: the Claude scan notes every call it passes; the Codex scan
\* leaves a line that is in the log before it looks at it.
MeetsCall(i, refs) ==
  transcript[i] # 0 => Client = "claude" \/ transcript[i] \notin refs

\* The numbers up to m that are in S, as a loop over 1..m meets them.
Ascending(m, S) ==
  LET upTo[n \in 0..m] ==
        IF n = 0 THEN << >>
        ELSE IF n \in S THEN Append(upTo[n - 1], n) ELSE upTo[n - 1]
  IN  upTo[m]

New(i, refs) == Observable(i) /\ i \notin refs /\ MeetsCall(i, refs)

(* Mutation of Produced: the last line is left to the next pass. *)
Produced_ButLast(refs) ==
  Ascending(Whole, {i \in 1..(Whole - 1) : New(i, refs)})

Produced(refs) == Ascending(Whole, {i \in 1..Whole : New(i, refs)})

(* Mutation of Fresh: the items are compared with the log only. *)
Fresh_InLog(batch, refs) == SelectSeq(batch, LAMBDA r : r = NoRef \/ r \notin refs)

\* append_batch keeps the first item of each reference the log does not hold,
\* and every item without a reference.
Fresh(batch, refs) ==
  LET keep == {i \in DOMAIN batch :
                 \/ batch[i] = NoRef
                 \/ batch[i] \notin refs /\ \A j \in 1..(i - 1) : batch[j] # batch[i]}
      kept == Ascending(Len(batch), keep)
  IN  [n \in DOMAIN kept |-> batch[kept[n]]]

-----------------------------------------------------------------------------
Init ==
  /\ transcript = << >> /\ torn = FALSE /\ split = FALSE
  /\ log = << >>
  /\ at = [p \in Importer |-> "idle"]
  /\ known = [p \in Importer |-> {}]
  /\ todo = [p \in Importer |-> << >>]
  /\ due = [p \in Importer |-> {}]
  /\ raced = [p \in Importer |-> FALSE]
  /\ ingests = 0 /\ cuts = 0

\* The client starts the next line of its transcript, goes on with it, its writes
\* ending anywhere in the bytes of its UTF-8, and ends it.  A call is answered
\* once.
Write(record) ==
  /\ ~torn /\ Len(transcript) < MaxRecords
  /\ record # 0 =>
       /\ record \in DOMAIN transcript /\ transcript[record] = 0
       /\ record \notin Range(transcript)
  /\ transcript' = Append(transcript, record)
  /\ torn' = TRUE /\ split' \in BOOLEAN
  /\ UNCHANGED <<log, at, known, todo, due, raced, ingests, cuts>>

WriteOn ==
  /\ torn
  /\ split' = ~split
  /\ UNCHANGED <<transcript, torn, log, at, known, todo, due, raced, ingests, cuts>>

EndLine ==
  /\ torn
  /\ torn' = FALSE /\ split' = FALSE
  /\ UNCHANGED <<transcript, log, at, known, todo, due, raced, ingests, cuts>>

\* A process that dies: nobody starts a watcher again, and the next call of any
\* other importer is a process of its own.
Dead(p) == IF p \in Watcher THEN "dead" ELSE "idle"

\* A capture pass reads the references in the log ...
BeginCapture(p) ==
  /\ at[p] = "idle"
  /\ at' = [at EXCEPT ![p] = "scan"]
  /\ known' = [known EXCEPT ![p] = References(log)]
  /\ raced' = [raced EXCEPT ![p] = FALSE]
  /\ UNCHANGED <<transcript, torn, split, log, todo, due, ingests, cuts>>

\* ... and then the transcript, as it is by now ...
Scan(p) ==
  /\ at[p] = "scan" /\ ~split
  /\ at' = [at EXCEPT ![p] = "append"]
  /\ todo' = [todo EXCEPT ![p] = Produced(known[p])]
  /\ due' = [due EXCEPT ![p] = {i \in DOMAIN transcript : Observable(i)}]
  /\ known' = [known EXCEPT ![p] = {}]
  /\ UNCHANGED <<transcript, torn, split, log, raced, ingests, cuts>>

\* ... unless it ends inside a character: the file is read as UTF-8, which raises
\* UnicodeDecodeError.  That is neither a JSONDecodeError nor an OSError, and the
\* loop of a watcher catches a KeyboardInterrupt only.
Garbled(p) ==
  /\ at[p] = "scan" /\ split
  /\ at' = [at EXCEPT ![p] = Dead(p)]
  /\ known' = [known EXCEPT ![p] = {}]
  /\ UNCHANGED <<transcript, torn, split, log, todo, due, raced, ingests, cuts>>

\* A producer hands in a batch, again after a failure.  An invalid item rejects
\* the batch before anything is read or written.
BeginIngest(p, batch) ==
  /\ at[p] = "idle" /\ p \notin Watcher /\ ingests < MaxIngests
  /\ ingests' = ingests + 1
  /\ at' = [at EXCEPT ![p] = "append"]
  /\ todo' = [todo EXCEPT ![p] = Fresh(batch, References(log))]
  /\ due' = [due EXCEPT ![p] = References(batch)]
  /\ raced' = [raced EXCEPT ![p] = FALSE]
  /\ UNCHANGED <<transcript, torn, split, log, known, cuts>>

(* Mutation of Appended: what was appended stays for the next call. *)
Appended_Keeps(p, n, next) ==
  /\ at[p] = "append"
  /\ log' = log \o SubSeq(todo[p], 1, n)
  /\ at' = [at EXCEPT ![p] = next]
  /\ UNCHANGED <<transcript, torn, split, known, todo, due, raced, ingests>>

\* The first n of the references that p holds reach the log, and p is next.
Appended(p, n, next) ==
  LET new == SubSeq(todo[p], 1, n) IN
  /\ at[p] = "append"
  /\ log' = log \o new
  /\ at' = [at EXCEPT ![p] = next]
  /\ todo' = [todo EXCEPT ![p] = << >>]
  /\ due' = [due EXCEPT ![p] = {}]
  /\ raced' = [q \in Importer |-> q # p /\ (raced[q] \/ (at[q] # "idle" /\ n > 0))]
  /\ UNCHANGED <<transcript, torn, split, known, ingests>>

\* append_many, under its lock, and the return of the call.
AppendMany(p) ==
  /\ Appended(p, Len(todo[p]), "idle")
  /\ UNCHANGED cuts

\* The importer dies before or in its append.
Cut(p) ==
  /\ cuts < MaxCuts
  /\ cuts' = cuts + 1
  /\ \E n \in 0..Len(todo[p]) : n < Len(todo[p]) /\ Appended(p, n, Dead(p))

Next ==
  \/ \E record \in Record : Write(record)
  \/ WriteOn \/ EndLine
  \/ \E p \in Importer :
       BeginCapture(p) \/ Scan(p) \/ Garbled(p) \/ AppendMany(p) \/ Cut(p)
  \/ \E p \in Importer, batch \in Batches : BeginIngest(p, batch)

Spec == Init /\ [][Next]_vars

\* A call that has begun goes on, and a watcher starts a pass again and again,
\* for as long as it lives; nobody has to call anything else.
GoesOn(p) == Scan(p) \/ Garbled(p) \/ AppendMany(p)

FairSpec ==
  /\ Spec
  /\ \A p \in Importer : WF_vars(GoesOn(p))
  /\ \A p \in Watcher : WF_vars(BeginCapture(p))

-----------------------------------------------------------------------------
\* Every variable has its type, and an importer holds references only between
\* the two ends of a call.
TypeOK ==
  /\ transcript \in Seq(Record) /\ torn \in BOOLEAN /\ split \in BOOLEAN
  /\ log \in Seq(Ref \cup {NoRef})
  /\ at \in [Importer -> {"idle", "scan", "append", "dead"}]
  /\ known \in [Importer -> SUBSET Ref]
  /\ todo \in [Importer -> Seq(Ref \cup {NoRef})]
  /\ due \in [Importer -> SUBSET Ref]
  /\ raced \in [Importer -> BOOLEAN]
  /\ ingests \in 0..MaxIngests /\ cuts \in 0..MaxCuts
  /\ \A p \in Importer : todo[p] # << >> => at[p] = "append"
  /\ \A p \in Importer : known[p] # {} => at[p] = "scan"
  /\ \A p \in Importer : at[p] = "dead" => p \in Watcher
  /\ split => torn

\* The log once p has appended what it holds.  The next properties speak of
\* a p since whose read no other call has appended: nothing locks the log over
\* the two, and calls that overlap do repeat each other.
Undisturbed(p) == at[p] = "append" /\ ~raced[p]
Grown(p) == log \o todo[p]
Added(p) == (Len(log) + 1)..Len(Grown(p))

\* "Capture is idempotent" and "Re-running the same batch is a no-op": over any
\* sequence of passes, batches, deaths and retries, a call appends no reference
\* that the log holds and none twice.
ImportedOnce ==
  \A p \in Importer : Undisturbed(p) =>
    \A j \in Added(p), i \in DOMAIN Grown(p) :
      i < j /\ Grown(p)[i] = Grown(p)[j] => Grown(p)[j] = NoRef

\* The lines of a transcript enter the log in its order, also when a pass was
\* cut in its append, found a line half-written or saw less than the whole file.
TranscriptOrder ==
  \A p \in Importer : Undisturbed(p) =>
    \A j \in Added(p), i \in DOMAIN Grown(p) :
      i < j /\ {Grown(p)[i], Grown(p)[j]} \subseteq Line => Grown(p)[i] < Grown(p)[j]

\* What a call appends to the log is the transcript, once and in order.
CapturedFaithfully == ImportedOnce /\ TranscriptOrder

\* When a pass or a batch returns, all that it had before it is in the log: the
\* turns, the calls and the outputs of every whole line in its window, each
\* referenced item of the batch; also when an earlier attempt was cut after some
\* of them, or the call of an output was imported before the output was there.
ReturnedIsImported ==
  [][\A p \in Importer : AppendMany(p) => due[p] \subseteq References(log')]_vars

\* While a watcher lives, each line that can be observed is in the log in the
\* end, unless it leaves the window first: no half-written line, no death of
\* another importer and no overlap of passes makes it pass over a line for good.
EventuallyImported ==
  \A p \in Watcher, i \in Line :
    (i <= Whole /\ Observable(i)) ~>
      (i \in References(log) \/ ~Observable(i) \/ at[p] = "dead")
=============================================================================

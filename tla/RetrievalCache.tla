--------------------------- MODULE RetrievalCache ---------------------------
(***************************************************************************)
(* The retrieval caches of src/src/zaxy/retrieval_cache.py: per process    *)
(* and session, the verified replay and the verbatim index of one log,     *)
(* extended with what was appended since, and the two checkpoint files     *)
(* that a cold process starts from.  The threads of a process (the calls   *)
(* are offloaded with asyncio.to_thread) share its caches without a lock.  *)
(*                                                                         *)
(* An index is represented by the events it was built from.  The log is    *)
(* that of module Eventloom, whole records only: a batch appears at once,  *)
(* and a read is under the shared lock.                                    *)
(***************************************************************************)
EXTENDS Integers, Sequences

CONSTANTS Thread,       \* threads that read
          Process,      \* processes
          Home,         \* Home[t]: the process of thread t
          Lanes,        \* what is read: "replay", "index"
          None,         \* no cache entry, no checkpoint, no event, no result
          Raised,       \* the call raised an exception
          Threshold,    \* _VERBATIM_REPERSIST_TAIL_THRESHOLD
          MaxAppends,   \* bound: events appended
          MaxSize,      \* bound: bytes of a record, its newline included
          MaxRewrites,  \* bound: times the log is replaced by an older copy
          MaxCalls      \* bound: calls

ASSUME RetrievalCacheAssumption ==
  /\ Home \in [Thread -> Process]
  /\ Lanes \subseteq {"replay", "index"}
  /\ MaxSize \in Nat \ {0, 1}
  /\ {Threshold, MaxAppends, MaxRewrites, MaxCalls} \subseteq Nat

VARIABLES
  log,         \* the events of the session log
  mtime,       \* modification time of the log file
  appended,    \* number of events ever appended
  rewrites,    \* number of times the log was replaced
  cache,       \* cache[p][l]: cache entry of process p, or None
  tip,         \* the replay-tip checkpoint: [seq, id], or None
  checkpoint,  \* the verbatim checkpoint: [events, offset], or None
  pc,          \* pc[t]: where the call of thread t is
  lane,        \* lane[t]: what it reads
  sig,         \* sig[t]: signature it has taken of the log file
  found,       \* found[t]: the cache entry it looked up, or None
  read,        \* read[t]: the events it has read and will store, or None
  result,      \* result[t]: what it returned, None, or Raised
  during,      \* during[t]: contents of the log since its call (history)
  kept,        \* replays that were kept because nothing was behind them (history)
  calls        \* number of calls

logVars == <<log, mtime, appended, rewrites>>
vars == <<logVars, cache, tip, checkpoint, pc, lane, sig, found, read, result, during, kept, calls>>
-----------------------------------------------------------------------------
(* An event carries the byte offset of its end in the file. *)
Last(s) == s[Len(s)]
End(s) == IF s = <<>> THEN 0 ELSE Last(s).end
Size == End(log)

(* _eventlog_file_signature. *)
Signature == <<mtime, Size>>

(* read_from_offset: the events after byte k.  It skips blank lines, so k  *)
(* may be the end of a record or the newline that ends it; inside a record *)
(* it raises.                                                              *)
Readable(k) == k >= Size \/ k = 0 \/ \E i \in DOMAIN log : log[i].end \in {k, k + 1}
From(k) ==
  LET n == CHOOSE n \in 0..Len(log) : \A i \in DOMAIN log : log[i].end > k + 1 <=> i > n
  IN  SubSeq(log, n + 1, Len(log))

(* verify_event_chain of the events s that follow the event e (or None). *)
Follows(s, e) ==
  \A i \in DOMAIN s :
    LET before == IF i > 1 THEN s[i - 1] ELSE e
    IN  IF before = None
          THEN s[i].seq = 1 /\ s[i].prev = None
          ELSE s[i].seq = before.seq + 1 /\ s[i].prev = before.id

LastOf(s) == IF s = <<>> THEN None ELSE Last(s)
TipOf(s) == [seq |-> Last(s).seq, id |-> Last(s).id]

Reading(t) == pc[t] \notin {"idle", "done"}
-----------------------------------------------------------------------------
Init ==
  /\ log = <<>>
  /\ mtime = 0
  /\ appended = 0
  /\ rewrites = 0
  /\ cache = [p \in Process |-> [l \in Lanes |-> None]]
  /\ tip = None
  /\ checkpoint = None
  /\ pc = [t \in Thread |-> "idle"]
  /\ lane = [t \in Thread |-> None]
  /\ sig = [t \in Thread |-> None]
  /\ found = [t \in Thread |-> None]
  /\ read = [t \in Thread |-> None]
  /\ result = [t \in Thread |-> None]
  /\ during = [t \in Thread |-> {}]
  /\ kept = {}
  /\ calls = 0

Witness(content) ==
  during' = [t \in Thread |-> IF Reading(t) THEN during[t] \cup {content} ELSE during[t]]

(* A writer, in any process, appends an event of n bytes, one of them the  *)
(* newline.                                                                *)
AppendEvent(n) ==
  /\ appended < MaxAppends
  /\ appended' = appended + 1
  /\ mtime' = mtime + 1
  /\ log' = Append(log, [seq  |-> Len(log) + 1,
                         id   |-> appended + 1,
                         prev |-> IF log = <<>> THEN None ELSE Last(log).id,
                         end  |-> Size + n])
  /\ Witness(log')
  /\ UNCHANGED <<rewrites, cache, tip, checkpoint, pc, lane, sig, found, read, result, kept, calls>>

(* The file is replaced by an older copy, its first k events, while no     *)
(* call is reading it.                                                     *)
Rewrite(k) ==
  /\ rewrites < MaxRewrites
  /\ \A t \in Thread : ~ Reading(t)
  /\ rewrites' = rewrites + 1
  /\ mtime' = mtime + 1
  /\ log' = SubSeq(log, 1, k)
  /\ UNCHANGED <<appended, cache, tip, checkpoint, pc, lane, sig, found, read, result, during, kept, calls>>

(* A call takes the signature of the file. *)
Stat(t, l) ==
  /\ ~ Reading(t)
  /\ calls < MaxCalls
  /\ calls' = calls + 1
  /\ pc' = [pc EXCEPT ![t] = "lookup"]
  /\ lane' = [lane EXCEPT ![t] = l]
  /\ sig' = [sig EXCEPT ![t] = Signature]
  /\ result' = [result EXCEPT ![t] = None]
  /\ during' = [during EXCEPT ![t] = {log}]
  /\ UNCHANGED <<logVars, cache, tip, checkpoint, found, read, kept>>

(* The call of t returns r (or raises). *)
Return(t, r) ==
  /\ pc' = [pc EXCEPT ![t] = "done"]
  /\ result' = [result EXCEPT ![t] = r]
  /\ found' = [found EXCEPT ![t] = None]
  /\ read' = [read EXCEPT ![t] = None]

(* The entry of the process of t becomes `events`, read up to `offset`,    *)
(* under the signature taken first; and t returns them.                    *)
Keep(t, events, offset) ==
  /\ cache' = [cache EXCEPT ![Home[t]][lane[t]] =
                 [sig |-> sig[t], events |-> events, offset |-> offset]]
  /\ Return(t, events)

(* The call looks its process's entry up: a hit, an entry to extend, or a  *)
(* cold start.                                                             *)
Lookup(t) ==
  LET entry == cache[Home[t]][lane[t]]
  IN  /\ pc[t] = "lookup"
      /\ IF entry # None /\ entry.sig = sig[t]
           THEN Return(t, entry.events)
           ELSE /\ found' = [found EXCEPT ![t] = entry]
                /\ pc' = [pc EXCEPT ![t] =
                            IF entry # None /\ sig[t][2] > entry.offset THEN "extend" ELSE "cold"]
                /\ UNCHANGED <<read, result>>
      /\ UNCHANGED <<logVars, cache, tip, checkpoint, lane, sig, during, kept, calls>>

(* The appended tail is read and verified against the cached prefix; if it *)
(* is empty the cached replay is kept as it is.                            *)
ExtendReplay(t) ==
  LET prefix == found[t].events
      tail   == From(found[t].offset)
  IN  /\ pc[t] = "extend"
      /\ lane[t] = "replay"
      /\ \/ /\ ~ Readable(found[t].offset)
            /\ Return(t, Raised)
            /\ UNCHANGED <<cache, kept>>
         \/ /\ Readable(found[t].offset)
            /\ tail = <<>>
            /\ Keep(t, prefix, Size)
            /\ kept' = kept \cup {prefix}
         \/ /\ Readable(found[t].offset)
            /\ tail # <<>>
            /\ Follows(tail, LastOf(prefix))
            /\ Keep(t, prefix \o tail, Size)
            /\ UNCHANGED kept
         \/ /\ Readable(found[t].offset)
            /\ ~ Follows(tail, LastOf(prefix))
            /\ pc' = [pc EXCEPT ![t] = "cold"]
            /\ UNCHANGED <<cache, found, read, result, kept>>
      /\ UNCHANGED <<logVars, tip, checkpoint, lane, sig, during, calls>>

(* Mutation of ColdReplay: a cold replay without a usable tip is kept. *)
ColdReplay_Unchecked(t) ==
  /\ pc[t] = "cold"
  /\ lane[t] = "replay"
  /\ read' = [read EXCEPT ![t] = IF tip # None THEN log ELSE None]
  /\ pc' = [pc EXCEPT ![t] = "store"]
  /\ UNCHANGED <<logVars, tip, cache, checkpoint, lane, sig, found, result, during, kept, calls>>

(* A cold replay anchored on the tip: its event must be in the log, and    *)
(* what follows it must verify.  The tip moves to the end of the log.      *)
ColdReplay(t) ==
  /\ pc[t] = "cold"
  /\ lane[t] = "replay"
  /\ IF /\ tip # None
        /\ tip.seq \in DOMAIN log
        /\ log[tip.seq].id = tip.id
        /\ Follows(SubSeq(log, tip.seq + 1, Len(log)), log[tip.seq])
       THEN /\ read' = [read EXCEPT ![t] = log]
            /\ tip' = TipOf(log)
            /\ pc' = [pc EXCEPT ![t] = "store"]
       ELSE /\ pc' = [pc EXCEPT ![t] = "full"]
            /\ UNCHANGED <<read, tip>>
  /\ UNCHANGED <<logVars, cache, checkpoint, lane, sig, found, result, during, kept, calls>>

(* The full replay: the whole log, and its verification. *)
FullReplay(t) ==
  /\ pc[t] = "full"
  /\ lane[t] = "replay"
  /\ read' = [read EXCEPT ![t] = log]
  /\ pc' = [pc EXCEPT ![t] = "save"]
  /\ UNCHANGED <<logVars, cache, tip, checkpoint, lane, sig, found, result, during, kept, calls>>

(* Mutation of Store: the entry is stored under the signature of now. *)
Store_NewSignature(t) ==
  /\ pc[t] \in {"store", "save"}
  /\ cache' = [cache EXCEPT ![Home[t]][lane[t]] =
                 [sig |-> Signature, events |-> read[t], offset |-> Size]]
  /\ Return(t, read[t])
  /\ tip' = IF pc[t] = "save" /\ read[t] # <<>> THEN TipOf(read[t]) ELSE tip
  /\ UNCHANGED <<logVars, checkpoint, lane, sig, during, kept, calls>>

(* The size of the file is taken, after the read, as the offset of what    *)
(* was read; a full replay also moves the tip.                             *)
Store(t) ==
  /\ pc[t] \in {"store", "save"}
  /\ Keep(t, read[t], Size)
  /\ tip' = IF pc[t] = "save" /\ read[t] # <<>> THEN TipOf(read[t]) ELSE tip
  /\ UNCHANGED <<logVars, checkpoint, lane, sig, during, kept, calls>>

(* The index is extended with what was appended behind its offset. *)
ExtendIndex(t) ==
  /\ pc[t] = "extend"
  /\ lane[t] = "index"
  /\ IF Readable(found[t].offset)
       THEN Keep(t, found[t].events \o From(found[t].offset), Size)
       ELSE Return(t, Raised) /\ UNCHANGED cache
  /\ UNCHANGED <<logVars, tip, checkpoint, lane, sig, during, kept, calls>>

(* The checkpoint is loaded and extended with the tail behind its offset,  *)
(* if that verifies; it is written again when the tail is long.            *)
LoadIndex(t) ==
  /\ pc[t] = "cold"
  /\ lane[t] = "index"
  /\ IF /\ checkpoint # None
        /\ Readable(checkpoint.offset)
        /\ Follows(From(checkpoint.offset), Last(checkpoint.events))
       THEN LET tail   == From(checkpoint.offset)
                events == checkpoint.events \o tail
            IN  /\ Keep(t, events, Size)
                /\ checkpoint' = IF tail # <<>> /\ Len(tail) >= Threshold
                                   THEN [events |-> events, offset |-> Size]
                                   ELSE checkpoint
       ELSE /\ pc' = [pc EXCEPT ![t] = "full"]
            /\ UNCHANGED <<cache, checkpoint, found, read, result>>
  /\ UNCHANGED <<logVars, tip, lane, sig, during, kept, calls>>

(* The index is built from the whole log, and its checkpoint written. *)
RebuildIndex(t) ==
  /\ pc[t] = "full"
  /\ lane[t] = "index"
  /\ Keep(t, log, Size)
  /\ checkpoint' = IF log = <<>> THEN checkpoint ELSE [events |-> log, offset |-> Size]
  /\ UNCHANGED <<logVars, tip, lane, sig, during, kept, calls>>

(* invalidate(session_id) in process p. *)
Invalidate(p) ==
  /\ cache' = [cache EXCEPT ![p] = [l \in Lanes |-> None]]
  /\ tip' = None
  /\ checkpoint' = None
  /\ UNCHANGED <<logVars, pc, lane, sig, found, read, result, during, kept, calls>>

(* Process p starts again, without its caches. *)
Restart(p) ==
  /\ \A t \in Thread : Home[t] = p => ~ Reading(t)
  /\ cache' = [cache EXCEPT ![p] = [l \in Lanes |-> None]]
  /\ UNCHANGED <<logVars, tip, checkpoint, pc, lane, sig, found, read, result, during, kept, calls>>

Next ==
  \/ \E n \in 2..MaxSize : AppendEvent(n)
  \/ \E k \in 0..Len(log) - 1 : Rewrite(k)
  \/ \E t \in Thread :
       \/ \E l \in Lanes : Stat(t, l)
       \/ Lookup(t)
       \/ ExtendReplay(t)
       \/ ColdReplay(t)
       \/ FullReplay(t)
       \/ Store(t)
       \/ ExtendIndex(t)
       \/ LoadIndex(t)
       \/ RebuildIndex(t)
  \/ \E p \in Process : Invalidate(p) \/ Restart(p)

Spec == Init /\ [][Next]_vars
-----------------------------------------------------------------------------
Event == [seq : Nat, id : Nat, prev : Nat \cup {None}, end : Nat]
Sig == Nat \X Nat
CacheEntry == [sig : Sig, events : Seq(Event), offset : Nat]

ASSUME NoneAssumption == None \notin Nat \cup Event \cup CacheEntry \cup Seq(Event)

TypeOK ==
  /\ log \in Seq(Event)
  /\ mtime \in Nat
  /\ appended \in 0..MaxAppends
  /\ rewrites \in 0..MaxRewrites
  /\ cache \in [Process -> [Lanes -> CacheEntry \cup {None}]]
  /\ tip \in [seq : Nat, id : Nat] \cup {None}
  /\ checkpoint \in [events : Seq(Event), offset : Nat] \cup {None}
  /\ pc \in [Thread -> {"idle", "lookup", "extend", "cold", "full", "store", "save", "done"}]
  /\ lane \in [Thread -> Lanes \cup {None}]
  /\ sig \in [Thread -> Sig \cup {None}]
  /\ found \in [Thread -> CacheEntry \cup {None}]
  /\ read \in [Thread -> Seq(Event) \cup {None}]
  /\ result \in [Thread -> Seq(Event) \cup {None, Raised}]
  /\ during \in [Thread -> SUBSET Seq(Event)]
  /\ kept \in SUBSET Seq(Event)
  /\ \A t \in Thread :
       /\ (found[t] # None) => (pc[t] \in {"extend", "cold", "full", "store", "save"})
       /\ (read[t] # None) <=> (pc[t] \in {"store", "save"})
  /\ calls \in 0..MaxCalls

(* What the call of t returned is the content of the log at some moment of *)
(* that call.                                                              *)
ReturnsLog(t) == result[t] \in during[t]

Returned(t, l) == pc[t] = "done" /\ lane[t] = l /\ result[t] # Raised

(* A verified replay returns the log of its call, although it was put      *)
(* together from a signature, an offset and events taken at different      *)
(* times, by several threads and processes, also of a log that was         *)
(* replaced in between.  The exception: after a replacement the cached     *)
(* offset may be the last newline of the new log, the tail behind it is    *)
(* empty, and _extend_replay keeps a replay of the old log.                *)
ReplayIsOfCall ==
  \A t \in Thread : Returned(t, "replay") =>
    ReturnsLog(t) \/ (rewrites > 0 /\ result[t] \in kept)

(* "the result is identical to a full rebuild": the same of the index, as  *)
(* long as the log only grows.                                             *)
IndexIsOfCall ==
  rewrites = 0 => \A t \in Thread : Returned(t, "index") => ReturnsLog(t)

(* Neither cache ever answers with anything but the log of the call, the   *)
(* replays kept of a replaced log excepted.                                *)
ResultIsOfCall == ReplayIsOfCall /\ IndexIsOfCall
=============================================================================

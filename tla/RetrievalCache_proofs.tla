----------------------- MODULE RetrievalCache_proofs -----------------------
(***************************************************************************)
(* Proofs about module RetrievalCache, for any number of threads,          *)
(* processes, events and calls: neither cache ever answers with anything   *)
(* but the log of the call, or, once the log was replaced, with a replay   *)
(* that an extension has kept because it read nothing behind it.           *)
(***************************************************************************)
EXTENDS RetrievalCache, SequenceTheorems, WellFoundedInduction, TLAPS

(* The caches claim what follows of every replay, and of the index until   *)
(* the log is replaced for the first time. *)
Trusted(l) == l = "replay" \/ rewrites = 0

(* The log is a chain; ids grow along it, and byte offsets by at least two. *)
LogOK ==
  \A i \in DOMAIN log :
    /\ log[i].id \in 1..appended
    /\ log[i].prev = IF i = 1 THEN None ELSE log[i - 1].id
    /\ log[i].end > 1
    /\ \A j \in DOMAIN log : i < j => log[i].id < log[j].id /\ log[i].end + 1 < log[j].end

(* s was the log once: an event that is in both has the same past in both. *)
Past(s) ==
  \A i \in DOMAIN s :
    /\ s[i].id \in 1..appended
    /\ \A j \in DOMAIN log : s[i].id = log[j].id => i = j /\ \A k \in 1..i : s[k] = log[k]

(* s is how the log begins, up to the byte `offset`. *)
Exact(s, offset) ==
  /\ Len(s) <= Len(log)
  /\ \A k \in DOMAIN s : s[k] = log[k]
  /\ offset = End(s)

(* Byte k is where a record of the log ends. *)
Boundary(k) == k = 0 \/ \E i \in DOMAIN log : log[i].end = k

(* What is cached of lane l. *)
Built(l, s, offset) ==
  IF l = "replay" THEN Past(s) /\ (rewrites = 0 => Boundary(offset)) ELSE Exact(s, offset)

(* s was the log at the time m of a signature or after it: as long as the  *)
(* file is the same it still is, and whoever has called since has seen it. *)
SeenSince(m, s) ==
  /\ m <= mtime
  /\ m = mtime => s = log
  /\ \A t \in Thread : Reading(t) /\ sig[t][1] <= m => s \in during[t]

(* Or s was kept of a log that has been replaced. *)
IsKept(l, s) == l = "replay" /\ s \in kept

EntryOK(l, e) ==
  e # None /\ Trusted(l) =>
    /\ SeenSince(e.sig[1], e.events) \/ IsKept(l, e.events)
    /\ Built(l, e.events, e.offset)

EntriesOK == \A p \in Process, l \in Lanes : EntryOK(l, cache[p][l])

CheckpointOK ==
  checkpoint # None /\ rewrites = 0 => Exact(checkpoint.events, checkpoint.offset)

(* The call of t, until it returns. *)
ReadingOK(t) ==
  Reading(t) =>
    /\ lane[t] \in Lanes
    /\ sig[t] \in Sig
    /\ sig[t][1] <= mtime
    /\ sig[t][2] <= Size
    /\ log \in during[t]
    /\ found[t] # None /\ Trusted(lane[t]) => Built(lane[t], found[t].events, found[t].offset)
    /\ pc[t] = "extend" => found[t] # None /\ found[t].offset < sig[t][2]
    /\ pc[t] \in {"store", "save"} =>
         lane[t] = "replay" /\ SeenSince(sig[t][1], read[t]) /\ Past(read[t])

(* The call of t, once it has returned. *)
ResultOK(t) ==
  pc[t] = "done" /\ Trusted(lane[t]) /\ result[t] # Raised =>
    result[t] \in during[t] \/ IsKept(lane[t], result[t])

(* As long as the log only grows there is something behind every offset. *)
KeptOK == rewrites = 0 => kept = {}

(* The inductive invariant. *)
IInv ==
  /\ TypeOK
  /\ LogOK
  /\ EntriesOK
  /\ CheckpointOK
  /\ KeptOK
  /\ \A t \in Thread : ReadingOK(t) /\ ResultOK(t)

-----------------------------------------------------------------------------
(* Logs and their tails.                                                   *)

(* A non-empty set of naturals has a least element. *)
LEMMA NatMin ==
  ASSUME NEW T \in SUBSET Nat, T # {}
  PROVE  \E x \in T : \A y \in T : x <= y
<1>1. PICK x \in T : \A y \in T : ~ (<<y, x>> \in OpToRel(<, Nat))
  BY NatLessThanWellFounded, WFMin
<1>2. \A y \in T : ~ (y < x)
  BY <1>1 DEF OpToRel
<1> QED BY <1>2

(* What is known of the log by its type. *)
LEMMA LogType ==
  ASSUME log \in Seq(Event)
  PROVE  /\ Len(log) \in Nat
         /\ DOMAIN log = 1..Len(log)
         /\ \A i \in 1..Len(log) : log[i] \in Event /\ log[i].end \in Nat /\ log[i].id \in Nat
         /\ log # <<>> => Len(log) \in 1..Len(log)
         /\ Size \in Nat
<1>1. Len(log) \in Nat /\ DOMAIN log = 1..Len(log) /\ \A i \in 1..Len(log) : log[i] \in Event
  BY LenProperties
<1>2. \A i \in 1..Len(log) : log[i].end \in Nat /\ log[i].id \in Nat
  BY <1>1 DEF Event
<1>3. log # <<>> => Len(log) \in 1..Len(log)
  BY <1>1, EmptySeq
<1>4. Size \in Nat
  BY <1>2, <1>3 DEF Size, End, Last
<1> QED BY <1>1, <1>2, <1>3, <1>4

(* What lies behind byte k lies behind an event n (or behind none). *)
LEMMA FromExists ==
  ASSUME log \in Seq(Event), LogOK, NEW k \in Nat
  PROVE  \E n \in 0..Len(log) : \A i \in DOMAIN log : log[i].end > k + 1 <=> i > n
<1> DEFINE T == {i \in DOMAIN log : log[i].end > k + 1}
<1>1. T \in SUBSET Nat
  BY LogType
<1>2. CASE T = {}
  <2>1. \A i \in DOMAIN log : ~ (log[i].end > k + 1) /\ ~ (i > Len(log))
    BY <1>2, LogType
  <2>2. Len(log) \in 0..Len(log)
    BY LogType
  <2> QED BY <2>1, <2>2
<1>3. CASE T # {}
  <2>1. PICK x \in T : \A y \in T : x <= y
    BY <1>1, <1>3, NatMin
  <2>2. x \in 1..Len(log) /\ log[x].end > k + 1 /\ x - 1 \in 0..Len(log)
    BY <2>1, LogType
  <2>3. ASSUME NEW i \in DOMAIN log
        PROVE  log[i].end > k + 1 <=> i > x - 1
    <3>1. i \in 1..Len(log) /\ log[i].end \in Nat /\ log[x].end \in Nat
      BY <2>2, <2>3, LogType
    <3>2. log[i].end > k + 1 => i >= x
      BY <2>1, <2>2, <3>1
    <3>3. i > x => log[x].end + 1 < log[i].end
      BY <2>2, <2>3 DEF LogOK
    <3> QED BY <2>2, <3>1, <3>2, <3>3
  <2> QED BY <2>2, <2>3
<1> QED BY <1>2, <1>3

(* From(k) is that tail. *)
LEMMA FromIs ==
  ASSUME log \in Seq(Event), NEW k \in Nat, NEW n \in 0..Len(log),
         \A i \in DOMAIN log : log[i].end > k + 1 <=> i > n
  PROVE  From(k) = SubSeq(log, n + 1, Len(log))
<1> DEFINE m == CHOOSE m \in 0..Len(log) : \A i \in DOMAIN log : log[i].end > k + 1 <=> i > m
<1>1. m \in 0..Len(log) /\ \A i \in DOMAIN log : log[i].end > k + 1 <=> i > m
  OBVIOUS
<1>2. From(k) = SubSeq(log, m + 1, Len(log))
  BY DEF From
<1> HIDE DEF m
<1>3. Len(log) \in Nat /\ DOMAIN log = 1..Len(log)
  BY LogType
<1>4. \A i \in 1..Len(log) : i > m <=> i > n
  BY <1>1, <1>3
<1>5. m \in Nat /\ n \in Nat /\ m <= Len(log) /\ n <= Len(log)
  BY <1>1, <1>3
<1>6. ~ (m < n)
  <2>1. m < n => n \in 1..Len(log)
    BY <1>3, <1>5
  <2> QED BY <1>4, <1>5, <2>1
<1>7. ~ (n < m)
  <2>1. n < m => m \in 1..Len(log)
    BY <1>3, <1>5
  <2> QED BY <1>4, <1>5, <2>1
<1>8. m = n
  BY <1>5, <1>6, <1>7
<1> QED BY <1>2, <1>8

(* The parts of the log before and after its n-th event. *)
LEMMA LogTail ==
  ASSUME log \in Seq(Event), NEW n \in 0..Len(log)
  PROVE  /\ SubSeq(log, n + 1, Len(log)) \in Seq(Event)
         /\ Len(SubSeq(log, n + 1, Len(log))) = Len(log) - n
         /\ \A i \in 1..(Len(log) - n) : SubSeq(log, n + 1, Len(log))[i] = log[n + i]
<1>1. Len(log) \in Nat /\ n \in Int /\ n + 1 \in Int /\ Len(log) \in Int /\ n <= Len(log)
  BY LogType
<1>2. \A i \in (n + 1)..Len(log) : log[i] \in Event
  BY <1>1, LogType
<1>3. /\ SubSeq(log, n + 1, Len(log)) \in Seq(Event)
      /\ Len(SubSeq(log, n + 1, Len(log)))
           = IF n + 1 <= Len(log) THEN Len(log) - (n + 1) + 1 ELSE 0
      /\ \A i \in 1..(Len(log) - (n + 1) + 1) :
           SubSeq(log, n + 1, Len(log))[i] = log[n + 1 + i - 1]
  BY <1>1, <1>2, SubSeqProperties
<1>4. Len(log) - (n + 1) + 1 = Len(log) - n
  BY <1>1
<1>5. \A i \in 1..(Len(log) - n) : n + 1 + i - 1 = n + i
  BY <1>1
<1>6. (IF n + 1 <= Len(log) THEN Len(log) - (n + 1) + 1 ELSE 0) = Len(log) - n
  BY <1>1
<1> QED BY <1>3, <1>4, <1>5, <1>6

LEMMA FromType ==
  ASSUME log \in Seq(Event), LogOK, NEW k \in Nat
  PROVE  From(k) \in Seq(Event)
BY FromExists, FromIs, LogTail

(* A sequence that the log begins with, and the rest of the log. *)
LEMMA WithTail ==
  ASSUME log \in Seq(Event), NEW s \in Seq(Event), Len(s) <= Len(log),
         \A k \in 1..Len(s) : s[k] = log[k]
  PROVE  s \o SubSeq(log, Len(s) + 1, Len(log)) = log
<1>1. PICK n \in Nat : n = Len(s)
  BY LenProperties
<1>2. PICK tail : tail = SubSeq(log, n + 1, Len(log))
  OBVIOUS
<1>3. Len(log) \in Nat /\ n \in 0..Len(log)
  BY <1>1, LogType
<1>4. /\ tail \in Seq(Event)
      /\ Len(tail) = Len(log) - n
      /\ \A i \in 1..(Len(log) - n) : tail[i] = log[n + i]
  BY <1>2, <1>3, LogTail
<1>5. /\ s \o tail \in Seq(Event)
      /\ Len(s \o tail) = n + (Len(log) - n)
      /\ \A i \in 1..(n + (Len(log) - n)) : (s \o tail)[i] = IF i <= n THEN s[i] ELSE tail[i - n]
  BY <1>1, <1>4, ConcatProperties
<1>6. n + (Len(log) - n) = Len(log)
  BY <1>3
<1>7. ASSUME NEW i \in 1..Len(log)
      PROVE  (s \o tail)[i] = log[i]
  <2>1. CASE i <= n
    <3>1. i \in 1..n
      BY <1>3, <1>7, <2>1
    <3> QED BY <3>1, <2>1, <1>1, <1>5, <1>6
  <2>2. CASE ~ (i <= n)
    <3>1. i - n \in 1..(Len(log) - n) /\ n + (i - n) = i
      BY <1>3, <1>7, <2>2
    <3> QED BY <3>1, <2>2, <1>4, <1>5, <1>6
  <2> QED BY <2>1, <2>2
<1>8. s \o tail = log
  BY <1>5, <1>6, <1>7, SeqEqual
<1> QED BY <1>1, <1>2, <1>8

(* The index: what was read up to an offset, and what is behind it. *)
LEMMA ExactExtends ==
  ASSUME log \in Seq(Event), LogOK, NEW s \in Seq(Event), NEW k \in Nat, Exact(s, k)
  PROVE  s \o From(k) = log
<1>1. PICK n \in Nat : n = Len(s)
  BY LenProperties
<1>2. Len(log) \in Nat /\ n \in 0..Len(log) /\ DOMAIN s = 1..n
  BY <1>1, LogType, LenProperties DEF Exact
<1>3. ASSUME NEW i \in DOMAIN log
      PROVE  log[i].end > k + 1 <=> i > n
  <2>1. i \in 1..Len(log) /\ log[i].end \in Nat /\ log[i].end > 1
    BY <1>3, LogType DEF LogOK
  <2>2. CASE n = 0
    <3>1. s = <<>>
      BY <1>1, <2>2, EmptySeq
    <3>2. k = 0
      BY <3>1 DEF Exact, End
    <3> QED BY <2>1, <2>2, <3>2
  <2>3. CASE n # 0
    <3>1. n \in 1..Len(log) /\ n \in DOMAIN s /\ n \in DOMAIN log
      BY <1>2, <2>3, LogType
    <3>2. s # <<>>
      BY <1>1, <2>3, EmptySeq
    <3>3. k = log[n].end
      BY <1>1, <3>1, <3>2 DEF Exact, End, Last
    <3>4. i < n => log[i].end + 1 < log[n].end
      BY <1>3, <3>1 DEF LogOK
    <3>5. n < i => log[n].end + 1 < log[i].end
      BY <1>3, <3>1 DEF LogOK
    <3>6. log[n].end \in Nat
      BY <3>1, LogType
    <3> QED BY <1>2, <2>1, <3>3, <3>4, <3>5, <3>6
  <2> QED BY <2>2, <2>3
<1>4. From(k) = SubSeq(log, Len(s) + 1, Len(log))
  BY <1>1, <1>2, <1>3, FromIs
<1> QED BY <1>1, <1>2, <1>4, WithTail DEF Exact

(* The replay: what was the log once and what lies behind an offset, if    *)
(* there is something and it continues the chain.                          *)
LEMMA VerifiedExtends ==
  ASSUME log \in Seq(Event), LogOK, NEW s \in Seq(Event), NEW k \in Nat, Past(s),
         From(k) # <<>>, Follows(From(k), LastOf(s))
  PROVE  s \o From(k) = log
<1>1. PICK n \in 0..Len(log) : \A i \in DOMAIN log : log[i].end > k + 1 <=> i > n
  BY FromExists
<1>2. PICK tail : tail = SubSeq(log, n + 1, Len(log))
  OBVIOUS
<1>3. From(k) = tail
  BY <1>1, <1>2, FromIs
<1>4. /\ tail \in Seq(Event)
      /\ Len(tail) = Len(log) - n
      /\ \A i \in 1..(Len(log) - n) : tail[i] = log[n + i]
  BY <1>2, LogTail
<1>5. n + 1 \in 1..Len(log)
  <2>1. Len(tail) # 0
    BY <1>3, <1>4, EmptySeq
  <2> QED BY <2>1, <1>4, LogType
<1>6. 1 \in DOMAIN tail /\ tail[1] = log[n + 1]
  <2>1. 1 \in 1..(Len(log) - n)
    BY <1>5, LogType
  <2> QED BY <2>1, <1>4, LenProperties
<1>7. Len(s) = n /\ \A i \in 1..Len(s) : s[i] = log[i]
  <2>1. CASE s = <<>>
    <3>1. tail[1].prev = None
      BY <1>3, <1>6, <2>1 DEF Follows, LastOf
    <3>2. n = 0
      <4>1. n # 0 => n \in 1..Len(log) /\ n + 1 - 1 = n /\ n + 1 # 1 /\ n + 1 \in DOMAIN log
        BY <1>5, LogType
      <4>2. n # 0 => log[n + 1].prev = log[n].id
        BY <4>1 DEF LogOK
      <4>3. n # 0 => log[n].id \in Nat
        BY <4>1, LogType
      <4> QED BY <4>2, <4>3, <3>1, <1>6, NoneAssumption
    <3>3. Len(s) = 0 /\ 1..Len(s) = {}
      BY <2>1, EmptySeq
    <3> QED BY <3>2, <3>3
  <2>2. CASE s # <<>>
    <3>1. Len(s) \in Nat /\ Len(s) \in DOMAIN s /\ s[Len(s)] \in Event
      BY <2>2, LenProperties, EmptySeq, ElementOfSeq
    <3>2. LastOf(s) = s[Len(s)] /\ LastOf(s) # None
      BY <2>2, <3>1, NoneAssumption DEF LastOf, Last
    <3>3. tail[1].prev = s[Len(s)].id
      BY <1>3, <1>6, <3>2 DEF Follows
    <3>4. s[Len(s)].id \in Nat
      BY <3>1 DEF Event
    <3>5. n # 0
      <4>1. n = 0 => log[n + 1].prev = None
        BY <1>5, LogType DEF LogOK
      <4> QED BY <4>1, <3>3, <3>4, <1>6, NoneAssumption
    <3>6. n \in DOMAIN log /\ n + 1 - 1 = n /\ n + 1 # 1 /\ n + 1 \in DOMAIN log
      BY <1>5, <3>5, LogType
    <3>7. log[n + 1].prev = log[n].id
      BY <3>6 DEF LogOK
    <3> QED BY <3>1, <3>3, <3>6, <3>7, <1>6 DEF Past
  <2> QED BY <2>1, <2>2
<1>8. Len(s) <= Len(log)
  BY <1>5, <1>7, LogType
<1>9. s \o SubSeq(log, Len(s) + 1, Len(log)) = log
  BY <1>7, <1>8, WithTail
<1> QED BY <1>2, <1>3, <1>7, <1>9

(* Behind the end of a record that is not the last there is something. *)
LEMMA SomethingBehind ==
  ASSUME log \in Seq(Event), LogOK, NEW k \in Nat, Boundary(k), k < Size
  PROVE  From(k) # <<>>
<1>1. PICK n \in 0..Len(log) : \A i \in DOMAIN log : log[i].end > k + 1 <=> i > n
  BY FromExists
<1>2. From(k) = SubSeq(log, n + 1, Len(log))
  BY <1>1, FromIs
<1>3. PICK m \in DOMAIN log : m = Len(log) /\ Size = log[m].end
  BY LogType DEF Size, End, Last
<1>4. log[m].end \in Nat /\ m \in 1..Len(log)
  BY <1>3, LogType
<1>5. log[m].end > k + 1
  <2>1. CASE k = 0
    BY <2>1, <1>3, <1>4 DEF LogOK
  <2>2. ASSUME NEW i \in DOMAIN log, log[i].end = k
        PROVE  log[m].end > k + 1
    <3>1. i \in 1..Len(log) /\ i # m
      BY <1>3, <1>4, <2>2, LogType
    <3>2. i < m
      BY <1>3, <3>1, LogType
    <3>3. log[i].end + 1 < log[m].end
      BY <3>2, <2>2 DEF LogOK
    <3> QED BY <3>3, <2>2
  <2> QED BY <2>1, <2>2 DEF Boundary
<1>6. Len(log) - n # 0
  BY <1>1, <1>3, <1>4, <1>5
<1> QED BY <1>2, <1>6, LogTail, EmptySeq

-----------------------------------------------------------------------------
(* What a step must show.                                                  *)

CacheType == [Process -> [Lanes -> CacheEntry \cup {None}]]
Checkpoint == [events : Seq(Event), offset : Nat]
Tip == [seq : Nat, id : Nat]

(* What is right of an entry once the step has kept what it keeps. *)
NewEntryOK(l, e) ==
  e # None /\ Trusted(l) =>
    /\ SeenSince(e.sig[1], e.events) \/ (l = "replay" /\ e.events \in kept')
    /\ Built(l, e.events, e.offset)

(* While the log stays and no call begins, what callers have seen stays.   *)
LEMMA SeenKept ==
  ASSUME UNCHANGED <<log, mtime, sig, during>>,
         \A t \in Thread : Reading(t)' => Reading(t),
         NEW m, NEW s, SeenSince(m, s)
  PROVE  SeenSince(m, s)'
BY DEF SeenSince

(* A call sees the log, which is what a replay or an index of it is.       *)
LEMMA LogIsSeen ==
  ASSUME IInv, NEW t \in Thread, Reading(t)
  PROVE  SeenSince(sig[t][1], log) /\ Past(log) /\ Exact(log, Size) /\ Boundary(Size)
<1>1. SeenSince(sig[t][1], log)
  BY DEF IInv, ReadingOK, SeenSince
<1>2. log \in Seq(Event)
  BY DEF IInv, TypeOK
<1>3. Past(log)
  <2>1. ASSUME NEW i \in DOMAIN log, NEW j \in DOMAIN log, log[i].id = log[j].id
        PROVE  i = j
    <3>1. i \in 1..Len(log) /\ j \in 1..Len(log) /\ log[i].id \in Nat /\ log[j].id \in Nat
      BY <1>2, <2>1, LogType
    <3>2. ~ (i < j) /\ ~ (j < i)
      BY <2>1, <3>1 DEF IInv, LogOK
    <3> QED BY <3>1, <3>2
  <2> QED BY <2>1 DEF IInv, LogOK, Past
<1>4. Exact(log, Size)
  BY <1>2, LogType DEF Exact, Size
<1>5. Boundary(Size)
  BY <1>2, LogType DEF Boundary, Size, End, Last
<1> QED BY <1>1, <1>3, <1>4, <1>5

(* A step of the call of t: what it does to the caches and to its own      *)
(* state, for its result to be right in the end.                           *)
LEMMA CallStep ==
  ASSUME IInv, NEW t \in Thread, Reading(t),
         UNCHANGED <<logVars, lane, sig, during, calls>>,
         NEW a \in {"extend", "cold", "full", "store", "save", "done"},
         pc' = [pc EXCEPT ![t] = a],
         NEW f \in CacheEntry \cup {None}, found' = [found EXCEPT ![t] = f],
         NEW r \in Seq(Event) \cup {None}, read' = [read EXCEPT ![t] = r],
         NEW x \in Seq(Event) \cup {None, Raised}, result' = [result EXCEPT ![t] = x],
         f # None => a # "done",
         r # None <=> a \in {"store", "save"},
         cache' \in CacheType,
         \A p \in Process, l \in Lanes :
           \/ cache'[p][l] = cache[p][l]
           \/ NewEntryOK(l, cache'[p][l]),
         tip' \in Tip \cup {None},
         checkpoint' \in Checkpoint \cup {None}, CheckpointOK',
         f # None /\ Trusted(lane[t]) => Built(lane[t], f.events, f.offset),
         a = "extend" => f # None /\ f.offset < sig[t][2],
         a \in {"store", "save"} =>
           lane[t] = "replay" /\ SeenSince(sig[t][1], r) /\ Past(r),
         a = "done" /\ Trusted(lane[t]) /\ x # Raised =>
           x \in during[t] \/ (lane[t] = "replay" /\ x \in kept'),
         kept' \in SUBSET Seq(Event), kept \subseteq kept', rewrites = 0 => kept' = {}
  PROVE  IInv'
<1>1. /\ UNCHANGED <<log, mtime, appended, rewrites>>
      /\ pc'[t] = a /\ found'[t] = f /\ read'[t] = r /\ result'[t] = x
      /\ \A u \in Thread \ {t} : /\ pc'[u] = pc[u] /\ found'[u] = found[u]
                                 /\ read'[u] = read[u] /\ result'[u] = result[u]
  BY DEF IInv, TypeOK, logVars
<1>2. \A u \in Thread : Reading(u)' => Reading(u)
  BY <1>1 DEF Reading
<1>3. TypeOK'
  <2>1. /\ pc' \in [Thread -> {"idle", "lookup", "extend", "cold", "full", "store", "save", "done"}]
        /\ found' \in [Thread -> CacheEntry \cup {None}]
        /\ read' \in [Thread -> Seq(Event) \cup {None}]
        /\ result' \in [Thread -> Seq(Event) \cup {None, Raised}]
    BY DEF IInv, TypeOK
  <2>2. \A u \in Thread :
          /\ (found'[u] # None) => (pc'[u] \in {"extend", "cold", "full", "store", "save"})
          /\ (read'[u] # None) <=> (pc'[u] \in {"store", "save"})
    BY <1>1 DEF IInv, TypeOK
  <2> QED BY <1>1, <2>1, <2>2 DEF IInv, TypeOK, CacheType, Checkpoint, Tip
<1>4. LogOK'
  BY <1>1 DEF IInv, LogOK
<1>5. ASSUME NEW l, NEW e, EntryOK(l, e) \/ NewEntryOK(l, e)
      PROVE  EntryOK(l, e)'
  <2>0. NewEntryOK(l, e)
    BY <1>5 DEF EntryOK, NewEntryOK, IsKept
  <2>1. SeenSince(e.sig[1], e.events) => SeenSince(e.sig[1], e.events)'
    <3>1. PICK m, s : m = e.sig[1] /\ s = e.events
      OBVIOUS
    <3> QED BY <3>1, <1>1, <1>2, SeenKept
  <2>2. Built(l, e.events, e.offset) => Built(l, e.events, e.offset)'
    BY <1>1 DEF Built, Past, Exact, Boundary
  <2> QED BY <1>1, <2>0, <2>1, <2>2 DEF EntryOK, NewEntryOK, IsKept, Trusted
<1>6. EntriesOK'
  <2>1. ASSUME NEW p \in Process, NEW l \in Lanes
        PROVE  EntryOK(l, cache[p][l])'
    <3>1. PICK e : e = cache'[p][l]
      OBVIOUS
    <3>2. EntryOK(l, e) \/ NewEntryOK(l, e)
      BY <3>1 DEF IInv, EntriesOK
    <3>3. EntryOK(l, e)'
      BY <3>2, <1>5
    <3> QED BY <3>1, <3>3 DEF EntryOK
  <2> QED BY <2>1 DEF EntriesOK
<1>7. ASSUME NEW u \in Thread \ {t}
      PROVE  (ReadingOK(u) /\ ResultOK(u))'
  <2>1. ReadingOK(u) /\ ResultOK(u)
    BY DEF IInv
  <2>2. PICK m, s : m = sig[u][1] /\ s = read[u]
    OBVIOUS
  <2>3. SeenSince(m, s) => SeenSince(m, s)'
    BY <1>1, <1>2, SeenKept
  <2>4. SeenSince(sig[u][1], read[u]) => SeenSince(sig[u][1], read[u])'
    BY <1>1, <2>2, <2>3 DEF SeenSince
  <2>5. ReadingOK(u)'
    BY <1>1, <1>2, <2>1, <2>4 DEF ReadingOK, Built, Past, Exact, Boundary, Trusted, Size
  <2>6. ResultOK(u)'
    BY <1>1, <2>1 DEF ResultOK, IsKept, Trusted
  <2> QED BY <2>5, <2>6
<1>8. ReadingOK(t)'
  <2>1. ReadingOK(t)
    BY DEF IInv
  <2>2. SeenSince(sig[t][1], r) => SeenSince(sig[t][1], read[t])'
    <3>1. PICK m : m = sig[t][1]
      OBVIOUS
    <3>2. SeenSince(m, r) => SeenSince(m, r)'
      BY <1>1, <1>2, SeenKept
    <3> QED BY <1>1, <3>1, <3>2 DEF SeenSince
  <2>3. a # "done" =>
          /\ a = "extend" => f # None /\ f.offset < sig[t][2]
          /\ f # None /\ Trusted(lane[t])' => Built(lane[t], found[t].events, found[t].offset)'
          /\ a \in {"store", "save"} =>
               lane[t] = "replay" /\ SeenSince(sig[t][1], read[t])' /\ Past(read[t])'
    BY <1>1, <2>2 DEF Built, Past, Exact, Boundary, Trusted
  <2>4. Reading(t)' => a # "done"
    BY <1>1 DEF Reading
  <2> QED BY <1>1, <2>1, <2>3, <2>4 DEF ReadingOK, Size
<1>9. ResultOK(t)'
  BY <1>1 DEF ResultOK, IsKept, Trusted
<1>10. KeptOK'
  BY <1>1 DEF KeptOK
<1> QED BY <1>3, <1>4, <1>6, <1>7, <1>8, <1>9, <1>10 DEF IInv

(* What the type invariant says of the call of t and of its process. *)
LEMMA CallType ==
  ASSUME IInv, NEW t \in Thread, Reading(t)
  PROVE  /\ log \in Seq(Event) /\ LogOK
         /\ lane[t] \in Lanes /\ Home[t] \in Process
         /\ sig[t] \in Sig /\ sig[t][1] \in Nat /\ sig[t][2] \in Nat
         /\ cache \in CacheType /\ cache[Home[t]][lane[t]] \in CacheEntry \cup {None}
         /\ tip \in Tip \cup {None}
         /\ checkpoint \in Checkpoint \cup {None}
         /\ kept \in SUBSET Seq(Event) /\ (rewrites = 0 => kept = {})
         /\ found[t] \in CacheEntry \cup {None}
         /\ read[t] \in Seq(Event) \cup {None}
         /\ result[t] \in Seq(Event) \cup {None, Raised}
         /\ found[t] # None => pc[t] \in {"extend", "cold", "full", "store", "save"}
         /\ read[t] # None <=> pc[t] \in {"store", "save"}
         /\ found = [found EXCEPT ![t] = found[t]]
         /\ read = [read EXCEPT ![t] = read[t]]
         /\ result = [result EXCEPT ![t] = result[t]]
<1>1. lane[t] \in Lanes /\ sig[t] \in Sig
  BY DEF IInv, ReadingOK
<1>2. sig[t][1] \in Nat /\ sig[t][2] \in Nat
  BY <1>1 DEF Sig
<1>3. Home[t] \in Process
  BY RetrievalCacheAssumption
<1>4. cache \in CacheType
  BY DEF IInv, TypeOK, CacheType
<1>5. cache[Home[t]][lane[t]] \in CacheEntry \cup {None}
  BY <1>1, <1>3, <1>4 DEF CacheType
<1> QED BY <1>1, <1>2, <1>3, <1>4, <1>5 DEF IInv, TypeOK, Tip, Checkpoint, KeptOK

(* A cache entry, or a found one, is a record of its type. *)
LEMMA EntryType ==
  ASSUME NEW e \in CacheEntry
  PROVE  /\ e.sig \in Sig /\ e.sig[1] \in Nat /\ e.events \in Seq(Event) /\ e.offset \in Nat
         /\ e # None
<1>1. e.sig \in Sig /\ e.events \in Seq(Event) /\ e.offset \in Nat
  BY DEF CacheEntry
<1> QED BY <1>1, NoneAssumption DEF Sig

LEMMA CheckpointKept ==
  ASSUME CheckpointOK, UNCHANGED <<logVars, checkpoint>>
  PROVE  CheckpointOK'
BY DEF CheckpointOK, Exact, logVars

(* A call that ends with r (or an exception) and stores nothing. *)
LEMMA ReturnStep ==
  ASSUME IInv, NEW t \in Thread, Reading(t), NEW r \in Seq(Event) \cup {None, Raised},
         Return(t, r), UNCHANGED <<logVars, cache, tip, checkpoint, lane, sig, during, kept, calls>>,
         Trusted(lane[t]) /\ r # Raised => r \in during[t] \/ IsKept(lane[t], r)
  PROVE  IInv'
<1>1. /\ pc' = [pc EXCEPT ![t] = "done"]
      /\ result' = [result EXCEPT ![t] = r]
      /\ found' = [found EXCEPT ![t] = None]
      /\ read' = [read EXCEPT ![t] = None]
  BY DEF Return
<1>2. /\ cache' \in CacheType
      /\ \A p \in Process, l \in Lanes : cache'[p][l] = cache[p][l]
      /\ tip' \in Tip \cup {None}
      /\ checkpoint' \in Checkpoint \cup {None}
      /\ kept' \in SUBSET Seq(Event) /\ kept \subseteq kept' /\ (rewrites = 0 => kept' = {})
  BY CallType
<1>3. CheckpointOK'
  BY CheckpointKept DEF IInv
<1>4. Trusted(lane[t]) /\ r # Raised => r \in during[t] \/ (lane[t] = "replay" /\ r \in kept')
  BY DEF IsKept
<1> QED BY <1>1, <1>2, <1>3, <1>4, CallStep

(* A call that ends with s and stores it in the cache of its process. *)
LEMMA KeepStep ==
  ASSUME IInv, NEW t \in Thread, Reading(t), NEW s \in Seq(Event), NEW offset \in Nat,
         Keep(t, s, offset), UNCHANGED <<logVars, lane, sig, during, calls>>,
         Trusted(lane[t]) =>
           /\ SeenSince(sig[t][1], s) \/ (lane[t] = "replay" /\ s \in kept')
           /\ Built(lane[t], s, offset),
         kept' \in SUBSET Seq(Event), kept \subseteq kept', rewrites = 0 => kept' = {},
         tip' \in Tip \cup {None},
         checkpoint' \in Checkpoint \cup {None}, CheckpointOK'
  PROVE  IInv'
<1> DEFINE e == [sig |-> sig[t], events |-> s, offset |-> offset]
<1>1. /\ pc' = [pc EXCEPT ![t] = "done"]
      /\ result' = [result EXCEPT ![t] = s]
      /\ found' = [found EXCEPT ![t] = None]
      /\ read' = [read EXCEPT ![t] = None]
      /\ cache' = [cache EXCEPT ![Home[t]][lane[t]] = e]
  BY DEF Keep, Return
<1>2. e \in CacheEntry
  BY CallType DEF CacheEntry
<1>3. NewEntryOK(lane[t], e)
  BY DEF NewEntryOK
<1> HIDE DEF e
<1>4. cache' \in CacheType
  BY <1>1, <1>2, CallType DEF CacheType
<1>5. \A p \in Process, l \in Lanes :
        cache'[p][l] = cache[p][l] \/ NewEntryOK(l, cache'[p][l])
  <2>1. ASSUME NEW p \in Process, NEW l \in Lanes, cache'[p][l] # cache[p][l]
        PROVE  NewEntryOK(l, cache'[p][l])
    <3>1. l = lane[t] /\ cache'[p][l] = e
      BY <1>1, <2>1, CallType DEF CacheType
    <3> QED BY <3>1, <1>3
  <2> QED BY <2>1
<1>6. Trusted(lane[t]) /\ s # Raised =>
        s \in during[t] \/ (lane[t] = "replay" /\ s \in kept')
  BY CallType DEF SeenSince
<1> QED BY <1>1, <1>4, <1>5, <1>6, CallStep

-----------------------------------------------------------------------------
(* The steps of a call.                                                    *)

(* A hit returns what was seen since; a miss keeps what the entry knows.   *)
LEMMA LookupKeeps ==
  ASSUME IInv, NEW t \in Thread, Lookup(t)
  PROVE  IInv'
<1>1. PICK e : e = cache[Home[t]][lane[t]]
  OBVIOUS
<1>2. Reading(t)
  BY DEF Lookup, Reading
<1>3. e \in CacheEntry \cup {None} /\ EntryOK(lane[t], e)
  BY <1>1, <1>2, CallType DEF IInv, EntriesOK
<1>4. UNCHANGED <<logVars, cache, tip, checkpoint, lane, sig, during, kept, calls>>
  BY DEF Lookup
<1>5. CASE e # None /\ e.sig = sig[t]
  <2>1. Return(t, e.events)
    BY <1>1, <1>5 DEF Lookup
  <2>2. e.events \in Seq(Event)
    BY <1>3, <1>5, EntryType
  <2>3. Trusted(lane[t]) => e.events \in during[t] \/ IsKept(lane[t], e.events)
    BY <1>2, <1>3, <1>5, CallType DEF EntryOK, SeenSince
  <2> QED BY <1>2, <1>4, <2>1, <2>2, <2>3, ReturnStep
<1>6. CASE ~ (e # None /\ e.sig = sig[t])
  <2>1. PICK a \in {"extend", "cold"} :
          a = IF e # None /\ sig[t][2] > e.offset THEN "extend" ELSE "cold"
    OBVIOUS
  <2>2. /\ found' = [found EXCEPT ![t] = e]
        /\ pc' = [pc EXCEPT ![t] = a]
        /\ UNCHANGED <<read, result>>
    BY <1>1, <1>6, <2>1 DEF Lookup
  <2>3. read[t] = None
    BY <1>2, CallType DEF Lookup
  <2>4. e # None /\ Trusted(lane[t]) => Built(lane[t], e.events, e.offset)
    BY <1>3 DEF EntryOK
  <2>5. a = "extend" => e # None /\ e.offset < sig[t][2]
    <3>1. e # None => e.offset \in Nat
      BY <1>3, EntryType
    <3> QED BY <2>1, <3>1, <1>2, CallType
  <2>6. CheckpointOK'
    BY <1>4, CheckpointKept DEF IInv
  <2>10. PICK x \in Seq(Event) \cup {None, Raised} : x = result[t]
    BY <1>2, CallType
  <2>7. /\ read' = [read EXCEPT ![t] = None]
        /\ result' = [result EXCEPT ![t] = x]
        /\ cache' \in CacheType /\ \A p \in Process, l \in Lanes : cache'[p][l] = cache[p][l]
        /\ tip' \in Tip \cup {None} /\ checkpoint' \in Checkpoint \cup {None}
        /\ kept' \in SUBSET Seq(Event) /\ kept \subseteq kept' /\ (rewrites = 0 => kept' = {})
    BY <1>2, <1>4, <2>2, <2>3, <2>10, CallType
  <2>8. /\ a \in {"extend", "cold", "full", "store", "save", "done"}
        /\ a # "done" /\ a \notin {"store", "save"}
        /\ None \in Seq(Event) \cup {None}
    BY <2>1
  <2>9. UNCHANGED <<logVars, lane, sig, during, calls>>
    BY <1>4
  <2> QED BY ONLY IInv, <1>2, <1>3, <2>2, <2>4, <2>5, <2>6, <2>7, <2>8, <2>9, CallStep
<1> QED BY <1>5, <1>6

(* A step that only moves the call on to its next read. *)
LEMMA MoveOn ==
  ASSUME IInv, NEW t \in Thread, pc[t] \in {"extend", "cold"},
         NEW a \in {"cold", "full"}, pc' = [pc EXCEPT ![t] = a],
         UNCHANGED <<logVars, cache, tip, checkpoint, lane, sig>>,
         UNCHANGED <<found, read, result, during, kept, calls>>
  PROVE  IInv'
<1>1. Reading(t)
  BY DEF Reading
<1>2. read[t] = None
  BY <1>1, CallType
<1>8. PICK f \in CacheEntry \cup {None}, x \in Seq(Event) \cup {None, Raised} :
        f = found[t] /\ x = result[t]
  BY <1>1, CallType
<1>3. f # None /\ Trusted(lane[t]) => Built(lane[t], f.events, f.offset)
  BY <1>1, <1>8 DEF IInv, ReadingOK
<1>4. CheckpointOK'
  BY CheckpointKept DEF IInv
<1>5. /\ found' = [found EXCEPT ![t] = f]
      /\ read' = [read EXCEPT ![t] = None]
      /\ result' = [result EXCEPT ![t] = x]
      /\ cache' \in CacheType /\ \A p \in Process, l \in Lanes : cache'[p][l] = cache[p][l]
      /\ tip' \in Tip \cup {None} /\ checkpoint' \in Checkpoint \cup {None}
      /\ kept' \in SUBSET Seq(Event) /\ kept \subseteq kept' /\ (rewrites = 0 => kept' = {})
  BY <1>1, <1>2, <1>8, CallType
<1>6. /\ a \in {"extend", "cold", "full", "store", "save", "done"}
      /\ a # "done" /\ a \notin {"store", "save"} /\ a # "extend"
      /\ None \in Seq(Event) \cup {None}
      /\ f # None => a # "done"
  OBVIOUS
<1>7. UNCHANGED <<logVars, lane, sig, during, calls>> /\ pc' = [pc EXCEPT ![t] = a]
  OBVIOUS
<1> QED BY ONLY IInv, <1>1, <1>3, <1>4, <1>5, <1>6, <1>7, CallStep

(* The tail behind the entry's offset, if it is not empty and verifies,    *)
(* makes the entry the log.  It can be empty only of a log that has been   *)
(* replaced, since the file only grows during a call.                      *)
LEMMA ExtendReplayKeeps ==
  ASSUME IInv, NEW t \in Thread, ExtendReplay(t)
  PROVE  IInv'
<1>1. Reading(t) /\ pc[t] = "extend" /\ lane[t] = "replay"
  BY DEF ExtendReplay, Reading
<1>2. UNCHANGED <<logVars, tip, checkpoint, lane, sig, during, calls>>
  BY DEF ExtendReplay
<1>3. PICK e \in CacheEntry : e = found[t]
  BY <1>1, CallType DEF IInv, ReadingOK
<1>4. CASE Return(t, Raised) /\ UNCHANGED <<cache, kept>>
  BY <1>1, <1>2, <1>4, ReturnStep
<1>5. Past(e.events) /\ (rewrites = 0 => Boundary(e.offset))
  BY <1>1, <1>3, EntryType DEF IInv, ReadingOK, Trusted, Built
<1>6. /\ log \in Seq(Event) /\ LogOK /\ Size \in Nat
      /\ e.events \in Seq(Event) /\ e.offset \in Nat
      /\ kept \in SUBSET Seq(Event) /\ (rewrites = 0 => kept = {})
      /\ tip' \in Tip \cup {None} /\ checkpoint' \in Checkpoint \cup {None}
  BY <1>1, <1>2, <1>3, CallType, EntryType, LogType
<1>7. CheckpointOK'
  BY <1>2, CheckpointKept DEF IInv
<1>8. SeenSince(sig[t][1], log) /\ Past(log) /\ Boundary(Size)
  BY <1>1, LogIsSeen
<1>9. CASE /\ From(e.offset) # <<>>
           /\ Follows(From(e.offset), LastOf(e.events))
           /\ Keep(t, e.events \o From(e.offset), Size)
           /\ UNCHANGED kept
  <2>1. e.events \o From(e.offset) = log
    BY <1>5, <1>6, <1>9, VerifiedExtends
  <2>2. Keep(t, log, Size)
    BY <1>9, <2>1
  <2>3. Built(lane[t], log, Size)
    BY <1>1, <1>8 DEF Built
  <2>4. kept' \in SUBSET Seq(Event) /\ kept \subseteq kept' /\ (rewrites = 0 => kept' = {})
    BY <1>6, <1>9
  <2> QED BY <1>1, <1>2, <1>6, <1>7, <1>8, <2>2, <2>3, <2>4, KeepStep
<1>10. CASE /\ From(e.offset) = <<>>
            /\ Keep(t, e.events, Size)
            /\ kept' = kept \cup {e.events}
  <2>1. e.offset < Size
    <3>1. e.offset < sig[t][2] /\ sig[t][2] <= Size
      BY <1>1, <1>3 DEF IInv, ReadingOK
    <3> QED BY <1>1, <1>6, <3>1, CallType
  <2>2. rewrites # 0
    BY <1>5, <1>6, <1>10, <2>1, SomethingBehind
  <2>3. Built(lane[t], e.events, Size)
    BY <1>1, <1>5, <2>2 DEF Built
  <2>4. kept' \in SUBSET Seq(Event) /\ kept \subseteq kept' /\ e.events \in kept'
    BY <1>6, <1>10
  <2> QED BY <1>1, <1>2, <1>6, <1>7, <1>10, <2>2, <2>3, <2>4, KeepStep
<1>11. CASE /\ pc' = [pc EXCEPT ![t] = "cold"]
            /\ UNCHANGED <<cache, found, read, result, kept>>
  BY <1>1, <1>2, <1>11, MoveOn
<1> QED BY <1>3, <1>4, <1>9, <1>10, <1>11 DEF ExtendReplay

(* A replay that has read the log has read what its callers see. *)
LEMMA ReadLog ==
  ASSUME IInv, NEW t \in Thread, pc[t] \in {"cold", "full"}, lane[t] = "replay",
         read' = [read EXCEPT ![t] = log],
         NEW a \in {"store", "save"}, pc' = [pc EXCEPT ![t] = a],
         tip' \in Tip \cup {None},
         UNCHANGED <<logVars, cache, checkpoint, lane, sig, found, result, during, kept, calls>>
  PROVE  IInv'
<1>1. Reading(t)
  BY DEF Reading
<1>9. PICK f \in CacheEntry \cup {None}, x \in Seq(Event) \cup {None, Raised} :
        f = found[t] /\ x = result[t]
  BY <1>1, CallType
<1>2. f # None /\ Trusted(lane[t]) => Built(lane[t], f.events, f.offset)
  BY <1>1, <1>9 DEF IInv, ReadingOK
<1>3. CheckpointOK'
  BY CheckpointKept DEF IInv
<1>4. log \in Seq(Event) /\ log # None
  BY <1>1, CallType, NoneAssumption
<1>5. /\ found' = [found EXCEPT ![t] = f]
      /\ result' = [result EXCEPT ![t] = x]
      /\ cache' \in CacheType /\ \A p \in Process, l \in Lanes : cache'[p][l] = cache[p][l]
      /\ checkpoint' \in Checkpoint \cup {None}
      /\ kept' \in SUBSET Seq(Event) /\ kept \subseteq kept' /\ (rewrites = 0 => kept' = {})
  BY <1>1, <1>9, CallType
<1>6. SeenSince(sig[t][1], log) /\ Past(log)
  BY <1>1, LogIsSeen
<1>7. /\ a \in {"extend", "cold", "full", "store", "save", "done"}
      /\ a # "done" /\ a # "extend"
      /\ log \in Seq(Event) \cup {None}
      /\ log # None <=> a \in {"store", "save"}
      /\ f # None => a # "done"
  BY <1>4
<1>8. /\ UNCHANGED <<logVars, lane, sig, during, calls>>
      /\ pc' = [pc EXCEPT ![t] = a] /\ read' = [read EXCEPT ![t] = log]
      /\ lane[t] = "replay" /\ tip' \in Tip \cup {None}
  OBVIOUS
<1> QED BY ONLY IInv, <1>1, <1>2, <1>3, <1>4, <1>5, <1>6, <1>7, <1>8, CallStep

(* The tip of a log that has events. *)
LEMMA TipType ==
  ASSUME NEW s \in Seq(Event), s # <<>>
  PROVE  TipOf(s) \in Tip
<1>1. Last(s) \in Event
  BY LenProperties, EmptySeq, ElementOfSeq DEF Last
<1> QED BY <1>1 DEF TipOf, Tip, Event

LEMMA ColdReplayKeeps ==
  ASSUME IInv, NEW t \in Thread, ColdReplay(t)
  PROVE  IInv'
<1>1. Reading(t) /\ pc[t] = "cold" /\ lane[t] = "replay"
  BY DEF ColdReplay, Reading
<1>2. UNCHANGED <<logVars, cache, checkpoint, lane, sig, found, result, during, kept, calls>>
  BY DEF ColdReplay
<1>3. CASE /\ tip # None /\ tip.seq \in DOMAIN log
           /\ read' = [read EXCEPT ![t] = log]
           /\ tip' = TipOf(log)
           /\ pc' = [pc EXCEPT ![t] = "store"]
  <2>1. log # <<>>
    BY <1>3
  <2>2. tip' \in Tip
    BY <1>1, <1>3, <2>1, CallType, TipType
  <2> QED BY <1>1, <1>2, <1>3, <2>2, ReadLog
<1>4. CASE pc' = [pc EXCEPT ![t] = "full"] /\ UNCHANGED <<read, tip>>
  BY <1>1, <1>2, <1>4, MoveOn
<1> QED BY <1>3, <1>4 DEF ColdReplay

LEMMA FullReplayKeeps ==
  ASSUME IInv, NEW t \in Thread, FullReplay(t)
  PROVE  IInv'
<1>1. Reading(t) /\ pc[t] = "full" /\ lane[t] = "replay"
  BY DEF FullReplay, Reading
<1>2. tip' \in Tip \cup {None}
  BY <1>1, CallType DEF FullReplay
<1> QED BY <1>1, <1>2, ReadLog DEF FullReplay

(* A replay is stored with an offset taken later: still the past of a log. *)
LEMMA StoreKeeps ==
  ASSUME IInv, NEW t \in Thread, Store(t)
  PROVE  IInv'
<1>1. Reading(t) /\ pc[t] \in {"store", "save"}
  BY DEF Store, Reading
<1>2. /\ UNCHANGED <<logVars, checkpoint, lane, sig, during, kept, calls>>
      /\ Keep(t, read[t], Size)
  BY DEF Store
<1>3. /\ read[t] \in Seq(Event) /\ lane[t] = "replay"
      /\ SeenSince(sig[t][1], read[t]) /\ Built(lane[t], read[t], Size)
  BY <1>1, CallType, LogIsSeen DEF IInv, ReadingOK, Built
<1>4. tip' \in Tip \cup {None}
  BY <1>1, <1>3, CallType, TipType DEF Store
<1>5. checkpoint' \in Checkpoint \cup {None} /\ Size \in Nat
  BY <1>1, <1>2, CallType, LogType
<1>6. CheckpointOK'
  BY <1>2, CheckpointKept DEF IInv
<1>7. kept' \in SUBSET Seq(Event) /\ kept \subseteq kept' /\ (rewrites = 0 => kept' = {})
  BY <1>1, <1>2, CallType
<1> QED BY <1>1, <1>2, <1>3, <1>4, <1>5, <1>6, <1>7, KeepStep

(* What the index was, and what is behind its offset, is the log. *)
LEMMA ExtendIndexKeeps ==
  ASSUME IInv, NEW t \in Thread, ExtendIndex(t)
  PROVE  IInv'
<1>1. Reading(t) /\ pc[t] = "extend" /\ lane[t] = "index"
  BY DEF ExtendIndex, Reading
<1>2. UNCHANGED <<logVars, tip, checkpoint, lane, sig, during, kept, calls>>
  BY DEF ExtendIndex
<1>3. PICK e \in CacheEntry : e = found[t]
  BY <1>1, CallType DEF IInv, ReadingOK
<1>4. CASE Return(t, Raised) /\ UNCHANGED cache
  BY <1>1, <1>2, <1>4, ReturnStep
<1>5. CASE Keep(t, e.events \o From(e.offset), Size)
  <2>1. PICK s : s = e.events \o From(e.offset)
    OBVIOUS
  <2>2. s \in Seq(Event) /\ Size \in Nat
    BY <1>1, <2>1, CallType, EntryType, FromType, ConcatProperties, LogType
  <2>3. ASSUME Trusted(lane[t])
        PROVE  SeenSince(sig[t][1], s) /\ Built(lane[t], s, Size)
    <3>1. Exact(e.events, e.offset)
      BY <1>1, <1>3, <2>3, EntryType DEF IInv, ReadingOK, Built
    <3>2. s = log
      BY <1>1, <2>1, <3>1, CallType, EntryType, ExactExtends
    <3> QED BY <1>1, <3>2, LogIsSeen DEF Built
  <2>4. tip' \in Tip \cup {None} /\ checkpoint' \in Checkpoint \cup {None}
    BY <1>1, <1>2, CallType
  <2>5. CheckpointOK'
    BY <1>2, CheckpointKept DEF IInv
  <2>6. kept' \in SUBSET Seq(Event) /\ kept \subseteq kept' /\ (rewrites = 0 => kept' = {})
    BY <1>1, <1>2, CallType
  <2> QED BY <1>1, <1>2, <1>5, <2>1, <2>2, <2>3, <2>4, <2>5, <2>6, KeepStep
<1> QED BY <1>3, <1>4, <1>5 DEF ExtendIndex

(* The same of the checkpoint, which may be written again. *)
LEMMA LoadIndexKeeps ==
  ASSUME IInv, NEW t \in Thread, LoadIndex(t)
  PROVE  IInv'
<1>1. Reading(t) /\ pc[t] = "cold" /\ lane[t] = "index"
  BY DEF LoadIndex, Reading
<1>2. UNCHANGED <<logVars, tip, lane, sig, during, kept, calls>>
  BY DEF LoadIndex
<1>3. CASE pc' = [pc EXCEPT ![t] = "full"] /\ UNCHANGED <<cache, checkpoint, found, read, result>>
  BY <1>1, <1>2, <1>3, MoveOn
<1>4. ASSUME checkpoint # None,
             Keep(t, checkpoint.events \o From(checkpoint.offset), Size),
             \/ UNCHANGED checkpoint
             \/ checkpoint' = [events |-> checkpoint.events \o From(checkpoint.offset),
                               offset |-> Size]
      PROVE  IInv'
  <2>1. PICK s : s = checkpoint.events \o From(checkpoint.offset)
    OBVIOUS
  <2>2. checkpoint.events \in Seq(Event) /\ checkpoint.offset \in Nat
    BY <1>1, <1>4, CallType DEF Checkpoint
  <2>3. s \in Seq(Event) /\ Size \in Nat
    BY <1>1, <2>1, <2>2, CallType, FromType, ConcatProperties, LogType
  <2>4. rewrites = 0 => s = log
    <3>1. rewrites = 0 => Exact(checkpoint.events, checkpoint.offset)
      BY <1>4 DEF IInv, CheckpointOK
    <3> QED BY <1>1, <2>1, <2>2, <3>1, CallType, ExactExtends
  <2>5. Trusted(lane[t]) => SeenSince(sig[t][1], s) /\ Built(lane[t], s, Size)
    BY <1>1, <2>4, LogIsSeen DEF Trusted, Built
  <2>6. tip' \in Tip \cup {None}
    BY <1>1, <1>2, CallType
  <2>9. kept' \in SUBSET Seq(Event) /\ kept \subseteq kept' /\ (rewrites = 0 => kept' = {})
    BY <1>1, <1>2, CallType
  <2>7. CASE UNCHANGED checkpoint
    <3>1. CheckpointOK' /\ checkpoint' \in Checkpoint \cup {None}
      BY <1>1, <1>2, <2>7, CheckpointKept, CallType DEF IInv
    <3> QED BY <1>1, <1>2, <1>4, <2>1, <2>3, <2>5, <2>6, <2>9, <3>1, KeepStep
  <2>8. CASE checkpoint' = [events |-> s, offset |-> Size]
    <3>1. checkpoint' \in Checkpoint
      BY <2>3, <2>8 DEF Checkpoint
    <3>2. checkpoint'.events = s /\ checkpoint'.offset = Size
      BY <2>8
    <3>3. CheckpointOK'
      <4>1. rewrites = 0 => Exact(log, Size)
        BY <1>1, LogIsSeen
      <4> QED BY <1>2, <2>4, <3>2, <4>1 DEF CheckpointOK, Exact, logVars
    <3> QED BY <1>1, <1>2, <1>4, <2>1, <2>3, <2>5, <2>6, <2>9, <3>1, <3>3, KeepStep
  <2> QED BY <1>4, <2>1, <2>7, <2>8
<1> QED BY <1>3, <1>4 DEF LoadIndex

LEMMA RebuildIndexKeeps ==
  ASSUME IInv, NEW t \in Thread, RebuildIndex(t)
  PROVE  IInv'
<1>1. Reading(t) /\ lane[t] = "index"
  BY DEF RebuildIndex, Reading
<1>2. UNCHANGED <<logVars, tip, lane, sig, during, kept, calls>> /\ Keep(t, log, Size)
  BY DEF RebuildIndex
<1>3. log \in Seq(Event) /\ Size \in Nat /\ tip' \in Tip \cup {None}
  BY <1>1, <1>2, CallType, LogType
<1>4. SeenSince(sig[t][1], log) /\ Built(lane[t], log, Size) /\ Exact(log, Size)
  BY <1>1, LogIsSeen DEF Built
<1>7. kept' \in SUBSET Seq(Event) /\ kept \subseteq kept' /\ (rewrites = 0 => kept' = {})
  BY <1>1, <1>2, CallType
<1>5. CASE UNCHANGED checkpoint
  <2>1. CheckpointOK' /\ checkpoint' \in Checkpoint \cup {None}
    BY <1>1, <1>2, <1>5, CheckpointKept, CallType DEF IInv
  <2> QED BY <1>1, <1>2, <1>3, <1>4, <1>7, <2>1, KeepStep
<1>6. CASE checkpoint' = [events |-> log, offset |-> Size]
  <2>1. checkpoint' \in Checkpoint /\ checkpoint'.events = log /\ checkpoint'.offset = Size
    BY <1>3, <1>6 DEF Checkpoint
  <2>2. CheckpointOK'
    BY <1>2, <1>4, <2>1 DEF CheckpointOK, Exact, logVars
  <2> QED BY <1>1, <1>2, <1>3, <1>4, <1>7, <2>1, <2>2, KeepStep
<1> QED BY <1>5, <1>6 DEF RebuildIndex

(* A call begins: what is kept under the signature it takes is the log. *)
LEMMA StatKeeps ==
  ASSUME IInv, NEW t \in Thread, NEW l \in Lanes, Stat(t, l)
  PROVE  IInv'
<1>1. /\ ~ Reading(t) /\ UNCHANGED <<log, mtime, appended, rewrites>>
      /\ UNCHANGED <<cache, tip, checkpoint, found, read, kept>>
      /\ calls < MaxCalls /\ calls' = calls + 1
      /\ pc' = [pc EXCEPT ![t] = "lookup"]
      /\ lane' = [lane EXCEPT ![t] = l]
      /\ sig' = [sig EXCEPT ![t] = Signature]
      /\ result' = [result EXCEPT ![t] = None]
      /\ during' = [during EXCEPT ![t] = {log}]
  BY DEF Stat, logVars
<1>2. log \in Seq(Event) /\ mtime \in Nat /\ Size \in Nat
  BY LogType DEF IInv, TypeOK
<1>3. PICK g \in Sig : g = Signature /\ g[1] = mtime /\ g[2] = Size
  <2>1. PICK n : n = Size
    OBVIOUS
  <2>2. <<mtime, n>> \in Sig /\ <<mtime, n>>[1] = mtime /\ <<mtime, n>>[2] = n
    BY <1>2, <2>1 DEF Sig
  <2>3. Signature = <<mtime, n>>
    BY <2>1 DEF Signature
  <2> QED BY <2>1, <2>2, <2>3
<1>4. found[t] = None /\ read[t] = None
  BY <1>1 DEF IInv, TypeOK, Reading
<1>5. /\ pc'[t] = "lookup" /\ lane'[t] = l /\ sig'[t] = g /\ during'[t] = {log}
      /\ \A u \in Thread \ {t} : /\ pc'[u] = pc[u] /\ lane'[u] = lane[u] /\ sig'[u] = sig[u]
                                 /\ result'[u] = result[u] /\ during'[u] = during[u]
  BY <1>1, <1>3 DEF IInv, TypeOK
<1>6. TypeOK'
  <2>1. /\ pc' \in [Thread -> {"idle", "lookup", "extend", "cold", "full", "store", "save", "done"}]
        /\ lane' \in [Thread -> Lanes \cup {None}]
        /\ sig' \in [Thread -> Sig \cup {None}]
        /\ result' \in [Thread -> Seq(Event) \cup {None, Raised}]
    BY <1>1, <1>3 DEF IInv, TypeOK
  <2>2. during' \in [Thread -> SUBSET Seq(Event)]
    BY <1>1, <1>2 DEF IInv, TypeOK
  <2>3. \A u \in Thread :
          /\ (found'[u] # None) => (pc'[u] \in {"extend", "cold", "full", "store", "save"})
          /\ (read'[u] # None) <=> (pc'[u] \in {"store", "save"})
    BY <1>1, <1>4, <1>5 DEF IInv, TypeOK
  <2>4. calls' \in 0..MaxCalls
    BY <1>1, RetrievalCacheAssumption DEF IInv, TypeOK
  <2> QED BY <1>1, <2>1, <2>2, <2>3, <2>4 DEF IInv, TypeOK
<1>7. ASSUME NEW m \in Nat, NEW s, SeenSince(m, s)
      PROVE  SeenSince(m, s)'
  <2>1. ASSUME NEW u \in Thread, Reading(u)', sig'[u][1] <= m
        PROVE  s \in during'[u]
    <3>1. CASE u = t
      <4>1. m = mtime
        BY <1>2, <1>3, <1>5, <1>7, <2>1, <3>1 DEF SeenSince
      <4> QED BY <1>5, <1>7, <3>1, <4>1 DEF SeenSince
    <3>2. CASE u # t
      BY <1>5, <1>7, <2>1, <3>2 DEF SeenSince, Reading
    <3> QED BY <3>1, <3>2
  <2> QED BY <1>1, <1>7, <2>1 DEF SeenSince
<1>8. ASSUME NEW p \in Process, NEW k \in Lanes
      PROVE  EntryOK(k, cache[p][k])'
  <2>1. PICK e \in CacheEntry \cup {None} : e = cache[p][k]
    BY DEF IInv, TypeOK
  <2>2. EntryOK(k, e)
    BY <2>1 DEF IInv, EntriesOK
  <2>3. ASSUME e # None, Trusted(k)
        PROVE  /\ SeenSince(e.sig[1], e.events)' \/ IsKept(k, e.events)
               /\ Built(k, e.events, e.offset)
    <3>1. PICK m, s : m \in Nat /\ m = e.sig[1] /\ s = e.events
      BY <2>3, EntryType
    <3>2. SeenSince(m, s)' \/ IsKept(k, s)
      BY <2>2, <2>3, <3>1, <1>7 DEF EntryOK
    <3> QED BY <2>2, <2>3, <3>1, <3>2 DEF EntryOK
  <2> QED BY <1>1, <2>1, <2>3 DEF EntryOK, IsKept, Trusted, Built, Past, Exact, Boundary
<1>9. ReadingOK(t)'
  <2>1. mtime <= mtime /\ Size <= Size
    BY <1>2
  <2>2. Size' = Size
    BY <1>1 DEF Size
  <2> QED BY <1>1, <1>3, <1>4, <1>5, <2>1, <2>2 DEF ReadingOK
<1>10. ASSUME NEW u \in Thread \ {t}
       PROVE  ReadingOK(u)'
  <2>1. ReadingOK(u) /\ Size' = Size
    BY <1>1 DEF IInv, Size
  <2>2. Reading(u) /\ SeenSince(sig[u][1], read[u]) => SeenSince(sig[u][1], read[u])'
    <3>1. ASSUME Reading(u), SeenSince(sig[u][1], read[u])
          PROVE  SeenSince(sig[u][1], read[u])'
      <4>1. PICK m, s : m \in Nat /\ m = sig[u][1] /\ s = read[u]
        BY <3>1, CallType
      <4>2. SeenSince(m, s)'
        BY <3>1, <4>1, <1>7
      <4> QED BY <1>1, <1>5, <4>1, <4>2 DEF SeenSince
    <3> QED BY <3>1
  <2> QED BY <1>1, <1>5, <2>1, <2>2 DEF ReadingOK, Reading, Built, Past, Exact, Boundary, Trusted
<1>11. ASSUME NEW u \in Thread
       PROVE  ResultOK(u)'
  <2>1. ResultOK(u)
    BY DEF IInv
  <2> QED BY <1>1, <1>5, <2>1 DEF ResultOK, IsKept, Trusted
<1>12. LogOK' /\ CheckpointOK' /\ KeptOK'
  BY <1>1 DEF IInv, LogOK, CheckpointOK, KeptOK, Exact
<1> QED BY <1>6, <1>8, <1>9, <1>10, <1>11, <1>12 DEF IInv, EntriesOK

-----------------------------------------------------------------------------
(* The steps of the log and of the processes.                              *)

(* Every event ends within the file. *)
LEMMA EndsBelow ==
  ASSUME log \in Seq(Event), LogOK, NEW i \in 1..Len(log)
  PROVE  log[i].end <= Size
<1>1. log # <<>> /\ Len(log) \in 1..Len(log) /\ Len(log) \in DOMAIN log /\ i \in DOMAIN log
  BY LogType, EmptySeq
<1>2. Size = log[Len(log)].end
  BY <1>1 DEF Size, End, Last
<1>3. i < Len(log) => log[i].end + 1 < log[Len(log)].end
  BY <1>1 DEF LogOK
<1>4. log[i].end \in Nat /\ log[Len(log)].end \in Nat /\ (i < Len(log) \/ i = Len(log))
  BY <1>1, LogType
<1> QED BY <1>2, <1>3, <1>4

(* The log with one more event. *)
LEMMA LogGrows ==
  ASSUME IInv, NEW n \in 2..MaxSize, AppendEvent(n)
  PROVE  \E ev \in Event :
           /\ log' = Append(log, ev)
           /\ ev.id = appended + 1
           /\ ev.prev = IF log = <<>> THEN None ELSE Last(log).id
           /\ ev.end = Size + n
<1> DEFINE ev == [seq  |-> Len(log) + 1,
                  id   |-> appended + 1,
                  prev |-> IF log = <<>> THEN None ELSE Last(log).id,
                  end  |-> Size + n]
<1>1. log' = Append(log, ev)
  BY DEF AppendEvent
<1>2. log \in Seq(Event) /\ appended \in Nat /\ n \in Nat
  BY RetrievalCacheAssumption DEF IInv, TypeOK
<1>3. Len(log) \in Nat /\ Size \in Nat
  BY <1>2, LogType
<1>4. (IF log = <<>> THEN None ELSE Last(log).id) \in Nat \cup {None}
  BY <1>2, LogType DEF Last
<1>5. ev \in Event
  BY <1>2, <1>3, <1>4 DEF Event
<1>6. /\ ev.id = appended + 1
      /\ ev.prev = IF log = <<>> THEN None ELSE Last(log).id
      /\ ev.end = Size + n
  OBVIOUS
<1> HIDE DEF ev
<1> QED BY <1>1, <1>5, <1>6

(* An append makes every signature old; it repeats no id, so what was the  *)
(* log once still was; and whoever is reading sees it.                     *)
LEMMA AppendEventKeeps ==
  ASSUME IInv, NEW n \in 2..MaxSize, AppendEvent(n)
  PROVE  IInv'
<1>1. /\ appended < MaxAppends /\ appended' = appended + 1 /\ mtime' = mtime + 1
      /\ during' = [t \in Thread |-> IF Reading(t) THEN during[t] \cup {log'} ELSE during[t]]
      /\ UNCHANGED <<rewrites, cache, tip, checkpoint, pc, lane, sig, found, read, result, kept, calls>>
  BY DEF AppendEvent, Witness
<1>2. PICK ev \in Event :
        /\ log' = Append(log, ev)
        /\ ev.id = appended + 1
        /\ ev.prev = IF log = <<>> THEN None ELSE Last(log).id
        /\ ev.end = Size + n
  BY LogGrows
<1>3. /\ log \in Seq(Event) /\ appended \in Nat /\ mtime \in Nat /\ n \in Nat /\ n > 1
      /\ LogOK
  BY RetrievalCacheAssumption DEF IInv, TypeOK
<1>4. PICK len \in Nat : len = Len(log)
  BY <1>3, LogType
<1>5. /\ log' \in Seq(Event) /\ Len(log') = len + 1
      /\ \A i \in 1..len : log'[i] = log[i]
      /\ log'[len + 1] = ev
      /\ DOMAIN log' = 1..(len + 1) /\ DOMAIN log = 1..len
  BY <1>2, <1>3, <1>4, AppendProperties, LenProperties
<1>6. \A i \in 1..len : /\ log[i].id \in Nat /\ log[i].end \in Nat
                        /\ log[i].id \in 1..appended /\ log[i].end <= Size
  BY <1>3, <1>4, <1>5, LogType, EndsBelow DEF LogOK
<1>7. Size \in Nat
  BY <1>3, LogType
<1>8. TypeOK'
  <2>1. appended' \in 0..MaxAppends /\ mtime' \in Nat
    BY <1>1, <1>3, RetrievalCacheAssumption
  <2>2. during' \in [Thread -> SUBSET Seq(Event)]
    BY <1>1, <1>5 DEF IInv, TypeOK
  <2> QED BY <1>1, <1>5, <2>1, <2>2 DEF IInv, TypeOK
<1>9. LogOK'
  <2>1. ASSUME NEW i \in 1..len
        PROVE  /\ log'[i].id \in 1..appended'
               /\ log'[i].prev = IF i = 1 THEN None ELSE log'[i - 1].id
               /\ log'[i].end > 1
    <3>1. log[i].prev = (IF i = 1 THEN None ELSE log[i - 1].id) /\ log[i].end > 1
      BY <1>3, <1>5 DEF LogOK
    <3>2. i # 1 => i - 1 \in 1..len
      OBVIOUS
    <3>3. i # 1 => log'[i - 1] = log[i - 1]
      BY <3>2, <1>5
    <3>4. log'[i] = log[i]
      BY <1>5
    <3>5. log'[i].id \in 1..appended'
      BY <1>1, <1>3, <1>6, <3>4
    <3>6. log'[i].prev = IF i = 1 THEN None ELSE log'[i - 1].id
      BY <3>1, <3>3, <3>4
    <3> QED BY <3>1, <3>4, <3>5, <3>6
  <2>2. /\ ev.id \in 1..appended'
        /\ ev.prev = IF len + 1 = 1 THEN None ELSE log'[len + 1 - 1].id
        /\ ev.end > 1
    <3>1. CASE log = <<>>
      <4>1. len = 0
        BY <1>3, <1>4, <3>1, EmptySeq
      <4> QED BY <1>1, <1>2, <1>3, <1>7, <3>1, <4>1
    <3>2. CASE log # <<>>
      <4>1. len \in 1..len /\ len + 1 # 1 /\ len + 1 - 1 = len
        BY <1>3, <1>4, <3>2, EmptySeq
      <4>2. ev.prev = log[len].id /\ log'[len] = log[len]
        BY <1>2, <1>4, <1>5, <3>2, <4>1 DEF Last
      <4>3. ev.prev = IF len + 1 = 1 THEN None ELSE log'[len + 1 - 1].id
        BY <4>1, <4>2
      <4>4. ev.id \in 1..appended' /\ ev.end > 1
        BY <1>1, <1>2, <1>3, <1>7
      <4> QED BY <4>3, <4>4
    <3> QED BY <3>1, <3>2
  <2>3. ASSUME NEW i \in 1..(len + 1), NEW j \in 1..(len + 1), i < j
        PROVE  log'[i].id < log'[j].id /\ log'[i].end + 1 < log'[j].end
    <3>1. i \in 1..len /\ log'[i] = log[i]
      BY <1>5, <2>3
    <3>2. CASE j = len + 1
      BY <1>2, <1>3, <1>5, <1>6, <1>7, <3>1, <3>2
    <3>3. CASE j # len + 1
      <4>1. j \in 1..len /\ log'[j] = log[j]
        BY <1>5, <2>3, <3>3
      <4> QED BY <1>3, <1>5, <2>3, <3>1, <4>1 DEF LogOK
    <3> QED BY <3>2, <3>3
  <2>4. \A i \in 1..(len + 1) : i \in 1..len \/ i = len + 1
    OBVIOUS
  <2> QED BY <1>5, <2>1, <2>2, <2>3, <2>4 DEF LogOK
<1>10. ASSUME NEW s, Past(s)
       PROVE  Past(s)'
  <2>1. ASSUME NEW i \in DOMAIN s
        PROVE  /\ s[i].id \in 1..appended'
               /\ \A j \in DOMAIN log' :
                    s[i].id = log'[j].id => i = j /\ \A k \in 1..i : s[k] = log'[k]
    <3>1. s[i].id \in 1..appended
      BY <1>10, <2>1 DEF Past
    <3>2. ASSUME NEW j \in DOMAIN log', s[i].id = log'[j].id
          PROVE  i = j /\ \A k \in 1..i : s[k] = log'[k]
      <4>1. j # len + 1
        BY <1>2, <1>3, <1>5, <3>1, <3>2
      <4>2. j \in 1..len /\ log'[j] = log[j]
        BY <1>5, <3>2, <4>1
      <4>3. i = j /\ \A k \in 1..i : s[k] = log[k]
        BY <1>5, <1>10, <2>1, <3>2, <4>2 DEF Past
      <4>4. \A k \in 1..i : k \in 1..len
        BY <4>2, <4>3
      <4> QED BY <1>5, <4>3, <4>4
    <3> QED BY <1>1, <1>3, <3>1, <3>2
  <2> QED BY <2>1 DEF Past
<1>11. ASSUME NEW s \in Seq(Event), NEW offset, Exact(s, offset)
       PROVE  Exact(s, offset)'
  <2>1. PICK m \in Nat : m = Len(s) /\ DOMAIN s = 1..m /\ m <= len
    BY <1>4, <1>11, LenProperties DEF Exact
  <2>2. \A k \in 1..m : k \in 1..len
    BY <2>1
  <2>3. m <= len + 1
    BY <2>1
  <2> QED BY <1>5, <1>11, <2>1, <2>2, <2>3 DEF Exact, End, Last
<1>17. ASSUME NEW k, Boundary(k)
       PROVE  Boundary(k)'
  BY <1>5, <1>17 DEF Boundary
<1>12. ASSUME NEW m \in Nat, NEW s, SeenSince(m, s)
       PROVE  SeenSince(m, s)'
  <2>1. m <= mtime' /\ m # mtime'
    BY <1>1, <1>3, <1>12 DEF SeenSince
  <2>2. ASSUME NEW t \in Thread, Reading(t)', sig'[t][1] <= m
        PROVE  s \in during'[t]
    BY <1>1, <1>12, <2>2 DEF SeenSince, Reading
  <2> QED BY <2>1, <2>2 DEF SeenSince
<1>13. ASSUME NEW p \in Process, NEW l \in Lanes
       PROVE  EntryOK(l, cache[p][l])'
  <2>1. PICK e \in CacheEntry \cup {None} : e = cache[p][l]
    BY DEF IInv, TypeOK
  <2>2. EntryOK(l, e)
    BY <2>1 DEF IInv, EntriesOK
  <2>3. ASSUME e # None, Trusted(l)
        PROVE  /\ SeenSince(e.sig[1], e.events)' \/ IsKept(l, e.events)'
               /\ Built(l, e.events, e.offset)'
    <3>1. PICK m \in Nat, s \in Seq(Event), offset \in Nat :
            m = e.sig[1] /\ s = e.events /\ offset = e.offset
      BY <2>3, EntryType
    <3>2. SeenSince(m, s)' \/ IsKept(l, s)'
      BY <1>1, <2>2, <2>3, <3>1, <1>12 DEF EntryOK, IsKept
    <3>3. Built(l, s, offset)'
      BY <1>1, <2>2, <2>3, <3>1, <1>10, <1>11, <1>17 DEF EntryOK, Built
    <3> QED BY <3>1, <3>2, <3>3
  <2> QED BY <1>1, <2>1, <2>3 DEF EntryOK, Trusted
<1>14. CheckpointOK'
  <2>1. checkpoint # None => checkpoint.events \in Seq(Event)
    BY DEF IInv, TypeOK
  <2>2. ASSUME checkpoint # None, rewrites = 0
        PROVE  Exact(checkpoint.events, checkpoint.offset)'
    <3>1. PICK s, offset : s \in Seq(Event) /\ s = checkpoint.events /\ offset = checkpoint.offset
      BY <2>1, <2>2
    <3>2. Exact(s, offset)'
      BY <2>2, <3>1, <1>11 DEF IInv, CheckpointOK
    <3> QED BY <1>1, <3>1, <3>2 DEF Exact
  <2> QED BY <1>1, <2>2 DEF CheckpointOK
<1>15. ASSUME NEW t \in Thread, Reading(t)
       PROVE  ReadingOK(t)'
  <2>1. ReadingOK(t) /\ log' \in during'[t]
    BY <1>1, <1>15 DEF IInv
  <2>2. Size <= Size' /\ Size' \in Nat
    <3>1. log' # <<>> /\ Last(log') = ev
      BY <1>2, <1>4, <1>5, <1>3, AppendProperties DEF Last
    <3>2. Size' = ev.end
      BY <3>1 DEF Size, End
    <3> QED BY <1>2, <1>3, <1>7, <3>2
  <2>4. sig[t][1] <= mtime' /\ sig[t][2] <= Size'
    BY <1>1, <1>3, <1>7, <1>15, <2>1, <2>2, CallType DEF ReadingOK
  <2>5. found[t] # None /\ Trusted(lane[t]) =>
          Built(lane[t], found[t].events, found[t].offset)'
    <3>1. ASSUME found[t] # None, Trusted(lane[t])
          PROVE  Built(lane[t], found[t].events, found[t].offset)'
      <4>1. PICK s \in Seq(Event), offset \in Nat : s = found[t].events /\ offset = found[t].offset
        BY <1>15, <3>1, CallType, EntryType
      <4>2. Built(lane[t], s, offset)
        BY <1>15, <2>1, <3>1, <4>1 DEF ReadingOK
      <4>3. Past(s) => Past(s)'
        BY <1>10
      <4>4. Exact(s, offset) => Exact(s, offset)'
        BY <1>11
      <4>5. Boundary(offset) => Boundary(offset)'
        BY <1>17
      <4> QED BY <1>1, <4>1, <4>2, <4>3, <4>4, <4>5 DEF Built, Past, Exact, Boundary
    <3> QED BY <3>1
  <2>6. pc[t] \in {"store", "save"} =>
          SeenSince(sig[t][1], read[t])' /\ Past(read[t])'
    <3>1. ASSUME pc[t] \in {"store", "save"}
          PROVE  SeenSince(sig[t][1], read[t])' /\ Past(read[t])'
      <4>1. PICK m, s : m \in Nat /\ m = sig[t][1] /\ s = read[t]
        BY <1>15, CallType
      <4>2. SeenSince(m, s) /\ Past(s)
        BY <1>15, <2>1, <3>1, <4>1 DEF ReadingOK
      <4>3. SeenSince(m, s)' /\ Past(s)'
        BY <4>1, <4>2, <1>10, <1>12
      <4> QED BY <1>1, <4>1, <4>3 DEF SeenSince, Past
    <3> QED BY <3>1
  <2> QED BY <1>1, <1>15, <2>1, <2>4, <2>5, <2>6 DEF ReadingOK, Trusted, Size
<1>16. ASSUME NEW t \in Thread
       PROVE  (ReadingOK(t) /\ ResultOK(t))'
  <2>1. ResultOK(t)'
    BY <1>1 DEF IInv, ResultOK, IsKept, Trusted, Reading
  <2>2. ~ Reading(t) => ReadingOK(t)'
    BY <1>1 DEF ReadingOK, Reading
  <2> QED BY <1>15, <2>1, <2>2
<1> QED BY <1>1, <1>8, <1>9, <1>13, <1>14, <1>16 DEF IInv, EntriesOK, KeptOK

(* An older copy of the log has the same past. *)
LEMMA RewriteKeeps ==
  ASSUME IInv, NEW k \in 0..Len(log) - 1, Rewrite(k)
  PROVE  IInv'
<1>1. /\ rewrites < MaxRewrites /\ rewrites' = rewrites + 1 /\ mtime' = mtime + 1
      /\ log' = SubSeq(log, 1, k)
      /\ \A t \in Thread : ~ Reading(t)
      /\ UNCHANGED <<appended, cache, tip, checkpoint, pc, lane, sig, found, read>>
      /\ UNCHANGED <<result, during, kept, calls>>
  BY DEF Rewrite
<1>2. log \in Seq(Event) /\ mtime \in Nat /\ rewrites \in Nat
  BY RetrievalCacheAssumption DEF IInv, TypeOK
<1>3. k \in Nat /\ k <= Len(log) /\ DOMAIN log = 1..Len(log) /\ Len(log) \in Nat
  BY <1>2, LogType
<1>4. /\ log' \in Seq(Event) /\ DOMAIN log' = 1..k
      /\ \A i \in 1..k : log'[i] = log[i] /\ i \in DOMAIN log
  <2>1. \A i \in 1..k : log[i] \in Event /\ i \in DOMAIN log
    BY <1>2, <1>3, LogType
  <2>2. 1 \in Int /\ k \in Int
    BY <1>3
  <2>3. /\ log' \in Seq(Event)
        /\ Len(log') = IF 1 <= k THEN k - 1 + 1 ELSE 0
        /\ \A i \in 1..(k - 1 + 1) : log'[i] = log[1 + i - 1]
    BY <1>1, <2>1, <2>2, SubSeqProperties
  <2>4. k - 1 + 1 = k /\ \A i \in 1..k : 1 + i - 1 = i
    BY <1>3
  <2>5. (IF 1 <= k THEN k - 1 + 1 ELSE 0) = k
    BY <1>3
  <2> QED BY <2>1, <2>3, <2>4, <2>5, LenProperties
<1>5. TypeOK'
  <2>1. rewrites' \in 0..MaxRewrites /\ mtime' \in Nat
    BY <1>1, <1>2, RetrievalCacheAssumption
  <2> QED BY <1>1, <1>4, <2>1 DEF IInv, TypeOK
<1>6. LogOK'
  <2>1. ASSUME NEW i \in 1..k
        PROVE  log'[i].prev = IF i = 1 THEN None ELSE log'[i - 1].id
    <3>1. i # 1 => i - 1 \in 1..k
      BY <1>3
    <3>2. log[i].prev = IF i = 1 THEN None ELSE log[i - 1].id
      BY <1>4 DEF IInv, LogOK
    <3> QED BY <1>4, <3>1, <3>2
  <2>2. ASSUME NEW i \in 1..k
        PROVE  /\ log'[i].id \in 1..appended' /\ log'[i].end > 1
               /\ \A j \in 1..k :
                    i < j => log'[i].id < log'[j].id /\ log'[i].end + 1 < log'[j].end
    BY <1>1, <1>4 DEF IInv, LogOK
  <2> QED BY <1>4, <2>1, <2>2 DEF LogOK
<1>7. ASSUME NEW s, Past(s)
      PROVE  Past(s)'
  <2>1. ASSUME NEW i \in DOMAIN s, NEW j \in 1..k, s[i].id = log[j].id
        PROVE  i = j /\ \A h \in 1..i : s[h] = log'[h]
    <3>1. i = j /\ \A h \in 1..i : s[h] = log[h]
      BY <1>4, <1>7, <2>1 DEF Past
    <3>2. \A h \in 1..i : h \in 1..k
      BY <1>3, <3>1
    <3> QED BY <1>4, <3>1, <3>2
  <2>2. \A i \in DOMAIN s : s[i].id \in 1..appended'
    BY <1>1, <1>7 DEF Past
  <2> QED BY <1>4, <2>1, <2>2 DEF Past
<1>8. rewrites' # 0 /\ \A l : Trusted(l)' => l = "replay"
  BY <1>1, <1>2 DEF Trusted
<1>9. ASSUME NEW p \in Process, NEW l \in Lanes
      PROVE  EntryOK(l, cache[p][l])'
  <2>1. PICK e \in CacheEntry \cup {None} : e = cache[p][l]
    BY DEF IInv, TypeOK
  <2>2. EntryOK(l, e)
    BY <2>1 DEF IInv, EntriesOK
  <2>3. ASSUME e # None, l = "replay"
        PROVE  /\ SeenSince(e.sig[1], e.events)' \/ IsKept(l, e.events)'
               /\ Built(l, e.events, e.offset)'
    <3>1. PICK m, s : m \in Nat /\ m = e.sig[1] /\ s = e.events
      BY <2>3, EntryType
    <3>2. (m <= mtime \/ IsKept(l, s)) /\ Past(s)
      BY <2>2, <2>3, <3>1 DEF EntryOK, Trusted, Built, SeenSince
    <3>3. m <= mtime => SeenSince(m, s)'
      <4>1. m <= mtime => m <= mtime' /\ m # mtime'
        BY <1>1, <1>2, <3>1
      <4> QED BY <1>1, <4>1 DEF Reading, SeenSince
    <3>4. IsKept(l, s) => IsKept(l, s)'
      BY <1>1 DEF IsKept
    <3>5. Past(s)'
      BY <3>2, <1>7
    <3> QED BY <1>8, <2>3, <3>1, <3>2, <3>3, <3>4, <3>5 DEF Built
  <2> QED BY <1>1, <1>8, <2>1, <2>3 DEF EntryOK
<1>10. CheckpointOK' /\ KeptOK'
  BY <1>8 DEF CheckpointOK, KeptOK
<1>11. ASSUME NEW t \in Thread
       PROVE  (ReadingOK(t) /\ ResultOK(t))'
  <2>1. ReadingOK(t)'
    BY <1>1 DEF ReadingOK, Reading
  <2>2. ResultOK(t)'
    BY <1>1, <1>8 DEF IInv, ResultOK, IsKept, Trusted
  <2> QED BY <2>1, <2>2
<1> QED BY <1>5, <1>6, <1>9, <1>10, <1>11 DEF IInv, EntriesOK

(* What is thrown away can do no harm: invalidate, and a restart. *)
LEMMA ForgetKeeps ==
  ASSUME IInv, NEW p \in Process, Invalidate(p) \/ Restart(p)
  PROVE  IInv'
<1>1. /\ cache' = [cache EXCEPT ![p] = [l \in Lanes |-> None]]
      /\ tip' \in {tip, None} /\ checkpoint' \in {checkpoint, None}
      /\ UNCHANGED <<log, mtime, appended, rewrites>>
      /\ UNCHANGED <<pc, lane, sig, found, read, result, during, kept, calls>>
  BY DEF Invalidate, Restart, logVars
<1>2. TypeOK'
  <2>1. cache' \in [Process -> [Lanes -> CacheEntry \cup {None}]]
    BY <1>1 DEF IInv, TypeOK
  <2>2. tip' \in [seq : Nat, id : Nat] \cup {None}
          /\ checkpoint' \in [events : Seq(Event), offset : Nat] \cup {None}
    BY <1>1 DEF IInv, TypeOK
  <2> QED BY <1>1, <2>1, <2>2 DEF IInv, TypeOK
<1>3. LogOK' /\ CheckpointOK' /\ KeptOK'
  BY <1>1 DEF IInv, LogOK, CheckpointOK, KeptOK, Exact
<1>4. \A t \in Thread : (ReadingOK(t) /\ ResultOK(t))'
  BY <1>1 DEF IInv, ReadingOK, ResultOK, IsKept, Reading, SeenSince, Built, Past, Exact,
              Boundary, Trusted, Size
<1>5. ASSUME NEW q \in Process, NEW l \in Lanes
      PROVE  EntryOK(l, cache[q][l])'
  <2>1. PICK e : e = cache'[q][l]
    OBVIOUS
  <2>2. e = cache[q][l] \/ e = None
    BY <1>1, <2>1 DEF IInv, TypeOK
  <2>3. EntryOK(l, e)
    BY <2>2 DEF IInv, EntriesOK, EntryOK
  <2>4. EntryOK(l, e)'
    BY <1>1, <2>3 DEF EntryOK, IsKept, Trusted, SeenSince, Built, Past, Exact, Boundary, Reading
  <2> QED BY <2>1, <2>4 DEF EntryOK
<1> QED BY <1>2, <1>3, <1>4, <1>5 DEF IInv, EntriesOK

-----------------------------------------------------------------------------
LEMMA InitInv == Init => IInv
<1> SUFFICES ASSUME Init PROVE IInv
  OBVIOUS
<1>1. <<>> \in Seq(Event) /\ DOMAIN (<<>>) = {}
  BY EmptySeq, LenProperties
<1>2. TypeOK
  BY <1>1, RetrievalCacheAssumption DEF Init, TypeOK
<1>3. LogOK
  BY <1>1 DEF Init, LogOK
<1>4. EntriesOK /\ CheckpointOK /\ KeptOK
  BY DEF Init, EntriesOK, EntryOK, CheckpointOK, KeptOK
<1>5. \A t \in Thread : ReadingOK(t) /\ ResultOK(t)
  BY DEF Init, ReadingOK, ResultOK, Reading
<1> QED BY <1>2, <1>3, <1>4, <1>5 DEF IInv

(* No step of a call, of a writer, of an operator or of a process breaks it. *)
LEMMA NextInv == IInv /\ [Next]_vars => IInv'
<1> SUFFICES ASSUME IInv, [Next]_vars PROVE IInv'
  OBVIOUS
<1>1. CASE UNCHANGED vars
  BY <1>1 DEF vars, logVars, IInv, TypeOK, LogOK, EntriesOK, EntryOK, CheckpointOK, ReadingOK,
              KeptOK, ResultOK, IsKept, Reading, SeenSince, Built, Past, Exact, Boundary,
              Trusted, Size
<1>2. ASSUME NEW n \in 2..MaxSize, AppendEvent(n)
      PROVE  IInv'
  BY <1>2, AppendEventKeeps
<1>3. ASSUME NEW k \in 0..Len(log) - 1, Rewrite(k)
      PROVE  IInv'
  BY <1>3, RewriteKeeps
<1>4. ASSUME NEW t \in Thread, NEW l \in Lanes, Stat(t, l)
      PROVE  IInv'
  BY <1>4, StatKeeps
<1>5. ASSUME NEW t \in Thread,
             \/ Lookup(t) \/ ExtendReplay(t) \/ ColdReplay(t) \/ FullReplay(t) \/ Store(t)
             \/ ExtendIndex(t) \/ LoadIndex(t) \/ RebuildIndex(t)
      PROVE  IInv'
  BY <1>5, LookupKeeps, ExtendReplayKeeps, ColdReplayKeeps, FullReplayKeeps, StoreKeeps,
     ExtendIndexKeeps, LoadIndexKeeps, RebuildIndexKeeps
<1>6. ASSUME NEW p \in Process, Invalidate(p) \/ Restart(p)
      PROVE  IInv'
  BY <1>6, ForgetKeeps
<1> QED BY <1>1, <1>2, <1>3, <1>4, <1>5, <1>6 DEF Next

(* The invariant of every behaviour of the caches. *)
THEOREM InvHolds == Spec => []IInv
BY InitInv, NextInv, PTL DEF Spec

(* Every variable keeps its type, and a call holds an entry it has found   *)
(* or events it has read only between its lookup and its return.           *)
THEOREM TypeCorrect == Spec => []TypeOK
<1>1. IInv => TypeOK
  BY DEF IInv
<1> QED BY <1>1, InvHolds, PTL

(* A verified replay, and until the log is replaced the index, is the log  *)
(* of some moment of its call: whatever threads store over each other,     *)
(* whatever is appended or replaced between its signature, its offset and  *)
(* its events, and from whatever checkpoint it was started.  The exception *)
(* is a replay that an extension kept, after the log was replaced, because *)
(* nothing but a newline was behind its offset.                            *)
THEOREM AnswersAreTheLog == Spec => []ResultIsOfCall
<1>1. IInv => ResultIsOfCall
  <2> SUFFICES ASSUME IInv PROVE ResultIsOfCall
    OBVIOUS
  <2>1. \A t \in Thread : ResultOK(t)
    BY DEF IInv
  <2>2. kept # {} => rewrites > 0
    BY RetrievalCacheAssumption DEF IInv, KeptOK, TypeOK
  <2> QED BY <2>1, <2>2 DEF ResultOK, IsKept, Trusted, ResultIsOfCall, ReplayIsOfCall,
                        IndexIsOfCall, Returned, ReturnsLog
<1> QED BY <1>1, InvHolds, PTL
=============================================================================

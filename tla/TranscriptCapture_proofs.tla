----------------------- MODULE TranscriptCapture_proofs -----------------------
(***************************************************************************)
(* Proofs about TranscriptCapture, for any importers, transcripts, windows *)
(* and batches, however importers overlap or die: the types, that a call   *)
(* which nothing disturbs appends the transcript once and in order, and    *)
(* that a pass over a Claude transcript leaves nothing out.                *)
(***************************************************************************)
EXTENDS TranscriptCapture, SequenceTheorems, WellFoundedInduction, TLAPS

\* A line that can be observed is in the log, or no pass would take it.
Taken(i) == i \in References(log) \/ ~MeetsCall(i, References(log))

\* A line is written after the line of its call.
TranscriptOK ==
  /\ Len(transcript) <= MaxRecords
  /\ torn => transcript # << >>
  /\ \A i \in DOMAIN transcript : transcript[i] < i

\* No line is in the log of which an earlier one could still be taken.
LogOK ==
  \A x \in Range(log) \cap Line :
    /\ x <= Whole
    /\ \A y \in 1..(x - 1) : Observable(y) => Taken(y)

\* The references that a pass has read are in the log, and are all of them
\* unless another call has appended since.
ScanOK(p) ==
  at[p] = "scan" =>
    /\ known[p] \subseteq References(log)
    /\ ~raced[p] => known[p] = References(log)

\* What LogOK says holds of every line that a pass is about to append, once the
\* lines before it are appended.
TodoOK(p) ==
  \A n \in DOMAIN todo[p] : todo[p][n] \in Line =>
    /\ todo[p][n] <= Whole
    /\ \A y \in 1..(todo[p][n] - 1) : Observable(y) =>
         Taken(y) \/ \E m \in 1..(n - 1) : todo[p][m] = y

\* y may come after x in the log.
MayFollow(x, y) ==
  /\ x = y => y = NoRef
  /\ x \in Line /\ y \in Line => x < y

\* What a call holds is new, and in the order of the transcript.
OrderOK(p) ==
  \A i, j \in DOMAIN todo[p] : i < j => MayFollow(todo[p][i], todo[p][j])

NewOK(p) ==
  Undisturbed(p) =>
    \A x \in Range(log), j \in DOMAIN todo[p] : MayFollow(x, todo[p][j])

\* A pass over a Claude transcript takes every line it can observe.
DueOK(p) ==
  Client = "claude" /\ at[p] = "append" =>
    due[p] \subseteq References(log) \cup Range(todo[p])

CallOK(p) == ScanOK(p) /\ TodoOK(p) /\ OrderOK(p) /\ NewOK(p) /\ DueOK(p)

IInv == TypeOK /\ TranscriptOK /\ LogOK /\ \A p \in Importer : CallOK(p)

-----------------------------------------------------------------------------
\* A set of numbers that is not empty has a least one.
LEMMA NatMin ==
  ASSUME NEW T \in SUBSET Nat, T # {}
  PROVE  \E x \in T : \A y \in T : x <= y
<1>1. PICK x \in T : \A y \in T : ~ (<<y, x>> \in OpToRel(<, Nat))
  BY NatLessThanWellFounded, WFMin
<1>2. \A y \in T : ~ (y < x)
  BY <1>1 DEF OpToRel
<1> QED BY <1>2

\* u[n] is the sequence of the numbers up to n that are in S, n <= m.
Loop(u, m, S) ==
  u = [n \in 0..m |->
         IF n = 0 THEN << >>
         ELSE IF n \in S THEN Append(u[n - 1], n) ELSE u[n - 1]]

\* The loop can be run to any length.
LEMMA LoopExists ==
  ASSUME NEW S, NEW m \in Nat
  PROVE  \E u : Loop(u, m, S)
<1> DEFINE T == {k \in Nat : ~ \E u : Loop(u, k, S)}
<1>1. SUFFICES ASSUME T # {} PROVE FALSE
  OBVIOUS
<1>2. PICK k \in T : \A j \in T : k <= j
  BY <1>1, NatMin
<1>3. k # 0
  <2>1. Loop([n \in 0..0 |-> << >>], 0, S)
    BY DEF Loop
  <2> QED BY <2>1
<1>4. k - 1 \in Nat /\ k - 1 \notin T
  BY <1>2, <1>3
<1>5. PICK u : Loop(u, k - 1, S)
  BY <1>4
<1> DEFINE last == IF k \in S THEN Append(u[k - 1], k) ELSE u[k - 1]
           v == [n \in 0..k |-> IF n = k THEN last ELSE u[n]]
<1>6. \A n \in 0..(k - 1) : v[n] = u[n]
  BY <1>2
<1>7. v[k] = last
  BY <1>2
<1> HIDE DEF v
<1>8. v = [n \in 0..k |->
             IF n = 0 THEN << >>
             ELSE IF n \in S THEN Append(v[n - 1], n) ELSE v[n - 1]]
  <2>1. ASSUME NEW n \in 0..k
        PROVE  v[n] = IF n = 0 THEN << >>
                      ELSE IF n \in S THEN Append(v[n - 1], n) ELSE v[n - 1]
    <3>1. CASE n = k
      <4>1. n - 1 \in 0..(k - 1) /\ n # 0
        BY <3>1, <1>3, <1>4
      <4> QED BY <3>1, <4>1, <1>6, <1>7
    <3>2. CASE n # k
      <4>1. n \in 0..(k - 1) /\ (n # 0 => n - 1 \in 0..(k - 1))
        BY <3>2
      <4>2. u[n] = IF n = 0 THEN << >>
                   ELSE IF n \in S THEN Append(u[n - 1], n) ELSE u[n - 1]
        BY <1>5, <4>1 DEF Loop
      <4> QED BY <4>1, <4>2, <1>6
    <3> QED BY <3>1, <3>2
  <2>2. v = [n \in 0..k |-> v[n]]
    BY DEF v
  <2> QED BY <2>1, <2>2
<1>9. Loop(v, k, S)
  BY <1>8 DEF Loop
<1> QED BY <1>9

\* s is the numbers up to k that are in S, in ascending order.
Lists(s, k, S) ==
  /\ s \in Seq(Nat)
  /\ \A i \in 1..Len(s) : s[i] \in S /\ s[i] \in 1..k
  /\ \A i, j \in 1..Len(s) : i < j => s[i] < s[j]
  /\ \A x \in 1..k : x \in S => \E i \in 1..Len(s) : s[i] = x

\* One more number.
LEMMA ListsNext ==
  ASSUME NEW S, NEW k \in Nat \ {0}, NEW s, Lists(s, k - 1, S)
  PROVE  Lists(IF k \in S THEN Append(s, k) ELSE s, k, S)
<1>1. CASE k \in S
  <2>1. PICK t : t = Append(s, k)
    OBVIOUS
  <2>2. s \in Seq(Nat) /\ Len(s) \in Nat
    BY LenProperties DEF Lists
  <2>3. /\ t \in Seq(Nat) /\ Len(t) = Len(s) + 1
        /\ \A i \in 1..Len(s) : t[i] = s[i]
        /\ t[Len(s) + 1] = k
    BY <2>1, <2>2, AppendProperties
  <2>4. \A i \in 1..Len(t) : i \in 1..Len(s) \/ i = Len(s) + 1
    BY <2>2, <2>3
  <2>5. ASSUME NEW i \in 1..Len(t) PROVE t[i] \in S /\ t[i] \in 1..k
    <3>1. CASE i \in 1..Len(s)
      <4>1. s[i] \in S /\ s[i] \in 1..(k - 1)
        BY <3>1 DEF Lists
      <4> QED BY <3>1, <4>1, <2>3
    <3>2. CASE i = Len(s) + 1
      BY <3>2, <2>3, <1>1
    <3> QED BY <2>4, <3>1, <3>2
  <2>6. ASSUME NEW i \in 1..Len(t), NEW j \in 1..Len(t), i < j PROVE t[i] < t[j]
    <3>1. i \in 1..Len(s)
      BY <2>2, <2>3, <2>6
    <3>2. CASE j \in 1..Len(s)
      BY <3>1, <3>2, <2>3, <2>6 DEF Lists
    <3>3. CASE j = Len(s) + 1
      <4>1. s[i] \in 1..(k - 1)
        BY <3>1 DEF Lists
      <4> QED BY <3>1, <3>3, <4>1, <2>3
    <3> QED BY <2>4, <3>2, <3>3
  <2>7. ASSUME NEW x \in 1..k, x \in S PROVE \E i \in 1..Len(t) : t[i] = x
    <3>1. CASE x = k
      <4>1. Len(s) + 1 \in 1..Len(t)
        BY <2>2, <2>3
      <4> QED BY <3>1, <4>1, <2>3
    <3>2. CASE x # k
      <4>1. x \in 1..(k - 1)
        BY <3>2
      <4>2. PICK i \in 1..Len(s) : s[i] = x
        BY <4>1, <2>7 DEF Lists
      <4>3. i \in 1..Len(t)
        BY <2>2, <2>3
      <4> QED BY <4>2, <4>3, <2>3
    <3> QED BY <3>1, <3>2
  <2>8. Lists(t, k, S)
    BY <2>3, <2>5, <2>6, <2>7 DEF Lists
  <2> QED BY <1>1, <2>1, <2>8
<1>2. CASE k \notin S
  <2>1. Lists(s, k, S)
    BY <1>2 DEF Lists
  <2> QED BY <1>2, <2>1
<1> QED BY <1>1, <1>2

\* Ascending lists the numbers of its set.
LEMMA AscendingIs ==
  ASSUME NEW S, NEW m \in Nat
  PROVE  Lists(Ascending(m, S), m, S)
<1> DEFINE w == CHOOSE u : Loop(u, m, S)
<1>1. Loop(w, m, S)
  BY LoopExists
<1>2. Ascending(m, S) = w[m]
  BY DEF Ascending, Loop
<1> HIDE DEF w
<1> DEFINE T == {k \in 0..m : ~ Lists(w[k], k, S)}
<1>3. m \in 0..m /\ T \in SUBSET Nat
  OBVIOUS
<1>4. SUFFICES ASSUME T # {} PROVE FALSE
  BY <1>2, <1>3
<1>5. PICK k \in T : \A j \in T : k <= j
  BY <1>3, <1>4, NatMin
<1>6. w[k] = IF k = 0 THEN << >>
             ELSE IF k \in S THEN Append(w[k - 1], k) ELSE w[k - 1]
  BY <1>1, <1>5 DEF Loop
<1>7. k # 0
  <2>1. Lists(<< >>, 0, S)
    BY EmptySeq DEF Lists
  <2> QED BY <1>5, <1>6, <2>1
<1>8. k - 1 \in 0..m /\ k - 1 \notin T /\ k \in Nat \ {0}
  BY <1>5, <1>7
<1>9. Lists(w[k - 1], k - 1, S)
  BY <1>8
<1>10. Lists(w[k], k, S)
  BY <1>6, <1>7, <1>8, <1>9, ListsNext
<1> QED BY <1>5, <1>10
-----------------------------------------------------------------------------
LEMMA LineType ==
  /\ MaxRecords \in Nat /\ Window \in Nat \ {0} /\ Client \in {"claude", "codex"}
  /\ Line \subseteq Nat /\ 0 \notin Line
  /\ \A x \in ProducerRef \cup {NoRef} : x \notin Line
  /\ NoRef \notin Ref
<1>1. \A x \in ProducerRef \cup {NoRef} : x \notin Line
  BY ImportAssumption DEF Line
<1>2. MaxRecords \in Nat /\ Window \in Nat \ {0} /\ Client \in {"claude", "codex"}
  BY ImportAssumption
<1>3. NoRef \notin ProducerRef
  BY ImportAssumption
<1>4. Line \subseteq Nat /\ 0 \notin Line
  BY <1>2 DEF Line
<1> QED BY <1>1, <1>2, <1>3, <1>4 DEF Ref

\* The whole lines of a transcript.
LEMMA WholeType ==
  ASSUME TypeOK, TranscriptOK
  PROVE  /\ Len(transcript) \in Nat /\ Whole \in 0..Len(transcript)
         /\ 1..Whole \subseteq Line /\ DOMAIN transcript \subseteq Line
         /\ DOMAIN transcript = 1..Len(transcript)
         /\ \A i \in DOMAIN transcript : transcript[i] \in Nat /\ transcript[i] < i
<1>1. transcript \in Seq(Record) /\ Len(transcript) \in Nat /\ Len(transcript) <= MaxRecords
  BY LenProperties DEF TypeOK, TranscriptOK
<1>2. DOMAIN transcript = 1..Len(transcript)
  BY <1>1, LenProperties
<1>3. torn => Len(transcript) # 0
  BY <1>1, EmptySeq DEF TranscriptOK
<1>4. Whole \in 0..Len(transcript)
  BY <1>1, <1>3 DEF Whole
<1>5. 1..Len(transcript) \subseteq Line /\ 1..Whole \subseteq 1..Len(transcript)
  BY <1>1, <1>4, LineType DEF Line
<1>6. \A i \in DOMAIN transcript : transcript[i] \in Record
  BY <1>1, <1>2, ElementOfSeq
<1>7. ASSUME NEW i \in DOMAIN transcript PROVE transcript[i] \in Nat /\ transcript[i] < i
  <2>1. Record \subseteq Nat
    BY LineType DEF Record
  <2>2. transcript[i] \in Nat
    BY <2>1, <1>6
  <2>3. transcript[i] < i
    BY DEF TranscriptOK
  <2> QED BY <2>2, <2>3
<1> QED BY <1>1, <1>2, <1>4, <1>5, <1>7

LEMMA InitIInv == Init => IInv
<1> SUFFICES ASSUME Init PROVE IInv
  OBVIOUS
<1>1. << >> \in Seq(Record) /\ << >> \in Seq(Ref \cup {NoRef}) /\ Len(<< >>) = 0
  BY EmptySeq
<1>2. TypeOK
  <2>1. MaxIngests \in Nat /\ MaxCuts \in Nat
    BY ImportAssumption
  <2>2. 0 \in 0..MaxIngests /\ 0 \in 0..MaxCuts
    BY <2>1
  <2> QED BY <1>1, <2>2 DEF Init, TypeOK
<1>3. TranscriptOK
  BY <1>1, ImportAssumption DEF Init, TranscriptOK
<1>4. LogOK
  BY DEF Init, LogOK, Range
<1>5. ASSUME NEW p \in Importer PROVE CallOK(p)
  BY DEF Init, CallOK, ScanOK, TodoOK, OrderOK, NewOK, DueOK, Undisturbed
<1> QED BY <1>2, <1>3, <1>4, <1>5 DEF IInv

-----------------------------------------------------------------------------
(* The transcript *)

\* Nothing of a call is disturbed by new lines, nor by a window that moves on.
LEMMA TranscriptGrows ==
  ASSUME IInv, UNCHANGED <<log, at, known, todo, due, raced>>,
         TypeOK', TranscriptOK', Whole' \in Nat, Whole <= Whole',
         \A y \in 1..Whole :
           transcript'[y] = transcript[y] /\ (Observable(y)' => Observable(y))
  PROVE  IInv'
<1>1. Whole \in Nat
  <2>1. TypeOK /\ TranscriptOK
    BY DEF IInv
  <2> QED BY <2>1, WholeType
<1>2. ASSUME NEW y \in 1..Whole PROVE Taken(y)' <=> Taken(y)
  BY DEF Taken, MeetsCall, References
<1>3. LogOK'
  <2>1. SUFFICES ASSUME NEW x \in Range(log) \cap Line
                 PROVE  /\ x <= Whole'
                        /\ \A y \in 1..(x - 1) : Observable(y)' => Taken(y)'
    BY DEF LogOK
  <2>2. x \in Nat /\ x <= Whole /\ \A y \in 1..(x - 1) : Observable(y) => Taken(y)
    BY LineType DEF IInv, LogOK
  <2>3. ASSUME NEW y \in 1..(x - 1) PROVE y \in 1..Whole
    BY <2>2, <1>1
  <2> QED BY <1>1, <1>2, <2>2, <2>3
<1>4. ASSUME NEW p \in Importer PROVE CallOK(p)'
  <2>1. CallOK(p)
    BY DEF IInv
  <2>2. TodoOK(p)'
    <3>1. SUFFICES ASSUME NEW n \in DOMAIN todo[p], todo[p][n] \in Line
                   PROVE  /\ todo[p][n] <= Whole'
                          /\ \A y \in 1..(todo[p][n] - 1) : Observable(y)' =>
                               Taken(y)' \/ \E m \in 1..(n - 1) : todo[p][m] = y
      BY DEF TodoOK
    <3>2. /\ todo[p][n] \in Nat /\ todo[p][n] <= Whole
          /\ \A y \in 1..(todo[p][n] - 1) : Observable(y) =>
               Taken(y) \/ \E m \in 1..(n - 1) : todo[p][m] = y
      BY <2>1, <3>1, LineType DEF CallOK, TodoOK
    <3>3. ASSUME NEW y \in 1..(todo[p][n] - 1) PROVE y \in 1..Whole
      BY <3>2, <1>1
    <3> QED BY <1>1, <1>2, <3>2, <3>3
  <2>3. ScanOK(p)' /\ OrderOK(p)' /\ NewOK(p)' /\ DueOK(p)'
    BY <2>1 DEF CallOK, ScanOK, OrderOK, NewOK, DueOK, Undisturbed
  <2> QED BY <2>2, <2>3 DEF CallOK
<1> QED BY <1>3, <1>4 DEF IInv

LEMMA WriteKeeps == ASSUME IInv, NEW record \in Record, Write(record) PROVE IInv'
<1>1. TypeOK /\ TranscriptOK
  BY DEF IInv
<1>2. /\ Len(transcript) \in Nat /\ ~torn /\ torn' = TRUE /\ split' \in BOOLEAN
      /\ Len(transcript) < MaxRecords /\ transcript' = Append(transcript, record)
      /\ UNCHANGED <<log, at, known, todo, due, raced, ingests, cuts>>
  BY <1>1, WholeType DEF Write
<1>3. /\ transcript' \in Seq(Record) /\ Len(transcript') = Len(transcript) + 1
      /\ DOMAIN transcript' = 1..(Len(transcript) + 1)
      /\ \A y \in 1..Len(transcript) : transcript'[y] = transcript[y]
      /\ transcript'[Len(transcript) + 1] = record
  BY <1>1, <1>2, AppendProperties DEF TypeOK
<1>4. Whole = Len(transcript) /\ Whole' = Len(transcript)
  BY <1>2, <1>3 DEF Whole
<1>5. TypeOK'
  BY <1>1, <1>2, <1>3 DEF TypeOK
<1>6. TranscriptOK'
  <2>1. record < Len(transcript) + 1
    <3>1. record # 0 => record \in DOMAIN transcript
      BY DEF Write
    <3> QED BY <3>1, <1>1, <1>2, WholeType
  <2>2. ASSUME NEW i \in DOMAIN transcript' PROVE transcript'[i] < i
    <3>1. CASE i \in 1..Len(transcript)
      BY <3>1, <1>1, <1>3, WholeType
    <3>2. CASE i = Len(transcript) + 1
      BY <3>2, <2>1, <1>3
    <3> QED BY <3>1, <3>2, <1>2, <1>3
  <2>3. Len(transcript') <= MaxRecords /\ transcript' # << >>
    BY <1>2, <1>3, LineType, EmptySeq
  <2> QED BY <2>2, <2>3 DEF TranscriptOK
<1>7. ASSUME NEW y \in 1..Whole
      PROVE  transcript'[y] = transcript[y] /\ (Observable(y)' => Observable(y))
  BY <1>3, <1>4 DEF Observable, InWindow
<1> QED BY <1>2, <1>4, <1>5, <1>6, <1>7, TranscriptGrows

LEMMA WriteOnKeeps == ASSUME IInv, WriteOn PROVE IInv'
<1>1. TypeOK /\ TranscriptOK
  BY DEF IInv
<1>2. /\ torn /\ split' \in BOOLEAN
      /\ UNCHANGED <<transcript, torn, log, at, known, todo, due, raced, ingests, cuts>>
  BY DEF WriteOn
<1>3. TypeOK' /\ TranscriptOK'
  BY <1>1, <1>2 DEF TypeOK, TranscriptOK
<1>4. Whole' = Whole /\ Whole \in Nat
  BY <1>1, <1>2, WholeType DEF Whole
<1>5. ASSUME NEW y \in 1..Whole
      PROVE  transcript'[y] = transcript[y] /\ (Observable(y)' => Observable(y))
  BY <1>2, <1>4 DEF Observable, InWindow
<1> QED BY <1>2, <1>3, <1>4, <1>5, TranscriptGrows

LEMMA EndLineKeeps == ASSUME IInv, EndLine PROVE IInv'
<1>1. TypeOK /\ TranscriptOK
  BY DEF IInv
<1>2. /\ Len(transcript) \in Nat /\ torn /\ torn' = FALSE /\ split' = FALSE
      /\ transcript' = transcript
      /\ UNCHANGED <<log, at, known, todo, due, raced, ingests, cuts>>
  BY <1>1, WholeType DEF EndLine
<1>3. TypeOK' /\ TranscriptOK'
  BY <1>1, <1>2 DEF TypeOK, TranscriptOK
<1>4. Whole = Len(transcript) - 1 /\ Whole' = Len(transcript) /\ Whole \in Nat
  BY <1>1, <1>2, WholeType DEF Whole
<1>5. ASSUME NEW y \in 1..Whole, Observable(y)' PROVE Observable(y)
  <2>1. y \in DOMAIN transcript /\ y \in Nat
    BY <1>1, <1>4, WholeType
  <2>2. transcript[y] \in Nat /\ transcript[y] < y
    BY <2>1, <1>1, WholeType
  <2>3. y + Window > Whole' /\ (transcript[y] # 0 => transcript[y] + Window > Whole')
    BY <1>2, <1>5 DEF Observable, InWindow
  <2> QED BY <1>4, <2>1, <2>2, <2>3, LineType DEF Observable, InWindow
<1> QED BY <1>2, <1>3, <1>4, <1>5, TranscriptGrows

-----------------------------------------------------------------------------
(* The reads of a call *)

\* A call that does not take part in a step which leaves the log and the
\* transcript alone is as it was.
LEMMA OtherCall ==
  ASSUME NEW q \in Importer, CallOK(q), UNCHANGED <<transcript, torn, log>>,
         at'[q] = at[q], known'[q] = known[q], todo'[q] = todo[q],
         due'[q] = due[q], raced'[q] = raced[q]
  PROVE  CallOK(q)'
<1>1. ScanOK(q)' /\ OrderOK(q)' /\ NewOK(q)' /\ DueOK(q)'
  BY DEF CallOK, ScanOK, OrderOK, NewOK, DueOK, Undisturbed, References
<1>2. TodoOK(q)'
  <2>1. TodoOK(q)
    BY DEF CallOK
  <2>2. TodoOK(q)' <=> TodoOK(q)
    BY DEF TodoOK, Taken, MeetsCall, Observable, InWindow, Whole, References
  <2> QED BY <2>1, <2>2
<1> QED BY <1>1, <1>2 DEF CallOK

LEMMA LogUntouched ==
  ASSUME TranscriptOK, LogOK, UNCHANGED <<transcript, torn, log>>
  PROVE  TranscriptOK' /\ LogOK'
BY DEF TranscriptOK, LogOK, Taken, MeetsCall, Observable, InWindow, Whole, References

LEMMA BeginCaptureKeeps ==
  ASSUME IInv, NEW p \in Importer, BeginCapture(p) PROVE IInv'
<1>1. TypeOK /\ TranscriptOK /\ LogOK /\ \A q \in Importer : CallOK(q)
  BY DEF IInv
<1>2. todo[p] = << >>
  BY <1>1 DEF TypeOK, BeginCapture
<1>3. TypeOK'
  <2>1. References(log) \in SUBSET Ref
    BY DEF References
  <2> QED BY <1>1, <1>2, <2>1 DEF TypeOK, BeginCapture
<1>4. TranscriptOK' /\ LogOK'
  BY <1>1, LogUntouched DEF BeginCapture
<1>5. ASSUME NEW q \in Importer PROVE CallOK(q)'
  <2>1. CASE q # p
    <3>1. /\ UNCHANGED <<transcript, torn, log>>
          /\ at'[q] = at[q] /\ known'[q] = known[q] /\ todo'[q] = todo[q]
          /\ due'[q] = due[q] /\ raced'[q] = raced[q]
      BY <2>1, <1>1 DEF BeginCapture, TypeOK
    <3> QED BY <3>1, <1>1, OtherCall
  <2>2. CASE q = p
    <3>1. /\ at'[p] = "scan" /\ known'[p] = References(log) /\ log' = log
          /\ todo'[p] = << >>
      BY <1>1, <1>2 DEF BeginCapture, TypeOK
    <3> QED BY <2>2, <3>1
            DEF CallOK, ScanOK, TodoOK, OrderOK, NewOK, DueOK, Undisturbed, References
  <2> QED BY <2>1, <2>2
<1> QED BY <1>3, <1>4, <1>5 DEF IInv

\* What a scan takes: the new lines, in order and without an omission.
LEMMA ProducedIs ==
  ASSUME TypeOK, TranscriptOK, NEW refs
  PROVE  /\ Produced(refs) \in Seq(Line)
         /\ \A i \in DOMAIN Produced(refs) :
              Produced(refs)[i] \in 1..Whole /\ New(Produced(refs)[i], refs)
         /\ \A i, j \in DOMAIN Produced(refs) : i < j => Produced(refs)[i] < Produced(refs)[j]
         /\ \A x \in 1..Whole : New(x, refs) => \E i \in DOMAIN Produced(refs) : Produced(refs)[i] = x
<1>1. PICK S : S = {i \in 1..Whole : New(i, refs)}
  OBVIOUS
<1>2. PICK s : s = Produced(refs)
  OBVIOUS
<1>3. Whole \in Nat /\ 1..Whole \subseteq Line
  BY WholeType
<1>4. Lists(s, Whole, S)
  BY <1>1, <1>2, <1>3, AscendingIs DEF Produced
<1>5. s \in Seq(Nat) /\ DOMAIN s = 1..Len(s) /\ Len(s) \in Nat
  BY <1>4, LenProperties DEF Lists
<1>6. \A i \in DOMAIN s : s[i] \in 1..Whole /\ New(s[i], refs)
  BY <1>1, <1>4, <1>5 DEF Lists
<1>7. s \in Seq(Line)
  BY <1>3, <1>5, <1>6
<1>8. \A i, j \in DOMAIN s : i < j => s[i] < s[j]
  BY <1>4, <1>5 DEF Lists
<1>9. \A x \in 1..Whole : New(x, refs) => \E i \in DOMAIN s : s[i] = x
  BY <1>1, <1>4, <1>5 DEF Lists
<1> QED BY <1>2, <1>6, <1>7, <1>8, <1>9

\* A line that can be observed is known, or taken now, or its call is known to
\* a scan that does not look at what it knows.
LEMMA ScanTakes ==
  ASSUME TypeOK, TranscriptOK, NEW refs, refs \subseteq References(log),
         NEW y \in 1..Whole, Observable(y)
  PROVE  Taken(y) \/ \E i \in DOMAIN Produced(refs) : Produced(refs)[i] = y
<1>1. CASE y \in refs
  BY <1>1 DEF Taken
<1>2. CASE ~MeetsCall(y, refs)
  BY <1>2 DEF Taken, MeetsCall
<1>3. CASE y \notin refs /\ MeetsCall(y, refs)
  <2>1. New(y, refs)
    BY <1>3 DEF New
  <2> QED BY <2>1, ProducedIs
<1> QED BY <1>1, <1>2, <1>3

LEMMA ScanKeeps == ASSUME IInv, NEW p \in Importer, Scan(p) PROVE IInv'
<1>1. TypeOK /\ TranscriptOK /\ LogOK /\ \A q \in Importer : CallOK(q)
  BY DEF IInv
<1>2. PICK s : s = Produced(known[p])
  OBVIOUS
<1>3. PICK d : d = {i \in DOMAIN transcript : Observable(i)}
  OBVIOUS
<1>4. PICK refs : refs = known[p]
  OBVIOUS
<1>5. /\ at[p] = "scan" /\ at'[p] = "append" /\ todo'[p] = s /\ due'[p] = d
      /\ raced'[p] = raced[p] /\ UNCHANGED <<transcript, torn, log>>
  BY <1>1, <1>2, <1>3 DEF Scan, TypeOK
<1>6. /\ s \in Seq(Line)
      /\ \A i \in DOMAIN s : s[i] \in 1..Whole /\ New(s[i], refs)
      /\ \A i, j \in DOMAIN s : i < j => s[i] < s[j]
  BY <1>1, <1>2, <1>4, ProducedIs
<1>7. refs \subseteq References(log) /\ (~raced[p] => refs = References(log))
  BY <1>1, <1>4, <1>5 DEF CallOK, ScanOK
<1>8. DOMAIN s = 1..Len(s) /\ Len(s) \in Nat
  BY <1>6, LenProperties
<1>9. Whole \in Nat /\ 1..Whole \subseteq Line /\ DOMAIN transcript \subseteq Line
  BY <1>1, WholeType
<1>10. ASSUME NEW y \in 1..Whole, Observable(y)
       PROVE  Taken(y) \/ \E i \in DOMAIN s : s[i] = y
  BY <1>1, <1>2, <1>4, <1>7, <1>10, ScanTakes
<1>11. TypeOK'
  <2>1. s \in Seq(Ref \cup {NoRef})
    BY <1>6, <1>8 DEF Ref
  <2>2. d \in SUBSET Ref
    BY <1>3, <1>9 DEF Ref
  <2> QED BY <1>1, <1>2, <1>3, <2>1, <2>2 DEF TypeOK, Scan
<1>12. TranscriptOK' /\ LogOK'
  BY <1>1, <1>5, LogUntouched
<1>13. ASSUME NEW q \in Importer PROVE CallOK(q)'
  <2>1. CASE q # p
    <3>1. /\ UNCHANGED <<transcript, torn, log>>
          /\ at'[q] = at[q] /\ known'[q] = known[q] /\ todo'[q] = todo[q]
          /\ due'[q] = due[q] /\ raced'[q] = raced[q]
      BY <2>1, <1>1 DEF Scan, TypeOK
    <3> QED BY <3>1, <1>1, OtherCall
  <2>2. CASE q = p
    <3>1. ScanOK(p)'
      BY <1>5 DEF ScanOK
    <3>2. OrderOK(p)'
      <4>1. \A x \in Line : x # NoRef
        BY LineType
      <4>2. \A i \in DOMAIN s : s[i] \in Line /\ s[i] \in Nat
        BY <1>6, <1>9, LineType
      <4>3. ASSUME NEW i \in DOMAIN s, NEW j \in DOMAIN s, i < j
            PROVE  s[i] # s[j] /\ s[i] < s[j]
        BY <1>6, <4>2, <4>3
      <4> QED BY <1>5, <4>3 DEF OrderOK, MayFollow
    <3>3. NewOK(p)'
      <4>1. SUFFICES ASSUME ~raced[p], NEW x \in Range(log), NEW j \in DOMAIN s
                     PROVE  MayFollow(x, s[j])
        BY <1>5 DEF NewOK, Undisturbed
      <4>2. refs = References(log)
        BY <4>1, <1>7
      <4>3. s[j] \in 1..Whole /\ s[j] \in Line /\ s[j] \in Nat
        BY <1>6, <1>9, LineType
      <4>4. Observable(s[j]) /\ s[j] \notin References(log) /\ MeetsCall(s[j], References(log))
        BY <1>6, <4>2 DEF New
      <4>5. x # s[j]
        BY <4>3, <4>4 DEF References, Ref
      <4>6. ~ Taken(s[j])
        BY <4>4 DEF Taken
      <4>7. ASSUME x \in Line PROVE x < s[j]
        <5>1. x \in Nat
          BY <4>7, LineType
        <5>2. s[j] \notin 1..(x - 1)
          BY <1>1, <4>4, <4>6, <4>7 DEF LogOK
        <5> QED BY <4>3, <4>5, <5>1, <5>2
      <4> QED BY <4>5, <4>7 DEF MayFollow
    <3>4. TodoOK(p)'
      <4>1. SUFFICES ASSUME NEW n \in DOMAIN s
                     PROVE  /\ s[n] <= Whole
                            /\ \A y \in 1..(s[n] - 1) : Observable(y) =>
                                 Taken(y) \/ \E m \in 1..(n - 1) : s[m] = y
        BY <1>5 DEF TodoOK, Taken, MeetsCall, Observable, InWindow, Whole, References
      <4>2. s[n] \in 1..Whole
        BY <1>6
      <4>3. ASSUME NEW y \in 1..(s[n] - 1), Observable(y), ~ Taken(y)
            PROVE  \E m \in 1..(n - 1) : s[m] = y
        <5>1. y \in 1..Whole
          BY <4>2, <1>9
        <5>2. PICK m \in DOMAIN s : s[m] = y
          BY <5>1, <4>3, <1>10
        <5>3. ~ (n < m) /\ m # n
          BY <5>2, <4>2, <1>6, <1>9
        <5> QED BY <5>2, <5>3, <1>8
      <4> QED BY <4>2, <4>3
    <3>5. DueOK(p)'
      <4>1. SUFFICES ASSUME Client = "claude", NEW y \in d
                     PROVE  y \in References(log) \/ y \in Range(s)
        BY <1>5 DEF DueOK, References
      <4>2. Observable(y)
        BY <1>3
      <4>3. y \in 1..Whole
        <5>1. y \in Nat /\ y # 0
          BY <1>3, <1>9, LineType
        <5>2. y <= Whole
          BY <4>2 DEF Observable, InWindow
        <5> QED BY <5>1, <5>2, <1>9
      <4>4. Taken(y) => y \in References(log)
        BY <4>1 DEF Taken, MeetsCall
      <4> QED BY <4>2, <4>3, <4>4, <1>10 DEF Range
    <3> QED BY <2>2, <3>1, <3>2, <3>3, <3>4, <3>5 DEF CallOK
  <2> QED BY <2>1, <2>2
<1> QED BY <1>11, <1>12, <1>13 DEF IInv

\* A pass that half a character ends holds nothing.
LEMMA GarbledKeeps == ASSUME IInv, NEW p \in Importer, Garbled(p) PROVE IInv'
<1>1. TypeOK /\ TranscriptOK /\ LogOK /\ \A q \in Importer : CallOK(q)
  BY DEF IInv
<1>2. /\ at[p] = "scan" /\ at'[p] = Dead(p) /\ todo'[p] = << >>
      /\ UNCHANGED <<transcript, torn, log>>
  BY <1>1 DEF Garbled, TypeOK
<1>3. Dead(p) \in {"dead", "idle"} /\ (Dead(p) = "dead" => p \in Watcher)
  BY DEF Dead
<1>4. TypeOK'
  BY <1>1, <1>2, <1>3 DEF TypeOK, Garbled
<1>5. TranscriptOK' /\ LogOK'
  BY <1>1, <1>2, LogUntouched
<1>6. ASSUME NEW q \in Importer PROVE CallOK(q)'
  <2>1. CASE q # p
    <3>1. /\ at'[q] = at[q] /\ known'[q] = known[q] /\ todo'[q] = todo[q]
          /\ due'[q] = due[q] /\ raced'[q] = raced[q]
      BY <2>1, <1>1 DEF Garbled, TypeOK
    <3> QED BY <3>1, <1>1, <1>2, OtherCall
  <2>2. CASE q = p
    BY <2>2, <1>2, <1>3
       DEF CallOK, ScanOK, TodoOK, OrderOK, NewOK, DueOK, Undisturbed
  <2> QED BY <2>1, <2>2
<1> QED BY <1>4, <1>5, <1>6 DEF IInv

\* What append_batch takes: of each reference that is not known one item, and
\* every item without a reference.
LEMMA FreshIs ==
  ASSUME NEW batch \in Seq(ProducerRef \cup {NoRef}), NEW refs
  PROVE  /\ Fresh(batch, refs) \in Seq(ProducerRef \cup {NoRef})
         /\ \A n \in DOMAIN Fresh(batch, refs) :
              Fresh(batch, refs)[n] = NoRef \/ Fresh(batch, refs)[n] \notin refs
         /\ \A i, j \in DOMAIN Fresh(batch, refs) :
              i < j /\ Fresh(batch, refs)[i] = Fresh(batch, refs)[j]
                => Fresh(batch, refs)[j] = NoRef
         /\ \A r \in Range(batch) :
              r \in refs \/ r \in Range(Fresh(batch, refs))
<1>1. PICK keep : keep = {i \in DOMAIN batch :
                 \/ batch[i] = NoRef
                 \/ batch[i] \notin refs /\ \A j \in 1..(i - 1) : batch[j] # batch[i]}
  OBVIOUS
<1>2. PICK m : m = Len(batch)
  OBVIOUS
<1>3. m \in Nat /\ DOMAIN batch = 1..m
  BY <1>2, LenProperties
<1>4. PICK kept : kept = Ascending(m, keep)
  OBVIOUS
<1>5. PICK f : f = [n \in DOMAIN kept |-> batch[kept[n]]]
  OBVIOUS
<1>6. f = Fresh(batch, refs)
  BY <1>1, <1>2, <1>4, <1>5 DEF Fresh
<1>7. Lists(kept, m, keep)
  BY <1>3, <1>4, AscendingIs
<1>8. DOMAIN kept = 1..Len(kept) /\ Len(kept) \in Nat
  BY <1>7, LenProperties DEF Lists
<1>9. \A n \in DOMAIN f : f[n] = batch[kept[n]] /\ kept[n] \in keep /\ kept[n] \in 1..m
  BY <1>5, <1>7, <1>8 DEF Lists
<1>10. \A i \in 1..m : batch[i] \in ProducerRef \cup {NoRef}
  BY <1>3, ElementOfSeq
<1>11. DOMAIN f = 1..Len(kept)
  BY <1>5, <1>8
<1>12. f \in Seq(ProducerRef \cup {NoRef})
  <2>1. f = [n \in 1..Len(kept) |-> f[n]]
    BY <1>5, <1>8
  <2>2. \A n \in 1..Len(kept) : f[n] \in ProducerRef \cup {NoRef}
    BY <1>9, <1>10, <1>11
  <2> QED BY <1>8, <2>1, <2>2
<1>13. \A n \in DOMAIN f : f[n] = NoRef \/ f[n] \notin refs
  BY <1>1, <1>9
<1>14. ASSUME NEW i \in DOMAIN f, NEW j \in DOMAIN f, i < j, f[i] = f[j], f[j] # NoRef
       PROVE  FALSE
  <2>1. kept[i] < kept[j]
    BY <1>7, <1>11, <1>14 DEF Lists
  <2>2. \A l \in 1..(kept[j] - 1) : batch[l] # batch[kept[j]]
    BY <1>1, <1>9, <1>14
  <2>3. kept[i] \in 1..(kept[j] - 1)
    BY <2>1, <1>3, <1>9
  <2> QED BY <2>2, <2>3, <1>9, <1>14
<1>15. ASSUME NEW r \in Range(batch), r \notin refs PROVE r \in Range(f)
  <2> DEFINE T == {i \in 1..m : batch[i] = r}
  <2>1. T # {} /\ T \in SUBSET Nat
    BY <1>3 DEF Range
  <2>2. PICK k \in T : \A j \in T : k <= j
    BY <2>1, NatMin
  <2>3. k \in 1..m /\ batch[k] = r
    BY <2>2
  <2>4. ASSUME NEW j \in 1..(k - 1) PROVE batch[j] # batch[k]
    <3>1. j \in 1..m /\ ~ (k <= j)
      BY <2>3, <1>3
    <3> QED BY <3>1, <2>2, <2>3
  <2>5. k \in keep
    BY <1>1, <1>3, <1>15, <2>3, <2>4
  <2>6. PICK n \in 1..Len(kept) : kept[n] = k
    BY <2>3, <2>5, <1>7 DEF Lists
  <2>7. n \in DOMAIN f /\ f[n] = r
    BY <2>3, <2>6, <1>9, <1>11
  <2> QED BY <2>7 DEF Range
<1> QED BY <1>6, <1>12, <1>13, <1>14, <1>15

LEMMA BeginIngestKeeps ==
  ASSUME IInv, NEW p \in Importer, NEW batch \in Batches, BeginIngest(p, batch)
  PROVE  IInv'
<1>1. TypeOK /\ TranscriptOK /\ LogOK /\ \A q \in Importer : CallOK(q)
  BY DEF IInv
<1>2. batch \in Seq(ProducerRef \cup {NoRef})
  BY ImportAssumption
<1>3. PICK refs : refs = References(log)
  OBVIOUS
<1>4. PICK s : s = Fresh(batch, refs)
  OBVIOUS
<1>5. /\ s \in Seq(ProducerRef \cup {NoRef})
      /\ \A n \in DOMAIN s : s[n] = NoRef \/ s[n] \notin refs
      /\ \A i, j \in DOMAIN s : i < j /\ s[i] = s[j] => s[j] = NoRef
      /\ \A r \in Range(batch) : r \in refs \/ r \in Range(s)
  BY <1>2, <1>4, FreshIs
<1>6. /\ at[p] = "idle" /\ at'[p] = "append" /\ todo'[p] = s
      /\ due'[p] = References(batch) /\ raced'[p] = FALSE
      /\ UNCHANGED <<transcript, torn, log>>
  BY <1>1, <1>3, <1>4 DEF BeginIngest, TypeOK
<1>7. DOMAIN s = 1..Len(s) /\ Len(s) \in Nat
  BY <1>5, LenProperties
<1>8. \A n \in DOMAIN s : s[n] \in ProducerRef \cup {NoRef} /\ s[n] \notin Line
  <2>1. \A n \in DOMAIN s : s[n] \in ProducerRef \cup {NoRef}
    BY <1>5, <1>7, ElementOfSeq
  <2> QED BY <2>1, LineType
<1>9. TypeOK'
  <2>1. s \in Seq(Ref \cup {NoRef})
    BY <1>7, <1>5, <1>8 DEF Ref
  <2>2. References(batch) \in SUBSET Ref
    BY DEF References
  <2>3. ingests' \in 0..MaxIngests
    BY <1>1, ImportAssumption DEF TypeOK, BeginIngest
  <2>4. known[p] = {}
    BY <1>1, <1>6 DEF TypeOK
  <2> QED BY <1>1, <1>3, <1>4, <2>1, <2>2, <2>3, <2>4 DEF TypeOK, BeginIngest
<1>10. TranscriptOK' /\ LogOK'
  BY <1>1, <1>6, LogUntouched
<1>11. ASSUME NEW q \in Importer PROVE CallOK(q)'
  <2>1. CASE q # p
    <3>1. /\ UNCHANGED <<transcript, torn, log>>
          /\ at'[q] = at[q] /\ known'[q] = known[q] /\ todo'[q] = todo[q]
          /\ due'[q] = due[q] /\ raced'[q] = raced[q]
      BY <2>1, <1>1 DEF BeginIngest, TypeOK
    <3> QED BY <3>1, <1>1, OtherCall
  <2>2. CASE q = p
    <3>1. ScanOK(p)'
      BY <1>6 DEF ScanOK
    <3>2. TodoOK(p)'
      BY <1>6, <1>8 DEF TodoOK
    <3>3. OrderOK(p)'
      BY <1>5, <1>6, <1>8 DEF OrderOK, MayFollow
    <3>4. NewOK(p)'
      <4>1. SUFFICES ASSUME NEW x \in Range(log), NEW j \in DOMAIN s
                     PROVE  MayFollow(x, s[j])
        BY <1>6 DEF NewOK
      <4>2. x = s[j] => x = NoRef
        BY <1>3, <1>5, <1>8 DEF References, Ref
      <4> QED BY <4>2, <1>8 DEF MayFollow
    <3>5. DueOK(p)'
      BY <1>3, <1>5, <1>6 DEF DueOK, References
    <3> QED BY <2>2, <3>1, <3>2, <3>3, <3>4, <3>5 DEF CallOK
  <2> QED BY <2>1, <2>2
<1> QED BY <1>9, <1>10, <1>11 DEF IInv

-----------------------------------------------------------------------------
(* Appends *)

\* What an append of n references leaves in the log.
LEMMA AppendedLog ==
  ASSUME TypeOK, NEW p \in Importer, NEW n \in 0..Len(todo[p]), NEW next, Appended(p, n, next)
  PROVE  /\ log' \in Seq(Ref \cup {NoRef})
         /\ Range(log) \subseteq Range(log')
         /\ \A x \in Range(log') : x \in Range(log) \/ \E k \in 1..n : x = todo[p][k]
         /\ \A k \in 1..n : todo[p][k] \in Range(log')
         /\ DOMAIN todo[p] = 1..Len(todo[p]) /\ Len(todo[p]) \in Nat
         /\ n = 0 => log' = log
<1>1. PICK s : s = todo[p]
  OBVIOUS
<1>2. s \in Seq(Ref \cup {NoRef}) /\ log \in Seq(Ref \cup {NoRef})
  BY <1>1 DEF TypeOK
<1>3. Len(s) \in Nat /\ DOMAIN s = 1..Len(s) /\ Len(log) \in Nat /\ DOMAIN log = 1..Len(log)
  BY <1>2, LenProperties
<1>4. PICK new : new = SubSeq(s, 1, n)
  OBVIOUS
<1>5. /\ new \in Seq(Ref \cup {NoRef}) /\ Len(new) = n
      /\ \A k \in 1..n : new[k] = s[k]
  <2>1. n \in Nat /\ n <= Len(s)
    BY <1>1, <1>3
  <2>2. \A k \in 1..n : s[k] \in Ref \cup {NoRef}
    BY <1>2, <1>3, <2>1, ElementOfSeq
  <2>3. new = [k \in 1..n |-> s[k]]
    BY <1>2, <1>3, <1>4, <2>1
  <2> QED BY <2>1, <2>2, <2>3
<1>6. log' = log \o new
  BY <1>1, <1>4 DEF Appended
<1>7. n \in Nat
  BY <1>1, <1>3
<1>8. /\ log' \in Seq(Ref \cup {NoRef}) /\ Len(log') = Len(log) + n
      /\ \A k \in 1..(Len(log) + n) :
           log'[k] = IF k <= Len(log) THEN log[k] ELSE new[k - Len(log)]
  <2>1. PICK l : l = log \o new
    OBVIOUS
  <2>2. /\ l \in Seq(Ref \cup {NoRef}) /\ Len(l) = Len(log) + Len(new)
        /\ \A k \in 1..(Len(log) + Len(new)) :
             l[k] = IF k <= Len(log) THEN log[k] ELSE new[k - Len(log)]
    BY <1>2, <1>5, <2>1, ConcatProperties
  <2>3. log' = l /\ Len(new) = n
    BY <1>5, <1>6, <2>1
  <2> QED BY <2>2, <2>3
<1>9. DOMAIN log' = 1..(Len(log) + n)
  BY <1>8, LenProperties
<1>10. ASSUME NEW k \in 1..Len(log) PROVE k \in DOMAIN log' /\ log'[k] = log[k]
  BY <1>3, <1>7, <1>8, <1>9
<1>11. ASSUME NEW k \in 1..n PROVE s[k] \in Range(log')
  <2>1. Len(log) + k \in DOMAIN log' /\ ~ (Len(log) + k <= Len(log)) /\ (Len(log) + k) - Len(log) = k
    BY <1>3, <1>7, <1>9
  <2>2. log'[Len(log) + k] = new[k]
    BY <2>1, <1>8, <1>9
  <2> QED BY <2>1, <2>2, <1>5 DEF Range
<1>12. ASSUME NEW x \in Range(log')
       PROVE  x \in Range(log) \/ \E k \in 1..n : x = s[k]
  <2>1. PICK k \in 1..(Len(log) + n) : x = log'[k]
    BY <1>9 DEF Range
  <2>2. CASE k <= Len(log)
    <3>1. k \in DOMAIN log /\ x = log[k]
      BY <2>1, <2>2, <1>3, <1>7, <1>8
    <3> QED BY <3>1 DEF Range
  <2>3. CASE ~ (k <= Len(log))
    <3>1. k - Len(log) \in 1..n
      BY <2>3, <1>3, <1>7
    <3>2. x = new[k - Len(log)]
      BY <2>1, <2>3, <1>8
    <3> QED BY <3>1, <3>2, <1>5
  <2> QED BY <2>2, <2>3
<1>13. Range(log) \subseteq Range(log')
  BY <1>3, <1>10 DEF Range
<1>14. n = 0 => log' = log
  <2>1. ASSUME n = 0 PROVE log' = log
    <3>1. new = << >>
      BY <2>1, <1>5, EmptySeq
    <3> QED BY <3>1, <1>2, <1>6, ConcatEmptySeq
  <2> QED BY <2>1
<1> QED BY <1>1, <1>3, <1>8, <1>11, <1>12, <1>13, <1>14

LEMMA AppendedKeeps ==
  ASSUME IInv, NEW p \in Importer, NEW n \in 0..Len(todo[p]),
         NEW next \in {"idle", Dead(p)}, Appended(p, n, next), cuts' \in 0..MaxCuts
  PROVE  IInv'
<1>1. TypeOK /\ TranscriptOK /\ LogOK /\ \A q \in Importer : CallOK(q)
  BY DEF IInv
<1>2. /\ log' \in Seq(Ref \cup {NoRef})
      /\ Range(log) \subseteq Range(log')
      /\ \A x \in Range(log') : x \in Range(log) \/ \E k \in 1..n : x = todo[p][k]
      /\ DOMAIN todo[p] = 1..Len(todo[p]) /\ Len(todo[p]) \in Nat
      /\ n = 0 => log' = log
  BY <1>1, AppendedLog
<1>3. References(log) \subseteq References(log')
  BY <1>2 DEF References
<1>4. /\ at'[p] = next /\ todo'[p] = << >> /\ due'[p] = {}
      /\ \A q \in Importer \ {p} :
           /\ at'[q] = at[q] /\ todo'[q] = todo[q] /\ due'[q] = due[q]
           /\ raced'[q] <=> raced[q] \/ (at[q] # "idle" /\ n > 0)
      /\ UNCHANGED <<transcript, torn, known, ingests>>
  BY <1>1 DEF Appended, TypeOK
<1>5. n \in Nat
  BY <1>2
<1>6. \A y : /\ Taken(y) => Taken(y)'
             /\ Observable(y)' <=> Observable(y)
  BY <1>3, <1>4 DEF Taken, MeetsCall, Observable, InWindow, Whole
<1>7. Whole' = Whole
  BY <1>4 DEF Whole
<1>12. next \in {"idle", "dead"} /\ (next = "dead" => p \in Watcher)
  BY DEF Dead
<1>8. TypeOK'
  <2>1. << >> \in Seq(Ref \cup {NoRef})
    BY EmptySeq
  <2>2. raced' \in [Importer -> BOOLEAN]
    BY <1>1 DEF Appended, TypeOK
  <2>7. /\ at' = [at EXCEPT ![p] = next]
        /\ todo' = [todo EXCEPT ![p] = << >>] /\ due' = [due EXCEPT ![p] = {}]
    BY DEF Appended
  <2>3. /\ at' \in [Importer -> {"idle", "scan", "append", "dead"}]
        /\ todo' \in [Importer -> Seq(Ref \cup {NoRef})]
        /\ due' \in [Importer -> SUBSET Ref]
    BY <1>1, <1>12, <2>1, <2>7 DEF TypeOK
  <2>4. \A q \in Importer : todo'[q] # << >> => at'[q] = "append"
    BY <1>1, <1>4 DEF TypeOK
  <2>5. \A q \in Importer : known'[q] # {} => at'[q] = "scan"
    <3>1. known[p] = {}
      BY <1>1 DEF TypeOK, Appended
    <3> QED BY <1>1, <1>4, <3>1 DEF TypeOK
  <2>6. \A q \in Importer : at'[q] = "dead" => q \in Watcher
    BY <1>1, <1>4, <1>12 DEF TypeOK
  <2>8. /\ transcript' \in Seq(Record) /\ torn' \in BOOLEAN /\ split' \in BOOLEAN
        /\ known' \in [Importer -> SUBSET Ref] /\ ingests' \in 0..MaxIngests
        /\ split' => torn'
    BY <1>1 DEF TypeOK, Appended
  <2> QED BY <1>2, <2>2, <2>3, <2>4, <2>5, <2>6, <2>8 DEF TypeOK
<1>9. TranscriptOK'
  BY <1>1, <1>4 DEF TranscriptOK
<1>10. LogOK'
  <2>1. SUFFICES ASSUME NEW x \in Range(log'), x \in Line
                 PROVE  /\ x <= Whole'
                        /\ \A y \in 1..(x - 1) : Observable(y)' => Taken(y)'
    BY DEF LogOK
  <2>2. CASE x \in Range(log)
    <3>1. x <= Whole /\ \A y \in 1..(x - 1) : Observable(y) => Taken(y)
      BY <1>1, <2>1, <2>2 DEF LogOK
    <3> QED BY <3>1, <1>6, <1>7
  <2>3. ASSUME NEW k \in 1..n, x = todo[p][k]
        PROVE  /\ x <= Whole'
               /\ \A y \in 1..(x - 1) : Observable(y)' => Taken(y)'
    <3>1. k \in DOMAIN todo[p]
      BY <1>2, <1>5
    <3>2. TodoOK(p)
      BY <1>1 DEF CallOK
    <3>3. /\ x <= Whole
          /\ \A y \in 1..(x - 1) : Observable(y) =>
               Taken(y) \/ \E m \in 1..(k - 1) : todo[p][m] = y
      BY <2>1, <2>3, <3>1, <3>2 DEF TodoOK
    <3>4. ASSUME NEW y \in 1..(x - 1), NEW m \in 1..(k - 1), todo[p][m] = y
          PROVE  Taken(y)'
      <4>1. m \in 1..n
        BY <1>5
      <4>2. y \in Range(log')
        BY <4>1, <3>4, <1>1, AppendedLog
      <4>3. x \in Nat /\ x \in 1..MaxRecords /\ MaxRecords \in Nat
        BY <2>1, LineType DEF Line
      <4>4. y \in Line
        BY <4>3 DEF Line
      <4> QED BY <4>2, <4>4 DEF Taken, References, Ref
    <3> QED BY <3>3, <3>4, <1>6, <1>7
  <2> QED BY <2>1, <2>2, <2>3, <1>2
<1>11. ASSUME NEW q \in Importer PROVE CallOK(q)'
  <2>1. CASE q = p
    BY <1>4, <1>12, <2>1 DEF CallOK, ScanOK, TodoOK, OrderOK, NewOK, DueOK, Undisturbed
  <2>2. CASE q # p
    <3>1. CallOK(q)
      BY <1>1
    <3>2. /\ at'[q] = at[q] /\ todo'[q] = todo[q] /\ due'[q] = due[q] /\ known'[q] = known[q]
          /\ raced'[q] <=> raced[q] \/ (at[q] # "idle" /\ n > 0)
      BY <1>4, <2>2
    <3>3. at[q] # "idle" /\ ~raced'[q] => ~raced[q] /\ log' = log
      BY <1>2, <1>5, <3>2
    <3>4. ScanOK(q)'
      BY <1>3, <3>1, <3>2, <3>3 DEF CallOK, ScanOK
    <3>5. TodoOK(q)'
      <4>1. TodoOK(q)
        BY <3>1 DEF CallOK
      <4> QED BY <4>1, <3>2, <1>6, <1>7 DEF TodoOK
    <3>6. OrderOK(q)'
      BY <3>1, <3>2 DEF CallOK, OrderOK
    <3>7. NewOK(q)'
      BY <3>1, <3>2, <3>3 DEF CallOK, NewOK, Undisturbed
    <3>8. DueOK(q)'
      BY <1>3, <3>1, <3>2 DEF CallOK, DueOK
    <3> QED BY <3>4, <3>5, <3>6, <3>7, <3>8 DEF CallOK
  <2> QED BY <2>1, <2>2
<1> QED BY <1>8, <1>9, <1>10, <1>11 DEF IInv

LEMMA NextIInv == IInv /\ [Next]_vars => IInv'
<1> SUFFICES ASSUME IInv, [Next]_vars PROVE IInv'
  OBVIOUS
<1>1. ASSUME NEW record \in Record, Write(record) PROVE IInv'
  BY <1>1, WriteKeeps
<1>2. CASE EndLine
  BY <1>2, EndLineKeeps
<1>9. CASE WriteOn
  BY <1>9, WriteOnKeeps
<1>10. ASSUME NEW p \in Importer, Garbled(p) PROVE IInv'
  BY <1>10, GarbledKeeps
<1>3. ASSUME NEW p \in Importer, BeginCapture(p) PROVE IInv'
  BY <1>3, BeginCaptureKeeps
<1>4. ASSUME NEW p \in Importer, Scan(p) PROVE IInv'
  BY <1>4, ScanKeeps
<1>5. ASSUME NEW p \in Importer, AppendMany(p) PROVE IInv'
  <2>1. Len(todo[p]) \in Nat
    BY LenProperties DEF IInv, TypeOK
  <2>2. PICK n : n = Len(todo[p])
    OBVIOUS
  <2>3. n \in 0..Len(todo[p]) /\ Appended(p, n, "idle")
    BY <1>5, <2>1, <2>2 DEF AppendMany
  <2>4. cuts' \in 0..MaxCuts
    BY <1>5 DEF AppendMany, IInv, TypeOK
  <2> QED BY <2>3, <2>4, AppendedKeeps
<1>6. ASSUME NEW p \in Importer, Cut(p) PROVE IInv'
  <2>1. PICK n \in 0..Len(todo[p]) : Appended(p, n, Dead(p))
    BY <1>6 DEF Cut
  <2>2. cuts' \in 0..MaxCuts
    BY <1>6, ImportAssumption DEF Cut, IInv, TypeOK
  <2> QED BY <2>1, <2>2, AppendedKeeps
<1>7. ASSUME NEW p \in Importer, NEW batch \in Batches, BeginIngest(p, batch) PROVE IInv'
  BY <1>7, BeginIngestKeeps
<1>8. CASE UNCHANGED vars
  <2>1. TypeOK /\ TranscriptOK /\ LogOK /\ \A q \in Importer : CallOK(q)
    BY DEF IInv
  <2>2. TypeOK'
    BY <2>1, <1>8 DEF TypeOK, vars
  <2>3. TranscriptOK' /\ LogOK'
    BY <2>1, <1>8, LogUntouched DEF vars
  <2>4. ASSUME NEW q \in Importer PROVE CallOK(q)'
    BY <2>1, <1>8, OtherCall DEF vars
  <2> QED BY <2>2, <2>3, <2>4 DEF IInv
<1> QED BY <1>1, <1>2, <1>3, <1>4, <1>5, <1>6, <1>7, <1>8,
           <1>9, <1>10 DEF Next

LEMMA InvariantHolds == Spec => []IInv
BY InitIInv, NextIInv, PTL DEF Spec

-----------------------------------------------------------------------------
\* Every variable keeps its type, for any importers, windows and batches: a
\* call of capture_claude_sessions or append_batch holds references between its
\* reads and its append only.
THEOREM TypeCorrect == Spec => []TypeOK
<1>1. IInv => TypeOK
  BY DEF IInv
<1> QED BY <1>1, InvariantHolds, PTL

\* Where nothing was appended between its reads and its append, a call appends
\* no reference again, and lines in the order of their transcript after all that
\* earlier passes have appended, whatever windows, half-written lines and deaths
\* have made them leave out.
THEOREM CapturesAreFaithful == Spec => []CapturedFaithfully
<1>1. ASSUME IInv PROVE CapturedFaithfully
  <2>1. SUFFICES ASSUME NEW p \in Importer, Undisturbed(p),
                        NEW j \in Added(p), NEW i \in DOMAIN Grown(p), i < j
                 PROVE  MayFollow(Grown(p)[i], Grown(p)[j])
    BY DEF CapturedFaithfully, ImportedOnce, TranscriptOrder, MayFollow
  <2>2. PICK s : s = todo[p]
    OBVIOUS
  <2>3. s \in Seq(Ref \cup {NoRef}) /\ log \in Seq(Ref \cup {NoRef})
    BY <1>1, <2>2 DEF IInv, TypeOK
  <2>4. Len(s) \in Nat /\ DOMAIN s = 1..Len(s) /\ Len(log) \in Nat /\ DOMAIN log = 1..Len(log)
    BY <2>3, LenProperties
  <2>5. PICK g : g = log \o s
    OBVIOUS
  <2>6. /\ g \in Seq(Ref \cup {NoRef}) /\ Len(g) = Len(log) + Len(s)
        /\ \A k \in 1..(Len(log) + Len(s)) :
             g[k] = IF k <= Len(log) THEN log[k] ELSE s[k - Len(log)]
    BY <2>3, <2>5, ConcatProperties
  <2>7. g = Grown(p)
    BY <2>2, <2>5 DEF Grown
  <2>8. DOMAIN g = 1..(Len(log) + Len(s))
    BY <2>6, LenProperties
  <2>9. j \in (Len(log) + 1)..(Len(log) + Len(s))
    BY <2>6, <2>7 DEF Added
  <2>10. /\ j - Len(log) \in DOMAIN s /\ j \in 1..(Len(log) + Len(s))
         /\ ~ (j <= Len(log))
    BY <2>4, <2>9
  <2>11. g[j] = s[j - Len(log)]
    BY <2>6, <2>10
  <2>12. OrderOK(p) /\ NewOK(p)
    BY <1>1 DEF IInv, CallOK
  <2>13. i \in 1..(Len(log) + Len(s))
    BY <2>7, <2>8
  <2>14. CASE i <= Len(log)
    <3>1. i \in DOMAIN log /\ g[i] = log[i]
      BY <2>4, <2>6, <2>13, <2>14
    <3>2. g[i] \in Range(log)
      BY <3>1 DEF Range
    <3> QED BY <3>2, <2>1, <2>2, <2>7, <2>10, <2>11, <2>12 DEF NewOK
  <2>15. CASE ~ (i <= Len(log))
    <3>1. i - Len(log) \in DOMAIN s /\ i - Len(log) < j - Len(log)
      BY <2>1, <2>4, <2>9, <2>13, <2>15
    <3>2. g[i] = s[i - Len(log)]
      BY <2>6, <2>13, <2>15
    <3> QED BY <3>1, <3>2, <2>2, <2>7, <2>10, <2>11, <2>12 DEF OrderOK
  <2> QED BY <2>14, <2>15
<1>2. IInv => CapturedFaithfully
  BY <1>1
<1> QED BY <1>2, InvariantHolds, PTL

\* When a pass of capture_claude_sessions or a call of append_batch returns, all
\* that it had before it is in the log, however calls overlap or die.  Of a
\* Codex transcript this is false.
THEOREM ClaudePassesImportAll ==
  ASSUME Client = "claude" PROVE Spec => ReturnedIsImported
<1>1. ASSUME IInv, NEW p \in Importer, AppendMany(p)
      PROVE  due[p] \subseteq References(log')
  <2>1. PICK n : n = Len(todo[p])
    OBVIOUS
  <2>2. Len(todo[p]) \in Nat /\ DOMAIN todo[p] = 1..Len(todo[p])
    BY <1>1, LenProperties DEF IInv, TypeOK
  <2>3. n \in 0..Len(todo[p]) /\ Appended(p, n, "idle") /\ at[p] = "append"
    BY <1>1, <2>1, <2>2 DEF AppendMany, Appended
  <2>4. /\ Range(log) \subseteq Range(log')
        /\ \A k \in 1..n : todo[p][k] \in Range(log')
    BY <1>1, <2>3, AppendedLog DEF IInv
  <2>5. due[p] \subseteq References(log) \cup Range(todo[p])
    BY <1>1, <2>3 DEF IInv, CallOK, DueOK
  <2>6. due[p] \subseteq Ref
    BY <1>1 DEF IInv, TypeOK
  <2>7. Range(todo[p]) \subseteq Range(log')
    BY <2>1, <2>2, <2>4 DEF Range
  <2> QED BY <2>4, <2>5, <2>6, <2>7 DEF References
<1>2. IInv /\ [Next]_vars
        => [\A p \in Importer : AppendMany(p) => due[p] \subseteq References(log')]_vars
  BY <1>1
<1> QED BY <1>2, InvariantHolds, PTL DEF Spec, ReturnedIsImported
=============================================================================

-------------------------- MODULE Eventloom_proofs --------------------------
(***************************************************************************)
(* Proofs about Eventloom, for any set of writers and readers, any number  *)
(* of calls and batches of any size, whatever the crashes: first the types,*)
(* the hash chain and the durability of acknowledged events; then what the *)
(* events of a file are, and with it what readers return, that nothing is  *)
(* built on a torn record, and that the log implements AppendOnlyLog.      *)
(***************************************************************************)
EXTENDS Eventloom, SequenceTheorems, WellFoundedInduction, TLAPS

(* Newlines and torn records are not events; every other token is one. *)
LEMMA TokenTypes ==
  /\ Newline \in Token /\ ~ IsEvent(Newline)
  /\ Torn \in Token /\ ~ IsEvent(Torn)
  /\ \A t \in Token : IsEvent(t) => t \in Event
  /\ \A t \in Event : t \in Token /\ IsEvent(t)
BY DEF Token, Newline, Torn, IsEvent, Event

(* Concatenation of files is associative. *)
LEMMA TokensAssociative ==
  ASSUME NEW f \in Seq(Token), NEW g \in Seq(Token), NEW h \in Seq(Token)
  PROVE  f \o (g \o h) = (f \o g) \o h
<1>1. (f \o g) \o h = f \o (g \o h)
  BY ConcatAssociative
<1> QED BY <1>1

(* e continues the chain of f. *)
Continues(f, e) ==
  \/ /\ f = <<>>
     /\ e.seq = 1
     /\ e.prev = NoHash
  \/ /\ f # <<>>
     /\ LET k == IF IsEvent(f[Len(f)]) THEN Len(f) ELSE Len(f) - 1
        IN  /\ k \in DOMAIN f
            /\ IsEvent(f[k])
            /\ e.seq = f[k].seq + 1
            /\ e.prev = f[k].id

(* An event that continues the chain of a file, written with its newline,  *)
(* leaves the file linked.                                                 *)
LEMMA LinkedAppend ==
  ASSUME NEW f \in Seq(Token), Linked(f), NEW e \in Event, Continues(f, e)
  PROVE  Linked(f \o <<e, Newline>>)
<1> DEFINE g == f \o <<e, Newline>>
<1>1. /\ g \in Seq(Token)
      /\ Len(g) = Len(f) + 2
      /\ \A i \in 1..Len(f) : g[i] = f[i]
      /\ g[Len(f) + 1] = e
      /\ g[Len(f) + 2] = Newline
  <2>1. <<e, Newline>> \in Seq(Token) /\ Len(<<e, Newline>>) = 2
    BY TokenTypes
  <2>2. Len(f) \in Nat
    BY LenProperties
  <2> QED BY <2>1, <2>2, ConcatProperties
<1>2. SUFFICES ASSUME NEW j \in DOMAIN g, IsEvent(g[j])
               PROVE  \/ j = 1 /\ g[j].seq = 1 /\ g[j].prev = NoHash
                      \/ /\ j > 1
                         /\ Before(g, j) \in DOMAIN g
                         /\ IsEvent(g[Before(g, j)])
                         /\ g[j].seq = g[Before(g, j)].seq + 1
                         /\ g[j].prev = g[Before(g, j)].id
  BY DEF Linked
<1>3. Len(f) \in Nat /\ DOMAIN g = 1..(Len(f) + 2) /\ DOMAIN f = 1..Len(f)
  BY <1>1, LenProperties
<1>4. CASE j \in 1..Len(f)
  BY <1>1, <1>3, <1>4, <1>2 DEF Linked, Before
<1>5. CASE j = Len(f) + 1
  <2>1. CASE f = <<>>
    BY <2>1, <1>5, <1>1 DEF Continues
  <2>2. CASE f # <<>>
    <3>1. Len(f) >= 1
      BY <2>2, <1>3, EmptySeq
    <3>2. g[j - 1] = f[Len(f)]
      BY <3>1, <1>5, <1>1, <1>3
    <3> QED BY <2>2, <3>1, <3>2, <1>1, <1>3, <1>5 DEF Continues, Before
  <2> QED BY <2>1, <2>2
<1>6. CASE j = Len(f) + 2
  BY <1>1, <1>2, <1>6, TokenTypes
<1> QED BY <1>3, <1>4, <1>5, <1>6

(* A file cut at any point is still linked. *)
LEMMA LinkedPrefix ==
  ASSUME NEW f \in Seq(Token), NEW g \in Seq(Token), Linked(f \o g)
  PROVE  Linked(f)
<1>1. /\ Len(f) \in Nat /\ Len(g) \in Nat
      /\ f \o g \in Seq(Token)
      /\ Len(f \o g) = Len(f) + Len(g)
      /\ \A i \in 1..Len(f) : (f \o g)[i] = f[i]
  BY ConcatProperties, LenProperties
<1>2. DOMAIN f = 1..Len(f) /\ DOMAIN (f \o g) = 1..(Len(f) + Len(g))
  BY <1>1, LenProperties
<1> QED BY <1>1, <1>2 DEF Linked, Before

(* A torn record leaves the file linked: it is not an event. *)
LEMMA LinkedTorn ==
  ASSUME NEW f \in Seq(Token), Linked(f)
  PROVE  f \o <<Torn>> \in Seq(Token) /\ Linked(f \o <<Torn>>)
<1> DEFINE g == f \o <<Torn>>
<1>1. /\ g \in Seq(Token)
      /\ Len(g) = Len(f) + 1
      /\ Len(f) \in Nat
      /\ \A i \in 1..Len(f) : g[i] = f[i]
      /\ g[Len(f) + 1] = Torn
  <2>1. <<Torn>> \in Seq(Token) /\ Len(<<Torn>>) = 1
    BY TokenTypes
  <2>2. Len(f) \in Nat
    BY LenProperties
  <2> QED BY <2>1, <2>2, ConcatProperties
<1>2. DOMAIN g = 1..(Len(f) + 1) /\ DOMAIN f = 1..Len(f)
  BY <1>1, LenProperties
<1>3. \A j \in DOMAIN g : IsEvent(g[j]) => j \in DOMAIN f
  BY <1>1, <1>2, TokenTypes
<1> QED BY <1>1, <1>2, <1>3 DEF Linked, Before

-----------------------------------------------------------------------------
(* Where a writer is, who has the lock, and what is still to be written.   *)
LockInv ==
  \A w \in Writer :
    /\ pc[w] = "building" <=> owner = w
    /\ pc[w] # "building" => pending[w] = <<>> /\ built[w] = 0

(* A batch that is being built ends in a record and its newline. *)
PendingInv ==
  \A w \in Writer : built[w] < size[w] /\ pending[w] # <<>> =>
    /\ Len(pending[w]) >= 2
    /\ IsEvent(pending[w][Len(pending[w]) - 1])
    /\ pending[w][Len(pending[w])] = Newline

(* The file with what its writer still has to write is one chain. *)
ChainInv == \A w \in Writer : Linked(file \o pending[w])

Holds(f, id) == \E i \in DOMAIN f : IsEvent(f[i]) /\ f[i].id = id

(* Every event built is in the file or still to be written. *)
BuiltInv ==
  \A w \in Writer : \A i \in 1..built[w] :
    Holds(file \o pending[w], [by |-> w, op |-> op[w], idx |-> i, of |-> size[w]])

IInv ==
  /\ TypeOK
  /\ LockInv
  /\ PendingInv
  /\ ChainInv
  /\ Linked(file)
  /\ BuiltInv
  /\ AckedDurable

(* What a file holds, a longer file holds. *)
LEMMA HoldsConcat ==
  ASSUME NEW f \in Seq(Token), NEW g \in Seq(Token), NEW id, Holds(f, id)
  PROVE  Holds(f \o g, id)
<1>1. PICK i \in DOMAIN f : IsEvent(f[i]) /\ f[i].id = id
  BY DEF Holds
<1>2. i \in DOMAIN (f \o g) /\ (f \o g)[i] = f[i]
  BY ConcatProperties, LenProperties
<1> QED BY <1>1, <1>2 DEF Holds

(* The inductive invariant holds in an empty log. *)
LEMMA InitIInv == Init => IInv
<1> SUFFICES ASSUME Init PROVE IInv
  OBVIOUS
<1> USE DEF Init
<1>1. TypeOK
  BY EmptySeq DEF TypeOK
<1>2. LockInv
  BY EventloomAssumption DEF LockInv
<1>3. PendingInv
  BY DEF PendingInv
<1>4. Linked(<<>>)
  BY DEF Linked
<1>5. <<>> \o <<>> = <<>>
  BY EmptySeq, ConcatEmptySeq
<1>6. ChainInv
  BY <1>4, <1>5 DEF ChainInv
<1>7. BuiltInv /\ AckedDurable
  BY DEF BuiltInv, AckedDurable
<1> QED BY <1>1, <1>2, <1>3, <1>4, <1>6, <1>7 DEF IInv

(* Sequences that IInv speaks about are sequences of tokens. *)
LEMMA FileTypes ==
  ASSUME TypeOK, NEW w \in Writer
  PROVE  /\ file \in Seq(Token) /\ Len(file) \in Nat
         /\ pending[w] \in Seq(Token) /\ Len(pending[w]) \in Nat
         /\ file \o pending[w] \in Seq(Token)
         /\ Len(file \o pending[w]) = Len(file) + Len(pending[w])
BY LenProperties, ConcatProperties DEF TypeOK

(* With no writer in the middle of a write, the file alone is the chain. *)
LEMMA NothingPending ==
  ASSUME TypeOK, NEW w \in Writer, pending[w] = <<>>
  PROVE  file \o pending[w] = file
BY ConcatEmptySeq DEF TypeOK

(* A call that starts waiting for the lock touches nothing it relates. *)
LEMMA CallIInv ==
  ASSUME IInv, NEW w \in Writer, NEW n \in Nat, NEW b \in Nat, Call(w, n, b)
  PROVE  IInv'
<1>1. /\ op' = [op EXCEPT ![w] = op[w] + 1]
      /\ size' = [size EXCEPT ![w] = n]
      /\ bad' = [bad EXCEPT ![w] = b]
      /\ pc' = [pc EXCEPT ![w] = "waiting"]
      /\ pc[w] = "idle"
      /\ UNCHANGED <<file, owner, built, pending, base, acked, cut>>
      /\ UNCHANGED readerVars
  BY DEF Call
<1>2. TypeOK'
  <2>0. op \in [Writer -> Nat] /\ size \in [Writer -> Nat] /\ bad \in [Writer -> Nat]
    BY DEF IInv, TypeOK
  <2>1. op' \in [Writer -> Nat] /\ size' \in [Writer -> Nat] /\ bad' \in [Writer -> Nat]
    BY ONLY <1>1, <2>0, n \in Nat, b \in Nat
  <2>2. pc' \in [Writer -> {"idle", "waiting", "building"}]
    BY <1>1 DEF IInv, TypeOK
  <2> QED BY <2>1, <2>2, <1>1 DEF IInv, TypeOK, readerVars
<1>3. LockInv'
  BY <1>1, EventloomAssumption DEF IInv, LockInv, TypeOK
<1>4. PendingInv'
  BY <1>1 DEF IInv, PendingInv, LockInv, TypeOK
<1>5. ChainInv' /\ Linked(file)' /\ AckedDurable'
  BY <1>1 DEF IInv, ChainInv, AckedDurable
<1>6. BuiltInv'
  <2>1. \A v \in Writer : built[v] = 0 \/ (op'[v] = op[v] /\ size'[v] = size[v])
    BY <1>1 DEF IInv, LockInv, TypeOK
  <2>2. built' = built /\ file' = file /\ pending' = pending
    BY <1>1
  <2> QED BY <2>1, <2>2 DEF IInv, BuiltInv
<1> QED BY <1>2, <1>3, <1>4, <1>5, <1>6 DEF IInv

(* A writer that gets the lock starts from an empty batch. *)
LEMMA LockIInv ==
  ASSUME IInv, NEW w \in Writer, Lock(w)
  PROVE  IInv'
<1> USE DEF IInv, Lock
<1>1. TypeOK'
  BY LenProperties DEF TypeOK, readerVars
<1>2. LockInv'
  BY EventloomAssumption DEF LockInv, TypeOK
<1>3. PendingInv'
  BY DEF PendingInv, LockInv, TypeOK
<1>4. ChainInv' /\ Linked(file)' /\ AckedDurable'
  BY DEF ChainInv, AckedDurable
<1>5. BuiltInv'
  BY DEF BuiltInv, LockInv, TypeOK
<1> QED BY <1>1, <1>2, <1>3, <1>4, <1>5

(* The event sealed next continues the chain of the file and the batch. *)
LEMMA NextEventContinues ==
  ASSUME IInv, NEW w \in Writer, TailAt(file) >= 0, built[w] < size[w]
  PROVE  NextEvent(w) \in Event /\ Continues(file \o pending[w], NextEvent(w))
<1> DEFINE f == file \o pending[w]
           e == NextEvent(w)
           b == pending[w]
<1>0. /\ file \in Seq(Token) /\ Len(file) \in Nat
      /\ b \in Seq(Token) /\ Len(b) \in Nat
      /\ f \in Seq(Token) /\ Len(f) = Len(file) + Len(b)
      /\ DOMAIN file = 1..Len(file) /\ DOMAIN f = 1..Len(f) /\ DOMAIN b = 1..Len(b)
  BY FileTypes, LenProperties DEF IInv
<1>1. [by |-> w, op |-> op[w], idx |-> built[w] + 1, of |-> size[w]] \in Id
  BY DEF IInv, TypeOK, Id
<1>2. CASE b = <<>>
  <2>1. f = file
    BY <1>2, NothingPending DEF IInv
  <2>2. CASE TailAt(file) = 0
    <3>1. Len(file) = 0
      BY <2>2, <1>0 DEF TailAt
    <3>2. file = <<>>
      BY <3>1, <1>0, EmptySeq
    <3> QED BY <1>1, <1>2, <2>1, <2>2, <3>2 DEF NextEvent, Continues, Event
  <2>3. CASE TailAt(file) # 0
    <3> DEFINE k == TailAt(file)
    <3>1. Len(file) > 0
      BY <2>3, <1>0 DEF TailAt
    <3>2. /\ k = (IF file[Len(file)] = Newline THEN Len(file) - 1 ELSE Len(file))
          /\ k > 0 /\ IsEvent(file[k])
      BY <2>3, <3>1, <1>0, TailAt(file) >= 0 DEF TailAt
    <3>3. k \in DOMAIN file /\ file[k] \in Event
      BY <3>2, <1>0, TokenTypes, ElementOfSeq
    <3>4. file # <<>>
      BY <3>1
    <3>5. k = (IF IsEvent(file[Len(file)]) THEN Len(file) ELSE Len(file) - 1)
      BY <3>2, TokenTypes, <1>0
    <3>6. /\ e.seq = file[k].seq + 1 /\ e.prev = file[k].id
          /\ e.kind = "event"
          /\ e = [kind |-> "event", seq |-> file[k].seq + 1, prev |-> file[k].id,
                  id |-> [by |-> w, op |-> op[w], idx |-> built[w] + 1, of |-> size[w]]]
      BY <1>2, <2>3 DEF NextEvent
    <3>7. e \in Event
      BY <1>1, <3>3, <3>6 DEF Event
    <3> HIDE DEF k, e, f
    <3> QED BY <2>1, <3>3, <3>4, <3>5, <3>6, <3>7, <3>2 DEF Continues, k, e, f
  <2> QED BY <2>2, <2>3
<1>3. CASE b # <<>>
  <2>1. Len(b) >= 2 /\ IsEvent(b[Len(b) - 1]) /\ b[Len(b)] = Newline
    BY <1>3 DEF IInv, PendingInv
  <2>2. f[Len(f)] = Newline /\ f[Len(f) - 1] = b[Len(b) - 1]
    BY <2>1, <1>0, ConcatProperties
  <2>3. b[Len(b) - 1] \in Event
    BY <2>1, <1>0, TokenTypes, ElementOfSeq
  <2>4. /\ e.seq = b[Len(b) - 1].seq + 1 /\ e.prev = b[Len(b) - 1].id
        /\ e = [kind |-> "event", seq |-> b[Len(b) - 1].seq + 1, prev |-> b[Len(b) - 1].id,
                id |-> [by |-> w, op |-> op[w], idx |-> built[w] + 1, of |-> size[w]]]
    BY <1>3 DEF NextEvent
  <2>5. e \in Event
    BY <1>1, <2>3, <2>4 DEF Event
  <2>6. f # <<>> /\ Len(f) - 1 \in DOMAIN f
    BY <2>1, <1>0
  <2> HIDE DEF e, f
  <2> QED BY <2>1, <2>2, <2>4, <2>5, <2>6, TokenTypes DEF Continues, e, f
<1> QED BY <1>2, <1>3

(* An event that is built continues the chain of the file and the batch. *)
LEMMA BuildIInv ==
  ASSUME IInv, NEW w \in Writer, Build(w)
  PROVE  IInv'
<1> DEFINE e == NextEvent(w)
           f == file \o pending[w]
<1>1. /\ pc[w] = "building" /\ built[w] < size[w] /\ TailAt(file) >= 0
      /\ pending' = [pending EXCEPT ![w] = pending[w] \o <<e, Newline>>]
      /\ built' = [built EXCEPT ![w] = built[w] + 1]
      /\ UNCHANGED <<file, owner, pc, op, size, bad, base, acked, cut>>
      /\ UNCHANGED readerVars
  BY DEF Build
<1>2. e \in Event /\ Continues(f, e)
  BY <1>1, NextEventContinues
<1>3. /\ file \in Seq(Token) /\ pending[w] \in Seq(Token) /\ f \in Seq(Token)
      /\ Len(pending[w]) \in Nat /\ Len(f) \in Nat
  BY FileTypes, LenProperties DEF IInv
<1>4. <<e, Newline>> \in Seq(Token) /\ Len(<<e, Newline>>) = 2
  BY <1>2, TokenTypes
<1>5. /\ pending'[w] = pending[w] \o <<e, Newline>>
      /\ pending'[w] \in Seq(Token)
      /\ Len(pending'[w]) = Len(pending[w]) + 2
      /\ pending'[w][Len(pending[w]) + 1] = e
      /\ pending'[w][Len(pending[w]) + 2] = Newline
      /\ \A v \in Writer : v # w => pending'[v] = pending[v] /\ built'[v] = built[v]
      /\ built'[w] = built[w] + 1
  <2>1. pending'[w] = pending[w] \o <<e, Newline>> /\ built'[w] = built[w] + 1
    BY <1>1 DEF IInv, TypeOK
  <2>2. \A v \in Writer : v # w => pending'[v] = pending[v] /\ built'[v] = built[v]
    BY <1>1 DEF IInv, TypeOK
  <2> HIDE DEF e
  <2> QED BY <2>1, <2>2, <1>3, <1>4, ConcatProperties
<1> HIDE DEF e
<1>6. file \o pending'[w] = f \o <<e, Newline>>
  <2>1. file \o (pending[w] \o <<e, Newline>>) = (file \o pending[w]) \o <<e, Newline>>
    BY <1>3, <1>4, TokensAssociative, Zenon
  <2> QED BY <2>1, <1>5
<1> HIDE DEF f
<1>7. TypeOK'
  <2>1. pending' \in [Writer -> Seq(Token)]
    BY <1>1, <1>3, <1>5 DEF IInv, TypeOK
  <2>2. built' \in [Writer -> Nat]
    BY <1>1 DEF IInv, TypeOK
  <2> QED BY <2>1, <2>2, <1>1 DEF IInv, TypeOK, readerVars
<1>8. LockInv'
  <2>1. \A v \in Writer : pc[v] = "building" <=> owner = v
    BY DEF IInv, LockInv
  <2>2. \A v \in Writer : pc[v] # "building" => pending'[v] = <<>> /\ built'[v] = 0
    BY <1>1, <1>5 DEF IInv, LockInv
  <2> QED BY <2>1, <2>2, <1>1 DEF LockInv
<1>9. PendingInv'
  <2>1. ASSUME NEW v \in Writer, built'[v] < size'[v], pending'[v] # <<>>
        PROVE  /\ Len(pending'[v]) >= 2
               /\ IsEvent(pending'[v][Len(pending'[v]) - 1])
               /\ pending'[v][Len(pending'[v])] = Newline
    <3>1. CASE v # w
      BY <3>1, <2>1, <1>1, <1>5 DEF IInv, PendingInv
    <3>2. CASE v = w
      BY <3>2, <1>2, <1>3, <1>5, TokenTypes
    <3> QED BY <3>1, <3>2
  <2> QED BY <2>1 DEF PendingInv
<1>10. ChainInv' /\ Linked(file)'
  <2>1. Linked(f \o <<e, Newline>>)
    BY <1>2, <1>3, LinkedAppend DEF IInv, ChainInv, f
  <2> QED BY <2>1, <1>1, <1>5, <1>6 DEF IInv, ChainInv
<1>11. BuiltInv'
  <2>1. ASSUME NEW v \in Writer, NEW i \in 1..built'[v]
        PROVE  Holds(file' \o pending'[v],
                     [by |-> v, op |-> op'[v], idx |-> i, of |-> size'[v]])
    <3>1. CASE v # w
      BY <3>1, <2>1, <1>1, <1>5 DEF IInv, BuiltInv
    <3>2. CASE v = w /\ i \in 1..built[w]
      <4>1. Holds(f, [by |-> w, op |-> op[w], idx |-> i, of |-> size[w]])
        BY <3>2 DEF IInv, BuiltInv, f
      <4> QED BY <4>1, <3>2, <1>1, <1>3, <1>4, <1>6, HoldsConcat
    <3>3. CASE v = w /\ i = built[w] + 1
      <4>1. e.id = [by |-> w, op |-> op[w], idx |-> i, of |-> size[w]]
        BY <3>3 DEF NextEvent, e
      <4>2. /\ Len(f) + 1 \in DOMAIN (f \o <<e, Newline>>)
            /\ (f \o <<e, Newline>>)[Len(f) + 1] = e
        BY <1>3, <1>4, ConcatProperties, LenProperties
      <4>3. IsEvent(e)
        BY <1>2, TokenTypes
      <4> QED BY <4>1, <4>2, <4>3, <3>3, <1>1, <1>6 DEF Holds
    <3>4. built[w] \in Nat
      BY DEF IInv, TypeOK
    <3> QED BY <3>1, <3>2, <3>3, <3>4, <1>5
  <2> QED BY <2>1 DEF BuiltInv
<1>12. AckedDurable'
  BY <1>1 DEF IInv, AckedDurable
<1> QED BY <1>7, <1>8, <1>9, <1>10, <1>11, <1>12 DEF IInv

(* Leaving append_many, whatever was written on the way out. *)
LEMMA LeaveIInv ==
  ASSUME IInv, NEW w \in Writer, Leave(w), UNCHANGED <<op, readerVars>>,
         file' \in Seq(Token), Linked(file'), acked' \subseteq Id,
         cut' \subseteq Writer \X Nat, AckedDurable',
         pc[w] = "building" \/ file' = file
  PROVE  IInv'
<1>1. /\ owner' = IF owner = w THEN Nobody ELSE owner
      /\ base' = IF owner = w THEN 0 ELSE base
      /\ pc' = [pc EXCEPT ![w] = "idle"]
      /\ size' = [size EXCEPT ![w] = 0]
      /\ bad' = [bad EXCEPT ![w] = 0]
      /\ built' = [built EXCEPT ![w] = 0]
      /\ pending' = [pending EXCEPT ![w] = <<>>]
      /\ op' = op /\ UNCHANGED readerVars
  BY DEF Leave
<1>2. TypeOK'
  <2>1. /\ size' \in [Writer -> Nat] /\ bad' \in [Writer -> Nat] /\ built' \in [Writer -> Nat]
        /\ base' \in Nat /\ owner' \in Writer \cup {Nobody}
        /\ pc' \in [Writer -> {"idle", "waiting", "building"}]
    BY <1>1 DEF IInv, TypeOK
  <2>2. pending' \in [Writer -> Seq(Token)]
    BY <1>1, EmptySeq DEF IInv, TypeOK
  <2> QED BY <2>1, <2>2, <1>1 DEF IInv, TypeOK, readerVars
<1>3. LockInv'
  BY <1>1, EventloomAssumption DEF IInv, LockInv, TypeOK
<1>4. PendingInv'
  BY <1>1 DEF IInv, PendingInv, TypeOK
<1>5. \A v \in Writer : \/ file' = file /\ pending'[v] = pending[v] /\ v # w
                        \/ pending'[v] = <<>> /\ built'[v] = 0
  BY <1>1 DEF IInv, LockInv, TypeOK
<1>6. file' \o <<>> = file'
  BY ConcatEmptySeq
<1>7. ChainInv'
  BY <1>5, <1>6 DEF IInv, ChainInv
<1>8. BuiltInv'
  <2>1. \A v \in Writer : v # w => built'[v] = built[v] /\ size'[v] = size[v]
    BY <1>1 DEF IInv, TypeOK
  <2>2. built'[w] = 0
    BY <1>1 DEF IInv, TypeOK
  <2> QED BY <1>1, <1>5, <2>1, <2>2 DEF IInv, BuiltInv
<1> QED BY <1>2, <1>3, <1>4, <1>7, <1>8 DEF IInv

(* A refused call leaves the log as it was. *)
LEMMA RefuseIInv ==
  ASSUME IInv, NEW w \in Writer, Refuse(w)
  PROVE  IInv'
<1>1. Leave(w) /\ UNCHANGED <<file, op, acked, cut, readerVars>>
  BY DEF Refuse
<1>2. AckedDurable'
  BY <1>1 DEF IInv, AckedDurable
<1>3. file' \in Seq(Token) /\ Linked(file') /\ acked' \subseteq Id /\ cut' \subseteq Writer \X Nat
  BY <1>1 DEF IInv, TypeOK
<1> QED BY <1>1, <1>2, <1>3, LeaveIInv

(* A call returns only what is in the file. *)
LEMMA ReturnIInv ==
  ASSUME IInv, NEW w \in Writer, Return(w)
  PROVE  IInv'
<1>1. /\ Leave(w) /\ UNCHANGED <<file, op, cut, readerVars>>
      /\ acked' = acked \cup BatchIds(w)
      /\ pending[w] = <<>> /\ built[w] = size[w]
  BY DEF Return
<1>2. acked' \subseteq Id
  <2>1. \A i \in 1..size[w] : i \in Nat
    BY DEF IInv, TypeOK
  <2>2. BatchIds(w) \subseteq Id
    BY <2>1 DEF IInv, TypeOK, BatchIds, Id
  <2> QED BY <1>1, <2>2 DEF IInv, TypeOK
<1>3. AckedDurable'
  <2>1. file \o pending[w] = file
    BY <1>1, NothingPending DEF IInv
  <2>2. \A id \in BatchIds(w) : Holds(file, id)
    BY <1>1, <2>1 DEF IInv, BuiltInv, BatchIds
  <2> QED BY <1>1, <2>2 DEF IInv, AckedDurable, Holds
<1>4. file' \in Seq(Token) /\ Linked(file') /\ cut' \subseteq Writer \X Nat
  BY <1>1 DEF IInv, TypeOK
<1> QED BY <1>1, <1>2, <1>3, <1>4, LeaveIInv

(* What a writer has handed to the file and what it has not make up what   *)
(* it had to write.                                                        *)
LEMMA Handed ==
  ASSUME TypeOK, NEW w \in Writer, NEW k \in 0..Len(pending[w])
  PROVE  LET done == SubSeq(pending[w], 1, k)
             rest == SubSeq(pending[w], k + 1, Len(pending[w]))
         IN  /\ done \in Seq(Token)
             /\ rest \in Seq(Token)
             /\ file \o done \in Seq(Token)
             /\ (file \o done) \o rest = file \o pending[w]
<1> DEFINE p == pending[w]
           done == SubSeq(p, 1, k)
           rest == SubSeq(p, k + 1, Len(p))
<1>1. file \in Seq(Token) /\ p \in Seq(Token) /\ Len(p) \in Nat
  BY LenProperties DEF TypeOK
<1> HIDE DEF p
<1>2. \A i \in 1..Len(p) : p[i] \in Token
  BY <1>1, ElementOfSeq
<1>3. k \in Nat /\ k <= Len(p)
  BY <1>1 DEF p
<1>4. done \in Seq(Token) /\ rest \in Seq(Token)
  BY <1>1, <1>2, <1>3, SubSeqProperties
<1>5. done \o rest = SubSeq(p, 1, Len(p))
  <2>1. 1 \in 1..Len(p) + 1 /\ k \in 1 - 1..Len(p) /\ Len(p) \in k..Len(p)
    BY <1>1, <1>3
  <2>2. SubSeq(p, 1, k) \o SubSeq(p, k + 1, Len(p)) = SubSeq(p, 1, Len(p))
    BY ONLY <1>1, <2>1, ConcatAdjacentSubSeq
  <2> QED BY <2>2
<1>6. SubSeq(p, 1, Len(p)) = p
  BY <1>1, SubSeqFull
<1> HIDE DEF done, rest
<1>7. (file \o done) \o rest = file \o (done \o rest)
  BY <1>1, <1>4, ConcatAssociative
<1>8. file \o done \in Seq(Token)
  BY <1>1, <1>4, ConcatProperties
<1> QED BY <1>4, <1>5, <1>6, <1>7, <1>8 DEF done, rest, p

(* Handing a part of the batch to the file moves it from one to the other. *)
LEMMA WriteIInv ==
  ASSUME IInv, NEW w \in Writer, NEW k \in 1..Len(pending[w]), Write(w, k)
  PROVE  IInv'
<1> DEFINE done == SubSeq(pending[w], 1, k)
           rest == SubSeq(pending[w], k + 1, Len(pending[w]))
<1>1. /\ pc[w] = "building" /\ built[w] = size[w]
      /\ file' = file \o done
      /\ pending' = [pending EXCEPT ![w] = rest]
      /\ UNCHANGED <<owner, pc, op, size, bad, built, base, acked, cut>>
      /\ UNCHANGED readerVars
  BY DEF Write
<1>2. /\ done \in Seq(Token) /\ rest \in Seq(Token)
      /\ file' \in Seq(Token)
      /\ file' \o rest = file \o pending[w]
  <2>1. k \in 0..Len(pending[w])
    BY FileTypes DEF IInv
  <2> QED BY <1>1, <2>1, Handed DEF IInv
<1> HIDE DEF done, rest
<1>3. /\ pending'[w] = rest
      /\ \A v \in Writer : v # w => pending'[v] = <<>> /\ built[v] = 0
  BY <1>1 DEF IInv, LockInv, TypeOK
<1>4. TypeOK'
  <2>1. pending' \in [Writer -> Seq(Token)]
    BY <1>1, <1>2 DEF IInv, TypeOK
  <2> QED BY <2>1, <1>1, <1>2 DEF IInv, TypeOK, readerVars
<1>5. LockInv'
  <2>1. \A v \in Writer : pc[v] # "building" => pending'[v] = <<>> /\ built[v] = 0
    BY <1>1, <1>3 DEF IInv, LockInv
  <2> QED BY <2>1, <1>1 DEF IInv, LockInv
<1>6. PendingInv'
  <2>1. built[w] \in Nat
    BY DEF IInv, TypeOK
  <2> QED BY <2>1, <1>1, <1>3 DEF PendingInv
<1>7. Linked(file')
  BY <1>1, <1>2, LinkedPrefix DEF IInv, ChainInv
<1>8. ChainInv'
  <2>1. file' \o <<>> = file'
    BY <1>2, ConcatEmptySeq
  <2> QED BY <2>1, <1>2, <1>3, <1>7 DEF IInv, ChainInv
<1>9. BuiltInv'
  <2> SUFFICES ASSUME NEW v \in Writer, NEW i \in 1..built'[v]
               PROVE  Holds(file' \o pending'[v],
                            [by |-> v, op |-> op'[v], idx |-> i, of |-> size'[v]])
    BY DEF BuiltInv
  <2>1. Holds(file \o pending[v], [by |-> v, op |-> op[v], idx |-> i, of |-> size[v]])
    BY <1>1 DEF IInv, BuiltInv
  <2>2. CASE v = w
    BY <2>1, <2>2, <1>1, <1>2, <1>3
  <2>3. CASE v # w
    BY <2>3, <1>1, <1>3
  <2> QED BY <2>2, <2>3
<1>10. AckedDurable'
  <2>1. \A id \in acked : Holds(file, id)
    BY DEF IInv, AckedDurable, Holds
  <2>2. file \in Seq(Token)
    BY DEF IInv, TypeOK
  <2>3. \A id \in acked : Holds(file', id)
    BY <2>1, <2>2, <1>1, <1>2, HoldsConcat
  <2> QED BY <2>3, <1>1 DEF AckedDurable, Holds
<1> QED BY <1>4, <1>5, <1>6, <1>7, <1>8, <1>9, <1>10 DEF IInv

(* A crash leaves a prefix of the chain, and nothing acknowledged is lost. *)
LEMMA CrashIInv ==
  ASSUME IInv, NEW w \in Writer, NEW k \in 0..Len(pending[w]), NEW torn \in BOOLEAN,
         Crash(w, k, torn)
  PROVE  IInv'
<1> DEFINE done == SubSeq(pending[w], 1, k)
           rest == SubSeq(pending[w], k + 1, Len(pending[w]))
           t == IF torn THEN <<Torn>> ELSE <<>>
<1>1. /\ Leave(w) /\ UNCHANGED <<op, acked, readerVars>>
      /\ file' = (file \o done) \o t
      /\ \/ cut' = cut \cup {<<w, op[w]>>}
         \/ cut' = cut
      /\ torn => k < Len(pending[w])
  BY DEF Crash
<1>2. /\ done \in Seq(Token) /\ rest \in Seq(Token)
      /\ file \o done \in Seq(Token)
      /\ (file \o done) \o rest = file \o pending[w]
  BY Handed DEF IInv
<1>3. t \in Seq(Token)
  BY TokenTypes, EmptySeq
<1>4. file \in Seq(Token) /\ pending[w] \in Seq(Token) /\ op[w] \in Nat
      /\ cut \subseteq Writer \X Nat /\ acked \subseteq Id
  BY DEF IInv, TypeOK
<1>5. Linked(file \o done)
  <2> HIDE DEF done, rest
  <2> QED BY <1>2, LinkedPrefix DEF IInv, ChainInv
<1>6. file' \in Seq(Token) /\ Linked(file')
  <2>1. CASE torn
    <3> HIDE DEF done, rest
    <3> QED BY <2>1, <1>1, <1>2, <1>5, LinkedTorn
  <2>2. CASE ~ torn
    <3> HIDE DEF done, rest
    <3>1. (file \o done) \o <<>> = file \o done
      BY <1>2, ConcatEmptySeq
    <3> QED BY <2>2, <3>1, <1>1, <1>2, <1>5
  <2> QED BY <2>1, <2>2
<1>7. pc[w] = "building" \/ file' = file
  <2>1. SUFFICES ASSUME pc[w] # "building" PROVE file' = file
    OBVIOUS
  <2>2. pending[w] = <<>>
    BY <2>1 DEF IInv, LockInv
  <2>3. Len(pending[w]) = 0 /\ k = 0 /\ ~ torn
    BY <2>2, <1>1
  <2>4. done = <<>> /\ t = <<>>
    BY <2>3, SubSeqEmpty
  <2>5. file \o <<>> = file
    BY <1>4, ConcatEmptySeq
  <2> QED BY <2>4, <2>5, <1>1
<1>8. AckedDurable'
  <2> HIDE DEF done, rest, t
  <2>1. \A id \in acked : Holds(file, id)
    BY DEF IInv, AckedDurable, Holds
  <2>2. \A id \in acked : Holds(file \o done, id)
    BY <2>1, <1>2, <1>4, HoldsConcat
  <2>3. \A id \in acked : Holds((file \o done) \o t, id)
    BY <2>2, <1>2, <1>3, HoldsConcat
  <2> QED BY <2>3, <1>1 DEF AckedDurable, Holds
<1>9. cut' \subseteq Writer \X Nat /\ acked' \subseteq Id
  BY <1>1, <1>4
<1> QED BY <1>1, <1>6, <1>7, <1>8, <1>9, LeaveIInv

(* A read leaves everything of the writers as it is. *)
LEMMA ReadIInv ==
  ASSUME IInv, TypeOK', UNCHANGED writerVars
  PROVE  IInv'
BY DEF IInv, LockInv, PendingInv, ChainInv, BuiltInv, AckedDurable, writerVars

(* The reads keep the types of the readers' state. *)
LEMMA ReaderTypes ==
  ASSUME TypeOK, NEW r \in Reader, ReplayEvents(r) \/ ReplayVerify(r) \/ Follow(r)
  PROVE  TypeOK' /\ UNCHANGED writerVars
<1>1. CASE ReplayEvents(r)
  <2>1. /\ UNCHANGED <<writerVars, report, cursor, seen>>
        /\ replays' = [replays EXCEPT ![r] = replays[r] + 1]
        /\ phase' \in {phase, [phase EXCEPT ![r] = "read"]}
        /\ replaying' \in {replaying, [replaying EXCEPT ![r] = file]}
    BY <1>1 DEF ReplayEvents
  <2>2. replays' \in [Reader -> Nat]
    BY <2>1 DEF TypeOK
  <2>3. phase' \in [Reader -> {"idle", "read"}] /\ replaying' \in [Reader -> Seq(Token)]
    BY <2>1 DEF TypeOK
  <2> QED BY <2>1, <2>2, <2>3 DEF TypeOK, writerVars
<1>2. CASE ReplayVerify(r)
  <2>1. /\ UNCHANGED <<writerVars, replays, cursor, seen>>
        /\ phase' = [phase EXCEPT ![r] = "idle"]
        /\ replaying' = [replaying EXCEPT ![r] = <<>>]
        /\ report' \in {report, [report EXCEPT ![r] = [events   |-> replaying[r],
                                                       verified |-> file,
                                                       ok       |-> ChainOk(Events(file))]]}
    BY <1>2 DEF ReplayVerify
  <2>2. phase' \in [Reader -> {"idle", "read"}] /\ replaying' \in [Reader -> Seq(Token)]
    BY <2>1 DEF TypeOK
  <2>3. report' \in [Reader -> [events : Seq(Token), verified : Seq(Token), ok : BOOLEAN]]
    <3> DEFINE v == ChainOk(Events(file))
    <3>1. v \in BOOLEAN
      BY DEF ChainOk
    <3> HIDE DEF v
    <3>2. /\ file \in Seq(Token) /\ replaying[r] \in Seq(Token)
          /\ report \in [Reader -> [events : Seq(Token), verified : Seq(Token), ok : BOOLEAN]]
      BY DEF TypeOK
    <3>3. [events |-> replaying[r], verified |-> file, ok |-> v]
            \in [events : Seq(Token), verified : Seq(Token), ok : BOOLEAN]
      BY ONLY <3>1, <3>2
    <3>4. report' \in {report, [report EXCEPT ![r] =
                               [events |-> replaying[r], verified |-> file, ok |-> v]]}
      BY <2>1 DEF v
    <3> QED BY ONLY <3>2, <3>3, <3>4
  <2> QED BY <2>1, <2>2, <2>3 DEF TypeOK, writerVars
<1>3. CASE Follow(r)
  <2> DEFINE rest == SubSeq(file, cursor[r] + 1, Len(file))
  <2>1. /\ UNCHANGED <<writerVars, phase, replaying, report, replays>>
        /\ cursor[r] < Len(file)
        /\ cursor' = [cursor EXCEPT ![r] = Len(file)]
        /\ seen' = [seen EXCEPT ![r] = seen[r] \o rest]
    BY <1>3 DEF Follow
  <2>2. file \in Seq(Token) /\ Len(file) \in Nat /\ cursor[r] \in Nat /\ seen[r] \in Seq(Token)
    BY LenProperties DEF TypeOK
  <2>3. rest \in Seq(Token)
    BY <2>1, <2>2, ElementOfSeq, SubSeqProperties
  <2> HIDE DEF rest
  <2>4. seen[r] \o rest \in Seq(Token)
    BY <2>2, <2>3, ConcatProperties
  <2>5. cursor' \in [Reader -> Nat] /\ seen' \in [Reader -> Seq(Token)]
    BY <2>1, <2>2, <2>4 DEF TypeOK
  <2> QED BY <2>1, <2>5 DEF TypeOK, writerVars
<1> QED BY <1>1, <1>2, <1>3

(* No step of any process breaks the inductive invariant. *)
LEMMA NextIInv == IInv /\ [Next]_vars => IInv'
<1> SUFFICES ASSUME IInv, [Next]_vars PROVE IInv'
  OBVIOUS
<1>1. CASE UNCHANGED vars
  BY <1>1, ReadIInv DEF IInv, TypeOK, vars, writerVars, readerVars
<1>2. ASSUME NEW w \in Writer, NEW n \in 1..MaxBatch, NEW b \in 0..n, Call(w, n, b)
      PROVE  IInv'
  BY <1>2, CallIInv, EventloomAssumption
<1>3. ASSUME NEW w \in Writer, Lock(w) PROVE IInv'
  BY <1>3, LockIInv
<1>4. ASSUME NEW w \in Writer, Build(w) PROVE IInv'
  BY <1>4, BuildIInv
<1>5. ASSUME NEW w \in Writer, Refuse(w) PROVE IInv'
  BY <1>5, RefuseIInv
<1>6. ASSUME NEW w \in Writer, NEW k \in 1..Len(pending[w]), Write(w, k) PROVE IInv'
  BY <1>6, WriteIInv
<1>7. ASSUME NEW w \in Writer, Return(w) PROVE IInv'
  BY <1>7, ReturnIInv
<1>8. ASSUME NEW w \in Writer, NEW k \in 0..Len(pending[w]), NEW torn \in BOOLEAN,
             Crash(w, k, torn)
      PROVE  IInv'
  BY <1>8, CrashIInv
<1>9. ASSUME NEW r \in Reader, ReplayEvents(r) \/ ReplayVerify(r) \/ Follow(r)
      PROVE  IInv'
  BY <1>9, ReaderTypes, ReadIInv DEF IInv
<1> QED
  BY <1>1, <1>2, <1>3, <1>4, <1>5, <1>6, <1>7, <1>8, <1>9 DEF Next, WriterStep

(* The inductive invariant holds in every reachable state. *)
LEMMA InvariantHolds == Spec => []IInv
<1>1. Init => IInv
  BY InitIInv
<1>2. IInv /\ [Next]_vars => IInv'
  BY NextIInv
<1> QED BY <1>1, <1>2, PTL DEF Spec

(* Every variable keeps its type, whatever the number of writers, readers, *)
(* calls and events.                                                       *)
THEOREM TypeCorrect == Spec => []TypeOK
<1>1. IInv => TypeOK
  BY DEF IInv
<1> QED BY <1>1, InvariantHolds, PTL

(* The file is one hash chain: append_many never seals two events on the   *)
(* same predecessor, across any interleaving and any crash.                *)
THEOREM ChainIsUnbroken == Spec => []ChainUnbroken
<1>1. IInv => ChainUnbroken
  BY DEF IInv, ChainUnbroken
<1> QED BY <1>1, InvariantHolds, PTL

(* An event that append_many has returned is in the file in every later    *)
(* state.                                                                  *)
THEOREM AckedIsDurable == Spec => []AckedDurable
<1>1. IInv => AckedDurable
  BY DEF IInv
<1> QED BY <1>1, InvariantHolds, PTL

-----------------------------------------------------------------------------
(* A set of numbers that is not empty has a least one. *)
LEMMA NatMin ==
  ASSUME NEW T \in SUBSET Nat, T # {}
  PROVE  \E x \in T : \A y \in T : x <= y
<1>1. PICK x \in T : \A y \in T : ~ (<<y, x>> \in OpToRel(<, Nat))
  BY NatLessThanWellFounded, WFMin
<1>2. \A y \in T : ~ (y < x)
  BY <1>1 DEF OpToRel
<1> QED BY <1>2

(* u[n] is the sequence of the events among the first n tokens of f, n <= m. *)
Filters(u, f, m) ==
  u = [n \in 0..m |->
         IF n = 0 THEN <<>>
         ELSE IF IsEvent(f[n]) THEN Append(u[n - 1], f[n]) ELSE u[n - 1]]

(* There is such a function, for any number of tokens. *)
LEMMA FiltersExist ==
  ASSUME NEW f \in Seq(Token), NEW m \in Nat
  PROVE  \E u : Filters(u, f, m)
<1> DEFINE T == {k \in Nat : ~ \E u : Filters(u, f, k)}
<1>1. SUFFICES ASSUME T # {} PROVE FALSE
  OBVIOUS
<1>2. PICK k \in T : \A j \in T : k <= j
  BY <1>1, NatMin
<1>3. k # 0
  <2>1. Filters([n \in 0..0 |-> <<>>], f, 0)
    BY DEF Filters
  <2> QED BY <2>1
<1>4. k - 1 \in Nat /\ k - 1 \notin T
  BY <1>2, <1>3
<1>5. PICK u : Filters(u, f, k - 1)
  BY <1>4
<1> DEFINE last == IF IsEvent(f[k]) THEN Append(u[k - 1], f[k]) ELSE u[k - 1]
           v == [n \in 0..k |-> IF n = k THEN last ELSE u[n]]
<1>6. \A n \in 0..(k - 1) : v[n] = u[n]
  BY <1>2
<1>7. v[k] = last
  BY <1>2
<1> HIDE DEF v
<1>8. v = [n \in 0..k |->
             IF n = 0 THEN <<>>
             ELSE IF IsEvent(f[n]) THEN Append(v[n - 1], f[n]) ELSE v[n - 1]]
  <2>1. ASSUME NEW n \in 0..k
        PROVE  v[n] = IF n = 0 THEN <<>>
                      ELSE IF IsEvent(f[n]) THEN Append(v[n - 1], f[n]) ELSE v[n - 1]
    <3>1. CASE n = k
      <4>1. n - 1 \in 0..(k - 1) /\ n # 0
        BY <3>1, <1>3, <1>4
      <4> QED BY <3>1, <4>1, <1>6, <1>7
    <3>2. CASE n # k
      <4>1. n \in 0..(k - 1) /\ (n # 0 => n - 1 \in 0..(k - 1))
        BY <3>2
      <4>2. u[n] = IF n = 0 THEN <<>>
                   ELSE IF IsEvent(f[n]) THEN Append(u[n - 1], f[n]) ELSE u[n - 1]
        BY <1>5, <4>1 DEF Filters
      <4> QED BY <4>1, <4>2, <1>6
    <3> QED BY <3>1, <3>2
  <2>2. v = [n \in 0..k |-> v[n]]
    BY DEF v
  <2> QED BY <2>1, <2>2
<1>9. Filters(v, f, k)
  BY <1>8 DEF Filters
<1> QED BY <1>9

(* What is filtered depends on the tokens filtered alone. *)
LEMMA FiltersAgree ==
  ASSUME NEW f \in Seq(Token), NEW g \in Seq(Token), NEW m \in 0..Len(f), m <= Len(g),
         \A i \in 1..m : f[i] = g[i],
         NEW a \in Nat, NEW b \in Nat, m <= a, m <= b,
         NEW u, NEW v, Filters(u, f, a), Filters(v, g, b)
  PROVE  u[m] = v[m]
<1> DEFINE T == {k \in 0..m : u[k] # v[k]}
<1>1. SUFFICES ASSUME T # {} PROVE FALSE
  BY LenProperties
<1>2. Len(f) \in Nat /\ T \in SUBSET Nat
  BY LenProperties
<1>3. PICK k \in T : \A j \in T : k <= j
  BY <1>1, <1>2, NatMin
<1>4. /\ \A n \in 0..m : u[n] = IF n = 0 THEN <<>>
           ELSE IF IsEvent(f[n]) THEN Append(u[n - 1], f[n]) ELSE u[n - 1]
      /\ \A n \in 0..m : v[n] = IF n = 0 THEN <<>>
           ELSE IF IsEvent(g[n]) THEN Append(v[n - 1], g[n]) ELSE v[n - 1]
  <2>1. ASSUME NEW n \in 0..m PROVE n \in 0..a /\ n \in 0..b
    BY <1>2
  <2>2. \A n \in 0..a : u[n] = IF n = 0 THEN <<>>
           ELSE IF IsEvent(f[n]) THEN Append(u[n - 1], f[n]) ELSE u[n - 1]
    BY DEF Filters
  <2>3. \A n \in 0..b : v[n] = IF n = 0 THEN <<>>
           ELSE IF IsEvent(g[n]) THEN Append(v[n - 1], g[n]) ELSE v[n - 1]
    BY DEF Filters
  <2> QED BY <2>1, <2>2, <2>3
<1>5. k # 0
  BY <1>4, <1>2
<1>6. k - 1 \in 0..m /\ k - 1 \notin T /\ k \in 1..m
  BY <1>5, <1>3, <1>2
<1>7. u[k - 1] = v[k - 1]
  BY <1>6
<1> QED BY <1>4, <1>6, <1>7

(* Every prefix filters to a sequence of events. *)
LEMMA FiltersType ==
  ASSUME NEW f \in Seq(Token), NEW u, Filters(u, f, Len(f)), NEW n \in 0..Len(f)
  PROVE  u[n] \in Seq(Event)
<1> DEFINE T == {k \in 0..Len(f) : u[k] \notin Seq(Event)}
<1>1. SUFFICES ASSUME T # {} PROVE FALSE
  OBVIOUS
<1>2. Len(f) \in Nat /\ T \in SUBSET Nat
  BY LenProperties
<1>3. PICK k \in T : \A j \in T : k <= j
  BY <1>1, <1>2, NatMin
<1>4. u[k] = IF k = 0 THEN <<>>
             ELSE IF IsEvent(f[k]) THEN Append(u[k - 1], f[k]) ELSE u[k - 1]
  BY <1>2 DEF Filters
<1>5. k # 0
  BY <1>4, EmptySeq
<1>6. k - 1 \in 0..Len(f) /\ k - 1 \notin T /\ k \in 1..Len(f)
  BY <1>5, <1>3, <1>2
<1>7. f[k] \in Token
  BY <1>6, ElementOfSeq
<1>8. IsEvent(f[k]) => f[k] \in Event
  BY <1>7, TokenTypes
<1>9. u[k - 1] \in Seq(Event) /\ u[k] \notin Seq(Event)
  BY <1>6
<1>10. CASE IsEvent(f[k])
  <2>1. u[k] = Append(u[k - 1], f[k])
    BY <1>4, <1>5, <1>10
  <2> QED BY <2>1, <1>8, <1>9, <1>10, AppendProperties
<1>11. CASE ~ IsEvent(f[k])
  BY <1>4, <1>5, <1>9, <1>11
<1> QED BY <1>10, <1>11

(* The events of a file, one token at a time. *)
LEMMA EventsAppend ==
  /\ Events(<<>>) = <<>>
  /\ \A f \in Seq(Token) : Events(f) \in Seq(Event)
  /\ \A f \in Seq(Token), t \in Token :
       Events(Append(f, t)) = IF IsEvent(t) THEN Append(Events(f), t) ELSE Events(f)
<1>1. ASSUME NEW f \in Seq(Token)
      PROVE  \E u : Filters(u, f, Len(f)) /\ Events(f) = u[Len(f)]
  <2>1. Len(f) \in Nat
    BY LenProperties
  <2>2. \E u : Filters(u, f, Len(f))
    BY <2>1, FiltersExist
  <2> DEFINE w == CHOOSE u : Filters(u, f, Len(f))
  <2>3. Filters(w, f, Len(f))
    BY <2>2
  <2>4. Events(f) = w[Len(f)]
    BY DEF Events, Filters
  <2> QED BY <2>3, <2>4
<1>2. Events(<<>>) = <<>>
  <2>1. <<>> \in Seq(Token) /\ Len(<<>>) = 0
    BY EmptySeq
  <2>2. PICK u : Filters(u, <<>>, 0) /\ Events(<<>>) = u[0]
    BY <1>1, <2>1
  <2> QED BY <2>2 DEF Filters
<1>3. ASSUME NEW f \in Seq(Token) PROVE Events(f) \in Seq(Event)
  <2>1. PICK u : Filters(u, f, Len(f)) /\ Events(f) = u[Len(f)]
    BY <1>1
  <2>2. Len(f) \in 0..Len(f)
    BY LenProperties
  <2> QED BY <2>1, <2>2, FiltersType
<1>4. ASSUME NEW f \in Seq(Token), NEW t \in Token
      PROVE  Events(Append(f, t)) = IF IsEvent(t) THEN Append(Events(f), t) ELSE Events(f)
  <2>1. PICK g : g = Append(f, t)
    OBVIOUS
  <2>2. /\ g \in Seq(Token) /\ Len(g) = Len(f) + 1 /\ Len(f) \in Nat
        /\ \A i \in 1..Len(f) : f[i] = g[i]
        /\ g[Len(f) + 1] = t
    BY <2>1, AppendProperties, LenProperties
  <2>3. PICK u : Filters(u, f, Len(f)) /\ Events(f) = u[Len(f)]
    BY <1>1
  <2>4. PICK v : Filters(v, g, Len(g)) /\ Events(g) = v[Len(g)]
    BY <1>1, <2>2
  <2>5. u[Len(f)] = v[Len(f)]
    <3>1. PICK m : m = Len(f)
      OBVIOUS
    <3>2. m \in 0..Len(f) /\ m <= Len(g) /\ m \in Nat /\ Len(g) \in Nat
      BY <2>2, <3>1
    <3> QED BY <3>1, <3>2, <2>2, <2>3, <2>4, FiltersAgree
  <2>6. v[Len(f) + 1] = IF IsEvent(t) THEN Append(v[Len(f)], t) ELSE v[Len(f)]
    <3>1. v = [n \in 0..(Len(f) + 1) |->
             IF n = 0 THEN <<>>
             ELSE IF IsEvent(g[n]) THEN Append(v[n - 1], g[n]) ELSE v[n - 1]]
      BY <2>4, <2>2 DEF Filters
    <3>2. /\ Len(f) + 1 \in 0..(Len(f) + 1) /\ Len(f) + 1 # 0
          /\ (Len(f) + 1) - 1 = Len(f)
      BY <2>2
    <3> QED BY <3>1, <3>2, <2>2
  <2> QED BY <2>1, <2>2, <2>3, <2>4, <2>5, <2>6
<1> QED BY <1>2, <1>3, <1>4

(* A file with at least one token is a shorter one and its last token. *)
LEMMA LastToken ==
  ASSUME NEW f \in Seq(Token), f # <<>>
  PROVE  \E g \in Seq(Token), t \in Token :
           /\ f = Append(g, t) /\ f = g \o <<t>> /\ Len(f) = Len(g) + 1 /\ Len(g) \in Nat
           /\ f[Len(f)] = t /\ \A i \in 1..Len(g) : f[i] = g[i]
<1>1. PICK g \in Seq(Token), t \in Token : f = Append(g, t)
  BY SequenceEmptyOrAppend
<1>2. Append(g, t) = g \o <<t>>
  BY AppendIsConcat
<1>3. /\ Len(Append(g, t)) = Len(g) + 1 /\ Append(g, t)[Len(g) + 1] = t
      /\ \A i \in 1..Len(g) : Append(g, t)[i] = g[i]
  BY AppendProperties
<1>4. Len(g) \in Nat
  BY LenProperties
<1> QED BY <1>1, <1>2, <1>3, <1>4

(* Concatenation of events is associative. *)
LEMMA EventsAssociative ==
  ASSUME NEW f \in Seq(Event), NEW g \in Seq(Event), NEW h \in Seq(Event)
  PROVE  (f \o g) \o h = f \o (g \o h)
BY ConcatAssociative

(* The events of two pieces of a file are those of the one, then of the other. *)
Splits(f, g) == Events(f \o g) = Events(f) \o Events(g)

LEMMA EventsConcat ==
  ASSUME NEW f \in Seq(Token), NEW g \in Seq(Token)
  PROVE  Splits(f, g)
<1> DEFINE T == {Len(h) : h \in {x \in Seq(Token) : ~ Splits(f, x)}}
<1>1. SUFFICES ASSUME T # {} PROVE FALSE
  OBVIOUS
<1>2. T \in SUBSET Nat
  BY LenProperties
<1>3. PICK n \in T : \A m \in T : n <= m
  BY <1>1, <1>2, NatMin
<1>4. PICK h \in Seq(Token) : n = Len(h) /\ ~ Splits(f, h)
  BY <1>3
<1>5. /\ Events(<<>>) = <<>> /\ Events(f) \in Seq(Event)
      /\ f \o <<>> = f /\ Events(f) \o <<>> = Events(f)
  BY EventsAppend, ConcatEmptySeq
<1>6. h # <<>>
  BY <1>4, <1>5 DEF Splits
<1>7. PICK k \in Seq(Token), t \in Token :
        h = Append(k, t) /\ h = k \o <<t>> /\ Len(h) = Len(k) + 1 /\ Len(k) \in Nat
  <2>1. \E k \in Seq(Token), t \in Token :
          /\ h = Append(k, t) /\ h = k \o <<t>> /\ Len(h) = Len(k) + 1 /\ Len(k) \in Nat
          /\ h[Len(h)] = t /\ \A i \in 1..Len(k) : h[i] = k[i]
    BY <1>6, LastToken
  <2> QED BY <2>1
<1>8. Splits(f, k)
  <2>1. Len(k) \notin T
    BY <1>3, <1>4, <1>7
  <2> QED BY <2>1
<1>9. f \o h = Append(f \o k, t) /\ f \o k \in Seq(Token)
  <2>1. f \o k \in Seq(Token) /\ <<t>> \in Seq(Token)
    BY ConcatProperties
  <2>2. (f \o k) \o <<t>> = f \o (k \o <<t>>)
    BY <2>1, ConcatAssociative
  <2>3. Append(f \o k, t) = (f \o k) \o <<t>> /\ Append(k, t) = k \o <<t>>
    BY <2>1, AppendIsConcat
  <2> QED BY <1>7, <2>1, <2>2, <2>3
<1>10. Events(f \o h) = IF IsEvent(t) THEN Append(Events(f \o k), t) ELSE Events(f \o k)
  BY <1>9, EventsAppend
<1>11. /\ Events(h) = IF IsEvent(t) THEN Append(Events(k), t) ELSE Events(k)
       /\ Events(k) \in Seq(Event)
  BY <1>7, EventsAppend
<1>12. CASE ~ IsEvent(t)
  BY <1>4, <1>8, <1>10, <1>11, <1>12 DEF Splits
<1>13. CASE IsEvent(t)
  <2>1. t \in Event
    BY <1>13, TokenTypes
  <2>2. PICK a \in Seq(Event) : a = Events(f)
    BY <1>5
  <2>3. PICK b \in Seq(Event) : b = Events(k)
    BY <1>11
  <2>4. <<t>> \in Seq(Event) /\ a \o b \in Seq(Event)
    BY <2>1, ConcatProperties
  <2>5. (a \o b) \o <<t>> = a \o (b \o <<t>>)
    <3>1. PICK c \in Seq(Event) : c = <<t>>
      BY <2>4
    <3>2. (a \o b) \o c = a \o (b \o c)
      BY EventsAssociative
    <3> QED BY <3>1, <3>2
  <2>6. Append(a \o b, t) = (a \o b) \o <<t>> /\ Append(b, t) = b \o <<t>>
    BY <2>1, <2>4, AppendIsConcat
  <2>7. Events(f \o h) = Append(a \o b, t)
    BY <1>8, <1>10, <1>13, <2>2, <2>3 DEF Splits
  <2>8. Events(h) = Append(b, t)
    BY <1>11, <1>13, <2>3
  <2> QED BY <2>2, <2>5, <2>6, <2>7, <2>8, <1>4 DEF Splits
<1> QED BY <1>12, <1>13

(* The events of a file are the tokens in it that are events. *)
SameEvents(f) ==
  \A e : (\E i \in DOMAIN Events(f) : Events(f)[i] = e)
         <=> (\E i \in DOMAIN f : IsEvent(f[i]) /\ f[i] = e)

LEMMA EventsAreTokens ==
  ASSUME NEW f \in Seq(Token)
  PROVE  SameEvents(f)
<1> DEFINE T == {Len(h) : h \in {x \in Seq(Token) : ~ SameEvents(x)}}
<1>1. SUFFICES ASSUME T # {} PROVE FALSE
  OBVIOUS
<1>2. T \in SUBSET Nat
  BY LenProperties
<1>3. PICK n \in T : \A m \in T : n <= m
  BY <1>1, <1>2, NatMin
<1>4. PICK h \in Seq(Token) : n = Len(h) /\ ~ SameEvents(h)
  BY <1>3
<1>5. Events(<<>>) = <<>>
  BY EventsAppend
<1>6. h # <<>>
  BY <1>4, <1>5 DEF SameEvents
<1>7. PICK k \in Seq(Token), t \in Token :
        /\ h = Append(k, t) /\ Len(h) = Len(k) + 1 /\ Len(k) \in Nat
        /\ h[Len(h)] = t /\ \A i \in 1..Len(k) : h[i] = k[i]
  BY <1>6, LastToken
<1>8. SameEvents(k)
  <2>1. Len(k) \notin T
    BY <1>3, <1>4, <1>7
  <2> QED BY <2>1
<1>9. /\ Events(h) = IF IsEvent(t) THEN Append(Events(k), t) ELSE Events(k)
      /\ Events(k) \in Seq(Event)
  BY <1>7, EventsAppend
<1>10. DOMAIN h = 1..(Len(k) + 1) /\ DOMAIN k = 1..Len(k)
  BY <1>7, LenProperties
<1>11. \A e : (\E i \in DOMAIN h : IsEvent(h[i]) /\ h[i] = e)
              <=> (\E i \in DOMAIN k : IsEvent(k[i]) /\ k[i] = e) \/ (IsEvent(t) /\ t = e)
  BY <1>7, <1>10
<1>12. \A e : (\E i \in DOMAIN Events(h) : Events(h)[i] = e)
              <=> (\E i \in DOMAIN Events(k) : Events(k)[i] = e) \/ (IsEvent(t) /\ t = e)
  <2>1. CASE ~ IsEvent(t)
    BY <2>1, <1>9
  <2>2. CASE IsEvent(t)
    <3>1. t \in Event
      BY <2>2, TokenTypes
    <3>2. PICK es \in Seq(Event) : es = Events(k)
      BY <1>9
    <3>3. PICK hs : hs = Append(es, t)
      OBVIOUS
    <3>4. /\ hs \in Seq(Event) /\ Len(hs) = Len(es) + 1 /\ Len(es) \in Nat
          /\ hs[Len(es) + 1] = t /\ \A i \in 1..Len(es) : hs[i] = es[i]
          /\ DOMAIN hs = 1..(Len(es) + 1) /\ DOMAIN es = 1..Len(es)
      BY <3>1, <3>3, AppendProperties, LenProperties
    <3>5. ASSUME NEW e
          PROVE  (\E i \in DOMAIN hs : hs[i] = e)
                   <=> (\E i \in DOMAIN es : es[i] = e) \/ t = e
      <4>1. ASSUME NEW i \in DOMAIN hs PROVE hs[i] = t \/ \E j \in DOMAIN es : es[j] = hs[i]
        <5>1. CASE i = Len(es) + 1
          BY <5>1, <3>4
        <5>2. CASE i # Len(es) + 1
          <6>1. i \in 1..Len(es)
            BY <5>2, <3>4
          <6> QED BY <6>1, <3>4
        <5> QED BY <5>1, <5>2
      <4>2. ASSUME NEW j \in DOMAIN es PROVE \E i \in DOMAIN hs : hs[i] = es[j]
        <5>1. j \in 1..Len(es) /\ j \in DOMAIN hs
          BY <3>4
        <5> QED BY <5>1, <3>4
      <4>3. \E i \in DOMAIN hs : hs[i] = t
        <5>1. Len(es) + 1 \in DOMAIN hs
          BY <3>4
        <5> QED BY <5>1, <3>4
      <4> QED BY <4>1, <4>2, <4>3
    <3>6. Events(h) = hs
      BY <1>9, <2>2, <3>2, <3>3
    <3> QED BY <3>2, <3>5, <3>6, <2>2
  <2> QED BY <2>1, <2>2
<1> QED BY <1>4, <1>8, <1>11, <1>12 DEF SameEvents

(* The last event of a file that ends in an event or in one other token. *)
LEMMA LastEvent ==
  ASSUME NEW f \in Seq(Token), f # <<>>,
         NEW k \in DOMAIN f, k = IF IsEvent(f[Len(f)]) THEN Len(f) ELSE Len(f) - 1,
         IsEvent(f[k])
  PROVE  Len(Events(f)) \in Nat \ {0} /\ Events(f)[Len(Events(f))] = f[k]
<1>1. PICK g \in Seq(Token), t \in Token :
        /\ f = Append(g, t) /\ Len(f) = Len(g) + 1 /\ Len(g) \in Nat
        /\ f[Len(f)] = t /\ \A i \in 1..Len(g) : f[i] = g[i]
  BY LastToken
<1>2. /\ Events(f) = IF IsEvent(t) THEN Append(Events(g), t) ELSE Events(g)
      /\ Events(g) \in Seq(Event) /\ Len(Events(g)) \in Nat
  BY <1>1, EventsAppend, LenProperties
<1>3. CASE IsEvent(t)
  <2>1. t \in Event
    BY <1>3, TokenTypes
  <2> QED BY <2>1, <1>1, <1>2, <1>3, AppendProperties
<1>4. CASE ~ IsEvent(t)
  <2>1. k = Len(g) /\ k \in 1..Len(g) /\ f[k] = g[k]
    BY <1>1, <1>4, LenProperties
  <2>2. g # <<>>
    BY <2>1, EmptySeq
  <2>3. PICK h \in Seq(Token), u \in Token :
          g = Append(h, u) /\ g[Len(g)] = u
    BY <2>2, LastToken
  <2>4. u = f[k] /\ u \in Event
    BY <2>1, <2>3, TokenTypes
  <2>5. Events(g) = Append(Events(h), u) /\ Events(h) \in Seq(Event)
    BY <2>3, <2>4, EventsAppend
  <2>6. Len(Events(h)) \in Nat
    BY <2>5, LenProperties
  <2> QED BY <2>4, <2>5, <2>6, <1>2, <1>4, AppendProperties
<1> QED BY <1>3, <1>4

(* One more event, linked to the last one, leaves a chain that verify accepts. *)
LEMMA ChainAppend ==
  ASSUME NEW es \in Seq(Event), ChainOk(es), NEW t \in Event,
         \/ es = <<>> /\ t.seq = 1 /\ t.prev = NoHash
         \/ Len(es) # 0 /\ t.seq = es[Len(es)].seq + 1 /\ t.prev = es[Len(es)].id
  PROVE  ChainOk(Append(es, t))
<1>1. PICK hs : hs = Append(es, t)
  OBVIOUS
<1>2. /\ Len(hs) = Len(es) + 1 /\ DOMAIN hs = 1..(Len(es) + 1)
      /\ hs[Len(es) + 1] = t /\ \A i \in 1..Len(es) : hs[i] = es[i]
      /\ Len(es) \in Nat /\ DOMAIN es = 1..Len(es)
  BY <1>1, AppendProperties, LenProperties
<1>3. es = <<>> => Len(es) = 0
  BY EmptySeq
<1>4. \A i \in 1..Len(es) :
        es[i].seq = i /\ es[i].prev = IF i = 1 THEN NoHash ELSE es[i - 1].id
  BY <1>2 DEF ChainOk
<1>5. ASSUME NEW i \in 1..Len(es)
      PROVE  hs[i].seq = i /\ hs[i].prev = IF i = 1 THEN NoHash ELSE hs[i - 1].id
  BY <1>2, <1>4
<1>6. /\ hs[Len(es) + 1].seq = Len(es) + 1
      /\ hs[Len(es) + 1].prev = IF Len(es) + 1 = 1 THEN NoHash ELSE hs[(Len(es) + 1) - 1].id
  BY <1>2, <1>3, <1>4
<1>7. ASSUME NEW i \in DOMAIN hs
      PROVE  hs[i].seq = i /\ hs[i].prev = IF i = 1 THEN NoHash ELSE hs[i - 1].id
  BY <1>2, <1>5, <1>6
<1> QED BY <1>1, <1>7 DEF ChainOk

(* The events of a linked file are a hash chain that verify accepts. *)
LEMMA LinkedEvents ==
  ASSUME NEW f \in Seq(Token), Linked(f)
  PROVE  ChainOk(Events(f))
<1> DEFINE T == {Len(h) : h \in {x \in Seq(Token) : Linked(x) /\ ~ ChainOk(Events(x))}}
<1>1. SUFFICES ASSUME T # {} PROVE FALSE
  OBVIOUS
<1>2. T \in SUBSET Nat
  BY LenProperties
<1>3. PICK n \in T : \A m \in T : n <= m
  BY <1>1, <1>2, NatMin
<1>4. PICK h \in Seq(Token) : n = Len(h) /\ Linked(h) /\ ~ ChainOk(Events(h))
  BY <1>3
<1>5. Events(<<>>) = <<>>
  BY EventsAppend
<1>6. h # <<>>
  BY <1>4, <1>5 DEF ChainOk
<1>7. PICK k \in Seq(Token), t \in Token :
        /\ h = Append(k, t) /\ h = k \o <<t>> /\ Len(h) = Len(k) + 1 /\ Len(k) \in Nat
        /\ h[Len(h)] = t /\ \A i \in 1..Len(k) : h[i] = k[i]
  BY <1>6, LastToken
<1>8. ChainOk(Events(k))
  <2>1. Linked(k)
    <3>1. <<t>> \in Seq(Token)
      OBVIOUS
    <3> QED BY <3>1, <1>4, <1>7, LinkedPrefix
  <2>2. Len(k) \notin T
    BY <1>3, <1>4, <1>7
  <2> QED BY <2>1, <2>2
<1>9. /\ Events(h) = IF IsEvent(t) THEN Append(Events(k), t) ELSE Events(k)
      /\ Events(k) \in Seq(Event) /\ Len(Events(k)) \in Nat
      /\ DOMAIN Events(k) = 1..Len(Events(k))
  BY <1>7, EventsAppend, LenProperties
<1>10. IsEvent(t) /\ t \in Event
  BY <1>4, <1>8, <1>9, TokenTypes
<1>11. DOMAIN h = 1..Len(h) /\ DOMAIN k = 1..Len(k)
  BY LenProperties
<1> DEFINE es == Events(k)
<1>12. \/ es = <<>> /\ t.seq = 1 /\ t.prev = NoHash
       \/ /\ Len(es) # 0 /\ t.seq = es[Len(es)].seq + 1 /\ t.prev = es[Len(es)].id
  <2>1. CASE Len(h) = 1
    <3>1. k = <<>>
      BY <2>1, <1>7, EmptySeq
    <3> QED BY <2>1, <3>1, <1>4, <1>5, <1>7, <1>10, <1>11 DEF Linked
  <2>2. CASE Len(h) # 1
    <3> DEFINE j == Len(h)
    <3>0. j \in DOMAIN h /\ IsEvent(h[j]) /\ h[j] = t /\ j # 1
      BY <1>7, <1>10, <1>11, <2>2
    <3>1. /\ j \in DOMAIN h /\ IsEvent(h[j]) /\ h[j] = t
          /\ Before(h, j) \in DOMAIN h
          /\ IsEvent(h[Before(h, j)])
          /\ h[j].seq = h[Before(h, j)].seq + 1
          /\ h[j].prev = h[Before(h, j)].id
      BY <1>4, <3>0 DEF Linked
    <3>2. Before(h, j) = IF IsEvent(k[Len(k)]) THEN Len(k) ELSE Len(k) - 1
      BY <1>7, <2>2 DEF Before
    <3>3. Before(h, j) \in DOMAIN k /\ h[Before(h, j)] = k[Before(h, j)] /\ k # <<>>
      BY <3>1, <3>2, <1>7, <1>11, <2>2, EmptySeq
    <3>4. Len(es) \in Nat \ {0} /\ es[Len(es)] = k[Before(h, j)]
      <4>1. PICK b \in DOMAIN k : b = Before(h, j)
        BY <3>3
      <4> QED BY <4>1, <3>1, <3>2, <3>3, LastEvent
    <3> QED BY <3>1, <3>3, <3>4
  <2> QED BY <2>1, <2>2
<1>13. ChainOk(Append(es, t))
  BY <1>8, <1>9, <1>10, <1>12, ChainAppend
<1> QED BY <1>4, <1>9, <1>10, <1>13

-----------------------------------------------------------------------------
(* The i-th event of the call writer w is in. *)
Ident(w, i) == [by |-> w, op |-> op[w], idx |-> i, of |-> size[w]]

(* The owner writes behind what was in the file when it got the lock, and  *)
(* only when the whole batch is built.                                     *)
BaseInv ==
  \A w \in Writer : owner = w =>
    /\ base \in 0..Len(file)
    /\ built[w] < size[w] => base = Len(file)

(* A call has an item at least, and builds no more events than items. *)
CallsInv ==
  \A w \in Writer : pc[w] # "idle" => size[w] # 0 /\ built[w] <= size[w]

(* What follows the settled events is the batch, in order and complete. *)
BatchInv ==
  \A w \in Writer : owner = w =>
    LET before == Len(Events(Settled))
        all    == Events(file \o pending[w])
    IN  /\ Len(all) = before + built[w]
        /\ \A i \in 1..built[w] : all[before + i].id = Ident(w, i)

(* The settled events are of earlier calls. *)
OpsInv ==
  \A i \in DOMAIN Events(Settled) :
    LET id == Events(Settled)[i].id
    IN  /\ id.op <= op[id.by]
        /\ pc[id.by] # "idle" => id.op # op[id.by]

(* No batch goes on a torn record. *)
TornInv ==
  \A w \in Writer : owner = w =>
    /\ \A i \in DOMAIN pending[w] : pending[w][i] # Torn
    /\ file # <<>> /\ file[Len(file)] = Torn => built[w] = 0 /\ pending[w] = <<>>

BatchesInv ==
  /\ BaseInv /\ CallsInv /\ BatchInv /\ OpsInv /\ TornInv
  /\ WholeBatches(Events(Settled), cut)

(* f is an earlier state of the log: a prefix of it, of complete batches.  *)
Earlier(f, log, dead) ==
  /\ Len(f) <= Len(log)
  /\ f = SubSeq(log, 1, Len(f))
  /\ WholeBatches(Events(f), dead)

(* What the readers have read, and compared, are earlier states of the log. *)
ReaderInv(r) ==
  /\ Earlier(replaying[r], file, cut)
  /\ Earlier(seen[r], file, cut) /\ Len(seen[r]) = cursor[r]
  /\ Earlier(report[r].events, file, cut) /\ Earlier(report[r].verified, file, cut)
  /\ Len(report[r].events) <= Len(report[r].verified)
  /\ report[r].ok

ReadersInv == \A r \in Reader : ReaderInv(r)

(* A file up to a position, and the rest of it. *)
LEMMA Cut ==
  ASSUME NEW f \in Seq(Token), NEW n \in 0..Len(f)
  PROVE  /\ SubSeq(f, 1, n) \in Seq(Token) /\ Len(SubSeq(f, 1, n)) = n
         /\ SubSeq(f, n + 1, Len(f)) \in Seq(Token)
         /\ SubSeq(f, 1, n) \o SubSeq(f, n + 1, Len(f)) = f
         /\ \A i \in 1..n : SubSeq(f, 1, n)[i] = f[i]
<1>1. Len(f) \in Nat /\ \A i \in 1..Len(f) : f[i] \in Token
  BY LenProperties, ElementOfSeq
<1>2. /\ SubSeq(f, 1, n) \in Seq(Token) /\ Len(SubSeq(f, 1, n)) = n
      /\ \A i \in 1..n : SubSeq(f, 1, n)[i] = f[i]
  <2>1. \A i \in 1..n : f[i] \in Token
    BY <1>1
  <2> QED BY <1>1, <2>1, SubSeqProperties
<1>3. SubSeq(f, n + 1, Len(f)) \in Seq(Token)
  <2>1. \A i \in (n + 1)..Len(f) : f[i] \in Token
    BY <1>1
  <2> QED BY <1>1, <2>1, SubSeqProperties
<1>4. SubSeq(f, 1, n) \o SubSeq(f, n + 1, Len(f)) = SubSeq(f, 1, Len(f))
  <2>1. 1 \in 1..Len(f) + 1 /\ n \in 1 - 1..Len(f) /\ Len(f) \in n..Len(f)
    BY <1>1
  <2> QED BY ONLY f \in Seq(Token), <2>1, ConcatAdjacentSubSeq
<1>5. SubSeq(f, 1, Len(f)) = f
  BY SubSeqFull
<1> QED BY <1>2, <1>3, <1>4, <1>5

(* What is added at the end of a file leaves its prefixes as they are. *)
LEMMA PrefixKept ==
  ASSUME NEW f \in Seq(Token), NEW g \in Seq(Token), NEW n \in 0..Len(f)
  PROVE  SubSeq(f \o g, 1, n) = SubSeq(f, 1, n)
<1>1. Len(f) \in Nat
  BY LenProperties
<1>2. CASE n = 0
  BY <1>2, SubSeqEmpty
<1>3. CASE n # 0
  <2>1. 1 \in 1..Len(f) /\ n \in 1..Len(f)
    BY <1>1, <1>3
  <2> QED BY <2>1, SubSeqOfConcat1
<1> QED BY <1>2, <1>3

(* The events of a longer file begin with those of the file. *)
LEMMA EventsGrow ==
  ASSUME NEW f \in Seq(Token), NEW g \in Seq(Token)
  PROVE  /\ Events(f) \in Seq(Event) /\ Events(g) \in Seq(Event)
         /\ Len(Events(f)) \in Nat /\ Len(Events(g)) \in Nat
         /\ f \o g \in Seq(Token) /\ Events(f \o g) \in Seq(Event)
         /\ Len(Events(f \o g)) = Len(Events(f)) + Len(Events(g))
         /\ \A i \in 1..Len(Events(f)) : Events(f \o g)[i] = Events(f)[i]
<1>1. /\ Events(f) \in Seq(Event) /\ Events(g) \in Seq(Event)
      /\ f \o g \in Seq(Token) /\ Events(f \o g) \in Seq(Event)
  BY EventsAppend, ConcatProperties
<1>2. Events(f \o g) = Events(f) \o Events(g)
  BY EventsConcat DEF Splits
<1>3. Len(Events(f)) \in Nat /\ Len(Events(g)) \in Nat
  BY <1>1, LenProperties
<1> QED BY <1>1, <1>2, <1>3, ConcatProperties

(* What is settled is the file, or what it was when its owner got the lock. *)
LEMMA SettledIs ==
  /\ owner = Nobody => Settled = SubSeq(file, 1, Len(file))
  /\ owner # Nobody => Settled = SubSeq(file, 1, base)
BY DEF Settled

LEMMA SettledFacts ==
  ASSUME TypeOK, BaseInv
  PROVE  /\ Settled \in Seq(Token) /\ Events(Settled) \in Seq(Event)
         /\ Len(Events(Settled)) \in Nat
         /\ \E more \in Seq(Token) : file = Settled \o more
<1>1. file \in Seq(Token) /\ Len(file) \in Nat /\ owner \in Writer \cup {Nobody}
  BY LenProperties DEF TypeOK
<1>2. \E n \in 0..Len(file) : Settled = SubSeq(file, 1, n)
  <2>1. CASE owner = Nobody
    <3>1. Len(file) \in 0..Len(file)
      BY <1>1
    <3> QED BY <2>1, <3>1, SettledIs
  <2>2. CASE owner # Nobody
    BY <2>2, <1>1, SettledIs DEF BaseInv
  <2> QED BY <2>1, <2>2
<1>3. PICK n \in 0..Len(file) : Settled = SubSeq(file, 1, n)
  BY <1>2
<1>4. Settled \in Seq(Token) /\ \E more \in Seq(Token) : file = Settled \o more
  BY <1>1, <1>3, Cut
<1>5. Events(Settled) \in Seq(Event)
  BY <1>4, EventsAppend
<1> QED BY <1>4, <1>5, LenProperties

(* A batch that is complete stays so when the log grows. *)
LEMMA WholeKept ==
  ASSUME NEW es \in Seq(Event), NEW dead, WholeBatches(es, dead), NEW more, dead \subseteq more
  PROVE  WholeBatches(es, more)
BY DEF WholeBatches

(* An empty log satisfies the invariant. *)
LEMMA InitBatches == Init => BatchesInv /\ ReadersInv
<1> SUFFICES ASSUME Init PROVE BatchesInv /\ ReadersInv
  OBVIOUS
<1>1. /\ file = <<>> /\ owner = Nobody /\ pc = [w \in Writer |-> "idle"]
      /\ cut = {}
  BY DEF Init
<1>2. Len(<<>>) = 0 /\ SubSeq(<<>>, 1, 0) = <<>> /\ Events(<<>>) = <<>>
  BY EmptySeq, SubSeqEmpty, EventsAppend
<1>3. Settled = <<>>
  BY <1>1, <1>2, SettledIs
<1>4. WholeBatches(<<>>, {})
  BY DEF WholeBatches
<1>5. BatchesInv
  <2>1. \A w \in Writer : owner # w
    BY <1>1, EventloomAssumption
  <2>2. BaseInv /\ BatchInv /\ TornInv
    BY <2>1 DEF BaseInv, BatchInv, TornInv
  <2>3. CallsInv
    BY <1>1 DEF CallsInv
  <2>4. OpsInv
    BY <1>2, <1>3 DEF OpsInv
  <2> QED BY <1>1, <1>2, <1>3, <1>4, <2>2, <2>3, <2>4 DEF BatchesInv
<1>6. ReadersInv
  <2>1. ASSUME NEW r \in Reader
        PROVE  /\ replaying[r] = <<>> /\ seen[r] = <<>> /\ cursor[r] = 0
               /\ report[r] = [events |-> <<>>, verified |-> <<>>, ok |-> TRUE]
    BY DEF Init
  <2>2. Earlier(<<>>, file, cut)
    BY <1>1, <1>2, <1>4 DEF Earlier
  <2> QED BY <2>1, <2>2, <1>2 DEF ReadersInv, ReaderInv
<1> QED BY <1>5, <1>6

(* Steps that leave what is settled as it is, and the calls in hand. *)
LEMMA StillSettled ==
  ASSUME BatchesInv, Settled' = Settled, UNCHANGED <<op, cut>>,
         \A w \in Writer : pc'[w] # "idle" => pc[w] # "idle",
         TypeOK
  PROVE  OpsInv' /\ WholeBatches(Events(Settled), cut)'
<1>1. WholeBatches(Events(Settled), cut)'
  BY DEF BatchesInv
<1>2. Events(Settled) \in Seq(Event)
  BY SettledFacts DEF BatchesInv
<1>3. ASSUME NEW i \in DOMAIN Events(Settled)
      PROVE  /\ Events(Settled)[i].id.op <= op[Events(Settled)[i].id.by]
             /\ pc'[Events(Settled)[i].id.by] # "idle"
                  => Events(Settled)[i].id.op # op[Events(Settled)[i].id.by]
  <2>1. Events(Settled)[i] \in Event
    BY <1>2, LenProperties, ElementOfSeq
  <2>2. Events(Settled)[i].id.by \in Writer
    BY <2>1 DEF Event, Id
  <2> QED BY <2>2 DEF BatchesInv, OpsInv
<1> QED BY <1>1, <1>3 DEF OpsInv

(* A call that starts has a number of its own. *)
LEMMA CallBatches ==
  ASSUME IInv, BatchesInv, NEW w \in Writer, NEW n \in Nat \ {0}, NEW b \in Nat, Call(w, n, b)
  PROVE  BatchesInv'
<1>1. /\ op' = [op EXCEPT ![w] = op[w] + 1]
      /\ size' = [size EXCEPT ![w] = n]
      /\ pc' = [pc EXCEPT ![w] = "waiting"]
      /\ pc[w] = "idle"
      /\ UNCHANGED <<file, owner, built, pending, base, cut>>
  BY DEF Call
<1>2. TypeOK /\ owner # w
  BY <1>1 DEF IInv, LockInv
<1>3. /\ \A v \in Writer : v # w => op'[v] = op[v] /\ size'[v] = size[v] /\ pc'[v] = pc[v]
      /\ op'[w] = op[w] + 1 /\ size'[w] = n /\ op[w] \in Nat
  BY <1>1, <1>2 DEF TypeOK
<1>4. Settled' = Settled
  BY <1>1 DEF Settled
<1>5. BaseInv'
  BY <1>1, <1>2, <1>3 DEF BatchesInv, BaseInv
<1>6. CallsInv'
  <2>1. built[w] = 0
    BY <1>1, <1>2 DEF IInv, LockInv
  <2> QED BY <2>1, <1>1, <1>3 DEF BatchesInv, CallsInv
<1>7. BatchInv'
  BY <1>1, <1>2, <1>3, <1>4 DEF BatchesInv, BatchInv, Ident
<1>8. OpsInv'
  <2>1. Events(Settled) \in Seq(Event)
    BY <1>2, SettledFacts DEF BatchesInv
  <2>2. ASSUME NEW i \in DOMAIN Events(Settled)
        PROVE  /\ Events(Settled)[i].id.op <= op'[Events(Settled)[i].id.by]
               /\ pc'[Events(Settled)[i].id.by] # "idle"
                    => Events(Settled)[i].id.op # op'[Events(Settled)[i].id.by]
    <3>1. PICK id : id = Events(Settled)[i].id
      OBVIOUS
    <3>2. Events(Settled)[i] \in Event
      BY <2>1, LenProperties, ElementOfSeq
    <3>3. id.by \in Writer /\ id.op \in Nat
      BY <3>1, <3>2 DEF Event, Id
    <3>4. id.op <= op[id.by] /\ (pc[id.by] # "idle" => id.op # op[id.by])
      BY <3>1 DEF BatchesInv, OpsInv
    <3>5. CASE id.by = w
      BY <3>1, <3>3, <3>4, <3>5, <1>3
    <3>6. CASE id.by # w
      BY <3>1, <3>3, <3>4, <3>6, <1>3
    <3> QED BY <3>5, <3>6
  <2> QED BY <2>2, <1>4 DEF OpsInv
<1>9. TornInv'
  BY <1>1 DEF BatchesInv, TornInv
<1>10. WholeBatches(Events(Settled), cut)'
  BY <1>1, <1>4 DEF BatchesInv
<1> QED BY <1>5, <1>6, <1>7, <1>8, <1>9, <1>10 DEF BatchesInv

(* A writer that gets the lock finds the whole file settled. *)
LEMMA LockBatches ==
  ASSUME IInv, BatchesInv, NEW w \in Writer, Lock(w)
  PROVE  BatchesInv' /\ Settled' = Settled
<1>1. /\ pc[w] = "waiting" /\ owner = Nobody /\ owner' = w /\ base' = Len(file)
      /\ built' = [built EXCEPT ![w] = 0]
      /\ pc' = [pc EXCEPT ![w] = "building"]
      /\ UNCHANGED <<file, op, size, pending, cut>>
  BY DEF Lock
<1>2. TypeOK /\ w # Nobody /\ file \in Seq(Token) /\ Len(file) \in Nat
  BY EventloomAssumption, LenProperties DEF IInv, TypeOK
<1>3. Settled' = Settled
  BY <1>1, <1>2 DEF Settled
<1>4. /\ built'[w] = 0 /\ pending[w] = <<>>
      /\ \A v \in Writer : v # w => built'[v] = built[v] /\ pc'[v] = pc[v]
  BY <1>1, <1>2 DEF IInv, LockInv, TypeOK
<1>5. BaseInv'
  BY <1>1, <1>2 DEF BaseInv
<1>6. CallsInv'
  <2>1. size[w] \in Nat
    BY <1>2 DEF TypeOK
  <2> QED BY <2>1, <1>1, <1>4 DEF BatchesInv, CallsInv
<1>7. BatchInv'
  <2>1. Settled = file
    BY <1>1, <1>2, SettledIs, SubSeqFull
  <2>2. file \o <<>> = file
    BY <1>2, ConcatEmptySeq
  <2>3. Len(Events(file)) \in Nat
    BY <1>2, EventsAppend, LenProperties
  <2>4. ASSUME NEW v \in Writer, owner' = v
        PROVE  /\ Len(Events(file' \o pending'[v])) = Len(Events(Settled')) + built'[v]
               /\ built'[v] = 0
    <3>1. v = w /\ pending'[v] = <<>> /\ file' = file
      BY <2>4, <1>1, <1>4
    <3>2. file' \o pending'[v] = Settled'
      BY <3>1, <2>1, <2>2, <1>3
    <3> QED BY <3>1, <3>2, <2>1, <2>3, <1>3, <1>4
  <2> QED BY <2>4 DEF BatchInv
<1>8. OpsInv' /\ WholeBatches(Events(Settled), cut)'
  <2>1. \A v \in Writer : pc'[v] # "idle" => pc[v] # "idle"
    BY <1>1, <1>4
  <2> QED BY <2>1, <1>1, <1>2, <1>3, StillSettled
<1>9. TornInv'
  BY <1>1, <1>4, EmptySeq DEF TornInv
<1> QED BY <1>3, <1>5, <1>6, <1>7, <1>8, <1>9 DEF BatchesInv

(* The event built next is the next of its batch. *)
LEMMA BuildBatches ==
  ASSUME IInv, BatchesInv, NEW w \in Writer, Build(w)
  PROVE  BatchesInv' /\ Settled' = Settled
<1> DEFINE e == NextEvent(w)
           b == <<e, Newline>>
<1>1. /\ pc[w] = "building" /\ built[w] < size[w] /\ TailAt(file) >= 0
      /\ pending' = [pending EXCEPT ![w] = pending[w] \o b]
      /\ built' = [built EXCEPT ![w] = built[w] + 1]
      /\ UNCHANGED <<file, owner, pc, op, size, base, cut>>
  BY DEF Build
<1>2. e \in Event /\ e.id = Ident(w, built[w] + 1)
  BY <1>1, NextEventContinues DEF NextEvent, Ident
<1>3. /\ TypeOK /\ owner = w /\ built[w] \in Nat /\ size[w] \in Nat
      /\ file \in Seq(Token) /\ Len(file) \in Nat /\ pending[w] \in Seq(Token)
      /\ file \o pending[w] \in Seq(Token)
  BY <1>1, FileTypes DEF IInv, LockInv, TypeOK
<1>4. /\ b \in Seq(Token) /\ Len(b) = 2 /\ b[1] = e /\ b[2] = Newline
      /\ Events(b) = <<e>> /\ Newline # Torn /\ e # Torn
  <2>0. b \in Seq(Token) /\ Len(b) = 2 /\ b[1] = e /\ b[2] = Newline
    BY <1>2, TokenTypes
  <2>1. Events(<<e>>) = <<e>>
    <3>1. <<e>> = Append(<<>>, e) /\ <<>> \in Seq(Token)
      BY EmptySeq
    <3> QED BY <3>1, <1>2, TokenTypes, EventsAppend
  <2>2. b = Append(<<e>>, Newline) /\ <<e>> \in Seq(Token)
    BY <1>2, TokenTypes
  <2>3. Newline # Torn
    BY DEF Newline, Torn
  <2>4. e # Torn
    BY <1>2, TokenTypes
  <2> QED BY <2>0, <2>1, <2>2, <2>3, <2>4, TokenTypes, EventsAppend
<1> HIDE DEF e, b
<1>5. /\ pending'[w] = pending[w] \o b /\ built'[w] = built[w] + 1
      /\ \A v \in Writer : v # w => pending'[v] = pending[v] /\ built'[v] = built[v]
  BY <1>1, <1>3 DEF TypeOK
<1>6. Settled' = Settled
  BY <1>1 DEF Settled
<1>7. BaseInv'
  BY <1>1, <1>3, <1>5 DEF BatchesInv, BaseInv
<1>8. CallsInv'
  BY <1>1, <1>3, <1>5 DEF BatchesInv, CallsInv
<1>9. BatchInv'
  <2>1. PICK f \in Seq(Token) : f = file \o pending[w]
    BY <1>3
  <2>2. file \o pending'[w] = f \o b
    <3>1. file \o (pending[w] \o b) = (file \o pending[w]) \o b
      BY <1>3, <1>4, TokensAssociative, Zenon
    <3> QED BY <3>1, <2>1, <1>5
  <2>3. PICK all \in Seq(Event) : all = Events(f) /\ Events(f \o b) = all \o <<e>>
    BY <1>4, EventsAppend, EventsConcat DEF Splits
  <2>4. PICK before \in Nat : before = Len(Events(Settled))
    BY <1>3, SettledFacts DEF BatchesInv
  <2>5. Len(all) = before + built[w] /\ \A i \in 1..built[w] : all[before + i].id = Ident(w, i)
    BY <2>1, <2>3, <2>4, <1>3 DEF BatchesInv, BatchInv
  <2>6. /\ Len(all \o <<e>>) = Len(all) + 1 /\ (all \o <<e>>)[Len(all) + 1] = e
        /\ \A i \in 1..Len(all) : (all \o <<e>>)[i] = all[i]
    <3>1. all \o <<e>> = Append(all, e)
      BY <1>2, AppendIsConcat
    <3> QED BY <3>1, <1>2, AppendProperties
  <2>7. ASSUME NEW i \in 1..(built[w] + 1) PROVE (all \o <<e>>)[before + i].id = Ident(w, i)
    <3>1. CASE i = built[w] + 1
      <4>1. before + i = Len(all) + 1
        BY <3>1, <2>5, <1>3
      <4> QED BY <4>1, <3>1, <2>6, <1>2 DEF e
    <3>2. CASE i # built[w] + 1
      <4>1. i \in 1..built[w] /\ before + i \in 1..Len(all)
        BY <3>2, <2>5, <1>3
      <4> QED BY <4>1, <2>5, <2>6
    <3> QED BY <3>1, <3>2
  <2>8. ASSUME NEW v \in Writer, owner' = v
        PROVE  /\ Len(Events(file' \o pending'[v])) = Len(Events(Settled')) + built'[v]
               /\ \A i \in 1..built'[v] :
                    Events(file' \o pending'[v])[Len(Events(Settled')) + i].id = Ident(v, i)'
    <3>1. v = w
      BY <2>8, <1>1, <1>3
    <3>2. Events(file' \o pending'[v]) = all \o <<e>> /\ Len(Events(Settled')) = before
      BY <3>1, <2>2, <2>3, <2>4, <1>1, <1>6
    <3>3. Len(all \o <<e>>) = before + built'[v]
      BY <3>1, <2>5, <2>6, <1>3, <1>5
    <3>4. ASSUME NEW i \in 1..built'[v]
          PROVE  Events(file' \o pending'[v])[before + i].id = Ident(v, i)'
      <4>1. i \in 1..(built[w] + 1)
        BY <3>1, <1>5
      <4>2. (all \o <<e>>)[before + i].id = Ident(w, i)
        BY <4>1, <2>7
      <4>3. Ident(v, i)' = Ident(w, i)
        BY <3>1, <1>1 DEF Ident
      <4> QED BY <4>2, <4>3, <3>2
    <3> QED BY <3>2, <3>3, <3>4
  <2> QED BY <2>8 DEF BatchInv
<1>10. OpsInv' /\ WholeBatches(Events(Settled), cut)'
  BY <1>1, <1>3, <1>6, StillSettled
<1>11. TornInv'
  <2>1. ASSUME NEW i \in DOMAIN pending'[w] PROVE pending'[w][i] # Torn
    <3>1. PICK p \in Seq(Token) : p = pending[w]
      BY <1>3
    <3>2. PICK q : q = p \o b
      OBVIOUS
    <3>3. /\ Len(p) \in Nat /\ DOMAIN p = 1..Len(p)
          /\ q \in Seq(Token) /\ Len(q) = Len(p) + 2
          /\ \A j \in 1..Len(p) : q[j] = p[j]
          /\ q[Len(p) + 1] = b[1] /\ q[Len(p) + 2] = b[2]
      <4>1. Len(p) \in Nat /\ DOMAIN p = 1..Len(p)
        BY LenProperties
      <4>2. /\ q \in Seq(Token) /\ Len(q) = Len(p) + Len(b)
            /\ \A j \in 1..(Len(p) + Len(b)) : q[j] = IF j <= Len(p) THEN p[j] ELSE b[j - Len(p)]
        BY <3>2, <1>4, ConcatProperties
      <4>3. Len(p) + 1 \in 1..(Len(p) + 2) /\ Len(p) + 2 \in 1..(Len(p) + 2)
        BY <4>1
      <4>4. q[Len(p) + 1] = b[(Len(p) + 1) - Len(p)] /\ q[Len(p) + 2] = b[(Len(p) + 2) - Len(p)]
        BY <4>1, <4>2, <4>3, <1>4
      <4>5. (Len(p) + 1) - Len(p) = 1 /\ (Len(p) + 2) - Len(p) = 2
        BY <4>1
      <4> QED BY <4>1, <4>2, <4>4, <4>5, <1>4
    <3>4. DOMAIN q = 1..(Len(p) + 2)
      BY <3>3, LenProperties
    <3>5. \A j \in 1..Len(p) : p[j] # Torn
      BY <3>1, <3>3, <1>3 DEF BatchesInv, TornInv
    <3>6. i \in 1..(Len(p) + 2) /\ pending'[w][i] = q[i]
      BY <3>1, <3>2, <3>4, <1>5
    <3>7. CASE i \in 1..Len(p)
      BY <3>3, <3>5, <3>6, <3>7
    <3>8. CASE i = Len(p) + 1
      BY <3>3, <3>6, <3>8, <1>4
    <3>9. CASE i = Len(p) + 2
      BY <3>3, <3>6, <3>9, <1>4
    <3> QED BY <3>3, <3>6, <3>7, <3>8, <3>9
  <2>2. ~ (file # <<>> /\ file[Len(file)] = Torn)
    <3>1. SUFFICES ASSUME file # <<>>, file[Len(file)] = Torn PROVE TailAt(file) = -1
      BY <1>1
    <3>2. Torn # Newline /\ ~ IsEvent(Torn) /\ Len(file) # 0
      BY <3>1, <1>3, TokenTypes, EmptySeq DEF Newline, Torn
    <3> QED BY <3>1, <3>2, <1>3 DEF TailAt
  <2> QED BY <2>1, <2>2, <1>1, <1>3 DEF TornInv
<1> QED BY <1>6, <1>7, <1>8, <1>9, <1>10, <1>11 DEF BatchesInv

(* A part of the batch handed to the file is not settled yet. *)
LEMMA WriteBatches ==
  ASSUME IInv, BatchesInv, NEW w \in Writer, NEW k \in 1..Len(pending[w]), Write(w, k)
  PROVE  BatchesInv' /\ Settled' = Settled
<1> DEFINE done == SubSeq(pending[w], 1, k)
           rest == SubSeq(pending[w], k + 1, Len(pending[w]))
<1>1. /\ pc[w] = "building" /\ built[w] = size[w]
      /\ file' = file \o done
      /\ pending' = [pending EXCEPT ![w] = rest]
      /\ UNCHANGED <<owner, pc, op, size, built, base, cut>>
  BY DEF Write
<1>2. /\ TypeOK /\ owner = w /\ w # Nobody
      /\ file \in Seq(Token) /\ Len(file) \in Nat
      /\ pending[w] \in Seq(Token) /\ Len(pending[w]) \in Nat
      /\ base \in 0..Len(file)
  BY <1>1, FileTypes, EventloomAssumption DEF IInv, LockInv, BatchesInv, BaseInv
<1>3. /\ done \in Seq(Token) /\ rest \in Seq(Token)
      /\ file' \in Seq(Token)
      /\ file' \o rest = file \o pending[w]
  <2>1. k \in 0..Len(pending[w])
    BY <1>2
  <2> QED BY <1>1, <1>2, <2>1, Handed
<1>4. /\ Len(done) = k /\ \A i \in 1..k : done[i] = pending[w][i]
      /\ Len(rest) = Len(pending[w]) - k
      /\ \A i \in 1..(Len(pending[w]) - k) : rest[i] = pending[w][k + i]
  <2>1. \A i \in 1..Len(pending[w]) : pending[w][i] \in Token
    BY <1>2, ElementOfSeq
  <2>2. k \in 1..Len(pending[w]) /\ k \in Int /\ 1 \in Int /\ k + 1 \in Int /\ Len(pending[w]) \in Int
    BY <1>2
  <2>3. \A i \in 1..k : pending[w][i] \in Token
    BY <2>1, <2>2
  <2>4. \A i \in (k + 1)..Len(pending[w]) : pending[w][i] \in Token
    BY <2>1, <2>2
  <2>5. Len(done) = k /\ \A i \in 1..k : done[i] = pending[w][1 + i - 1]
    BY <2>2, <2>3, SubSeqProperties
  <2>6. /\ Len(rest) = IF k + 1 <= Len(pending[w]) THEN Len(pending[w]) - (k + 1) + 1 ELSE 0
        /\ \A i \in 1..(Len(pending[w]) - (k + 1) + 1) : rest[i] = pending[w][k + 1 + i - 1]
    BY <2>2, <2>4, SubSeqProperties
  <2> HIDE DEF done, rest
  <2>7. \A i \in 1..k : 1 + i - 1 = i
    OBVIOUS
  <2>8. Len(pending[w]) - (k + 1) + 1 = Len(pending[w]) - k
    BY <2>2
  <2>9. \A i \in 1..(Len(pending[w]) - k) : k + 1 + i - 1 = k + i
    BY <2>2
  <2> QED BY <2>2, <2>5, <2>6, <2>7, <2>8, <2>9
<1> HIDE DEF done, rest
<1>5. pending'[w] = rest
  BY <1>1, <1>2 DEF TypeOK
<1>6. Settled' = Settled
  <2>1. Settled' = SubSeq(file', 1, base)
    BY <1>1, <1>2 DEF Settled
  <2>2. Settled = SubSeq(file, 1, base)
    BY <1>2, SettledIs
  <2> QED BY <2>1, <2>2, <1>1, <1>2, <1>3, PrefixKept
<1>7. Len(file') = Len(file) + k
  BY <1>1, <1>2, <1>3, <1>4, ConcatProperties
<1>8. BaseInv'
  <2>1. built[w] \in Nat
    BY <1>2 DEF TypeOK
  <2> QED BY <2>1, <1>1, <1>2, <1>7 DEF BaseInv
<1>9. CallsInv'
  BY <1>1 DEF BatchesInv, CallsInv
<1>10. BatchInv'
  <2>1. ASSUME NEW v \in Writer, owner' = v
        PROVE  /\ Len(Events(file' \o pending'[v])) = Len(Events(Settled')) + built'[v]
               /\ \A i \in 1..built'[v] :
                    Events(file' \o pending'[v])[Len(Events(Settled')) + i].id = Ident(v, i)'
    <3>1. v = w /\ file' \o pending'[v] = file \o pending[w]
      BY <2>1, <1>1, <1>2, <1>3, <1>5
    <3>2. /\ Len(Events(file \o pending[w])) = Len(Events(Settled)) + built[w]
          /\ \A i \in 1..built[w] :
               Events(file \o pending[w])[Len(Events(Settled)) + i].id = Ident(w, i)
      BY <1>2 DEF BatchesInv, BatchInv
    <3>3. \A i \in 1..built[w] : Ident(v, i)' = Ident(w, i)
      BY <3>1, <1>1 DEF Ident
    <3> QED BY <3>1, <3>2, <3>3, <1>1, <1>6
  <2> QED BY <2>1 DEF BatchInv
<1>11. OpsInv' /\ WholeBatches(Events(Settled), cut)'
  BY <1>1, <1>2, <1>6, StillSettled
<1>12. TornInv'
  <2>1. \A i \in 1..Len(pending[w]) : pending[w][i] # Torn
    BY <1>2, LenProperties DEF BatchesInv, TornInv
  <2>2. DOMAIN rest = 1..(Len(pending[w]) - k)
    BY <1>3, <1>4, LenProperties
  <2>3. ASSUME NEW i \in DOMAIN rest PROVE rest[i] # Torn
    <3>1. k + i \in 1..Len(pending[w])
      BY <2>2, <1>2
    <3> QED BY <3>1, <2>1, <2>2, <1>4
  <2>4. file'[Len(file')] # Torn
    <3>1. Len(file') \in 1..(Len(file) + Len(done)) /\ ~ (Len(file') <= Len(file))
          /\ Len(file') - Len(file) = k /\ k \in 1..k
      BY <1>2, <1>4, <1>7
    <3>2. file'[Len(file')] = done[k]
      BY <3>1, <1>1, <1>2, <1>3, ConcatProperties
    <3>3. k \in 1..Len(pending[w]) /\ done[k] = pending[w][k]
      BY <3>1, <1>4
    <3> QED BY <2>1, <3>2, <3>3
  <2> QED BY <2>3, <2>4, <1>1, <1>2, <1>5 DEF TornInv
<1> QED BY <1>6, <1>8, <1>9, <1>10, <1>11, <1>12 DEF BatchesInv

(* The identity of another item of a batch. *)
LEMMA OtherItem ==
  ASSUME NEW a, NEW b, NEW c, NEW d, NEW k
  PROVE  [[by |-> a, op |-> b, idx |-> c, of |-> d] EXCEPT !.idx = k]
           = [by |-> a, op |-> b, idx |-> k, of |-> d]
OBVIOUS

(* A call that ends settles what it wrote: nothing, the whole of its batch,  *)
(* or, if it was cut, a part of it.                                        *)
LEMMA LeaveBatches ==
  ASSUME IInv, BatchesInv, NEW w \in Writer, owner = w, Leave(w), op' = op,
         NEW more \in Seq(Token), file' = file \o more,
         NEW rest \in Seq(Token), Events(file \o pending[w]) = Events(file') \o Events(rest),
         cut \subseteq cut',
         \/ <<w, op[w]>> \in cut'
         \/ Events(file') = Events(Settled)
         \/ Events(rest) = <<>> /\ built[w] = size[w]
  PROVE  BatchesInv' /\ Settled' = file'
<1>1. /\ owner' = Nobody
      /\ pc' = [pc EXCEPT ![w] = "idle"]
      /\ size' = [size EXCEPT ![w] = 0]
      /\ built' = [built EXCEPT ![w] = 0]
  BY DEF Leave
<1>2. /\ TypeOK /\ file \in Seq(Token) /\ file \o more \in Seq(Token)
      /\ built[w] \in Nat /\ size[w] \in Nat
  BY ConcatProperties DEF IInv, TypeOK
<1>3. Settled' = file'
  <2>1. Settled' = SubSeq(file', 1, Len(file'))
    BY <1>1 DEF Settled
  <2> QED BY <2>1, <1>2, SubSeqFull
<1>4. /\ pc'[w] = "idle"
      /\ \A v \in Writer : v # w => pc'[v] = pc[v] /\ size'[v] = size[v] /\ built'[v] = built[v]
  BY <1>1, <1>2 DEF TypeOK
<1>5. BaseInv' /\ BatchInv' /\ TornInv'
  <2>1. \A v \in Writer : owner' # v
    BY <1>1, EventloomAssumption
  <2> QED BY <2>1 DEF BaseInv, BatchInv, TornInv
<1>6. CallsInv'
  BY <1>4 DEF BatchesInv, CallsInv
<1>7. PICK es \in Seq(Event) : es = Events(Settled) /\ Len(es) \in Nat /\ DOMAIN es = 1..Len(es)
  BY <1>2, SettledFacts, LenProperties DEF BatchesInv
<1>8. PICK fe \in Seq(Event) : fe = Events(file') /\ Len(fe) \in Nat /\ DOMAIN fe = 1..Len(fe)
  BY <1>2, EventsAppend, LenProperties
<1>9. Len(es) <= Len(fe) /\ \A i \in 1..Len(es) : fe[i] = es[i]
  <2>1. PICK m \in Seq(Token) : file = Settled \o m
    BY <1>2, SettledFacts DEF BatchesInv
  <2>2. Settled \in Seq(Token) /\ m \o more \in Seq(Token)
    BY <1>2, SettledFacts, ConcatProperties DEF BatchesInv
  <2>3. file' = Settled \o (m \o more)
    <3>1. Settled \o (m \o more) = (Settled \o m) \o more
      BY <2>1, <2>2, TokensAssociative, Zenon
    <3> QED BY <3>1, <2>1
  <2>4. PICK g \in Seq(Token) : g = m \o more
    BY <2>2
  <2>5. /\ Len(Events(Settled \o g)) = Len(Events(Settled)) + Len(Events(g))
        /\ Len(Events(g)) \in Nat
        /\ \A i \in 1..Len(Events(Settled)) : Events(Settled \o g)[i] = Events(Settled)[i]
    BY <2>2, EventsGrow
  <2> QED BY <2>3, <2>4, <2>5, <1>7, <1>8
<1>10. PICK all \in Seq(Event) : all = Events(file \o pending[w]) /\ all = fe \o Events(rest)
  <2>1. file \o pending[w] \in Seq(Token)
    BY <1>2, FileTypes
  <2> QED BY <2>1, <1>8, EventsAppend
<1>11. PICK re \in Seq(Event) : re = Events(rest) /\ Len(re) \in Nat
  BY EventsAppend, LenProperties
<1>12. /\ Len(all) = Len(fe) + Len(re)
       /\ \A i \in 1..Len(fe) : all[i] = fe[i]
  BY <1>8, <1>10, <1>11, ConcatProperties
<1>13. Len(all) = Len(es) + built[w] /\ \A i \in 1..built[w] : all[Len(es) + i].id = Ident(w, i)
  BY <1>7, <1>10 DEF BatchesInv, BatchInv
<1>14. ASSUME NEW i \in 1..Len(fe), i \notin 1..Len(es)
       PROVE  i - Len(es) \in 1..built[w] /\ fe[i].id = Ident(w, i - Len(es))
  <2>1. i - Len(es) \in 1..built[w] /\ Len(es) + (i - Len(es)) = i /\ all[i] = fe[i]
    <3>1. PICK n \in Nat : n = Len(es)
      BY <1>7
    <3>2. PICK m \in Nat : m = Len(fe)
      BY <1>8
    <3>3. PICK b \in Nat : b = built[w]
      BY <1>2
    <3>4. PICK c \in Nat : c = Len(re)
      BY <1>11
    <3>5. m + c = n + b
      BY <3>1, <3>2, <3>3, <3>4, <1>12, <1>13
    <3>6. i \in 1..m /\ i \notin 1..n
      BY <3>1, <3>2, <1>14
    <3>7. i - n \in 1..b /\ n + (i - n) = i
      BY <3>5, <3>6
    <3> QED BY <3>1, <3>3, <3>7, <1>12
  <2>2. all[Len(es) + (i - Len(es))].id = Ident(w, i - Len(es))
    BY <2>1, <1>13
  <2> QED BY <2>1, <2>2
<1>15. OpsInv'
  <2>1. ASSUME NEW i \in 1..Len(fe)
        PROVE  /\ fe[i].id.op <= op[fe[i].id.by]
               /\ pc'[fe[i].id.by] # "idle" => fe[i].id.op # op[fe[i].id.by]
    <3>1. CASE i \in 1..Len(es)
      <4>1. PICK id : id = fe[i].id /\ id = es[i].id
        BY <3>1, <1>9
      <4>2. id.by \in Writer
        <5>1. es[i] \in Event
          BY <3>1, ElementOfSeq
        <5> QED BY <4>1, <5>1 DEF Event, Id
      <4>3. id.op <= op[id.by] /\ (pc[id.by] # "idle" => id.op # op[id.by])
        BY <3>1, <4>1, <1>7 DEF BatchesInv, OpsInv
      <4>4. pc'[id.by] # "idle" => pc[id.by] # "idle"
        BY <4>2, <1>4
      <4> QED BY <4>1, <4>3, <4>4
    <3>2. CASE i \notin 1..Len(es)
      <4>0. fe[i].id = Ident(w, i - Len(es))
        BY <3>2, <1>14
      <4>1. fe[i].id.by = w /\ fe[i].id.op = op[w]
        BY <4>0 DEF Ident
      <4>2. op[w] \in Nat
        BY <1>2 DEF TypeOK
      <4> QED BY <4>1, <4>2, <1>4
    <3> QED BY <3>1, <3>2
  <2>2. Events(Settled)' = fe
    BY <1>3, <1>8
  <2> QED BY <2>1, <2>2, <1>8 DEF OpsInv
<1>16. WholeBatches(fe, cut')
  <2>1. ASSUME NEW i \in 1..Len(fe)
        PROVE  \/ <<fe[i].id.by, fe[i].id.op>> \in cut'
               \/ \A k \in 1..fe[i].id.of :
                    \E j \in 1..Len(fe) : fe[j].id = [fe[i].id EXCEPT !.idx = k]
    <3>1. CASE i \in 1..Len(es)
      <4>1. \/ <<es[i].id.by, es[i].id.op>> \in cut
            \/ \A k \in 1..es[i].id.of :
                 \E j \in 1..Len(es) : es[j].id = [es[i].id EXCEPT !.idx = k]
        BY <3>1, <1>7 DEF BatchesInv, WholeBatches
      <4>2. \A j \in 1..Len(es) : j \in 1..Len(fe)
        BY <1>7, <1>8, <1>9
      <4> QED BY <3>1, <4>1, <4>2, <1>9
    <3>2. CASE i \notin 1..Len(es)
      <4>1. fe[i].id = Ident(w, i - Len(es))
        BY <3>2, <1>14
      <4>2. /\ fe[i].id.by = w /\ fe[i].id.op = op[w] /\ fe[i].id.of = size[w]
            /\ \A k : [fe[i].id EXCEPT !.idx = k] = Ident(w, k)
        <5>1. PICK id : id = fe[i].id
          OBVIOUS
        <5>2. id = [by |-> w, op |-> op[w], idx |-> i - Len(es), of |-> size[w]]
          BY <5>1, <4>1 DEF Ident
        <5>3. id.by = w /\ id.op = op[w] /\ id.of = size[w]
          BY ONLY <5>2
        <5>4. ASSUME NEW k PROVE [id EXCEPT !.idx = k] = Ident(w, k)
          BY <5>2, OtherItem DEF Ident
        <5> QED BY <5>1, <5>3, <5>4
      <4>3. CASE <<w, op[w]>> \in cut'
        <5>1. <<fe[i].id.by, fe[i].id.op>> \in cut'
          BY <4>2, <4>3
        <5> QED BY <5>1
      <4>4. CASE Events(file') = Events(Settled)
        BY <4>4, <3>2, <1>7, <1>8
      <4>5. CASE Events(rest) = <<>> /\ built[w] = size[w]
        <5>1. Len(fe) = Len(es) + size[w]
          <6>1. Len(re) = 0
            BY <4>5, <1>11, EmptySeq
          <6> QED BY <6>1, <4>5, <1>8, <1>12, <1>13
        <5>2. ASSUME NEW k \in 1..size[w] PROVE \E j \in 1..Len(fe) : fe[j].id = Ident(w, k)
          <6>1. Len(es) + k \in 1..Len(fe)
            <7>1. PICK n \in Nat : n = Len(es)
              BY <1>7
            <7>2. PICK c \in Nat : c = size[w]
              BY <1>2
            <7>3. n + k \in 1..(n + c) /\ k \in 1..c
              BY <7>1, <7>2
            <7> QED BY <7>1, <7>2, <7>3, <5>1
          <6>2. PICK j \in 1..Len(fe) : j = Len(es) + k
            BY <6>1
          <6>3. all[j] = fe[j]
            BY <1>12
          <6>4. k \in 1..built[w]
            BY <4>5
          <6>5. all[Len(es) + k].id = Ident(w, k)
            BY <6>4, <1>13
          <6> QED BY <6>2, <6>3, <6>5
        <5>3. ASSUME NEW k \in 1..fe[i].id.of
              PROVE  \E j \in 1..Len(fe) : fe[j].id = [fe[i].id EXCEPT !.idx = k]
          <6>1. k \in 1..size[w] /\ [fe[i].id EXCEPT !.idx = k] = Ident(w, k)
            BY <4>2
          <6> QED BY <6>1, <5>2
        <5> QED BY <5>3
      <4> QED BY <4>3, <4>4, <4>5
    <3> QED BY <3>1, <3>2
  <2>2. DOMAIN fe = 1..Len(fe)
    BY <1>8
  <2> QED BY <2>1, <2>2 DEF WholeBatches
<1>17. WholeBatches(Events(Settled), cut)'
  BY <1>3, <1>8, <1>16
<1> QED BY <1>3, <1>5, <1>6, <1>15, <1>17 DEF BatchesInv

(* A refused call has written nothing. *)
LEMMA RefuseBatches ==
  ASSUME IInv, BatchesInv, NEW w \in Writer, Refuse(w)
  PROVE  BatchesInv' /\ Settled' = Settled
<1>1. /\ Leave(w) /\ UNCHANGED <<file, op, cut>>
      /\ pc[w] = "building" /\ built[w] < size[w]
  BY DEF Refuse
<1>2. /\ TypeOK /\ owner = w /\ w # Nobody /\ base = Len(file)
      /\ file \in Seq(Token) /\ pending[w] \in Seq(Token) /\ <<>> \in Seq(Token)
  BY <1>1, EventloomAssumption, EmptySeq DEF IInv, LockInv, TypeOK, BatchesInv, BaseInv
<1>3. Settled = file
  BY <1>2, SettledIs, SubSeqFull
<1>4. file' = file \o <<>>
  BY <1>1, <1>2, ConcatEmptySeq
<1>5. Events(file \o pending[w]) = Events(file') \o Events(pending[w])
  BY <1>1, <1>2, EventsConcat DEF Splits
<1>6. BatchesInv' /\ Settled' = file'
  BY <1>1, <1>2, <1>3, <1>4, <1>5, LeaveBatches
<1> QED BY <1>1, <1>3, <1>6

(* A call that returns has written the whole of its batch. *)
LEMMA ReturnBatches ==
  ASSUME IInv, BatchesInv, NEW w \in Writer, Return(w)
  PROVE  BatchesInv' /\ Settled' = file /\ owner = w
<1>1. /\ Leave(w) /\ UNCHANGED <<file, op, cut>>
      /\ pc[w] = "building" /\ built[w] = size[w] /\ pending[w] = <<>>
  BY DEF Return
<1>2. /\ owner = w /\ file \in Seq(Token) /\ <<>> \in Seq(Token)
  BY <1>1, EmptySeq DEF IInv, LockInv, TypeOK
<1>3. file' = file \o <<>>
  BY <1>1, <1>2, ConcatEmptySeq
<1>4. Events(file \o pending[w]) = Events(file') \o Events(<<>>)
  BY <1>1, <1>2, EventsConcat DEF Splits
<1>5. Events(<<>>) = <<>>
  BY EventsAppend
<1>6. BatchesInv' /\ Settled' = file'
  BY <1>1, <1>2, <1>3, <1>4, <1>5, LeaveBatches
<1> QED BY <1>1, <1>2, <1>6

(* A process that dies while it waits for the lock leaves nothing. *)
LEMMA WaiterBatches ==
  ASSUME IInv, BatchesInv, NEW w \in Writer, Leave(w), owner # w, UNCHANGED <<file, op, cut>>
  PROVE  BatchesInv' /\ Settled' = Settled
<1>1. /\ owner' = owner /\ base' = base
      /\ pc' = [pc EXCEPT ![w] = "idle"]
      /\ size' = [size EXCEPT ![w] = 0]
      /\ built' = [built EXCEPT ![w] = 0]
      /\ pending' = [pending EXCEPT ![w] = <<>>]
  BY DEF Leave
<1>2. /\ TypeOK
      /\ \A v \in Writer : v # w => /\ pc'[v] = pc[v] /\ size'[v] = size[v]
                                    /\ built'[v] = built[v] /\ pending'[v] = pending[v]
      /\ pc'[w] = "idle"
  BY <1>1 DEF IInv, TypeOK
<1>3. Settled' = Settled
  BY <1>1 DEF Settled
<1>4. \A v \in Writer : owner' = v => v # w
  BY <1>1
<1>5. BaseInv'
  BY <1>1, <1>2, <1>4 DEF BatchesInv, BaseInv
<1>6. CallsInv'
  BY <1>2 DEF BatchesInv, CallsInv
<1>7. BatchInv'
  BY <1>1, <1>2, <1>3, <1>4 DEF BatchesInv, BatchInv, Ident
<1>8. OpsInv' /\ WholeBatches(Events(Settled), cut)'
  <2>1. \A v \in Writer : pc'[v] # "idle" => pc[v] # "idle"
    BY <1>2
  <2> QED BY <2>1, <1>2, <1>3, StillSettled
<1>9. TornInv'
  BY <1>1, <1>2, <1>4 DEF BatchesInv, TornInv
<1> QED BY <1>3, <1>5, <1>6, <1>7, <1>8, <1>9 DEF BatchesInv

(* A crash leaves nothing of a batch, the whole of it, or a call that is cut. *)
LEMMA CrashBatches ==
  ASSUME IInv, BatchesInv, NEW w \in Writer, NEW k \in 0..Len(pending[w]), NEW torn \in BOOLEAN,
         Crash(w, k, torn)
  PROVE  /\ BatchesInv' /\ cut \subseteq cut'
         /\ Settled' = Settled \/ (owner = w /\ Settled' = file')
         /\ \E more \in Seq(Token) : file' = file \o more
<1> DEFINE done == SubSeq(pending[w], 1, k)
           rest == SubSeq(pending[w], k + 1, Len(pending[w]))
           t == IF torn THEN <<Torn>> ELSE <<>>
<1>1. /\ Leave(w) /\ UNCHANGED <<op, acked>>
      /\ pc[w] # "idle"
      /\ k > 0 \/ torn => built[w] = size[w]
      /\ torn => k < Len(pending[w])
      /\ file' = (file \o done) \o t
      /\ cut' = IF owner = w /\ k < Len(pending[w]) /\ Len(file') > base
                  THEN cut \cup {<<w, op[w]>>}
                  ELSE cut
  BY DEF Crash
<1>2. /\ TypeOK /\ file \in Seq(Token) /\ Len(file) \in Nat
      /\ pending[w] \in Seq(Token) /\ Len(pending[w]) \in Nat
  BY FileTypes DEF IInv
<1>3. /\ done \in Seq(Token) /\ rest \in Seq(Token)
      /\ file \o done \in Seq(Token)
      /\ (file \o done) \o rest = file \o pending[w]
  BY <1>2, Handed
<1>4. t \in Seq(Token) /\ Events(t) = <<>>
  <2>1. Events(<<>>) = <<>> /\ <<>> \in Seq(Token)
    BY EmptySeq, EventsAppend
  <2>2. <<Torn>> = Append(<<>>, Torn)
    OBVIOUS
  <2>3. Append(<<>>, Torn) \in Seq(Token) /\ Events(Append(<<>>, Torn)) = <<>>
    BY <2>1, TokenTypes, EventsAppend, AppendProperties
  <2> QED BY <2>1, <2>2, <2>3
<1>5. k = 0 => done = <<>>
  BY SubSeqEmpty
<1>6. k = Len(pending[w]) => rest = <<>> /\ t = <<>>
  BY <1>1, <1>2, SubSeqEmpty
<1> HIDE DEF done, rest, t
<1>7. PICK more \in Seq(Token) : more = done \o t /\ file' = file \o more
  <2>1. done \o t \in Seq(Token)
    BY <1>3, <1>4, ConcatProperties
  <2>2. file \o (done \o t) = (file \o done) \o t
    BY <1>2, <1>3, <1>4, TokensAssociative, Zenon
  <2> QED BY <2>1, <2>2, <1>1
<1>8. Events(file') = Events(file \o done)
  <2>1. PICK f \in Seq(Token) : f = file \o done
    BY <1>3
  <2>2. Events(f \o t) = Events(f) \o <<>> /\ Events(f) \in Seq(Event)
    BY <1>4, EventsConcat, EventsAppend DEF Splits
  <2>3. Events(f) \o <<>> = Events(f)
    BY <2>2, ConcatEmptySeq
  <2> QED BY <2>1, <2>2, <2>3, <1>1
<1>9. Events(file \o pending[w]) = Events(file') \o Events(rest)
  <2>1. PICK f \in Seq(Token) : f = file \o done
    BY <1>3
  <2>2. Events(f \o rest) = Events(f) \o Events(rest)
    BY <1>3, EventsConcat DEF Splits
  <2> QED BY <2>1, <2>2, <1>3, <1>8
<1>10. cut \subseteq cut'
  BY <1>1
<1>11. CASE owner = w
  <2>1. base \in 0..Len(file) /\ (built[w] < size[w] => base = Len(file))
    BY <1>11 DEF BatchesInv, BaseInv
  <2>2. ASSUME k < Len(pending[w]) /\ Len(file') > base PROVE BatchesInv' /\ Settled' = file'
    <3>1. <<w, op[w]>> \in cut'
      BY <2>2, <1>1, <1>11
    <3> QED BY <3>1, <1>1, <1>3, <1>7, <1>9, <1>10, <1>11, LeaveBatches
  <2>3. ASSUME ~ (Len(file') > base) PROVE BatchesInv' /\ Settled' = file'
    <3>1. Len(file') = Len(file) + Len(more) /\ Len(more) \in Nat
      BY <1>2, <1>7, ConcatProperties, LenProperties
    <3>2. Len(more) = 0 /\ base = Len(file)
      BY <3>1, <2>1, <2>3, <1>2
    <3>3. file' = file
      BY <3>2, <1>2, <1>7, EmptySeq, ConcatEmptySeq
    <3>4. owner # Nobody
      BY <1>11, EventloomAssumption
    <3>5. Settled = file
      BY <3>2, <3>4, <1>2, SettledIs, SubSeqFull
    <3>6. Events(file') = Events(Settled)
      BY <3>3, <3>5
    <3> QED BY <3>6, <1>1, <1>3, <1>7, <1>9, <1>10, <1>11, LeaveBatches
  <2>4. ASSUME ~ (k < Len(pending[w])) PROVE BatchesInv' /\ Settled' = file'
    <3>1. k = Len(pending[w])
      BY <2>4, <1>2
    <3>2. rest = <<>> /\ t = <<>> /\ Events(rest) = <<>>
      BY <3>1, <1>6, EventsAppend
    <3>3. CASE built[w] = size[w]
      BY <3>2, <3>3, <1>1, <1>3, <1>7, <1>9, <1>10, <1>11, LeaveBatches
    <3>4. CASE built[w] # size[w]
      <4>1. k = 0 /\ built[w] < size[w]
        <5>1. built[w] <= size[w] /\ built[w] \in Nat /\ size[w] \in Nat
          BY <1>1, <1>2 DEF BatchesInv, CallsInv, TypeOK
        <5> QED BY <5>1, <3>4, <1>1, <1>2
      <4>2. file' = file
        <5>1. file \o <<>> = file
          BY <1>2, ConcatEmptySeq
        <5> QED BY <5>1, <4>1, <3>2, <1>1, <1>5
      <4>3. owner # Nobody
        BY <1>11, EventloomAssumption
      <4>4. Settled = file
        BY <4>1, <4>3, <2>1, <1>2, SettledIs, SubSeqFull
      <4>5. Events(file') = Events(Settled)
        BY <4>2, <4>4
      <4> QED BY <4>5, <1>1, <1>3, <1>7, <1>9, <1>10, <1>11, LeaveBatches
    <3> QED BY <3>3, <3>4
  <2>5. BatchesInv' /\ Settled' = file'
    BY <2>2, <2>3, <2>4
  <2> QED BY <2>5, <1>7, <1>10, <1>11
<1>12. CASE owner # w
  <2>1. pending[w] = <<>>
    BY <1>12 DEF IInv, LockInv
  <2>2. k = 0 /\ Len(pending[w]) = 0
    BY <2>1, <1>2, EmptySeq
  <2>3. done = <<>> /\ t = <<>> /\ file \o <<>> = file
    BY <2>2, <1>2, <1>5, <1>6, ConcatEmptySeq
  <2>4. file' = file /\ cut' = cut
    BY <2>3, <1>1, <1>12
  <2>5. BatchesInv' /\ Settled' = Settled
    BY <2>4, <1>1, <1>12, WaiterBatches
  <2> QED BY <2>5, <1>7, <1>10
<1> QED BY <1>11, <1>12

(* A read leaves everything of the writers as it is. *)
LEMMA ReadBatches ==
  ASSUME BatchesInv, UNCHANGED writerVars
  PROVE  BatchesInv' /\ Settled' = Settled
<1>1. /\ UNCHANGED <<file, owner, pc, op, size>>
      /\ UNCHANGED <<built, pending, base, cut>>
  BY DEF writerVars
<1>2. Settled' = Settled
  BY <1>1 DEF Settled
<1>3. BaseInv' /\ CallsInv' /\ TornInv'
  BY <1>1 DEF BatchesInv, BaseInv, CallsInv, TornInv
<1>4. BatchInv'
  BY <1>1, <1>2 DEF BatchesInv, BatchInv, Ident
<1>5. OpsInv'
  BY <1>1, <1>2 DEF BatchesInv, OpsInv
<1>6. WholeBatches(Events(Settled), cut)'
  BY <1>1, <1>2 DEF BatchesInv
<1> QED BY <1>2, <1>3, <1>4, <1>5, <1>6 DEF BatchesInv

(* An earlier state of the log stays one when the log grows. *)
LEMMA EarlierKept ==
  ASSUME NEW f \in Seq(Token), NEW log \in Seq(Token), NEW dead, Earlier(f, log, dead),
         NEW g \in Seq(Token), NEW more, dead \subseteq more
  PROVE  Earlier(f, log \o g, more)
<1>1. /\ Len(f) \in Nat /\ Len(log) \in Nat /\ Len(g) \in Nat
      /\ Len(log \o g) = Len(log) + Len(g)
  BY LenProperties, ConcatProperties
<1>2. Len(f) \in 0..Len(log)
  BY <1>1 DEF Earlier
<1>3. f = SubSeq(log \o g, 1, Len(f))
  BY <1>2, PrefixKept DEF Earlier
<1>4. Events(f) \in Seq(Event) /\ WholeBatches(Events(f), dead)
  BY EventsAppend DEF Earlier
<1>5. WholeBatches(Events(f), more)
  BY <1>4, WholeKept
<1> QED BY <1>1, <1>2, <1>3, <1>5 DEF Earlier

(* The log as it is when nobody writes is a state of it that readers may see. *)
LEMMA NowIsEarlier ==
  ASSUME TypeOK, BatchesInv, CanRead
  PROVE  Earlier(file, file, cut)
<1>1. file \in Seq(Token) /\ Len(file) \in Nat
  BY LenProperties DEF TypeOK
<1>2. Settled = file
  BY <1>1, SettledIs, SubSeqFull DEF CanRead
<1>3. SubSeq(file, 1, Len(file)) = file
  BY <1>1, SubSeqFull
<1> QED BY <1>1, <1>2, <1>3 DEF Earlier, BatchesInv

(* When the log grows, what the readers have read stays an earlier state of it. *)
LEMMA GrowReaders ==
  ASSUME TypeOK, ReadersInv, UNCHANGED readerVars,
         NEW more \in Seq(Token), file' = file \o more, cut \subseteq cut'
  PROVE  ReadersInv'
<1>1. UNCHANGED <<replaying, report, cursor, seen>>
  BY DEF readerVars
<1>2. ASSUME NEW r \in Reader
      PROVE  /\ replaying[r] \in Seq(Token) /\ seen[r] \in Seq(Token)
             /\ report[r].events \in Seq(Token) /\ report[r].verified \in Seq(Token)
             /\ file \in Seq(Token)
  BY DEF TypeOK
<1>3. ASSUME NEW r \in Reader PROVE ReaderInv(r)'
  <2>1. ReaderInv(r)
    BY DEF ReadersInv
  <2>2. /\ Earlier(replaying[r], file', cut') /\ Earlier(seen[r], file', cut')
        /\ Earlier(report[r].events, file', cut') /\ Earlier(report[r].verified, file', cut')
    BY <2>1, <1>2, EarlierKept DEF ReaderInv
  <2> QED BY <2>1, <2>2, <1>1 DEF ReaderInv
<1> QED BY <1>3 DEF ReadersInv

(* Each read, made under the lock, reads a settled log. *)
LEMMA ReadReaders ==
  ASSUME IInv, BatchesInv, ReadersInv, NEW r \in Reader,
         ReplayEvents(r) \/ ReplayVerify(r) \/ Follow(r)
  PROVE  ReadersInv'
<1>1. /\ TypeOK /\ file \in Seq(Token) /\ Len(file) \in Nat
      /\ CanRead /\ Earlier(file, file, cut)
  <2>1. TypeOK /\ CanRead
    BY DEF IInv, ReplayEvents, ReplayVerify, Follow
  <2> QED BY <2>1, NowIsEarlier, LenProperties DEF TypeOK
<1>2. file' = file /\ cut' = cut
  BY DEF ReplayEvents, ReplayVerify, Follow, writerVars
<1>3. ReaderInv(r) /\ \A q \in Reader : ReaderInv(q)
  BY DEF ReadersInv
<1>4. Earlier(<<>>, file, cut)
  <2>1. Len(<<>>) = 0 /\ SubSeq(file, 1, 0) = <<>> /\ Events(<<>>) = <<>>
    BY EmptySeq, SubSeqEmpty, EventsAppend
  <2>2. WholeBatches(<<>>, cut)
    BY DEF WholeBatches
  <2> QED BY <2>1, <2>2, <1>1 DEF Earlier
<1>5. CASE ReplayEvents(r)
  <2>1. /\ UNCHANGED <<report, cursor, seen>>
        /\ replaying' \in {replaying, [replaying EXCEPT ![r] = file]}
    BY <1>5 DEF ReplayEvents
  <2>2. ASSUME NEW q \in Reader
        PROVE  replaying'[q] = replaying[q] \/ replaying'[q] = file
    BY <2>1, <1>1 DEF TypeOK
  <2>3. ASSUME NEW q \in Reader PROVE ReaderInv(q)'
    BY <2>1, <2>2, <1>1, <1>2, <1>3 DEF ReaderInv
  <2> QED BY <2>3 DEF ReadersInv
<1>6. CASE ReplayVerify(r)
  <2> DEFINE v == ChainOk(Events(file))
             result == [events |-> replaying[r], verified |-> file, ok |-> v]
  <2>1. /\ UNCHANGED <<cursor, seen>>
        /\ replaying' = [replaying EXCEPT ![r] = <<>>]
        /\ report' \in {report, [report EXCEPT ![r] = result]}
    BY <1>6 DEF ReplayVerify
  <2>2. v
    BY <1>1, LinkedEvents DEF IInv
  <2> HIDE DEF v
  <2>3. result.events = replaying[r] /\ result.verified = file /\ result.ok
    BY <2>2
  <2>4. Earlier(replaying[r], file, cut) /\ Len(replaying[r]) <= Len(file)
    BY <1>3 DEF ReaderInv, Earlier
  <2> HIDE DEF result
  <2>5. ASSUME NEW q \in Reader
        PROVE  /\ replaying'[q] = replaying[q] \/ replaying'[q] = <<>>
               /\ report'[q] = report[q] \/ report'[q] = result
    BY <2>1, <1>1 DEF TypeOK
  <2>6. ASSUME NEW q \in Reader PROVE ReaderInv(q)'
    <3>1. Earlier(replaying'[q], file, cut)
      BY <2>5, <1>3, <1>4 DEF ReaderInv
    <3>2. CASE report'[q] = report[q]
      BY <3>1, <3>2, <2>1, <1>2, <1>3 DEF ReaderInv
    <3>3. CASE report'[q] = result
      BY <3>1, <3>3, <2>1, <2>3, <2>4, <1>1, <1>2, <1>3 DEF ReaderInv
    <3> QED BY <2>5, <3>2, <3>3
  <2> QED BY <2>6 DEF ReadersInv
<1>7. CASE Follow(r)
  <2>1. /\ UNCHANGED <<replaying, report>>
        /\ cursor[r] < Len(file)
        /\ cursor' = [cursor EXCEPT ![r] = Len(file)]
        /\ seen' = [seen EXCEPT ![r] = seen[r] \o SubSeq(file, cursor[r] + 1, Len(file))]
    BY <1>7 DEF Follow
  <2>2. cursor[r] \in 0..Len(file) /\ seen[r] = SubSeq(file, 1, cursor[r])
    BY <2>1, <1>1, <1>3 DEF ReaderInv, Earlier, TypeOK
  <2>3. seen[r] \o SubSeq(file, cursor[r] + 1, Len(file)) = file
    BY <2>2, <1>1, Cut
  <2>4. ASSUME NEW q \in Reader
        PROVE  \/ seen'[q] = seen[q] /\ cursor'[q] = cursor[q]
               \/ seen'[q] = file /\ cursor'[q] = Len(file)
    BY <2>1, <2>3, <1>1 DEF TypeOK
  <2>5. ASSUME NEW q \in Reader PROVE ReaderInv(q)'
    BY <2>1, <2>4, <1>1, <1>2, <1>3 DEF ReaderInv
  <2> QED BY <2>5 DEF ReadersInv
<1> QED BY <1>5, <1>6, <1>7

(* What a step does to the log: nothing, a call that returns, or a crash. *)
SameLog == Settled' = Settled /\ acked' = acked
Crashed == \E w \in Writer : owner = w /\ Settled' = file' /\ acked' = acked

(* The log only grows, and is never seen half-written. *)
LEMMA NextBatches ==
  ASSUME IInv, BatchesInv, ReadersInv, [Next]_vars
  PROVE  /\ BatchesInv' /\ ReadersInv'
         /\ \/ SameLog
            \/ Crashed
            \/ \E w \in Writer : Return(w)
         /\ \E more \in Seq(Token) : file' = file \o more
<1>1. /\ TypeOK /\ file \in Seq(Token) /\ <<>> \in Seq(Token) /\ file \o <<>> = file
  BY EmptySeq, ConcatEmptySeq DEF IInv, TypeOK
<1>2. ASSUME UNCHANGED <<file, cut>>, UNCHANGED readerVars PROVE ReadersInv'
  BY <1>1, <1>2, GrowReaders
<1>3. CASE UNCHANGED vars
  <2>1. UNCHANGED writerVars /\ UNCHANGED readerVars
    BY <1>3 DEF vars
  <2>2. UNCHANGED <<file, cut, acked>>
    BY <2>1 DEF writerVars
  <2> QED BY <2>1, <2>2, <1>1, <1>2, ReadBatches DEF SameLog
<1>4. ASSUME NEW w \in Writer, NEW n \in 1..MaxBatch, NEW b \in 0..n, Call(w, n, b)
      PROVE  /\ BatchesInv' /\ ReadersInv' /\ SameLog
             /\ \E more \in Seq(Token) : file' = file \o more
  <2>1. UNCHANGED <<file, owner, base, cut, acked>> /\ UNCHANGED readerVars
    BY <1>4 DEF Call
  <2>2. n \in Nat \ {0} /\ b \in Nat
    BY EventloomAssumption
  <2>3. BatchesInv'
    BY <1>4, <2>2, CallBatches
  <2>4. SameLog
    BY <2>1 DEF Settled, SameLog
  <2> QED BY <2>1, <2>3, <2>4, <1>1, <1>2
<1>5. ASSUME NEW w \in Writer, Lock(w) \/ Build(w) \/ Refuse(w)
      PROVE  /\ BatchesInv' /\ ReadersInv' /\ SameLog
             /\ \E more \in Seq(Token) : file' = file \o more
  <2>1. UNCHANGED <<file, cut, acked>> /\ UNCHANGED readerVars
    BY <1>5 DEF Lock, Build, Refuse
  <2>2. BatchesInv' /\ Settled' = Settled
    BY <1>5, LockBatches, BuildBatches, RefuseBatches
  <2> QED BY <2>1, <2>2, <1>1, <1>2 DEF SameLog
<1>6. ASSUME NEW w \in Writer, NEW k \in 1..Len(pending[w]), Write(w, k)
      PROVE  /\ BatchesInv' /\ ReadersInv' /\ SameLog
             /\ \E more \in Seq(Token) : file' = file \o more
  <2>1. /\ UNCHANGED <<cut, acked>> /\ UNCHANGED readerVars
        /\ file' = file \o SubSeq(pending[w], 1, k)
    BY <1>6 DEF Write
  <2>2. k \in 0..Len(pending[w]) /\ pending[w] \in Seq(Token)
    BY <1>1, FileTypes
  <2>3. PICK more \in Seq(Token) : file' = file \o more
    BY <2>1, <2>2, Cut
  <2> QED BY <2>1, <2>3, <1>1, <1>6, WriteBatches, GrowReaders DEF SameLog
<1>7. ASSUME NEW w \in Writer, Return(w)
      PROVE  /\ BatchesInv' /\ ReadersInv'
             /\ \E more \in Seq(Token) : file' = file \o more
  <2>1. UNCHANGED <<file, cut>> /\ UNCHANGED readerVars
    BY <1>7 DEF Return
  <2> QED BY <2>1, <1>1, <1>2, <1>7, ReturnBatches
<1>8. ASSUME NEW w \in Writer, NEW k \in 0..Len(pending[w]), NEW torn \in BOOLEAN,
             Crash(w, k, torn)
      PROVE  /\ BatchesInv' /\ ReadersInv' /\ (SameLog \/ Crashed)
             /\ \E more \in Seq(Token) : file' = file \o more
  <2>1. acked' = acked /\ UNCHANGED readerVars
    BY <1>8 DEF Crash
  <2>2. /\ BatchesInv' /\ cut \subseteq cut'
        /\ Settled' = Settled \/ (owner = w /\ Settled' = file')
    BY <1>8, CrashBatches
  <2>3. PICK more \in Seq(Token) : file' = file \o more
    BY <1>8, CrashBatches
  <2> QED BY <2>1, <2>2, <2>3, <1>1, GrowReaders DEF SameLog, Crashed
<1>9. ASSUME NEW r \in Reader, ReplayEvents(r) \/ ReplayVerify(r) \/ Follow(r)
      PROVE  /\ BatchesInv' /\ ReadersInv' /\ SameLog
             /\ \E more \in Seq(Token) : file' = file \o more
  <2>1. UNCHANGED writerVars
    BY <1>9 DEF ReplayEvents, ReplayVerify, Follow
  <2>2. UNCHANGED <<file, acked>>
    BY <2>1 DEF writerVars
  <2> QED BY <2>1, <2>2, <1>1, <1>9, ReadReaders, ReadBatches DEF SameLog
<1> QED
  BY <1>3, <1>4, <1>5, <1>6, <1>7, <1>8, <1>9 DEF Next, WriterStep

(* The invariant of batches and readers holds in every reachable state. *)
LEMMA BatchesHold == Spec => [](IInv /\ BatchesInv /\ ReadersInv)
<1>1. Init => IInv /\ BatchesInv /\ ReadersInv
  BY InitIInv, InitBatches
<1>2. IInv /\ BatchesInv /\ ReadersInv /\ [Next]_vars => (IInv /\ BatchesInv /\ ReadersInv)'
  BY NextIInv, NextBatches
<1> QED BY <1>1, <1>2, PTL DEF Spec

(* Two earlier states of one log: the shorter one is a prefix of the longer. *)
LEMMA EarlierAgree ==
  ASSUME NEW f \in Seq(Token), NEW g \in Seq(Token), NEW log \in Seq(Token), NEW dead,
         Earlier(f, log, dead), Earlier(g, log, dead), Len(f) <= Len(g)
  PROVE  f = SubSeq(g, 1, Len(f))
<1>1. Len(f) \in Nat /\ Len(g) \in Nat /\ Len(log) \in Nat
  BY LenProperties
<1>2. Len(f) \in 0..Len(g) /\ Len(g) \in 0..Len(log)
  BY <1>1 DEF Earlier
<1>3. PICK h \in Seq(Token) : log = g \o h
  <2>1. log = SubSeq(log, 1, Len(g)) \o SubSeq(log, Len(g) + 1, Len(log))
    BY <1>2, Cut
  <2>2. SubSeq(log, Len(g) + 1, Len(log)) \in Seq(Token)
    BY <1>2, Cut
  <2> QED BY <2>1, <2>2 DEF Earlier
<1>4. SubSeq(g \o h, 1, Len(f)) = SubSeq(g, 1, Len(f))
  BY <1>2, PrefixKept
<1> QED BY <1>3, <1>4 DEF Earlier

(* Neither a replay, whose events and verdict come from two reads, nor an  *)
(* incremental reader ever returns part of a batch that is being written,  *)
(* and the verdict of a replay covers the events it returns.               *)
THEOREM ReadersSeeSettled == Spec => []ReadsSettled
<1>1. IInv /\ BatchesInv /\ ReadersInv => ReadsSettled
  <2> SUFFICES ASSUME IInv, ReadersInv PROVE ReadsSettled
    OBVIOUS
  <2>1. ASSUME NEW r \in Reader
        PROVE  /\ WholeBatches(Events(report[r].events), cut)
               /\ WholeBatches(Events(seen[r]), cut)
               /\ report[r].ok
               /\ Len(report[r].events) <= Len(report[r].verified)
    BY DEF ReadersInv, ReaderInv, Earlier
  <2>2. ASSUME NEW r \in Reader
        PROVE  report[r].events = SubSeq(report[r].verified, 1, Len(report[r].events))
    <3>1. /\ report[r].events \in Seq(Token) /\ report[r].verified \in Seq(Token)
          /\ file \in Seq(Token)
      BY DEF IInv, TypeOK
    <3>2. Earlier(report[r].events, file, cut) /\ Earlier(report[r].verified, file, cut)
      BY DEF ReadersInv, ReaderInv
    <3> QED BY <2>1, <3>1, <3>2, EarlierAgree
  <2> QED BY <2>1, <2>2 DEF ReadsSettled, ReadsWholeBatches, VerdictCoversEvents
<1> QED BY <1>1, BatchesHold, PTL

(* "Incremental readers never miss or duplicate events": successive         *)
(* read_from_offset calls return the file before the cursor.               *)
THEOREM FollowersAreExact == Spec => []FollowerExact
<1>1. IInv /\ BatchesInv /\ ReadersInv => FollowerExact
  BY DEF ReadersInv, ReaderInv, Earlier, FollowerExact
<1> QED BY <1>1, BatchesHold, PTL

(* No step of any process builds on a torn record. *)
LEMMA TornStays ==
  ASSUME IInv, BatchesInv, [Next]_vars, Len(file) > 0, file[Len(file)] = Torn
  PROVE  UNCHANGED <<file, acked>>
<1>1. /\ TypeOK /\ file \in Seq(Token) /\ file # <<>> /\ file \o <<>> = file
  BY EmptySeq, ConcatEmptySeq DEF IInv, TypeOK
<1>2. ASSUME NEW w \in Writer, owner = w
      PROVE  pending[w] = <<>> /\ built[w] = 0 /\ size[w] # 0
  <2>1. pending[w] = <<>> /\ built[w] = 0
    BY <1>1, <1>2 DEF BatchesInv, TornInv
  <2>2. pc[w] = "building"
    BY <1>2 DEF IInv, LockInv
  <2> QED BY <2>1, <2>2 DEF BatchesInv, CallsInv
<1>3. \A w \in Writer : pending[w] = <<>> /\ Len(pending[w]) = 0
  BY <1>2, EmptySeq DEF IInv, LockInv
<1>4. CASE UNCHANGED vars
  BY <1>4 DEF vars, writerVars
<1>5. ASSUME NEW w \in Writer, NEW n, NEW b, Call(w, n, b) PROVE UNCHANGED <<file, acked>>
  BY <1>5 DEF Call
<1>6. ASSUME NEW w \in Writer, Lock(w) \/ Build(w) \/ Refuse(w) PROVE UNCHANGED <<file, acked>>
  BY <1>6 DEF Lock, Build, Refuse
<1>7. ASSUME NEW w \in Writer, NEW k, Write(w, k) PROVE FALSE
  BY <1>3, <1>7 DEF Write
<1>8. ASSUME NEW w \in Writer, Return(w) PROVE FALSE
  <2>1. owner = w /\ built[w] = size[w]
    BY <1>8 DEF Return, IInv, LockInv
  <2> QED BY <2>1, <1>2
<1>9. ASSUME NEW w \in Writer, NEW k \in 0..Len(pending[w]), NEW torn \in BOOLEAN,
             Crash(w, k, torn)
      PROVE  UNCHANGED <<file, acked>>
  <2>1. k = 0 /\ ~ torn
    <3>1. torn => k < Len(pending[w])
      BY <1>9 DEF Crash
    <3>2. k = 0
      BY <1>3
    <3> QED BY <3>1, <3>2, <1>3
  <2>2. file' = (file \o SubSeq(pending[w], 1, 0)) \o <<>> /\ acked' = acked
    BY <2>1, <1>9 DEF Crash
  <2>3. SubSeq(pending[w], 1, 0) = <<>>
    BY SubSeqEmpty
  <2> QED BY <2>2, <2>3, <1>1
<1>10. ASSUME NEW r \in Reader, ReplayEvents(r) \/ ReplayVerify(r) \/ Follow(r)
       PROVE  UNCHANGED <<file, acked>>
  BY <1>10 DEF ReplayEvents, ReplayVerify, Follow, writerVars
<1> QED
  BY <1>4, <1>5, <1>6, <1>7, <1>8, <1>9, <1>10 DEF Next, WriterStep

(* A log that ends in a torn record stays as it is: every append to it is  *)
(* refused, and no caller is told otherwise (append_many).                 *)
THEOREM TornIsFinal == Spec => TornTailIsFinal
<1>1. IInv /\ BatchesInv /\ [Next]_vars =>
        [Len(file) > 0 /\ file[Len(file)] = Torn => UNCHANGED <<file, acked>>]_vars
  BY TornStays
<1> QED BY <1>1, BatchesHold, PTL DEF Spec, TornTailIsFinal

-----------------------------------------------------------------------------
(* A settled log that has become longer extends the abstract log.           *)
LEMMA LogExtends ==
  ASSUME NEW f \in Seq(Token), NEW g \in Seq(Token), Linked(f \o g),
         NEW es, es = Events(f), NEW fe, fe = Events(f \o g)
  PROVE  /\ es = fe \/ Len(fe) > Len(es)
         /\ Log!IsPrefix(es, fe)
         /\ Log!Chained(fe)
<1>1. /\ es \in Seq(Event) /\ fe \in Seq(Event) /\ Len(es) \in Nat /\ Len(fe) \in Nat
      /\ Len(es) <= Len(fe) /\ \A i \in 1..Len(es) : fe[i] = es[i]
      /\ f \o g \in Seq(Token)
  BY EventsGrow
<1>2. es = fe \/ Len(fe) > Len(es)
  <2>1. CASE Len(fe) = Len(es)
    BY <2>1, <1>1, SeqEqual
  <2>2. CASE Len(fe) # Len(es)
    BY <2>2, <1>1
  <2> QED BY <2>1, <2>2
<1>3. SubSeq(fe, 1, Len(es)) = es /\ SubSeq(es, 1, Len(es)) = es
  <2>1. \A i \in 1..Len(es) : fe[i] \in Event
    BY <1>1, ElementOfSeq
  <2>2. /\ SubSeq(fe, 1, Len(es)) \in Seq(Event)
        /\ Len(SubSeq(fe, 1, Len(es))) = IF 1 <= Len(es) THEN Len(es) - 1 + 1 ELSE 0
        /\ \A i \in 1..(Len(es) - 1 + 1) : SubSeq(fe, 1, Len(es))[i] = fe[1 + i - 1]
    BY <1>1, <2>1, SubSeqProperties
  <2>3. /\ Len(SubSeq(fe, 1, Len(es))) = Len(es)
        /\ \A i \in 1..Len(es) : SubSeq(fe, 1, Len(es))[i] = fe[i]
    BY <1>1, <2>2
  <2>4. SubSeq(fe, 1, Len(es)) = es
    BY <1>1, <2>2, <2>3, SeqEqual
  <2> QED BY <1>1, <2>4, SubSeqFull
<1>4. ChainOk(fe)
  BY <1>1, LinkedEvents
<1> QED BY <1>1, <1>2, <1>3, <1>4 DEF Log!IsPrefix, Log!Chained, ChainOk

(* The events a returned call adds to the log are those it acknowledges.    *)
LEMMA ReturnAcks ==
  ASSUME IInv, BatchesInv, NEW w \in Writer, Return(w), Settled' = file, Linked(file),
         NEW es, es = Events(Settled), NEW fe, fe = Events(file)
  PROVE  /\ Len(fe) > Len(es)
         /\ BatchIds(w) = Log!IdsOf(fe) \ Log!IdsOf(es)
<1>1. /\ TypeOK /\ pc[w] = "building" /\ owner = w /\ built[w] = size[w] /\ pending[w] = <<>>
      /\ file \in Seq(Token) /\ file \o <<>> = file
      /\ size[w] \in Nat /\ size[w] # 0
  BY ConcatEmptySeq DEF Return, IInv, LockInv, TypeOK, BatchesInv, CallsInv
<1>2. /\ es \in Seq(Event) /\ Len(es) \in Nat /\ DOMAIN es = 1..Len(es)
      /\ fe \in Seq(Event) /\ Len(fe) \in Nat /\ DOMAIN fe = 1..Len(fe)
  BY <1>1, SettledFacts, EventsAppend, LenProperties DEF BatchesInv
<1>3. \A i \in 1..Len(es) : fe[i] = es[i]
  <2>1. PICK m \in Seq(Token) : file = Settled \o m
    BY <1>1, SettledFacts DEF BatchesInv
  <2>2. Settled \in Seq(Token)
    BY <1>1, SettledFacts DEF BatchesInv
  <2> QED BY <2>1, <2>2, EventsGrow
<1>4. Len(fe) = Len(es) + size[w] /\ \A i \in 1..size[w] : fe[Len(es) + i].id = Ident(w, i)
  BY <1>1 DEF BatchesInv, BatchInv
<1>5. ASSUME NEW i \in 1..size[w] PROVE Ident(w, i) \notin Log!IdsOf(es)
  <2>1. SUFFICES ASSUME NEW j \in DOMAIN es, es[j].id = Ident(w, i) PROVE FALSE
    BY DEF Log!IdsOf
  <2>2. es[j].id.by = w /\ es[j].id.op = op[w]
    BY <2>1 DEF Ident
  <2>3. pc[w] # "idle" => es[j].id.op # op[w]
    BY <2>1, <2>2 DEF BatchesInv, OpsInv
  <2> QED BY <2>2, <2>3, <1>1
<1>6. ASSUME NEW i \in 1..size[w] PROVE Ident(w, i) \in Log!IdsOf(fe)
  <2>1. PICK n \in Nat : n = Len(es)
    BY <1>2
  <2>2. PICK c \in Nat : c = size[w]
    BY <1>1
  <2>3. n + i \in 1..(n + c)
    BY <2>2
  <2>4. n + i \in DOMAIN fe /\ fe[n + i].id = Ident(w, i)
    BY <2>1, <2>2, <2>3, <1>2, <1>4
  <2> QED BY <2>4 DEF Log!IdsOf
<1>7. ASSUME NEW j \in DOMAIN fe
      PROVE  fe[j].id \in Log!IdsOf(es) \/ \E i \in 1..size[w] : fe[j].id = Ident(w, i)
  <2>1. PICK n \in Nat : n = Len(es)
    BY <1>2
  <2>2. PICK c \in Nat : c = size[w]
    BY <1>1
  <2>3. j \in 1..(n + c)
    BY <2>1, <2>2, <1>2, <1>4
  <2>4. CASE j \in 1..n
    BY <2>1, <2>4, <1>2, <1>3 DEF Log!IdsOf
  <2>5. CASE j \notin 1..n
    <3>1. j - n \in 1..c /\ n + (j - n) = j
      BY <2>3, <2>5
    <3> QED BY <3>1, <2>1, <2>2, <1>4
  <2> QED BY <2>4, <2>5
<1>8. BatchIds(w) = {Ident(w, i) : i \in 1..size[w]}
  BY DEF BatchIds, Ident
<1>9. Log!IdsOf(fe) = {fe[j].id : j \in DOMAIN fe}
  BY DEF Log!IdsOf
<1>10. Len(fe) > Len(es)
  BY <1>1, <1>2, <1>4
<1>11. BatchIds(w) \subseteq Log!IdsOf(fe) \ Log!IdsOf(es)
  BY <1>5, <1>6, <1>8
<1>12. Log!IdsOf(fe) \ Log!IdsOf(es) \subseteq BatchIds(w)
  BY <1>7, <1>8, <1>9
<1> QED BY <1>10, <1>11, <1>12

(* The abstract log begins empty. *)
LEMMA InitRefines == Init => Log!LogInit
<1> SUFFICES ASSUME Init PROVE Log!LogInit
  OBVIOUS
<1>1. file = <<>> /\ owner = Nobody /\ acked = {}
  BY DEF Init
<1>2. Settled = <<>>
  BY <1>1, SettledIs, SubSeqEmpty, EmptySeq
<1> QED BY <1>1, <1>2, EventsAppend DEF Log!LogInit

(* Every step is a step of the abstract log, or leaves it as it is. *)
LEMMA StepRefines ==
  ASSUME IInv, BatchesInv, ReadersInv, [Next]_vars, IInv'
  PROVE  [Log!LogNext]_(Log!logVars)
<1>1. PICK es : es = Events(Settled)
  OBVIOUS
<1>2. PICK fe : fe = Events(Settled')
  OBVIOUS
<1>3. PICK more \in Seq(Token) : file' = file \o more
  BY NextBatches
<1>4. PICK m \in Seq(Token) : file = Settled \o m
  BY SettledFacts DEF IInv, BatchesInv
<1>5. Settled \in Seq(Token) /\ file \in Seq(Token)
  BY SettledFacts DEF IInv, BatchesInv, TypeOK
<1>6. PICK g \in Seq(Token) : file' = Settled \o g
  <2>1. m \o more \in Seq(Token)
    BY ConcatProperties
  <2>2. Settled \o (m \o more) = (Settled \o m) \o more
    BY <1>5, TokensAssociative, Zenon
  <2> QED BY <2>1, <2>2, <1>3, <1>4
<1>7. CASE SameLog
  BY <1>7 DEF SameLog, Log!logVars
<1>8. CASE Crashed
  <2>1. Settled' = file' /\ acked' = acked
    BY <1>8 DEF Crashed
  <2>2. Linked(Settled \o g)
    BY <1>6 DEF IInv
  <2>3. /\ es = fe \/ Len(fe) > Len(es)
        /\ Log!IsPrefix(es, fe)
        /\ Log!Chained(fe)
    BY <1>1, <1>2, <1>5, <1>6, <2>1, <2>2, LogExtends
  <2>4. CASE es = fe
    BY <2>1, <2>4, <1>1, <1>2 DEF Log!logVars
  <2>5. CASE Len(fe) > Len(es)
    BY <2>1, <2>3, <2>5, <1>1, <1>2 DEF Log!LogNext, Log!AppendUnacked, Log!Extend
  <2> QED BY <2>3, <2>4, <2>5
<1>9. ASSUME NEW w \in Writer, Return(w) PROVE Log!LogNext
  <2>1. Settled' = file /\ file' = file /\ acked' = acked \cup BatchIds(w)
    BY <1>9, ReturnBatches DEF Return
  <2>2. Linked(Settled \o g) /\ Linked(file)
    BY <1>6 DEF IInv
  <2>3. Log!IsPrefix(es, fe) /\ Log!Chained(fe)
    BY <1>1, <1>2, <1>5, <1>6, <2>1, <2>2, LogExtends
  <2>4. Len(fe) > Len(es) /\ BatchIds(w) = Log!IdsOf(fe) \ Log!IdsOf(es)
    BY <1>1, <1>2, <1>9, <2>1, <2>2, ReturnAcks
  <2> QED BY <2>1, <2>3, <2>4, <1>1, <1>2 DEF Log!LogNext, Log!Append_, Log!Extend
<1> QED BY <1>7, <1>8, <1>9, NextBatches

(* The log implements AppendOnlyLog: whatever its writers, readers and      *)
(* crashes do, a call appears in it at once, when it lets go of the lock.  *)
THEOREM Implementation == Spec => ImplementsAppendOnlyLog
<1>1. Init => Log!LogInit
  BY InitRefines
<1>2. /\ IInv /\ BatchesInv /\ ReadersInv /\ (IInv /\ BatchesInv /\ ReadersInv)' /\ [Next]_vars
        => [Log!LogNext]_(Log!logVars)
  BY StepRefines
<1> QED BY <1>1, <1>2, BatchesHold, PTL DEF Spec, ImplementsAppendOnlyLog, Log!LogSpec
=============================================================================

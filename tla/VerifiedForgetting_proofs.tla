----------------------- MODULE VerifiedForgetting_proofs -----------------------
(***************************************************************************)
(* For any processes, cells, failures and crashes: no key is destroyed off *)
(* the record.  With one process at a time, for any cells, failures and    *)
(* crashes: a destroyed key stays destroyed, its tombstone is true, and    *)
(* what nobody has forgotten can be read.                                  *)
(***************************************************************************)
EXTENDS VerifiedForgetting, TLAPS

\* The vault file is not shared: one process has it, and its successors.
OneProcess == \A p, q \in Process : p = q

\* A call that destroys a key has its gate decision in the log, and the key is
\* destroyed before the tombstone is written.
CallsInv ==
  \A p \in Process :
    /\ pc[p] \in {"erase", "tombstone"} => InLog("gate", cell[p])
    /\ pc[p] = "tombstone" => cell[p] \in erased

\* What holds for any processes.
AuditInv == TypeOK /\ CallsInv /\ ErasureIsAudited

\* An append adds its entry to the log, and nothing else.
LEMMA InLogAppended ==
  ASSUME log \in Seq(Entry), NEW e \in Entry, log' = Append(log, e)
  PROVE  /\ log' \in Seq(Entry)
         /\ \A type, c : InLog(type, c)' <=> InLog(type, c) \/ e = [type |-> type, cell |-> c]
  <1>1. log' \in Seq(Entry)
    OBVIOUS
  <1>2. Len(log') = Len(log) + 1 /\ Len(log) \in Nat /\ log'[Len(log) + 1] = e
    OBVIOUS
  <1>3. \A i \in 1..Len(log) : log'[i] = log[i]
    OBVIOUS
  <1>4. DOMAIN log = 1..Len(log) /\ DOMAIN log' = 1..(Len(log) + 1)
    BY <1>1, <1>2
  <1> HIDE DEF Entry
  <1>5. ASSUME NEW type, NEW c
        PROVE  InLog(type, c)' <=> InLog(type, c) \/ e = [type |-> type, cell |-> c]
    <2> DEFINE x == [type |-> type, cell |-> c]
    <2>1. InLog(type, c) <=> \E i \in 1..Len(log) : log[i] = x
      BY <1>4 DEF InLog
    <2>2. InLog(type, c)' <=> \E i \in 1..(Len(log) + 1) : log'[i] = x
      BY <1>4 DEF InLog
    <2> HIDE DEF x
    <2>3. InLog(type, c) \/ e = x => InLog(type, c)'
      BY <1>2, <1>3, <2>1, <2>2
    <2>4. InLog(type, c)' => InLog(type, c) \/ e = x
      BY <1>2, <1>3, <2>1, <2>2
    <2> QED
      BY <2>3, <2>4 DEF x
  <1> QED
    BY <1>1, <1>5

\* The entry of a process in a call is an entry of the log.
LEMMA AppendedEntry ==
  ASSUME TypeOK, NEW p \in Process, NEW type \in {"memory", "gate", "forgotten"}, NEW at,
         pc[p] # "idle", Appended(p, type, at)
  PROVE  /\ log' \in Seq(Entry)
         /\ cell[p] \in Cell
         /\ \A ty, c : InLog(ty, c)' <=> InLog(ty, c) \/ (ty = type /\ c = cell[p])
  <1>1. cell[p] \in Cell /\ log \in Seq(Entry)
    BY DEF TypeOK
  <1> DEFINE e == [type |-> type, cell |-> cell[p]]
  <1>2. e \in Entry
    BY <1>1 DEF Entry
  <1>3. log' = Append(log, e)
    BY DEF Appended
  <1>4. \A ty, c : e = [type |-> ty, cell |-> c] <=> ty = type /\ c = cell[p]
    OBVIOUS
  <1> HIDE DEF e
  <1>5. \A ty, c : InLog(ty, c)' <=> InLog(ty, c) \/ e = [type |-> ty, cell |-> c]
    BY <1>1, <1>2, <1>3, InLogAppended
  <1>6. log' \in Seq(Entry)
    BY <1>1, <1>2, <1>3, InLogAppended
  <1> QED
    BY <1>1, <1>4, <1>5, <1>6

\* A log that stays as it is has the same entries.
LEMMA InLogUnchanged ==
  ASSUME UNCHANGED log
  PROVE  \A type, c : InLog(type, c)' = InLog(type, c)
  BY DEF InLog
-----------------------------------------------------------------------------
\* Every variable has its type at the start.
LEMMA InitType == Init => TypeOK
  <1> SUFFICES ASSUME Init PROVE TypeOK
    OBVIOUS
  <1>1. EmptyVault \in Vault
    BY DEF EmptyVault, Vault
  <1>2. NewProcess \in [loaded : BOOLEAN, vault : Vault, kek : Kek \cup {NoKek}]
    BY <1>1 DEF NewProcess
  <1>3. log \in Seq(Entry)
    BY DEF Init
  <1> QED
    BY <1>1, <1>2, <1>3, ForgettingAssumption DEF Init, TypeOK

\* The vault of a process is a vault, from its memory or from the file.
LEMMA LoadedType == ASSUME TypeOK, NEW p \in Process PROVE Loaded(p) \in Vault
  BY DEF TypeOK, Loaded

\* Every operation keeps the types.
LEMMA NextType == TypeOK /\ CallsInv /\ [Next]_vars => TypeOK'
  <1> SUFFICES ASSUME TypeOK, CallsInv, [Next]_vars PROVE TypeOK'
    OBVIOUS
  <1> USE ForgettingAssumption
  <1>1. ASSUME NEW p \in Process, NEW c \in Cell, Encrypt(p, c) PROVE TypeOK'
    <2>1. mem' \in [Process -> [loaded : BOOLEAN, vault : Vault, kek : Kek \cup {NoKek}]]
      BY <1>1, LoadedType DEF Encrypt, TypeOK
    <2>2. pc' \in [Process -> {"idle", "newkek", "store", "seal", "gate", "erase", "tombstone"}]
      BY <1>1 DEF Encrypt, TypeOK
    <2> QED
      BY <1>1, <2>1, <2>2 DEF Encrypt, TypeOK
  <1>2. ASSUME NEW p \in Process, NEW c \in Cell, Forget(p, c) PROVE TypeOK'
    BY <1>2 DEF Forget, TypeOK
  <1>3. ASSUME NEW p \in Process, NEW c \in Cell, Read(p, c) PROVE TypeOK'
    <2>1. mem' \in [Process -> [loaded : BOOLEAN, vault : Vault, kek : Kek \cup {NoKek}]]
      BY <1>3, LoadedType DEF Read, TypeOK
    <2> QED
      BY <1>3, <2>1 DEF Read, TypeOK
  <1>4. ASSUME NEW p \in Process, NewKek(p) PROVE TypeOK'
    <2>1. mem' \in [Process -> [loaded : BOOLEAN, vault : Vault, kek : Kek \cup {NoKek}]]
      BY <1>4 DEF NewKek, TypeOK, Kek
    <2> QED
      BY <1>4, <2>1 DEF NewKek, Goto, TypeOK, Kek
  <1>5. ASSUME NEW p \in Process, Store(p) PROVE TypeOK'
    <2> DEFINE vault == [mem[p].vault EXCEPT !.wrapped[cell[p]] = mem[p].kek]
    <2>1. mem[p].vault \in Vault /\ mem[p].kek \in Kek \cup {NoKek}
      BY DEF TypeOK
    <2>2. vault \in Vault
      BY <2>1 DEF Vault
    <2>3. mem' = [mem EXCEPT ![p].vault = vault] /\ disk' = vault
      BY <1>5 DEF Store
    <2> HIDE DEF vault
    <2>4. mem' \in [Process -> [loaded : BOOLEAN, vault : Vault, kek : Kek \cup {NoKek}]]
      BY <2>2, <2>3 DEF TypeOK
    <2> QED
      BY <1>5, <2>2, <2>3, <2>4 DEF Store, Goto, TypeOK
  <1>6. ASSUME NEW p \in Process, Seal(p) \/ Gate(p) \/ Tombstone(p) PROVE TypeOK'
    <2>1. PICK type \in {"memory", "gate", "forgotten"}, at \in {"idle", "erase"} :
            Appended(p, type, at) /\ pc[p] # "idle"
      BY <1>6 DEF Seal, Gate, Tombstone
    <2>2. log' \in Seq(Entry)
      BY <2>1, AppendedEntry
    <2> QED
      BY <2>1, <2>2 DEF Appended, TypeOK
  <1>7. ASSUME NEW p \in Process, Raised(p), pc[p] # "idle", alarmed' \subseteq erased
        PROVE  TypeOK'
    <2>1. failures' \in 0..MaxFailures
      BY <1>7 DEF Raised, TypeOK
    <2>2. UNCHANGED <<disk, kekFile, mem, log, forgets, crashes, erased, interrupted>>
      BY <1>7 DEF Raised
    <2>3. /\ pc' \in [Process -> {"idle", "newkek", "store", "seal", "gate", "erase", "tombstone"}]
          /\ cell' \in [Process -> Cell \cup {NoCell}]
          /\ \A q \in Process : cell'[q] = NoCell <=> pc'[q] = "idle"
      BY <1>7 DEF Raised, TypeOK
    <2> QED
      BY <1>7, <2>1, <2>2, <2>3 DEF TypeOK
  <1>8. ASSUME NEW p \in Process, SealFails(p) \/ GateFails(p) PROVE TypeOK'
    BY <1>7, <1>8 DEF SealFails, GateFails, TypeOK
  <1>9. ASSUME NEW p \in Process, TombstoneFails(p) PROVE TypeOK'
    BY <1>7, <1>9 DEF TombstoneFails, TypeOK, CallsInv
  <1>10. ASSUME NEW p \in Process, Erase(p) PROVE TypeOK'
    <2> DEFINE vault == [wrapped    |-> [Loaded(p).wrapped EXCEPT ![cell[p]] = NoKek],
                         tombstones |-> Loaded(p).tombstones \cup {cell[p]}]
    <2>1. cell[p] \in Cell
      BY <1>10 DEF Erase, TypeOK
    <2>2. vault \in Vault
      BY <2>1, LoadedType DEF Vault
    <2>3. mem' = [mem EXCEPT ![p].loaded = TRUE, ![p].vault = vault] /\ disk' = vault
      BY <1>10 DEF Erase
    <2> HIDE DEF vault
    <2>4. mem' \in [Process -> [loaded : BOOLEAN, vault : Vault, kek : Kek \cup {NoKek}]]
      <3>1. mem[p] \in [loaded : BOOLEAN, vault : Vault, kek : Kek \cup {NoKek}]
        BY DEF TypeOK
      <3>2. [[mem[p] EXCEPT !.loaded = TRUE] EXCEPT !.vault = vault]
              \in [loaded : BOOLEAN, vault : Vault, kek : Kek \cup {NoKek}]
        BY ONLY <2>2, <3>1
      <3>3. mem' = [mem EXCEPT ![p] = [[mem[p] EXCEPT !.loaded = TRUE] EXCEPT !.vault = vault]]
        BY <2>3 DEF TypeOK
      <3> QED
        BY <3>2, <3>3 DEF TypeOK
    <2>5. pc' = [pc EXCEPT ![p] = "tombstone"] /\ erased' = erased \cup {cell[p]}
      BY <1>10 DEF Erase
    <2>6. UNCHANGED <<kekFile, cell, log, forgets, failures, crashes, alarmed, interrupted>>
      BY <1>10 DEF Erase
    <2> QED
      BY <2>1, <2>2, <2>3, <2>4, <2>5, <2>6 DEF TypeOK
  <1>11. ASSUME NEW p \in Process, Crash(p) PROVE TypeOK'
    <2>1. mem' \in [Process -> [loaded : BOOLEAN, vault : Vault, kek : Kek \cup {NoKek}]]
      <3>1. NewProcess \in [loaded : BOOLEAN, vault : Vault, kek : Kek \cup {NoKek}]
        BY DEF NewProcess, EmptyVault, Vault
      <3> QED
        BY <1>11, <3>1 DEF Crash, TypeOK
    <2>2. interrupted' \subseteq erased
      BY <1>11 DEF Crash, TypeOK, CallsInv
    <2>3. UNCHANGED <<disk, kekFile, log, forgets, failures, erased, alarmed>>
      BY <1>11 DEF Crash
    <2>4. crashes' \in 0..MaxCrashes
      BY <1>11 DEF Crash, TypeOK
    <2>5. /\ pc' \in [Process -> {"idle", "newkek", "store", "seal", "gate", "erase", "tombstone"}]
          /\ cell' \in [Process -> Cell \cup {NoCell}]
          /\ \A q \in Process : cell'[q] = NoCell <=> pc'[q] = "idle"
      BY <1>11 DEF Crash, TypeOK
    <2> QED
      BY <2>1, <2>2, <2>3, <2>4, <2>5 DEF TypeOK
  <1>12. CASE UNCHANGED vars
    BY <1>12 DEF vars, TypeOK
  <1> QED
    BY <1>1, <1>2, <1>3, <1>4, <1>5, <1>6, <1>8, <1>9, <1>10, <1>11, <1>12 DEF Next
-----------------------------------------------------------------------------
\* What a call has recorded stays recorded: the log only grows, and only the call
\* itself leaves its erasure or its tombstone behind.
LEMMA NextAudit == AuditInv /\ [Next]_vars => AuditInv'
  <1> SUFFICES ASSUME AuditInv, [Next]_vars PROVE AuditInv'
    OBVIOUS
  <1> USE DEF AuditInv
  <1>1. TypeOK'
    BY NextType
  <1>2. ASSUME UNCHANGED <<log, erased, alarmed, interrupted>>, NEW p \in Process,
               NEW at \in {"newkek", "store", "seal", "gate", "idle"},
               pc' = [pc EXCEPT ![p] = at],
               cell' = cell \/ (\E c : cell' = [cell EXCEPT ![p] = c]),
               pc[p] # "tombstone"
        PROVE  CallsInv' /\ ErasureIsAudited'
    <2>1. \A type, c : InLog(type, c)' = InLog(type, c)
      BY <1>2, InLogUnchanged
    <2>2. \A q \in Process : q # p => pc'[q] = pc[q] /\ cell'[q] = cell[q]
      BY <1>2 DEF TypeOK
    <2>3. pc'[p] = at
      BY <1>2 DEF TypeOK
    <2>4. CallsInv'
      BY <1>2, <2>1, <2>2, <2>3 DEF CallsInv
    <2>5. ErasureIsAudited'
      BY <1>2, <2>1, <2>2, <2>3 DEF ErasureIsAudited
    <2> QED
      BY <2>4, <2>5
  <1>3. ASSUME NEW p \in Process, NEW c \in Cell, Encrypt(p, c) PROVE CallsInv' /\ ErasureIsAudited'
    <2>1. PICK at \in {"newkek", "store"} : pc' = [pc EXCEPT ![p] = at]
      BY <1>3 DEF Encrypt
    <2> QED
      BY <1>2, <1>3, <2>1 DEF Encrypt
  <1>4. ASSUME NEW p \in Process, NEW c \in Cell, Forget(p, c) PROVE CallsInv' /\ ErasureIsAudited'
    BY <1>2, <1>4 DEF Forget
  <1>5. ASSUME UNCHANGED <<pc, cell, log, erased, alarmed, interrupted>>
        PROVE  CallsInv' /\ ErasureIsAudited'
    BY <1>5, InLogUnchanged DEF CallsInv, ErasureIsAudited
  <1>6. ASSUME NEW p \in Process, NEW c \in Cell, Read(p, c) PROVE CallsInv' /\ ErasureIsAudited'
    BY <1>5, <1>6 DEF Read
  <1>7. ASSUME NEW p \in Process, NewKek(p) \/ Store(p) PROVE CallsInv' /\ ErasureIsAudited'
    BY <1>2, <1>7 DEF NewKek, Store, Goto
  <1>8. ASSUME NEW p \in Process, SealFails(p) \/ GateFails(p)
        PROVE  CallsInv' /\ ErasureIsAudited'
    BY <1>2, <1>8 DEF SealFails, GateFails, Raised
  <1>9. ASSUME NEW p \in Process, NEW type \in {"memory", "gate", "forgotten"}, NEW at,
               pc[p] # "idle", Appended(p, type, at),
               at = "idle" \/ (at = "erase" /\ type = "gate"),
               pc[p] = "tombstone" => type = "forgotten"
        PROVE  CallsInv' /\ ErasureIsAudited'
    <2>1. \A ty, c : InLog(ty, c)' <=> InLog(ty, c) \/ (ty = type /\ c = cell[p])
      BY <1>9, AppendedEntry
    <2>2. \A q \in Process : q # p => pc'[q] = pc[q] /\ cell'[q] = cell[q]
      BY <1>9 DEF TypeOK, Appended
    <2>3. pc'[p] = at /\ (at # "idle" => cell'[p] = cell[p])
      BY <1>9 DEF TypeOK, Appended
    <2>4. UNCHANGED <<erased, alarmed, interrupted>>
      BY <1>9 DEF Appended
    <2>5. CallsInv'
      BY <1>9, <2>1, <2>2, <2>3, <2>4 DEF CallsInv
    <2>6. ErasureIsAudited'
      BY <1>9, <2>1, <2>2, <2>3, <2>4 DEF ErasureIsAudited
    <2> QED
      BY <2>5, <2>6
  <1>10. ASSUME NEW p \in Process, Seal(p) \/ Gate(p) \/ Tombstone(p)
         PROVE  CallsInv' /\ ErasureIsAudited'
    BY <1>9, <1>10 DEF Seal, Gate, Tombstone
  <1>11. ASSUME NEW p \in Process, Erase(p) PROVE CallsInv' /\ ErasureIsAudited'
    <2>1. \A type, c : InLog(type, c)' = InLog(type, c)
      BY <1>11, InLogUnchanged DEF Erase
    <2>2. /\ pc' = [pc EXCEPT ![p] = "tombstone"] /\ erased' = erased \cup {cell[p]}
          /\ UNCHANGED <<cell, alarmed, interrupted>> /\ pc[p] = "erase"
      BY <1>11 DEF Erase
    <2>3. /\ \A q \in Process : q # p => pc'[q] = pc[q]
          /\ pc'[p] = "tombstone"
      BY <2>2 DEF TypeOK
    <2>4. CallsInv'
      BY <2>1, <2>2, <2>3 DEF CallsInv
    <2>5. ErasureIsAudited'
      BY <2>1, <2>2, <2>3 DEF ErasureIsAudited, CallsInv
    <2> QED
      BY <2>4, <2>5
  <1>12. ASSUME NEW p \in Process, TombstoneFails(p) \/ Crash(p)
         PROVE  CallsInv' /\ ErasureIsAudited'
    <2>1. \A type, c : InLog(type, c)' = InLog(type, c)
      BY <1>12, InLogUnchanged DEF TombstoneFails, Raised, Crash
    <2>2. /\ pc' = [pc EXCEPT ![p] = "idle"] /\ cell' = [cell EXCEPT ![p] = NoCell]
          /\ UNCHANGED erased
      BY <1>12 DEF TombstoneFails, Raised, Crash
    <2>3. pc[p] = "tombstone" => cell[p] \in alarmed' \cup interrupted'
      BY <1>12 DEF TombstoneFails, Crash
    <2>4. alarmed \cup interrupted \subseteq alarmed' \cup interrupted'
      BY <1>12 DEF TombstoneFails, Raised, Crash
    <2>5. /\ \A q \in Process : q # p => pc'[q] = pc[q] /\ cell'[q] = cell[q]
          /\ pc'[p] = "idle"
      BY <2>2 DEF TypeOK
    <2>6. CallsInv'
      BY <2>1, <2>2, <2>5 DEF CallsInv
    <2>7. ErasureIsAudited'
      BY <2>1, <2>2, <2>3, <2>4, <2>5 DEF ErasureIsAudited
    <2> QED
      BY <2>6, <2>7
  <1>13. CASE UNCHANGED vars
    <2>1. UNCHANGED <<pc, cell, log, erased, alarmed, interrupted>>
      BY <1>13 DEF vars
    <2> QED
      BY <1>1, <1>5, <2>1
  <1>14. CallsInv' /\ ErasureIsAudited'
    BY <1>3, <1>4, <1>6, <1>7, <1>8, <1>10, <1>11, <1>12, <1>13 DEF Next
  <1> QED
    BY <1>1, <1>14

\* The audit invariant holds for any processes.
LEMMA Audit == Spec => []AuditInv
  <1>1. Init => CallsInv /\ ErasureIsAudited
    BY DEF Init, CallsInv, ErasureIsAudited
  <1>2. Init => AuditInv
    BY <1>1, InitType DEF AuditInv
  <1> QED
    BY <1>2, NextAudit, PTL DEF Spec

\* Every variable keeps its type, and only a process in a call has a cell.
THEOREM TypeCorrect == Spec => []TypeOK
  <1>1. AuditInv => TypeOK
    BY DEF AuditInv
  <1> QED
    BY <1>1, Audit, PTL

\* No key is destroyed off the record, whatever other processes do to the vault.
THEOREM ErasuresAreAudited == Spec => []ErasureIsAudited
  <1>1. AuditInv => ErasureIsAudited
    BY DEF AuditInv
  <1> QED
    BY <1>1, Audit, PTL
-----------------------------------------------------------------------------
\* With one process, its copy of the vault is the file.
CopyInv == \A p \in Process : mem[p].loaded => mem[p].vault = disk

\* There is one key-encryption key, the one in the file.
KekInv ==
  /\ \A p \in Process : mem[p].kek \in {NoKek, kekFile}
  /\ \A c \in Cell : disk.wrapped[c] \in {NoKek, kekFile}

\* What a call relies on between its steps.
StoringInv ==
  \A p \in Process :
    /\ pc[p] \in {"newkek", "store", "seal"} => mem[p].loaded /\ ~ InLog("memory", cell[p])
    /\ pc[p] = "newkek" => kekFile = NoKek
    /\ pc[p] \in {"store", "seal"} => mem[p].kek = kekFile /\ kekFile # NoKek
    /\ pc[p] = "seal" => disk.wrapped[cell[p]] = kekFile
    /\ pc[p] \in {"gate", "erase", "tombstone"} => InLog("memory", cell[p])

\* Only sealed memories are erased, and only erased ones have a tombstone.
ErasedInv ==
  /\ disk.tombstones \subseteq erased
  /\ \A c \in erased : InLog("memory", c)
  /\ \A c \in Cell : InLog("forgotten", c) => c \in erased
  /\ KeysStayDestroyed

\* Every other sealed memory has its key in the file.
KeptInv ==
  \A c \in Cell : InLog("memory", c) /\ c \notin erased => kekFile # NoKek /\ disk.wrapped[c] = kekFile

\* What holds with one process.
VaultInv == CopyInv /\ KekInv /\ StoringInv /\ ErasedInv /\ KeptInv

\* The invariant gives the properties: a read finds the file's vault and the file's
\* key, whichever the process has in its memory.
LEMMA VaultImplies ==
  ASSUME AuditInv, VaultInv
  PROVE  KeptReadable /\ TombstonesAreTrue /\ KeysStayDestroyed
  <1>1. ASSUME NEW p \in Process
        PROVE  /\ Loaded(p) = disk
               /\ (IF mem[p].kek = NoKek THEN kekFile ELSE mem[p].kek) = kekFile
    BY DEF VaultInv, CopyInv, KekInv, Loaded
  <1>2. KeysStayDestroyed
    BY DEF VaultInv, ErasedInv
  <1>3. \A p \in Process, c \in Cell :
          Reads(p, c) <=> c \notin disk.tombstones /\ disk.wrapped[c] # NoKek /\ disk.wrapped[c] = kekFile
    BY <1>1 DEF Reads, Decrypts
  <1>4. KeptReadable
    BY <1>3 DEF KeptReadable, VaultInv, KeptInv, ErasedInv
  <1>5. TombstonesAreTrue
    BY <1>2, <1>3 DEF TombstonesAreTrue, VaultInv, ErasedInv, KeysStayDestroyed
  <1> QED
    BY <1>2, <1>4, <1>5

\* One process rewrites the file from a copy that is the file, and a key it stores
\* is that of a cell that is not in the log yet, so that it undoes no erasure.
LEMMA NextVault ==
  ASSUME OneProcess, AuditInv, VaultInv, [Next]_vars
  PROVE  VaultInv'
  <1> USE ForgettingAssumption DEF AuditInv, VaultInv
  <1>t. TypeOK'
    BY NextType
  <1>l. \A p \in Process : Loaded(p) = disk
    BY DEF CopyInv, Loaded
  <1>1. ASSUME NEW p \in Process, NEW c \in Cell, Encrypt(p, c) PROVE VaultInv'
    <2>1. \A type, d : InLog(type, d)' = InLog(type, d)
      BY <1>1, InLogUnchanged DEF Encrypt
    <2>2. PICK kek \in {kekFile} :
            /\ mem' = [mem EXCEPT ![p] = [loaded |-> TRUE, vault |-> disk, kek |-> kek]]
            /\ pc' = [pc EXCEPT ![p] = IF kek = NoKek THEN "newkek" ELSE "store"]
      BY <1>1, <1>l DEF Encrypt, KekInv
    <2>3. \A q \in Process : q = p
      BY DEF OneProcess
    <2>A. mem'[p] = [loaded |-> TRUE, vault |-> disk, kek |-> kekFile]
      BY <2>2 DEF TypeOK
    <2>B. pc'[p] = IF kekFile = NoKek THEN "newkek" ELSE "store"
      BY <2>2 DEF TypeOK
    <2>C. cell'[p] = c /\ ~ InLog("memory", c) /\ UNCHANGED <<disk, kekFile, erased>>
      BY <1>1 DEF Encrypt, TypeOK
    <2>4. /\ mem'[p] = [loaded |-> TRUE, vault |-> disk, kek |-> kekFile]
          /\ pc'[p] = IF kekFile = NoKek THEN "newkek" ELSE "store"
          /\ cell'[p] = c /\ ~ InLog("memory", c)
          /\ UNCHANGED <<disk, kekFile, erased>>
      BY <2>A, <2>B, <2>C
    <2>5. CopyInv' /\ KekInv'
      BY <2>3, <2>4 DEF CopyInv, KekInv
    <2>6. StoringInv'
      BY <2>1, <2>3, <2>4 DEF StoringInv
    <2>7. ErasedInv' /\ KeptInv'
      BY <2>1, <2>4 DEF ErasedInv, KeptInv, KeysStayDestroyed
    <2> QED
      BY <2>5, <2>6, <2>7
  <1>2. ASSUME NEW p \in Process, NEW c \in Cell, Forget(p, c) PROVE VaultInv'
    <2>1. \A type, d : InLog(type, d)' = InLog(type, d)
      BY <1>2, InLogUnchanged DEF Forget
    <2>2. /\ \A q \in Process : q = p
          /\ pc'[p] = "gate" /\ cell'[p] = c /\ InLog("memory", c)
          /\ UNCHANGED <<disk, kekFile, mem, erased>>
      BY <1>2 DEF Forget, OneProcess, TypeOK
    <2>3. CopyInv' /\ KekInv'
      BY <2>2 DEF CopyInv, KekInv
    <2>4. StoringInv'
      BY <2>1, <2>2 DEF StoringInv
    <2>5. ErasedInv' /\ KeptInv'
      BY <2>1, <2>2 DEF ErasedInv, KeptInv, KeysStayDestroyed
    <2> QED
      BY <2>3, <2>4, <2>5
  <1>3. ASSUME NEW p \in Process, NEW c \in Cell, Read(p, c) PROVE VaultInv'
    <2>1. \A type, d : InLog(type, d)' = InLog(type, d)
      BY <1>3, InLogUnchanged DEF Read
    <2>2. PICK kek \in {mem[p].kek, kekFile} :
            mem' = [mem EXCEPT ![p] = [loaded |-> TRUE, vault |-> disk, kek |-> kek]]
      BY <1>3, <1>l DEF Read
    <2>3. /\ \A q \in Process : q = p
          /\ mem'[p] = [loaded |-> TRUE, vault |-> disk, kek |-> kek]
          /\ pc[p] = "idle"
          /\ UNCHANGED <<disk, kekFile, pc, cell, erased>>
      BY <1>3, <2>2 DEF Read, OneProcess, TypeOK
    <2>4. CopyInv' /\ KekInv'
      BY <2>2, <2>3 DEF CopyInv, KekInv
    <2>5. StoringInv'
      BY <2>1, <2>3 DEF StoringInv
    <2>6. ErasedInv' /\ KeptInv'
      BY <2>1, <2>3 DEF ErasedInv, KeptInv, KeysStayDestroyed
    <2> QED
      BY <2>4, <2>5, <2>6
  <1>4. ASSUME NEW p \in Process, NewKek(p) PROVE VaultInv'
    <2>1. \A type, d : InLog(type, d)' = InLog(type, d)
      BY <1>4, InLogUnchanged DEF NewKek, Goto
    <2>2. /\ \A q \in Process : q = p
          /\ mem' = [mem EXCEPT ![p].kek = p] /\ kekFile' = p /\ p # NoKek
          /\ pc[p] = "newkek" /\ pc'[p] = "store"
          /\ UNCHANGED <<disk, cell, erased>>
      BY <1>4 DEF NewKek, Goto, OneProcess, TypeOK
    <2>3. mem'[p].kek = p /\ mem'[p].loaded = mem[p].loaded /\ mem'[p].vault = mem[p].vault
      BY <2>2 DEF TypeOK
    <2>4. kekFile = NoKek /\ \A c \in Cell : disk.wrapped[c] = NoKek
      BY <2>2 DEF StoringInv, KekInv
    <2>5. CopyInv' /\ KekInv'
      BY <2>2, <2>3, <2>4 DEF CopyInv, KekInv
    <2>6. StoringInv'
      BY <2>1, <2>2, <2>3 DEF StoringInv
    <2>7. ErasedInv' /\ KeptInv'
      BY <2>1, <2>2, <2>4 DEF ErasedInv, KeptInv, KeysStayDestroyed
    <2> QED
      BY <2>5, <2>6, <2>7
  <1>5. ASSUME NEW p \in Process, Store(p) PROVE VaultInv'
    <2>1. \A type, d : InLog(type, d)' = InLog(type, d)
      BY <1>5, InLogUnchanged DEF Store, Goto
    <2> DEFINE vault == [disk EXCEPT !.wrapped[cell[p]] = kekFile]
    <2>2. /\ \A q \in Process : q = p
          /\ pc[p] = "store" /\ pc'[p] = "seal" /\ cell[p] \in Cell
          /\ UNCHANGED <<kekFile, cell, erased>>
      BY <1>5 DEF Store, Goto, OneProcess, TypeOK
    <2>3. mem[p].loaded /\ mem[p].vault = disk /\ mem[p].kek = kekFile /\ kekFile # NoKek
      BY <2>2 DEF StoringInv, CopyInv
    <2>4. mem' = [mem EXCEPT ![p].vault = vault] /\ disk' = vault
      BY <1>5, <2>3 DEF Store
    <2>5. /\ disk'.tombstones = disk.tombstones
          /\ disk'.wrapped[cell[p]] = kekFile
          /\ \A c \in Cell : c # cell[p] => disk'.wrapped[c] = disk.wrapped[c]
      BY <2>2, <2>4 DEF TypeOK, Vault
    <2> HIDE DEF vault
    <2>6. mem'[p].kek = mem[p].kek /\ mem'[p].loaded = mem[p].loaded /\ mem'[p].vault = disk'
      BY <2>4 DEF TypeOK
    <2>7. ~ InLog("memory", cell[p]) /\ cell[p] \notin erased
      BY <2>2 DEF StoringInv, ErasedInv
    <2>8. CopyInv' /\ KekInv'
      BY <2>2, <2>3, <2>5, <2>6 DEF CopyInv, KekInv
    <2>9. StoringInv'
      BY <2>1, <2>2, <2>3, <2>5, <2>6, <2>7 DEF StoringInv
    <2>10. ErasedInv' /\ KeptInv'
      BY <2>1, <2>2, <2>5, <2>7 DEF ErasedInv, KeptInv, KeysStayDestroyed, TypeOK
    <2> QED
      BY <2>8, <2>9, <2>10
  <1>6. ASSUME NEW p \in Process, NEW type \in {"memory", "gate", "forgotten"}, NEW at,
               pc[p] # "idle", Appended(p, type, at),
               at = "idle" \/ (at = "erase" /\ type = "gate"),
               type = "memory" => pc[p] = "seal", type = "gate" => pc[p] = "gate",
               type = "forgotten" => pc[p] = "tombstone"
        PROVE  VaultInv'
    <2>1. cell[p] \in Cell /\ \A ty, c : InLog(ty, c)' <=> InLog(ty, c) \/ (ty = type /\ c = cell[p])
      BY <1>6, AppendedEntry
    <2>2. /\ \A q \in Process : q = p
          /\ pc'[p] = at /\ (at # "idle" => cell'[p] = cell[p])
          /\ UNCHANGED <<disk, kekFile, mem, erased>>
      BY <1>6 DEF Appended, OneProcess, TypeOK
    <2>3. CopyInv' /\ KekInv'
      BY <2>2 DEF CopyInv, KekInv
    <2>4. StoringInv'
      BY <1>6, <2>1, <2>2 DEF StoringInv
    <2>5. ErasedInv'
      BY <1>6, <2>1, <2>2 DEF ErasedInv, KeysStayDestroyed, CallsInv
    <2>6. KeptInv'
      BY <1>6, <2>1, <2>2 DEF KeptInv, StoringInv
    <2> QED
      BY <2>3, <2>4, <2>5, <2>6
  <1>7. ASSUME NEW p \in Process, Seal(p) \/ Gate(p) \/ Tombstone(p) PROVE VaultInv'
    BY <1>6, <1>7 DEF Seal, Gate, Tombstone
  <1>8. ASSUME NEW p \in Process, SealFails(p) \/ GateFails(p) \/ TombstoneFails(p) \/ Crash(p)
        PROVE  VaultInv'
    <2>1. \A type, c : InLog(type, c)' = InLog(type, c)
      BY <1>8, InLogUnchanged DEF SealFails, GateFails, TombstoneFails, Raised, Crash
    <2>2. /\ \A q \in Process : q = p
          /\ pc'[p] = "idle" /\ UNCHANGED <<disk, kekFile, erased>>
      BY <1>8 DEF SealFails, GateFails, TombstoneFails, Raised, Crash, OneProcess, TypeOK
    <2>3. mem' = mem \/ mem' = [mem EXCEPT ![p] = NewProcess]
      BY <1>8 DEF SealFails, GateFails, TombstoneFails, Raised, Crash
    <2>4. mem'[p] = mem[p] \/ (mem'[p].loaded = FALSE /\ mem'[p].kek = NoKek)
      BY <2>3 DEF TypeOK, NewProcess
    <2>5. CopyInv' /\ KekInv'
      BY <2>2, <2>4 DEF CopyInv, KekInv
    <2>6. StoringInv'
      BY <2>2 DEF StoringInv
    <2>7. ErasedInv' /\ KeptInv'
      BY <2>1, <2>2 DEF ErasedInv, KeptInv, KeysStayDestroyed
    <2> QED
      BY <2>5, <2>6, <2>7
  <1>9. ASSUME NEW p \in Process, Erase(p) PROVE VaultInv'
    <2>1. \A type, c : InLog(type, c)' = InLog(type, c)
      BY <1>9, InLogUnchanged DEF Erase
    <2> DEFINE vault == [wrapped    |-> [disk.wrapped EXCEPT ![cell[p]] = NoKek],
                         tombstones |-> disk.tombstones \cup {cell[p]}]
    <2>2. /\ \A q \in Process : q = p
          /\ pc[p] = "erase" /\ pc'[p] = "tombstone" /\ cell[p] \in Cell
          /\ erased' = erased \cup {cell[p]} /\ UNCHANGED <<kekFile, cell>>
      BY <1>9 DEF Erase, OneProcess, TypeOK
    <2>3. mem' = [mem EXCEPT ![p].loaded = TRUE, ![p].vault = vault] /\ disk' = vault
      BY <1>9, <1>l DEF Erase
    <2>4. /\ disk'.tombstones = disk.tombstones \cup {cell[p]}
          /\ disk'.wrapped[cell[p]] = NoKek
          /\ \A c \in Cell : c # cell[p] => disk'.wrapped[c] = disk.wrapped[c]
      BY <2>2, <2>3 DEF TypeOK, Vault
    <2> HIDE DEF vault
    <2>5. mem'[p].kek = mem[p].kek /\ mem'[p].vault = disk'
      BY <2>3 DEF TypeOK
    <2>6. InLog("memory", cell[p])
      BY <2>2 DEF StoringInv
    <2>7. CopyInv' /\ KekInv'
      BY <2>2, <2>4, <2>5 DEF CopyInv, KekInv
    <2>8. StoringInv'
      BY <2>1, <2>2, <2>6 DEF StoringInv
    <2>9. ErasedInv' /\ KeptInv'
      BY <2>1, <2>2, <2>4, <2>6 DEF ErasedInv, KeptInv, KeysStayDestroyed, TypeOK
    <2> QED
      BY <2>7, <2>8, <2>9
  <1>10. CASE UNCHANGED vars
    <2>1. UNCHANGED <<disk, kekFile, mem, pc, cell, log, erased>>
      BY <1>10 DEF vars
    <2> QED
      BY <2>1, InLogUnchanged
      DEF CopyInv, KekInv, StoringInv, ErasedInv, KeptInv, KeysStayDestroyed
  <1> QED
    BY <1>1, <1>2, <1>3, <1>4, <1>5, <1>7, <1>8, <1>9, <1>10 DEF Next

\* The vault invariant holds with one process.
LEMMA OneVault == OneProcess => (Spec => [](AuditInv /\ VaultInv))
  <1>1. Init => VaultInv
    BY DEF Init, VaultInv, CopyInv, KekInv, StoringInv, ErasedInv, KeptInv, KeysStayDestroyed,
           InLog, NewProcess, EmptyVault
  <1>2. Init => AuditInv
    BY InitType DEF Init, AuditInv, CallsInv, ErasureIsAudited
  <1>3. OneProcess /\ AuditInv /\ VaultInv /\ [Next]_vars => (AuditInv /\ VaultInv)'
    BY NextAudit, NextVault
  <1>4. ASSUME OneProcess PROVE Spec => [](AuditInv /\ VaultInv)
    <2>1. AuditInv /\ VaultInv /\ [Next]_vars => (AuditInv /\ VaultInv)'
      BY <1>3, <1>4
    <2> QED
      BY <1>1, <1>2, <2>1, PTL DEF Spec
  <1> QED
    BY <1>4

\* With one process a destroyed key stays destroyed, through any crashes.
THEOREM ErasedStaysErased == OneProcess => (Spec => []KeysStayDestroyed)
  <1> SUFFICES ASSUME OneProcess PROVE Spec => []KeysStayDestroyed
    OBVIOUS
  <1>1. AuditInv /\ VaultInv => KeysStayDestroyed
    BY VaultImplies
  <1>2. Spec => [](AuditInv /\ VaultInv)
    BY OneVault
  <1> QED
    BY <1>1, <1>2, PTL

\* With one process a sealed memory that nobody has forgotten can be read.
THEOREM KeptIsReadable == OneProcess => (Spec => []KeptReadable)
  <1> SUFFICES ASSUME OneProcess PROVE Spec => []KeptReadable
    OBVIOUS
  <1>1. AuditInv /\ VaultInv => KeptReadable
    BY VaultImplies
  <1>2. Spec => [](AuditInv /\ VaultInv)
    BY OneVault
  <1> QED
    BY <1>1, <1>2, PTL

\* With one process the record of forgetting is neither false nor incomplete.
THEOREM RecordIsTrue == OneProcess => (Spec => []ForgettingOnRecord)
  <1> SUFFICES ASSUME OneProcess PROVE Spec => []ForgettingOnRecord
    OBVIOUS
  <1>1. AuditInv /\ VaultInv => ForgettingOnRecord
    BY VaultImplies DEF AuditInv, ForgettingOnRecord
  <1>2. Spec => [](AuditInv /\ VaultInv)
    BY OneVault
  <1> QED
    BY <1>1, <1>2, PTL
=============================================================================

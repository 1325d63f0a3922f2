------------------------- MODULE VerifiedForgetting -------------------------
(***************************************************************************)
(* Cryptographic erasure (src/src/zaxy/forgetting.py, and verified_forget  *)
(* in src/src/zaxy/core/fabric_write.py).  A forgettable memory is sealed  *)
(* in the log as ciphertext; its key is wrapped under a key-encryption key *)
(* and kept in a vault file beside the log.  Forgetting destroys the       *)
(* wrapped key and appends a tombstone.                                    *)
(*                                                                         *)
(* Each process reads the vault file once, works on its copy, and rewrites *)
(* the whole file: the rewrite itself is atomic (os.replace).              *)
(* A wrapped key is represented by the key-encryption key it is wrapped    *)
(* under, and that key by the process that made it.                        *)
(***************************************************************************)
EXTENDS Integers, Sequences

CONSTANTS Process,      \* processes that append, forget and read
          Cell,         \* cipher cells; a cell id is never used twice
          NoKek,        \* no key-encryption key; no wrapped key
          NoCell,       \* the process works on no cell
          MaxForgets,   \* bound: verified_forget calls
          MaxFailures,  \* bound: appends to the log that fail
          MaxCrashes    \* bound: processes that die

ASSUME ForgettingAssumption ==
  /\ NoKek \notin Process
  /\ NoCell \notin Cell
  /\ MaxForgets \in Nat
  /\ MaxFailures \in Nat
  /\ MaxCrashes \in Nat

VARIABLES
  disk,       \* the vault file: [wrapped, tombstones]
  kekFile,    \* the key-encryption key in its file, or NoKek
  mem,        \* mem[p]: the vault object of process p
  pc,         \* pc[p]: where the call of p is
  cell,       \* cell[p]: cell the call of p is about, or NoCell
  log,        \* the session log: memories, gate decisions and tombstones
  forgets,    \* number of verified_forget calls
  failures,   \* number of appends to the log that failed
  crashes,    \* number of crashes
  erased,     \* cells whose key some process destroyed (history)
  alarmed,    \* cells reported by ForgetTombstoneUnauditedError (history)
  interrupted \* cells whose erasure a crash cut from its tombstone (history)

vars == <<disk, kekFile, mem, pc, cell, log, forgets, failures, crashes,
          erased, alarmed, interrupted>>
-----------------------------------------------------------------------------
Kek == Process
Vault == [wrapped : [Cell -> Kek \cup {NoKek}], tombstones : SUBSET Cell]
EmptyVault == [wrapped |-> [c \in Cell |-> NoKek], tombstones |-> {}]
NewProcess == [loaded |-> FALSE, vault |-> EmptyVault, kek |-> NoKek]
Entry == [type : {"memory", "gate", "forgotten"}, cell : Cell]

InLog(type, c) == \E i \in DOMAIN log : log[i] = [type |-> type, cell |-> c]

Init ==
  /\ disk = EmptyVault
  /\ kekFile = NoKek
  /\ mem = [p \in Process |-> NewProcess]
  /\ pc = [p \in Process |-> "idle"]
  /\ cell = [p \in Process |-> NoCell]
  /\ log = <<>>
  /\ forgets = 0
  /\ failures = 0
  /\ crashes = 0
  /\ erased = {}
  /\ alarmed = {}
  /\ interrupted = {}

(* The vault of p, read from its file on first use. *)
Loaded(p) == IF mem[p].loaded THEN mem[p].vault ELSE disk

(* The call of p goes on at `at`; nothing in the log or the history moves. *)
Goto(p, at) ==
  /\ pc' = [pc EXCEPT ![p] = at]
  /\ UNCHANGED <<cell, log, forgets, failures, crashes, erased, alarmed, interrupted>>

(* append(forgettable=True) is called: the payload is encrypted to a new   *)
(* cell, and the vault and the key-encryption key are looked up.           *)
Encrypt(p, c) ==
  /\ pc[p] = "idle"
  /\ ~ InLog("memory", c)
  /\ \A q \in Process : cell[q] # c /\ Loaded(q).wrapped[c] = NoKek
  /\ disk.wrapped[c] = NoKek
  /\ LET kek == IF mem[p].kek # NoKek THEN mem[p].kek ELSE kekFile
     IN  /\ mem' = [mem EXCEPT ![p] = [loaded |-> TRUE, vault |-> Loaded(p), kek |-> kek]]
         /\ pc' = [pc EXCEPT ![p] = IF kek = NoKek THEN "newkek" ELSE "store"]
  /\ cell' = [cell EXCEPT ![p] = c]
  /\ UNCHANGED <<disk, kekFile, log, forgets, failures, crashes, erased, alarmed, interrupted>>

(* No key file was found: a new key-encryption key is made and written. *)
NewKek(p) ==
  /\ pc[p] = "newkek"
  /\ kekFile' = p
  /\ mem' = [mem EXCEPT ![p].kek = p]
  /\ Goto(p, "store")
  /\ UNCHANGED disk

(* Mutation of Store: the wrapped key is persisted with the next change. *)
Store_Lazily(p) ==
  /\ pc[p] = "store"
  /\ mem' = [mem EXCEPT ![p].vault.wrapped[cell[p]] = mem[p].kek]
  /\ Goto(p, "seal")
  /\ UNCHANGED <<disk, kekFile>>

(* Mutation of Store: the rewritten file leaves the tombstones out. *)
Store_WithoutTombstones(p) ==
  /\ pc[p] = "store"
  /\ LET vault == [mem[p].vault EXCEPT !.wrapped[cell[p]] = mem[p].kek]
     IN  /\ mem' = [mem EXCEPT ![p].vault = vault]
         /\ disk' = [vault EXCEPT !.tombstones = {}]
  /\ Goto(p, "seal")
  /\ UNCHANGED kekFile

(* store_wrapped: the key is wrapped, and the whole vault is rewritten. *)
Store(p) ==
  /\ pc[p] = "store"
  /\ LET vault == [mem[p].vault EXCEPT !.wrapped[cell[p]] = mem[p].kek]
     IN  /\ mem' = [mem EXCEPT ![p].vault = vault]
         /\ disk' = vault
  /\ Goto(p, "seal")
  /\ UNCHANGED kekFile

(* An append to the log ends: the entry is there, or the append raised. *)
Appended(p, type, at) ==
  /\ log' = Append(log, [type |-> type, cell |-> cell[p]])
  /\ pc' = [pc EXCEPT ![p] = at]
  /\ cell' = [cell EXCEPT ![p] = IF at = "idle" THEN NoCell ELSE @]
  /\ UNCHANGED <<disk, kekFile, mem, forgets, failures, crashes, erased, alarmed, interrupted>>

Raised(p) ==
  /\ failures < MaxFailures
  /\ failures' = failures + 1
  /\ pc' = [pc EXCEPT ![p] = "idle"]
  /\ cell' = [cell EXCEPT ![p] = NoCell]
  /\ UNCHANGED <<disk, kekFile, mem, log, forgets, crashes, erased, interrupted>>

(* The ciphertext is sealed and written. *)
Seal(p) == pc[p] = "seal" /\ Appended(p, "memory", "idle")

SealFails(p) == pc[p] = "seal" /\ Raised(p) /\ UNCHANGED alarmed

(* verified_forget is called on a sealed forgettable memory. *)
Forget(p, c) ==
  /\ pc[p] = "idle"
  /\ forgets < MaxForgets
  /\ InLog("memory", c)
  /\ forgets' = forgets + 1
  /\ pc' = [pc EXCEPT ![p] = "gate"]
  /\ cell' = [cell EXCEPT ![p] = c]
  /\ UNCHANGED <<disk, kekFile, mem, log, failures, crashes, erased, alarmed, interrupted>>

(* The decision of the forget gate is recorded, whatever it is. *)
Gate(p) == pc[p] = "gate" /\ Appended(p, "gate", "erase")

GateFails(p) == pc[p] = "gate" /\ Raised(p) /\ UNCHANGED alarmed

(* The wrapped key is destroyed and the whole vault is rewritten. *)
Erase(p) ==
  /\ pc[p] = "erase"
  /\ LET vault == [wrapped    |-> [Loaded(p).wrapped EXCEPT ![cell[p]] = NoKek],
                   tombstones |-> Loaded(p).tombstones \cup {cell[p]}]
     IN  /\ mem' = [mem EXCEPT ![p].loaded = TRUE, ![p].vault = vault]
         /\ disk' = vault
  /\ erased' = erased \cup {cell[p]}
  /\ pc' = [pc EXCEPT ![p] = "tombstone"]
  /\ UNCHANGED <<kekFile, cell, log, forgets, failures, crashes, alarmed, interrupted>>

(* The tombstone cites the erasure, and verified_forget returns. *)
Tombstone(p) == pc[p] = "tombstone" /\ Appended(p, "forgotten", "idle")

(* Mutation of TombstoneFails: the failure is a routine error. *)
TombstoneFails_Silent(p) == pc[p] = "tombstone" /\ Raised(p) /\ UNCHANGED alarmed

(* Mutation of TombstoneFails: the call does not end with its exception. *)
TombstoneFails_KeepsCell(p) ==
  /\ pc[p] = "tombstone"
  /\ failures < MaxFailures
  /\ failures' = failures + 1
  /\ pc' = [pc EXCEPT ![p] = "idle"]
  /\ alarmed' = alarmed \cup {cell[p]}
  /\ UNCHANGED <<disk, kekFile, mem, cell, log, forgets, crashes, erased, interrupted>>

(* The key is gone but its tombstone did not land: an alarm is raised. *)
TombstoneFails(p) ==
  /\ pc[p] = "tombstone"
  /\ Raised(p)
  /\ alarmed' = alarmed \cup {cell[p]}

(* A read of a forgettable memory loads the vault, and the key-encryption  *)
(* key if the vault holds a wrapped key for the cell.                      *)
Read(p, c) ==
  /\ pc[p] = "idle"
  /\ InLog("memory", c)
  /\ LET vault == Loaded(p)
         live  == c \notin vault.tombstones /\ vault.wrapped[c] # NoKek
     IN  mem' = [mem EXCEPT ![p] =
                  [loaded |-> TRUE,
                   vault  |-> vault,
                   kek    |-> IF live /\ mem[p].kek = NoKek THEN kekFile ELSE mem[p].kek]]
  /\ UNCHANGED <<disk, kekFile, pc, cell, log, forgets, failures, crashes,
                 erased, alarmed, interrupted>>

(* A process dies and is started again, without its vault object. *)
Crash(p) ==
  /\ crashes < MaxCrashes
  /\ crashes' = crashes + 1
  /\ interrupted' = IF pc[p] = "tombstone" THEN interrupted \cup {cell[p]} ELSE interrupted
  /\ mem' = [mem EXCEPT ![p] = NewProcess]
  /\ pc' = [pc EXCEPT ![p] = "idle"]
  /\ cell' = [cell EXCEPT ![p] = NoCell]
  /\ UNCHANGED <<disk, kekFile, log, forgets, failures, erased, alarmed>>

Next ==
  \E p \in Process :
    \/ \E c \in Cell : Encrypt(p, c) \/ Forget(p, c) \/ Read(p, c)
    \/ NewKek(p)
    \/ Store(p)
    \/ Seal(p)
    \/ SealFails(p)
    \/ Gate(p)
    \/ GateFails(p)
    \/ Erase(p)
    \/ Tombstone(p)
    \/ TombstoneFails(p)
    \/ Crash(p)

Spec == Init /\ [][Next]_vars
-----------------------------------------------------------------------------
TypeOK ==
  /\ disk \in Vault
  /\ kekFile \in Kek \cup {NoKek}
  /\ mem \in [Process -> [loaded : BOOLEAN, vault : Vault, kek : Kek \cup {NoKek}]]
  /\ pc \in [Process -> {"idle", "newkek", "store", "seal", "gate", "erase", "tombstone"}]
  /\ cell \in [Process -> Cell \cup {NoCell}]
  /\ log \in Seq(Entry)
  /\ forgets \in 0..MaxForgets
  /\ failures \in 0..MaxFailures
  /\ crashes \in 0..MaxCrashes
  /\ erased \subseteq Cell
  /\ alarmed \subseteq erased
  /\ interrupted \subseteq erased
  /\ \A p \in Process : cell[p] = NoCell <=> pc[p] = "idle"

(* decrypt_payload with vault v and key k gives the plaintext of c. *)
Decrypts(v, k, c) ==
  c \notin v.tombstones /\ v.wrapped[c] # NoKek /\ v.wrapped[c] = k

(* What process p reads of cell c now. *)
Reads(p, c) ==
  Decrypts(Loaded(p), IF mem[p].kek = NoKek THEN kekFile ELSE mem[p].kek, c)

(* "a tombstone can never claim an erasure that did not happen": a memory  *)
(* whose tombstone is in the log can be read by no process, and by none    *)
(* started later.                                                          *)
TombstonesAreTrue ==
  \A c \in Cell : InLog("forgotten", c) =>
    /\ disk.wrapped[c] = NoKek
    /\ \A p \in Process : ~ Reads(p, c)

(* A sealed memory that nobody has forgotten can be read, also by a        *)
(* process started after a crash: its key was durable before it was        *)
(* sealed, and no rewrite of the vault has dropped it.                     *)
KeptReadable ==
  \A c \in Cell : InLog("memory", c) /\ c \notin erased =>
    \A p \in Process : Reads(p, c)

(* No key is destroyed off the record: the gate was recorded first, and    *)
(* the tombstone is there unless the call is still going, has raised its   *)
(* alarm, or died with its process.                                        *)
ErasureIsAudited ==
  \A c \in erased :
    /\ InLog("gate", c)
    /\ \/ InLog("forgotten", c)
       \/ c \in alarmed \cup interrupted
       \/ \E p \in Process : cell[p] = c /\ pc[p] = "tombstone"

(* The record of forgetting is neither false nor incomplete. *)
ForgettingOnRecord == TombstonesAreTrue /\ ErasureIsAudited

(* "Erasing a cell pops its only wrapped-DEK copy": a destroyed key is not *)
(* in the vault file, whatever rewrites of the file follow, also by a      *)
(* process started after a crash.                                          *)
KeysStayDestroyed ==
  \A c \in erased : c \in disk.tombstones /\ disk.wrapped[c] = NoKek
=============================================================================

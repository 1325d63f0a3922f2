------------------------------ MODULE OwnerRuntime ------------------------------
(***************************************************************************)
(* mcp_runtime.py, with `zaxy serve` (cli/serving.py) and the life of the  *)
(* server (mcp_server.py): one process owns the embedded graph, the others *)
(* are proxies to its socket.  The owner is who holds an advisory lock; it *)
(* opens the graph, listens, and then publishes a record with its pid.  A  *)
(* server that does not get the lock tries to repair: it takes the lock of *)
(* a dead owner for a moment, or kills an owner whose socket is dead.      *)
(* `zaxy doctor` and `zaxy init` repair as well.                           *)
(*                                                                         *)
(* A process runs once: its name is its pid.  The lock goes with the death *)
(* of its holder, the files stay, and a pid may outlive its process as a   *)
(* zombie.  Timeouts are choices; a process whose command line or graph    *)
(* path would not tell that it is a zaxy serve of this store is not in the *)
(* model, nor are transports other than stdio, which take no lock.         *)
(***************************************************************************)
EXTENDS Naturals, FiniteSets

CONSTANTS
  Process,    \* every process that uses the runtime directory
  Server,     \* those that run zaxy serve; the others only repair
  Reaping,    \* those whose repair may kill (not `zaxy init`, plain doctor)
  Nobody,     \* no process, no file
  MaxCrashes, \* bound: processes that die at once
  MaxBreaks   \* bound: owners whose socket dies under them

ASSUME RuntimeAssumption ==
  /\ Server \subseteq Process /\ Server \subseteq Reaping /\ Reaping \subseteq Process
  /\ Nobody \notin Process
  /\ MaxCrashes \in Nat /\ MaxBreaks \in Nat

VARIABLES
  at,       \* where each process is
  repaired, \* the result of its repair; before that, whether it found files
  target,   \* the pid in the record it has read
  lock,     \* the holder of zaxy-embedded-owner.lock
  record,   \* the pid in zaxy-embedded-owner.json
  socket,   \* who made the file zaxy-embedded-owner.sock
  writers,  \* who has the graph open
  found,    \* history: the broken owner whose record a repair has read
  robbed,   \* history: a reaper has removed the files of another owner
  crashes, breaks

local == <<at, repaired, target>>
files == <<lock, record, socket>>
ownerVars == <<at, repaired, target, lock, record, socket, writers, found, robbed, crashes, breaks>>

Repair == {"repair", "probe", "look", "check", "terminate", "confirm", "clear", "unlink", "reclaim", "release"}
Holding == {"setup", "listen", "publish", "serving", "hung", "broken", "dying", "teardown",
            "remove", "unlock"}
Ended == {"off", "proxied", "failed", "done", "dead"}
UnderWay == {"claim", "decide", "claimAgain", "await", "setup", "listen", "publish"} \cup Repair
Step == UnderWay \cup Holding \cup Ended

Alive(p) == at[p] \notin {"off", "failed", "done", "dead"}

\* A connection to the socket is accepted while a process listens on it, even if
\* that hangs: the system accepts for it (its backlog is taken to have room).
Accepts == socket # Nobody /\ at[socket] \in {"publish", "serving", "hung"}

\* The system is still closing what a killed process had open.
Lingers == socket # Nobody /\ at[socket] = "dying"

Go(p, step) == at' = [at EXCEPT ![p] = step]

-----------------------------------------------------------------------------
OwnerInit ==
  /\ at = [p \in Process |-> "off"]
  /\ repaired = [p \in Process |-> FALSE]
  /\ target = [p \in Process |-> Nobody]
  /\ lock = Nobody /\ record = Nobody /\ socket = Nobody
  /\ found = [p \in Process |-> Nobody]
  /\ writers = {} /\ robbed = FALSE
  /\ crashes = 0 /\ breaks = 0

Start(p) ==
  /\ at[p] = "off"
  /\ Go(p, IF p \in Server THEN "claim" ELSE "repair")
  /\ UNCHANGED <<repaired, target, files, writers, found, robbed, crashes, breaks>>

(* Mutation of TryClaim: the files are removed before the lock is tried. *)
TryClaim_ClearsFirst(p, won, lost) ==
  /\ record' = Nobody /\ socket' = Nobody
  /\ IF lock = Nobody THEN lock' = p /\ Go(p, won) ELSE UNCHANGED lock /\ Go(p, lost)

\* try_claim_owner: who gets the lock removes what a dead owner has left.
TryClaim(p, won, lost) ==
  \/ /\ lock = Nobody
     /\ lock' = p /\ record' = Nobody /\ socket' = Nobody
     /\ Go(p, won)
  \/ /\ lock # Nobody
     /\ Go(p, lost)
     /\ UNCHANGED files

\* serve claims, and claims again after a repair; else it is a proxy.
Claim(p) ==
  /\ \/ at[p] = "claim" /\ TryClaim(p, "setup", "repair")
     \/ at[p] = "claimAgain" /\ TryClaim(p, "setup", "await")
  /\ UNCHANGED <<repaired, target, writers, found, robbed, crashes, breaks>>

-----------------------------------------------------------------------------
(* repair_stale_runtime *)

LookForFiles(p) ==
  /\ at[p] = "repair"
  /\ repaired' = [repaired EXCEPT ![p] = record # Nobody \/ socket # Nobody]
  /\ Go(p, "probe")
  /\ UNCHANGED <<target, files, writers, found, robbed, crashes, breaks>>

Probe(p) ==
  /\ at[p] = "probe"
  /\ TryClaim(p, "release", "look")
  /\ UNCHANGED <<repaired, target, writers, found, robbed, crashes, breaks>>

ReadRecord(p) ==
  /\ at[p] = "look"
  /\ target' = [target EXCEPT ![p] = record]
  /\ repaired' = [repaired EXCEPT ![p] = FALSE]
  /\ found' = [found EXCEPT ![p] =
                 IF record # Nobody THEN IF at[record] = "broken" THEN record ELSE Nobody ELSE Nobody]
  /\ Go(p, "check")
  /\ UNCHANGED <<files, writers, robbed, crashes, breaks>>

(* Mutation of Check: a live pid in the record is enough to kill. *)
Check_RecordOnly(p) ==
  /\ at[p] = "check"
  /\ IF p \in Reaping /\ target[p] \notin {Nobody, p} /\ Alive(target[p])
     THEN Go(p, "terminate") /\ UNCHANGED target
     ELSE Go(p, "decide") /\ target' = [target EXCEPT ![p] = Nobody]
  /\ UNCHANGED <<repaired, files, writers, found, robbed, crashes, breaks>>

(* Mutation of Check: a socket file passes for a socket that answers. *)
Check_FileExists(p) ==
  /\ at[p] = "check"
  /\ IF p \in Reaping /\ target[p] \notin {Nobody, p} /\ socket = Nobody /\ Alive(target[p])
     THEN Go(p, "terminate") /\ UNCHANGED target
     ELSE Go(p, "decide") /\ target' = [target EXCEPT ![p] = Nobody]
  /\ UNCHANGED <<repaired, files, writers, found, robbed, crashes, breaks>>

\* An owner whose socket answers is left alone; one whose socket does not, and
\* whose record names a live process, may be killed.  One that is being killed
\* may still answer, or have no command line any more.
Check(p) ==
  /\ at[p] = "check"
  /\ \/ /\ p \in Reaping
        /\ target[p] \notin {Nobody, p} /\ ~Accepts
        /\ Alive(target[p])
        /\ Go(p, "terminate") /\ UNCHANGED target
     \/ /\ \/ p \notin Reaping
           \/ target[p] \in {Nobody, p} \/ Accepts \/ Lingers
           \/ target[p] # Nobody /\ (~Alive(target[p]) \/ at[target[p]] = "dying")
        /\ Go(p, "decide") /\ target' = [target EXCEPT ![p] = Nobody]
  /\ UNCHANGED <<repaired, files, writers, found, robbed, crashes, breaks>>

\* What the death of v leaves: the system drops its locks, its files remain.
Dies(v) ==
  /\ lock' = IF lock = v THEN Nobody ELSE lock
  /\ writers' = writers \ {v}
  /\ UNCHANGED <<record, socket>>

\* SIGTERM: a server that has installed its handler and runs its loop shuts down,
\* one without handler dies, one that hangs does neither.  If the pid is not gone
\* after three seconds (or if it is a zombie), SIGKILL.
Terminate(p) ==
  LET v == target[p] IN
  /\ at[p] = "terminate"
  /\ \/ /\ at[v] \in {"serving", "hung", "broken"}
        /\ Go(v, "teardown")
        /\ UNCHANGED target
     \/ /\ Alive(v) /\ at[v] # "dying"
        /\ Go(v, "dying")
        /\ UNCHANGED target
     \/ /\ at' = [at EXCEPT ![v] = IF Alive(v) THEN "dying" ELSE @, ![p] = "confirm"]
        /\ UNCHANGED target
     \/ /\ ~Alive(v)
        /\ Go(p, "clear")
        /\ target' = [target EXCEPT ![p] = Nobody]
  /\ UNCHANGED <<repaired, files, writers, found, robbed, crashes, breaks>>

\* 50 ms later the pid is gone, or it is still there, of a process that is not
\* dead yet or of a zombie: then the repair ends with a warning.
Confirm(p) ==
  /\ at[p] = "confirm"
  /\ \/ ~Alive(target[p]) /\ Go(p, "clear")
     \/ Go(p, "decide")
  /\ target' = [target EXCEPT ![p] = Nobody]
  /\ UNCHANGED <<repaired, files, writers, found, robbed, crashes, breaks>>

\* The killed process is dead.
Vanish(v) ==
  /\ at[v] = "dying"
  /\ Go(v, "dead")
  /\ Dies(v)
  /\ UNCHANGED <<repaired, target, found, robbed, crashes, breaks>>

\* _clear_stale_runtime_files, file by file and without the lock ...
Clear(p) ==
  /\ \/ at[p] = "clear" /\ record' = Nobody /\ Go(p, "unlink") /\ UNCHANGED socket
     \/ at[p] = "unlink" /\ socket' = Nobody /\ Go(p, "reclaim") /\ UNCHANGED record
  /\ robbed' = (robbed \/ lock # Nobody)
  /\ UNCHANGED <<repaired, target, lock, writers, found, crashes, breaks>>

\* ... and then the claim.
Reclaim(p) ==
  /\ at[p] = "reclaim"
  /\ TryClaim(p, "release", "decide")
  /\ repaired' = [repaired EXCEPT ![p] = lock = Nobody]
  /\ UNCHANGED <<target, writers, found, robbed, crashes, breaks>>

(* Mutation of Release: the repair keeps its claim. *)
Release_KeepsLock(p) ==
  /\ at[p] = "release"
  /\ Go(p, "decide")
  /\ UNCHANGED <<repaired, target, files, writers, found, robbed, crashes, breaks>>

\* A repair closes its claim at once.
Release(p) ==
  /\ at[p] = "release"
  /\ lock' = Nobody /\ record' = Nobody /\ socket' = Nobody
  /\ Go(p, "decide")
  /\ UNCHANGED <<repaired, target, writers, found, robbed, crashes, breaks>>

Decide(p) ==
  /\ at[p] = "decide"
  /\ Go(p, IF p \notin Server THEN "done" ELSE IF repaired[p] THEN "claimAgain" ELSE "await")
  /\ repaired' = [repaired EXCEPT ![p] = FALSE]
  /\ UNCHANGED <<target, files, writers, found, robbed, crashes, breaks>>

-----------------------------------------------------------------------------
(* The life of an owner, and of a proxy *)

\* ZaxyMCPServer.setup opens the graph; if it raises, the claim is closed.
Setup(p) ==
  /\ at[p] = "setup"
  /\ \/ Go(p, "listen") /\ writers' = writers \cup {p}
     \/ Go(p, "remove") /\ UNCHANGED writers
  /\ UNCHANGED <<repaired, target, files, found, robbed, crashes, breaks>>

Listen(p) ==
  /\ at[p] = "listen"
  /\ socket' = p
  /\ Go(p, "publish")
  /\ UNCHANGED <<repaired, target, lock, record, writers, found, robbed, crashes, breaks>>

Publish(p) ==
  /\ at[p] = "publish"
  /\ record' = p
  /\ Go(p, "serving")
  /\ UNCHANGED <<repaired, target, lock, socket, writers, found, robbed, crashes, breaks>>

\* The owner's socket server fails or loses its file: it lives, nobody gets in.
Break(p) ==
  /\ at[p] \in {"serving", "hung"} /\ breaks < MaxBreaks
  /\ breaks' = breaks + 1
  /\ Go(p, "broken")
  /\ UNCHANGED <<repaired, target, files, writers, found, robbed, crashes>>

\* The owner's event loop hangs, and may come back.
Hang(p) ==
  /\ \/ at[p] = "serving" /\ Go(p, "hung")
     \/ at[p] = "hung" /\ Go(p, "serving")
  /\ UNCHANGED <<repaired, target, files, writers, found, robbed, crashes, breaks>>

\* The client closes the pipe, the parent dies, or a signal comes.
Shutdown(p) ==
  /\ at[p] \in {"serving", "broken"}
  /\ Go(p, "teardown")
  /\ UNCHANGED <<repaired, target, files, writers, found, robbed, crashes, breaks>>

Teardown(p) ==
  /\ at[p] = "teardown"
  /\ writers' = writers \ {p}
  /\ Go(p, "remove")
  /\ UNCHANGED <<repaired, target, files, found, robbed, crashes, breaks>>

\* EmbeddedMcpOwnerClaim.close: the files, then the lock.
Remove(p) ==
  /\ at[p] = "remove"
  /\ record' = Nobody /\ socket' = Nobody
  /\ Go(p, "unlock")
  /\ UNCHANGED <<repaired, target, lock, writers, found, robbed, crashes, breaks>>

Unlock(p) ==
  /\ at[p] = "unlock"
  /\ lock' = Nobody
  /\ Go(p, "dead")
  /\ UNCHANGED <<repaired, target, record, socket, writers, found, robbed, crashes, breaks>>

\* wait_for_owner_record: a record and a socket that answers, or ten seconds.
Await(p) ==
  /\ at[p] = "await"
  /\ \/ record # Nobody /\ (Accepts \/ Lingers) /\ Go(p, "proxied")
     \/ Go(p, "failed")
  /\ UNCHANGED <<repaired, target, files, writers, found, robbed, crashes, breaks>>

CrashOf(p) ==
  /\ Alive(p) /\ at[p] # "proxied" /\ crashes < MaxCrashes
  /\ crashes' = crashes + 1
  /\ Go(p, "dead")
  /\ Dies(p)
  /\ repaired' = [repaired EXCEPT ![p] = FALSE]
  /\ target' = [target EXCEPT ![p] = Nobody]
  /\ UNCHANGED <<found, robbed, breaks>>

Own(p) ==
  \/ Claim(p) \/ LookForFiles(p) \/ Probe(p) \/ ReadRecord(p) \/ Check(p) \/ Terminate(p)
  \/ Confirm(p) \/ Clear(p) \/ Reclaim(p) \/ Release(p) \/ Decide(p)
  \/ Setup(p) \/ Listen(p) \/ Publish(p) \/ Teardown(p) \/ Remove(p) \/ Unlock(p) \/ Await(p)

OwnerNext ==
  \E p \in Process :
    Start(p) \/ Own(p) \/ Vanish(p) \/ Break(p) \/ Hang(p) \/ Shutdown(p) \/ CrashOf(p)

OwnerSpec == OwnerInit /\ [][OwnerNext]_ownerVars

-----------------------------------------------------------------------------
\* Every variable has its type, the lock is held by who may hold it, and the
\* target of a reaper is another process.
OwnerTypeOK ==
  /\ at \in [Process -> Step]
  /\ repaired \in [Process -> BOOLEAN]
  /\ {target, found} \subseteq [Process -> Process \cup {Nobody}]
  /\ {lock, record, socket} \subseteq Process \cup {Nobody}
  /\ writers \subseteq Server /\ robbed \in BOOLEAN
  /\ crashes \in 0..MaxCrashes /\ breaks \in 0..MaxBreaks
  /\ \A p \in Process : (lock = p) = (at[p] \in Holding \cup {"release"})
  /\ \A p \in Process : target[p] # p

\* "one workspace zaxy serve process owns the repo-local LadybugDB graph in
\* read-write mode": over starts, repairs, kills and shutdowns that overlap, no
\* two processes have the graph open.
OneWriter == Cardinality(writers) <= 1

\* An owner that serves, or hangs while it serves, can be found: no repair, claim
\* or late shutdown of another process takes its record or its socket away, but
\* for a reaper that clears after the kill without holding the lock.
OwnerReachable ==
  \A p \in Process : at[p] \in {"serving", "hung"} /\ ~robbed => record = p /\ Accepts

\* There is one owner, and it can be found.
OneOwner == OneWriter /\ OwnerReachable

\* "a healthy owner is never reaped": who is killed cannot be reached at that
\* moment, whatever happened since the reaper read the record and tried the
\* socket.
ReapsOnlyUnreachable ==
  [][\A p \in Process :
       Terminate(p) /\ Alive(target[p]) => ~(record = target[p] /\ Accepts)]_ownerVars

\* "A live-but-broken owner (lock held, socket dead) would wedge every client": a
\* repair that may kill, and has read the record of an owner whose socket is dead,
\* ends only when that owner shuts down, has been sent SIGKILL, or is gone, whoever
\* else tries to kill it or clears the files meanwhile.  (Whether it is gone when
\* the repair ends is another matter: see Confirm.)
BrokenIsReaped ==
  \A p \in Reaping :
    found[p] # Nobody /\ at[p] \notin Repair \cup {"dead"} => at[found[p]] # "broken"
=============================================================================

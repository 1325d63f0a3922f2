--------------------------- MODULE AppendOnlyLog ---------------------------
(***************************************************************************)
(* What a session log promises to every other part of Zaxy, with the file, *)
(* the locks and the crashes left out: a history of events that only ever  *)
(* grows at its end, in which every event names its predecessor, and of    *)
(* which a caller is told only what has become part of it.                 *)
(*                                                                         *)
(* Eventloom implements this specification (the mapping is in that module);*)
(* the modules of the components above the log use one Append step for a   *)
(* whole append_many call, which is what this specification justifies.     *)
(***************************************************************************)
EXTENDS Integers, Sequences, SequencesExt

CONSTANT NoHash          \* prev_hash of the first event (None in the code)

VARIABLES log,           \* the events of the log, in order
          acked          \* identities of the events append_many has returned

logVars == <<log, acked>>

(* verify_event_chain accepts the events: contiguous sequence numbers from *)
(* 1, each event linked to the one before it.  The seal of an event is its *)
(* identity, so that two events never share a hash.                        *)
Chained(events) ==
  \A i \in DOMAIN events :
    /\ events[i].seq = i
    /\ events[i].prev = IF i = 1 THEN NoHash ELSE events[i - 1].id

IdsOf(events) == {events[i].id : i \in DOMAIN events}

LogInit ==
  /\ log = <<>>
  /\ acked = {}

(* The log grows at its end, by one event or more. *)
Extend ==
  /\ Len(log') > Len(log)
  /\ IsPrefix(log, log')
  /\ Chained(log')

(* An append that returned: all it wrote is acknowledged. *)
Append_(ids) ==
  /\ Extend
  /\ acked' = acked \cup ids
  /\ ids = IdsOf(log') \ IdsOf(log)

(* An append whose process died: what it wrote is there, unacknowledged. *)
AppendUnacked ==
  /\ Extend
  /\ UNCHANGED acked

LogNext ==
  \/ Append_(IdsOf(log') \ IdsOf(log))
  \/ AppendUnacked

LogSpec == LogInit /\ [][LogNext]_logVars
=============================================================================

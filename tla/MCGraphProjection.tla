------------------------- MODULE MCGraphProjection -------------------------
(* Instances of GraphProjection for TLC: an actor proposes a task; a task  *)
(* is said twice, differently, and related to itself; an actor claims a    *)
(* task by a name of no type, which somebody's reinforcement may say; one  *)
(* event is refused by its extraction rule.                                *)
EXTENDS GraphProjection

CONSTANTS actor, job, untyped, known, proposed, completed

Of(name, content) == [name |-> name, content |-> content]

Event(says, links) == [says |-> says, links |-> links, sound |-> TRUE]

Proposed == Event(<<Of(job, proposed), Of(actor, known)>>, {<<actor, job>>})

Revised == Event(<<Of(job, proposed), Of(job, completed)>>, {<<job, job>>})

Claimed == Event(<<Of(actor, known)>>, {<<actor, untyped>>})

Reinforced == Event(<<Of(untyped, known)>>, {})

Refused == [says |-> <<>>, links |-> {}, sound |-> FALSE]

MCExtracts == {Proposed, Revised, Claimed, Reinforced, Refused}
=============================================================================

--------------------------- MODULE ChangeDelivery ---------------------------
(***************************************************************************)
(* What one resource-sync watcher promises to its informers: a change that *)
(* the change queue accepted is delivered to MCP, or overtaken by a newer  *)
(* change of the same resource; MCP never goes back to an older change.    *)
(* Nothing is said about how: no queue, no buffer, no batches, no retries. *)
(* Once the watcher is closed the promise of delivery ends, the promise of *)
(* order does not.                                                         *)
(***************************************************************************)
EXTENDS Naturals

CONSTANTS
  Resources,  \* the resource identifiers (buildResourceID)
  Changes     \* the changes: records with at least the fields ID and ver

VARIABLES
  accepted,   \* the newest accepted change of every resource
  delivered,  \* the last change of every resource that MCP applied
  closed      \* TRUE once the watcher is being stopped

vars == <<accepted, delivered, closed>>

\* The place holder before the first change of r.
NoChange(r) == [ID |-> r, Action |-> "NONE", ver |-> 0]

Init ==
  /\ accepted = [r \in Resources |-> NoChange(r)]
  /\ delivered = accepted
  /\ closed = FALSE

\* A newer change of c's resource enters.
Accept(c) ==
  /\ c.ver > accepted[c.ID].ver
  /\ accepted' = [accepted EXCEPT ![c.ID] = c]
  /\ UNCHANGED <<delivered, closed>>

\* MCP moves every resource of S forward, to at most the newest accepted one.
Deliver(S) ==
  /\ \E new \in [S -> Changes] :
       /\ \A r \in S : /\ new[r].ID = r
                       /\ new[r].ver \in delivered[r].ver .. accepted[r].ver
                       /\ new[r].ver = accepted[r].ver => new[r] = accepted[r]
       /\ delivered' = [r \in Resources |-> IF r \in S THEN new[r] ELSE delivered[r]]
  /\ UNCHANGED <<accepted, closed>>

Close ==
  /\ ~closed
  /\ closed' = TRUE
  /\ UNCHANGED <<accepted, delivered>>

Next ==
  \/ \E c \in Changes : Accept(c)
  \/ \E S \in SUBSET Resources : Deliver(S)
  \/ Close

Safety == Init /\ [][Next]_vars

\* An accepted change is delivered or overtaken, unless the watcher closes first.
Delivery(r, v) == accepted[r].ver = v ~> (closed \/ delivered[r].ver >= v)

Spec == Safety /\ \A r \in Resources, v \in {c.ver : c \in Changes} : Delivery(r, v)
=============================================================================

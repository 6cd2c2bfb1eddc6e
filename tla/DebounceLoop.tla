---------------------------- MODULE DebounceLoop ----------------------------
(***************************************************************************)
(* One debounce goroutine as the reconciler and MCP see it, from its start *)
(* to its return.  Changes wait in a set: where each is, in the channel or *)
(* in the buffer, is not said, nor how often a request is tried.  What is  *)
(* said is which of them a flush may post, and what has become of the      *)
(* others when it ends.  ver orders the changes of one resource.           *)
(*                                                                         *)
(* Module DebounceBuffer implements this specification, and every slot of  *)
(* module ResourceSync behaves by it.                                      *)
(***************************************************************************)
EXTENDS Naturals

CONSTANTS
  Resources,  \* resource identifiers
  States      \* what a change says of its resource, and what MCP stores of it

VARIABLES
  waiting,    \* the changes in the channel or in the buffer
  batch,      \* the changes of the flush under way
  run,        \* where the goroutine is: off, select, flush, final (its last flush)
  cancelled,  \* TRUE unless the watcher's context is live
  mcp         \* what MCP has stored

vars == <<waiting, batch, run, cancelled, mcp>>

Change == [ID : Resources, ver : Nat, state : States]

\* At most one change of each resource: the map of a buffer or a request.
IsMap(B) == \A c, d \in B : c.ID = d.ID => c = d

\* What MCP stores after it applied the changes of B.
Applied(B) ==
  [r \in Resources |->
     IF \E c \in B : c.ID = r THEN (CHOOSE c \in B : c.ID = r).state ELSE mcp[r]]

\* What waits after the changes of B are taken out of the buffer: what B overtakes
\* has been recorded before it, and is gone.
Beyond(B) == {c \in waiting : \A b \in B : b.ID = c.ID => b.ver < c.ver}

Init ==
  /\ waiting = {} /\ batch = {}
  /\ \/ run = "off" /\ cancelled = TRUE
     \/ run = "select" /\ cancelled = FALSE
  /\ mcp \in [Resources -> States]

Start ==
  /\ run = "off" /\ cancelled
  /\ run' = "select" /\ cancelled' = FALSE
  /\ UNCHANGED <<waiting, batch, mcp>>

\* The channel takes a change, newer than those of its resource that are on their way.
Queue(c) ==
  /\ c \in Change
  /\ run \in {"select", "flush"}
  /\ \A d \in waiting \cup batch : d.ID = c.ID => d.ver < c.ver
  /\ waiting' = waiting \cup {c}
  /\ UNCHANGED <<batch, run, cancelled, mcp>>

\* Last state wins: the buffer records a newer change over c.
Record(c) ==
  /\ run = "select"
  /\ \E d \in waiting : d.ID = c.ID /\ c.ver < d.ver
  /\ waiting' = waiting \ {c}
  /\ UNCHANGED <<batch, run, cancelled, mcp>>

Flush(B) ==
  /\ run = "select" /\ ~cancelled
  /\ B # {} /\ IsMap(B)
  /\ batch' = B
  /\ waiting' = Beyond(B)
  /\ run' = "flush"
  /\ UNCHANGED <<cancelled, mcp>>

\* Nobody reads the channel after the final flush has begun, or the buffer after it.
FinalFlush(B) ==
  /\ run = "select" /\ cancelled
  /\ IsMap(B)
  /\ batch' = B
  /\ waiting' = {}
  /\ run' = IF B = {} THEN "off" ELSE "final"
  /\ UNCHANGED <<cancelled, mcp>>

AfterFlush == run' = IF run = "final" THEN "off" ELSE "select"

FlushOk ==
  /\ run \in {"flush", "final"}
  /\ mcp' = Applied(batch)
  /\ batch' = {}
  /\ AfterFlush
  /\ UNCHANGED <<waiting, cancelled>>

\* An attempt fails, another one follows.  MCP may have applied a part S.
FlushRetries(S) ==
  /\ run \in {"flush", "final"}
  /\ mcp' = Applied(S)
  /\ UNCHANGED <<waiting, batch, run, cancelled>>

\* The last attempt fails: the batch waits again, unless this was the final flush.
FlushFails(S) ==
  /\ run \in {"flush", "final"}
  /\ mcp' = Applied(S)
  /\ batch' = {}
  /\ waiting' = IF run = "final" THEN waiting ELSE waiting \cup batch
  /\ AfterFlush
  /\ UNCHANGED cancelled

Cancel ==
  /\ ~cancelled /\ cancelled' = TRUE
  /\ UNCHANGED <<waiting, batch, run, mcp>>

\* The process ends.
Exit ==
  /\ waiting' = {} /\ batch' = {} /\ run' = "off" /\ cancelled' = TRUE
  /\ UNCHANGED mcp

\* Other goroutines write to the same MCP.
OthersPost ==
  /\ mcp' \in [Resources -> States]
  /\ UNCHANGED <<waiting, batch, run, cancelled>>

Loop ==
  \/ \E c \in waiting : Record(c)
  \/ \E B \in SUBSET waiting : Flush(B) \/ FinalFlush(B)
  \/ FlushOk
  \/ \E S \in SUBSET batch : FlushRetries(S) \/ FlushFails(S)

Next == (\E c \in waiting' : Queue(c)) \/ Loop \/ Start \/ Cancel \/ Exit

NextShared == Next \/ OthersPost

\* A loop that has MCP for itself, and one that shares it.
Alone  == Init /\ [][Next]_vars
Shared == Init /\ [][NextShared]_vars
=============================================================================

-------------------------- MODULE ServerRefinement --------------------------
(***************************************************************************)
(* The server of network.c implements CompileService.  A connection is     *)
(* submitted from the moment its work is queued, provided libuv still has  *)
(* it open, and answered when on_after_work has run.                       *)
(***************************************************************************)
EXTENDS CaborServer

StageOf(c) ==
    CASE job[c] = "after"                              -> "answered"
      [] job[c] # "after" /\ sock[c] = "none"          -> "absent"
      [] job[c] # "after" /\ Live(c) /\ InFlight(c)    -> "submitted"
      [] job[c] # "after" /\ Live(c) /\ ~InFlight(c)   -> "connected"
      [] OTHER                                         -> "dropped"

ServiceOf ==
    CASE process = "returned"                          -> "stopped"
      [] process # "returned" /\ listener = "none"     -> "down"
      [] process # "returned" /\ listener = "open"     -> "up"
      [] OTHER                                         -> "draining"

Promise == INSTANCE CompileService
    WITH service <- ServiceOf, stage <- [c \in Client |-> StageOf(c)]

(***************************************************************************)
(* Every step of the server is a step of the service or invisible in it:   *)
(* the idle timer drops no request already queued, no connection is taken  *)
(* after a shutdown, uv_run returns only when all connections are settled. *)
(***************************************************************************)
KeepsPromise == Promise!SafeService

\* The same, and every request whose work was queued is answered.
KeepsWholePromise == Promise!Service
=============================================================================

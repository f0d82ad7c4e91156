--------------------------- MODULE CompileService ---------------------------
(***************************************************************************)
(* What the compile server promises its peers, without sockets, callbacks  *)
(* or threads: the flow of network.c:24-31 seen from outside.              *)
(*                                                                         *)
(* While the service is up a connection may be opened.  It is either       *)
(* dropped while its request is incomplete (the idle timeout), or          *)
(* submitted; a submitted request is never dropped, it is answered.        *)
(* Answering a shutdown makes the service drain: it takes no connection    *)
(* any more and stops when those it has are answered or dropped.           *)
(***************************************************************************)

CONSTANT Client

VARIABLES
    service,    \* "down" -> "up" -> "draining" -> "stopped"
    stage       \* what has become of each connection

svars == <<service, stage>>

Settled == {"absent", "answered", "dropped"}

SInit ==
    /\ service = "down"
    /\ stage = [c \in Client |-> "absent"]

Boot == service = "down" /\ service' = "up" /\ UNCHANGED stage

Move(c, from, to) == stage[c] = from /\ stage' = [stage EXCEPT ![c] = to]

Accept(c) == service = "up" /\ Move(c, "absent", "connected") /\ UNCHANGED service
Refuse(c) == service = "up" /\ Move(c, "absent", "dropped") /\ UNCHANGED service
Submit(c) == Move(c, "connected", "submitted") /\ UNCHANGED service
Drop(c)   == Move(c, "connected", "dropped") /\ UNCHANGED service
Answer(c) == Move(c, "submitted", "answered") /\ UNCHANGED service

AnswerShutdown(c) ==
    service = "up" /\ service' = "draining" /\ Move(c, "submitted", "answered")

Stop ==
    /\ service = "draining" /\ service' = "stopped"
    /\ \A c \in Client : stage[c] \in Settled
    /\ UNCHANGED stage

SNext ==
    \/ Boot \/ Stop
    \/ \E c \in Client : \/ Accept(c) \/ Refuse(c) \/ Submit(c) \/ Drop(c)
                         \/ Answer(c) \/ AnswerShutdown(c)

\* The service does nothing but these steps ...
SafeService == SInit /\ [][SNext]_svars

\* ... and leaves no submitted request without an answer.
Answers == \A c \in Client : stage[c] = "submitted" ~> stage[c] = "answered"

Service == SafeService /\ Answers
=============================================================================

----------------------------- MODULE CaborServer -----------------------------
(***************************************************************************)
(* The compile server of src/src/network/network.c: one libuv loop thread  *)
(* that runs every callback, a pool of worker threads that runs on_work,   *)
(* and one TCP connection per member of Client.                            *)
(*                                                                         *)
(* A connection owns two libuv handles (the tcp handle inside              *)
(* cabor_tcp_client and the idle timer inside cabor_tcp_timeout), a data   *)
(* vector and, one after the other, a work request, a response buffer and  *)
(* a write request.  The callbacks are the actions; what libuv does        *)
(* between two callbacks is modelled from how network.c uses it (libuv     *)
(* 1.50, the version the build fetches): a handle given to uv_close gets   *)
(* its close callback later, pending writes are called back before the     *)
(* close callback, uv_close on a closing handle aborts, uv_write on a      *)
(* stream that reported a read error fails without a callback, and uv_run  *)
(* returns when no handle and no request is left.                          *)
(***************************************************************************)
EXTENDS Integers, FiniteSets

CONSTANTS
    Client,     \* the TCP connections the server may see
    Sends,      \* [Client -> SUBSET Request]: the commands each peer may send
    Sources,    \* the kinds of source that compile commands carry
    Faults,     \* the misfortunes of the environment, a subset of Fault
    PoolSize    \* UV_THREADPOOL_SIZE, the number of worker threads

Request == {"ping", "compile", "shutdown"}

(***************************************************************************)
(* A source by what becomes of memory when cabor_compile has run on it.    *)
(* The compiler's blocks are one block of the connection here, of kind     *)
(* "compiler", present when any of them is left.                           *)
(*                                                                         *)
(* "plain"      all that was allocated is freed again                      *)
(* "spilling"   two blocks in one scope, whose second symbol table         *)
(*              replaces the first as child_scope and leaves it out of     *)
(*              the chain that is destroyed (in the type checker and in    *)
(*              the IR generator, ScopesFreed of CaborCompile), or a call  *)
(*              never closed, whose arguments are dropped                  *)
(* "rejected"   a parser function ends the process or puts NULL for a      *)
(*              node, which the type checker reads                         *)
(* "empty"      the code "": a block of no bytes, and what is compiled is  *)
(*              whatever memory holds there                                *)
(***************************************************************************)
Source == {"plain", "spilling", "rejected", "empty"}

(***************************************************************************)
(* "slow"       the work, or an iteration of the loop, takes longer than   *)
(*              CABOR_IDLE_TIMEOUT_MS                                      *)
(* "reset"      a peer may reset its connection                            *)
(* "accept"     a connection may fail before or inside uv_accept           *)
(* "listen"     uv_listen may fail                                         *)
(* "link"       gcc may fail to produce the executable                     *)
(* "malformed"  a peer may end before it sent a whole JSON command         *)
(***************************************************************************)
Fault == {"slow", "reset", "accept", "listen", "link", "malformed"}

ASSUME ClientAssumption == IsFiniteSet(Client) /\ Client # {}
ASSUME SendsAssumption  == Sends \in [Client -> SUBSET Request]
ASSUME SourcesAssumption == Sources # {} /\ Sources \subseteq Source
ASSUME FaultsAssumption == Faults \subseteq Fault
ASSUME PoolAssumption   == PoolSize \in Nat \ {0}

VARIABLES
    process,    \* the life of the process
    listener,   \* the listening tcp handle, server_context->servermem
    wire,       \* the next thing the socket of a connection will report
    sock,       \* the tcp handle of a connection
    timer,      \* its idle timer
    data,       \* what the bytes in its data vector amount to
    job,        \* its uv_work_t
    request,    \* the cabor_network_request on the stack of its worker
    source,     \* the kind of source that request holds
    response,   \* cabor_client->response_size
    shut,       \* cabor_client->shutdown_requested
    write,      \* its uv_write_t
    heap        \* the live allocations made with the CABOR allocator

netVars  == <<wire, data>>
connVars == <<sock, timer>>
workVars == <<job, request, source, response, shut>>
vars == <<process, listener, netVars, connVars, workVars, write, heap>>

Chunk    == Request \union {"partial"}
ProcessState  == {"starting", "running", "returned", "failed", "exited", "crashed"}
HandleState   == {"none", "open", "closing", "closed"}
WireState     == {"off", "connecting", "quiet", "fin", "reset", "ended"} \union Chunk
SockState     == HandleState \union {"broken"}
TimerState    == {"none", "armed", "closing", "closed", "dangling"}
JobState      == {"none", "queued", "running", "done", "after"}
ResponseState == {"unset", "empty", "program"}
WriteState    == {"none", "pending", "called", "lost"}

\* Allocations: the blocks of connection c, and the two of the server context.
Block == {"client", "vector", "timeout", "work", "source", "compiler",
          "response", "write"}
Of(c, kinds) == kinds \X {c}
Context == {<<"loop">>, <<"server">>}

TypeOK ==
    /\ process \in ProcessState
    /\ listener \in HandleState
    /\ wire \in [Client -> WireState]
    /\ sock \in [Client -> SockState]
    /\ timer \in [Client -> TimerState]
    /\ data \in [Client -> Chunk \union {"none"}]
    /\ job \in [Client -> JobState]
    /\ request \in [Client -> Request \union {"none", "other"}]
    /\ source \in [Client -> Source \union {"none"}]
    /\ response \in [Client -> ResponseState]
    /\ shut \in [Client -> BOOLEAN]
    /\ write \in [Client -> WriteState]
    /\ heap \subseteq (Block \X Client) \union Context

Init ==
    /\ process = "starting"
    /\ listener = "none"
    /\ wire = [c \in Client |-> "off"]
    /\ sock = [c \in Client |-> "none"]
    /\ timer = [c \in Client |-> "none"]
    /\ data = [c \in Client |-> "none"]
    /\ job = [c \in Client |-> "none"]
    /\ request = [c \in Client |-> "none"]
    /\ source = [c \in Client |-> "none"]
    /\ response = [c \in Client |-> "unset"]
    /\ shut = [c \in Client |-> FALSE]
    /\ write = [c \in Client |-> "none"]
    /\ heap = {}

Live(c)      == sock[c] \in {"open", "broken"}       \* uv_close not called yet
InFlight(c)  == job[c] \in {"queued", "running", "done"}
Running      == {c \in Client : job[c] = "running"}

-----------------------------------------------------------------------------
(***************************************************************************)
(* Undefined behaviour.  A step that touches freed memory, frees an        *)
(* address it never got, or makes libuv abort may end the process.         *)
(***************************************************************************)
Crash ==
    /\ process' = "crashed"
    /\ UNCHANGED <<listener, netVars, connVars, workVars, write, heap>>

\* cabor_start_compile_server up to uv_run; a listen error returns at once.
Start ==
    /\ process = "starting"
    /\ heap' = heap \union Context
    /\ \/ /\ process' = "running"
          /\ listener' = "open"
       \/ /\ "listen" \in Faults
          /\ process' = "failed"
          /\ listener' = "none"
    /\ UNCHANGED <<netVars, connVars, workVars, write>>

-----------------------------------------------------------------------------
(* The peers. *)

PeerConnect(c) ==
    /\ process = "running" /\ listener = "open"
    /\ wire[c] = "off"
    /\ wire' = [wire EXCEPT ![c] = "connecting"]
    /\ UNCHANGED <<process, listener, data, connVars, workVars, write, heap>>

\* More bytes: a piece of the JSON text, or what completes a command.
PeerSend(c, chunk) ==
    /\ process = "running"
    /\ wire[c] = "quiet" /\ data[c] \in {"none", "partial"}
    /\ wire' = [wire EXCEPT ![c] = chunk]
    /\ UNCHANGED <<process, listener, data, connVars, workVars, write, heap>>

PeerFinish(c) ==
    /\ process = "running"
    /\ wire[c] = "quiet"
    /\ data[c] \in Request \/ "malformed" \in Faults
    /\ wire' = [wire EXCEPT ![c] = "fin"]
    /\ UNCHANGED <<process, listener, data, connVars, workVars, write, heap>>

PeerReset(c) ==
    /\ process = "running"
    /\ "reset" \in Faults
    /\ wire[c] \in Chunk \union {"quiet", "fin"}
    /\ data[c] \in Request \/ "malformed" \in Faults
    /\ wire' = [wire EXCEPT ![c] = "reset"]
    /\ UNCHANGED <<process, listener, data, connVars, workVars, write, heap>>

-----------------------------------------------------------------------------
(* The loop thread: one action per callback. *)

\* on_new_connection, uv_accept succeeds.
OnNewConnection(c) ==
    /\ process = "running" /\ listener = "open"
    /\ wire[c] = "connecting"
    /\ wire' = [wire EXCEPT ![c] = "quiet"]
    /\ sock' = [sock EXCEPT ![c] = "open"]
    /\ timer' = [timer EXCEPT ![c] = "armed"]
    /\ heap' = heap \union Of(c, {"client", "vector", "timeout"})
    /\ UNCHANGED <<process, listener, data, workVars, write>>

\* on_new_connection with status < 0 (nothing is allocated), or with a failing
\* uv_accept: the client is closed, the timeout deleted although uv_timer_init
\* has linked its handle into the loop.
OnNewConnectionFails(c) ==
    /\ process = "running" /\ listener = "open"
    /\ "accept" \in Faults
    /\ wire[c] = "connecting"
    /\ wire' = [wire EXCEPT ![c] = "ended"]
    /\ \/ UNCHANGED <<sock, timer, heap>>
       \/ /\ sock' = [sock EXCEPT ![c] = "closing"]
          /\ timer' = [timer EXCEPT ![c] = "dangling"]
          /\ heap' = heap \union Of(c, {"client", "vector"})
    /\ UNCHANGED <<process, listener, data, workVars, write>>

\* on_read, nread > 0: the vector grows and the idle timer restarts.
OnReadData(c) ==
    /\ process = "running"
    /\ sock[c] = "open" /\ wire[c] \in Chunk
    /\ data' = [data EXCEPT ![c] = wire[c]]
    /\ wire' = [wire EXCEPT ![c] = "quiet"]
    /\ UNCHANGED <<process, listener, connVars, workVars, write, heap>>

\* on_read, nread < 0: any end of the stream queues the work.  libuv leaves
\* the stream writable after EOF and not after an error.
OnReadEnd(c) ==
    /\ process = "running"
    /\ sock[c] = "open" /\ wire[c] \in {"fin", "reset"}
    /\ sock' = [sock EXCEPT ![c] = IF wire[c] = "fin" THEN "open" ELSE "broken"]
    /\ wire' = [wire EXCEPT ![c] = "ended"]
    /\ job' = [job EXCEPT ![c] = "queued"]
    /\ heap' = heap \union Of(c, {"work"})
    /\ UNCHANGED <<process, listener, data, timer, request, source, response, shut, write>>

\* Mutant: the timer also runs out on a peer that has finished sending.
TimerDueUnlessSending(c) == timer[c] = "armed" /\ wire[c] \notin Chunk

\* The timer runs from the last byte read and nothing stops it when the work is
\* queued; unless the environment is slow, it only fires on an idle peer.
TimerDue(c) ==
    /\ timer[c] = "armed"
    /\ "slow" \in Faults \/ (wire[c] = "quiet" /\ job[c] = "none")

\* Mutant: on_timeout forgets to close the timer itself.
OnTimeoutKeepsTimer(c) ==
    /\ process = "running"
    /\ TimerDue(c)
    /\ sock' = [sock EXCEPT ![c] = "closing"]
    /\ UNCHANGED <<process, listener, netVars, timer, workVars, write, heap>>

\* on_timeout: the connection and the timer itself are given to uv_close.
OnTimeout(c) ==
    /\ process = "running"
    /\ TimerDue(c)
    /\ sock' = [sock EXCEPT ![c] = "closing"]
    /\ timer' = [timer EXCEPT ![c] = "closing"]
    /\ UNCHANGED <<process, listener, netVars, workVars, write, heap>>

\* on_after_work on a connection still open: write, close both handles and,
\* after a shutdown command, close the listening handle, which aborts when
\* another shutdown has closed it before.  A response_size nobody set is
\* whatever malloc returned.
OnAfterWork(c) ==
    /\ process = "running"
    /\ job[c] = "done"
    /\ Live(c)
    /\ shut[c] => listener = "open"
    /\ job' = [job EXCEPT ![c] = "after"]
    /\ write' = [write EXCEPT ![c] = IF sock[c] = "open" THEN "pending" ELSE "lost"]
    /\ heap' = (heap \union Of(c, {"write"})) \ Of(c, {"work"})
    /\ sock' = [sock EXCEPT ![c] = "closing"]
    /\ timer' = [timer EXCEPT ![c] = "closing"]
    /\ listener' = IF shut[c] THEN "closing" ELSE listener
    /\ UNCHANGED <<process, netVars, request, source, response, shut>>

AfterWorkCrashes(c) ==
    /\ process = "running"
    /\ job[c] = "done"
    /\ \/ ~Live(c)
       \/ shut[c] /\ listener # "open"
       \/ response[c] = "unset"
    /\ Crash

\* Mutant: on_write frees its request and not the response buffer.
OnWriteKeepsBuffer(c) ==
    /\ process = "running"
    /\ sock[c] = "closing" /\ write[c] = "pending"
    /\ write' = [write EXCEPT ![c] = "called"]
    /\ heap' = heap \ Of(c, {"write"})
    /\ UNCHANGED <<process, listener, netVars, connVars, workVars>>

\* on_write, called by libuv before the close callback of the same handle.
OnWrite(c) ==
    /\ process = "running"
    /\ sock[c] = "closing" /\ write[c] = "pending"
    /\ write' = [write EXCEPT ![c] = "called"]
    /\ heap' = heap \ Of(c, IF response[c] = "program" THEN {"write", "response"}
                                                       ELSE {"write"})
    /\ UNCHANGED <<process, listener, netVars, connVars, workVars>>

\* Mutant: the client is freed although its write has not been called back.
FreeClientAtOnce(c) ==
    /\ process = "running"
    /\ sock[c] = "closing"
    /\ sock' = [sock EXCEPT ![c] = "closed"]
    /\ heap' = heap \ Of(c, {"client", "vector"})
    /\ UNCHANGED <<process, listener, netVars, timer, workVars, write>>

\* on_close_tcp_client, after the pending write was called back.
OnCloseTcpClient(c) ==
    /\ process = "running"
    /\ sock[c] = "closing" /\ write[c] # "pending"
    /\ sock' = [sock EXCEPT ![c] = "closed"]
    /\ heap' = heap \ Of(c, {"client", "vector"})
    /\ UNCHANGED <<process, listener, netVars, timer, workVars, write>>

\* Unlinking the handle writes into the freed timer next to it in the loop.
CloseCrashes(c) ==
    /\ process = "running"
    /\ sock[c] = "closing" /\ timer[c] = "dangling"
    /\ Crash

\* Mutant: on_close_timeout does not delete the timeout.
OnCloseTimeoutKeeps(c) ==
    /\ process = "running"
    /\ timer[c] = "closing"
    /\ timer' = [timer EXCEPT ![c] = "closed"]
    /\ UNCHANGED <<process, listener, netVars, sock, workVars, write, heap>>

\* on_close_timeout: the timer's own block, nothing of the client.
OnCloseTimeout(c) ==
    /\ process = "running"
    /\ timer[c] = "closing"
    /\ timer' = [timer EXCEPT ![c] = "closed"]
    /\ heap' = heap \ Of(c, {"timeout"})
    /\ UNCHANGED <<process, listener, netVars, sock, workVars, write>>

CloseListener ==
    /\ process = "running"
    /\ listener = "closing"
    /\ listener' = "closed"
    /\ UNCHANGED <<process, netVars, connVars, workVars, write, heap>>

\* Mutant: the loop stops as soon as the listening handle is closed.
LoopAliveWhileListening == listener # "closed"

\* What keeps uv_run from returning: active handles and requests.
LoopAlive ==
    \/ listener # "closed"
    \/ \E c \in Client : \/ sock[c] \notin {"none", "closed"}
                         \/ timer[c] \in {"armed", "closing"}
                         \/ InFlight(c)
                         \/ write[c] = "pending"

\* After uv_run: uv_loop_close and the two CABOR_DELETE of
\* cabor_start_compile_server.
Return ==
    /\ process = "running"
    /\ ~LoopAlive
    /\ process' = "returned"
    /\ heap' = heap \ Context
    /\ UNCHANGED <<listener, netVars, connVars, workVars, write>>

-----------------------------------------------------------------------------
(* A worker thread runs on_work: what it reads first, what it writes last. *)

\* Mutant: the decoded type is never stored in request.
DecodedAnyhow(c) == Request

\* cabor_decode_network_request.  When it fails, request keeps whatever the
\* stack held and on_work goes on.
DecodedAs(c) ==
    IF data[c] \in Request THEN {data[c]} ELSE Request \union {"other"}

\* Only a compile command has a source.
SourceAs(c) == IF data[c] = "compile" THEN Sources ELSE {"none"}

OnWorkDecode(c) ==
    /\ process = "running"
    /\ job[c] = "queued" /\ Cardinality(Running) < PoolSize
    /\ job' = [job EXCEPT ![c] = "running"]
    /\ \E type \in DecodedAs(c) : request' = [request EXCEPT ![c] = type]
    /\ \E kind \in SourceAs(c) : source' = [source EXCEPT ![c] = kind]
    /\ heap' = IF data[c] = "compile" THEN heap \union Of(c, {"source"}) ELSE heap
    /\ UNCHANGED <<process, listener, netVars, connVars, response, shut, write>>

\* Mutant: the command type ends up where the response size belongs.
RespondWithType(c) == request[c]

\* What each command leaves in cabor_client->response_size.
ResponseTo(c) ==
    IF request[c] = "compile" THEN "program"
    ELSE IF request[c] \in {"ping", "shutdown"} THEN "empty" ELSE response[c]

\* The sets of kinds of blocks that cabor_compile may leave.
Spilt(c) ==
    IF request[c] # "compile" \/ source[c] = "plain" THEN {{}}
    ELSE IF source[c] = "spilling" THEN {{"compiler"}} ELSE {{}, {"compiler"}}

\* The rest of on_work: what cabor_compile leaves, the response, and the source
\* freed if its size is not 0.
OnWorkRespond(c) ==
    /\ process = "running"
    /\ job[c] = "running" /\ source[c] # "rejected"
    /\ job' = [job EXCEPT ![c] = "done"]
    /\ response' = [response EXCEPT ![c] = ResponseTo(c)]
    /\ shut' = [shut EXCEPT ![c] = @ \/ request[c] = "shutdown"]
    /\ \E spilt \in Spilt(c) :
          heap' = (heap \ (IF source[c] = "empty" THEN {} ELSE Of(c, {"source"})))
                    \union Of(c, spilt)
                    \union (IF request[c] = "compile" THEN Of(c, {"response"}) ELSE {})
    /\ UNCHANGED <<process, listener, netVars, connVars, request, source, write>>

\* The client was freed under the worker, request was never initialised, or the
\* compiler goes through a NULL node or tokens that are not there.
WorkCrashes(c) ==
    /\ process = "running"
    /\ job[c] \in {"queued", "running"}
    /\ \/ sock[c] = "closed"
       \/ data[c] \notin Request
       \/ source[c] \in {"rejected", "empty"}
    /\ Crash

\* exit(1): no executable after the link (cabor_load_file), or CABOR_RUNTIME_ERROR
\* of the parser.
WorkExits(c) ==
    /\ process = "running"
    /\ job[c] = "running" /\ request[c] = "compile"
    /\ "link" \in Faults \/ source[c] \in {"rejected", "empty"}
    /\ process' = "exited"
    /\ UNCHANGED <<listener, netVars, connVars, workVars, write, heap>>

-----------------------------------------------------------------------------

Peer(c) ==
    \/ PeerConnect(c)
    \/ \E chunk \in Sends[c] \union {"partial"} : PeerSend(c, chunk)
    \/ PeerFinish(c)
    \/ PeerReset(c)

Loop(c) ==
    \/ OnNewConnection(c) \/ OnNewConnectionFails(c)
    \/ OnReadData(c) \/ OnReadEnd(c) \/ OnTimeout(c)
    \/ OnAfterWork(c) \/ AfterWorkCrashes(c)
    \/ OnWrite(c) \/ OnCloseTcpClient(c) \/ CloseCrashes(c) \/ OnCloseTimeout(c)

Worker(c) == OnWorkDecode(c) \/ OnWorkRespond(c) \/ WorkCrashes(c) \/ WorkExits(c)

Next ==
    \/ Start \/ CloseListener \/ Return
    \/ \E c \in Client : Peer(c) \/ Loop(c) \/ Worker(c)

(***************************************************************************)
(* libuv runs the callback of every event that stays ready, and an idle    *)
(* worker takes the oldest queued work.  The peers owe nothing.            *)
(***************************************************************************)
Fairness ==
    /\ WF_vars(Start) /\ WF_vars(CloseListener) /\ WF_vars(Return)
    /\ \A c \in Client : WF_vars(Loop(c))
    /\ WF_vars(\E c \in Client : Worker(c))

Spec == Init /\ [][Next]_vars
FairSpec == Spec /\ Fairness

-----------------------------------------------------------------------------
(* Properties. *)

\* At most one peer may ask for a shutdown.
SingleShutdown ==
    \A c, d \in Client : "shutdown" \in Sends[c] \cap Sends[d] => c = d

(***************************************************************************)
(* From uv_queue_work in on_read until on_after_work, the worker and then  *)
(* the loop use the client, its vector, its timer and the work request     *)
(* through raw pointers: none of them is freed, or even given to uv_close, *)
(* meanwhile (the flow described in network.c:24-31).                      *)
(***************************************************************************)
JobPinsConnection ==
    \A c \in Client : InFlight(c) =>
        /\ Live(c) /\ timer[c] = "armed"
        /\ Of(c, {"client", "vector", "timeout", "work"}) \subseteq heap

(***************************************************************************)
(* A response buffer, its write request and the client that on_write reads *)
(* all stay allocated until on_write has run, although on_after_work has   *)
(* called uv_close on the connection right after uv_write.                 *)
(***************************************************************************)
BufferOutlivesWrite ==
    \A c \in Client : write[c] = "pending" =>
        /\ Of(c, {"client", "write"}) \subseteq heap
        /\ response[c] = "program" => Of(c, {"response"}) \subseteq heap

(***************************************************************************)
(* No callback makes libuv abort or touches freed memory.                  *)
(***************************************************************************)
NeverCrashes == process # "crashed"

(***************************************************************************)
(* When cabor_start_compile_server has returned, by either return, every   *)
(* block it, its callbacks and its workers allocated is freed: what main   *)
(* checks with CABOR_GET_ALLOCATED (main.c:185).                           *)
(***************************************************************************)
NoLeakAtExit == process \in {"returned", "failed"} => heap = {}

(***************************************************************************)
(* What a normal return leaves allocated, whatever the environment does:   *)
(* the request and the response of a write that libuv refused, the source  *)
(* of an empty code, and what cabor_compile loses.  The last is "compiler" *)
(* and known by the kind of the source only: a source that spills leaves   *)
(* some, a plain one none, and what was compiled from memory no command    *)
(* filled may leave any.                                                   *)
(***************************************************************************)
LeakAccounted ==
    process = "returned" =>
        /\ heap \cap Context = {}
        /\ \A c \in Client :
              LET left == {kind \in Block : <<kind, c>> \in heap}
              IN  /\ left \subseteq {"write", "response", "source", "compiler"}
                  /\ "write" \in left <=> write[c] = "lost"
                  /\ "response" \in left <=> write[c] = "lost" /\ response[c] = "program"
                  /\ "source" \in left <=> source[c] = "empty"
                  /\ source[c] = "spilling" => "compiler" \in left
                  /\ "compiler" \in left => request[c] = "compile" /\ source[c] # "plain"

(***************************************************************************)
(* The server returns only after a shutdown was answered, and it has then  *)
(* finished every connection it accepted: no work is queued, running or    *)
(* unanswered, no write pending.                                           *)
(***************************************************************************)
DrainedAtReturn ==
    process = "returned" =>
        /\ \E c \in Client : shut[c] /\ job[c] = "after"
        /\ \A c \in Client : /\ sock[c] \in {"none", "closed"}
                              /\ job[c] \in {"none", "after"}
                              /\ write[c] # "pending"

(***************************************************************************)
(* A command that reached the server whole, and whose sender closed its    *)
(* side, is worked on and answered, or the whole service ends: step 6 of   *)
(* network.c:24-31.                                                        *)
(***************************************************************************)
RequestAnswered ==
    \A c \in Client :
        (Live(c) /\ wire[c] = "fin" /\ data[c] \in Request) ~> (job[c] = "after")

(***************************************************************************)
(* Once a shutdown command has been executed the server returns: idle      *)
(* connections time out, busy ones are answered.  A peer that keeps        *)
(* sending pieces restarts its timer and could hold the loop forever.      *)
(***************************************************************************)
ShutdownReturns ==
    (\A c \in Client : <>[](wire[c] # "partial"))
        => ((\E c \in Client : shut[c]) ~> (process = "returned"))
=============================================================================

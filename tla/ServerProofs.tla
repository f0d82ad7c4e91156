----------------------------- MODULE ServerProofs -----------------------------
(***************************************************************************)
(* Proofs about the server, for every set of connections, every set of     *)
(* commands they may send and every size of the worker pool: what it       *)
(* keeps, and that it implements CompileService as long as the idle timer  *)
(* cannot outrun the work.                                                 *)
(***************************************************************************)
EXTENDS ServerRefinement, TLAPS

(***************************************************************************)
(* The variables stay in their types: what every callback of network.c     *)
(* leaves in the structs it writes.                                        *)
(***************************************************************************)
THEOREM Typing == Spec => []TypeOK
<1> USE SendsAssumption, SourcesAssumption DEF TypeOK, Chunk, Request, Source, ProcessState,
        HandleState, WireState,
        SockState, TimerState, JobState, ResponseState, WriteState, Block, Of, Context
<1>1. Init => TypeOK
  BY DEF Init
<1>2. TypeOK /\ [Next]_vars => TypeOK'
  <2> SUFFICES ASSUME TypeOK, [Next]_vars
               PROVE  TypeOK'
    OBVIOUS
  <2>1. CASE Start
    BY <2>1 DEF Start, netVars, connVars, workVars
  <2>2. CASE CloseListener
    BY <2>2 DEF CloseListener, netVars, connVars, workVars
  <2>3. CASE Return
    BY <2>3 DEF Return, netVars, connVars, workVars
  <2>4. ASSUME NEW c \in Client, Peer(c) PROVE TypeOK'
    BY <2>4 DEF Peer, PeerConnect, PeerSend, PeerFinish, PeerReset, connVars, workVars
  <2>5. ASSUME NEW c \in Client, Loop(c) PROVE TypeOK'
    <3>1. CASE OnNewConnection(c)
      BY <3>1 DEF OnNewConnection, workVars
    <3>2. CASE OnNewConnectionFails(c)
      BY <3>2 DEF OnNewConnectionFails, workVars
    <3>3. CASE OnReadData(c)
      BY <3>3 DEF OnReadData, connVars, workVars
    <3>4. CASE OnReadEnd(c)
      BY <3>4 DEF OnReadEnd
    <3>5. CASE OnTimeout(c)
      BY <3>5 DEF OnTimeout, netVars, workVars
    <3>6. CASE OnAfterWork(c)
      BY <3>6 DEF OnAfterWork, netVars
    <3>7. CASE OnWrite(c)
      BY <3>7 DEF OnWrite, netVars, connVars, workVars
    <3>8. CASE OnCloseTcpClient(c)
      BY <3>8 DEF OnCloseTcpClient, netVars, workVars
    <3>9. CASE OnCloseTimeout(c)
      BY <3>9 DEF OnCloseTimeout, netVars, workVars
    <3>10. CASE AfterWorkCrashes(c) \/ CloseCrashes(c)
      BY <3>10 DEF AfterWorkCrashes, CloseCrashes, Crash, netVars, connVars, workVars
    <3> QED
      BY <2>5, <3>1, <3>2, <3>3, <3>4, <3>5, <3>6, <3>7, <3>8, <3>9, <3>10 DEF Loop
  <2>6. ASSUME NEW c \in Client, Worker(c) PROVE TypeOK'
    <3>1. CASE OnWorkDecode(c)
      BY <3>1 DEF OnWorkDecode, DecodedAs, SourceAs, netVars, connVars
    <3>2. CASE OnWorkRespond(c)
      BY <3>2 DEF OnWorkRespond, ResponseTo, Spilt, netVars, connVars
    <3>3. CASE WorkCrashes(c) \/ WorkExits(c)
      BY <3>3 DEF WorkCrashes, WorkExits, Crash, netVars, connVars, workVars
    <3> QED
      BY <2>6, <3>1, <3>2, <3>3 DEF Worker
  <2>7. CASE UNCHANGED vars
    BY <2>7 DEF vars, netVars, connVars, workVars
  <2> QED
    BY <2>1, <2>2, <2>3, <2>4, <2>5, <2>6, <2>7 DEF Next
<1> QED
  BY <1>1, <1>2, PTL DEF Spec

-----------------------------------------------------------------------------
(***************************************************************************)
(* The inductive invariant.  Its parts hold whatever the faults are,       *)
(* except Pinned, which needs an idle timer that cannot outrun the work,   *)
(* Unbroken, which needs peers that do not reset, and Whole, which needs   *)
(* peers that finish their commands.                                       *)
(***************************************************************************)

\* How the handles, the work and the socket of one connection go together.
InStep(c) ==
    /\ wire[c] \in {"off", "connecting"} => sock[c] = "none"
    /\ wire[c] # "ended" => job[c] = "none"
    /\ sock[c] = "none" => job[c] = "none" /\ timer[c] = "none"
    /\ timer[c] = "armed" <=> Live(c)
    /\ job[c] = "after" => sock[c] \in {"closing", "closed"}
    /\ write[c] # "none" => job[c] = "after"
    /\ write[c] = "pending" => sock[c] = "closing"
    /\ response[c] = "program" => job[c] \in {"done", "after"}
    /\ job[c] \in {"none", "queued"} => source[c] = "none"
    /\ source[c] # "none" =>
          source[c] \in Sources /\ data[c] = "compile" /\ request[c] = "compile"

\* Exactly which blocks of a connection are allocated.
Owns(c) ==
    /\ <<"client", c>> \in heap <=> sock[c] \in {"open", "broken", "closing"}
    /\ <<"vector", c>> \in heap <=> sock[c] \in {"open", "broken", "closing"}
    /\ <<"timeout", c>> \in heap <=> timer[c] \in {"armed", "closing"}
    /\ <<"work", c>> \in heap <=> InFlight(c)
    /\ <<"source", c>> \in heap <=>
          /\ source[c] # "none"
          /\ job[c] = "running" \/ source[c] = "empty"
    /\ <<"compiler", c>> \in heap =>
          job[c] \in {"done", "after"} /\ request[c] = "compile" /\ source[c] # "plain"
    /\ source[c] = "spilling" /\ job[c] \in {"done", "after"} => <<"compiler", c>> \in heap
    /\ <<"response", c>> \in heap <=>
          /\ response[c] = "program"
          /\ job[c] = "done" \/ write[c] \in {"pending", "lost"}
    /\ <<"write", c>> \in heap <=> write[c] \in {"pending", "lost"}

Pinned(c) == InFlight(c) => Live(c)

Unbroken(c) == wire[c] # "reset" /\ sock[c] # "broken" /\ write[c] # "lost"

\* What a worker decodes is the command that was sent.
Whole(c) ==
    /\ wire[c] \in {"fin", "reset"} => data[c] \in Request
    /\ job[c] # "none" => data[c] \in Request
    /\ job[c] \in {"running", "done", "after"} =>
          /\ request[c] = data[c]
          /\ data[c] = "compile" => source[c] # "none"

ConnInv(c) ==
    /\ InStep(c)
    /\ Owns(c)
    /\ "slow" \notin Faults => Pinned(c)
    /\ "reset" \notin Faults => Unbroken(c)

\* The server context is allocated from the start to the return.
ContextInv ==
    /\ \A b \in Context : b \in heap <=> process \notin {"starting", "returned"}
    /\ process = "failed" => "listen" \in Faults

\* The listening handle is closed by a shutdown and nothing else.
ListenerInv ==
    /\ process = "starting" => listener = "none"
    /\ process = "running" => listener # "none"
    /\ listener \in {"closing", "closed"} =>
          \E c \in Client : shut[c] /\ job[c] = "after"

ReturnInv == process = "returned" => ~LoopAlive

\* Nothing is known of any connection until uv_run is entered.
QuietInv ==
    process \in {"starting", "failed"} =>
        \A c \in Client : sock[c] = "none" /\ timer[c] = "none"
                         /\ job[c] = "none" /\ write[c] = "none"

IInv ==
    /\ TypeOK
    /\ \A c \in Client : ConnInv(c)
    /\ "malformed" \notin Faults => \A c \in Client : Whole(c)
    /\ ContextInv
    /\ ListenerInv
    /\ ReturnInv
    /\ QuietInv

\* A step that leaves a connection alone leaves what is known of it.
LEMMA Untouched ==
    ASSUME NEW d \in Client, ConnInv(d),
           wire'[d] = wire[d], data'[d] = data[d], sock'[d] = sock[d], timer'[d] = timer[d],
           job'[d] = job[d], request'[d] = request[d], source'[d] = source[d],
           response'[d] = response[d], write'[d] = write[d],
           \A kind \in Block : <<kind, d>> \in heap' <=> <<kind, d>> \in heap
    PROVE  ConnInv(d)'
BY DEF ConnInv, InStep, Owns, Pinned, Unbroken, Live, InFlight, Block

\* What on_after_work does to the connection it answers.
LEMMA AfterWorkKeeps ==
    ASSUME IInv, NEW c \in Client, OnAfterWork(c), NEW d \in Client
    PROVE  ConnInv(d)'
<1>1. ConnInv(c) /\ ConnInv(d) /\ TypeOK
  BY DEF IInv
<1>2. CASE d # c
  <2>1. /\ wire'[d] = wire[d] /\ data'[d] = data[d] /\ sock'[d] = sock[d]
        /\ timer'[d] = timer[d]
        /\ job'[d] = job[d] /\ request'[d] = request[d] /\ source'[d] = source[d]
        /\ response'[d] = response[d] /\ write'[d] = write[d]
    BY <1>1, <1>2 DEF OnAfterWork, TypeOK, netVars, connVars
  <2>2. ASSUME NEW kind \in Block PROVE <<kind, d>> \in heap' <=> <<kind, d>> \in heap
    BY <1>2 DEF OnAfterWork, Of
  <2> QED
    BY <1>1, <2>1, <2>2, Untouched
<1>3. InStep(c)'
  BY <1>1 DEF OnAfterWork, ConnInv, InStep, Live, TypeOK, netVars, connVars
<1>4. Owns(c)'
  BY <1>1 DEF OnAfterWork, ConnInv, InStep, Owns, InFlight, Live, Of, TypeOK, netVars,
              connVars
<1>5. ("slow" \notin Faults => Pinned(c)') /\ ("reset" \notin Faults => Unbroken(c)')
  BY <1>1 DEF OnAfterWork, ConnInv, Pinned, Unbroken, InFlight, Live, TypeOK, netVars,
              connVars
<1> QED
  BY <1>2, <1>3, <1>4, <1>5 DEF ConnInv

\* Decoding a command allocates its source.
LEMMA DecodeKeeps ==
    ASSUME IInv, NEW c \in Client, OnWorkDecode(c), NEW d \in Client
    PROVE  ConnInv(d)'
<1>1. ConnInv(c) /\ ConnInv(d) /\ TypeOK
  BY DEF IInv
<1>2. CASE d # c
  <2>1. /\ wire'[d] = wire[d] /\ data'[d] = data[d] /\ sock'[d] = sock[d]
        /\ timer'[d] = timer[d]
        /\ job'[d] = job[d] /\ request'[d] = request[d] /\ source'[d] = source[d]
        /\ response'[d] = response[d] /\ write'[d] = write[d]
    BY <1>1, <1>2 DEF OnWorkDecode, TypeOK, netVars, connVars
  <2>2. ASSUME NEW kind \in Block PROVE <<kind, d>> \in heap' <=> <<kind, d>> \in heap
    BY <1>2 DEF OnWorkDecode, Of
  <2> QED
    BY <1>1, <2>1, <2>2, Untouched
<1>3. InStep(c)'
  BY <1>1 DEF OnWorkDecode, ConnInv, InStep, Live, TypeOK, netVars, connVars, SourceAs,
              DecodedAs, Request
<1>4. Owns(c)'
  <2>1. source'[c] # "none" <=> data[c] = "compile"
    BY <1>1, SourcesAssumption DEF OnWorkDecode, SourceAs, Source, TypeOK
  <2>2. source[c] = "none" /\ <<"compiler", c>> \notin heap /\ <<"source", c>> \notin heap
    BY <1>1 DEF OnWorkDecode, ConnInv, InStep, Owns
  <2>3. <<"source", c>> \in heap' <=> data[c] = "compile"
    BY <2>2 DEF OnWorkDecode, Of
  <2>4. \A kind \in Block \ {"source"} : <<kind, c>> \in heap' <=> <<kind, c>> \in heap
    BY DEF OnWorkDecode, Of
  <2> QED
    BY <1>1, <2>1, <2>2, <2>3, <2>4
       DEF OnWorkDecode, ConnInv, Owns, InFlight, Block, TypeOK, netVars, connVars
<1>5. ("slow" \notin Faults => Pinned(c)') /\ ("reset" \notin Faults => Unbroken(c)')
  BY <1>1 DEF OnWorkDecode, ConnInv, Pinned, Unbroken, InFlight, Live, TypeOK, netVars,
              connVars
<1> QED
  BY <1>2, <1>3, <1>4, <1>5 DEF ConnInv

\* The rest of on_work allocates the response and frees the source unless empty.
LEMMA RespondKeeps ==
    ASSUME IInv, NEW c \in Client, OnWorkRespond(c), NEW d \in Client
    PROVE  ConnInv(d)'
<1>1. ConnInv(c) /\ ConnInv(d) /\ TypeOK
  BY DEF IInv
<1>2. CASE d # c
  <2>1. /\ wire'[d] = wire[d] /\ data'[d] = data[d] /\ sock'[d] = sock[d]
        /\ timer'[d] = timer[d]
        /\ job'[d] = job[d] /\ request'[d] = request[d] /\ source'[d] = source[d]
        /\ response'[d] = response[d] /\ write'[d] = write[d]
    BY <1>1, <1>2 DEF OnWorkRespond, TypeOK, netVars, connVars
  <2>2. ASSUME NEW kind \in Block PROVE <<kind, d>> \in heap' <=> <<kind, d>> \in heap
    BY <1>2 DEF OnWorkRespond, Of, Spilt
  <2> QED
    BY <1>1, <2>1, <2>2, Untouched
<1>3. InStep(c)'
  BY <1>1 DEF OnWorkRespond, ConnInv, InStep, Live, TypeOK, netVars, connVars, ResponseTo
<1>4. Owns(c)'
  BY <1>1 DEF OnWorkRespond, ConnInv, InStep, Owns, InFlight, Live, Of, TypeOK,
              netVars, connVars, ResponseTo, Spilt
<1>5. ("slow" \notin Faults => Pinned(c)') /\ ("reset" \notin Faults => Unbroken(c)')
  BY <1>1 DEF OnWorkRespond, ConnInv, Pinned, Unbroken, InFlight, Live, TypeOK,
              netVars, connVars
<1> QED
  BY <1>2, <1>3, <1>4, <1>5 DEF ConnInv

\* What is known of one connection survives every step of every other.
LEMMA ConnInvInductive == IInv /\ [Next]_vars => \A d \in Client : ConnInv(d)'
<1> SUFFICES ASSUME IInv, [Next]_vars, NEW d \in Client
             PROVE  ConnInv(d)'
  OBVIOUS
<1> USE DEF IInv, ConnInv, InStep, Owns, Pinned, Unbroken, Live, InFlight, Of, Block,
            Context,
        TypeOK, Chunk, Request
<1>1. CASE Start
  BY <1>1 DEF Start, netVars, connVars, workVars
<1>2. CASE CloseListener
  BY <1>2 DEF CloseListener, netVars, connVars, workVars
<1>3. CASE Return
  BY <1>3 DEF Return, netVars, connVars, workVars
<1>4. ASSUME NEW c \in Client, Peer(c) PROVE ConnInv(d)'
  <2>1. CASE PeerConnect(c)
    BY <2>1 DEF PeerConnect, connVars, workVars
  <2>2. ASSUME NEW chunk \in Sends[c] \union {"partial"}, PeerSend(c, chunk)
        PROVE  ConnInv(d)'
    BY <2>2, SendsAssumption DEF PeerSend, connVars, workVars
  <2>3. CASE PeerFinish(c)
    BY <2>3 DEF PeerFinish, connVars, workVars
  <2>4. CASE PeerReset(c)
    BY <2>4 DEF PeerReset, connVars, workVars
  <2> QED
    BY <1>4, <2>1, <2>2, <2>3, <2>4 DEF Peer
<1>5. ASSUME NEW c \in Client, Loop(c) PROVE ConnInv(d)'
  <2>1. CASE OnNewConnection(c)
    BY <2>1 DEF OnNewConnection, workVars
  <2>2. CASE OnNewConnectionFails(c)
    <3> USE <2>2 DEF OnNewConnectionFails, workVars
    <3>1. CASE UNCHANGED <<sock, timer, heap>>
      BY <3>1
    <3>2. CASE /\ sock' = [sock EXCEPT ![c] = "closing"]
               /\ timer' = [timer EXCEPT ![c] = "dangling"]
               /\ heap' = heap \union Of(c, {"client", "vector"})
      <4>1. CASE d = c
        BY <3>2, <4>1
      <4>2. CASE d # c
        BY <3>2, <4>2
      <4> QED
        BY <4>1, <4>2
    <3> QED
      BY <3>1, <3>2
  <2>3. CASE OnReadData(c)
    BY <2>3 DEF OnReadData, connVars, workVars
  <2>4. CASE OnReadEnd(c)
    BY <2>4 DEF OnReadEnd
  <2>5. CASE OnTimeout(c)
    BY <2>5 DEF OnTimeout, TimerDue, netVars, workVars
  <2>6. CASE OnAfterWork(c)
    BY <2>6, AfterWorkKeeps
  <2>7. CASE OnWrite(c)
    BY <2>7 DEF OnWrite, netVars, connVars, workVars
  <2>8. CASE OnCloseTcpClient(c)
    BY <2>8 DEF OnCloseTcpClient, netVars, workVars
  <2>9. CASE OnCloseTimeout(c)
    BY <2>9 DEF OnCloseTimeout, netVars, workVars
  <2>10. CASE AfterWorkCrashes(c) \/ CloseCrashes(c)
    <3>1. UNCHANGED <<wire, data, sock, timer, job, request, source, response, write, heap>>
      BY <2>10 DEF AfterWorkCrashes, CloseCrashes, Crash, netVars, connVars, workVars
    <3> QED
      BY <3>1
  <2> QED
    BY <1>5, <2>1, <2>2, <2>3, <2>4, <2>5, <2>6, <2>7, <2>8, <2>9, <2>10 DEF Loop
<1>6. ASSUME NEW c \in Client, Worker(c) PROVE ConnInv(d)'
  <2>1. CASE OnWorkDecode(c)
    BY <2>1, DecodeKeeps
  <2>2. CASE OnWorkRespond(c)
    BY <2>2, RespondKeeps
  <2>3. CASE WorkCrashes(c) \/ WorkExits(c)
    <3>1. UNCHANGED <<wire, data, sock, timer, job, request, source, response, write, heap>>
      BY <2>3 DEF WorkCrashes, WorkExits, Crash, netVars, connVars, workVars
    <3> QED
      BY <3>1
  <2> QED
    BY <1>6, <2>1, <2>2, <2>3 DEF Worker
<1>7. CASE UNCHANGED vars
  BY <1>7 DEF vars, netVars, connVars, workVars
<1> QED
  BY <1>1, <1>2, <1>3, <1>4, <1>5, <1>6, <1>7 DEF Next

\* If peers finish their commands, no worker ever finds half of one.
LEMMA WholeInductive ==
    ASSUME "malformed" \notin Faults, IInv, [Next]_vars, NEW d \in Client
    PROVE  Whole(d)'
<1> USE DEF IInv, ConnInv, InStep, Whole, TypeOK, Chunk, Request
<1>1. CASE Start \/ CloseListener \/ Return
  BY <1>1 DEF Start, CloseListener, Return, netVars, connVars, workVars
<1>2. ASSUME NEW c \in Client, Peer(c) PROVE Whole(d)'
  <2>1. ASSUME NEW chunk \in Sends[c] \union {"partial"}, PeerSend(c, chunk)
        PROVE  Whole(d)'
    BY <2>1, SendsAssumption DEF PeerSend, connVars, workVars
  <2>2. CASE PeerConnect(c) \/ PeerFinish(c) \/ PeerReset(c)
    BY <2>2 DEF PeerConnect, PeerFinish, PeerReset, connVars, workVars
  <2> QED
    BY <1>2, <2>1, <2>2 DEF Peer
<1>3. ASSUME NEW c \in Client, Loop(c) PROVE Whole(d)'
  <2>1. CASE OnNewConnection(c) \/ OnNewConnectionFails(c) \/ OnReadData(c)
    BY <2>1 DEF OnNewConnection, OnNewConnectionFails, OnReadData, connVars, workVars
  <2>2. CASE OnReadEnd(c) \/ OnTimeout(c) \/ OnAfterWork(c)
    BY <2>2 DEF OnReadEnd, OnTimeout, OnAfterWork, netVars, workVars
  <2>3. CASE OnWrite(c) \/ OnCloseTcpClient(c) \/ OnCloseTimeout(c)
    BY <2>3 DEF OnWrite, OnCloseTcpClient, OnCloseTimeout, netVars, connVars, workVars
  <2>4. CASE AfterWorkCrashes(c) \/ CloseCrashes(c)
    BY <2>4 DEF AfterWorkCrashes, CloseCrashes, Crash, netVars, connVars, workVars
  <2> QED
    BY <1>3, <2>1, <2>2, <2>3, <2>4 DEF Loop
<1>4. ASSUME NEW c \in Client, Worker(c) PROVE Whole(d)'
  <2>1. CASE OnWorkDecode(c)
    BY <2>1, SourcesAssumption
       DEF OnWorkDecode, DecodedAs, SourceAs, Source, netVars, connVars
  <2>2. CASE OnWorkRespond(c)
    BY <2>2 DEF OnWorkRespond, netVars, connVars
  <2>3. CASE WorkCrashes(c) \/ WorkExits(c)
    BY <2>3 DEF WorkCrashes, WorkExits, Crash, netVars, connVars, workVars
  <2> QED
    BY <1>4, <2>1, <2>2, <2>3 DEF Worker
<1>5. CASE UNCHANGED vars
  BY <1>5 DEF vars, netVars, connVars, workVars
<1> QED
  BY <1>1, <1>2, <1>3, <1>4, <1>5 DEF Next

\* What is known of the process and its listening handle is inductive.
LEMMA ServiceInvInductive ==
    IInv /\ [Next]_vars => ContextInv' /\ ListenerInv' /\ ReturnInv' /\ QuietInv'
<1> SUFFICES ASSUME IInv, [Next]_vars
             PROVE  ContextInv' /\ ListenerInv' /\ ReturnInv' /\ QuietInv'
  OBVIOUS
<1> USE DEF IInv, ContextInv, ListenerInv, ReturnInv, QuietInv, Context
<1>1. CASE Start
  BY <1>1 DEF Start, TypeOK, connVars, workVars, ConnInv, InStep
<1>2. CASE CloseListener
  BY <1>2 DEF CloseListener, connVars, workVars
<1>3. CASE Return
  BY <1>3 DEF Return, LoopAlive, InFlight, connVars, workVars
<1>4. ASSUME NEW c \in Client, Peer(c)
      PROVE  ContextInv' /\ ListenerInv' /\ ReturnInv' /\ QuietInv'
  BY <1>4 DEF Peer, PeerConnect, PeerSend, PeerFinish, PeerReset, connVars, workVars
<1>5. ASSUME NEW c \in Client, Loop(c)
      PROVE  ContextInv' /\ ListenerInv' /\ ReturnInv' /\ QuietInv'
  <2> USE DEF Of
  <2>1. CASE OnNewConnection(c)
    BY <2>1 DEF OnNewConnection, workVars
  <2>2. CASE OnNewConnectionFails(c)
    BY <2>2 DEF OnNewConnectionFails, workVars
  <2>3. CASE OnReadData(c)
    BY <2>3 DEF OnReadData, connVars, workVars
  <2>4. CASE OnReadEnd(c)
    <3>1. job[c] = "none"
      BY <2>4 DEF OnReadEnd, ConnInv, InStep
    <3> QED
      BY <2>4, <3>1 DEF OnReadEnd, TypeOK
  <2>5. CASE OnTimeout(c)
    BY <2>5 DEF OnTimeout, TimerDue, netVars, workVars
  <2>6. CASE OnAfterWork(c)
    BY <2>6 DEF OnAfterWork, TypeOK, netVars
  <2>7. CASE OnWrite(c)
    BY <2>7 DEF OnWrite, netVars, connVars, workVars
  <2>8. CASE OnCloseTcpClient(c)
    BY <2>8 DEF OnCloseTcpClient, netVars, workVars
  <2>9. CASE OnCloseTimeout(c)
    BY <2>9 DEF OnCloseTimeout, netVars, workVars
  <2>10. CASE AfterWorkCrashes(c) \/ CloseCrashes(c)
    BY <2>10 DEF AfterWorkCrashes, CloseCrashes, Crash, connVars, workVars
  <2> QED
    BY <1>5, <2>1, <2>2, <2>3, <2>4, <2>5, <2>6, <2>7, <2>8, <2>9, <2>10 DEF Loop
<1>6. ASSUME NEW c \in Client, Worker(c)
      PROVE  ContextInv' /\ ListenerInv' /\ ReturnInv' /\ QuietInv'
  <2> USE DEF Of
  <2>1. CASE OnWorkDecode(c)
    BY <2>1 DEF OnWorkDecode, TypeOK, connVars
  <2>2. CASE OnWorkRespond(c)
    BY <2>2 DEF OnWorkRespond, TypeOK, connVars
  <2>3. CASE WorkCrashes(c) \/ WorkExits(c)
    BY <2>3 DEF WorkCrashes, WorkExits, Crash, connVars, workVars
  <2> QED
    BY <1>6, <2>1, <2>2, <2>3 DEF Worker
<1>7. CASE UNCHANGED vars
  BY <1>7 DEF vars, netVars, connVars, workVars, LoopAlive, InFlight
<1> QED
  BY <1>1, <1>2, <1>3, <1>4, <1>5, <1>6, <1>7 DEF Next

(***************************************************************************)
(* The inductive invariant: the handles, the work and the blocks of every  *)
(* connection agree, after any sequence of callbacks of network.c.         *)
(***************************************************************************)
THEOREM Invariance == Spec => []IInv
<1>1. Init => IInv
  BY DEF Init, IInv, TypeOK, ConnInv, InStep, Owns, Pinned, Unbroken, Whole, Live, InFlight,
         ContextInv, ListenerInv, ReturnInv, QuietInv, Context, Chunk, ProcessState,
         HandleState, WireState, SockState, TimerState, JobState, ResponseState,
         WriteState
<1>2. IInv /\ TypeOK' /\ [Next]_vars => IInv'
  BY ConnInvInductive, WholeInductive, ServiceInvInductive DEF IInv
<1> QED
  BY <1>1, <1>2, Typing, PTL DEF Spec

(***************************************************************************)
(* While work is queued, running or waiting for on_after_work, the idle    *)
(* timer cannot take the connection away, if the work is never slower than *)
(* the timer.                                                              *)
(***************************************************************************)
THEOREM JobPinned ==
    ASSUME "slow" \notin Faults
    PROVE  Spec => []JobPinsConnection
<1>1. IInv => JobPinsConnection
  <2> SUFFICES ASSUME IInv, NEW c \in Client, InFlight(c)
               PROVE  /\ Live(c) /\ timer[c] = "armed"
                      /\ Of(c, {"client", "vector", "timeout", "work"}) \subseteq heap
    BY DEF JobPinsConnection
  <2>1. Live(c) /\ timer[c] = "armed"
    BY DEF IInv, ConnInv, InStep, Pinned
  <2>2. /\ <<"client", c>> \in heap /\ <<"vector", c>> \in heap
        /\ <<"timeout", c>> \in heap /\ <<"work", c>> \in heap
    BY <2>1 DEF IInv, ConnInv, Owns, Live
  <2> QED
    BY <2>1, <2>2 DEF Of
<1> QED
  BY <1>1, Invariance, PTL

(***************************************************************************)
(* The buffer of a write in progress outlives it, under every fault.       *)
(***************************************************************************)
THEOREM BufferSafe == Spec => []BufferOutlivesWrite
<1>1. IInv => BufferOutlivesWrite
  <2> SUFFICES ASSUME IInv, NEW c \in Client, write[c] = "pending"
               PROVE  /\ Of(c, {"client", "write"}) \subseteq heap
                      /\ response[c] = "program" => Of(c, {"response"}) \subseteq heap
    BY DEF BufferOutlivesWrite
  <2>1. /\ <<"client", c>> \in heap /\ <<"write", c>> \in heap
        /\ response[c] = "program" => <<"response", c>> \in heap
    BY DEF IInv, ConnInv, InStep, Owns
  <2> QED
    BY <2>1 DEF Of
<1> QED
  BY <1>1, Invariance, PTL

(***************************************************************************)
(* After a return the blocks left are those of refused writes, the sources *)
(* of empty codes and what the compiler loses, as LeakAccounted says.      *)
(***************************************************************************)
THEOREM LeakBound == Spec => []LeakAccounted
<1>1. IInv => LeakAccounted
  <2> SUFFICES ASSUME IInv, process = "returned"
               PROVE  LeakAccounted
    BY DEF LeakAccounted
  <2>1. heap \cap Context = {}
    BY DEF IInv, ContextInv
  <2>2. ASSUME NEW c \in Client
        PROVE  LET left == {kind \in Block : <<kind, c>> \in heap}
               IN  /\ left \subseteq {"write", "response", "source", "compiler"}
                   /\ "write" \in left <=> write[c] = "lost"
                   /\ "response" \in left <=> write[c] = "lost" /\ response[c] = "program"
                   /\ "source" \in left <=> source[c] = "empty"
                   /\ source[c] = "spilling" => "compiler" \in left
                   /\ "compiler" \in left => request[c] = "compile" /\ source[c] # "plain"
    <3>1. /\ sock[c] \in {"none", "closed"} /\ timer[c] \notin {"armed", "closing"}
          /\ ~InFlight(c) /\ write[c] # "pending"
      BY DEF IInv, ReturnInv, LoopAlive
    <3>2. source[c] # "none" => job[c] = "after"
      BY <3>1 DEF IInv, ConnInv, InStep, InFlight, TypeOK, JobState
    <3> QED
      BY <3>1, <3>2 DEF IInv, ConnInv, InStep, Owns, Block, InFlight
  <2> QED
    BY <2>1, <2>2 DEF LeakAccounted
<1> QED
  BY <1>1, Invariance, PTL

(***************************************************************************)
(* Without resets, listen errors and malformed commands, and if every code *)
(* is one the compiler frees all memory of, main finds no leak, however    *)
(* many connections were served.                                           *)
(***************************************************************************)
THEOREM NoLeak ==
    ASSUME Faults \cap {"reset", "listen", "malformed"} = {},
           Sources = {"plain"}
    PROVE  Spec => []NoLeakAtExit
<1>1. IInv /\ LeakAccounted => NoLeakAtExit
  <2> SUFFICES ASSUME IInv, LeakAccounted, process = "returned", NEW b \in heap
               PROVE  FALSE
    BY DEF NoLeakAtExit, IInv, ContextInv
  <2>1. PICK k \in Block, c \in Client : b = <<k, c>>
    BY DEF IInv, TypeOK, LeakAccounted
  <2>2. k \in {"source", "compiler"}
    BY <2>1 DEF LeakAccounted, IInv, ConnInv, Unbroken
  <2>3. source[c] \in {"none", "plain"}
    BY DEF IInv, TypeOK, ConnInv, InStep
  <2>4. k = "compiler" /\ request[c] = "compile" /\ source[c] = "none"
    BY <2>1, <2>2, <2>3 DEF LeakAccounted
  <2>5. job[c] \in {"done", "after"}
    BY <2>1, <2>4 DEF IInv, ConnInv, Owns
  <2> QED
    BY <2>4, <2>5 DEF IInv, ConnInv, Whole
<1> QED
  BY <1>1, Invariance, LeakBound, PTL

(***************************************************************************)
(* A server that returned was shut down and has drained, under every fault.*)
(***************************************************************************)
THEOREM Drained == Spec => []DrainedAtReturn
<1>1. IInv => DrainedAtReturn
  BY DEF IInv, ReturnInv, ListenerInv, LoopAlive, InFlight, DrainedAtReturn, TypeOK,
         JobState
<1> QED
  BY <1>1, Invariance, PTL

-----------------------------------------------------------------------------
(***************************************************************************)
(* Why nothing crashes: a worker only ever sees whole commands, so request *)
(* and response_size are set, their sources parse, and one peer at most    *)
(* can close the listener.                                                 *)
(***************************************************************************)
CommandInv(c) ==
    /\ timer[c] # "dangling"
    /\ data[c] \in Sends[c] \union {"none", "partial"}
    /\ wire[c] \in Chunk => wire[c] \in Sends[c] \union {"partial"}
    /\ job[c] \in {"done", "after"} => response[c] # "unset"
    /\ shut[c] => data[c] = "shutdown" /\ job[c] \in {"done", "after"}

CalmEnvironment ==
    /\ Faults \cap {"slow", "accept", "malformed"} = {}
    /\ Sources \subseteq {"plain", "spilling"}
    /\ SingleShutdown

CalmInv == NeverCrashes /\ \A c \in Client : CommandInv(c)

\* In a calm environment every decoded request is the one sent, and at most one
\* of them is a shutdown.
LEMMA CommandsInductive ==
    ASSUME CalmEnvironment, IInv, CalmInv, [Next]_vars, NEW d \in Client
    PROVE  CommandInv(d)'
<1> USE SendsAssumption DEF CalmEnvironment, CalmInv, CommandInv, IInv, ConnInv, InStep,
        Whole, TypeOK, Chunk, Request
<1>1. CASE Start \/ CloseListener \/ Return
  BY <1>1 DEF Start, CloseListener, Return, netVars, connVars, workVars
<1>2. ASSUME NEW c \in Client, Peer(c) PROVE CommandInv(d)'
  <2>1. ASSUME NEW chunk \in Sends[c] \union {"partial"}, PeerSend(c, chunk)
        PROVE  CommandInv(d)'
    BY <2>1 DEF PeerSend, connVars, workVars
  <2>2. CASE PeerConnect(c) \/ PeerFinish(c) \/ PeerReset(c)
    BY <2>2 DEF PeerConnect, PeerFinish, PeerReset, connVars, workVars
  <2> QED
    BY <1>2, <2>1, <2>2 DEF Peer
<1>3. ASSUME NEW c \in Client, Loop(c) PROVE CommandInv(d)'
  <2>1. CASE OnNewConnection(c) \/ OnNewConnectionFails(c) \/ OnReadData(c)
    BY <2>1 DEF OnNewConnection, OnNewConnectionFails, OnReadData, connVars, workVars
  <2>2. CASE OnReadEnd(c) \/ OnTimeout(c) \/ OnAfterWork(c)
    BY <2>2 DEF OnReadEnd, OnTimeout, OnAfterWork, netVars, workVars
  <2>3. CASE OnWrite(c) \/ OnCloseTcpClient(c) \/ OnCloseTimeout(c)
    BY <2>3 DEF OnWrite, OnCloseTcpClient, OnCloseTimeout, netVars, connVars, workVars
  <2>4. CASE AfterWorkCrashes(c) \/ CloseCrashes(c)
    BY <2>4 DEF AfterWorkCrashes, CloseCrashes, Crash, netVars, connVars, workVars
  <2> QED
    BY <1>3, <2>1, <2>2, <2>3, <2>4 DEF Loop
<1>4. ASSUME NEW c \in Client, Worker(c) PROVE CommandInv(d)'
  <2>1. CASE OnWorkDecode(c)
    BY <2>1 DEF OnWorkDecode, DecodedAs, netVars, connVars
  <2>2. CASE OnWorkRespond(c)
    BY <2>2 DEF OnWorkRespond, ResponseTo, netVars, connVars
  <2>3. CASE WorkCrashes(c) \/ WorkExits(c)
    BY <2>3 DEF WorkCrashes, WorkExits, Crash, netVars, connVars, workVars
  <2> QED
    BY <1>4, <2>1, <2>2, <2>3 DEF Worker
<1>5. CASE UNCHANGED vars
  BY <1>5 DEF vars, netVars, connVars, workVars
<1> QED
  BY <1>1, <1>2, <1>3, <1>4, <1>5 DEF Next

\* No step of a calm environment is one of the crashing ones.
LEMMA NoCrashingStep ==
    ASSUME CalmEnvironment, IInv, CalmInv, NEW c \in Client
    PROVE  ~AfterWorkCrashes(c) /\ ~CloseCrashes(c) /\ ~WorkCrashes(c)
<1> USE DEF CalmInv, CommandInv
<1>1. ~CloseCrashes(c)
  BY DEF CloseCrashes
<1>2. ~WorkCrashes(c)
  BY DEF WorkCrashes, CalmEnvironment, IInv, ConnInv, InStep, Pinned, Whole, InFlight, Live
<1>3. ~AfterWorkCrashes(c)
  <2> SUFFICES ASSUME process = "running", job[c] = "done", shut[c], listener # "open"
               PROVE  FALSE
    BY DEF AfterWorkCrashes, CalmEnvironment, IInv, ConnInv, Pinned, InFlight
  <2>1. PICK d \in Client : shut[d] /\ job[d] = "after"
    BY DEF IInv, ListenerInv, TypeOK, HandleState
  <2>2. data[c] = "shutdown" /\ data[d] = "shutdown"
    BY <2>1
  <2>3. "shutdown" \in Sends[c] \cap Sends[d]
    BY <2>2
  <2> QED
    BY <2>1, <2>3 DEF CalmEnvironment, SingleShutdown
<1> QED
  BY <1>1, <1>2, <1>3

(***************************************************************************)
(* If the work is never slower than the idle timer, every accept succeeds, *)
(* every peer sends whole commands, every code is one that parses, and one *)
(* peer at most asks for shutdown, then no callback touches freed memory   *)
(* and no handle is closed twice.                                          *)
(***************************************************************************)
THEOREM NoCrash ==
    ASSUME CalmEnvironment
    PROVE  Spec => []NeverCrashes
<1>1. Init => CalmInv
  BY SendsAssumption DEF Init, CalmInv, CommandInv, NeverCrashes, Chunk, Request
<1>2. IInv /\ CalmInv /\ [Next]_vars => CalmInv'
  <2> SUFFICES ASSUME IInv, CalmInv, [Next]_vars PROVE NeverCrashes'
    BY CommandsInductive DEF CalmInv
  <2> USE DEF CalmInv, NeverCrashes
  <2>1. CASE Start \/ CloseListener \/ Return
    BY <2>1 DEF Start, CloseListener, Return
  <2>2. ASSUME NEW c \in Client, Peer(c) PROVE NeverCrashes'
    BY <2>2 DEF Peer, PeerConnect, PeerSend, PeerFinish, PeerReset
  <2>3. ASSUME NEW c \in Client, Loop(c) PROVE NeverCrashes'
    BY <2>3, NoCrashingStep DEF Loop, OnNewConnection, OnNewConnectionFails, OnReadData,
       OnReadEnd, OnTimeout, OnAfterWork, OnWrite, OnCloseTcpClient, OnCloseTimeout
  <2>4. ASSUME NEW c \in Client, Worker(c) PROVE NeverCrashes'
    BY <2>4, NoCrashingStep DEF Worker, OnWorkDecode, OnWorkRespond, WorkExits
  <2>5. CASE UNCHANGED vars
    BY <2>5 DEF vars
  <2> QED
    BY <2>1, <2>2, <2>3, <2>4, <2>5 DEF Next
<1> QED
  BY <1>1, <1>2, Invariance, PTL DEF Spec, CalmInv

-----------------------------------------------------------------------------
(* The server implements CompileService.                                   *)

Stages == [c \in Client |-> StageOf(c)]

\* A step that changes the stage of no connection, nor the service, is invisible.
LEMMA StutterStep ==
    ASSUME \A d \in Client : StageOf(d)' = StageOf(d), ServiceOf' = ServiceOf
    PROVE  UNCHANGED <<ServiceOf, Stages>>
BY DEF Stages

\* A step that moves one connection from one stage to another is a Move.
LEMMA MoveStep ==
    ASSUME NEW c \in Client, NEW from, NEW to,
           StageOf(c) = from, StageOf(c)' = to,
           \A d \in Client \ {c} : StageOf(d)' = StageOf(d)
    PROVE  Promise!Move(c, from, to)
BY DEF Promise!Move

\* Every step of the server is a step of the service or a stutter.
LEMMA StepRefines ==
    ASSUME "slow" \notin Faults, IInv, [Next]_vars
    PROVE  Promise!SNext \/ UNCHANGED <<ServiceOf, Stages>>
<1> DEFINE Goal == Promise!SNext \/ UNCHANGED <<ServiceOf, Stages>>
<1> USE DEF StageOf, ServiceOf, Live, InFlight
<1>1. CASE Start
  <2>1. listener = "none" /\ \A d \in Client : StageOf(d)' = StageOf(d)
    BY <1>1 DEF Start, IInv, ListenerInv, connVars, workVars
  <2>2. CASE process' = "running"
    <3>1. Promise!Boot
      BY <1>1, <2>1, <2>2 DEF Start, Promise!Boot
    <3> QED
      BY <3>1 DEF Promise!SNext
  <2>3. CASE process' = "failed"
    BY <1>1, <2>1, <2>3, StutterStep DEF Start
  <2> QED
    BY <1>1, <2>2, <2>3 DEF Start
<1>2. CASE CloseListener
  BY <1>2, StutterStep DEF CloseListener, connVars, workVars
<1>3. CASE Return
  <2>1. \A d \in Client : /\ StageOf(d) \in {"absent", "answered", "dropped"}
                          /\ StageOf(d)' = StageOf(d)
    BY <1>3 DEF Return, LoopAlive, connVars, workVars, IInv, TypeOK, SockState, HandleState
  <2>2. ServiceOf = "draining" /\ ServiceOf' = "stopped"
    BY <1>3 DEF Return, LoopAlive
  <2>3. Promise!Stop
    BY <2>1, <2>2 DEF Promise!Stop, Promise!Settled
  <2> QED
    BY <2>3 DEF Promise!SNext
<1>4. ASSUME NEW c \in Client, Peer(c) PROVE Goal
  BY <1>4, StutterStep DEF Peer, PeerConnect, PeerSend, PeerFinish, PeerReset,
     connVars, workVars
<1>5. ASSUME NEW c \in Client, Loop(c) PROVE Goal
  <2> USE DEF IInv, ConnInv, InStep, TypeOK
  <2>1. CASE OnNewConnection(c)
    <3>1. Promise!Move(c, "absent", "connected")
      BY <2>1, MoveStep DEF OnNewConnection, workVars
    <3>2. Promise!Accept(c)
      BY <2>1, <3>1 DEF OnNewConnection, Promise!Accept
    <3> QED
      BY <3>2 DEF Promise!SNext
  <2>2. CASE OnNewConnectionFails(c)
    <3>1. CASE UNCHANGED sock
      BY <2>2, <3>1, StutterStep DEF OnNewConnectionFails, workVars
    <3>2. CASE sock' = [sock EXCEPT ![c] = "closing"]
      <4>1. Promise!Move(c, "absent", "dropped")
        BY <2>2, <3>2, MoveStep DEF OnNewConnectionFails, workVars
      <4>2. Promise!Refuse(c)
        BY <2>2, <4>1 DEF OnNewConnectionFails, Promise!Refuse
      <4> QED
        BY <4>2 DEF Promise!SNext
    <3> QED
      BY <2>2, <3>1, <3>2 DEF OnNewConnectionFails
  <2>3. CASE OnReadEnd(c)
    <3>1. Promise!Move(c, "connected", "submitted")
      BY <2>3, MoveStep DEF OnReadEnd
    <3>2. Promise!Submit(c)
      BY <2>3, <3>1 DEF OnReadEnd, Promise!Submit
    <3> QED
      BY <3>2 DEF Promise!SNext
  <2>4. CASE OnTimeout(c)
    <3>1. Promise!Move(c, "connected", "dropped")
      BY <2>4, MoveStep DEF OnTimeout, TimerDue, workVars
    <3>2. Promise!Drop(c)
      BY <2>4, <3>1 DEF OnTimeout, Promise!Drop
    <3> QED
      BY <3>2 DEF Promise!SNext
  <2>5. CASE OnAfterWork(c)
    <3>1. Promise!Move(c, "submitted", "answered")
      BY <2>5, MoveStep DEF OnAfterWork
    <3>2. CASE shut[c]
      <4>1. Promise!AnswerShutdown(c)
        BY <2>5, <3>1, <3>2 DEF OnAfterWork, Promise!AnswerShutdown
      <4> QED
        BY <4>1 DEF Promise!SNext
    <3>3. CASE ~shut[c]
      <4>1. Promise!Answer(c)
        BY <2>5, <3>1, <3>3 DEF OnAfterWork, Promise!Answer
      <4> QED
        BY <4>1 DEF Promise!SNext
    <3> QED
      BY <3>2, <3>3
  <2>6. CASE OnReadData(c) \/ OnWrite(c) \/ OnCloseTimeout(c)
    BY <2>6, StutterStep DEF OnReadData, OnWrite, OnCloseTimeout, netVars, connVars,
                             workVars
  <2>7. CASE OnCloseTcpClient(c)
    <3>1. \A d \in Client : StageOf(d)' = StageOf(d)
      BY <2>7 DEF OnCloseTcpClient, workVars
    <3> QED
      BY <2>7, <3>1, StutterStep DEF OnCloseTcpClient
  <2>8. CASE AfterWorkCrashes(c) \/ CloseCrashes(c)
    BY <2>8, StutterStep DEF AfterWorkCrashes, CloseCrashes, Crash, connVars, workVars
  <2> QED
    BY <1>5, <2>1, <2>2, <2>3, <2>4, <2>5, <2>6, <2>7, <2>8 DEF Loop
<1>6. ASSUME NEW c \in Client, Worker(c) PROVE Goal
  <2>1. CASE OnWorkDecode(c) \/ OnWorkRespond(c)
    BY <2>1, StutterStep DEF OnWorkDecode, OnWorkRespond, connVars, IInv, TypeOK
  <2>2. CASE WorkCrashes(c) \/ WorkExits(c)
    BY <2>2, StutterStep DEF WorkCrashes, WorkExits, Crash, connVars, workVars
  <2> QED
    BY <1>6, <2>1, <2>2 DEF Worker
<1>7. CASE UNCHANGED vars
  BY <1>7, StutterStep DEF vars, connVars, workVars
<1> QED
  BY <1>1, <1>2, <1>3, <1>4, <1>5, <1>6, <1>7 DEF Next

(***************************************************************************)
(* Every behaviour of the server is a behaviour of the service it          *)
(* promises, as far as safety goes.                                        *)
(***************************************************************************)
THEOREM Refinement ==
    ASSUME "slow" \notin Faults
    PROVE  Spec => KeepsPromise
<1>1. Init => Promise!SInit
  BY DEF Init, Promise!SInit, StageOf, ServiceOf, Live, InFlight
<1>2. IInv /\ [Next]_vars => [Promise!SNext]_(Promise!svars)
  BY StepRefines DEF Promise!svars, Stages
<1> QED
  BY <1>1, <1>2, Invariance, PTL DEF Spec, KeepsPromise, Promise!SafeService
=============================================================================

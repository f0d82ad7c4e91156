----------------------------- MODULE CaborMemory -----------------------------
(***************************************************************************)
(* The allocator of src/src/core/memory.c and the logger of                *)
(* src/src/logging/logging.c, in the debug build: the loop thread and the  *)
(* workers share one byte counter behind alloc_lock and one log buffer     *)
(* behind log_buffer_lock.  The log buffer is a cabor_vector: pushing to a *)
(* full one reallocates it, which takes alloc_lock inside log_buffer_lock. *)
(*                                                                         *)
(* Abstracted: addresses (a block is its identity), the debug strings, and *)
(* the characters of a line (a piece stands for one pushed string).        *)
(***************************************************************************)
EXTENDS Integers, Sequences, FiniteSets

CONSTANTS
    Thread,         \* the threads of the process
    Block,          \* the allocations, LogBuffer excepted
    LogBuffer,      \* the memory of the log vector
    Nobody,         \* the owner of a free lock
    NoCall,         \* a thread that is not inside the allocator
    MaxSize,        \* bound: sizes of blocks
    InitialLog,     \* CABOR_LOGGER_INITIAL_BUFFER_SIZE, in pieces
    MaxLog          \* bound: no line is begun in a log of this length

ASSUME LockAssumption == Nobody \notin Thread
ASSUME BlockAssumption == LogBuffer \notin Block
ASSUME SizeAssumption ==
    MaxSize \in Nat \ {0} /\ InitialLog \in Nat \ {0} /\ MaxLog \in Nat

VARIABLES
    pc,         \* where each thread is in push_log or dump_cabor_log_to_disk
    call,       \* the allocator call each thread is in
    allocLock,  \* who holds alloc_lock
    logLock,    \* who holds log_buffer_lock
    allocated,  \* allocator_context->allocated_mem
    live,       \* the size malloc has given each block, 0 when it is free
    log,        \* the pieces in the log buffer
    file,       \* CABOR_LOG.txt
    exited      \* a failed malloc called exit(1)

memVars == <<call, allocLock, allocated, live>>
logVars == <<pc, logLock, log, file>>
vars == <<memVars, logVars, exited>>

AllBlocks == Block \union {LogBuffer}
Pieces == {"prefix", "message", "newline"}
PC == {"idle", "want", "begin", "prefixed", "written", "end", "wantdump", "dump"}
Calls == [fn : {"malloc", "realloc", "free"}, block : AllBlocks, size : Nat,
          step : {"lock", "load", "store", "unlock", "system"}, seen : Int]
ASSUME CallAssumption == NoCall \notin Calls

TypeOK ==
    /\ pc \in [Thread -> PC]
    /\ call \in [Thread -> Calls \union {NoCall}]
    /\ allocLock \in Thread \union {Nobody}
    /\ logLock \in Thread \union {Nobody}
    /\ allocated \in Nat       \* a size_t that is never taken below zero
    /\ live \in [AllBlocks -> Nat]
    /\ log \in Seq(Thread \X Pieces)
    /\ file \in Seq(Thread \X Pieces)
    /\ exited \in BOOLEAN

\* main has created the allocator and the logger.
Init ==
    /\ pc = [t \in Thread |-> "idle"]
    /\ call = [t \in Thread |-> NoCall]
    /\ allocLock = Nobody
    /\ logLock = Nobody
    /\ allocated = InitialLog
    /\ live = [b \in AllBlocks |-> IF b = LogBuffer THEN InitialLog ELSE 0]
    /\ log = <<>>
    /\ file = <<>>
    /\ exited = FALSE

Inside(t) == call[t] # NoCall
InUse(b) == \E t \in Thread : Inside(t) /\ call[t].block = b

-----------------------------------------------------------------------------
(* memory.c: each function counts under the lock, then calls the system.   *)

Enter(t, fn, b, n) ==
    call' = [call EXCEPT ![t] =
        [fn |-> fn, block |-> b, size |-> n, step |-> "lock", seen |-> 0]]

GoTo(t, step) == call' = [call EXCEPT ![t].step = step]

\* cabor_malloc and cabor_calloc
Malloc(t, b, n) ==
    /\ pc[t] = "idle" /\ ~Inside(t)
    /\ live[b] = 0 /\ ~InUse(b)
    /\ Enter(t, "malloc", b, n)
    /\ UNCHANGED <<allocLock, allocated, live, logVars, exited>>

Realloc(t, b, n) ==
    /\ pc[t] = "idle" /\ ~Inside(t)
    /\ live[b] > 0 /\ ~InUse(b)
    /\ Enter(t, "realloc", b, n)
    /\ UNCHANGED <<allocLock, allocated, live, logVars, exited>>

Free(t, b) ==
    /\ pc[t] = "idle" /\ ~Inside(t)
    /\ live[b] > 0 /\ ~InUse(b)
    /\ Enter(t, "free", b, 0)
    /\ UNCHANGED <<allocLock, allocated, live, logVars, exited>>

\* Mutant: the section of the counter is entered without waiting.
LockAllocAnyway(t) ==
    /\ Inside(t) /\ call[t].step = "lock"
    /\ allocLock' = t
    /\ GoTo(t, "load")
    /\ UNCHANGED <<allocated, live, logVars, exited>>

LockAlloc(t) ==
    /\ Inside(t) /\ call[t].step = "lock"
    /\ allocLock = Nobody
    /\ allocLock' = t
    /\ GoTo(t, "load")
    /\ UNCHANGED <<allocated, live, logVars, exited>>

\* allocated_mem += ... is a load and a store.
LoadCounter(t) ==
    /\ Inside(t) /\ call[t].step = "load"
    /\ call' = [call EXCEPT ![t].seen = allocated, ![t].step = "store"]
    /\ UNCHANGED <<allocLock, allocated, live, logVars, exited>>

\* Mutant: an allocation of several elements is counted as one of them.
DeltaOfOneElement(c) == (IF c.size > 1 /\ c.fn = "malloc" THEN 1 ELSE c.size)
                        - (IF c.fn = "malloc" THEN 0 ELSE live[c.block])

\* What a call adds to the counter: realloc and free know the old size.
Delta(c) == c.size - (IF c.fn = "malloc" THEN 0 ELSE live[c.block])

StoreCounter(t) ==
    /\ Inside(t) /\ call[t].step = "store"
    /\ allocated' = call[t].seen + Delta(call[t])
    /\ GoTo(t, "unlock")
    /\ UNCHANGED <<allocLock, live, logVars, exited>>

\* Mutant: a path out of the section that does not give the lock back.
KeepAllocLock(t) ==
    /\ Inside(t) /\ call[t].step = "unlock"
    /\ GoTo(t, "system")
    /\ UNCHANGED <<allocLock, allocated, live, logVars, exited>>

UnlockAlloc(t) ==
    /\ Inside(t) /\ call[t].step = "unlock"
    /\ allocLock' = Nobody
    /\ GoTo(t, "system")
    /\ UNCHANGED <<allocated, live, logVars, exited>>

\* malloc, calloc, realloc or free itself.
SystemCall(t) ==
    /\ Inside(t) /\ call[t].step = "system"
    /\ live' = [live EXCEPT ![call[t].block] = call[t].size]
    /\ call' = [call EXCEPT ![t] = NoCall]
    /\ UNCHANGED <<allocLock, allocated, logVars, exited>>

\* A NULL from the system: message on stderr, exit(1).
SystemFails(t) ==
    /\ Inside(t) /\ call[t].step = "system" /\ call[t].fn # "free"
    /\ exited' = TRUE
    /\ UNCHANGED <<memVars, logVars>>

-----------------------------------------------------------------------------
(* logging.c: a line is pushed piece by piece under log_buffer_lock.       *)

PushLog(t) ==
    /\ pc[t] = "idle" /\ ~Inside(t)
    /\ Len(log) < MaxLog
    /\ pc' = [pc EXCEPT ![t] = "want"]
    /\ UNCHANGED <<logLock, log, file, memVars, exited>>

\* Bound: no dump is begun once the file has text.
DumpLog(t) ==
    /\ pc[t] = "idle" /\ ~Inside(t)
    /\ file = <<>>
    /\ pc' = [pc EXCEPT ![t] = "wantdump"]
    /\ UNCHANGED <<logLock, log, file, memVars, exited>>

LockLog(t) ==
    /\ pc[t] \in {"want", "wantdump"}
    /\ logLock = Nobody
    /\ logLock' = t
    /\ pc' = [pc EXCEPT ![t] = IF pc[t] = "want" THEN "begin" ELSE "dump"]
    /\ UNCHANGED <<log, file, memVars, exited>>

\* The next piece of the line: CABOR_BLANK has no prefix.
NextPiece(t) == CASE pc[t] = "begin"    -> {"prefix", "message"}
                  [] pc[t] = "prefixed" -> {"message"}
                  [] pc[t] = "written"  -> {"newline"}
                  [] OTHER              -> {}

After(piece) == CASE piece = "prefix"  -> "prefixed"
                  [] piece = "message" -> "written"
                  [] OTHER             -> "end"

\* A vector push with room left ...
PushPiece(t, piece) ==
    /\ ~Inside(t) /\ piece \in NextPiece(t)
    /\ Len(log) < live[LogBuffer]
    /\ log' = Append(log, <<t, piece>>)
    /\ pc' = [pc EXCEPT ![t] = After(piece)]
    /\ UNCHANGED <<logLock, file, memVars, exited>>

\* ... and one that first doubles the capacity.
GrowLog(t) ==
    /\ ~Inside(t) /\ NextPiece(t) # {}
    /\ Len(log) = live[LogBuffer]
    /\ Enter(t, "realloc", LogBuffer, 2 * live[LogBuffer])
    /\ UNCHANGED <<allocLock, allocated, live, logVars, exited>>

\* The file is opened for appending.
WriteFile(t) ==
    /\ pc[t] = "dump"
    /\ file' = file \o log
    /\ pc' = [pc EXCEPT ![t] = "end"]
    /\ UNCHANGED <<logLock, log, memVars, exited>>

\* Mutant: the lock is given back before the newline is pushed.
UnlockLogEarly(t) ==
    /\ pc[t] = "written" /\ ~Inside(t)
    /\ logLock' = Nobody
    /\ UNCHANGED <<pc, log, file, memVars, exited>>

UnlockLog(t) ==
    /\ pc[t] = "end"
    /\ logLock' = Nobody
    /\ pc' = [pc EXCEPT ![t] = "idle"]
    /\ UNCHANGED <<log, file, memVars, exited>>

-----------------------------------------------------------------------------

Allocates(t) ==
    \/ \E b \in Block, n \in 1..MaxSize : Malloc(t, b, n) \/ Realloc(t, b, n)
    \/ \E b \in Block : Free(t, b)

InAllocator(t) ==
    LockAlloc(t) \/ LoadCounter(t) \/ StoreCounter(t) \/ UnlockAlloc(t) \/ SystemCall(t)

InLogger(t) ==
    \/ LockLog(t) \/ GrowLog(t) \/ WriteFile(t) \/ UnlockLog(t)
    \/ \E piece \in Pieces : PushPiece(t, piece)

Next ==
    /\ ~exited
    /\ \E t \in Thread : \/ Allocates(t) \/ PushLog(t) \/ DumpLog(t)
                         \/ InAllocator(t) \/ SystemFails(t) \/ InLogger(t)

Spec == Init /\ [][Next]_vars

\* A thread inside the two modules keeps running, and a mutex that is given
\* back again and again is not denied to one thread for ever.
FairSpec ==
    /\ Spec
    /\ \A t \in Thread : /\ WF_vars(~exited /\ (InAllocator(t) \/ InLogger(t)))
                         /\ SF_vars(~exited /\ LockAlloc(t))
                         /\ SF_vars(~exited /\ LockLog(t))

-----------------------------------------------------------------------------
(* Properties. *)

\* The calls on a block that are counted and not yet done by the system.
Counted(b) ==
    {t \in Thread : Inside(t) /\ call[t].block = b /\ call[t].step \in {"unlock", "system"}}

\* The bytes of a block, numbered; a counted call has its new size already.
BytesOf(b) == IF Counted(b) = {} THEN 1 .. live[b]
              ELSE UNION {1 .. call[t].size : t \in Counted(b)}

CountedBytes == UNION {{b} \X BytesOf(b) : b \in AllBlocks}

(***************************************************************************)
(* allocated_mem is exactly the number of bytes the process holds, where a *)
(* block between its counting and its malloc, realloc or free is as large  *)
(* as it will be: no update is lost, so the leak check of main             *)
(* (main.c:185) can be believed.                                           *)
(***************************************************************************)
AccountingExact == allocated = Cardinality(CountedBytes)

(***************************************************************************)
(* Between reading allocated_mem and writing it back (allocator_context->  *)
(* allocated_mem += ... in memory.c) nobody else writes it.                *)
(***************************************************************************)
NoLostUpdate ==
    \A t \in Thread :
        Inside(t) /\ call[t].step = "store" => call[t].seen = allocated

(***************************************************************************)
(* The lines of the log are whole: between the first piece of a line and   *)
(* its newline there is no piece of another thread, in the buffer, in the  *)
(* file on disk, and after any number of reallocations of the buffer.      *)
(***************************************************************************)
Continues(s) ==
    /\ s # <<>> => s[1][2] \in {"prefix", "message"}
    /\ \A i \in 1 .. Len(s) - 1 :
        CASE s[i][2] = "prefix"  -> s[i + 1] = <<s[i][1], "message">>
          [] s[i][2] = "message" -> s[i + 1] = <<s[i][1], "newline">>
          [] OTHER               -> s[i + 1][2] \in {"prefix", "message"}

LinesWhole ==
    /\ Continues(log)
    /\ Continues(file)
    /\ file # <<>> => file[Len(file)][2] = "newline"

(***************************************************************************)
(* Nobody waits for ever: a thread that logs, even one that finds the      *)
(* buffer full and needs alloc_lock while it holds log_buffer_lock,        *)
(* returns, unless the process has exited.                                 *)
(***************************************************************************)
LogReturns == \A t \in Thread : (pc[t] = "want") ~> (pc[t] = "idle" \/ exited)
=============================================================================

---------------------------- MODULE MemoryProofs ----------------------------
(***************************************************************************)
(* Proofs about CaborMemory, for any number of threads and blocks and any  *)
(* length of the log: the two locks exclude, and no line is torn.          *)
(***************************************************************************)
EXTENDS CaborMemory, FiniteSetTheorems, TLAPS

\* Where a thread holds log_buffer_lock.
Holding == {"begin", "prefixed", "written", "end", "dump"}

LogTypeOK ==
    /\ pc \in [Thread -> PC]
    /\ logLock \in Thread \union {Nobody}
    /\ log \in Seq(Thread \X Pieces)
    /\ file \in Seq(Thread \X Pieces)

\* log_buffer_lock is held exactly by the thread inside the section.
LogLockInv == \A t \in Thread : (pc[t] \in Holding) <=> (logLock = t)

\* The last piece of the buffer is what its holder pushed last; with the lock
\* free, or a line not begun or complete, the buffer ends in a newline.
Unfinished == \E t \in Thread : pc[t] \in {"prefixed", "written"}
TailInv ==
    /\ \A t \in Thread :
          /\ pc[t] = "prefixed" => log # <<>> /\ log[Len(log)] = <<t, "prefix">>
          /\ pc[t] = "written"  => log # <<>> /\ log[Len(log)] = <<t, "message">>
    /\ ~Unfinished => (log # <<>> => log[Len(log)][2] = "newline")

LogInv == LogTypeOK /\ LogLockInv /\ TailInv /\ LinesWhole

-----------------------------------------------------------------------------

\* One more piece keeps the lines whole when it continues the last one.
LEMMA AppendContinues ==
    ASSUME NEW s \in Seq(Thread \X Pieces), NEW t \in Thread, NEW piece \in Pieces,
           Continues(s),
           s = <<>> => piece # "newline",
           s # <<>> => \/ piece = "message" /\ s[Len(s)] = <<t, "prefix">>
                       \/ piece = "newline" /\ s[Len(s)] = <<t, "message">>
                       \/ piece # "newline" /\ s[Len(s)][2] = "newline"
    PROVE  /\ Continues(Append(s, <<t, piece>>))
           /\ Append(s, <<t, piece>>) \in Seq(Thread \X Pieces)
           /\ Append(s, <<t, piece>>) # <<>>
           /\ Append(s, <<t, piece>>)[Len(Append(s, <<t, piece>>))] = <<t, piece>>
  <1> DEFINE e == <<t, piece>>
             r == Append(s, e)
  <1>1. /\ e \in Thread \X Pieces
        /\ e[1] = t /\ e[2] = piece
    OBVIOUS
  <1>2. /\ r \in Seq(Thread \X Pieces)
        /\ Len(s) \in Nat /\ Len(r) = Len(s) + 1
        /\ r[Len(r)] = e
        /\ \A i \in 1 .. Len(s) : r[i] = s[i]
    BY <1>1
  <1>5. r # <<>>
    <2>1. Len(r) # 0
      BY <1>2
    <2> HIDE DEF r
    <2> QED
      BY <2>1
  <1>3. ASSUME NEW i \in 1 .. Len(r) - 1
        PROVE  CASE r[i][2] = "prefix"  -> r[i + 1] = <<r[i][1], "message">>
                 [] r[i][2] = "message" -> r[i + 1] = <<r[i][1], "newline">>
                 [] OTHER               -> r[i + 1][2] \in {"prefix", "message"}
    <2>1. CASE i = Len(s)
      <3>1. s # <<>> /\ r[i] = s[Len(s)] /\ r[i + 1] = e
        BY <1>2, <2>1, <1>3
      <3>2. CASE piece = "message" /\ s[Len(s)] = <<t, "prefix">>
        BY <3>1, <3>2, <1>1
      <3>3. CASE piece = "newline" /\ s[Len(s)] = <<t, "message">>
        BY <3>1, <3>3, <1>1
      <3>4. CASE piece # "newline" /\ s[Len(s)][2] = "newline"
        <4>1. piece \in {"prefix", "message"}
          BY <3>4 DEF Pieces
        <4> QED
          BY <3>1, <3>4, <4>1, <1>1
      <3> QED
        BY <3>1, <3>2, <3>3, <3>4
    <2>2. CASE i # Len(s)
      <3>1. i \in 1 .. Len(s) - 1 /\ r[i] = s[i] /\ r[i + 1] = s[i + 1]
        BY <1>2, <2>2, <1>3
      <3> HIDE DEF r
      <3> QED
        BY <3>1 DEF Continues
    <2> QED
      BY <2>1, <2>2
  <1>6. r[1][2] \in {"prefix", "message"}
    <2>1. CASE s = <<>>
      BY <1>1, <1>2, <2>1 DEF Pieces
    <2>2. CASE s # <<>>
      <3>1. 1 \in 1 .. Len(s)
        BY <1>2, <2>2
      <3> QED
        BY <1>2, <2>2, <3>1 DEF Continues
    <2> QED
      BY <2>1, <2>2
  <1>4. Continues(r)
    <2> HIDE DEF r
    <2> QED
      BY <1>3, <1>6 DEF Continues
  <1> QED
    BY <1>2, <1>4, <1>5

\* Whole lines behind whole lines are whole lines.
LEMMA AppendLines ==
    ASSUME NEW s \in Seq(Thread \X Pieces), NEW q \in Seq(Thread \X Pieces),
           Continues(s), Continues(q),
           s # <<>> => s[Len(s)][2] = "newline",
           q # <<>> => q[Len(q)][2] = "newline"
    PROVE  /\ Continues(s \o q)
           /\ s \o q \in Seq(Thread \X Pieces)
           /\ s \o q # <<>> => (s \o q)[Len(s \o q)][2] = "newline"
  <1> DEFINE r == s \o q
  <1>1. /\ r \in Seq(Thread \X Pieces)
        /\ Len(s) \in Nat /\ Len(q) \in Nat /\ Len(r) = Len(s) + Len(q)
        /\ \A i \in 1 .. Len(s) : r[i] = s[i]
        /\ \A i \in 1 .. Len(q) : r[Len(s) + i] = q[i]
    OBVIOUS
  <1>2. /\ s # <<>> <=> Len(s) > 0
        /\ q # <<>> <=> Len(q) > 0
        /\ r # <<>> <=> Len(r) > 0
    BY <1>1
  <1> HIDE DEF r
  <1>3. r # <<>> => r[Len(r)][2] = "newline"
    <2>1. CASE Len(q) > 0
      <3>1. r[Len(s) + Len(q)] = q[Len(q)]
        BY <1>1, <2>1
      <3> QED
        BY <1>1, <1>2, <2>1, <3>1
    <2>2. CASE Len(q) = 0 /\ Len(s) > 0
      BY <1>1, <1>2, <2>2
    <2> QED
      BY <1>1, <1>2, <2>1, <2>2
  <1>4. r # <<>> => r[1][2] \in {"prefix", "message"}
    <2>1. CASE Len(s) > 0
      <3>1. r[1] = s[1]
        BY <1>1, <2>1
      <3>2. s[1][2] \in {"prefix", "message"}
        BY <1>2, <2>1 DEF Continues
      <3> QED
        BY <3>1, <3>2
    <2>2. CASE Len(s) = 0 /\ Len(q) > 0
      <3>1. r[Len(s) + 1] = q[1]
        BY <1>1, <2>2
      <3> QED
        BY <1>2, <2>2, <3>1 DEF Continues
    <2>3. r # <<>> => Len(s) > 0 \/ (Len(s) = 0 /\ Len(q) > 0)
      BY <1>1, <1>2
    <2> QED
      BY <2>1, <2>2, <2>3
  <1>5. ASSUME NEW i \in 1 .. Len(r) - 1
        PROVE  CASE r[i][2] = "prefix"  -> r[i + 1] = <<r[i][1], "message">>
                 [] r[i][2] = "message" -> r[i + 1] = <<r[i][1], "newline">>
                 [] OTHER               -> r[i + 1][2] \in {"prefix", "message"}
    <2>1. CASE i < Len(s)
      <3>1. i \in 1 .. Len(s) - 1 /\ r[i] = s[i] /\ r[i + 1] = s[i + 1]
        BY <1>1, <2>1, <1>5
      <3> QED
        BY <3>1 DEF Continues
    <2>2. CASE i = Len(s)
      <3>1. r[i] = s[Len(s)] /\ r[i + 1] = q[1] /\ Len(s) > 0 /\ Len(q) > 0
        BY <1>1, <2>2, <1>5
      <3> QED
        BY <1>2, <3>1 DEF Continues
    <2>3. CASE i > Len(s)
      <3> DEFINE j == i - Len(s)
      <3>1. j \in 1 .. Len(q) - 1 /\ j + 1 \in 1 .. Len(q)
            /\ i = Len(s) + j /\ i + 1 = Len(s) + (j + 1)
        BY <1>1, <2>3, <1>5
      <3> HIDE DEF j
      <3>2. r[i] = q[j] /\ r[i + 1] = q[j + 1]
        BY <1>1, <3>1
      <3> QED
        BY <3>1, <3>2 DEF Continues
    <2> QED
      BY <1>1, <1>5, <2>1, <2>2, <2>3
  <1>6. Continues(r)
    BY <1>4, <1>5 DEF Continues
  <1> QED
    BY <1>1, <1>3, <1>6 DEF r

\* An empty buffer and an empty file hold no torn line.
LEMMA LogInit == Init => LogInv
  <1> SUFFICES ASSUME Init PROVE LogInv
    OBVIOUS
  <1>1. LogTypeOK
    BY DEF Init, LogTypeOK, PC
  <1>2. LogLockInv
    BY LockAssumption DEF Init, LogLockInv, Holding
  <1>3. TailInv
    BY DEF Init, TailInv
  <1>4. LinesWhole
    BY DEF Init, LinesWhole, Continues
  <1> QED
    BY <1>1, <1>2, <1>3, <1>4 DEF LogInv

\* A step that leaves the logger alone.
LEMMA LogStutter == LogInv /\ UNCHANGED logVars => LogInv'
  BY DEF LogInv, logVars, LogTypeOK, LogLockInv, TailInv, Unfinished, LinesWhole, Continues

\* A piece is pushed by the holder of the lock, behind its own last piece.
LEMMA PushPieceKeeps ==
    ASSUME LogInv, NEW t \in Thread, NEW piece \in Pieces, PushPiece(t, piece)
    PROVE  LogInv'
  <1> USE DEF LogInv
  <1>1. /\ log' = Append(log, <<t, piece>>)
        /\ pc' = [pc EXCEPT ![t] = After(piece)]
        /\ piece \in NextPiece(t)
        /\ UNCHANGED <<logLock, file>>
    BY DEF PushPiece
  <1>2. /\ pc[t] = "begin"    => piece \in {"prefix", "message"}
        /\ pc[t] = "prefixed" => piece = "message"
        /\ pc[t] = "written"  => piece = "newline"
        /\ pc[t] \in {"begin", "prefixed", "written"}
    BY <1>1 DEF NextPiece
  <1>3. /\ piece = "prefix"  => After(piece) = "prefixed"
        /\ piece = "message" => After(piece) = "written"
        /\ piece = "newline" => After(piece) = "end"
        /\ After(piece) \in Holding /\ After(piece) \in PC
    BY DEF After, Pieces, Holding, PC
  <1>4. logLock = t /\ \A u \in Thread \ {t} : pc[u] \notin Holding
    BY <1>2 DEF LogLockInv, Holding
  <1>5. /\ pc[t] = "begin" => ~Unfinished
        /\ pc \in [Thread -> PC] /\ log \in Seq(Thread \X Pieces)
    BY <1>2, <1>4 DEF Unfinished, Holding, LogTypeOK
  <1>6. log # <<>> => \/ piece = "message" /\ log[Len(log)] = <<t, "prefix">>
                      \/ piece = "newline" /\ log[Len(log)] = <<t, "message">>
                      \/ piece # "newline" /\ log[Len(log)][2] = "newline"
    BY <1>2, <1>5 DEF TailInv
  <1>13. log = <<>> => piece # "newline"
    BY <1>2 DEF TailInv
  <1>7. /\ Continues(log')
        /\ log' \in Seq(Thread \X Pieces)
        /\ log' # <<>>
        /\ log'[Len(log')] = <<t, piece>>
    BY <1>1, <1>5, <1>6, <1>13, AppendContinues DEF LinesWhole
  <1>8. LogTypeOK'
    BY <1>1, <1>3, <1>7 DEF LogTypeOK
  <1>9. /\ pc'[t] = After(piece)
        /\ \A u \in Thread \ {t} : pc'[u] = pc[u]
    BY <1>1, <1>5
  <1>10. LogLockInv'
    BY <1>1, <1>3, <1>4, <1>9 DEF LogLockInv
  <1>11. TailInv'
    <2>1. \A u \in Thread : pc'[u] \in {"prefixed", "written"} => u = t
      BY <1>4, <1>9 DEF Holding
    <2>2. After(piece) = "prefixed" => piece = "prefix"
      BY DEF After, Pieces
    <2>3. After(piece) = "written" => piece = "message"
      BY DEF After, Pieces
    <2>4. ~Unfinished' => log'[Len(log')][2] = "newline"
      <3>1. ~Unfinished' => piece = "newline"
        BY <1>3, <1>9 DEF Unfinished, Pieces
      <3> QED
        BY <3>1, <1>7
    <2> QED
      BY <2>1, <2>2, <2>3, <2>4, <1>7, <1>9 DEF TailInv
  <1>12. LinesWhole'
    BY <1>1, <1>7 DEF LinesWhole, Continues
  <1> QED
    BY <1>8, <1>10, <1>11, <1>12

\* The other steps of the logger only move threads, or append whole lines.
LEMMA LogStep ==
    ASSUME LogInv, NEW t \in Thread,
           \/ PushLog(t) \/ DumpLog(t) \/ LockLog(t) \/ WriteFile(t) \/ UnlockLog(t)
    PROVE  LogInv'
  <1> USE DEF LogInv
  <1>0. pc \in [Thread -> PC] /\ t # Nobody
    BY LockAssumption DEF LogTypeOK
  <1>1. CASE PushLog(t) \/ DumpLog(t)
    <2>1. /\ pc'[t] \in {"want", "wantdump"} /\ pc[t] = "idle"
          /\ \A u \in Thread \ {t} : pc'[u] = pc[u]
          /\ UNCHANGED <<logLock, log, file>>
          /\ pc' \in [Thread -> PC]
      BY <1>0, <1>1 DEF PushLog, DumpLog, PC
    <2>2. LogTypeOK' /\ LogLockInv'
      BY <2>1 DEF LogTypeOK, LogLockInv, Holding
    <2>3. TailInv' /\ LinesWhole'
      BY <2>1 DEF TailInv, Unfinished, LinesWhole, Continues
    <2> QED
      BY <2>2, <2>3
  <1>2. CASE LockLog(t)
    <2>1. /\ pc'[t] \in {"begin", "dump"} /\ pc[t] \in {"want", "wantdump"}
          /\ \A u \in Thread \ {t} : pc'[u] = pc[u]
          /\ UNCHANGED <<log, file>>
          /\ logLock = Nobody /\ logLock' = t
          /\ pc' \in [Thread -> PC]
      BY <1>0, <1>2 DEF LockLog, PC
    <2>2. LogTypeOK' /\ LogLockInv'
      BY <2>1, LockAssumption DEF LogTypeOK, LogLockInv, Holding
    <2>3. TailInv' /\ LinesWhole'
      BY <2>1 DEF TailInv, Unfinished, LinesWhole, Continues
    <2> QED
      BY <2>2, <2>3
  <1>3. CASE WriteFile(t)
    <2>1. /\ pc'[t] = "end" /\ pc[t] = "dump"
          /\ \A u \in Thread \ {t} : pc'[u] = pc[u]
          /\ UNCHANGED <<log, logLock>>
          /\ file' = file \o log
          /\ pc' \in [Thread -> PC]
      BY <1>0, <1>3 DEF WriteFile, PC
    <2>3. TailInv'
      BY <2>1 DEF TailInv, Unfinished
    <2>4. ~Unfinished
      BY <2>1 DEF LogLockInv, Unfinished, Holding
    <2>5. /\ Continues(file')
          /\ file' \in Seq(Thread \X Pieces)
          /\ file' # <<>> => file'[Len(file')][2] = "newline"
      BY <2>1, <2>4, AppendLines DEF TailInv, LinesWhole, LogTypeOK
    <2>6. LinesWhole'
      BY <2>1, <2>5 DEF LinesWhole, Continues
    <2>2. LogTypeOK' /\ LogLockInv'
      BY <2>1, <2>5 DEF LogTypeOK, LogLockInv, Holding
    <2> QED
      BY <2>2, <2>3, <2>6
  <1>4. CASE UnlockLog(t)
    <2>1. /\ pc'[t] = "idle" /\ pc[t] = "end"
          /\ \A u \in Thread \ {t} : pc'[u] = pc[u]
          /\ UNCHANGED <<log, file>>
          /\ logLock' = Nobody
          /\ pc' \in [Thread -> PC]
      BY <1>0, <1>4 DEF UnlockLog, PC
    <2>2. LogTypeOK' /\ LogLockInv'
      BY <2>1, LockAssumption DEF LogTypeOK, LogLockInv, Holding
    <2>3. TailInv' /\ LinesWhole'
      BY <2>1 DEF TailInv, Unfinished, LinesWhole, Continues
    <2> QED
      BY <2>2, <2>3
  <1> QED
    BY <1>1, <1>2, <1>3, <1>4

\* The invariant of the log is inductive.
LEMMA LogNext == LogInv /\ [Next]_vars => LogInv'
  <1> SUFFICES ASSUME LogInv, [Next]_vars PROVE LogInv'
    OBVIOUS
  <1>1. CASE UNCHANGED vars
    BY <1>1, LogStutter DEF vars
  <1>2. ASSUME NEW t \in Thread, Allocates(t)
        PROVE  LogInv'
    BY <1>2, LogStutter DEF Allocates, Malloc, Realloc, Free
  <1>3. ASSUME NEW t \in Thread, InAllocator(t) \/ SystemFails(t) \/ GrowLog(t)
        PROVE  LogInv'
    BY <1>3, LogStutter
       DEF InAllocator, SystemFails, GrowLog, LockAlloc, LoadCounter, StoreCounter,
           UnlockAlloc, SystemCall
  <1>4. ASSUME NEW t \in Thread, NEW piece \in Pieces, PushPiece(t, piece)
        PROVE  LogInv'
    BY <1>4, PushPieceKeeps
  <1>5. ASSUME NEW t \in Thread,
               PushLog(t) \/ DumpLog(t) \/ LockLog(t) \/ WriteFile(t) \/ UnlockLog(t)
        PROVE  LogInv'
    BY <1>5, LogStep
  <1> QED
    BY <1>1, <1>2, <1>3, <1>4, <1>5 DEF Next, InLogger

(***************************************************************************)
(* Lines are whole in the buffer and in the file (push_log,                *)
(* dump_cabor_log_to_disk in logging.c), however many threads log and      *)
(* however often the buffer is reallocated in the middle of a line.        *)
(***************************************************************************)
THEOREM WholeLines == Spec => []LinesWhole
  <1>1. LogInv => LinesWhole
    BY DEF LogInv
  <1> QED
    BY <1>1, LogInit, LogNext, PTL DEF Spec

-----------------------------------------------------------------------------

(***************************************************************************)
(* alloc_lock is held exactly by the thread between its lock and unlock,   *)
(* and what that thread has read of the counter is still the counter.      *)
(***************************************************************************)
CallType == call \in [Thread -> Calls \union {NoCall}] /\ allocated \in Int
AllocInv ==
    /\ CallType
    /\ live \in [AllBlocks -> Nat]
    /\ \A t \in Thread :
          (Inside(t) /\ call[t].step \in {"load", "store", "unlock"}) <=> (allocLock = t)
    /\ NoLostUpdate

\* A thread enters a call of the allocator from outside.
LEMMA EnterKeeps ==
    ASSUME AllocInv, NEW t \in Thread, NEW fn \in {"malloc", "realloc", "free"},
           NEW b \in AllBlocks, NEW n \in Nat,
           ~Inside(t), Enter(t, fn, b, n), UNCHANGED <<allocLock, allocated, live>>
    PROVE  AllocInv'
  <1>1. /\ call'[t] = [fn |-> fn, block |-> b, size |-> n, step |-> "lock", seen |-> 0]
        /\ \A u \in Thread \ {t} : call'[u] = call[u]
        /\ call' \in [Thread -> Calls \union {NoCall}]
    BY DEF AllocInv, CallType, Enter, Calls
  <1>2. call'[t].step = "lock" /\ call'[t] \in Calls
    BY <1>1 DEF Calls
  <1>3. allocLock # t
    BY DEF AllocInv
  <1> QED
    BY <1>1, <1>2, <1>3, CallAssumption
       DEF AllocInv, CallType, Inside, NoLostUpdate

\* A step that leaves the allocator alone.
LEMMA AllocStutter == AllocInv /\ UNCHANGED memVars => AllocInv'
  BY DEF AllocInv, CallType, memVars, Inside, NoLostUpdate

\* Inside the allocator only the owner of alloc_lock touches the counter.
LEMMA InAllocatorKeeps ==
    ASSUME AllocInv, NEW t \in Thread, InAllocator(t)
    PROVE  AllocInv'
  <1>0. /\ call \in [Thread -> Calls \union {NoCall}]
        /\ Inside(t) /\ call[t] \in Calls
        /\ t # Nobody /\ \A u \in Thread : u # Nobody
    BY LockAssumption DEF AllocInv, CallType, InAllocator, LockAlloc, LoadCounter,
       StoreCounter, UnlockAlloc, SystemCall, Inside
  <1>1. CASE LockAlloc(t)
    <2>1. /\ call' = [call EXCEPT ![t].step = "load"]
          /\ allocLock = Nobody /\ allocLock' = t
          /\ UNCHANGED <<allocated, live>>
      BY <1>1 DEF LockAlloc, GoTo
    <2>2. /\ call'[t] \in Calls /\ call'[t].step = "load"
          /\ \A u \in Thread \ {t} : call'[u] = call[u]
          /\ call' \in [Thread -> Calls \union {NoCall}]
      BY <2>1, <1>0 DEF Calls
    <2> QED
      BY <1>0, <2>1, <2>2, CallAssumption
         DEF AllocInv, CallType, Inside, NoLostUpdate
  <1>2. CASE LoadCounter(t)
    <2>1. /\ call' = [call EXCEPT ![t].seen = allocated, ![t].step = "store"]
          /\ call[t].step = "load"
          /\ allocated \in Int
          /\ UNCHANGED <<allocLock, allocated, live>>
      BY <1>2 DEF LoadCounter, AllocInv, CallType
    <2>2. /\ call'[t] \in Calls /\ call'[t].step = "store" /\ call'[t].seen = allocated
          /\ \A u \in Thread \ {t} : call'[u] = call[u]
          /\ call' \in [Thread -> Calls \union {NoCall}]
      BY <2>1, <1>0 DEF Calls
    <2> QED
      BY <1>0, <2>1, <2>2, CallAssumption
         DEF AllocInv, CallType, Inside, NoLostUpdate
  <1>3. CASE StoreCounter(t)
    <2>1. /\ call' = [call EXCEPT ![t].step = "unlock"]
          /\ call[t].step = "store"
          /\ allocated' = call[t].seen + Delta(call[t])
          /\ UNCHANGED <<allocLock, live>>
      BY <1>3 DEF StoreCounter, GoTo
    <2>2. /\ call'[t] \in Calls /\ call'[t].step = "unlock"
          /\ \A u \in Thread \ {t} : call'[u] = call[u]
          /\ call' \in [Thread -> Calls \union {NoCall}]
      BY <2>1, <1>0 DEF Calls
    <2>3. allocated' \in Int
      <3>1. /\ call[t].seen \in Int /\ call[t].size \in Nat
            /\ live[call[t].block] \in Nat
        BY <1>0 DEF Calls, AllocInv
      <3> QED
        BY <2>1, <3>1 DEF Delta
    <2>4. \A u \in Thread : Inside(u) /\ call[u].step = "store" => u = t
      BY <1>0, <2>1 DEF AllocInv
    <2> QED
      BY <1>0, <2>1, <2>2, <2>3, <2>4, CallAssumption
         DEF AllocInv, CallType, Inside, NoLostUpdate
  <1>4. CASE UnlockAlloc(t)
    <2>1. /\ call' = [call EXCEPT ![t].step = "system"]
          /\ call[t].step = "unlock"
          /\ allocLock' = Nobody
          /\ UNCHANGED <<allocated, live>>
      BY <1>4 DEF UnlockAlloc, GoTo
    <2>2. /\ call'[t] \in Calls /\ call'[t].step = "system"
          /\ \A u \in Thread \ {t} : call'[u] = call[u]
          /\ call' \in [Thread -> Calls \union {NoCall}]
      BY <2>1, <1>0 DEF Calls
    <2> QED
      BY <1>0, <2>1, <2>2, CallAssumption
         DEF AllocInv, CallType, Inside, NoLostUpdate
  <1>5. CASE SystemCall(t)
    <2>1. /\ call' = [call EXCEPT ![t] = NoCall]
          /\ call[t].step = "system"
          /\ live' = [live EXCEPT ![call[t].block] = call[t].size]
          /\ UNCHANGED <<allocLock, allocated>>
      BY <1>5 DEF SystemCall
    <2>2. /\ call'[t] = NoCall
          /\ \A u \in Thread \ {t} : call'[u] = call[u]
          /\ call' \in [Thread -> Calls \union {NoCall}]
      BY <2>1, <1>0
    <2>3. live' \in [AllBlocks -> Nat]
      BY <2>1, <1>0 DEF AllocInv, Calls
    <2> QED
      BY <1>0, <2>1, <2>2, <2>3, CallAssumption
         DEF AllocInv, CallType, Inside, NoLostUpdate
  <1> QED
    BY <1>1, <1>2, <1>3, <1>4, <1>5 DEF InAllocator

LEMMA AllocInit == Init => AllocInv
  BY LockAssumption, CallAssumption, SizeAssumption
     DEF Init, AllocInv, CallType, Inside, NoLostUpdate, AllBlocks

\* The invariant of the counter is inductive.
LEMMA AllocStep == AllocInv /\ [Next]_vars => AllocInv'
  <1> SUFFICES ASSUME AllocInv, [Next]_vars PROVE AllocInv'
    OBVIOUS
  <1>1. CASE UNCHANGED vars
    BY <1>1, AllocStutter DEF vars, memVars
  <1>2. ASSUME NEW t \in Thread, NEW b \in Block, NEW n \in 1 .. MaxSize,
               Malloc(t, b, n) \/ Realloc(t, b, n)
        PROVE  AllocInv'
    <2>1. n \in Nat /\ b \in AllBlocks
      BY SizeAssumption DEF AllBlocks
    <2>2. CASE Malloc(t, b, n)
      BY <2>1, <2>2, EnterKeeps DEF Malloc
    <2>3. CASE Realloc(t, b, n)
      BY <2>1, <2>3, EnterKeeps DEF Realloc
    <2> QED
      BY <1>2, <2>2, <2>3
  <1>3. ASSUME NEW t \in Thread, NEW b \in Block, Free(t, b)
        PROVE  AllocInv'
    BY <1>3, EnterKeeps DEF Free, AllBlocks
  <1>4. ASSUME NEW t \in Thread, InAllocator(t)
        PROVE  AllocInv'
    BY <1>4, InAllocatorKeeps
  <1>5. ASSUME NEW t \in Thread, GrowLog(t)
        PROVE  AllocInv'
    <2>1. LogBuffer \in AllBlocks /\ 2 * live[LogBuffer] \in Nat
      BY DEF AllocInv, AllBlocks
    <2> QED
      BY <1>5, <2>1, EnterKeeps DEF GrowLog
  <1>6. ASSUME NEW t \in Thread,
               \/ PushLog(t) \/ DumpLog(t) \/ SystemFails(t) \/ LockLog(t)
               \/ WriteFile(t) \/ UnlockLog(t)
               \/ \E piece \in Pieces : PushPiece(t, piece)
        PROVE  AllocInv'
    BY <1>6, AllocStutter
       DEF PushLog, DumpLog, SystemFails, LockLog, WriteFile, UnlockLog, PushPiece,
           memVars, logVars
  <1>7. ASSUME NEW t \in Thread, Allocates(t)
        PROVE  AllocInv'
    BY <1>2, <1>3, <1>7 DEF Allocates
  <1> QED
    BY <1>1, <1>4, <1>5, <1>6, <1>7 DEF Next, InLogger

(***************************************************************************)
(* No update of allocated_mem is lost (memory.c), whatever the threads do, *)
(* which is what the leak check of main relies on.                         *)
(***************************************************************************)
THEOREM CounterExclusive == Spec => []NoLostUpdate
  <1>1. AllocInv => NoLostUpdate
    BY DEF AllocInv
  <1> QED
    BY <1>1, AllocInit, AllocStep, PTL DEF Spec

-----------------------------------------------------------------------------

(***************************************************************************)
(* A block is in at most one call of the allocator: the log buffer because *)
(* only the holder of log_buffer_lock grows it, the others because their   *)
(* owner passes them on.  A thread that is in a call for its own blocks is *)
(* not in the logger.                                                      *)
(***************************************************************************)
CallAt ==
    \A t \in Thread : Inside(t) =>
        pc[t] \in IF call[t].block = LogBuffer THEN {"begin", "prefixed", "written"}
                                              ELSE {"idle"}
OneCall ==
    \A t, u \in Thread :
        Inside(t) /\ Inside(u) /\ call[t].block = call[u].block => t = u

\* What malloc is asked for is not held yet.
FreshInv == \A t \in Thread :
    Inside(t) /\ call[t].fn = "malloc" => live[call[t].block] = 0

CellsInv == IsFiniteSet(CountedBytes) /\ AccountingExact

MemoryInv ==
    /\ LogInv /\ AllocInv /\ CallAt /\ OneCall /\ FreshInv /\ CellsInv
    /\ allocLock \in Thread \union {Nobody} /\ exited \in BOOLEAN

\* The cells of a set of blocks, f[c] being those of block c.
CellsOf(S, f) == UNION {{c} \X f[c] : c \in S}

\* The cells of one block among those of all blocks.
LEMMA CellsOfBlock ==
    ASSUME NEW S, NEW b \in S, NEW f, NEW n \in Nat, f[b] = 1 .. n,
           IsFiniteSet(CellsOf(S, f))
    PROVE  /\ IsFiniteSet(CellsOf(S \ {b}, f))
           /\ Cardinality(CellsOf(S, f)) = Cardinality(CellsOf(S \ {b}, f)) + n
  <1> DEFINE A == CellsOf(S, f)
             B == CellsOf(S \ {b}, f)
             D == {b} \X (1 .. n)
  <1>1. IsFiniteSet(1 .. n) /\ Cardinality(1 .. n) = n
    BY FS_Interval
  <1>2. IsFiniteSet({b}) /\ Cardinality({b}) = 1
    BY FS_Singleton
  <1>3. IsFiniteSet(D) /\ Cardinality(D) = n
    BY <1>1, <1>2, FS_Product
  <1>4. A = B \union D /\ B \intersect D = {}
    BY DEF CellsOf
  <1>5. IsFiniteSet(B)
    BY <1>4, FS_Subset
  <1>6. Cardinality(A) = Cardinality(B) + Cardinality(D) - Cardinality({})
    <2> HIDE DEF A, B, D
    <2>1. Cardinality(B \union D) = Cardinality(B) + Cardinality(D) - Cardinality(B \intersect D)
      BY <1>3, <1>5, FS_Union
    <2> QED
      BY <1>4, <2>1
  <1>7. Cardinality({}) = 0 /\ Cardinality(B) \in Nat
    BY <1>5, FS_EmptySet, FS_CardinalityType
  <1> QED
    BY <1>3, <1>5, <1>6, <1>7

\* One block resized: the number of cells changes by the difference.
LEMMA BlockResized ==
    ASSUME NEW S, NEW b \in S, NEW f, NEW g, NEW m \in Nat, NEW n \in Nat,
           f[b] = 1 .. m, g[b] = 1 .. n, \A c \in S \ {b} : g[c] = f[c],
           IsFiniteSet(CellsOf(S, f))
    PROVE  /\ IsFiniteSet(CellsOf(S, g))
           /\ Cardinality(CellsOf(S, g)) = Cardinality(CellsOf(S, f)) - m + n
  <1> DEFINE B == CellsOf(S \ {b}, f)
             D == {b} \X (1 .. n)
  <1>1. IsFiniteSet(B) /\ Cardinality(CellsOf(S, f)) = Cardinality(B) + m
    BY CellsOfBlock
  <1>2. CellsOf(S, g) = B \union D
    BY DEF CellsOf
  <1>3. IsFiniteSet(D)
    <2>1. IsFiniteSet(1 .. n)
      BY FS_Interval
    <2>2. IsFiniteSet({b})
      BY FS_Singleton
    <2> QED
      BY <2>1, <2>2, FS_Product
  <1>4. IsFiniteSet(CellsOf(S, g))
    <2> HIDE DEF B, D
    <2>1. IsFiniteSet(B \union D)
      BY <1>1, <1>3, FS_Union
    <2> QED
      BY <1>2, <2>1
  <1>5. CellsOf(S \ {b}, g) = B
    BY DEF CellsOf
  <1>6. Cardinality(CellsOf(S, g)) = Cardinality(B) + n
    BY <1>4, <1>5, CellsOfBlock
  <1>7. Cardinality(B) \in Nat
    BY <1>1, FS_CardinalityType
  <1> QED
    BY <1>1, <1>4, <1>6, <1>7

\* A block whose calls and size stay what they are keeps its cells.
LEMMA BytesKept ==
    ASSUME NEW b, Counted(b)' = Counted(b), live'[b] = live[b],
           \A u \in Counted(b) : call'[u].size = call[u].size
    PROVE  BytesOf(b)' = BytesOf(b)
  <1>1. {1 .. call'[u].size : u \in Counted(b)} = {1 .. call[u].size : u \in Counted(b)}
    OBVIOUS
  <1> QED
    BY <1>1 DEF BytesOf

\* When every block keeps its cells the accounting stays exact.
LEMMA CellsKept ==
    ASSUME CellsInv, allocated' = allocated, \A b \in AllBlocks : BytesOf(b)' = BytesOf(b)
    PROVE  CellsInv'
  <1>1. {{b} \X BytesOf(b)' : b \in AllBlocks} = {{b} \X BytesOf(b) : b \in AllBlocks}
    OBVIOUS
  <1>2. CountedBytes' = CountedBytes
    BY <1>1 DEF CountedBytes
  <1> QED
    BY <1>2 DEF CellsInv, AccountingExact

\* The cells of a block in a counted call are those of its new size.
LEMMA BytesCounted ==
    ASSUME CallType, OneCall, NEW t \in Thread, Inside(t),
           call[t].step \in {"unlock", "system"}
    PROVE  Counted(call[t].block) = {t} /\ BytesOf(call[t].block) = 1 .. call[t].size
  <1>1. Counted(call[t].block) = {t}
    BY DEF Counted, OneCall
  <1>2. {1 .. call[u].size : u \in {t}} = {1 .. call[t].size}
    OBVIOUS
  <1> QED
    BY <1>1, <1>2 DEF BytesOf

\* A call begins: its block was in none, and nothing is counted yet.
LEMMA EnterMemory ==
    ASSUME MemoryInv, NEW t \in Thread, NEW fn, NEW b \in AllBlocks, NEW n,
           ~Inside(t), ~InUse(b),
           pc[t] \in IF b = LogBuffer THEN {"begin", "prefixed", "written"} ELSE {"idle"},
           fn = "malloc" => live[b] = 0,
           Enter(t, fn, b, n), UNCHANGED <<pc, allocated, live>>
    PROVE  CallAt' /\ OneCall' /\ FreshInv' /\ CellsInv'
  <1>1. /\ call'[t] = [fn |-> fn, block |-> b, size |-> n, step |-> "lock", seen |-> 0]
        /\ \A u \in Thread \ {t} : call'[u] = call[u]
    BY DEF Enter, MemoryInv, AllocInv, CallType
  <1>2. call'[t].block = b /\ call'[t].step = "lock" /\ call'[t].fn = fn
    BY <1>1
  <1>3. CallAt' /\ OneCall'
    BY <1>1, <1>2 DEF MemoryInv, CallAt, OneCall, Inside, InUse
  <1>4. ASSUME NEW c \in AllBlocks PROVE BytesOf(c)' = BytesOf(c)
    <2>1. Counted(c)' = Counted(c) /\ t \notin Counted(c)
      BY <1>1, <1>2 DEF Counted, Inside
    <2>2. \A u \in Counted(c) : call'[u] = call[u]
      BY <1>1, <2>1 DEF Counted
    <2> QED
      BY <2>1, <2>2, BytesKept
  <1>5. FreshInv'
    BY <1>1, <1>2 DEF MemoryInv, FreshInv, Inside
  <1> QED
    BY <1>3, <1>4, <1>5, CellsKept DEF MemoryInv

\* Inside a call only the store into the counter changes what is counted, and
\* it changes it by what the call changes the size of its block.
LEMMA InAllocatorMemory ==
    ASSUME MemoryInv, NEW t \in Thread, InAllocator(t)
    PROVE  CallAt' /\ OneCall' /\ FreshInv' /\ CellsInv'
  <1>0. /\ call \in [Thread -> Calls \union {NoCall}] /\ call[t] \in Calls
        /\ Inside(t) /\ pc' = pc /\ live \in [AllBlocks -> Nat]
    <2>1. Inside(t) /\ pc' = pc
      BY DEF InAllocator, LockAlloc, LoadCounter, StoreCounter, UnlockAlloc, SystemCall, logVars
    <2> QED
      BY <2>1 DEF MemoryInv, AllocInv, CallType, Inside
  <1>1. PICK b \in AllBlocks, n \in Nat : b = call[t].block /\ n = call[t].size
    BY <1>0 DEF Calls
  <1>2. \A u \in Thread \ {t} : call'[u] = call[u]
    BY <1>0 DEF InAllocator, LockAlloc, LoadCounter, StoreCounter, UnlockAlloc, SystemCall, GoTo
  <1>3. \/ SystemCall(t) /\ call'[t] = NoCall
        \/ /\ live' = live /\ call'[t] # NoCall
           /\ call'[t].block = b /\ call'[t].size = n /\ call'[t].fn = call[t].fn
    <2>1. CASE LockAlloc(t) \/ LoadCounter(t) \/ StoreCounter(t) \/ UnlockAlloc(t)
      BY <1>0, <1>1, <2>1, CallAssumption
         DEF LockAlloc, LoadCounter, StoreCounter, UnlockAlloc, GoTo, Calls
    <2>2. CASE SystemCall(t)
      BY <1>0, <2>2 DEF SystemCall
    <2> QED
      BY <2>1, <2>2 DEF InAllocator
  <1>4. CallAt' /\ OneCall'
    BY <1>0, <1>1, <1>2, <1>3 DEF MemoryInv, CallAt, OneCall, Inside
  <1>5. FreshInv'
    <2>1. CASE live' = live
      BY <1>0, <1>1, <1>2, <1>3, <2>1 DEF MemoryInv, FreshInv, Inside
    <2>2. CASE SystemCall(t)
      <3>1. /\ call'[t] = NoCall /\ live' = [live EXCEPT ![b] = n]
        BY <1>0, <1>1, <2>2 DEF SystemCall
      <3>2. \A u \in Thread \ {t} : Inside(u) => call[u].block # b
        BY <1>0, <1>1 DEF MemoryInv, OneCall
      <3> QED
        BY <1>0, <1>2, <3>1, <3>2 DEF MemoryInv, FreshInv, Inside
    <2> QED
      BY <1>3, <2>1, <2>2
  <1>6. ASSUME NEW c \in AllBlocks \ {b}, live'[c] = live[c]
        PROVE  BytesOf(c)' = BytesOf(c)
    <2>1. Counted(c)' = Counted(c) /\ t \notin Counted(c)
      BY <1>1, <1>2, <1>3 DEF Counted, Inside
    <2>2. \A u \in Counted(c) : call'[u] = call[u]
      BY <1>2, <2>1 DEF Counted
    <2> QED
      BY <1>6, <2>1, <2>2, BytesKept
  <1>7. CASE LockAlloc(t) \/ LoadCounter(t) \/ UnlockAlloc(t)
    <2>1. /\ UNCHANGED <<allocated, live>>
          /\ call'[t] # NoCall /\ call'[t].size = n /\ call'[t].block = b
          /\ call'[t].step \in {"unlock", "system"} <=> call[t].step \in {"unlock", "system"}
      BY <1>0, <1>1, <1>7, CallAssumption DEF LockAlloc, LoadCounter, UnlockAlloc, GoTo, Calls
    <2>2. Counted(b)' = Counted(b)
      BY <1>0, <1>1, <1>2, <2>1 DEF Counted, Inside
    <2>3. \A u \in Counted(b) : call'[u].size = call[u].size
      BY <1>1, <1>2, <2>1 DEF Counted
    <2>4. BytesOf(b)' = BytesOf(b)
      BY <2>1, <2>2, <2>3, BytesKept
    <2> QED
      BY <1>4, <1>5, <1>6, <2>1, <2>4, CellsKept DEF MemoryInv
  <1>8. CASE StoreCounter(t)
    <2>1. /\ live' = live /\ call[t].step = "store" /\ call'[t].step = "unlock"
          /\ call'[t] # NoCall /\ call'[t].size = n /\ call'[t].block = b
          /\ allocated' = call[t].seen + Delta(call[t])
      BY <1>0, <1>1, <1>8, CallAssumption DEF StoreCounter, GoTo, Calls
    <2>2. allocated' = allocated + n - live[b] /\ live[b] \in Nat /\ allocated \in Int
      <3>1. call[t].seen = allocated /\ (call[t].fn = "malloc" => live[b] = 0)
        BY <1>0, <1>1, <2>1 DEF MemoryInv, AllocInv, NoLostUpdate, FreshInv
      <3>2. live[b] \in Nat /\ allocated \in Int
        BY <1>0, <1>1 DEF MemoryInv, AllocInv, CallType
      <3> QED
        BY <1>1, <2>1, <3>1, <3>2 DEF Delta
    <2>3. BytesOf(b) = 1 .. live[b]
      <3>1. Counted(b) = {}
        BY <1>0, <1>1, <2>1 DEF Counted, MemoryInv, OneCall
      <3> QED
        BY <3>1 DEF BytesOf
    <2>4. BytesOf(b)' = 1 .. n
      <3>1. Counted(b)' = {t}
        BY <1>4, <2>1 DEF Counted, OneCall, Inside
      <3>2. {1 .. call'[u].size : u \in {t}} = {1 .. n}
        BY <2>1
      <3> QED
        BY <3>1, <3>2 DEF BytesOf
    <2>5. \A c \in AllBlocks \ {b} : BytesOf(c)' = BytesOf(c)
      BY <1>6, <2>1
    <2>6. PICK f, g : /\ f = [c \in AllBlocks |-> BytesOf(c)]
                      /\ g = [c \in AllBlocks |-> BytesOf(c)']
      OBVIOUS
    <2>7. CountedBytes = CellsOf(AllBlocks, f) /\ CountedBytes' = CellsOf(AllBlocks, g)
      <3>1. {{c} \X f[c] : c \in AllBlocks} = {{c} \X BytesOf(c) : c \in AllBlocks}
        BY <2>6
      <3>2. {{c} \X g[c] : c \in AllBlocks} = {{c} \X BytesOf(c)' : c \in AllBlocks}
        BY <2>6
      <3> QED
        BY <3>1, <3>2 DEF CountedBytes, CellsOf
    <2>8. PICK m \in Nat : m = live[b]
      BY <2>2
    <2>9. /\ IsFiniteSet(CountedBytes')
          /\ Cardinality(CountedBytes') = Cardinality(CountedBytes) - live[b] + n
      <3>1. b \in AllBlocks /\ n \in Nat /\ m \in Nat
        BY <1>1, <2>8
      <3>2. f[b] = 1 .. m
        BY <1>1, <2>3, <2>6, <2>8
      <3>3. g[b] = 1 .. n
        BY <1>1, <2>4, <2>6
      <3>4. \A c \in AllBlocks \ {b} : g[c] = f[c]
        BY <2>5, <2>6
      <3>5. IsFiniteSet(CellsOf(AllBlocks, f))
        BY <2>7 DEF MemoryInv, CellsInv
      <3>6. /\ IsFiniteSet(CellsOf(AllBlocks, g))
            /\ Cardinality(CellsOf(AllBlocks, g)) = Cardinality(CellsOf(AllBlocks, f)) - m + n
        BY <3>1, <3>2, <3>3, <3>4, <3>5, BlockResized
      <3> QED
        BY <2>7, <2>8, <3>6
    <2>10. allocated = Cardinality(CountedBytes)
      BY DEF MemoryInv, CellsInv, AccountingExact
    <2> QED
      BY <1>4, <1>5, <2>2, <2>9, <2>10 DEF CellsInv, AccountingExact
  <1>9. CASE SystemCall(t)
    <2>1. /\ allocated' = allocated /\ call[t].step = "system" /\ call'[t] = NoCall
          /\ live' = [live EXCEPT ![b] = n]
      BY <1>0, <1>1, <1>9 DEF SystemCall
    <2>2. BytesOf(b) = 1 .. n
      BY <1>0, <1>1, <2>1, BytesCounted DEF MemoryInv, AllocInv
    <2>3. Counted(b)' = {}
      BY <1>0, <1>1, <1>2, <2>1 DEF Counted, Inside, MemoryInv, OneCall
    <2>4. live'[b] = n /\ \A c \in AllBlocks \ {b} : live'[c] = live[c]
      BY <1>0, <1>1, <2>1
    <2>5. BytesOf(b)' = BytesOf(b)
      BY <2>2, <2>3, <2>4 DEF BytesOf
    <2> QED
      BY <1>4, <1>5, <1>6, <2>1, <2>4, <2>5, CellsKept DEF MemoryInv
  <1> QED
    BY <1>7, <1>8, <1>9 DEF InAllocator

LEMMA MemoryInit == Init => MemoryInv
  <1> SUFFICES ASSUME Init PROVE MemoryInv
    OBVIOUS
  <1>1. \A t \in Thread : ~Inside(t)
    BY DEF Init, Inside
  <1>2. CallAt /\ OneCall /\ FreshInv /\ exited \in BOOLEAN
    BY <1>1 DEF Init, CallAt, OneCall, FreshInv
  <1>4. allocLock \in Thread \union {Nobody}
    BY DEF Init
  <1>3. CellsInv
    <2> DEFINE f == [b \in AllBlocks |-> BytesOf(b)]
    <2>1. InitialLog \in Nat /\ LogBuffer \in AllBlocks /\ allocated = InitialLog
      BY SizeAssumption DEF AllBlocks, Init
    <2>2. \A b \in AllBlocks : BytesOf(b) = IF b = LogBuffer THEN 1 .. InitialLog ELSE {}
      BY <1>1, SizeAssumption DEF BytesOf, Counted, Init
    <2>3. CountedBytes = {LogBuffer} \X (1 .. InitialLog)
      <3>1. \A b \in AllBlocks :
               {b} \X BytesOf(b) = IF b = LogBuffer THEN {LogBuffer} \X (1 .. InitialLog) ELSE {}
        BY <2>2
      <3> QED
        BY <2>1, <3>1 DEF CountedBytes
    <2>4. IsFiniteSet(1 .. InitialLog) /\ Cardinality(1 .. InitialLog) = InitialLog
      BY <2>1, FS_Interval
    <2>5. IsFiniteSet({LogBuffer}) /\ Cardinality({LogBuffer}) = 1
      BY FS_Singleton
    <2>6. /\ IsFiniteSet({LogBuffer} \X (1 .. InitialLog))
          /\ Cardinality({LogBuffer} \X (1 .. InitialLog)) = 1 * InitialLog
      BY <2>4, <2>5, FS_Product
    <2> QED
      BY <2>1, <2>3, <2>6 DEF CellsInv, AccountingExact
  <1> QED
    BY <1>2, <1>3, <1>4, LogInit, AllocInit DEF MemoryInv

\* The steps of the logger that call nobody, and the exit.
LEMMA LoggerMemory ==
    ASSUME MemoryInv, UNCHANGED memVars,
           \A t \in Thread : Inside(t) => pc'[t] = pc[t]
    PROVE  CallAt' /\ OneCall' /\ FreshInv' /\ CellsInv'
  <1>1. call' = call /\ live' = live /\ allocated' = allocated
    BY DEF memVars
  <1>2. CallAt' /\ OneCall' /\ FreshInv'
    BY <1>1 DEF MemoryInv, CallAt, OneCall, FreshInv, Inside
  <1>3. CellsInv'
    BY <1>1 DEF MemoryInv, CellsInv, AccountingExact, CountedBytes, BytesOf, Counted, Inside
  <1> QED
    BY <1>2, <1>3

\* The whole invariant is inductive.
LEMMA MemoryStep == MemoryInv /\ [Next]_vars => MemoryInv'
  <1> SUFFICES ASSUME MemoryInv, [Next]_vars PROVE MemoryInv'
    OBVIOUS
  <1>1. LogInv' /\ AllocInv'
    BY LogNext, AllocStep DEF MemoryInv
  <1>2. exited' \in BOOLEAN
    <2>1. CASE exited' = TRUE
      BY <2>1
    <2>2. CASE UNCHANGED exited
      BY <2>2 DEF MemoryInv
    <2> QED
      BY <2>1, <2>2
         DEF Next, Allocates, Malloc, Realloc, Free, PushLog, DumpLog, InAllocator,
             LockAlloc, LoadCounter, StoreCounter, UnlockAlloc, SystemCall, SystemFails,
             InLogger, LockLog, GrowLog, WriteFile, UnlockLog, PushPiece, vars
  <1>11. allocLock' \in Thread \union {Nobody}
    BY DEF MemoryInv, Next, Allocates, Malloc, Realloc, Free, PushLog, DumpLog, InAllocator,
           LockAlloc, LoadCounter, StoreCounter, UnlockAlloc, SystemCall, SystemFails,
           InLogger, LockLog, GrowLog, WriteFile, UnlockLog, PushPiece, vars, memVars
  <1>3. pc \in [Thread -> PC]
    BY DEF MemoryInv, LogInv, LogTypeOK
  <1> DEFINE Goal == CallAt' /\ OneCall' /\ FreshInv' /\ CellsInv'
  <1>4. ASSUME UNCHANGED vars PROVE Goal
    BY <1>4, LoggerMemory DEF vars, logVars
  <1>5. ASSUME NEW t \in Thread, NEW b \in Block, NEW n \in 1 .. MaxSize,
               Malloc(t, b, n) \/ Realloc(t, b, n)
        PROVE  Goal
    <2>1. b \in AllBlocks /\ b # LogBuffer /\ pc[t] = "idle"
      BY <1>5, BlockAssumption DEF AllBlocks, Malloc, Realloc
    <2>2. CASE Malloc(t, b, n)
      BY <2>1, <2>2, EnterMemory DEF Malloc, logVars
    <2>3. CASE Realloc(t, b, n)
      BY <2>1, <2>3, EnterMemory DEF Realloc, logVars
    <2> QED
      BY <1>5, <2>2, <2>3
  <1>6. ASSUME NEW t \in Thread, NEW b \in Block, Free(t, b)
        PROVE  Goal
    <2>1. b \in AllBlocks /\ b # LogBuffer
      BY BlockAssumption DEF AllBlocks
    <2> QED
      BY <1>6, <2>1, EnterMemory DEF Free, logVars
  <1>7. ASSUME NEW t \in Thread, GrowLog(t)
        PROVE  Goal
    <2>1. pc[t] \in {"begin", "prefixed", "written"} /\ ~Inside(t)
      BY <1>7 DEF GrowLog, NextPiece
    <2>2. ~InUse(LogBuffer)
      BY <2>1 DEF MemoryInv, CallAt, InUse, LogInv, LogLockInv, Holding
    <2> QED
      BY <1>7, <2>1, <2>2, EnterMemory DEF GrowLog, logVars, AllBlocks
  <1>8. ASSUME NEW t \in Thread, InAllocator(t)
        PROVE  Goal
    BY <1>8, InAllocatorMemory
  <1>9. ASSUME NEW t \in Thread, UNCHANGED memVars,
               \/ PushLog(t) \/ DumpLog(t) \/ SystemFails(t) \/ LockLog(t)
               \/ WriteFile(t) \/ UnlockLog(t)
               \/ \E piece \in Pieces : PushPiece(t, piece)
        PROVE  Goal
    <2>1. CASE SystemFails(t)
      BY <1>9, <2>1, LoggerMemory DEF SystemFails, logVars
    <2>2. CASE PushLog(t) \/ DumpLog(t) \/ \E piece \in Pieces : PushPiece(t, piece)
      <3>1. ~Inside(t) /\ \A u \in Thread \ {t} : pc'[u] = pc[u]
        BY <1>3, <2>2 DEF PushLog, DumpLog, PushPiece
      <3> QED
        BY <1>9, <3>1, LoggerMemory
    <2>3. CASE LockLog(t) \/ WriteFile(t) \/ UnlockLog(t)
      <3>1. pc[t] \in {"want", "wantdump", "dump", "end"} /\ \A u \in Thread \ {t} : pc'[u] = pc[u]
        BY <1>3, <2>3 DEF LockLog, WriteFile, UnlockLog
      <3>2. ~Inside(t)
        BY <3>1 DEF MemoryInv, CallAt
      <3> QED
        BY <1>9, <3>1, <3>2, LoggerMemory
    <2> QED
      BY <1>9, <2>1, <2>2, <2>3
  <1>10. Goal
    <2>1. ASSUME NEW t \in Thread,
                 \/ PushLog(t) \/ DumpLog(t) \/ SystemFails(t) \/ LockLog(t)
                 \/ WriteFile(t) \/ UnlockLog(t)
                 \/ \E piece \in Pieces : PushPiece(t, piece)
          PROVE  UNCHANGED memVars
      BY <2>1 DEF PushLog, DumpLog, SystemFails, LockLog, WriteFile, UnlockLog, PushPiece, memVars
    <2> HIDE DEF Goal
    <2>2. ASSUME NEW t \in Thread, Allocates(t) PROVE Goal
      BY <1>5, <1>6, <2>2 DEF Allocates
    <2>3. ASSUME NEW t \in Thread, InLogger(t) \/ PushLog(t) \/ DumpLog(t) \/ SystemFails(t)
          PROVE  Goal
      BY <1>7, <1>9, <2>1, <2>3 DEF InLogger
    <2> QED
      BY <1>4, <1>8, <2>2, <2>3 DEF Next
  <1> QED
    BY <1>1, <1>2, <1>10, <1>11 DEF MemoryInv

(***************************************************************************)
(* allocated_mem is the number of bytes the process holds (memory.c), for  *)
(* any number of threads and blocks, between all steps of their calls.     *)
(***************************************************************************)
THEOREM Accounting == Spec => []AccountingExact
  <1>1. MemoryInv => AccountingExact
    BY DEF MemoryInv, CellsInv
  <1> QED
    BY <1>1, MemoryInit, MemoryStep, PTL DEF Spec

(***************************************************************************)
(* Every variable keeps its type; in particular the size_t allocated_mem   *)
(* is never taken below zero.                                              *)
(***************************************************************************)
THEOREM Typing == Spec => []TypeOK
  <1>1. MemoryInv => TypeOK
    <2> SUFFICES ASSUME MemoryInv PROVE TypeOK
      OBVIOUS
    <2>1. allocated \in Nat
      BY FS_CardinalityType DEF MemoryInv, CellsInv, AccountingExact
    <2> QED
      BY <2>1 DEF MemoryInv, LogInv, LogTypeOK, AllocInv, CallType, TypeOK
  <1> QED
    BY <1>1, MemoryInit, MemoryStep, PTL DEF Spec
=============================================================================

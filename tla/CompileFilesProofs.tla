-------------------------- MODULE CompileFilesProofs --------------------------
(***************************************************************************)
(* Proofs about CompileFiles: for any requests, any number of workers and  *)
(* any sharing of files.                                                   *)
(***************************************************************************)
EXTENDS CompileFiles, FiniteSetTheorems, TLAPS

\* The comparison of hashmap.c:71 stops the hash before its first character,
\* so that the files of all requests have one name.
THEOREM SharedName == OneName
BY FilesAssumption DEF OneName, Hash

(***************************************************************************)
(* Every step of a worker leaves the files and its request in their types. *)
(***************************************************************************)
THEOREM Typing == Spec => []TypeOK
<1> USE DEF TypeOK, Stage, Begun
<1>1. Init => TypeOK
  BY DEF Init
<1>2. TypeOK /\ [Next]_vars => TypeOK'
  <2> SUFFICES ASSUME TypeOK, [Next]_vars PROVE TypeOK'
    OBVIOUS
  <2>1. \A r \in Request : Hash(r) \in Name
    BY DEF Name
  <2>2. ASSUME NEW r \in Request, Work(r) PROVE TypeOK'
    <3>1. CASE Compile(r)
      BY <3>1 DEF Compile, Moves, Rivals, Busy
    <3>2. CASE CompileExits(r)
      BY <3>2 DEF CompileExits, Moves
    <3>3. CASE OpenListing(r)
      BY <3>3, <2>1 DEF OpenListing, Moves
    <3>4. CASE WriteListing(r)
      BY <3>4, <2>1 DEF WriteListing, Moves, Overwritten
    <3>5. CASE Assemble(r)
      BY <3>5 DEF Assemble, Moves
    <3>6. CASE LinkReads(r)
      BY <3>6, <2>1 DEF LinkReads, Moves
    <3>7. CASE LinkOpens(r)
      BY <3>7, <2>1 DEF LinkOpens, Moves
    <3>8. CASE LinkWrites(r)
      <4>1. taken[r] \in SUBSET Request /\ program[Hash(r)] \in SUBSET Request
        BY <2>1
      <4>2. \A content \in Overwritten(program[Hash(r)], taken[r])
                             \union ({program[Hash(r)]} \ {{}}) : content \in SUBSET Request
        BY <4>1 DEF Overwritten
      <4> QED
        BY <3>8, <2>1, <4>2 DEF LinkWrites, Moves
    <3>9. CASE LinkRemoves(r)
      BY <3>9, <2>1 DEF LinkRemoves, Moves
    <3>10. CASE Load(r)
      BY <3>10, <2>1 DEF Load, Moves
    <3>11. CASE LoadExits(r)
      BY <3>11 DEF LoadExits
    <3> QED
      BY <2>2, <3>1, <3>2, <3>3, <3>4, <3>5, <3>6, <3>7, <3>8, <3>9, <3>10, <3>11 DEF Work
  <2>3. CASE UNCHANGED vars
    BY <2>3 DEF vars
  <2> QED
    BY <2>2, <2>3 DEF Next
<1> QED
  BY <1>1, <1>2, PTL DEF Spec

(***************************************************************************)
(* The inductive invariant.  Workers at the same files know of each other; *)
(* the code of a request that nobody has taken is in no file; a program    *)
(* that is there and empty is being linked; and a request that has had its *)
(* files to itself finds in them, step by step, what it has put there.     *)
(***************************************************************************)
Meeting == process = "running" => \A r \in Busy : Rivals(r) \subseteq met[r]

Fresh ==
    \A r \in Request : stage[r] = "queued" =>
        /\ \A n \in Name : r \notin listing[n] /\ r \notin program[n]
        /\ \A q \in Request : r \notin taken[q]

Whole ==
    \A n \in present : program[n] = {} => \E r \in Request : stage[r] = "opened" /\ Hash(r) = n

Straight(r) ==
    /\ stage[r] = "dumping" => listing[Hash(r)] = {}
    /\ stage[r] \in {"dumped", "assembled"} => listing[Hash(r)] = {r}
    /\ stage[r] \in {"linking", "opened"} =>
           Verdict[r] \in {"linked", "unlinked"} /\ taken[r] = {r}
    /\ stage[r] = "opened" => program[Hash(r)] = {} /\ Hash(r) \in present
    /\ stage[r] = "ready" /\ Verdict[r] = "linked" =>
           program[Hash(r)] = {r} /\ Hash(r) \in present
    /\ stage[r] = "ready" /\ Verdict[r] = "unlinked" => Hash(r) \notin present
    /\ stage[r] = "answered" => Verdict[r] # "unlinked"
    /\ stage[r] = "answered" /\ Verdict[r] = "linked" => loaded[r] = {r}

Others(r) ==
    /\ stage[r] \in Begun => r \notin program[Hash(r)]
    /\ stage[r] = "answered" => loaded[r] # {} /\ r \notin loaded[r]

Refused(r) == Verdict[r] \notin {"linked", "unlinked"}

Lone ==
    \A r \in Request : Alone(r) => Straight(r) /\ (Refused(r) => Others(r))

IInv == TypeOK /\ Meeting /\ Fresh /\ Whole /\ Lone /\ ExitHasCause

LEMMA Named == ASSUME NEW r \in Request PROVE Hash(r) \in Name
BY DEF Name

\* Two workers at the same files have met.
LEMMA Apart ==
    ASSUME TypeOK, Meeting, process = "running",
           NEW r \in Busy, Alone(r), NEW q \in Busy, q # r
    PROVE  Hash(q) # Hash(r)
BY DEF Meeting, Rivals, Alone

\* No step of another worker touches what a lone request relies on.
LEMMA Undisturbed ==
    ASSUME TypeOK, Meeting, NEW q \in Request, Work(q),
           NEW r \in Request, r # q, met'[r] = {}
    PROVE  /\ stage'[r] = stage[r] /\ met[r] = {}
           /\ taken'[r] = taken[r] /\ loaded'[r] = loaded[r]
           /\ stage[r] \in Begun =>
                 /\ listing'[Hash(r)] = listing[Hash(r)]
                 /\ program'[Hash(r)] = program[Hash(r)]
                 /\ Hash(r) \in present' <=> Hash(r) \in present
<1> USE Named DEF TypeOK, Moves
<1>1. process = "running"
  BY DEF Work, Compile, CompileExits, OpenListing, WriteListing, Assemble, LinkReads, LinkOpens,
         LinkWrites, LinkRemoves, Load, LoadExits
<1>2. ASSUME met[r] = {}, stage[r] \in Begun, stage[q] \in Begun PROVE Hash(q) # Hash(r)
  BY <1>1, <1>2, Apart DEF Busy, Alone
<1>3. CASE Compile(q)
  BY <1>3 DEF Compile
<1>4. CASE CompileExits(q)
  BY <1>4 DEF CompileExits
<1>5. CASE OpenListing(q)
  BY <1>2, <1>5 DEF OpenListing, Begun
<1>6. CASE WriteListing(q)
  BY <1>2, <1>6 DEF WriteListing, Begun
<1>7. CASE Assemble(q)
  BY <1>7 DEF Assemble
<1>8. CASE LinkReads(q)
  BY <1>8 DEF LinkReads
<1>9. CASE LinkOpens(q)
  BY <1>2, <1>9 DEF LinkOpens, Begun
<1>10. CASE LinkWrites(q)
  BY <1>2, <1>10 DEF LinkWrites, Begun
<1>11. CASE LinkRemoves(q)
  BY <1>2, <1>11 DEF LinkRemoves, Begun
<1>12. CASE Load(q)
  BY <1>12 DEF Load
<1>13. CASE LoadExits(q)
  BY <1>13 DEF LoadExits
<1> QED
  BY <1>3, <1>4, <1>5, <1>6, <1>7, <1>8, <1>9, <1>10, <1>11, <1>12, <1>13 DEF Work

\* A worker that begins and those at its files write each other down.
LEMMA MeetingStep ==
    ASSUME TypeOK, Meeting, NEW q \in Request, Work(q)
    PROVE  Meeting'
<1> USE DEF TypeOK, Moves, Meeting, Busy, Rivals, Begun
<1>1. CASE Compile(q)
  BY <1>1 DEF Compile
<1>2. CASE CompileExits(q)
  BY <1>2 DEF CompileExits
<1>3. CASE OpenListing(q)
  BY <1>3 DEF OpenListing
<1>4. CASE WriteListing(q)
  BY <1>4 DEF WriteListing
<1>5. CASE Assemble(q)
  BY <1>5 DEF Assemble
<1>6. CASE LinkReads(q)
  BY <1>6 DEF LinkReads
<1>7. CASE LinkOpens(q)
  BY <1>7 DEF LinkOpens
<1>8. CASE LinkWrites(q)
  BY <1>8 DEF LinkWrites
<1>9. CASE LinkRemoves(q)
  BY <1>9 DEF LinkRemoves
<1>10. CASE Load(q)
  BY <1>10 DEF Load
<1>11. CASE LoadExits(q)
  BY <1>11 DEF LoadExits
<1> QED
  BY <1>1, <1>2, <1>3, <1>4, <1>5, <1>6, <1>7, <1>8, <1>9, <1>10, <1>11 DEF Work

\* Code gets into a file only by the worker of its request.
LEMMA FreshStep ==
    ASSUME TypeOK, Fresh, NEW q \in Request, Work(q)
    PROVE  Fresh'
<1> USE Named DEF TypeOK, Moves, Fresh
<1>1. CASE Compile(q)
  BY <1>1 DEF Compile
<1>2. CASE CompileExits(q)
  BY <1>2 DEF CompileExits
<1>3. CASE OpenListing(q)
  BY <1>3 DEF OpenListing
<1>4. CASE WriteListing(q)
  BY <1>4 DEF WriteListing, Overwritten
<1>5. CASE Assemble(q)
  BY <1>5 DEF Assemble
<1>6. CASE LinkReads(q)
  BY <1>6 DEF LinkReads
<1>7. CASE LinkOpens(q)
  BY <1>7 DEF LinkOpens
<1>8. CASE LinkWrites(q)
  BY <1>8 DEF LinkWrites, Overwritten
<1>9. CASE LinkRemoves(q)
  BY <1>9 DEF LinkRemoves
<1>10. CASE Load(q)
  BY <1>10 DEF Load
<1>11. CASE LoadExits(q)
  BY <1>11 DEF LoadExits
<1> QED
  BY <1>1, <1>2, <1>3, <1>4, <1>5, <1>6, <1>7, <1>8, <1>9, <1>10, <1>11 DEF Work

\* A program that is there is empty only between LinkOpens and LinkWrites.
LEMMA WholeStep ==
    ASSUME TypeOK, Whole, NEW q \in Request, Work(q)
    PROVE  Whole'
<1> USE Named DEF TypeOK, Moves, Whole
<1>1. CASE Compile(q)
  BY <1>1 DEF Compile
<1>2. CASE CompileExits(q)
  BY <1>2 DEF CompileExits
<1>3. CASE OpenListing(q)
  BY <1>3 DEF OpenListing
<1>4. CASE WriteListing(q)
  BY <1>4 DEF WriteListing, Overwritten
<1>5. CASE Assemble(q)
  BY <1>5 DEF Assemble
<1>6. CASE LinkReads(q)
  BY <1>6 DEF LinkReads
<1>7. CASE LinkOpens(q)
  BY <1>7 DEF LinkOpens
<1>8. CASE LinkWrites(q)
  BY <1>8 DEF LinkWrites, MayLink, Overwritten
<1>9. CASE LinkRemoves(q)
  BY <1>9 DEF LinkRemoves
<1>10. CASE Load(q)
  BY <1>10 DEF Load
<1>11. CASE LoadExits(q)
  BY <1>11 DEF LoadExits
<1> QED
  BY <1>1, <1>2, <1>3, <1>4, <1>5, <1>6, <1>7, <1>8, <1>9, <1>10, <1>11 DEF Work

\* What is made of a listing with the code of one request is its verdict.
LEMMA OneVerdict ==
    ASSUME NEW r \in Request
    PROVE  /\ MayAssemble({r}) <=> ~Refused(r)
           /\ MayRefuse({r}) <=> Refused(r)
           /\ MayLink({r}) <=> Verdict[r] = "linked"
           /\ MayNotLink({r}) <=> Verdict[r] # "linked"
<1>1. Cardinality({r}) = 1
  BY FS_Singleton
<1> QED
  BY <1>1 DEF MayAssemble, MayRefuse, MayLink, MayNotLink, Mixed, Sound, Refused

\* What a lone request finds in its files is what it has put there.
LEMMA LoneStep ==
    ASSUME TypeOK, Meeting, Fresh, Whole, Lone, NEW q \in Request, Work(q)
    PROVE  Lone'
<1> SUFFICES ASSUME NEW r \in Request, met'[r] = {}
             PROVE  Straight(r)' /\ (Refused(r) => Others(r)')
  BY DEF Lone, Alone
<1>1. CASE r # q
  <2>1. Straight(r) /\ (Refused(r) => Others(r))
    BY <1>1, Undisturbed DEF Lone, Alone
  <2> QED
    BY <1>1, <2>1, Undisturbed DEF Straight, Others, Begun
<1>2. CASE r = q
  <2> USE <1>2, Named DEF TypeOK, Moves, Straight, Others, Begun
  <2>0. ASSUME met[r] = {} PROVE Straight(r) /\ (Refused(r) => Others(r))
    BY <2>0 DEF Lone, Alone
  <2>1. CASE Compile(q)
    BY <2>1 DEF Compile, Fresh
  <2>2. CASE CompileExits(q)
    BY <2>2 DEF CompileExits, Fresh
  <2>3. CASE OpenListing(q)
    BY <2>3, <2>0 DEF OpenListing
  <2>4. CASE WriteListing(q)
    BY <2>4, <2>0 DEF WriteListing, Overwritten
  <2>5. CASE Assemble(q)
    BY <2>5, <2>0 DEF Assemble
  <2>6. CASE LinkReads(q)
    BY <2>6, <2>0, OneVerdict DEF LinkReads, Refused
  <2>7. CASE LinkOpens(q)
    BY <2>7, <2>0 DEF LinkOpens
  <2>8. CASE LinkWrites(q)
    BY <2>8, <2>0, OneVerdict DEF LinkWrites, Overwritten, Refused
  <2>9. CASE LinkRemoves(q)
    BY <2>9, <2>0, OneVerdict DEF LinkRemoves, Refused
  <2>10. CASE Load(q)
    <3>1. program[Hash(r)] = {} => FALSE
      <4> SUFFICES ASSUME program[Hash(r)] = {} PROVE FALSE
        OBVIOUS
      <4>1. PICK p \in Request : stage[p] = "opened" /\ Hash(p) = Hash(r)
        BY <2>10 DEF Load, Whole
      <4>2. p \in Busy /\ r \in Busy /\ p # r /\ process = "running" /\ met[r] = {}
        BY <2>10, <4>1 DEF Load, Busy
      <4> QED
        BY <4>1, <4>2, Apart DEF Alone
    <3> QED
      BY <2>10, <2>0, <3>1 DEF Load
  <2>11. CASE LoadExits(q)
    BY <2>11, <2>0 DEF LoadExits
  <2> QED
    BY <2>1, <2>2, <2>3, <2>4, <2>5, <2>6, <2>7, <2>8, <2>9, <2>10, <2>11 DEF Work
<1> QED
  BY <1>1, <1>2

\* Only the two steps that end the process can break it, and they give the cause.
LEMMA ExitStep ==
    ASSUME TypeOK, Lone, ExitHasCause, NEW q \in Request, Work(q)
    PROVE  ExitHasCause'
<1> USE DEF TypeOK, Moves, ExitHasCause, Busy, Begun, Alone
<1>1. CASE CompileExits(q)
  BY <1>1 DEF CompileExits
<1>2. CASE LoadExits(q)
  <2>1. met[q] = {} => Verdict[q] # "linked"
    BY <1>2 DEF LoadExits, Lone, Straight
  <2> QED
    BY <1>2, <2>1 DEF LoadExits
<1>3. CASE ~CompileExits(q) /\ ~LoadExits(q)
  <2>1. process = "running" /\ process' = process
    BY <1>3 DEF Work, Compile, OpenListing, WriteListing, Assemble, LinkReads, LinkOpens,
                LinkWrites, LinkRemoves, Load
  <2> QED
    BY <2>1
<1> QED
  BY <1>1, <1>2, <1>3

THEOREM Invariance == Spec => []IInv
<1>1. Init => IInv
  BY DEF Init, IInv, TypeOK, Stage, Begun, Meeting, Busy, Fresh, Whole, Lone, Straight, Others,
         ExitHasCause
<1>2. IInv /\ [Next]_vars => (Meeting /\ Fresh /\ Whole /\ Lone /\ ExitHasCause)'
  <2> SUFFICES ASSUME IInv, [Next]_vars
               PROVE  (Meeting /\ Fresh /\ Whole /\ Lone /\ ExitHasCause)'
    OBVIOUS
  <2>1. CASE Next
    BY <2>1, MeetingStep, FreshStep, WholeStep, LoneStep, ExitStep DEF IInv, Next
  <2>2. CASE UNCHANGED vars
    BY <2>2 DEF vars, IInv, Meeting, Busy, Rivals, Fresh, Whole, Lone, Alone, Straight, Others,
                ExitHasCause
  <2> QED
    BY <2>1, <2>2
<1> QED
  <2>1. IInv <=> TypeOK /\ Meeting /\ Fresh /\ Whole /\ Lone /\ ExitHasCause
    BY DEF IInv
  <2> QED
    BY <1>1, <1>2, <2>1, Typing, PTL DEF Spec

(***************************************************************************)
(* A request that has its files to itself loads its own program; one that  *)
(* the assembler refuses loads what others have left.                      *)
(***************************************************************************)
THEOREM LoneCompileRight == Spec => []LoneCompile
<1>1. IInv => LoneCompile
  BY DEF IInv, Lone, LoneCompile, Straight, Others, Refused
<1> QED
  BY <1>1, Invariance, PTL

(***************************************************************************)
(* The server exits over a request only for a cause: its source, or two    *)
(* workers at the same files.                                              *)
(***************************************************************************)
THEOREM ExitsForCause == Spec => []ExitHasCause
<1>1. IInv => ExitHasCause
  BY DEF IInv
<1> QED
  BY <1>1, Invariance, PTL
=============================================================================

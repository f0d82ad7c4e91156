----------------------------- MODULE CompileFiles -----------------------------
(***************************************************************************)
(* The files of a compile request: on_work, network/network.c:199-265,     *)
(* with the writing and loading of filesystem/filesystem.c and the runs of *)
(* gcc.  Worker threads go through it side by side.  A file is named for   *)
(* the hash of the source, so requests whose hashes agree share their      *)
(* files: the assembly that is written, and the program that is linked     *)
(* from it and loaded.                                                     *)
(*                                                                         *)
(* The content of a file is the set of requests whose code is in it: none  *)
(* while it has only been opened, more than one if writers got into each   *)
(* other's way.                                                            *)
(***************************************************************************)
EXTENDS Naturals, FiniteSets

CONSTANTS
    Request,    \* compile requests, each taken by a worker once
    PoolSize,   \* UV_THREADPOOL_SIZE
    Verdict,    \* of each request: what becomes of its source on its own
    Address,    \* where the source of a request is in memory
    Size,       \* how long it is
    Digest      \* what hashing all of it gives

Verdicts == {"linked",    \* assembled and linked
             "unlinked",  \* assembled; the linker refuses it: _start, which the
                          \* compiler emits (compiler.c:30), is gcc's name too
             "refused",   \* compiled, but not taken by the assembler
             "fatal"}     \* ends the process in cabor_compile

\* What is allocated is above the first bytes of memory.  The source is copied
\* without its terminator (network.c:475-479) and compiled up to the next zero
\* byte (compiler.c:11), so nothing more is assumed of its verdict.
ASSUME FilesAssumption ==
    /\ PoolSize \in Nat \ {0}
    /\ Verdict \in [Request -> Verdicts]
    /\ Address \in [Request -> Nat] /\ Size \in [Request -> Nat]
    /\ \A r \in Request : Address[r] > Size[r]
    /\ Digest \in [Request -> Nat]

VARIABLES
    process,    \* running or exited
    stage,      \* how far on_work has got with each request
    listing,    \* the content of compile_request_<hash>.s
    program,    \* the content of compile_request_<hash>
    present,    \* the names of the programs that are there
    taken,      \* what the gcc that links has read of the listing
    loaded,     \* what cabor_load_file has read
    met         \* requests for the same files that were worked on meanwhile,
                \* read by the properties alone

vars == <<process, stage, listing, program, present, taken, loaded, met>>

Basis == 40389   \* 2166136261, the offset of FNV-1a, modulo 2^16

\* cabor_hash_string_with_size compares the address of a character with the
\* size, before it has hashed any.
Hash(r) == IF Address[r] > Size[r] THEN Basis ELSE Digest[r]

Name == {Hash(r) : r \in Request}

Begun == {"compiled", "dumping", "dumped", "assembled", "linking", "opened", "ready"}
Busy  == {r \in Request : stage[r] \in Begun}
Rivals(r) == {q \in Busy \ {r} : Hash(q) = Hash(r)}

Init ==
    /\ process = "running"
    /\ stage = [r \in Request |-> "queued"]
    /\ listing = [n \in Name |-> {}]
    /\ program = [n \in Name |-> {}]
    /\ present = {}
    /\ taken = [r \in Request |-> {}]
    /\ loaded = [r \in Request |-> {}]
    /\ met = [r \in Request |-> {}]

Moves(r, from, to) ==
    /\ process = "running"
    /\ stage[r] = from
    /\ stage' = [stage EXCEPT ![r] = to]

\* A worker takes the request and runs cabor_compile up to the listing.
Compile(r) ==
    /\ Cardinality(Busy) < PoolSize
    /\ Verdict[r] # "fatal"
    /\ Moves(r, "queued", "compiled")
    /\ met' = [q \in Request |->
                 IF q = r THEN Rivals(r)
                 ELSE IF q \in Rivals(r) THEN met[q] \union {r} ELSE met[q]]
    /\ UNCHANGED <<process, listing, program, present, taken, loaded>>

\* The parser and the vectors end the process on what they cannot take.
CompileExits(r) ==
    /\ Cardinality(Busy) < PoolSize
    /\ Verdict[r] = "fatal"
    /\ Moves(r, "queued", "compiled")
    /\ process' = "exited"
    /\ UNCHANGED <<listing, program, present, taken, loaded, met>>

\* Mutant: the file is opened without emptying it.
OpenListingKeeps(r) ==
    /\ Moves(r, "compiled", "dumping")
    /\ listing' = [listing EXCEPT ![Hash(r)] = @]
    /\ UNCHANGED <<process, program, present, taken, loaded, met>>

\* The fopen of cabor_dump_file_to_disk.
OpenListing(r) ==
    /\ Moves(r, "compiled", "dumping")
    /\ listing' = [listing EXCEPT ![Hash(r)] = {}]
    /\ UNCHANGED <<process, program, present, taken, loaded, met>>

\* What a file may hold once new has been written from its first byte on over
\* old: the longer one shows behind the shorter.
Overwritten(old, new) == IF old = {} THEN {new} ELSE {new, old \union new}

\* Mutant: the file is not closed, and what was written stays in its buffer.
WriteListingLate(r) ==
    /\ Moves(r, "dumping", "dumped")
    /\ UNCHANGED <<process, listing, program, present, taken, loaded, met>>

\* Its fwrite and fclose.
WriteListing(r) ==
    /\ Moves(r, "dumping", "dumped")
    /\ \E content \in Overwritten(listing[Hash(r)], {r}) :
          listing' = [listing EXCEPT ![Hash(r)] = content]
    /\ UNCHANGED <<process, program, present, taken, loaded, met>>

\* gcc -c: neither its result nor the object file is looked at.
Assemble(r) ==
    /\ Moves(r, "dumped", "assembled")
    /\ UNCHANGED <<process, listing, program, present, taken, loaded, met>>

\* Nobody can say what the assembler makes of mixed listings.
Mixed(content) == Cardinality(content) > 1
Sound(content)  == \A r \in content : Verdict[r] \in {"linked", "unlinked"}
MayAssemble(content) == Mixed(content) \/ Sound(content)
MayRefuse(content)   == Mixed(content) \/ ~Sound(content)

\* Nor what the linker does. An empty listing has no main.
MayLink(content) ==
    content # {} /\ (Mixed(content) \/ \A r \in content : Verdict[r] = "linked")
MayNotLink(content) ==
    content = {} \/ Mixed(content) \/ \E r \in content : Verdict[r] # "linked"

\* gcc, of the listing once more: if that cannot be assembled, the program is
\* left alone.  The result is not looked at.
LinkReads(r) ==
    /\ \/ MayAssemble(listing[Hash(r)]) /\ Moves(r, "assembled", "linking")
       \/ MayRefuse(listing[Hash(r)]) /\ Moves(r, "assembled", "ready")
    /\ taken' = [taken EXCEPT ![r] = listing[Hash(r)]]
    /\ UNCHANGED <<process, listing, program, present, loaded, met>>

\* Mutant: the program is linked to a name of the request's own.
LinkOpensOwn(r) ==
    /\ Moves(r, "linking", "opened")
    /\ program' = [program EXCEPT ![Hash(r)] = {}]
    /\ present' = present \union {r}
    /\ UNCHANGED <<process, listing, taken, loaded, met>>

\* The linker makes its output anew.
LinkOpens(r) ==
    /\ Moves(r, "linking", "opened")
    /\ program' = [program EXCEPT ![Hash(r)] = {}]
    /\ present' = present \union {Hash(r)}
    /\ UNCHANGED <<process, listing, taken, loaded, met>>

\* It writes it: nothing comes of that if the file has been removed meanwhile,
\* and perhaps nothing if it has been made anew.
LinkWrites(r) ==
    /\ MayLink(taken[r])
    /\ Moves(r, "opened", "ready")
    /\ LET old == program[Hash(r)]
       IN  IF Hash(r) \notin present THEN UNCHANGED program
           ELSE \E content \in Overwritten(old, taken[r]) \union ({old} \ {{}}) :
                   program' = [program EXCEPT ![Hash(r)] = content]
    /\ UNCHANGED <<process, listing, present, taken, loaded, met>>

\* Or it finds no main, or two definitions of a name, and removes its output.
LinkRemoves(r) ==
    /\ MayNotLink(taken[r])
    /\ Moves(r, "opened", "ready")
    /\ program' = [program EXCEPT ![Hash(r)] = {}]
    /\ present' = present \ {Hash(r)}
    /\ UNCHANGED <<process, listing, taken, loaded, met>>

\* cabor_load_file, with the program there; on_work ends soon after.
Load(r) ==
    /\ Hash(r) \in present
    /\ Moves(r, "ready", "answered")
    /\ loaded' = [loaded EXCEPT ![r] = program[Hash(r)]]
    /\ UNCHANGED <<process, listing, program, present, taken, met>>

\* And with no program there: "failed to open file", for the whole server.
LoadExits(r) ==
    /\ process = "running"
    /\ stage[r] = "ready" /\ Hash(r) \notin present
    /\ process' = "exited"
    /\ UNCHANGED <<stage, listing, program, present, taken, loaded, met>>

Work(r) ==
    \/ Compile(r) \/ CompileExits(r) \/ OpenListing(r) \/ WriteListing(r) \/ Assemble(r)
    \/ LinkReads(r) \/ LinkOpens(r) \/ LinkWrites(r) \/ LinkRemoves(r)
    \/ Load(r) \/ LoadExits(r)

Next == \E r \in Request : Work(r)

Spec == Init /\ [][Next]_vars

-----------------------------------------------------------------------------
(* Properties. *)

Stage == Begun \union {"queued", "answered"}

TypeOK ==
    /\ process \in {"running", "exited"}
    /\ stage \in [Request -> Stage]
    /\ listing \in [Name -> SUBSET Request] /\ program \in [Name -> SUBSET Request]
    /\ present \subseteq Name
    /\ taken \in [Request -> SUBSET Request]
    /\ loaded \in [Request -> SUBSET Request]
    /\ met \in [Request -> SUBSET Request]

\* Nobody else was at the files of r while r was.
Alone(r) == met[r] = {}

\* A request that had its files to itself loads the program of its own source
\* and nothing else, whatever earlier requests have left in the same files; and
\* if the assembler has refused it, a program that others have left, whole, and
\* not its own.  One that cannot be linked loads none (network.c:208-231).
LoneCompile ==
    \A r \in Request : stage[r] = "answered" /\ Alone(r) =>
        /\ Verdict[r] # "unlinked"
        /\ Verdict[r] = "linked" => loaded[r] = {r}
        /\ Verdict[r] = "refused" => loaded[r] # {} /\ r \notin loaded[r]

\* The server exits over a request only if its source ends the compiler, or if
\* the assembler or the linker has refused it, or if another worker was at its
\* files: never over what a sequence of good requests leaves in them
\* (filesystem.c:26-31).
ExitHasCause ==
    process = "exited" =>
        \E r \in Busy :
            \/ Verdict[r] = "fatal"
            \/ stage[r] = "ready" /\ (Verdict[r] # "linked" \/ ~Alone(r))

\* The files of all requests have one name.
OneName == \A r, q \in Request : Hash(r) = Hash(q)
=============================================================================

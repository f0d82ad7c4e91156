---------------------------- MODULE MC_CompileFiles ----------------------------
(* Instances of CompileFiles for TLC: two good requests and one of each other kind. *)
EXTENDS CompileFiles

CONSTANTS good1, good2, unlinked, refused, fatal

Verdict1 == [r \in Request |->
    CASE r = unlinked -> "unlinked"
      [] r = refused  -> "refused"
      [] r = fatal    -> "fatal"
      [] OTHER        -> "linked"]
Address1 == [r \in Request |-> 4096]
Size1    == [r \in Request |-> 10]
Digest1  == [r \in Request |-> IF r = good1 THEN 1 ELSE IF r = good2 THEN 2 ELSE 3]
=============================================================================

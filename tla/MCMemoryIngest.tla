----------------------------- MODULE MCMemoryIngest -----------------------------
(* Model-checking instances of MemoryIngest: two files of one source.      *)
EXTENDS MemoryIngest

MCSourceOf == [f \in Files |-> 1]
MCRows == [file : Files, line : 1..MaxLength, from : 0..MaxLength]

(* Nothing is claimed of what follows a robbery of the lock.               *)
UntilRobbed == ~robbed
===============================================================================

----------------------------- MODULE Goroutines -----------------------------
(***************************************************************************)
(* The goroutines of the service, one for each call or event it is busy    *)
(* with.  A goroutine's record holds its program counter, pc, and the      *)
(* local variables of its handler; what is in it is up to the module that  *)
(* extends this one.                                                       *)
(***************************************************************************)
CONSTANT Worker  \* goroutines that may be busy at once

VARIABLE worker  \* each goroutine's program counter and local variables

At(w, pc) == worker[w].pc = pc
Become(w, r) == worker' = [worker EXCEPT ![w] = r]
=============================================================================

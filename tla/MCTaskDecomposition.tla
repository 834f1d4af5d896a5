------------------------- MODULE MCTaskDecomposition -------------------------
(* Instances of TaskDecomposition for TLC. *)
EXTENDS TaskDecomposition, TLC

CONSTANTS a, b, c, d

(* One decomposition: roots a and b, and c which needs both. *)
ForkOrd == a :> 1 @@ b :> 2 @@ c :> 3
ForkDeps == a :> {} @@ b :> {} @@ c :> {1, 2}
ForkDecomp == [t \in {a, b, c} |-> 1]

(* The same plan twice: root a and b which needs it, then c and d. *)
RetryOrd == a :> 1 @@ b :> 2 @@ c :> 1 @@ d :> 2
RetryDeps == a :> {} @@ b :> {1} @@ c :> {} @@ d :> {1}
RetryDecomp == a :> 1 @@ b :> 1 @@ c :> 2 @@ d :> 2

(* A plan of one todo, and a second one of two that is numbered from 1 too. *)
SecondOrd == a :> 1 @@ b :> 1 @@ c :> 2
SecondDeps == a :> {} @@ b :> {} @@ c :> {1}
SecondDecomp == a :> 1 @@ b :> 2 @@ c :> 2

(* A chain, and nothing after it. *)
ChainOrd == a :> 1 @@ b :> 2
ChainDeps == a :> {} @@ b :> {1}
ChainDecomp == a :> 1 @@ b :> 1

=============================================================================

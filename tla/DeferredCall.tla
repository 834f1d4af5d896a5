---------------------------- MODULE DeferredCall ----------------------------
(***************************************************************************)
(* What a write gate promises its caller, without saying how: a call that  *)
(* is deferred is released once and runs once, whatever else happens to    *)
(* the other calls, unless the process that holds it dies first            *)
(* (writeTracker keeps no state outside memory).                           *)
(***************************************************************************)
CONSTANT Call

VARIABLE phase

Phase == {"new", "held", "released", "done", "lost"}

(* The moves one call may make in a step of the holder.  A call whose      *)
(* writes are all confirmed already is released as it is deferred.         *)
Move == { <<"new", "held">>, <<"new", "released">>, <<"held", "released">>,
          <<"released", "done">>, <<"held", "lost">>, <<"released", "lost">> }

Init == phase = [c \in Call |-> "new"]

Next ==
  /\ phase' \in [Call -> Phase]
  /\ \A c \in Call : phase'[c] # phase[c] => <<phase[c], phase'[c]>> \in Move

(* A held call leaves "held"; a released call runs or is lost. *)
Progress == \A c \in Call : phase[c] \in {"held", "released"} ~> phase[c] \in {"done", "lost"}

SafeSpec == Init /\ [][Next]_phase

Spec == SafeSpec /\ Progress

=============================================================================

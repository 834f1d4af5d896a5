----------------------------- MODULE MCWriteGate -----------------------------
(* WriteGate for TLC: two runs, two gates (so a run can complete twice) and *)
(* two files, the second of which git never confirms for the second run.   *)
EXTENDS WriteGate

CONSTANTS r1, r2, a, b

MCWrites == {<<r1, a>>, <<r1, b>>, <<r2, a>>}

=============================================================================

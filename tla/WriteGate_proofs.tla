--------------------------- MODULE WriteGate_proofs ---------------------------
(***************************************************************************)
(* Proofs about WriteGate for any sets of runs, paths and gates:           *)
(*   TypeCorrect, then the inductive invariant Consistent, and from it the *)
(*   three safety properties of the gate and the safety half of its        *)
(*   refinement of DeferredCall.                                           *)
(*                                                                         *)
(* The last part is about SplitPlan, for any children, dependencies,       *)
(* goroutines and bounds.  Nothing here composes it with WriteGate.        *)
(*   Orderly puts the life of a plan together: only a created child is     *)
(* worked on or linked (Created); how far the plan is tells which children *)
(* and edges there are (LaidOut); the log of ends agrees with the board    *)
(* (EndsNoted); a parent completed in time is not joined by another child  *)
(* (InTime); when all children are done somebody is on the way to end the  *)
(* parent (Pursued); one goroutine lays the plan out (Single); and what a  *)
(* goroutine has read so far is worth something when it writes (Knows).    *)
(***************************************************************************)
EXTENDS WriteGate, SplitPlan, TLAPS

(* What fireLocked does to a field leaves the field in its type. *)
LEMMA FiredMaps ==
  ASSUME TypeOK, NEW G \in SUBSET Gate, NEW why \in Cause
  PROVE  /\ Fired(G) \in [Gate -> BOOLEAN]
         /\ Stopped(G) \in [Gate -> TimerState]
         /\ Spawn(G) \in [Gate -> Nat]
         /\ Because(G, why) \in [Gate -> Cause]
<1>1. Fired(G) \in [Gate -> BOOLEAN]
  BY Zenon DEF Fired
<1>2. Stopped(G) \in [Gate -> TimerState]
  BY DEF TypeOK, Stopped, StopTimer, TimerState
<1>3. Spawn(G) \in [Gate -> Nat]
  BY DEF TypeOK, Spawn
<1>4. Because(G, why) \in [Gate -> Cause]
  BY DEF TypeOK, Because
<1> QED BY <1>1, <1>2, <1>3, <1>4

(* TypeOK is inductive on its own. *)
LEMMA TypeStep == TypeOK /\ [Next]_vars => TypeOK'
<1> SUFFICES ASSUME TypeOK, [Next]_vars PROVE TypeOK'
  OBVIOUS
<1>c. /\ {"confirmed", "timeout", "duplicate"} \subseteq Cause
      /\ {"armed", "expired", "stopped", "off"} \subseteq TimerState
  BY DEF Cause, TimerState
<1>1. ASSUME NEW g \in Gate, NEW r \in Run, NEW P \in ListedPaths, WaitForWrites(g, r, P)
      PROVE  TypeOK'
  <2>1. RealPaths(P) \in SUBSET Path
    BY DEF ListedPaths, RealPaths
  <2> DEFINE prior == Unfired(Active(r))
             rest == RealPaths(P) \ early[r]
  <2>2. prior \in SUBSET Gate
    BY DEF Unfired, Active
  <2>3. /\ owner' \in [Gate -> Run \cup {NoRun}]
        /\ expected' \in [Gate -> SUBSET Path]
        /\ remaining' \in [Gate -> SUBSET Path]
        /\ early' \in [Run -> SUBSET Path]
        /\ UNCHANGED <<ran, wrote, lost>>
        /\ fired' = Fired(prior)
    BY <1>1, <2>1 DEF WaitForWrites, TypeOK
  <2>4. CASE rest = {}
    <3>1. /\ waits' = [waits EXCEPT ![r] = NoGate]
          /\ spawned' = Spawn(prior \cup {g})
          /\ timer' = Stopped(prior)
          /\ cause' = [Because(prior, "duplicate") EXCEPT ![g] = "confirmed"]
      BY <1>1, <2>4 DEF WaitForWrites
    <3> HIDE DEF prior, rest
    <3> QED BY <1>c, <2>2, <2>3, <3>1, FiredMaps DEF TypeOK
  <2>5. CASE rest # {}
    <3>1. /\ waits' = [waits EXCEPT ![r] = g]
          /\ spawned' = Spawn(prior)
          /\ timer' = [Stopped(prior) EXCEPT ![g] = "armed"]
          /\ cause' = Because(prior, "duplicate")
      BY <1>1, <2>5 DEF WaitForWrites
    <3> HIDE DEF prior, rest
    <3> QED BY <1>c, <2>2, <2>3, <3>1, FiredMaps DEF TypeOK
  <2> QED BY <2>4, <2>5
<1>2. ASSUME NEW w \in Writes, ConfirmWrite(w[1], w[2])
      PROVE  TypeOK'
  <2> DEFINE r == w[1]
             done == IF remaining[waits[r]] \ {w[2]} = {} THEN {waits[r]} ELSE {}
  <2>1. r \in Run /\ w[2] \in Path
    BY WritesAssumption
  <2>2. done \in SUBSET Gate
    BY <1>2 DEF ConfirmWrite
  <2>3. /\ fired' = Fired(done)
        /\ timer' = Stopped(done)
        /\ spawned' = Spawn(done)
        /\ cause' = Because(done, "confirmed")
    BY <1>2 DEF ConfirmWrite
  <2>4. /\ wrote' \in [Run -> SUBSET Path]
        /\ remaining' \in [Gate -> SUBSET Path]
        /\ waits' \in [Run -> Gate \cup {NoGate}]
        /\ UNCHANGED <<owner, expected, early, ran, lost>>
    BY <1>2, <2>1 DEF ConfirmWrite, TypeOK
  <2> HIDE DEF done
  <2> QED BY <1>c, <2>2, <2>3, <2>4, FiredMaps DEF TypeOK
<1>3. ASSUME NEW w \in Writes, BufferWrite(w[1], w[2])
      PROVE  TypeOK'
  BY <1>3, WritesAssumption DEF BufferWrite, TypeOK
<1>4. ASSUME NEW g \in Gate, TimerExpire(g) PROVE TypeOK'
  BY <1>4, <1>c DEF TimerExpire, TypeOK
<1>5. ASSUME NEW g \in Gate, TimerFunc(g) PROVE TypeOK'
  <2> DEFINE due == IF waits[owner[g]] = g THEN Unfired({g}) ELSE {}
  <2>1. due \in SUBSET Gate
    BY DEF Unfired
  <2>2. /\ fired' = Fired(due)
        /\ spawned' = Spawn(due)
        /\ cause' = Because(due, "timeout")
        /\ timer' = [timer EXCEPT ![g] = "stopped"]
        /\ waits' \in [Run -> Gate \cup {NoGate}]
        /\ UNCHANGED <<owner, expected, remaining, early, ran, wrote, lost>>
    BY <1>5 DEF TimerFunc, TypeOK
  <2> HIDE DEF due
  <2> QED BY <1>c, <2>1, <2>2, FiredMaps DEF TypeOK
<1>6. ASSUME NEW g \in Gate, Callback(g) PROVE TypeOK'
  BY <1>6 DEF Callback, TypeOK
<1>7. CASE Restart
  BY <1>7, <1>c DEF Restart, TypeOK
<1>8. CASE UNCHANGED vars
  BY <1>8 DEF vars, TypeOK
<1> QED BY <1>1, <1>2, <1>3, <1>4, <1>5, <1>6, <1>7, <1>8 DEF Next

(* The tracker's state keeps its types. *)
THEOREM TypeCorrect == Spec => []TypeOK
<1>1. Init => TypeOK
  BY DEF Init, TypeOK, TimerState, Cause
<1> QED BY <1>1, TypeStep, PTL DEF Spec

-----------------------------------------------------------------------------
(* Opening a gate: what every gate h and run q look like afterwards.       *)
LEMMA OpenStep ==
  ASSUME TypeOK, Consistent,
         NEW g \in Gate, NEW r \in Run, NEW P \in ListedPaths, WaitForWrites(g, r, P)
  PROVE  Consistent'
<1> DEFINE prior == Unfired(Active(r))
           rest == RealPaths(P) \ early[r]
<1>0. /\ UnopenedIsClean /\ ActiveIsHeld /\ HeldHasNoCause /\ OnlyWrittenIsStruckOff
      /\ RunsAtMostOnce /\ HeldGateHasTimer /\ ReleasedWithAllWrites
  BY DEF Consistent
<1>1. /\ owner' = [owner EXCEPT ![g] = r]
      /\ expected' = [expected EXCEPT ![g] = RealPaths(P)]
      /\ remaining' = [remaining EXCEPT ![g] = rest]
      /\ early' = [early EXCEPT ![r] = {}]
      /\ fired' = Fired(prior)
      /\ ran' = ran /\ wrote' = wrote /\ lost' = lost
      /\ owner[g] = NoRun
  BY DEF WaitForWrites
<1>2. /\ \A h \in Gate : fired'[h] <=> fired[h] \/ h \in prior
      /\ ran' = ran /\ wrote' = wrote /\ lost' = lost
  BY <1>1, Zenon DEF Fired
<1>3. /\ \A h \in Gate : owner'[h] = IF h = g THEN r ELSE owner[h]
      /\ \A h \in Gate : expected'[h] = IF h = g THEN RealPaths(P) ELSE expected[h]
      /\ \A h \in Gate : remaining'[h] = IF h = g THEN rest ELSE remaining[h]
      /\ \A q \in Run : early'[q] = IF q = r THEN {} ELSE early[q]
  <2> HIDE DEF rest, prior
  <2>1. \A h \in Gate : owner'[h] = IF h = g THEN r ELSE owner[h]
    BY <1>1 DEF TypeOK
  <2>2. \A h \in Gate : expected'[h] = IF h = g THEN RealPaths(P) ELSE expected[h]
    BY <1>1 DEF TypeOK
  <2>3. \A h \in Gate : remaining'[h] = IF h = g THEN rest ELSE remaining[h]
    BY <1>1 DEF TypeOK
  <2>4. \A q \in Run : early'[q] = IF q = r THEN {} ELSE early[q]
    BY <1>1 DEF TypeOK
  <2> QED BY <2>1, <2>2, <2>3, <2>4
<1>4. \A h \in Gate : h \in prior <=> waits[r] = h
  BY <1>0 DEF Unfired, Active, ActiveIsHeld
<1>7. /\ g \notin prior /\ spawned[g] = 0 /\ ran[g] = 0 /\ ~fired[g] /\ g \notin lost
      /\ cause[g] = "none"
      /\ owner[g] = NoRun /\ r # NoRun
      /\ \A h \in Gate : spawned[h] \in Nat /\ ran[h] \in Nat
      /\ \A h \in Gate : h \in prior => owner[h] = r /\ spawned[h] = 0
      /\ \A q \in Run : waits[q] # g /\ waits[q] \in Gate \cup {NoGate}
      /\ \A h \in Gate : owner[h] \in Run \cup {NoRun}
  <2> HIDE DEF rest, prior
  <2>1. spawned[g] = 0 /\ ran[g] = 0 /\ ~fired[g] /\ g \notin lost /\ cause[g] = "none"
    BY <1>0, <1>1 DEF UnopenedIsClean
  <2>2. \A q \in Run : waits[q] # g
    BY <1>0, <1>1, NoRunAssumption DEF ActiveIsHeld
  <2>3. \A h \in Gate : h \in prior => owner[h] = r /\ spawned[h] = 0
    BY <1>0, <1>4 DEF ActiveIsHeld
  <2> QED BY <2>1, <2>2, <2>3, <1>1, <1>4, NoRunAssumption DEF TypeOK
<1>5. CASE rest = {}
  <2>0. /\ waits' = [waits EXCEPT ![r] = NoGate]
        /\ spawned' = Spawn(prior \cup {g})
        /\ timer' = Stopped(prior)
        /\ cause' = [Because(prior, "duplicate") EXCEPT ![g] = "confirmed"]
    BY <1>5 DEF WaitForWrites
  <2>3. RealPaths(P) \subseteq wrote[r]
    BY <1>0, <1>5 DEF OnlyWrittenIsStruckOff
  <2> HIDE DEF prior, rest
  <2>1. \A q \in Run : waits'[q] = IF q = r THEN NoGate ELSE waits[q]
    BY <2>0 DEF TypeOK
  <2>2. \A h \in Gate :
          /\ spawned'[h] = IF h \in prior \/ h = g THEN spawned[h] + 1 ELSE spawned[h]
          /\ timer'[h] = IF h \in prior THEN StopTimer(timer[h]) ELSE timer[h]
          /\ cause'[h] = IF h = g THEN "confirmed" ELSE IF h \in prior THEN "duplicate" ELSE cause[h]
    BY <2>0 DEF Spawn, Stopped, Because
  <2>a. UnopenedIsClean'
    BY <1>0, <1>2, <1>3, <1>7, <2>2 DEF UnopenedIsClean
  <2>b. ActiveIsHeld'
    BY <1>0, <1>2, <1>3, <1>4, <1>7, <2>1, <2>2, NoGateAssumption DEF ActiveIsHeld
  <2>c. HeldHasNoCause'
    BY <1>0, <1>2, <1>3, <1>4, <1>7, <2>2 DEF HeldHasNoCause
  <2>d. OnlyWrittenIsStruckOff'
    BY <1>0, <1>2, <1>3, <1>4, <1>7, <2>2, <2>3 DEF OnlyWrittenIsStruckOff
  <2>e. RunsAtMostOnce'
    BY <1>0, <1>2, <1>3, <1>4, <1>7, <2>2 DEF RunsAtMostOnce
  <2>f. HeldGateHasTimer'
    BY <1>0, <1>2, <1>3, <1>4, <1>7, <2>1, <2>2 DEF HeldGateHasTimer
  <2>g. ReleasedWithAllWrites'
    BY <1>0, <1>2, <1>3, <1>4, <1>7, <2>2, <2>3 DEF ReleasedWithAllWrites
  <2> QED BY <2>a, <2>b, <2>c, <2>d, <2>e, <2>f, <2>g DEF Consistent
<1>6. CASE rest # {}
  <2>0. /\ waits' = [waits EXCEPT ![r] = g]
        /\ spawned' = Spawn(prior)
        /\ timer' = [Stopped(prior) EXCEPT ![g] = "armed"]
        /\ cause' = Because(prior, "duplicate")
    BY <1>6 DEF WaitForWrites
  <2>3. RealPaths(P) \ rest \subseteq wrote[r]
    BY <1>0 DEF OnlyWrittenIsStruckOff
  <2> HIDE DEF prior, rest
  <2>1. \A q \in Run : waits'[q] = IF q = r THEN g ELSE waits[q]
    BY <2>0 DEF TypeOK
  <2>2. \A h \in Gate :
          /\ spawned'[h] = IF h \in prior THEN spawned[h] + 1 ELSE spawned[h]
          /\ timer'[h] = IF h = g THEN "armed" ELSE IF h \in prior THEN StopTimer(timer[h]) ELSE timer[h]
          /\ cause'[h] = IF h \in prior THEN "duplicate" ELSE cause[h]
    BY <2>0 DEF Spawn, Stopped, Because
  <2>a. UnopenedIsClean'
    BY <1>0, <1>2, <1>3, <1>7, <2>2 DEF UnopenedIsClean
  <2>b. ActiveIsHeld'
    BY <1>0, <1>2, <1>3, <1>4, <1>7, <2>1, <2>2, NoGateAssumption DEF ActiveIsHeld
  <2>c. HeldHasNoCause'
    BY <1>0, <1>2, <1>3, <1>4, <1>7, <2>2 DEF HeldHasNoCause
  <2>d. OnlyWrittenIsStruckOff'
    BY <1>0, <1>2, <1>3, <1>4, <1>7, <2>2, <2>3 DEF OnlyWrittenIsStruckOff
  <2>e. RunsAtMostOnce'
    BY <1>0, <1>2, <1>3, <1>4, <1>7, <2>2 DEF RunsAtMostOnce
  <2>f. HeldGateHasTimer'
    BY <1>0, <1>2, <1>3, <1>4, <1>7, <2>1, <2>2 DEF HeldGateHasTimer
  <2>g. ReleasedWithAllWrites'
    BY <1>0, <1>2, <1>3, <1>4, <1>7, <2>2, <2>3 DEF ReleasedWithAllWrites
  <2> QED BY <2>a, <2>b, <2>c, <2>d, <2>e, <2>f, <2>g DEF Consistent
<1> QED BY <1>5, <1>6

(* A confirmation for a run with an active gate. *)
LEMMA ConfirmStep ==
  ASSUME TypeOK, Consistent, NEW r \in Run, NEW p \in Path, ConfirmWrite(r, p)
  PROVE  Consistent'
<1> DEFINE g == waits[r]
           left == remaining[g] \ {p}
           done == IF left = {} THEN {g} ELSE {}
<1>0. /\ UnopenedIsClean /\ ActiveIsHeld /\ HeldHasNoCause /\ OnlyWrittenIsStruckOff
      /\ RunsAtMostOnce /\ HeldGateHasTimer /\ ReleasedWithAllWrites
  BY DEF Consistent
<1>1. /\ g \in Gate /\ owner[g] = r /\ spawned[g] = 0 /\ ~fired[g] /\ g \notin lost
      /\ \A q \in Run : waits[q] = g => q = r
  BY <1>0 DEF ConfirmWrite, ActiveIsHeld
<1>2. /\ \A h \in Gate : h \in done <=> h = g /\ left = {}
      /\ done # {} <=> left = {}
  BY <1>1
<1>3. /\ \A q \in Run : wrote[q] \subseteq wrote'[q] /\ wrote'[q] = IF q = r THEN wrote[q] \cup {p} ELSE wrote[q]
      /\ UNCHANGED <<owner, expected, early, ran, lost>>
  BY DEF ConfirmWrite, TypeOK
<1>4. \A h \in Gate : remaining'[h] = IF h = g THEN left ELSE remaining[h]
  BY DEF ConfirmWrite, TypeOK
<1>5. \A q \in Run : waits'[q] = IF q = r /\ left = {} THEN NoGate ELSE waits[q]
  BY <1>2 DEF ConfirmWrite, TypeOK
<1>6. \A h \in Gate : fired'[h] <=> fired[h] \/ h \in done
  <2>1. fired' = Fired(done)
    BY DEF ConfirmWrite
  <2> QED BY <2>1, Zenon DEF Fired
<1>7. \A h \in Gate :
        /\ spawned'[h] = IF h \in done THEN spawned[h] + 1 ELSE spawned[h]
        /\ timer'[h] = IF h \in done THEN StopTimer(timer[h]) ELSE timer[h]
        /\ cause'[h] = IF h \in done THEN "confirmed" ELSE cause[h]
  <2>1. /\ spawned' = Spawn(done)
        /\ timer' = Stopped(done)
        /\ cause' = Because(done, "confirmed")
    BY DEF ConfirmWrite
  <2> HIDE DEF done
  <2> QED BY <2>1 DEF Spawn, Stopped, Because
<1>8. /\ \A h \in Gate : spawned[h] \in Nat /\ ran[h] \in Nat /\ owner[h] \in Run \cup {NoRun}
      /\ \A q \in Run : waits[q] \in Gate \cup {NoGate}
  BY DEF TypeOK
<1>10. expected[g] \ left \subseteq wrote'[r]
  <2>1. expected[g] \ remaining[g] \subseteq wrote[r]
    BY <1>0, <1>1, NoRunAssumption DEF OnlyWrittenIsStruckOff
  <2>2. wrote'[r] = wrote[r] \cup {p}
    BY <1>3
  <2> HIDE DEF g
  <2> QED BY <2>1, <2>2
<1>9. left = {} => expected[g] \subseteq wrote'[r]
  <2> HIDE DEF g, left
  <2> QED BY <1>10
<1>11. \A q \in Run : waits[q] \in Gate => owner[waits[q]] = q
  BY <1>0 DEF ActiveIsHeld
<1> HIDE DEF g, left, done
<1>a. UnopenedIsClean'
  BY <1>0, <1>1, <1>2, <1>3, <1>6, <1>7, <1>8, NoRunAssumption DEF UnopenedIsClean
<1>b. ActiveIsHeld'
  BY <1>0, <1>1, <1>2, <1>3, <1>5, <1>6, <1>7, <1>8, NoGateAssumption DEF ActiveIsHeld
<1>c. HeldHasNoCause'
  BY <1>0, <1>1, <1>2, <1>3, <1>6, <1>7, <1>8, NoRunAssumption DEF HeldHasNoCause
<1>d. OnlyWrittenIsStruckOff'
  BY <1>0, <1>1, <1>2, <1>3, <1>4, <1>7, <1>8, <1>10 DEF OnlyWrittenIsStruckOff
<1>e. RunsAtMostOnce'
  BY <1>0, <1>1, <1>2, <1>3, <1>6, <1>7, <1>8, NoRunAssumption DEF RunsAtMostOnce
<1>f. HeldGateHasTimer'
  BY <1>0, <1>1, <1>2, <1>3, <1>5, <1>7, <1>8, <1>11 DEF HeldGateHasTimer
<1>12. \A h \in Gate : cause[h] # "none" => owner[h] \in Run
  BY <1>0, <1>8 DEF UnopenedIsClean
<1>g. ReleasedWithAllWrites'
  BY <1>0, <1>1, <1>2, <1>3, <1>4, <1>7, <1>8, <1>9, <1>12 DEF ReleasedWithAllWrites
<1> QED BY <1>a, <1>b, <1>c, <1>d, <1>e, <1>f, <1>g DEF Consistent

(* A timer function that has the mutex. *)
LEMMA TimerStep ==
  ASSUME TypeOK, Consistent, NEW g \in Gate, TimerFunc(g)
  PROVE  Consistent'
<1> DEFINE due == IF waits[owner[g]] = g THEN Unfired({g}) ELSE {}
<1>0. /\ UnopenedIsClean /\ ActiveIsHeld /\ HeldHasNoCause /\ OnlyWrittenIsStruckOff
      /\ RunsAtMostOnce /\ HeldGateHasTimer /\ ReleasedWithAllWrites
  BY DEF Consistent
<1>1. owner[g] \in Run /\ timer[g] = "expired"
  BY <1>0 DEF TimerFunc, UnopenedIsClean, TypeOK
<1>2. /\ \A h \in Gate : h \in due <=> h = g /\ waits[owner[g]] = g
      /\ due # {} <=> waits[owner[g]] = g
      /\ waits[owner[g]] = g => spawned[g] = 0 /\ ~fired[g] /\ g \notin lost
      /\ \A q \in Run : waits[q] = g => q = owner[g]
  BY <1>0, <1>1 DEF Unfired, ActiveIsHeld
<1>3. UNCHANGED <<owner, expected, remaining, early, ran, wrote, lost>>
  BY DEF TimerFunc
<1>5. \A q \in Run : waits'[q] = IF q = owner[g] /\ waits[q] = g THEN NoGate ELSE waits[q]
  BY <1>1, <1>2 DEF TimerFunc, TypeOK
<1>6. \A h \in Gate : fired'[h] <=> fired[h] \/ h \in due
  <2>1. fired' = Fired(due)
    BY DEF TimerFunc
  <2> QED BY <2>1, Zenon DEF Fired
<1>7. \A h \in Gate :
        /\ spawned'[h] = IF h \in due THEN spawned[h] + 1 ELSE spawned[h]
        /\ timer'[h] = IF h = g THEN "stopped" ELSE timer[h]
        /\ cause'[h] = IF h \in due THEN "timeout" ELSE cause[h]
  <2>1. /\ spawned' = Spawn(due)
        /\ timer' = [timer EXCEPT ![g] = "stopped"]
        /\ cause' = Because(due, "timeout")
    BY DEF TimerFunc
  <2> HIDE DEF due
  <2> QED BY <2>1 DEF Spawn, Because, TypeOK
<1>8. /\ \A h \in Gate : spawned[h] \in Nat /\ ran[h] \in Nat /\ owner[h] \in Run \cup {NoRun}
      /\ \A q \in Run : waits[q] \in Gate \cup {NoGate}
  BY DEF TypeOK
<1> HIDE DEF due
<1>a. UnopenedIsClean'
  BY <1>0, <1>1, <1>2, <1>3, <1>6, <1>7, <1>8, NoRunAssumption DEF UnopenedIsClean
<1>b. ActiveIsHeld'
  BY <1>0, <1>1, <1>2, <1>3, <1>5, <1>6, <1>7, <1>8, NoGateAssumption DEF ActiveIsHeld
<1>c. HeldHasNoCause'
  BY <1>0, <1>1, <1>2, <1>3, <1>6, <1>7, <1>8, NoRunAssumption DEF HeldHasNoCause
<1>d. OnlyWrittenIsStruckOff'
  BY <1>0, <1>1, <1>2, <1>3, <1>6, <1>7, <1>8, NoRunAssumption DEF OnlyWrittenIsStruckOff
<1>e. RunsAtMostOnce'
  BY <1>0, <1>1, <1>2, <1>3, <1>6, <1>7, <1>8, NoRunAssumption DEF RunsAtMostOnce
<1>f. HeldGateHasTimer'
  BY <1>0, <1>1, <1>2, <1>3, <1>5, <1>7, <1>8 DEF HeldGateHasTimer
<1>g. ReleasedWithAllWrites'
  BY <1>0, <1>1, <1>2, <1>3, <1>6, <1>7, <1>8, NoRunAssumption DEF ReleasedWithAllWrites
<1> QED BY <1>a, <1>b, <1>c, <1>d, <1>e, <1>f, <1>g DEF Consistent

(* The actions that leave the gates' bookkeeping alone. *)
LEMMA OtherSteps ==
  ASSUME TypeOK, Consistent,
         \/ \E w \in Writes : BufferWrite(w[1], w[2])
         \/ \E g \in Gate : TimerExpire(g)
         \/ \E g \in Gate : Callback(g)
         \/ UNCHANGED vars
  PROVE  Consistent'
<1>0. /\ UnopenedIsClean /\ ActiveIsHeld /\ HeldHasNoCause /\ OnlyWrittenIsStruckOff
      /\ RunsAtMostOnce /\ HeldGateHasTimer /\ ReleasedWithAllWrites
  BY DEF Consistent
<1>1. ASSUME NEW w \in Writes, BufferWrite(w[1], w[2]) PROVE Consistent'
  <2> DEFINE r == w[1]
             p == w[2]
  <2>a. /\ wrote' = [wrote EXCEPT ![r] = @ \cup {p}]
        /\ early' = [early EXCEPT ![r] = @ \cup {p}]
    BY <1>1 DEF BufferWrite
  <2> HIDE DEF r, p
  <2>2. /\ \A q \in Run : wrote'[q] = IF q = r THEN wrote[q] \cup {p} ELSE wrote[q]
        /\ \A q \in Run : early'[q] = IF q = r THEN early[q] \cup {p} ELSE early[q]
    BY <2>a DEF TypeOK
  <2>5. UNCHANGED <<owner, expected, remaining, waits, fired, timer, spawned, ran, cause, lost>>
    BY <1>1 DEF BufferWrite
  <2>3. OnlyWrittenIsStruckOff'
    <3>1. \A q \in Run : wrote[q] \subseteq wrote'[q]
      BY <2>2
    <3>2. \A q \in Run : early'[q] \subseteq wrote'[q]
      BY <1>0, <2>2 DEF OnlyWrittenIsStruckOff
    <3>3. \A h \in Gate : owner[h] # NoRun => owner[h] \in Run
      BY DEF TypeOK
    <3>4. ASSUME NEW h \in Gate, owner[h] # NoRun, spawned[h] = 0
          PROVE  expected[h] \ remaining[h] \subseteq wrote'[owner[h]]
      <4>1. expected[h] \ remaining[h] \subseteq wrote[owner[h]]
        BY <1>0, <3>4 DEF OnlyWrittenIsStruckOff
      <4> QED BY <4>1, <3>1, <3>3, <3>4
    <3> QED BY <2>5, <3>2, <3>4 DEF OnlyWrittenIsStruckOff
  <2>4. ReleasedWithAllWrites'
    <3>1. \A h \in Gate : cause[h] # "none" => owner[h] \in Run
      BY <1>0 DEF UnopenedIsClean, TypeOK
    <3> QED BY <1>0, <2>2, <2>5, <3>1 DEF ReleasedWithAllWrites
  <2> QED BY <1>0, <2>3, <2>4, <2>5
       DEF Consistent, UnopenedIsClean, ActiveIsHeld, HeldHasNoCause, RunsAtMostOnce, HeldGateHasTimer
<1>2. ASSUME NEW g \in Gate, TimerExpire(g) PROVE Consistent'
  <2>1. /\ \A h \in Gate : timer'[h] = IF h = g THEN "expired" ELSE timer[h]
        /\ timer[g] = "armed"
        /\ UNCHANGED <<owner, expected, remaining, waits, early, fired, spawned, ran, cause, wrote, lost>>
    BY <1>2 DEF TimerExpire, TypeOK
  <2> QED BY <1>0, <2>1 DEF Consistent, UnopenedIsClean, ActiveIsHeld, HeldHasNoCause,
       OnlyWrittenIsStruckOff, RunsAtMostOnce, HeldGateHasTimer, ReleasedWithAllWrites
<1>3. ASSUME NEW g \in Gate, Callback(g) PROVE Consistent'
  <2>1. /\ \A h \in Gate : ran'[h] = IF h = g THEN ran[h] + 1 ELSE ran[h]
        /\ ran[g] < spawned[g]
        /\ \A h \in Gate : ran[h] \in Nat /\ spawned[h] \in Nat
        /\ UNCHANGED <<owner, expected, remaining, waits, early, fired, timer, spawned, cause, wrote, lost>>
    BY <1>3 DEF Callback, TypeOK
  <2> QED BY <1>0, <2>1 DEF Consistent, UnopenedIsClean, ActiveIsHeld, HeldHasNoCause,
       OnlyWrittenIsStruckOff, RunsAtMostOnce, HeldGateHasTimer, ReleasedWithAllWrites
<1>4. CASE UNCHANGED vars
  BY <1>0, <1>4 DEF vars, Consistent, UnopenedIsClean, ActiveIsHeld, HeldHasNoCause,
       OnlyWrittenIsStruckOff, RunsAtMostOnce, HeldGateHasTimer, ReleasedWithAllWrites
<1> QED BY <1>1, <1>2, <1>3, <1>4

(* A restart drops every wait, but loses no gate without recording it. *)
LEMMA RestartStep ==
  ASSUME TypeOK, Consistent, Restart
  PROVE  Consistent'
<1>0. /\ UnopenedIsClean /\ ActiveIsHeld /\ HeldHasNoCause /\ OnlyWrittenIsStruckOff
      /\ RunsAtMostOnce /\ HeldGateHasTimer /\ ReleasedWithAllWrites
  BY DEF Consistent
<1>1. /\ \A h \in Gate : h \in lost' <=> h \in lost \/ (owner[h] # NoRun /\ ran[h] = 0)
      /\ \A q \in Run : waits'[q] = NoGate /\ early'[q] = {}
      /\ \A h \in Gate : timer[h] = "off" => timer'[h] = "off"
      /\ UNCHANGED <<owner, expected, remaining, fired, spawned, ran, cause, wrote>>
      /\ \A h \in Gate : ran[h] \in Nat /\ spawned[h] \in Nat
  BY DEF Restart, TypeOK
<1>a. UnopenedIsClean'
  BY <1>0, <1>1, NoGateAssumption DEF UnopenedIsClean
<1>b. ActiveIsHeld'
  BY <1>0, <1>1, NoGateAssumption DEF ActiveIsHeld
<1>c. HeldHasNoCause'
  BY <1>0, <1>1, NoGateAssumption DEF HeldHasNoCause
<1>d. OnlyWrittenIsStruckOff'
  BY <1>0, <1>1, NoGateAssumption DEF OnlyWrittenIsStruckOff
<1>e. RunsAtMostOnce'
  BY <1>0, <1>1, NoGateAssumption DEF RunsAtMostOnce
<1>f. HeldGateHasTimer'
  <2>1. \A h \in Gate : spawned[h] = 0 => ran[h] = 0
    BY <1>0, <1>1 DEF RunsAtMostOnce
  <2> QED BY <1>1, <2>1 DEF HeldGateHasTimer
<1>g. ReleasedWithAllWrites'
  BY <1>0, <1>1, NoGateAssumption DEF ReleasedWithAllWrites
<1> QED BY <1>a, <1>b, <1>c, <1>d, <1>e, <1>f, <1>g DEF Consistent

(* Consistent holds throughout. *)
THEOREM ConsistentHolds == Spec => []Consistent
<1>1. Init => Consistent
  BY NoGateAssumption DEF Init, Consistent, UnopenedIsClean, ActiveIsHeld, HeldHasNoCause,
     OnlyWrittenIsStruckOff, RunsAtMostOnce, HeldGateHasTimer, ReleasedWithAllWrites
<1>2. TypeOK /\ Consistent /\ [Next]_vars => Consistent'
  <2> SUFFICES ASSUME TypeOK, Consistent, [Next]_vars PROVE Consistent'
    OBVIOUS
  <2>1. \A w \in Writes : w[1] \in Run /\ w[2] \in Path
    BY WritesAssumption
  <2> QED BY <2>1, OpenStep, ConfirmStep, TimerStep, OtherSteps, RestartStep DEF Next
<1> QED BY <1>1, <1>2, TypeCorrect, PTL DEF Spec

(* No callback of a gate runs twice, in any interleaving of confirmations, *)
(* timer functions, duplicate completions and restarts.                    *)
THEOREM AtMostOnce == Spec => []RunsAtMostOnce
<1>1. Consistent => RunsAtMostOnce
  BY DEF Consistent
<1> QED BY <1>1, ConsistentHolds, PTL

(* Every held gate keeps a timer that will find it. *)
THEOREM NoStrandedGate == Spec => []HeldGateHasTimer
<1>1. Consistent => HeldGateHasTimer
  BY DEF Consistent
<1> QED BY <1>1, ConsistentHolds, PTL

(* A completion released as confirmed has all its files confirmed. *)
THEOREM ConfirmedMeansWritten == Spec => []ReleasedWithAllWrites
<1>1. Consistent => ReleasedWithAllWrites
  BY DEF Consistent
<1> QED BY <1>1, ConsistentHolds, PTL

-----------------------------------------------------------------------------
(* What a step may do to the phase of one gate.                            *)
LEMMA PhaseStep ==
  ASSUME TypeOK, Consistent, [Next]_vars, NEW h \in Gate
  PROVE  PhaseOf(h)' = PhaseOf(h) \/ <<PhaseOf(h), PhaseOf(h)'>> \in Promise!Move
<1> DEFINE Goal == PhaseOf(h)' = PhaseOf(h) \/ <<PhaseOf(h), PhaseOf(h)'>> \in Promise!Move
           Held(q) == /\ owner[q] # NoRun /\ spawned[q] = 0 /\ ran[q] = 0 /\ q \notin lost
<1>1. /\ UnopenedIsClean /\ ActiveIsHeld /\ RunsAtMostOnce
      /\ spawned[h] \in Nat /\ ran[h] \in Nat /\ ran[h] <= spawned[h] /\ spawned[h] <= 1
  BY DEF Consistent, RunsAtMostOnce, TypeOK
<1>2. \A q \in Gate, r \in Run : waits[r] = q => Held(q) /\ owner[q] = r
  BY <1>1, NoRunAssumption DEF ActiveIsHeld, RunsAtMostOnce, TypeOK
<1>3. (* a held gate may be released, and nothing else moves *)
      ASSUME spawned'[h] = spawned[h] \/ (Held(h) /\ spawned'[h] = 1),
             owner'[h] = owner[h], ran'[h] = ran[h], lost' = lost
      PROVE  Goal
  BY <1>1, <1>3 DEF PhaseOf, Promise!Move
<1>4. ASSUME NEW g \in Gate, NEW r \in Run, NEW P \in ListedPaths, WaitForWrites(g, r, P)
      PROVE  Goal
  <2> DEFINE prior == Unfired(Active(r))
  <2>1. h \in prior => Held(h)
    BY <1>2 DEF Unfired, Active
  <2>2. /\ owner[g] = NoRun /\ ran' = ran /\ lost' = lost
        /\ owner' = [owner EXCEPT ![g] = r]
        /\ spawned' = Spawn(prior \cup {g}) \/ spawned' = Spawn(prior)
    BY <1>4 DEF WaitForWrites
  <2>3. CASE h = g
    <3>1. spawned[h] = 0 /\ ran[h] = 0 /\ h \notin lost
      BY <2>2, <2>3, <1>1 DEF UnopenedIsClean
    <3>2. owner'[h] = r /\ r # NoRun
      BY <2>2, <2>3, NoRunAssumption DEF TypeOK
    <3>3. spawned'[h] \in {0, 1}
      BY <2>2, <3>1 DEF Spawn
    <3> QED BY <2>2, <2>3, <3>1, <3>2, <3>3 DEF PhaseOf, Promise!Move
  <2>4. CASE h # g
    <3>1. owner'[h] = owner[h]
      BY <2>2, <2>4 DEF TypeOK
    <3>2. spawned'[h] = spawned[h] \/ (Held(h) /\ spawned'[h] = 1)
      BY <2>1, <2>2, <2>4 DEF Spawn
    <3> QED BY <1>3, <2>2, <3>1, <3>2
  <2> QED BY <2>3, <2>4
<1>5. ASSUME NEW w \in Writes, ConfirmWrite(w[1], w[2]) PROVE Goal
  <2> DEFINE g == waits[w[1]]
  <2>1. w[1] \in Run /\ g \in Gate
    BY <1>5, WritesAssumption DEF ConfirmWrite
  <2>2. owner' = owner /\ ran' = ran /\ lost' = lost
    BY <1>5 DEF ConfirmWrite
  <2>3. spawned'[h] = spawned[h] \/ (h = g /\ spawned'[h] = spawned[h] + 1)
    BY <1>5 DEF ConfirmWrite, Spawn
  <2> QED BY <1>2, <1>3, <2>1, <2>2, <2>3
<1>6. ASSUME NEW g \in Gate, TimerFunc(g) PROVE Goal
  <2>1. owner' = owner /\ ran' = ran /\ lost' = lost
    BY <1>6 DEF TimerFunc
  <2>2. spawned'[h] = spawned[h] \/ (h = g /\ waits[owner[g]] = g /\ spawned'[h] = spawned[h] + 1)
    BY <1>6 DEF TimerFunc, Spawn, Unfired
  <2>3. timer[g] # "off"
    BY <1>6 DEF TimerFunc
  <2>4. owner[g] \in Run
    BY <1>1, <2>3 DEF UnopenedIsClean, TypeOK
  <2> QED BY <1>2, <1>3, <2>1, <2>2, <2>4
<1>7. ASSUME NEW g \in Gate, Callback(g) PROVE Goal
  <2>1. /\ owner' = owner /\ spawned' = spawned /\ lost' = lost
        /\ ran' = [ran EXCEPT ![g] = @ + 1]
        /\ ran[g] < spawned[g] /\ g \notin lost
    BY <1>7 DEF Callback
  <2>2. CASE h = g
    <3>1. ran[h] = 0 /\ spawned[h] = 1 /\ ran'[h] = 1
      BY <1>1, <2>1, <2>2 DEF TypeOK
    <3>2. owner[h] # NoRun
      BY <1>1, <3>1 DEF UnopenedIsClean
    <3> QED BY <2>1, <2>2, <3>1, <3>2 DEF PhaseOf, Promise!Move
  <2>3. CASE h # g
    <3>1. ran'[h] = ran[h]
      BY <2>1, <2>3 DEF TypeOK
    <3> QED BY <1>3, <2>1, <3>1
  <2> QED BY <2>2, <2>3
<1>8. CASE Restart
  <2>1. /\ owner' = owner /\ spawned' = spawned /\ ran' = ran
        /\ h \in lost' <=> h \in lost \/ (owner[h] # NoRun /\ ran[h] = 0)
    BY <1>8 DEF Restart
  <2> QED BY <1>1, <2>1 DEF PhaseOf, Promise!Move
<1>9. ASSUME \/ \E w \in Writes : BufferWrite(w[1], w[2])
             \/ \E g \in Gate : TimerExpire(g)
             \/ UNCHANGED vars
      PROVE  Goal
  <2>1. owner' = owner /\ spawned' = spawned /\ ran' = ran /\ lost' = lost
    BY <1>9 DEF BufferWrite, TimerExpire, vars
  <2> QED BY <1>3, <2>1
<1> QED BY <1>4, <1>5, <1>6, <1>7, <1>8, <1>9 DEF Next

(* The gate keeps DeferredCall's promise step by step: every step of the   *)
(* tracker is a step of the abstract holder, so a completion is released   *)
(* once, runs once, and is lost only by a restart, for any number of runs, *)
(* files and gates.                                                        *)
THEOREM KeepsPromise == Spec => Promise!SafeSpec
<1> DEFINE phases == [g \in Gate |-> PhaseOf(g)]
<1>1. Init => Promise!Init
  BY DEF Init, Promise!Init, PhaseOf
<1>2. TypeOK /\ Consistent /\ TypeOK' /\ Consistent' /\ [Next]_vars => [Promise!Next]_phases
  <2> SUFFICES ASSUME TypeOK, Consistent, TypeOK', Consistent', [Next]_vars
               PROVE  Promise!Next
    OBVIOUS
  <2>1. \A g \in Gate : PhaseOf(g)' = PhaseOf(g) \/ <<PhaseOf(g), PhaseOf(g)'>> \in Promise!Move
    BY PhaseStep
  <2>2. \A g \in Gate : /\ spawned'[g] \in Nat /\ ran'[g] \in Nat
                        /\ ran'[g] <= spawned'[g] /\ spawned'[g] <= 1
    BY DEF Consistent, RunsAtMostOnce, TypeOK
  <2>3. phases' \in [Gate -> Promise!Phase]
    BY <2>2 DEF PhaseOf, Promise!Phase
  <2> QED BY <2>1, <2>3 DEF Promise!Next
<1> QED BY <1>1, <1>2, TypeCorrect, ConsistentHolds, PTL DEF Spec, Promise!SafeSpec

-----------------------------------------------------------------------------
(* Split plans: what a goroutine has read and done so far.                 *)

Local == [pc : PC, task : Task \cup {NoTask}, goal : TaskStatus, then : Then,
          left : SUBSET (Child \cup (Child \X Child)), bad : BOOLEAN, early : BOOLEAN]

InUpdate(r) == r.pc \in {"checkTask", "writeTask"}

(* What each update is about, and what it is to write.                     *)
Aims(r) ==
  \/ r.then \in {"started", "retry"} /\ r.task \in Child /\ r.goal = "in_progress"
  \/ r.then = "report" /\ r.task \in Child /\ r.goal = "completed"
  \/ r.then = "cancel" /\ r.task \in Child /\ r.goal = "cancelled"
  \/ r.then = "stop" /\ r.task \in Child /\ r.goal = "awaiting"
  \/ r.then = "stop" /\ r.task = Parent /\ r.goal \in {"completed", "failed"}
  \/ r.then = "silent" /\ r.task \in Task /\ r.goal \in {"failed", "cancelled"}
  \/ r.then = "split" /\ r.task = Parent /\ r.goal = "split"

Fits(r) ==
  /\ r.pc \in {"create", "link", "publish", "readChild", "readParent"} => r.left \subseteq Child
  /\ r.pc = "link" => r.task \in Child /\ r.task \notin r.left
  /\ r.pc = "wire" => r.left \subseteq Wires
  /\ r.pc = "readChild" => r.left # {}
  /\ r.pc = "readParent" => r.left = {}
  /\ r.pc = "listChildren" => r.bad = FALSE
  /\ InUpdate(r) => Aims(r)

Stored ==
  /\ status \in [Task -> TaskStatus \cup {"none"}]
  /\ status[Parent] \in {"in_progress", "split", "completed", "failed", "cancelled"}
  /\ linked \subseteq Child
  /\ plan \in {"asked", "open", "wiring", "wired", "laid", "dropped"}
  /\ starts \in [Child -> Nat] /\ outcomes \in [Child -> Nat]
  /\ faults \in Nat
Typed ==
  /\ Stored
  /\ worker \in [Worker -> Local] /\ \A w \in Worker : Fits(worker[w])

(* The goroutine that lays the plan out, and where the plan is then; the   *)
(* ones that may end the parent.                                           *)
Splits(r) == r.pc \in {"create", "link", "wire", "publish"} \/ (InUpdate(r) /\ r.then = "split")
Stage(r) ==
  CASE r.pc \in {"create", "link"} -> "open"
    [] r.pc = "wire" -> "wiring"
    [] OTHER -> "wired"
Pursues(r) ==
  \/ r.pc \in {"listChildren", "readChild", "readParent"}
  \/ InUpdate(r) /\ r.task = Parent /\ r.then = "stop"

(* No child is created or linked any more.                                 *)
Past == plan \notin {"asked", "open"}

Did(c, s) == <<c, s>> \in ended
Made == \A c \in Child : status[c] # "none"
Whole == faults = 0 => Child \subseteq linked
Wired == Wires \subseteq blocks \cup unwired
AllDid == \A c \in linked : Did(c, "completed")
SomeDidNot == \E c \in Child : Did(c, "failed") \/ Did(c, "cancelled")
SiblingsEnded(c) ==
  \A d \in DependsOn[c] : <<d, c>> \in unwired \/ \E s \in TerminalTask : Did(d, s)

(* What a goroutine's locals say of the board.                             *)
Knows(r) ==
  /\ Splits(r) => plan = Stage(r)
  /\ r.pc \in {"create", "link"} =>
       (\A c \in r.left : status[c] = "none") /\ (\A c \in Child \ r.left : status[c] # "none")
  /\ r.pc = "create" /\ faults = 0 => Child \ r.left \subseteq linked
  /\ r.pc = "link" /\ faults = 0 => Child \ (r.left \cup {r.task}) \subseteq linked
  /\ r.pc = "wire" => Wires \ r.left \subseteq blocks \cup unwired
  /\ r.pc \in {"readChild", "readParent"} =>
       /\ r.left \subseteq linked
       /\ r.early = FALSE => Past /\ (r.bad = FALSE => \A c \in linked \ r.left : Did(c, "completed"))
       /\ r.bad = TRUE => SomeDidNot
  /\ InUpdate(r) /\ r.task = Parent /\ r.then = "stop" =>
       /\ r.goal = "completed" /\ r.early = FALSE => AllDid /\ Past
       /\ r.goal = "failed" => SomeDidNot
  /\ InUpdate(r) => status[r.task] # "none"
  /\ r.pc = "writeTask" /\ r.goal = "in_progress" /\ status[r.task] = "pending" =>
       SiblingsEnded(r.task) \/ r.task \in hasty

(* Only what was created is worked on or linked, and the plan is laid out  *)
(* as far as it says.                                                      *)
Created ==
  \A c \in Child : status[c] = "none" => starts[c] = 0 /\ outcomes[c] = 0 /\ c \notin linked
LaidOut ==
  /\ plan = "asked" => \A c \in Child : status[c] = "none"
  /\ plan = "dropped" => faults # 0
  /\ plan \in {"wiring", "wired", "laid"} => Whole /\ Made
  /\ plan \in {"wired", "laid"} => Wired
EndsNoted == \A t \in Task : status[t] \in TerminalTask => Did(t, status[t])
InTime == status[Parent] = "completed" /\ ~premature => Past

(* The roll-up the children call for is under way.                         *)
Due ==
  /\ linked # {} /\ \A c \in linked : status[c] \in TerminalTask
  /\ silent = {} /\ status[Parent] \notin TerminalTask
Pursued == Due => \E w \in Worker : Pursues(worker[w])

(* One goroutine lays the plan out.                                       *)
Single ==
  /\ \A v, w \in Worker : Splits(worker[v]) /\ Splits(worker[w]) => v = w
  /\ plan = "asked" => \A w \in Worker : ~Splits(worker[w])
Board == Created /\ LaidOut /\ EndsNoted /\ InTime /\ OutcomeHasCause

Orderly == Board /\ Pursued /\ Single /\ \A w \in Worker : Knows(worker[w])

(* Whatever a step does: what was done stays done, and no child is linked  *)
(* once the plan is past that.                                             *)
Grows ==
  /\ ended \subseteq ended' /\ blocks \subseteq blocks' /\ linked \subseteq linked'
  /\ unwired \subseteq unwired' /\ hasty \subseteq hasty'
  /\ Past => Past' /\ linked' = linked
  /\ faults' = 0 => faults = 0
  /\ \A t \in Task : status[t] # "none" => status'[t] # "none"
  /\ \A c \in Child : status'[c] = "pending" => status[c] \in {"none", "pending"}

(* A step of another goroutine than the one that lays the plan out.        *)
Steady ==
  plan \in {"open", "wiring", "wired"} =>
    plan' = plan /\ \A c \in Child : status[c] = "none" => status'[c] = "none"

LEMMA KnowsStays ==
  ASSUME NEW r, Fits(r), Knows(r), Grows, Splits(r) => Steady
  PROVE  Knows(r)'
<1>1. Splits(r) => plan' = Stage(r)
  BY DEF Knows, Steady, Splits, Stage
<1>2. ASSUME r.pc \in {"create", "link"}
      PROVE  (\A c \in r.left : status'[c] = "none") /\ (\A c \in Child \ r.left : status'[c] # "none")
  BY <1>2 DEF Knows, Splits, Stage, Steady, Fits, Grows, Task
<1>3. /\ r.pc = "create" /\ faults' = 0 => Child \ r.left \subseteq linked'
      /\ r.pc = "link" /\ faults' = 0 => Child \ (r.left \cup {r.task}) \subseteq linked'
      /\ r.pc = "wire" => Wires \ r.left \subseteq blocks' \cup unwired'
  BY DEF Knows, Grows
<1>4. ASSUME r.pc \in {"readChild", "readParent"}
      PROVE  /\ r.left \subseteq linked'
             /\ r.early = FALSE =>
                  Past' /\ (r.bad = FALSE => \A c \in linked' \ r.left : Did(c, "completed")')
             /\ r.bad = TRUE => SomeDidNot'
  BY <1>4 DEF Knows, Grows, Did, SomeDidNot
<1>5. ASSUME InUpdate(r), r.task = Parent, r.then = "stop"
      PROVE  /\ r.goal = "completed" /\ r.early = FALSE => AllDid' /\ Past'
             /\ r.goal = "failed" => SomeDidNot'
  BY <1>5 DEF Knows, Grows, Did, AllDid, SomeDidNot
<1>6. InUpdate(r) => r.task \in Task
  BY DEF Fits, Aims, Task
<1>7. InUpdate(r) => status'[r.task] # "none"
  BY <1>6 DEF Knows, Grows
<1>8. ASSUME r.pc = "writeTask", r.goal = "in_progress", status'[r.task] = "pending"
      PROVE  SiblingsEnded(r.task)' \/ r.task \in hasty'
  <2>1. InUpdate(r) /\ r.task \in Child
    BY <1>8 DEF Fits, Aims, InUpdate
  <2>2. status[r.task] = "pending"
    BY <1>8, <2>1 DEF Knows, Grows
  <2>3. SiblingsEnded(r.task) \/ r.task \in hasty
    BY <1>8, <2>2 DEF Knows
  <2> QED BY <2>3 DEF SiblingsEnded, Did, Grows
<1> QED BY <1>1, <1>2, <1>3, <1>4, <1>5, <1>7, <1>8 DEF Knows

LEMMA Becomes ==
  ASSUME Typed, NEW w \in Worker, NEW r, Become(w, r)
  PROVE  /\ worker'[w] = r /\ \A v \in Worker \ {w} : worker'[v] = worker[v]
         /\ r \in Local => worker' \in [Worker -> Local]
BY DEF Become, Typed

LEMMA Here ==
  ASSUME Typed, NEW w \in Worker
  PROVE  worker[w] \in Local /\ Fits(worker[w])
BY DEF Typed

LEMMA IdleIs ==
  /\ Idle \in Local /\ Idle.pc = "idle" /\ Fits(Idle) /\ Knows(Idle) /\ ~Splits(Idle)
       /\ ~Pursues(Idle)
BY DEF Idle, Local, PC, TaskStatus, Then, Fits, InUpdate, Knows, Splits, Pursues

LEMMA OutcomeStays ==
  ASSUME Orderly, Grows, status'[Parent] = status[Parent], called => called',
         premature' = premature
  PROVE  OutcomeHasCause' /\ InTime'
<1>1. /\ OutcomeHasCause /\ InTime
      /\ status[Parent] = "completed" /\ ~premature => linked' = linked /\ Past'
  BY DEF Orderly, Board, InTime, Grows
<1>2. status[Parent] = "completed" /\ ~premature =>
        (\A c \in linked' : <<c, "completed">> \in ended') /\ (faults' = 0 => linked' = Child)
  BY <1>1 DEF OutcomeHasCause, Grows
<1>3. status[Parent] = "failed" =>
        called' \/ \E c \in Child : <<c, "failed">> \in ended' \/ <<c, "cancelled">> \in ended'
  BY <1>1 DEF OutcomeHasCause, Grows
<1> QED BY <1>1, <1>2, <1>3 DEF OutcomeHasCause, InTime

(* A step of w to locals r.                                                *)
LEMMA Moves ==
  ASSUME Typed, Orderly, NEW w \in Worker, NEW r \in Local, Become(w, r), Fits(r), Grows,
         Stored', Board', Knows(r)',
         Splits(worker[w]) \/ plan = "asked" \/ Steady,
         Splits(r) => Splits(worker[w]) \/ plan = "asked",
         plan' = "asked" => plan = "asked" /\ ~Splits(r),
         Due' => Pursues(r) \/ (Due /\ ~Pursues(worker[w]))
  PROVE  Typed' /\ Orderly'
<1>1. worker'[w] = r /\ (\A v \in Worker \ {w} : worker'[v] = worker[v])
        /\ worker' \in [Worker -> Local]
  BY Becomes
<1>2. Typed'
  <2>1. \A v \in Worker : Fits(worker'[v])
    BY <1>1 DEF Typed
  <2> QED BY <1>1, <2>1 DEF Typed, Fits
<1>3. ASSUME NEW v \in Worker \ {w}
      PROVE  Knows(worker[v])'
  <2>1. PICK x : x = worker[v]
    OBVIOUS
  <2>2. Fits(x) /\ Knows(x) /\ worker'[v] = x
    BY <1>1, <2>1 DEF Typed, Orderly
  <2>3. Splits(x) => Steady
    BY <2>1 DEF Orderly, Single
  <2>4. Knows(x)'
    BY <2>2, <2>3, KnowsStays
  <2> QED BY <2>2, <2>4 DEF Knows, Did, AllDid, SomeDidNot, SiblingsEnded, Past
<1>4. Knows(worker[w])'
  BY <1>1 DEF Knows, Did, AllDid, SomeDidNot, SiblingsEnded, Past
<1>5. Single'
  BY <1>1 DEF Orderly, Single
<1>6. Pursued'
  <2> SUFFICES ASSUME Due' PROVE \E v \in Worker : Pursues(worker'[v])
    BY DEF Pursued, Pursues
  <2>1. CASE Pursues(r)
    BY <1>1, <2>1
  <2>2. CASE Due /\ ~Pursues(worker[w])
    BY <1>1, <2>2 DEF Orderly, Pursued
  <2> QED BY <2>1, <2>2
<1> QED BY <1>2, <1>3, <1>4, <1>5, <1>6 DEF Orderly

(* One that leaves the tasks and the plan as they were.                    *)
LEMMA MovesQuietly ==
  ASSUME Typed, Orderly, NEW w \in Worker, NEW r \in Local, Become(w, r), Fits(r), Knows(r)',
         UNCHANGED <<status, linked, blocks, plan, ended, silent, called, unwired, premature>>,
         hasty \subseteq hasty',
         starts' \in [Child -> Nat], outcomes' \in [Child -> Nat], Created',
         faults' \in Nat, faults' = 0 => faults = 0,
         Splits(r) => Splits(worker[w]),
         Due /\ Pursues(worker[w]) => Pursues(r)
  PROVE  Typed' /\ Orderly'
<1>1. Grows /\ Steady
  BY DEF Grows, Steady, Past
<1>2. Stored'
  BY DEF Stored, Typed
<1>3. LaidOut' /\ EndsNoted'
  BY DEF Orderly, Board, LaidOut, EndsNoted, Did, Wired, Whole, Made
<1>4. OutcomeHasCause' /\ InTime'
  BY <1>1, OutcomeStays
<1>5. Due' => Due
  BY DEF Due
<1>6. plan = "asked" => ~Splits(r)
  BY DEF Orderly, Single
<1> QED BY <1>1, <1>2, <1>3, <1>4, <1>5, <1>6, Moves DEF Board

(* The same, and nothing but the goroutine's own locals change.            *)
LEMMA MovesAlone ==
  ASSUME Typed, Orderly, NEW w \in Worker, NEW r \in Local, Become(w, r), Fits(r), Knows(r),
         UNCHANGED <<status, linked, blocks, plan, ended, silent, called, unwired, premature,
           hasty, starts, outcomes, faults>>,
         Splits(r) => Splits(worker[w]),
         Due /\ Pursues(worker[w]) => Pursues(r)
  PROVE  Typed' /\ Orderly'
<1>1. starts' \in [Child -> Nat] /\ outcomes' \in [Child -> Nat] /\ faults' \in Nat /\ Created'
  BY DEF Typed, Stored, Orderly, Board, Created
<1>2. Knows(r)'
  BY DEF Knows, Did, AllDid, SomeDidNot, SiblingsEnded, Past
<1> QED BY <1>1, <1>2, MovesQuietly

-----------------------------------------------------------------------------
(* One lemma for each action.                                              *)

LEMMA GoesIdle ==
  ASSUME Typed, Orderly, NEW w \in Worker, Become(w, Idle), ~(Due /\ Pursues(worker[w])),
         UNCHANGED <<status, linked, blocks, plan, ended, silent, called, unwired, premature,
           hasty, starts, outcomes, faults>>
  PROVE  Typed' /\ Orderly'
BY IdleIs, MovesAlone

LEMMA TakesSplit ==
  ASSUME Typed, Orderly, NEW w \in Worker, ReceiveSplit(w)
  PROVE  Typed' /\ Orderly'
<1>1. PICK r : r = [Idle EXCEPT !.pc = "create", !.goal = status[Parent], !.left = Child]
  OBVIOUS
<1>2. /\ Become(w, r) /\ plan = "asked" /\ plan' = "open"
      /\ UNCHANGED <<status, linked, blocks, starts, outcomes, faults, ended, silent, called,
                     unwired, premature, hasty>>
  BY <1>1 DEF ReceiveSplit, edges, agents, bounds, history, excuses
<1>3. worker[w].pc = "idle"
  BY DEF ReceiveSplit, At
<1>4. status[Parent] \in TaskStatus
  BY DEF Typed, Stored, TaskStatus
<1>5. r \in Local /\ r.pc = "create" /\ r.left = Child
  BY <1>1, <1>4 DEF Idle, Local, PC, Then
<1>6. \A c \in Child : status[c] = "none"
  BY <1>2 DEF Orderly, Board, LaidOut
<1>7. Fits(r)
  BY <1>5 DEF Fits, InUpdate
<1>8. Grows
  BY <1>2 DEF Grows, Past
<1>9. Stored'
  BY <1>2 DEF Typed, Stored
<1>10. Created' /\ LaidOut' /\ EndsNoted'
  BY <1>2 DEF Orderly, Board, Created, LaidOut, EndsNoted, Did
<1>11. OutcomeHasCause' /\ InTime'
  BY <1>2, <1>8, OutcomeStays
<1>12. Knows(r)'
  BY <1>2, <1>5, <1>6 DEF Knows, Splits, Stage, InUpdate
<1>13. Due' => Due /\ ~Pursues(worker[w])
  BY <1>2, <1>3 DEF Due, Pursues, InUpdate
<1> QED BY <1>2, <1>5, <1>7, <1>8, <1>9, <1>10, <1>11, <1>12, <1>13, Moves DEF Board

LEMMA Creates ==
  ASSUME Typed, Orderly, NEW w \in Worker, CreateChild(w)
  PROVE  Typed' /\ Orderly'
<1> DEFINE me == worker[w]
<1>1. /\ me \in Local /\ Fits(me) /\ Knows(me) /\ me.pc = "create" /\ me.left \subseteq Child
  BY Here DEF Orderly, CreateChild, At, Fits
<1>2. PICK c \in me.left :
        /\ status' = [status EXCEPT ![c] = "pending"]
        /\ Become(w, [me EXCEPT !.pc = "link", !.task = c, !.left = @ \ {c}])
  BY DEF CreateChild
<1>3. UNCHANGED <<linked, blocks, plan, starts, outcomes, faults, ended, silent, called, unwired,
                  premature, hasty>>
  BY DEF CreateChild, edges, agents, bounds, history, excuses
<1>4. /\ c \in Child /\ plan = "open" /\ status[c] = "none" /\ Splits(me) /\ ~Pursues(me)
      /\ \A u \in me.left : status[u] = "none"
      /\ \A u \in Child \ me.left : status[u] # "none"
      /\ faults = 0 => Child \ me.left \subseteq linked
  BY <1>1 DEF Knows, Splits, Stage, Pursues, InUpdate
<1>5. PICK r : r = [me EXCEPT !.pc = "link", !.task = c, !.left = @ \ {c}]
  OBVIOUS
<1>6. r \in Local /\ r.pc = "link" /\ r.task = c /\ r.left = me.left \ {c} /\ Become(w, r)
  BY <1>1, <1>2, <1>4, <1>5 DEF Local, PC, Task
<1> HIDE DEF me
<1>7. status \in [Task -> TaskStatus \cup {"none"}] /\ c \in Task /\ c # Parent /\ c \notin linked
  BY <1>4, NullAssumption DEF Typed, Stored, Task, Orderly, Board, Created
<1>8. status'[c] = "pending" /\ \A u \in Task \ {c} : status'[u] = status[u]
  BY <1>2, <1>7
<1>9. Grows
  BY <1>3, <1>4, <1>8 DEF Grows, Task, Past
<1>10. Stored'
  BY <1>2, <1>3, <1>7 DEF Typed, Stored, TaskStatus
<1>11. Created' /\ LaidOut' /\ EndsNoted'
  BY <1>3, <1>4, <1>8 DEF Orderly, Board, Created, LaidOut, EndsNoted, Did, TerminalTask, Task
<1>12. OutcomeHasCause' /\ InTime'
  BY <1>3, <1>7, <1>8, <1>9, OutcomeStays DEF Task
<1>13. Fits(r)
  BY <1>1, <1>4, <1>6 DEF Fits, InUpdate
<1>14. Knows(r)'
  <2>1. /\ \A u \in r.left : status'[u] = "none"
        /\ \A u \in Child \ r.left : status'[u] # "none"
    BY <1>1, <1>4, <1>6, <1>8 DEF Task
  <2>2. faults' = 0 => Child \ (r.left \cup {r.task}) \subseteq linked'
    BY <1>3, <1>4, <1>6
  <2> QED BY <1>3, <1>4, <1>6, <2>1, <2>2 DEF Knows, Splits, Stage, InUpdate
<1>15. Due' => Due
  <2>1. linked \subseteq Task \ {c} /\ Parent \in Task \ {c}
    BY <1>7 DEF Typed, Stored, Task
  <2> QED BY <1>3, <1>8, <2>1 DEF Due
<1> QED
  BY <1>3, <1>4, <1>6, <1>9, <1>10, <1>11, <1>12, <1>13, <1>14, <1>15, Moves DEF Board, me

(* The rest of the plan is given up.                                       *)
LEMMA GivesUp ==
  ASSUME Typed, Orderly, NEW w \in Worker, CreateRefused(w)
  PROVE  Typed' /\ Orderly'
<1> DEFINE me == worker[w]
<1>1. /\ Knows(me) /\ me.pc = "create"
  BY DEF Orderly, CreateRefused, At
<1>2. /\ plan' = "dropped" /\ faults' = faults + 1 /\ Become(w, Idle)
      /\ UNCHANGED <<status, linked, blocks, starts, outcomes, ended, silent, called, unwired,
                     premature, hasty>>
  BY DEF CreateRefused, Fault, edges, agents, history, excuses
<1>3. faults \in Nat
  BY DEF Typed, Stored
<1>4. faults' \in Nat /\ faults' # 0
  BY <1>2, <1>3
<1>5. plan = "open" /\ Splits(me) /\ ~Pursues(me)
  BY <1>1 DEF Knows, Splits, Stage, Pursues, InUpdate
<1>6. Grows
  BY <1>2, <1>4, <1>5 DEF Grows, Past
<1>7. Stored'
  BY <1>2, <1>4 DEF Typed, Stored
<1>8. Created' /\ LaidOut' /\ EndsNoted'
  BY <1>2, <1>4 DEF Orderly, Board, Created, LaidOut, EndsNoted, Did
<1>9. OutcomeHasCause' /\ InTime'
  BY <1>2, <1>6, OutcomeStays
<1>10. PICK r : r = Idle
  OBVIOUS
<1>11. r \in Local /\ r.pc = "idle" /\ Fits(r) /\ ~Splits(r)
  BY <1>10, IdleIs
<1>12. Knows(r)'
  BY <1>11 DEF Knows, Splits, InUpdate
<1>13. Due' => Due
  BY <1>2 DEF Due
<1> QED BY <1>2, <1>5, <1>6, <1>7, <1>8, <1>9, <1>10, <1>11, <1>12, <1>13, Moves DEF Board

(* After the edge of one child the next one is created, or the wiring      *)
(* begins.                                                                 *)
LEMMA AfterLinkIs ==
  ASSUME Typed, NEW w \in Worker, At(w, "link"), AfterLink(w)
  PROVE  \E r \in Local :
           /\ Become(w, r) /\ Fits(r) /\ Splits(r)
           /\ \/ r.pc = "create" /\ r.left = worker[w].left /\ plan' = plan
              \/ r.pc = "wire" /\ r.left = Wires /\ worker[w].left = {} /\ plan' = "wiring"
<1> DEFINE me == worker[w]
<1>1. me \in Local /\ Fits(me) /\ me.pc = "link" /\ me.left \subseteq Child
  BY Here DEF At, Fits
<1>2. CASE me.left # {}
  <2>1. PICK r : r = [me EXCEPT !.pc = "create"]
    OBVIOUS
  <2>2. r \in Local /\ r.pc = "create" /\ r.left = me.left
    BY <1>1, <2>1 DEF Local, PC
  <2>3. Fits(r) /\ Splits(r)
    BY <1>1, <2>2 DEF Fits, Splits, InUpdate
  <2> QED BY <1>2, <2>1, <2>2, <2>3 DEF AfterLink
<1>3. CASE me.left = {}
  <2>1. PICK r : r = [Wiring EXCEPT !.goal = me.goal]
    OBVIOUS
  <2>2. Wires \subseteq Child \X Child
    BY DEF Wires
  <2>3. me.goal \in TaskStatus
    BY <1>1 DEF Local
  <2>4. r \in Local /\ r.pc = "wire" /\ r.left = Wires
    BY <2>1, <2>2, <2>3 DEF Wiring, Idle, Local, PC, Then
  <2>5. Fits(r) /\ Splits(r)
    BY <2>4 DEF Fits, Splits, InUpdate
  <2> QED BY <1>3, <2>1, <2>4, <2>5 DEF AfterLink
<1> QED BY <1>2, <1>3

LEMMA Linking ==
  ASSUME Typed, Orderly, NEW w \in Worker, LinkChild(w) \/ LinkRefused(w)
  PROVE  Typed' /\ Orderly'
<1> DEFINE me == worker[w]
           c == me.task
<1>1. /\ me \in Local /\ Fits(me) /\ Knows(me) /\ me.pc = "link" /\ c \in Child
      /\ me.left \subseteq Child /\ c \notin me.left
  BY Here DEF Orderly, LinkChild, LinkRefused, At, Fits
<1>2. /\ \/ /\ linked' = linked \cup {c} /\ faults' = faults
            /\ silent' = IF status[c] \in TerminalTask THEN silent \cup {c} ELSE silent
         \/ linked' = linked /\ faults' = faults + 1 /\ silent' = silent
      /\ UNCHANGED <<status, blocks, starts, outcomes, ended, called, unwired, premature, hasty>>
  BY DEF LinkChild, LinkRefused, Fault, edges, agents, bounds, history, excuses
<1>3. PICK r \in Local :
           /\ Become(w, r) /\ Fits(r) /\ Splits(r)
           /\ \/ r.pc = "create" /\ r.left = me.left /\ plan' = plan
              \/ r.pc = "wire" /\ r.left = Wires /\ me.left = {} /\ plan' = "wiring"
  BY AfterLinkIs DEF LinkChild, LinkRefused
<1>4. /\ plan = "open" /\ Splits(me) /\ ~Pursues(me) /\ (\A u \in me.left : status[u] = "none")
      /\ (\A u \in Child \ me.left : status[u] # "none") /\ status[c] # "none"
      /\ faults = 0 => Child \ (me.left \cup {c}) \subseteq linked
  BY <1>1 DEF Knows, Splits, Stage, Pursues, InUpdate
<1> HIDE DEF me, c
<1>5. faults \in Nat /\ linked \subseteq Child
  BY DEF Typed, Stored
<1>6. faults' \in Nat /\ (faults' = 0 => faults = 0 /\ linked' = linked \cup {c})
      /\ linked \subseteq linked' /\ linked' \subseteq linked \cup {c}
  BY <1>2, <1>5
<1>7. Grows
  BY <1>2, <1>4, <1>6 DEF Grows, Past
<1>8. Stored'
  BY <1>1, <1>2, <1>3, <1>5, <1>6 DEF Typed, Stored
<1>9. faults' = 0 => Child \ me.left \subseteq linked'
  BY <1>4, <1>6
<1>10. Created' /\ LaidOut' /\ EndsNoted'
  <2>1. Created' /\ EndsNoted'
    BY <1>2, <1>4, <1>6 DEF Orderly, Board, Created, EndsNoted, Did
  <2>2. plan' # "open" => Whole' /\ Made'
    BY <1>2, <1>3, <1>4, <1>9 DEF Whole, Made
  <2> QED BY <1>3, <1>4, <2>1, <2>2 DEF LaidOut
<1>11. OutcomeHasCause' /\ InTime'
  BY <1>2, <1>7, OutcomeStays
<1>12. Knows(r)'
  BY <1>2, <1>3, <1>4, <1>9 DEF Knows, Splits, Stage, InUpdate
<1>13. Due' => Due
  BY <1>2 DEF Due
<1> QED BY <1>2, <1>3, <1>4, <1>7, <1>8, <1>10, <1>11, <1>12, <1>13, Moves DEF Board, me

LEMMA UpdatingIs ==
  ASSUME NEW t \in Task, NEW s \in TaskStatus, NEW then \in Then
  PROVE  LET r == Updating(t, s, then) IN
         /\ r \in Local /\ r.pc = "checkTask" /\ r.task = t /\ r.goal = s /\ r.then = then
         /\ InUpdate(r)
BY DEF Updating, Idle, Local, PC, Then, TaskStatus, InUpdate

LEMMA PublishingIs ==
  /\ Publishing \in Local /\ Publishing.pc = "publish" /\ Publishing.left = Independent
  /\ Fits(Publishing) /\ Splits(Publishing) /\ ~Pursues(Publishing)
<1>1. Independent \subseteq Child
  BY DEF Independent
<1>2. Publishing \in Local /\ Publishing.pc = "publish" /\ Publishing.left = Independent
  BY <1>1 DEF Publishing, Idle, Local, PC, Then, TaskStatus
<1> QED BY <1>1, <1>2 DEF Fits, Splits, Pursues, InUpdate

LEMMA RollingUpIs ==
  /\ RollingUp \in Local /\ RollingUp.pc = "listChildren"
  /\ Fits(RollingUp) /\ ~Splits(RollingUp) /\ Pursues(RollingUp)
<1>1. RollingUp \in Local /\ RollingUp.pc = "listChildren" /\ RollingUp.bad = FALSE
  BY DEF RollingUp, Idle, Local, PC, Then, TaskStatus
<1> QED BY <1>1 DEF Fits, Splits, Pursues, InUpdate

(* An edge that is written, or one that the store refused.                 *)
LEMMA WiresOne ==
  ASSUME Typed, Orderly, NEW w \in Worker, At(w, "wire"), NEW p \in worker[w].left,
         Become(w, [worker[w] EXCEPT !.left = @ \ {p}]),
         \/ blocks' = blocks \cup {p} /\ unwired' = unwired /\ faults' = faults
         \/ blocks' = blocks /\ unwired' = unwired \cup {p} /\ faults' = faults + 1,
         UNCHANGED <<status, linked, plan, starts, outcomes, ended, silent, called, premature,
           hasty>>
  PROVE  Typed' /\ Orderly'
<1> DEFINE me == worker[w]
<1>1. /\ me \in Local /\ Fits(me) /\ Knows(me) /\ me.pc = "wire" /\ me.left \subseteq Wires
  BY Here DEF Orderly, At, Fits
<1>2. /\ plan = "wiring" /\ Splits(me) /\ Wires \ me.left \subseteq blocks \cup unwired
      /\ ~Pursues(me)
  BY <1>1 DEF Knows, Splits, Stage, Pursues, InUpdate
<1>3. PICK r : r = [me EXCEPT !.left = @ \ {p}]
  OBVIOUS
<1>4. r \in Local /\ r.pc = "wire" /\ r.left = me.left \ {p} /\ Become(w, r)
  BY <1>1, <1>3 DEF Local
<1> HIDE DEF me
<1>5. Fits(r) /\ Splits(r)
  BY <1>1, <1>4 DEF Fits, InUpdate, Splits
<1>6. faults' \in Nat /\ (faults' = 0 => faults = 0)
  BY DEF Typed, Stored
<1>7. Grows
  BY <1>6 DEF Grows, Past
<1>8. Stored'
  BY <1>6 DEF Typed, Stored
<1>9. Created' /\ LaidOut' /\ EndsNoted'
  BY <1>2, <1>6 DEF Orderly, Board, Created, LaidOut, EndsNoted, Did, Whole, Made
<1>10. OutcomeHasCause' /\ InTime'
  BY <1>7, OutcomeStays
<1>11. Knows(r)'
  <2>1. Wires \ r.left \subseteq blocks' \cup unwired'
    BY <1>2, <1>4
  <2> QED BY <1>2, <1>4, <2>1 DEF Knows, Splits, Stage, InUpdate, Wires
<1>12. Due' => Due
  BY DEF Due
<1> QED BY <1>2, <1>4, <1>5, <1>7, <1>8, <1>9, <1>10, <1>11, <1>12, Moves DEF Board, me

LEMMA Wiring1 ==
  ASSUME Typed, Orderly, NEW w \in Worker, Wire(w) \/ WireRefused(w)
  PROVE  Typed' /\ Orderly'
<1> DEFINE me == worker[w]
<1>1. /\ me \in Local /\ Fits(me) /\ Knows(me) /\ me.pc = "wire" /\ At(w, "wire")
  BY Here DEF Orderly, Wire, WireRefused, At
<1>2. UNCHANGED <<status, linked, starts, outcomes, ended, silent, called, premature, hasty>>
  BY DEF Wire, WireRefused, edges, agents, bounds, history, excuses
<1>3. CASE \E p \in me.left :
             /\ Become(w, [me EXCEPT !.left = @ \ {p}]) /\ plan' = plan
             /\ \/ blocks' = blocks \cup {p} /\ unwired' = unwired /\ faults' = faults
                \/ blocks' = blocks /\ unwired' = unwired \cup {p} /\ faults' = faults + 1
  BY <1>1, <1>2, <1>3, WiresOne
<1>4. CASE /\ me.left = {} /\ plan' = "wired" /\ UNCHANGED <<blocks, unwired, faults>>
           /\ Become(w, IF TaskCanTransition(me.goal, "split")
                        THEN Updating(Parent, "split", "split") ELSE Publishing)
  <2>1. /\ plan = "wiring" /\ Splits(me) /\ ~Pursues(me) /\ Wires \subseteq blocks \cup unwired
    BY <1>1, <1>4 DEF Knows, Splits, Stage, Pursues, InUpdate
  <2>2. PICK r : r = IF TaskCanTransition(me.goal, "split")
                     THEN Updating(Parent, "split", "split") ELSE Publishing
    OBVIOUS
  <2>3. \/ r = Publishing
        \/ /\ r \in Local /\ r.pc = "checkTask" /\ r.task = Parent /\ r.goal = "split"
             /\ r.then = "split" /\ InUpdate(r)
    BY <2>2, UpdatingIs DEF Task, TaskStatus, Then
  <2>4. Become(w, r)
    BY <1>4, <2>2
  <2>5. status[Parent] # "none"
    BY DEF Typed, Stored
  <2> HIDE DEF me
  <2>6. r \in Local /\ Fits(r) /\ Splits(r) /\ ~(r.pc \in {"create", "link", "wire"})
    BY <2>3, PublishingIs DEF Fits, Aims, Splits, InUpdate
  <2>7. Knows(r)'
    <3>1. CASE r = Publishing
      BY <1>4, <3>1, PublishingIs DEF Knows, Stage, InUpdate
    <3>2. CASE r # Publishing
      BY <1>2, <1>4, <2>3, <2>5, <3>2 DEF Knows, Stage, InUpdate
    <3> QED BY <3>1, <3>2
  <2>8. Grows
    BY <1>2, <1>4, <2>1 DEF Grows, Past
  <2>9. Stored'
    BY <1>2, <1>4 DEF Typed, Stored
  <2>10. Created' /\ LaidOut' /\ EndsNoted'
    BY <1>2, <1>4, <2>1 DEF Orderly, Board, Created, LaidOut, EndsNoted, Did, Whole, Made, Wired, Wires
  <2>11. OutcomeHasCause' /\ InTime'
    BY <1>2, <2>8, OutcomeStays
  <2>12. Due' => Due
    BY <1>2 DEF Due
  <2> QED BY <1>4, <2>1, <2>4, <2>6, <2>7, <2>8, <2>9, <2>10, <2>11, <2>12, Moves DEF Board, me
<1> QED BY <1>3, <1>4 DEF Wire, WireRefused, Fault, edges, agents, bounds, history, excuses

LEMMA DispatchIs ==
  ASSUME Stored, NEW c \in Child, Dispatch(c)
  PROVE  starts' \in [Child -> Nat] /\ \A u \in Child \ {c} : starts'[u] = starts[u]
BY DEF Stored, Dispatch

LEMMA Publishes ==
  ASSUME Typed, Orderly, NEW w \in Worker, PublishChild(w)
  PROVE  Typed' /\ Orderly'
<1> DEFINE me == worker[w]
<1>1. /\ me \in Local /\ Fits(me) /\ Knows(me) /\ me.pc = "publish" /\ me.left \subseteq Child
  BY Here DEF Orderly, PublishChild, At, Fits
<1>2. UNCHANGED <<status, linked, blocks, outcomes, faults, ended, silent, called, unwired, premature,
                  hasty>>
  BY DEF PublishChild, edges, bounds, excuses
<1>3. plan = "wired" /\ Splits(me) /\ Made /\ ~Pursues(me)
  BY <1>1 DEF Knows, Splits, Stage, Pursues, InUpdate, Orderly, Board, LaidOut
<1>4. CASE \E c \in me.left : Dispatch(c) /\ Become(w, [me EXCEPT !.left = @ \ {c}]) /\ plan' = plan
  <2>1. PICK c \in me.left : Dispatch(c) /\ Become(w, [me EXCEPT !.left = @ \ {c}]) /\ plan' = plan
    BY <1>4
  <2>2. PICK r : r = [me EXCEPT !.left = @ \ {c}]
    OBVIOUS
  <2>3. r \in Local /\ r.pc = "publish" /\ r.left \subseteq Child /\ Become(w, r)
    BY <1>1, <2>1, <2>2 DEF Local
  <2> HIDE DEF me
  <2>4. starts' \in [Child -> Nat]
    BY <1>1, <2>1, DispatchIs DEF Typed
  <2>5. Fits(r) /\ Splits(r)
    BY <2>3 DEF Fits, InUpdate, Splits
  <2>6. Grows
    BY <1>2, <2>1 DEF Grows, Past
  <2>7. Stored'
    BY <1>2, <2>1, <2>4 DEF Typed, Stored
  <2>8. Created' /\ LaidOut' /\ EndsNoted'
    BY <1>2, <1>3, <2>1 DEF Orderly, Board, Created, LaidOut, EndsNoted, Did, Wired, Whole, Made
  <2>9. OutcomeHasCause' /\ InTime'
    BY <1>2, <2>6, OutcomeStays
  <2>10. Knows(r)'
    BY <1>3, <2>1, <2>3 DEF Knows, Splits, Stage, InUpdate
  <2>11. Due' => Due /\ ~Pursues(me)
    BY <1>2, <1>3 DEF Due
  <2> QED
    BY <1>3, <2>1, <2>3, <2>5, <2>6, <2>7, <2>8, <2>9, <2>10, <2>11, Moves DEF Board, me
<1>5. CASE me.left = {} /\ plan' = "laid" /\ Become(w, Idle) /\ starts' = starts
  <2>1. PICK r : r = Idle
    OBVIOUS
  <2>2. r \in Local /\ r.pc = "idle" /\ Fits(r) /\ ~Splits(r)
    BY <2>1, IdleIs
  <2>3. Grows
    BY <1>2, <1>3, <1>5 DEF Grows, Past
  <2>4. Stored'
    BY <1>2, <1>5 DEF Typed, Stored
  <2>5. Created' /\ LaidOut' /\ EndsNoted'
    BY <1>2, <1>3, <1>5 DEF Orderly, Board, Created, LaidOut, EndsNoted, Did, Wired, Whole, Made
  <2>6. OutcomeHasCause' /\ InTime'
    BY <1>2, <2>3, OutcomeStays
  <2>7. Knows(r)'
    BY <2>2 DEF Knows, Splits, InUpdate
  <2>8. Due' => Due /\ ~Pursues(me)
    BY <1>2, <1>3 DEF Due
  <2> QED BY <1>3, <1>5, <2>1, <2>2, <2>3, <2>4, <2>5, <2>6, <2>7, <2>8, Moves DEF Board
<1> QED BY <1>4, <1>5 DEF PublishChild

LEMMA Takes ==
  ASSUME Typed, Orderly, NEW w \in Worker, NEW t \in Task, NEW s \in TaskStatus, NEW then \in Then,
         At(w, "idle"), Become(w, Updating(t, s, then)), Aims(Updating(t, s, then)),
         UNCHANGED <<status, linked, blocks, plan, ended, silent, called, faults, unwired, premature,
           hasty>>,
         starts' \in [Child -> Nat], outcomes' \in [Child -> Nat], Created',
         status[t] # "none", then # "split", t = Parent => then # "stop"
  PROVE  Typed' /\ Orderly'
<1>1. PICK r : r = Updating(t, s, then)
  OBVIOUS
<1>2. /\ r \in Local /\ r.pc = "checkTask" /\ r.task = t /\ r.goal = s /\ r.then = then
      /\ InUpdate(r)
  BY <1>1, UpdatingIs
<1>3. Fits(r) /\ ~Splits(r) /\ Knows(r)'
  BY <1>1, <1>2 DEF Fits, Splits, Knows
<1>4. ~Pursues(worker[w])
  BY DEF At, Pursues, InUpdate
<1>5. faults' \in Nat
  BY DEF Typed, Stored
<1> QED BY <1>1, <1>2, <1>3, <1>4, <1>5, MovesQuietly

LEMMA TakesStarted ==
  ASSUME Typed, Orderly, NEW w \in Worker, NEW c \in Child, ReceiveStarted(w, c)
  PROVE  Typed' /\ Orderly'
<1>1. starts \in [Child -> Nat] /\ outcomes \in [Child -> Nat]
  BY DEF Typed, Stored
<1>2. /\ starts[c] > 0 /\ starts' = [starts EXCEPT ![c] = @ - 1]
      /\ UNCHANGED <<status, linked, blocks, plan, ended, silent, called, faults, outcomes, unwired,
                     premature, hasty>>
      /\ At(w, "idle") /\ Become(w, Updating(c, "in_progress", "started"))
  BY DEF ReceiveStarted, edges, bounds, history, excuses
<1>3. starts' \in [Child -> Nat]
  BY <1>1, <1>2
<1>4. status[c] # "none" /\ Created'
  BY <1>1, <1>2 DEF Orderly, Board, Created
<1>5. c \in Task /\ c # Parent /\ "in_progress" \in TaskStatus /\ "started" \in Then
  BY NullAssumption DEF Task, TaskStatus, Then
<1>6. Aims(Updating(c, "in_progress", "started"))
  BY <1>5, UpdatingIs DEF Aims
<1> QED BY <1>1, <1>2, <1>3, <1>4, <1>5, <1>6, Takes

LEMMA TakesOutcome ==
  ASSUME Typed, Orderly, NEW w \in Worker, NEW c \in Child, NEW s \in {"completed", "awaiting"},
         ReceiveOutcome(w, c, s)
  PROVE  Typed' /\ Orderly'
<1>1. starts \in [Child -> Nat] /\ outcomes \in [Child -> Nat]
  BY DEF Typed, Stored
<1> DEFINE then == IF s = "completed" THEN "report" ELSE "stop"
<1>2. /\ outcomes[c] > 0 /\ outcomes' = [outcomes EXCEPT ![c] = @ - 1]
      /\ UNCHANGED <<status, linked, blocks, plan, ended, silent, called, faults, starts, unwired,
                     premature, hasty>>
      /\ At(w, "idle") /\ Become(w, Updating(c, s, then))
  BY DEF ReceiveOutcome, edges, bounds, history, excuses
<1>3. outcomes' \in [Child -> Nat]
  BY <1>1, <1>2
<1>4. status[c] # "none" /\ Created'
  BY <1>1, <1>2 DEF Orderly, Board, Created
<1>5. /\ c \in Task /\ c # Parent /\ s \in TaskStatus /\ then \in Then
           /\ then \in {"report", "stop"}
      /\ then = "report" <=> s = "completed"
  BY NullAssumption DEF Task, TaskStatus, Then
<1> HIDE DEF then
<1>6. Aims(Updating(c, s, then))
  BY <1>5, UpdatingIs DEF Aims
<1> QED BY <1>1, <1>2, <1>3, <1>4, <1>5, <1>6, Takes

LEMMA TakesDirection ==
  ASSUME Typed, Orderly, NEW w \in Worker, NEW c \in Child, NEW option \in {"retry", "cancel"},
         ReceiveDirection(w, c, option)
  PROVE  Typed' /\ Orderly'
<1> DEFINE s == IF option = "retry" THEN "in_progress" ELSE "cancelled"
<1>1. /\ status[c] = "awaiting" /\ At(w, "idle") /\ Become(w, Updating(c, s, option))
      /\ UNCHANGED <<status, linked, blocks, plan, ended, silent, called, faults, starts,
           outcomes, unwired, premature, hasty>>
  BY DEF ReceiveDirection, edges, agents, history, excuses
<1>2. starts' \in [Child -> Nat] /\ outcomes' \in [Child -> Nat]
  BY <1>1 DEF Typed, Stored
<1>3. Created'
  BY <1>1 DEF Orderly, Board, Created
<1>4. /\ c \in Task /\ c # Parent /\ s \in TaskStatus /\ option \in Then
      /\ \/ option = "retry" /\ s = "in_progress"
         \/ option = "cancel" /\ s = "cancelled"
  BY NullAssumption DEF Task, TaskStatus, Then
<1> HIDE DEF s
<1>5. Aims(Updating(c, s, option))
  BY <1>4, UpdatingIs DEF Aims
<1> QED BY <1>1, <1>2, <1>3, <1>4, <1>5, Takes

LEMMA TakesEnd ==
  ASSUME Typed, Orderly, NEW w \in Worker, NEW t \in Task, NEW s \in {"failed", "cancelled"},
         EndSilently(w, t, s)
  PROVE  Typed' /\ Orderly'
<1>1. /\ status[t] # "none" /\ At(w, "idle") /\ Become(w, Updating(t, s, "silent"))
      /\ UNCHANGED <<status, linked, blocks, plan, ended, silent, called, faults, starts,
           outcomes, unwired, premature, hasty>>
  BY DEF EndSilently, edges, agents, history, excuses
<1>2. starts' \in [Child -> Nat] /\ outcomes' \in [Child -> Nat]
  BY <1>1 DEF Typed, Stored
<1>3. s \in TaskStatus /\ "silent" \in Then
  BY DEF TaskStatus, Then
<1>4. Aims(Updating(t, s, "silent"))
  BY <1>3, UpdatingIs DEF Aims
<1>5. Created'
  BY <1>1 DEF Orderly, Board, Created
<1> QED BY <1>1, <1>2, <1>3, <1>4, <1>5, Takes

LEMMA Assigns ==
  ASSUME Typed, Orderly, NEW c \in Child, AssignTask(c)
  PROVE  Typed' /\ Orderly'
<1>1. /\ status[c] = "pending" /\ Dispatch(c) /\ starts' \in [Child -> Nat]
      /\ UNCHANGED <<status, linked, blocks, plan, outcomes, worker, faults, ended, silent, called,
                     unwired, premature, hasty>>
  BY DispatchIs DEF AssignTask, edges, excuses, Typed
<1>2. Grows /\ Steady
  BY <1>1 DEF Grows, Steady, Past
<1>3. Stored'
  BY <1>1 DEF Typed, Stored
<1>4. Typed'
  BY <1>1, <1>3 DEF Typed
<1>5. Created' /\ LaidOut' /\ EndsNoted'
  <2>1. \A u \in Child \ {c} : starts'[u] = starts[u]
    BY <1>1, DispatchIs DEF Typed
  <2> QED BY <1>1, <2>1 DEF Orderly, Board, Created, LaidOut, EndsNoted, Did, Wired, Whole, Made
<1>6. OutcomeHasCause' /\ InTime'
  BY <1>1, <1>2, OutcomeStays
<1>7. Pursued' /\ Single'
  BY <1>1 DEF Orderly, Pursued, Due, Single
<1>8. ASSUME NEW v \in Worker PROVE Knows(worker[v])'
  <2>1. PICK x : x = worker[v]
    OBVIOUS
  <2>2. Fits(x) /\ Knows(x) /\ worker'[v] = x
    BY <1>1, <2>1 DEF Typed, Orderly
  <2>3. Knows(x)'
    BY <1>2, <2>2, KnowsStays
  <2> QED BY <2>2, <2>3 DEF Knows, Did, AllDid, SomeDidNot, SiblingsEnded, Past
<1> QED BY <1>4, <1>5, <1>6, <1>7, <1>8 DEF Orderly, Board

(* Where an update goes on that was refused, or that is done.              *)
LEMMA RefusedIs ==
  ASSUME NEW me \in Local, InUpdate(me), Fits(me), Knows(me)
  PROVE  LET r == Refused(me) IN
         /\ r \in Local /\ Fits(r) /\ Knows(r) /\ (Splits(r) => Splits(me))
         /\ me.then = "report" => Pursues(r)
<1>1. CASE me.then = "report"
  <2>1. Refused(me) = RollingUp
    BY <1>1 DEF Refused
  <2>2. Knows(RollingUp)
    BY RollingUpIs DEF Knows, InUpdate
  <2> QED BY <1>1, <2>1, <2>2, RollingUpIs
<1>2. CASE me.then = "split"
  <2>1. Refused(me) = Publishing
    BY <1>2 DEF Refused
  <2>2. plan = "wired" /\ Splits(me)
    BY <1>2 DEF Knows, Splits, Stage, InUpdate
  <2>3. Knows(Publishing)
    BY <2>2, PublishingIs DEF Knows, InUpdate, Stage
  <2> QED BY <1>2, <2>1, <2>2, <2>3, PublishingIs
<1>3. CASE me.then \notin {"report", "split"}
  <2>1. Refused(me) = Idle
    BY <1>3 DEF Refused
  <2> QED BY <1>3, <2>1, IdleIs
<1> QED BY <1>1, <1>2, <1>3

LEMMA Checks ==
  ASSUME Typed, Orderly, NEW w \in Worker, CheckTask(w)
  PROVE  Typed' /\ Orderly'
<1> DEFINE me == worker[w]
           now == status[me.task]
           may == /\ now = me.goal \/ TaskCanTransition(now, me.goal)
                  /\ ~(now = "pending" /\ me.goal = "in_progress" /\ Blocked(me.task))
<1>1. /\ me \in Local /\ Fits(me) /\ Knows(me) /\ me.pc = "checkTask" /\ InUpdate(me) /\ Aims(me)
  BY Here DEF Orderly, CheckTask, At, Fits, InUpdate
<1>2. UNCHANGED <<status, linked, blocks, plan, starts, faults, ended, silent, called, unwired,
                  premature>>
  BY DEF CheckTask, edges, bounds, history, excuses
<1>3. starts \in [Child -> Nat] /\ outcomes \in [Child -> Nat] /\ faults \in Nat
  BY DEF Typed, Stored
<1>4. CASE may
  <2>1. PICK r : r = [me EXCEPT !.pc = "writeTask"]
    OBVIOUS
  <2>2. /\ Become(w, r) /\ outcomes' = outcomes
        /\ hasty' = IF me.goal = "in_progress" /\ now = "pending" /\ plan \notin {"wired", "laid"}
                    THEN hasty \cup {me.task} ELSE hasty
    BY <1>4, <2>1 DEF CheckTask
  <2>3. /\ r \in Local /\ r.pc = "writeTask" /\ r.task = me.task /\ r.goal = me.goal
        /\ r.then = me.then /\ r.early = me.early
    BY <1>1, <2>1 DEF Local, PC
  <2>4. ASSUME me.goal = "in_progress", now = "pending"
        PROVE  SiblingsEnded(me.task) \/ me.task \in hasty'
    <3>1. me.task \in Child
      BY <1>1, <2>4 DEF Aims
    <3>2. CASE plan \in {"wired", "laid"}
      <4>1. Wired
        BY <3>2 DEF Orderly, Board, LaidOut
      <4> SUFFICES ASSUME NEW d \in DependsOn[me.task], <<d, me.task>> \notin unwired
                   PROVE  \E s \in TerminalTask : Did(d, s)
        BY DEF SiblingsEnded
      <4>2. d \in Child
        BY <3>1, ShapeAssumption
      <4>3. <<d, me.task>> \in blocks
        BY <3>1, <4>1, <4>2 DEF Wired, Wires
      <4>4. status[d] \in TerminalTask
        BY <1>4, <2>4, <4>3 DEF Blocked
      <4> QED BY <4>2, <4>4 DEF Orderly, Board, EndsNoted, Task
    <3>3. CASE plan \notin {"wired", "laid"}
      BY <2>2, <2>4, <3>3
    <3> QED BY <3>2, <3>3
  <2>5. me.task \in Task /\ hasty \subseteq hasty'
    BY <1>1, <2>2 DEF Aims, Task
  <2>6. now = status[me.task]
    OBVIOUS
  <2> HIDE DEF me, may, now
  <2>7. InUpdate(r) /\ Fits(r)
    BY <1>1, <2>3 DEF Fits, Aims, InUpdate
  <2>8. Splits(r) = Splits(me) /\ Pursues(r) = Pursues(me) /\ Stage(r) = Stage(me)
    BY <1>1, <2>3, <2>7 DEF Splits, Pursues, Stage
  <2>9. Knows(r)'
    <3>1. Splits(r) => plan' = Stage(r)
      BY <1>1, <1>2, <2>8 DEF Knows
    <3>2. r.task = Parent /\ r.then = "stop" =>
            /\ r.goal = "completed" /\ r.early = FALSE => AllDid' /\ Past'
            /\ r.goal = "failed" => SomeDidNot'
      BY <1>1, <1>2, <2>3 DEF Knows, AllDid, Past, SomeDidNot, Did
    <3>3. status'[r.task] # "none"
      BY <1>1, <1>2, <2>3 DEF Knows
    <3>4. r.goal = "in_progress" /\ status'[r.task] = "pending" =>
            SiblingsEnded(r.task)' \/ r.task \in hasty'
      BY <1>2, <2>3, <2>4, <2>6 DEF SiblingsEnded, Did
    <3> QED BY <2>3, <3>1, <3>2, <3>3, <3>4 DEF Knows
  <2>10. Created' /\ outcomes' \in [Child -> Nat] /\ starts' \in [Child -> Nat] /\ faults' \in Nat
    BY <1>2, <1>3, <2>2 DEF Orderly, Board, Created
  <2> QED BY <1>2, <2>2, <2>3, <2>5, <2>7, <2>8, <2>9, <2>10, MovesQuietly DEF me
<1>5. CASE ~may
  <2>1. PICK r : r = Refused(me)
    OBVIOUS
  <2>2. /\ Become(w, r)
        /\ outcomes' = IF me.then = "started" THEN [outcomes EXCEPT ![me.task] = @ + 1]
                       ELSE outcomes
        /\ hasty' = hasty
    BY <1>5, <2>1 DEF CheckTask
  <2>3. r \in Local /\ Fits(r) /\ Knows(r) /\ (Splits(r) => Splits(me))
    BY <1>1, <2>1, RefusedIs
  <2>4. me.then = "started" => status[me.task] # "none" /\ me.task \in Child
    BY <1>1 DEF Knows, Aims
  <2>5. ~(Due /\ Pursues(me))
    <3> SUFFICES ASSUME Due, Pursues(me) PROVE FALSE
      OBVIOUS
    <3>1. me.task = Parent /\ me.goal \in {"completed", "failed"}
      BY <1>1, NullAssumption DEF Pursues, Aims
    <3>2. status[Parent] \in {"in_progress", "split"}
      BY DEF Due, Typed, Stored, TerminalTask
    <3>3. TaskCanTransition(status[Parent], me.goal)
      BY <3>1, <3>2 DEF TaskCanTransition, TaskTransitions
    <3> QED BY <1>5, <3>1, <3>3
  <2> HIDE DEF me, may
  <2>6. outcomes' \in [Child -> Nat]
    BY <1>3, <2>2, <2>4
  <2>7. Created'
    BY <1>2, <1>3, <2>2, <2>4 DEF Orderly, Board, Created
  <2>8. Knows(r)'
    BY <1>2, <2>2, <2>3 DEF Knows, AllDid, Past, SomeDidNot, Did, SiblingsEnded
  <2> QED BY <1>2, <1>3, <2>2, <2>3, <2>5, <2>6, <2>7, <2>8, MovesQuietly DEF me
<1> QED BY <1>4, <1>5

(* What a write does to the board, and whom it leaves to go on.            *)
LEMMA WritesTask ==
  ASSUME Typed, Orderly, NEW w \in Worker, WriteTask(w)
  PROVE  Typed' /\ Orderly'
<1> DEFINE me == worker[w]
           t == me.task
<1>1. /\ me \in Local /\ Fits(me) /\ Knows(me) /\ me.pc = "writeTask" /\ InUpdate(me) /\ Aims(me)
  BY Here DEF Orderly, WriteTask, At, Fits, InUpdate
<1>2. /\ status' = [status EXCEPT ![t] = me.goal]
      /\ ended' = IF me.goal \in TerminalTask THEN ended \cup {<<t, me.goal>>} ELSE ended
      /\ silent' = CASE me.then = "silent" -> silent \cup {t}
                     [] me.then \in {"report", "cancel"} -> {}
                     [] me.then = "split" /\ status[t] \in TerminalTask -> silent \cup {t}
                     [] OTHER -> silent
      /\ called' = (called \/ (me.then = "silent" /\ t = Parent))
      /\ premature' = IF t = Parent THEN me.early ELSE premature
      /\ IF me.then = "retry" THEN Dispatch(t) ELSE UNCHANGED <<starts, sent>>
      /\ outcomes' = IF me.then = "started" THEN [outcomes EXCEPT ![t] = @ + 1] ELSE outcomes
      /\ UNCHANGED <<linked, blocks, plan, faults, hasty, unwired>>
  BY DEF WriteTask, edges, bounds
<1>3. PICK r : r = IF me.then = "cancel" THEN RollingUp ELSE Refused(me)
  OBVIOUS
<1>4. Become(w, r)
  BY <1>3 DEF WriteTask
<1>5. /\ Stored /\ status \in [Task -> TaskStatus \cup {"none"}] /\ starts \in [Child -> Nat]
      /\ outcomes \in [Child -> Nat] /\ Created /\ LaidOut /\ EndsNoted /\ linked \subseteq Child
  BY DEF Typed, Stored, Orderly, Board
<1>6. t \in Task /\ me.goal \in TaskStatus /\ me.goal # "pending" /\ status[t] # "none"
  BY <1>1 DEF Aims, Task, Local, Knows
<1>7. me.then \in {"retry", "started"} => t \in Child
  BY <1>1 DEF Aims
<1>8. me.then = "split" => t = Parent /\ me.goal = "split"
  BY <1>1 DEF Aims
<1>9. starts' \in [Child -> Nat] /\ outcomes' \in [Child -> Nat]
  <2>1. CASE me.then = "retry"
    BY <1>2, <1>5, <1>7, <2>1, DispatchIs
  <2>2. CASE me.then # "retry"
    BY <1>2, <1>5, <1>7, <2>2
  <2> QED BY <2>1, <2>2
<1>10. t = Parent => /\ me.then \in {"stop", "silent", "split"}
                     /\ me.goal \in {"completed", "failed", "cancelled", "split"}
                     /\ me.goal = "completed" /\ me.early = FALSE => AllDid /\ Past
                     /\ me.goal = "failed" => SomeDidNot \/ me.then = "silent"
  BY <1>1, NullAssumption DEF Aims, Knows
<1>11. \/ me.then \in {"started", "retry", "stop"} /\ t \in Child
            /\ me.goal \in {"in_progress", "awaiting"}
       \/ me.then = "stop" /\ t = Parent /\ me.goal \in {"completed", "failed"}
       \/ me.then \in {"report", "cancel"} \/ me.then = "silent" \/ me.then = "split"
  BY <1>1 DEF Aims
<1>12. /\ r \in Local /\ Fits(r) /\ Knows(r) /\ (Splits(r) => Splits(me))
       /\ me.then \in {"report", "cancel"} => Pursues(r)
  <2>1. CASE me.then = "cancel"
    <3>1. Knows(RollingUp)
      BY RollingUpIs DEF Knows, InUpdate
    <3> QED BY <1>3, <2>1, <3>1, RollingUpIs
  <2>2. CASE me.then # "cancel"
    BY <1>1, <1>3, <2>2, RefusedIs
  <2> QED BY <2>1, <2>2
<1>13. Pursues(me) => t = Parent /\ me.then = "stop"
  BY <1>1 DEF Pursues
<1>14. me.early \in BOOLEAN
  BY <1>1 DEF Local
<1> HIDE DEF me, t
<1>15. status'[t] = me.goal /\ \A u \in Task \ {t} : status'[u] = status[u]
  BY <1>2, <1>5, <1>6
<1>16. status'[t] # "none"
  BY <1>6, <1>15 DEF TaskStatus
<1>17. Grows
  <2>1. \A u \in Task : status[u] # "none" => status'[u] # "none"
    BY <1>15, <1>16
  <2>2. \A c \in Child : status'[c] = "pending" => status[c] = "pending"
    BY <1>6, <1>15 DEF Task
  <2> QED BY <1>2, <2>1, <2>2 DEF Grows, Past
<1>18. \A c \in Child : status'[c] = "none" <=> status[c] = "none"
  BY <1>6, <1>15, <1>16 DEF Task
<1>19. Steady
  BY <1>2, <1>18 DEF Steady
<1>20. Stored'
  <2>1. status' \in [Task -> TaskStatus \cup {"none"}]
    BY <1>2, <1>5, <1>6
  <2>2. status'[Parent] \in {"in_progress", "split", "completed", "failed", "cancelled"}
    BY <1>5, <1>10, <1>15 DEF Stored, Task
  <2> QED BY <1>2, <1>5, <1>9, <2>1, <2>2 DEF Stored
<1>21. Created'
  <2> SUFFICES ASSUME NEW c \in Child, status'[c] = "none"
               PROVE  starts'[c] = 0 /\ outcomes'[c] = 0 /\ c \notin linked'
    BY DEF Created
  <2>1. status[c] = "none" /\ c # t
    BY <1>6, <1>18
  <2>2. starts'[c] = starts[c]
    BY <1>2, <1>5, <1>7, <2>1, DispatchIs
  <2>3. outcomes'[c] = outcomes[c]
    BY <1>2, <1>5, <2>1
  <2> QED BY <1>2, <1>5, <2>1, <2>2, <2>3 DEF Created
<1>22. LaidOut'
  BY <1>2, <1>5, <1>18 DEF LaidOut, Wired, Whole, Made
<1>23. EndsNoted'
  BY <1>2, <1>5, <1>15 DEF EndsNoted, Did
<1>24. OutcomeHasCause' /\ InTime'
  <2>1. CASE t # Parent
    BY <1>2, <1>15, <1>17, <2>1, OutcomeStays DEF Task
  <2>2. CASE t = Parent
    <3>1. status'[Parent] = me.goal /\ premature' = me.early
      BY <1>2, <1>15, <2>2
    <3>2. ASSUME me.goal = "completed", ~premature'
          PROVE  /\ \A c \in linked' : <<c, "completed">> \in ended'
                 /\ faults' = 0 => linked' = Child
                 /\ Past'
      <4>1. AllDid /\ Past
        BY <1>10, <1>14, <2>2, <3>1, <3>2
      <4>2. faults = 0 => Child \subseteq linked
        BY <1>5, <4>1 DEF Past, LaidOut, Whole, Stored
      <4> QED BY <1>2, <1>5, <4>1, <4>2 DEF AllDid, Did, Past
    <3>3. me.goal = "failed" =>
            called' \/ \E c \in Child : <<c, "failed">> \in ended' \/ <<c, "cancelled">> \in ended'
      BY <1>2, <1>10, <2>2 DEF SomeDidNot, Did
    <3> QED BY <3>1, <3>2, <3>3 DEF OutcomeHasCause, InTime
  <2> QED BY <2>1, <2>2
<1>25. Due' => Pursues(r) \/ (Due /\ ~Pursues(me))
  <2> SUFFICES ASSUME Due' PROVE Pursues(r) \/ (Due /\ ~Pursues(me))
    OBVIOUS
  <2>1. CASE me.then \in {"report", "cancel"}
    BY <1>12, <2>1
  <2>2. CASE me.then = "silent"
    BY <1>2, <2>2 DEF Due
  <2>3. CASE me.then = "split"
    <3>1. status[Parent] \notin TerminalTask /\ silent' = silent
      BY <1>2, <1>8, <2>3 DEF Due
    <3>2. linked \subseteq Task \ {t}
      BY <1>5, <1>8, <2>3, NullAssumption DEF Task
    <3>3. Due
      BY <1>2, <1>15, <3>1, <3>2 DEF Due
    <3> QED BY <1>13, <2>3, <3>3
  <2>4. CASE me.then = "stop" /\ t = Parent /\ me.goal \in {"completed", "failed"}
    BY <1>15, <2>4 DEF Due, TerminalTask
  <2>5. CASE me.then \in {"started", "retry", "stop"} /\ t \in Child
          /\ me.goal \in {"in_progress", "awaiting"}
    <3>1. t \notin linked
      BY <1>2, <1>15, <2>5 DEF Due, TerminalTask
    <3>2. silent' = silent
      BY <1>2, <2>5
    <3>3. Parent \in Task /\ t # Parent /\ linked \subseteq Task \ {t}
      BY <1>5, <2>5, <3>1, NullAssumption DEF Task
    <3>4. Due
      BY <1>2, <1>15, <3>2, <3>3 DEF Due
    <3> QED BY <1>13, <3>3, <3>4
  <2> QED BY <1>11, <2>1, <2>2, <2>3, <2>4, <2>5
<1>26. Knows(r)'
  BY <1>12, <1>17, <1>19, KnowsStays
<1>27. plan' = "asked" => plan = "asked" /\ ~Splits(r)
  BY <1>2, <1>12 DEF Orderly, Single, me
<1> QED
  BY <1>4, <1>12, <1>17, <1>19, <1>20, <1>21, <1>22, <1>23, <1>24, <1>25, <1>26, <1>27, Moves
     DEF Board, me

(* The roll-up: the children that are linked, one by one, and the parent.  *)
LEMMA RollsUp ==
  ASSUME Typed, Orderly, NEW w \in Worker, ListChildren(w) \/ ReadChild(w) \/ ReadParent(w)
  PROVE  Typed' /\ Orderly'
<1> DEFINE me == worker[w]
<1>1. /\ me \in Local /\ Fits(me) /\ Knows(me)
           /\ me.pc \in {"listChildren", "readChild", "readParent"}
      /\ linked \subseteq Child /\ EndsNoted /\ Created /\ LaidOut
  BY Here DEF Orderly, ListChildren, ReadChild, ReadParent, At, Typed, Stored, Board
<1>2. UNCHANGED <<status, linked, blocks, plan, ended, silent, called, unwired, premature,
        hasty, starts, outcomes, faults>>
  BY DEF ListChildren, ReadChild, ReadParent, edges, agents, bounds, history, excuses
<1>3. CASE ListChildren(w)
  <2>1. CASE linked = {}
    BY <1>2, <1>3, <2>1, GoesIdle DEF ListChildren, Due
  <2>2. CASE linked # {}
    <3>1. PICK r : r = [me EXCEPT !.pc = "readChild", !.left = linked, !.early = (plan = "open")]
      OBVIOUS
    <3>2. me.bad = FALSE
      BY <1>3 DEF ListChildren, At, Orderly, Typed, Fits
    <3>3. /\ r \in Local /\ r.pc = "readChild" /\ r.left = linked /\ r.bad = FALSE
          /\ r.early = (plan = "open")
      BY <1>1, <3>1, <3>2 DEF Local, PC
    <3>4. Become(w, r)
      BY <1>3, <2>2, <3>1 DEF ListChildren
    <3>5. plan # "asked"
      BY <1>1, <2>2 DEF Created, LaidOut
    <3>6. Fits(r) /\ Knows(r) /\ ~Splits(r) /\ Pursues(r)
      BY <1>1, <2>2, <3>3, <3>5 DEF Fits, Knows, Past, Splits, Pursues, InUpdate
    <3> QED BY <1>2, <3>3, <3>4, <3>6, MovesAlone
  <2> QED BY <2>1, <2>2
<1>4. CASE ReadChild(w)
  <2>1. PICK c \in me.left :
          Become(w, IF StillOpen(status[c]) THEN Idle
                    ELSE [me EXCEPT !.left = @ \ {c}, !.bad = @ \/ Bad(status[c]),
                                    !.pc = IF me.left = {c} THEN "readParent" ELSE "readChild"])
    BY <1>4 DEF ReadChild
  <2>2. /\ me.pc = "readChild" /\ me.left \subseteq linked /\ c \in Child /\ c \in linked
        /\ me.bad \in BOOLEAN
        /\ me.early = FALSE =>
             Past /\ (me.bad = FALSE => \A u \in linked \ me.left : Did(u, "completed"))
        /\ me.bad = TRUE => SomeDidNot
    BY <1>1, <1>4 DEF ReadChild, At, Knows, Local
  <2>3. CASE StillOpen(status[c])
    <3>1. ~Due
      BY <2>2, <2>3 DEF StillOpen, Due
    <3> QED BY <1>2, <2>1, <2>3, <3>1, GoesIdle
  <2>4. CASE ~StillOpen(status[c])
    <3>1. PICK r : r = [me EXCEPT !.left = @ \ {c}, !.bad = @ \/ Bad(status[c]),
                                  !.pc = IF me.left = {c} THEN "readParent" ELSE "readChild"]
      OBVIOUS
    <3>2. /\ r \in Local /\ r.pc = (IF me.left = {c} THEN "readParent" ELSE "readChild")
          /\ r.left = me.left \ {c} /\ r.bad = (me.bad \/ Bad(status[c])) /\ r.early = me.early
      BY <1>1, <2>2, <3>1 DEF Local, PC, Bad
    <3>3. Become(w, r)
      BY <2>1, <2>4, <3>1
    <3>4. Did(c, status[c]) /\ status[c] \in {"completed", "failed", "cancelled"}
      <4>1. c \in Task /\ status[c] \in TerminalTask
        BY <2>2, <2>4 DEF Task, StillOpen
      <4> QED BY <1>1, <4>1 DEF EndsNoted, TerminalTask
    <3> HIDE DEF me
    <3>5. r.early = FALSE =>
            Past /\ (r.bad = FALSE => \A u \in linked \ r.left : Did(u, "completed"))
      BY <2>2, <3>2, <3>4 DEF Bad
    <3>6. r.bad = TRUE => SomeDidNot
      BY <2>2, <3>2, <3>4 DEF Bad, SomeDidNot
    <3>7. r.left \subseteq linked /\ (r.pc = "readChild" => r.left # {}) /\ (r.pc = "readParent"
            => r.left = {})
          /\ r.pc \in {"readChild", "readParent"}
      BY <2>2, <3>2
    <3>8. Fits(r)
      BY <1>1, <3>7 DEF Fits, InUpdate
    <3>9. Knows(r) /\ ~Splits(r) /\ Pursues(r)
      BY <3>5, <3>6, <3>7 DEF Knows, Splits, Pursues, InUpdate
    <3> QED BY <1>2, <3>2, <3>3, <3>8, <3>9, MovesAlone DEF me
  <2> QED BY <2>3, <2>4
<1>5. CASE ReadParent(w)
  <2> DEFINE goal == IF me.bad THEN "failed" ELSE "completed"
  <2>1. /\ me.pc = "readParent" /\ me.left = {} /\ me.bad \in BOOLEAN /\ me.early \in BOOLEAN
        /\ me.early = FALSE =>
             Past /\ (me.bad = FALSE => \A u \in linked \ me.left : Did(u, "completed"))
        /\ me.bad = TRUE => SomeDidNot
    BY <1>1, <1>5 DEF ReadParent, At, Knows, Local, Fits
  <2>2. CASE status[Parent] \in {"completed", "failed"}
    BY <1>2, <1>5, <2>2, GoesIdle DEF ReadParent, Due, TerminalTask
  <2>3. CASE status[Parent] \notin {"completed", "failed"}
    <3>1. PICK u : u = Updating(Parent, goal, "stop")
      OBVIOUS
    <3>2. PICK r : r = [u EXCEPT !.early = me.early]
      OBVIOUS
    <3>3. Become(w, r)
      BY <1>5, <2>3, <3>1, <3>2 DEF ReadParent
    <3>4. /\ goal \in {"completed", "failed"}
          /\ goal = "completed" /\ me.early = FALSE => AllDid /\ Past
          /\ goal = "failed" => SomeDidNot
      BY <2>1 DEF AllDid
    <3>5. status[Parent] # "none"
      BY DEF Typed, Stored
    <3> HIDE DEF goal, me
    <3>6. u \in Local /\ u.pc = "checkTask" /\ u.task = Parent /\ u.goal = goal /\ u.then = "stop"
      BY <3>1, <3>4, UpdatingIs DEF Task, TaskStatus, Then
    <3>7. /\ r \in Local /\ r.pc = "checkTask" /\ r.task = Parent /\ r.goal = goal
               /\ r.then = "stop" /\ r.early = me.early
          /\ InUpdate(r)
      BY <2>1, <3>2, <3>6 DEF Local, InUpdate
    <3>8. Fits(r)
      BY <3>4, <3>7 DEF Fits, Aims
    <3>9. Knows(r) /\ ~Splits(r) /\ Pursues(r)
      BY <3>4, <3>5, <3>7 DEF Knows, Splits, Pursues
    <3> QED BY <1>2, <3>3, <3>7, <3>8, <3>9, MovesAlone
  <2> QED BY <2>2, <2>3
<1> QED BY <1>3, <1>4, <1>5

LEMMA Stutters ==
  ASSUME Typed, Orderly, UNCHANGED splitVars
  PROVE  Typed' /\ Orderly'
<1>1. UNCHANGED <<status, linked, blocks, plan, starts, outcomes, worker, calls, faults,
                  sent, ended, silent, called, hasty, unwired, premature>>
  BY DEF splitVars, excuses
<1>2. Typed' /\ Board' /\ Pursued' /\ Single'
  BY <1>1 DEF Typed, Stored, Orderly, Board, Created, LaidOut, EndsNoted, InTime, Past,
       OutcomeHasCause, Pursued, Due, Single, Did, Whole, Made, Wired
<1>3. ASSUME NEW v \in Worker PROVE Knows(worker[v])'
  BY <1>1 DEF Orderly, Knows, Did, Past, AllDid, SomeDidNot, SiblingsEnded
<1> QED BY <1>2, <1>3 DEF Orderly

LEMMA Stays ==
  ASSUME Typed, Orderly, [SplitNext]_splitVars
  PROVE  Typed' /\ Orderly'
<1>1. ASSUME NEW w \in Worker, Step(w) PROVE Typed' /\ Orderly'
  BY <1>1, Creates, Linking, Wiring1, Publishes, Checks, WritesTask, RollsUp DEF Step
<1> QED
  BY <1>1, GivesUp, Linking, Wiring1, TakesSplit, TakesStarted, TakesOutcome, TakesDirection,
     TakesEnd, Assigns, Stutters DEF SplitNext

LEMMA Begins ==
  ASSUME SplitInit
  PROVE  Typed /\ Orderly
<1>1. /\ status = [t \in Task |-> IF t = Parent THEN "in_progress" ELSE "none"]
      /\ linked = {} /\ plan = "asked" /\ worker = [w \in Worker |-> Idle] /\ faults = 0
      /\ starts = [c \in Child |-> 0] /\ outcomes = [c \in Child |-> 0] 
  BY DEF SplitInit
<1>2. Parent \in Task /\ status[Parent] = "in_progress" /\ \A c \in Child : status[c] = "none"
  BY <1>1, NullAssumption DEF Task
<1>3. Typed
  BY <1>1, <1>2, IdleIs DEF Typed, Stored, TaskStatus
<1>4. \A t \in Task : status[t] \notin TerminalTask
  BY <1>1 DEF TerminalTask
<1>5. Created /\ LaidOut /\ EndsNoted /\ InTime /\ OutcomeHasCause
  <2>1. Created
    BY <1>1 DEF Created
  <2>2. LaidOut
    BY <1>1, <1>2 DEF LaidOut
  <2>3. EndsNoted /\ InTime /\ OutcomeHasCause
    BY <1>2, <1>4 DEF EndsNoted, InTime, OutcomeHasCause
  <2> QED BY <2>1, <2>2, <2>3
<1>6. Pursued /\ Single
  BY <1>1, IdleIs DEF Pursued, Due, Single
<1> QED BY <1>1, <1>3, <1>5, <1>6, IdleIs DEF Orderly, Board

LEMMA Always == SplitSpec => [](Typed /\ Orderly)
<1>1. SplitInit => Typed /\ Orderly
  BY Begins
<1>2. Typed /\ Orderly /\ [SplitNext]_splitVars => (Typed /\ Orderly)'
  BY Stays
<1> QED BY <1>1, <1>2, PTL DEF SplitSpec

(* The parent completes only when every linked child did and the plan was  *)
(* laid out - unless the roll-up listed the children while some were still *)
(* to be created - and fails only for a child or a call                    *)
(* (maybeCompleteSplitParent).                                             *)
THEOREM OutcomeCaused == SplitSpec => []OutcomeHasCause
<1>1. Orderly => OutcomeHasCause
  BY DEF Orderly, Board
<1> QED BY <1>1, Always, PTL

(* A plan whose linked children are all terminal settles its parent: of    *)
(* two children that end at once, one roll-up sees both.                   *)
THEOREM RollUpSeen == SplitSpec => []RollUpNotMissed
<1>1. Typed /\ Orderly => RollUpNotMissed
  <2> SUFFICES ASSUME Typed, Orderly, Quiescent, linked # {},
                      \A c \in linked : status[c] \in TerminalTask, silent = {},
                      status[Parent] \notin TerminalTask
               PROVE  FALSE
    BY DEF RollUpNotMissed
  <2>1. PICK w \in Worker : Pursues(worker[w])
    BY DEF Orderly, Pursued, Due
  <2> QED BY <2>1 DEF Quiescent, At, Pursues, InUpdate
<1> QED BY <1>1, Always, PTL

(* A child starts only after the siblings it depends on have ended, even   *)
(* one an operator assigns, but for the edges the store refused and for a  *)
(* start that was checked before the edges were written                    *)
(* (handleTaskPlanSplit, findActiveBlockers).                              *)
THEOREM StartsInOrder == SplitSpec => StartedAfterSiblings
<1> DEFINE Orders == \A c \in Child \ hasty :
       status[c] = "pending" /\ status'[c] = "in_progress" =>
         \A d \in DependsOn[c] :
           <<d, c>> \in unwired \/ \E s \in TerminalTask : <<d, s>> \in ended
<1>1. ASSUME Typed, Orderly, [SplitNext]_splitVars PROVE Orders
  <2> SUFFICES ASSUME NEW c \in Child \ hasty, status[c] = "pending", status'[c] = "in_progress"
               PROVE  SiblingsEnded(c)
    BY DEF SiblingsEnded, Did
  <2>1. CASE \E w \in Worker : WriteTask(w)
    <3>1. PICK w \in Worker : WriteTask(w)
      BY <2>1
    <3>2. /\ worker[w].pc = "writeTask" /\ Knows(worker[w])
          /\ status' = [status EXCEPT ![worker[w].task] = worker[w].goal]
      BY <1>1, <3>1 DEF WriteTask, At, Orderly
    <3>3. status \in [Task -> TaskStatus \cup {"none"}] /\ c \in Task
      BY <1>1 DEF Typed, Stored, Task
    <3>4. c = worker[w].task /\ worker[w].goal = "in_progress"
      BY <3>2, <3>3
    <3> QED BY <3>2, <3>4 DEF Knows
  <2>2. CASE \E w \in Worker : CreateChild(w)
    <3>1. PICK w \in Worker, u \in Child : status' = [status EXCEPT ![u] = "pending"]
      BY <1>1, <2>2 DEF CreateChild, At, Typed, Fits
    <3> QED BY <1>1, <3>1 DEF Typed, Stored, Task
  <2>3. ASSUME ~\E w \in Worker : WriteTask(w), ~\E w \in Worker : CreateChild(w)
        PROVE  status' = status
    BY <1>1, <2>3 DEF SplitNext, Step, splitVars, CreateRefused, LinkChild, LinkRefused, Wire,
         WireRefused, PublishChild, CheckTask, ListChildren, ReadChild, ReadParent, ReceiveSplit,
         ReceiveStarted, ReceiveOutcome, ReceiveDirection, EndSilently, AssignTask
  <2> QED BY <2>1, <2>2, <2>3
<1>2. Typed /\ Orderly /\ [SplitNext]_splitVars => [Orders]_splitVars
  BY <1>1
<1> QED BY <1>2, Always, PTL DEF SplitSpec, StartedAfterSiblings
=============================================================================

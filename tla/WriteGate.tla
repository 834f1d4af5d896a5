------------------------------ MODULE WriteGate ------------------------------
(***************************************************************************)
(* writeTracker (internal/server/event_writes.go): an AI task.completed    *)
(* that lists the files its run emitted is held until CodeValdGit has      *)
(* confirmed every one of them with git.file.written, or a timeout.        *)
(*                                                                         *)
(* WaitForWrites, OnFileWritten and the timer function each hold t.mu for  *)
(* their whole body, so each is one action.  What stays concurrent is the  *)
(* timer, which can expire before fireLocked stops it and then queue for   *)
(* the mutex, and the callbacks, each in a goroutine of its own.           *)
(***************************************************************************)
EXTENDS Naturals

CONSTANTS
  Run,     \* AgentRun ids
  Path,    \* non-empty file paths
  EmptyPath, \* the empty string, which a payload may list as a path
  Writes,  \* the <<run, path>> confirmations CodeValdGit may ever send
  Gate,    \* the writeWait objects: one per WaitForWrites call
  NoGate,  \* a run without an active wait
  NoRun    \* a gate nobody opened yet

ASSUME WritesAssumption == Writes \subseteq Run \X Path
ASSUME EmptyPathAssumption == EmptyPath \notin Path
ASSUME NoGateAssumption == NoGate \notin Gate
ASSUME NoRunAssumption == NoRun \notin Run

VARIABLES
  owner,      \* the run a gate was opened for
  expected,   \* the non-empty paths it was opened with
  remaining,  \* wait.remaining: those still awaiting confirmation
  waits,      \* t.waits: the active gate of a run
  early,      \* t.early: paths confirmed while the run had no active gate
  fired,      \* wait.fired
  timer,      \* the AfterFunc timer of a gate
  spawned,    \* how often "go onDone()" was executed for a gate
  ran,        \* how many of those goroutines have run
  cause,      \* why the gate was released
  wrote,      \* every path CodeValdGit confirmed for a run so far
  lost        \* gates whose callback a process restart dropped

vars == <<owner, expected, remaining, waits, early, fired, timer, spawned, ran,
          cause, wrote, lost>>

TimerState == {"off", "armed", "expired", "stopped"}
Cause == {"none", "confirmed", "timeout", "duplicate"}

TypeOK ==
  /\ owner \in [Gate -> Run \cup {NoRun}]
  /\ expected \in [Gate -> SUBSET Path]
  /\ remaining \in [Gate -> SUBSET Path]
  /\ waits \in [Run -> Gate \cup {NoGate}]
  /\ early \in [Run -> SUBSET Path]
  /\ fired \in [Gate -> BOOLEAN]
  /\ timer \in [Gate -> TimerState]
  /\ spawned \in [Gate -> Nat]
  /\ ran \in [Gate -> Nat]
  /\ cause \in [Gate -> Cause]
  /\ wrote \in [Run -> SUBSET Path]
  /\ lost \in SUBSET Gate

Init ==
  /\ owner = [g \in Gate |-> NoRun]
  /\ expected = [g \in Gate |-> {}]
  /\ remaining = [g \in Gate |-> {}]
  /\ waits = [r \in Run |-> NoGate]
  /\ early = [r \in Run |-> {}]
  /\ fired = [g \in Gate |-> FALSE]
  /\ timer = [g \in Gate |-> "off"]
  /\ spawned = [g \in Gate |-> 0]
  /\ ran = [g \in Gate |-> 0]
  /\ cause = [g \in Gate |-> "none"]
  /\ wrote = [r \in Run |-> {}]
  /\ lost = {}

(* Time stops an armed timer for good, but not one that already expired.   *)
StopTimer(t) == IF t = "armed" THEN "stopped" ELSE t

(* The wait WaitForWrites finds active for r: a singleton, or nothing.     *)
Active(r) == {g \in Gate : waits[r] = g}

(* fireLocked on the gates of G (at most one): what becomes of each field. *)
Fired(G) == [g \in Gate |-> fired[g] \/ g \in G]
Stopped(G) == [g \in Gate |-> IF g \in G THEN StopTimer(timer[g]) ELSE timer[g]]
Spawn(G) == [g \in Gate |-> IF g \in G THEN spawned[g] + 1 ELSE spawned[g]]
Because(G, why) == [g \in Gate |-> IF g \in G THEN why ELSE cause[g]]

(* The waits fireLocked really releases: it returns early on a fired one.  *)
Unfired(G) == {g \in G : ~fired[g]}

(* Empty strings among the listed paths are not waited for.                *)
(* Mutant: they are.                                                       *)
EveryPath(P) == P
RealPaths(P) == P \ {EmptyPath}

(* Mutant: an earlier wait of the run is overwritten and never released.   *)
OverwriteWait(g, r, P) ==
  LET rest == RealPaths(P) \ early[r] IN
  /\ owner[g] = NoRun
  /\ owner' = [owner EXCEPT ![g] = r]
  /\ expected' = [expected EXCEPT ![g] = RealPaths(P)]
  /\ remaining' = [remaining EXCEPT ![g] = rest]
  /\ early' = [early EXCEPT ![r] = {}]
  /\ IF rest = {}
     THEN /\ spawned' = Spawn({g})
          /\ cause' = Because({g}, "confirmed")
          /\ UNCHANGED <<waits, timer>>
     ELSE /\ waits' = [waits EXCEPT ![r] = g]
          /\ timer' = [timer EXCEPT ![g] = "armed"]
          /\ UNCHANGED <<spawned, cause>>
  /\ UNCHANGED <<fired, ran, wrote, lost>>

(* WaitForWrites(r, P), P the paths the payload lists.  A wait still       *)
(* active for r is released first; the early buffer of r is used up.       *)
WaitForWrites(g, r, P) ==
  LET prior == Unfired(Active(r))
      rest  == RealPaths(P) \ early[r]
  IN
  /\ owner[g] = NoRun
  /\ owner' = [owner EXCEPT ![g] = r]
  /\ expected' = [expected EXCEPT ![g] = RealPaths(P)]
  /\ remaining' = [remaining EXCEPT ![g] = rest]
  /\ early' = [early EXCEPT ![r] = {}]
  /\ IF rest = {}
     THEN /\ waits' = [waits EXCEPT ![r] = NoGate]
          /\ spawned' = Spawn(prior \cup {g})
          /\ timer' = Stopped(prior)
          /\ cause' = [Because(prior, "duplicate") EXCEPT ![g] = "confirmed"]
     ELSE /\ waits' = [waits EXCEPT ![r] = g]
          /\ spawned' = Spawn(prior)
          /\ timer' = [Stopped(prior) EXCEPT ![g] = "armed"]
          /\ cause' = Because(prior, "duplicate")
  /\ fired' = Fired(prior)
  /\ UNCHANGED <<ran, wrote, lost>>

(* Mutant: the first confirmation opens the gate.                          *)
ConfirmAnyWrite(r, p) ==
  LET g == waits[r] IN
  /\ waits[r] \in Gate
  /\ wrote' = [wrote EXCEPT ![r] = @ \cup {p}]
  /\ remaining' = [remaining EXCEPT ![g] = @ \ {p}]
  /\ waits' = [waits EXCEPT ![r] = NoGate]
  /\ fired' = Fired({g})
  /\ timer' = Stopped({g})
  /\ spawned' = Spawn({g})
  /\ cause' = Because({g}, "confirmed")
  /\ UNCHANGED <<owner, expected, early, ran, lost>>

(* OnFileWritten(r, p) with a wait active: confirm p and release when it   *)
(* was the last one.                                                       *)
ConfirmWrite(r, p) ==
  LET g    == waits[r]
      left == remaining[g] \ {p}
      done == IF left = {} THEN {g} ELSE {}
  IN
  /\ waits[r] \in Gate
  /\ ~fired[g]
  /\ wrote' = [wrote EXCEPT ![r] = @ \cup {p}]
  /\ remaining' = [remaining EXCEPT ![g] = left]
  /\ waits' = IF done # {} THEN [waits EXCEPT ![r] = NoGate] ELSE waits
  /\ fired' = Fired(done)
  /\ timer' = Stopped(done)
  /\ spawned' = Spawn(done)
  /\ cause' = Because(done, "confirmed")
  /\ UNCHANGED <<owner, expected, early, ran, lost>>

(* OnFileWritten(r, p) with no wait active: buffered, whether the wait is  *)
(* still to come or has been released already.                             *)
BufferWrite(r, p) ==
  /\ waits[r] = NoGate
  /\ wrote' = [wrote EXCEPT ![r] = @ \cup {p}]
  /\ early' = [early EXCEPT ![r] = @ \cup {p}]
  /\ UNCHANGED <<owner, expected, remaining, waits, fired, timer, spawned, ran,
                 cause, lost>>

(* The 30 s elapse: the timer's goroutine starts and queues for t.mu.      *)
TimerExpire(g) ==
  /\ timer[g] = "armed"
  /\ timer' = [timer EXCEPT ![g] = "expired"]
  /\ UNCHANGED <<owner, expected, remaining, waits, early, fired, spawned, ran,
                 cause, wrote, lost>>

(* Mutant: the timer function releases without looking again at the gate.  *)
TimerFuncUnchecked(g) ==
  /\ timer[g] = "expired"
  /\ timer' = [timer EXCEPT ![g] = "stopped"]
  /\ waits' = [waits EXCEPT ![owner[g]] = NoGate]
  /\ fired' = Fired({g})
  /\ spawned' = Spawn({g})
  /\ cause' = Because({g}, "timeout")
  /\ UNCHANGED <<owner, expected, remaining, early, ran, wrote, lost>>

(* Mutant: the timeout is only logged.                                     *)
TimerFuncLogsOnly(g) ==
  /\ timer[g] = "expired"
  /\ timer' = [timer EXCEPT ![g] = "stopped"]
  /\ UNCHANGED <<owner, expected, remaining, waits, early, fired, spawned, ran,
                 cause, wrote, lost>>

(* The timer function has the mutex: it fires the gate only when the gate  *)
(* is still its run's active, unfired wait.                                *)
TimerFunc(g) ==
  LET due == IF waits[owner[g]] = g THEN Unfired({g}) ELSE {} IN
  /\ timer[g] = "expired"
  /\ timer' = [timer EXCEPT ![g] = "stopped"]
  /\ waits' = IF due # {} THEN [waits EXCEPT ![owner[g]] = NoGate] ELSE waits
  /\ fired' = Fired(due)
  /\ spawned' = Spawn(due)
  /\ cause' = Because(due, "timeout")
  /\ UNCHANGED <<owner, expected, remaining, early, ran, wrote, lost>>

(* The goroutine that runs onDone, applyAITaskStatus of the held payload.  *)
Callback(g) ==
  /\ ran[g] < spawned[g]
  /\ g \notin lost
  /\ ran' = [ran EXCEPT ![g] = @ + 1]
  /\ UNCHANGED <<owner, expected, remaining, waits, early, fired, timer, spawned,
                 cause, wrote, lost>>

(* The process dies: the tracker and its goroutines live in memory only.   *)
Restart ==
  /\ lost' = lost \cup {g \in Gate : owner[g] # NoRun /\ ran[g] = 0}
  /\ waits' = [r \in Run |-> NoGate]
  /\ early' = [r \in Run |-> {}]
  /\ timer' = [g \in Gate |-> IF timer[g] = "off" THEN "off" ELSE "stopped"]
  /\ UNCHANGED <<owner, expected, remaining, fired, spawned, ran, cause, wrote>>

(* handleAITaskStatus only calls with a non-empty list. *)
ListedPaths == (SUBSET (Path \cup {EmptyPath})) \ {{}}

Next ==
  \/ \E g \in Gate, r \in Run, P \in ListedPaths : WaitForWrites(g, r, P)
  \/ \E w \in Writes : ConfirmWrite(w[1], w[2])
  \/ \E w \in Writes : BufferWrite(w[1], w[2])
  \/ \E g \in Gate : TimerExpire(g)
  \/ \E g \in Gate : TimerFunc(g)
  \/ \E g \in Gate : Callback(g)
  \/ Restart

(* Go's runtime fires timers and schedules runnable goroutines; nobody     *)
(* promises that git confirms a write or that a run completes.             *)
Fairness ==
  \A g \in Gate : /\ WF_vars(TimerExpire(g))
                  /\ WF_vars(TimerFunc(g))
                  /\ WF_vars(Callback(g))

Spec == Init /\ [][Next]_vars /\ Fairness

-----------------------------------------------------------------------------
(* Correctness.                                                            *)

(* The callback of a gate never runs twice, whichever of the confirmation, *)
(* the timeout and a duplicate completion race for it (the "exactly once"  *)
(* of WaitForWrites's comment, safety half).                               *)
RunsAtMostOnce == \A g \in Gate : spawned[g] <= 1 /\ ran[g] <= spawned[g]

(* A completion let through as "all writes confirmed" has every one of its *)
(* files confirmed for that very run: no path of another run, of an        *)
(* earlier gate's bookkeeping or of the early buffer opens it too soon.    *)
ReleasedWithAllWrites ==
  \A g \in Gate : cause[g] = "confirmed" => expected[g] \subseteq wrote[owner[g]]

(* No held completion is stranded: a gate that was opened and not released *)
(* is the one its run's map entry points to, with a timer to free it.      *)
HeldGateHasTimer ==
  \A g \in Gate :
    (owner[g] # NoRun /\ spawned[g] = 0 /\ g \notin lost)
      => waits[owner[g]] = g /\ timer[g] \in {"armed", "expired"}

(* Liveness half of "exactly once": a completion handed to WaitForWrites   *)
(* is applied, confirmed or not, unless the process dies.                  *)
HeldIsApplied ==
  \A g \in Gate : owner[g] # NoRun ~> (ran[g] = 1 \/ g \in lost)

-----------------------------------------------------------------------------
(* The gate implements DeferredCall.                                       *)
PhaseOf(g) ==
  IF g \in lost THEN "lost"
  ELSE IF owner[g] = NoRun THEN "new"
  ELSE IF spawned[g] = 0 THEN "held"
  ELSE IF spawned[g] = 1 /\ ran[g] = 0 THEN "released"
  ELSE IF spawned[g] = 1 /\ ran[g] = 1 THEN "done"
  ELSE "twice"

Promise == INSTANCE DeferredCall WITH Call <- Gate, phase <- [g \in Gate |-> PhaseOf(g)]

ImplementsDeferredCall == Promise!Spec


-----------------------------------------------------------------------------
(* The inductive invariant behind the three safety properties.             *)

(* A gate nobody opened has no history. *)
UnopenedIsClean ==
  \A g \in Gate : owner[g] = NoRun =>
    /\ ~fired[g] /\ spawned[g] = 0 /\ ran[g] = 0
    /\ timer[g] = "off" /\ cause[g] = "none" /\ g \notin lost

(* The map entry of a run is a gate of that run which was not released.    *)
ActiveIsHeld ==
  \A r \in Run : waits[r] \in Gate =>
    /\ owner[waits[r]] = r
    /\ ~fired[waits[r]] /\ spawned[waits[r]] = 0
    /\ waits[r] \notin lost

(* A gate without a callback has no cause and was not fired. *)
HeldHasNoCause ==
  \A g \in Gate : spawned[g] = 0 => cause[g] = "none" /\ ~fired[g]

(* Only confirmed paths leave remaining, and only they are buffered. *)
OnlyWrittenIsStruckOff ==
  /\ \A g \in Gate : (owner[g] # NoRun /\ spawned[g] = 0)
                       => expected[g] \ remaining[g] \subseteq wrote[owner[g]]
  /\ \A r \in Run : early[r] \subseteq wrote[r]

Consistent ==
  /\ UnopenedIsClean
  /\ ActiveIsHeld
  /\ HeldHasNoCause
  /\ OnlyWrittenIsStruckOff
  /\ RunsAtMostOnce
  /\ HeldGateHasTimer
  /\ ReleasedWithAllWrites

=============================================================================

----------------------------- MODULE BaseWorker -----------------------------
(* The polling loop under every worker: an interval timer calls safeProcess, *)
(* which does nothing while the previous call is still awaiting process().   *)
(* A process() may end well or throw, at any later time.                     *)
EXTENDS Integers

CONSTANT MaxOverlap   \* bound: calls of process() at a time

ASSUME WorkerAssumption == MaxOverlap \in Nat

VARIABLES
  timer,      \* "none" before onModuleInit, "set", "cleared"
  isRunning,
  cycles      \* calls of process() that have not settled

workerVars == <<timer, isRunning, cycles>>

WorkerTypeOK ==
  /\ timer \in {"none", "set", "cleared"}
  /\ isRunning \in BOOLEAN
  /\ cycles \in 0..MaxOverlap

WorkerInit == timer = "none" /\ isRunning = FALSE /\ cycles = 0

\* Mutant of SafeProcess: isRunning is not looked at.
SafeProcessAlways ==
  /\ cycles < MaxOverlap
  /\ isRunning' = TRUE /\ cycles' = cycles + 1

\* safeProcess, up to its await.
SafeProcess ==
  IF isRunning THEN UNCHANGED <<isRunning, cycles>>
  ELSE isRunning' = TRUE /\ cycles < MaxOverlap /\ cycles' = cycles + 1

OnModuleInit ==
  /\ timer = "none" /\ timer' = "set"
  /\ SafeProcess

\* The interval is over.
Tick ==
  /\ timer = "set"
  /\ SafeProcess
  /\ UNCHANGED timer

\* process() has settled, one way or the other: finally.
Settles ==
  /\ cycles > 0 /\ cycles' = cycles - 1
  /\ isRunning' = FALSE
  /\ UNCHANGED timer

\* The timer is cleared; a cycle under way goes on.
OnModuleDestroy ==
  /\ timer = "set" /\ timer' = "cleared"
  /\ UNCHANGED <<isRunning, cycles>>

WorkerNext == OnModuleInit \/ Tick \/ Settles \/ OnModuleDestroy

WorkerSpec == WorkerInit /\ [][WorkerNext]_workerVars
----------------------------------------------------------------------------
(* Properties *)

Running == CASE timer = "none" -> "new" [] timer = "set" -> "running" [] OTHER -> "stopped"
Flight == INSTANCE SingleFlight WITH flights <- cycles, loop <- Running

\* The cycles of a worker in one process follow one another, however long one
\* takes and however often the timer fires meanwhile, and they come again from
\* the module's start until the process is shut down.
CyclesAlternate == Flight!FlightSpec
=============================================================================

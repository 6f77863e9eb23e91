----------------------------- MODULE LoopProofs -----------------------------
(***************************************************************************)
(* Proofs about the two loops under the workers: BaseWorker's polling, and  *)
(* the paging of getContractEventsByBlock with its retries.                 *)
(***************************************************************************)
EXTENDS BaseWorker, TronEvents, TLAPS

-----------------------------------------------------------------------------
(***************************************************************************)
(* Polling, for any bound on the calls of process() at a time.              *)
(***************************************************************************)

\* isRunning tells whether a call of process() is under way, and before the
\* module's start there is none.
WorkerSound ==
  /\ timer \in {"none", "set", "cleared"}
  /\ \/ isRunning = TRUE /\ cycles = 1
     \/ isRunning = FALSE /\ cycles = 0
  /\ timer = "none" => cycles = 0
  /\ cycles <= MaxOverlap

\* Nothing runs, and the timer is not set.
LEMMA WorkerSoundInit == WorkerInit => WorkerSound
  BY WorkerAssumption DEF WorkerInit, WorkerSound

\* Every step keeps it and is a step of SingleFlight, or a stutter when the
\* timer fires while a call is under way.
LEMMA WorkerStep ==
  ASSUME WorkerSound, [WorkerNext]_workerVars
  PROVE  WorkerSound' /\ [Flight!FlightNext]_(Flight!flightVars)
<1> USE WorkerAssumption DEF WorkerSound
<1>1. CASE OnModuleInit
  <2>1. /\ timer = "none" /\ timer' = "set" /\ isRunning' = TRUE
        /\ cycles = 0 /\ cycles' = 1 /\ cycles < MaxOverlap
    BY <1>1 DEF OnModuleInit, SafeProcess
  <2>2. Flight!Launch
    BY <2>1 DEF Flight!Launch, Running
  <2>3. QED
    BY <2>1, <2>2 DEF Flight!FlightNext
<1>2. CASE Tick
  <2>1. timer = "set" /\ timer' = "set"
    BY <1>2 DEF Tick
  <2>2. CASE isRunning = TRUE
    BY <1>2, <2>1, <2>2 DEF Tick, SafeProcess, Flight!flightVars, Running
  <2>3. CASE isRunning = FALSE
    <3>1. isRunning' = TRUE /\ cycles = 0 /\ cycles' = 1 /\ cycles < MaxOverlap
      BY <1>2, <2>3 DEF Tick, SafeProcess
    <3>2. Flight!Begin
      BY <2>1, <3>1 DEF Flight!Begin, Running
    <3>3. QED
      BY <2>1, <3>1, <3>2 DEF Flight!FlightNext
  <2>4. QED
    BY <2>2, <2>3
<1>3. CASE Settles
  <2>1. cycles = 1 /\ cycles' = 0 /\ isRunning' = FALSE /\ timer' = timer /\ timer # "none"
    BY <1>3 DEF Settles
  <2>2. Flight!End
    BY <2>1 DEF Flight!End, Running
  <2>3. QED
    BY <2>1, <2>2 DEF Flight!FlightNext
<1>4. CASE OnModuleDestroy
  <2>1. timer = "set" /\ timer' = "cleared" /\ UNCHANGED <<isRunning, cycles>>
    BY <1>4 DEF OnModuleDestroy
  <2>2. Flight!Stop
    BY <2>1 DEF Flight!Stop, Running
  <2>3. QED
    BY <2>1, <2>2 DEF Flight!FlightNext
<1>5. CASE UNCHANGED workerVars
  BY <1>5 DEF workerVars, Flight!flightVars, Running
<1>6. QED
  BY <1>1, <1>2, <1>3, <1>4, <1>5 DEF WorkerNext

\* The types of BaseWorker, in every reachable state.
THEOREM WorkerTypeCorrect == WorkerSpec => []WorkerTypeOK
<1>1. WorkerSound /\ [WorkerNext]_workerVars => WorkerSound'
  BY WorkerStep
<1>2. WorkerSound => WorkerTypeOK
  <2>1. WorkerSound => cycles \in 0..MaxOverlap
    BY WorkerAssumption DEF WorkerSound
  <2>2. WorkerSound => isRunning \in BOOLEAN
    BY DEF WorkerSound
  <2>3. QED
    BY <2>1, <2>2 DEF WorkerSound, WorkerTypeOK
<1>3. QED
  BY <1>1, <1>2, WorkerSoundInit, PTL DEF WorkerSpec

\* The calls of process() follow one another, from the module's start on, also
\* when it throws and when the timer fires in the middle of one: the polling
\* loop implements the safety half of SingleFlight.
THEOREM AlternateTheorem == WorkerSpec => Flight!FlightSafety
<1>1. WorkerInit => Flight!FlightInit
  BY DEF WorkerInit, Flight!FlightInit, Running
<1>2. WorkerSound /\ [WorkerNext]_workerVars => WorkerSound'
  BY WorkerStep
<1>3. WorkerSound /\ [WorkerNext]_workerVars => [Flight!FlightNext]_(Flight!flightVars)
  BY WorkerStep
<1>4. QED
  BY <1>1, <1>2, <1>3, WorkerSoundInit, PTL DEF WorkerSpec, Flight!FlightSafety

-----------------------------------------------------------------------------
(***************************************************************************)
(* Paging, for blocks of any number of pages and any MAX_RETRY.             *)
(***************************************************************************)

\* The numbers 1 to n, in order.
Counting(n) == [k \in 1..n |-> k]

\* Until the loop ends it has exactly the pages before the one it asks for,
\* and retry counts the refusals of that page.
EventsSound ==
  /\ EventsTypeOK
  /\ fingerprint <= pages
  /\ loop \in {"request", "wait"} => all = Counting(fingerprint - 1)
  /\ loop = "request" => streak = retry
  /\ loop = "wait" => streak = retry + 1 /\ retry < MaxRetry
  /\ BlockComesWhole

\* The next number makes the sequence one longer.
LEMMA CountingOn ==
  ASSUME NEW n \in Nat
  PROVE  /\ Append(Counting(n), n + 1) = Counting(n + 1)
         /\ \A m \in Nat : n <= m => Counting(n) \in Seq(1..m)
<1>1. Counting(n) \in Seq(1..n) /\ Counting(n) \in Seq(Nat) /\ Len(Counting(n)) = n
  BY DEF Counting
<1>2. Append(Counting(n), n + 1) = Counting(n + 1)
  BY <1>1 DEF Counting
<1>3. ASSUME NEW m \in Nat, n <= m PROVE Counting(n) \in Seq(1..m)
  BY <1>3 DEF Counting
<1>4. QED
  BY <1>2, <1>3

\* The first page of a block, which has one at least.
LEMMA EventsSoundInit == EventsInit => EventsSound
  BY EventsAssumption, CountingOn
  DEF EventsInit, EventsSound, EventsTypeOK, BlockComesWhole, Counting

\* Every answer, refusal and error keeps it.
LEMMA EventsStep == EventsSound /\ [EventsNext]_eventVars => EventsSound'
<1> SUFFICES ASSUME EventsSound, [EventsNext]_eventVars PROVE EventsSound'
  OBVIOUS
<1> USE EventsAssumption DEF EventsSound, EventsTypeOK
<1>1. CASE Page
  <2>1. fingerprint - 1 \in Nat /\ all = Counting(fingerprint - 1)
    BY <1>1 DEF Page
  <2>2. all' = Counting(fingerprint) /\ all' \in Seq(1..MaxPages)
    <3>1. PICK n \in Nat : n = fingerprint - 1
      BY <2>1
    <3>2. all' = Append(Counting(n), n + 1) /\ fingerprint = n + 1
      BY <1>1, <2>1, <3>1 DEF Page
    <3>3. Append(Counting(n), n + 1) = Counting(n + 1)
      BY CountingOn
    <3>4. fingerprint \in Nat /\ MaxPages \in Nat /\ fingerprint <= MaxPages
      OBVIOUS
    <3>5. Counting(fingerprint) \in Seq(1..MaxPages)
      BY <3>4, CountingOn
    <3>6. QED
      BY <3>2, <3>3, <3>5
  <2>3. CASE fingerprint = pages
    <3>1. loop' = "done" /\ UNCHANGED <<fingerprint, retry, pages, refusals>> /\ streak' = 0
      BY <1>1, <2>3 DEF Page
    <3>2. all' = [k \in 1..pages' |-> k]
      BY <2>2, <2>3, <3>1 DEF Counting
    <3>3. QED
      BY <2>2, <3>1, <3>2 DEF BlockComesWhole
  <2>4. CASE fingerprint # pages
    <3>1. /\ loop' = "request" /\ fingerprint' = fingerprint + 1 /\ retry' = 0
          /\ UNCHANGED <<pages, refusals>> /\ streak' = 0
      BY <1>1, <2>4 DEF Page
    <3>2. all' = Counting(fingerprint' - 1)
      BY <2>2, <3>1
    <3>3. QED
      BY <2>2, <2>4, <3>1, <3>2 DEF BlockComesWhole
  <2>5. QED
    BY <2>3, <2>4
<1>2. CASE Refused
  <2>1. loop = "request" /\ streak' = retry + 1 /\ refusals' \in 0..MaxRefusals
        /\ UNCHANGED <<pages, fingerprint, all, retry>>
    BY <1>2 DEF Refused
  <2>2. CASE retry < MaxRetry
    BY <1>2, <2>1, <2>2 DEF Refused, BlockComesWhole
  <2>3. CASE ~(retry < MaxRetry)
    <3>1. loop' = "failed" /\ streak' = MaxRetry + 1
      BY <1>2, <2>1, <2>3 DEF Refused
    <3>2. QED
      BY <2>1, <3>1 DEF BlockComesWhole
  <2>4. QED
    BY <2>2, <2>3
<1>3. CASE Fatal
  BY <1>3 DEF Fatal, BlockComesWhole
<1>4. CASE Retry
  BY <1>4 DEF Retry, BlockComesWhole
<1>5. CASE UNCHANGED eventVars
  BY <1>5 DEF eventVars, BlockComesWhole
<1>6. QED
  BY <1>1, <1>2, <1>3, <1>4, <1>5 DEF EventsNext

\* What holds of the paging loop, in every reachable state.
LEMMA EventsSoundInvariant == EventsSpec => []EventsSound
<1>1. QED
  BY EventsSoundInit, EventsStep, PTL DEF EventsSpec

\* The types of TronEvents: no page beyond the block's last one is asked for, and
\* retry stays within MAX_RETRY.
THEOREM EventsTypeCorrect == EventsSpec => []EventsTypeOK
<1>1. EventsSound => EventsTypeOK
  BY DEF EventsSound
<1>2. QED
  BY <1>1, EventsSoundInvariant, PTL

\* A block whose fetch succeeds has come whole and in order, wherever its pages
\* were refused; it fails only for another error or for MAX_RETRY + 1 refusals
\* of one page in a row. For any number of pages and any MAX_RETRY.
THEOREM WholeTheorem == EventsSpec => []BlockComesWhole
<1>1. EventsSound => BlockComesWhole
  BY DEF EventsSound
<1>2. QED
  BY <1>1, EventsSoundInvariant, PTL
=============================================================================

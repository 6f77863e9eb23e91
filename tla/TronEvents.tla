----------------------------- MODULE TronEvents -----------------------------
(* getContractEventsByBlock: the events of one confirmed block, page by page.*)
(* Module DepositScan takes its result as one step, FetchEvents or           *)
(* FetchFails; here is the loop behind it.                                   *)
EXTENDS Integers, Sequences

CONSTANTS
  MaxPages,      \* bound: pages of a block
  MaxRetry,      \* MAX_RETRY
  MaxRefusals    \* bound: requests that fail, in all

ASSUME EventsAssumption == MaxPages \in Nat /\ MaxRetry \in Nat /\ MaxRefusals \in Nat

VARIABLES
  pages,         \* the block's pages
  fingerprint,   \* the page to ask for
  all,           \* pages collected
  retry,
  loop,          \* "request", "wait" after an error, "done", "failed"
  streak,        \* history: refusals in a row, or -1 after another error
  refusals

eventVars == <<pages, fingerprint, all, retry, loop, streak, refusals>>

EventsTypeOK ==
  /\ pages \in 1..MaxPages /\ fingerprint \in 1..MaxPages
  /\ all \in Seq(1..MaxPages)
  /\ retry \in 0..MaxRetry
  /\ loop \in {"request", "wait", "done", "failed"}
  /\ streak \in -1..(MaxRetry + 1)
  /\ refusals \in 0..MaxRefusals

EventsInit ==
  /\ pages \in 1..MaxPages
  /\ fingerprint = 1 /\ all = <<>> /\ retry = 0
  /\ loop = "request" /\ streak = 0 /\ refusals = 0

\* A page comes; the last one has no fingerprint.
Page ==
  /\ loop = "request"
  /\ all' = Append(all, fingerprint)
  /\ IF fingerprint = pages THEN loop' = "done" /\ UNCHANGED <<fingerprint, retry>>
     ELSE fingerprint' = fingerprint + 1 /\ retry' = 0 /\ UNCHANGED loop
  /\ streak' = 0
  /\ UNCHANGED <<pages, refusals>>

\* Mutant of Refused: one more try than MAX_RETRY allows.
RefusedOnceMore ==
  /\ loop = "request" /\ refusals < MaxRefusals
  /\ refusals' = refusals + 1 /\ streak' = streak + 1
  /\ IF retry <= MaxRetry THEN loop' = "wait" ELSE loop' = "failed"
  /\ UNCHANGED <<pages, fingerprint, all, retry>>

\* isRateLimit: 429, a 5xx of the list, or no answer at all.
Refused ==
  /\ loop = "request" /\ refusals < MaxRefusals
  /\ refusals' = refusals + 1 /\ streak' = streak + 1
  /\ IF retry < MaxRetry THEN loop' = "wait" ELSE loop' = "failed"
  /\ UNCHANGED <<pages, fingerprint, all, retry>>

\* Any other error is thrown.
Fatal ==
  /\ loop = "request"
  /\ loop' = "failed" /\ streak' = -1
  /\ UNCHANGED <<pages, fingerprint, all, retry, refusals>>

\* Mutant of Retry: the loop begins anew.
RetryAnew ==
  /\ loop = "wait" /\ loop' = "request"
  /\ retry' = retry + 1 /\ fingerprint' = 1
  /\ UNCHANGED <<pages, all, streak, refusals>>

\* After the back-off the same page is asked for.
Retry ==
  /\ loop = "wait" /\ loop' = "request"
  /\ retry' = retry + 1
  /\ UNCHANGED <<pages, fingerprint, all, streak, refusals>>

EventsNext == Page \/ Refused \/ Fatal \/ Retry

EventsSpec == EventsInit /\ [][EventsNext]_eventVars
----------------------------------------------------------------------------
(* Properties *)

\* A block whose fetch succeeds has come whole and every page of it once, in
\* order, wherever its pages were refused and asked for again; it fails only
\* for an error that is not a refusal or for MaxRetry + 1 refusals in a row.
BlockComesWhole ==
  /\ loop = "done" => all = [k \in 1..pages |-> k]
  /\ loop = "failed" => streak \in {-1, MaxRetry + 1}
=============================================================================

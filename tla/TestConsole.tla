----------------------------- MODULE TestConsole -----------------------------
(***************************************************************************)
(* The portal's test console: it sends tokens and polls the monitor for the *)
(* transaction on the screen until its callback has succeeded or failed.    *)
(* useSafePolling keeps one request in flight; a request asks for the hash  *)
(* that was on the screen when it began, and its answer is shown, and may   *)
(* stop the polling, whatever is on the screen when it comes.               *)
(***************************************************************************)
EXTENDS Integers

CONSTANTS
  Hashes,      \* transactions sent from the console
  MaxFetchFails  \* bound: monitor requests that fail

ASSUME ConsoleAssumption == MaxFetchFails \in Nat

NoHash == "none"
NoAnswer == [hash |-> NoHash]

VARIABLES
  progress,  \* hash -> how far the API has come with it
  txHash,    \* the hash on the screen
  txProcess, \* the answer on the screen
  enabled,   \* the interval is set
  fetch,     \* the request in flight; no next one starts before it has ended
  fetchFails

consoleVars == <<progress, txHash, txProcess, enabled, fetch, fetchFails>>
screenVars == <<txHash, txProcess, enabled>>

\* No deposit; DETECTED; CONFIRMED, which brings a PENDING callback in the same
\* transaction; the callback's end.
Stages == {"sent", "DETECTED", "PENDING", "SUCCESS", "FAILED"}
Final == {"SUCCESS", "FAILED"}
Callback(stage) == IF stage \in {"PENDING", "SUCCESS", "FAILED"} THEN stage ELSE "none"

Flow == [hash : Hashes, steps : BOOLEAN, confirmed : BOOLEAN, status : {"none", "PENDING"} \cup Final]
Unread(h) == [hash |-> h, steps |-> FALSE, confirmed |-> FALSE, status |-> "none"]

ConsoleTypeOK ==
  /\ progress \in [Hashes -> Stages \cup {NoHash}]
  /\ txHash \in Hashes \cup {NoHash}
  /\ txProcess \in Flow \cup {NoAnswer}
  /\ enabled \in BOOLEAN
  /\ fetch \in [at : {"idle", "deposit", "callback", "answer", "stuck"}, flow : Flow \cup {NoAnswer}]
  /\ fetchFails \in 0..MaxFetchFails

NoFetch == [at |-> "idle", flow |-> NoAnswer]

ConsoleInit ==
  /\ progress = [h \in Hashes |-> NoHash]
  /\ txHash = NoHash /\ txProcess = NoAnswer /\ enabled = FALSE
  /\ fetch = NoFetch /\ fetchFails = 0

----------------------------------------------------------------------------
(* The workers of the API (modules DepositScan, DepositConfirm and Callback) *)

\* A callback that has failed may be set back by an operator, and one process may
\* overwrite the outcome that another has stored.
Onwards(stage) ==
  CASE stage = "sent" -> {"DETECTED"}
    [] stage = "DETECTED" -> {"PENDING"}
    [] stage = "PENDING" -> Final
    [] stage = "FAILED" -> {"PENDING", "SUCCESS"}
    [] stage = "SUCCESS" -> {"FAILED"}
    [] OTHER -> {}

Advance(h) ==
  \E stage \in Onwards(progress[h]) :
    /\ progress' = [progress EXCEPT ![h] = stage]
    /\ UNCHANGED <<screenVars, fetch, fetchFails>>

----------------------------------------------------------------------------
(* The page *)

\* hdSend: the answer brings the new hash.
HdSend(h) ==
  /\ progress[h] = NoHash
  /\ progress' = [progress EXCEPT ![h] = "sent"]
  /\ txHash' = h /\ txProcess' = NoAnswer /\ enabled' = TRUE
  /\ UNCHANGED <<fetch, fetchFails>>

\* The button "process refresh".
Refresh ==
  /\ txHash # NoHash /\ enabled' = TRUE
  /\ UNCHANGED <<progress, txHash, txProcess, fetch, fetchFails>>

\* The interval is over: fetchMonitor as it was last rendered.
Poll ==
  /\ enabled /\ txHash # NoHash /\ fetch = NoFetch
  /\ fetch' = [at |-> "deposit", flow |-> Unread(txHash)]
  /\ UNCHANGED <<progress, screenVars, fetchFails>>

\* MonitorService.getProcessFlow reads the deposit, and without one is done ...
ReadDeposit ==
  LET stage == progress[fetch.flow.hash] IN
  /\ fetch.at = "deposit"
  /\ fetch' = IF stage = "sent" THEN [fetch EXCEPT !.at = "answer"]
              ELSE [fetch EXCEPT !.at = "callback", !.flow.steps = TRUE,
                                 !.flow.confirmed = stage # "DETECTED"]
  /\ UNCHANGED <<progress, screenVars, fetchFails>>

\* ... and then the callback, which may be ahead of it by now.
ReadCallback ==
  /\ fetch.at = "callback"
  /\ fetch' = [fetch EXCEPT !.at = "answer", !.flow.status = Callback(progress[fetch.flow.hash])]
  /\ UNCHANGED <<progress, screenVars, fetchFails>>

\* fetchMonitor goes on: the answer is shown, and stops the polling if final.
Answer ==
  /\ fetch.at = "answer"
  /\ txProcess' = fetch.flow
  /\ enabled' = (enabled /\ fetch.flow.status \notin Final)
  /\ fetch' = NoFetch
  /\ UNCHANGED <<progress, txHash, fetchFails>>

\* Mutant of FetchFails: running is not reset when the request throws.
FetchFailsStuck ==
  /\ fetch.at \notin {"idle", "stuck"} /\ fetchFails < MaxFetchFails
  /\ fetchFails' = fetchFails + 1
  /\ fetch' = [fetch EXCEPT !.at = "stuck"]
  /\ UNCHANGED <<progress, screenVars>>

\* The request fails: an unhandled rejection, after the finally block.
FetchFails ==
  /\ fetch.at # "idle" /\ fetchFails < MaxFetchFails
  /\ fetchFails' = fetchFails + 1
  /\ fetch' = NoFetch
  /\ UNCHANGED <<progress, screenVars>>

\* The page is left: stop, and a new page later has state of its own.
Leave ==
  /\ txHash # NoHash
  /\ txHash' = NoHash /\ txProcess' = NoAnswer /\ enabled' = FALSE
  /\ fetch' = NoFetch
  /\ UNCHANGED <<progress, fetchFails>>

Polls == Poll \/ ReadDeposit \/ ReadCallback \/ Answer

ConsoleNext ==
  \/ \E h \in Hashes : Advance(h) \/ HdSend(h)
  \/ Refresh \/ Polls \/ FetchFails \/ Leave

ConsoleSpec == ConsoleInit /\ [][ConsoleNext]_consoleVars
----------------------------------------------------------------------------
(* Properties *)

Shows(h) == txProcess # NoAnswer /\ txProcess.hash = h

\* A transaction on the screen that comes to an end and is not set back has an end
\* shown in time, although requests fail and answers are late: what keeps it from
\* being shown is only an answer about the previous transaction, which has come
\* after the new hash and may have stopped the polling.
ResultShown ==
  \A h \in Hashes :
    txHash = h /\ progress[h] \in Final
      ~> \/ Shows(h) /\ txProcess.status \in Final
         \/ txHash # h \/ progress[h] \notin Final
         \/ \E g \in Hashes \ {h} : Shows(g)
=============================================================================

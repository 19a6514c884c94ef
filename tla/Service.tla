------------------------------- MODULE Service -------------------------------
(***************************************************************************)
(* The demo service from boot to exit: POST /github/webhook evaluates every *)
(* delivery inline before it answers (demo/src/server.ts), the actions of   *)
(* its rules add notifications to a store in memory or in Postgres          *)
(* (demo/src/rules.ts, postgres-storage.ts), SIGTERM closes the server, the *)
(* engine and the pool in this order (demo/src/index.ts), and the process   *)
(* may die at any moment.  The caller sends a delivery again when its last  *)
(* try was answered with an error, was lost, or took too long.              *)
(*                                                                          *)
(* An evaluation of the engine is a request: <<delivery, try>>.             *)
(***************************************************************************)
EXTENDS Evaluation, FiniteSets

CONSTANTS Delivery,
          MaxTries,     \* bound: tries of one delivery
          MaxCrashes,   \* bound: the process dies this often
          Stores        \* {"memory", "postgres"}: the stores to look at

Request == Delivery \X (1..MaxTries)

ASSUME ServiceAssumption ==
  /\ Evaluation = Request
  /\ MaxTries \in Nat \ {0} /\ MaxCrashes \in Nat
  /\ Stores \subseteq {"memory", "postgres"}

VARIABLES
  store,          \* which store this is; never changes
  phase,          \* of the process
  pool,           \* of the storage
  clients,        \* <<request, i>>: the statements pool.end() waits for, of
                  \* action i of the request, or of its strategy (i = 0)
  http,           \* where the handler of each request is
  adding,         \* <<request, i>>: action i of the request is in store.add
  notifications,  \* <<request, i>>: what action i of the request added
  crashes

vars == <<evaluationVars, store, phase, pool, clients, http, adding, notifications, crashes>>
processVars == <<store, phase, pool, crashes>>

Answer == {"rejected", "ignored", "accepted", "failed", "lost"}

ActionOf == { a \in Request \X Nat : a[2] \in DOMAIN evals[a[1]].pending }

TypeOK ==
  /\ EvaluationTypeOK
  /\ store \in Stores
  /\ phase \in {"booting", "up", "closing", "closed"}
  /\ pool \in {"open", "ending", "ended"} /\ clients \subseteq Request \X Nat
  /\ http \in [Request -> {"none", "arrived", "evaluating"} \cup Answer]
  /\ adding \subseteq ActionOf /\ notifications \subseteq Request \X Nat
  /\ crashes \in 0..MaxCrashes

(* The rules of a delivery are those of its event, the same at every try.   *)
Init ==
  /\ \E rules \in [Delivery -> Dispatches] :
       EvaluationInit([r \in Request |-> rules[r[1]]])
  /\ store \in Stores
  /\ phase = "booting" /\ pool = "open" /\ clients = {}
  /\ http = [r \in Request |-> "none"]
  /\ adding = {} /\ notifications = {}
  /\ crashes = 0

-----------------------------------------------------------------------------
(* The process. *)

(* Tables, app and engine are set up, the worker is started, the port opens.*)
Boot ==
  /\ phase = "booting" /\ phase' = "up"
  /\ UNCHANGED <<evaluationVars, store, pool, clients, http, adding, notifications, crashes>>

(* SIGINT or SIGTERM: app.close() takes no further request, ...             *)
Shutdown ==
  /\ phase = "up" /\ phase' = "closing"
  /\ UNCHANGED <<evaluationVars, store, pool, clients, http, adding, notifications, crashes>>

(* ... and runs the hook onClose, at once or when it has answered requests  *)
(* that it took: engine.stop(), ...                                         *)
OnClose ==
  /\ phase = "closing" /\ StopCalled
  /\ UNCHANGED <<processVars, clients, http, adding, notifications>>

(* The calls of the storage under way: strategies append or enqueue, then   *)
(* actions list entries or add notifications.                               *)
Listing(r) == { i \in DOMAIN evals[r].pending : evals[r].pending[i].state = "listing" }

Statements ==
  adding \cup { <<r, 0>> : r \in { q \in Request : evals[q].pc \in {"appending", "enqueueing"} } }
         \cup UNION { { <<r, i>> : i \in Listing(r) } : r \in Request }

(* Variant: the storage is closed while the engine stops. *)
CloseStorageAtOnce ==
  /\ phase = "closing" /\ pool = "open" /\ pool' = "ending"
  /\ clients' = IF store = "postgres" THEN Statements ELSE {}
  /\ UNCHANGED <<evaluationVars, store, phase, http, adding, notifications, crashes>>

(* ... then storage.close(): pool.end() refuses statements from now on and  *)
(* waits for those under way.  There is nothing to close in memory.         *)
CloseStorage ==
  /\ phase = "closing" /\ stop = "resolved" /\ pool = "open" /\ pool' = "ending"
  /\ clients' = IF store = "postgres" THEN Statements ELSE {}
  /\ UNCHANGED <<evaluationVars, store, phase, http, adding, notifications, crashes>>

StorageClosed ==
  /\ pool = "ending" /\ clients = {} /\ pool' = "ended"
  /\ UNCHANGED <<evaluationVars, store, phase, clients, http, adding, notifications, crashes>>

(* The server has answered what it took and app.close() resolves.           *)
Closed ==
  /\ phase = "closing" /\ pool = "ended"
  /\ \A r \in Request : http[r] \notin {"arrived", "evaluating"}
  /\ phase' = "closed"
  /\ UNCHANGED <<evaluationVars, store, pool, clients, http, adding, notifications, crashes>>

Killed(ev) == [IdleEval(ev.rules) EXCEPT !.pc = "over", !.aborted = TRUE,
                                         !.outcome = "failed"]

(* The process dies and is started again: only the tables are left.  Rows   *)
(* of statements that ran may be there or not.                              *)
Crash ==
  /\ phase \in {"up", "closing"} /\ crashes < MaxCrashes
  /\ crashes' = crashes + 1
  /\ phase' = "booting" /\ pool' = "open" /\ clients' = {}
  /\ http' = [r \in Request |-> IF http[r] \in {"arrived", "evaluating"} THEN "lost" ELSE http[r]]
  /\ evals' = [r \in Request |->
       IF http[r] \in {"none", "accepted"} THEN evals[r] ELSE Killed(evals[r])]
  /\ stop' = "no" /\ waited' = {} /\ late' = {}
  /\ IF store = "memory" THEN notifications' = {}
     ELSE \E landed \in SUBSET adding : notifications' = notifications \cup landed
  /\ adding' = {}
  /\ UNCHANGED store

-----------------------------------------------------------------------------
(* The caller (external). *)

(* A try is followed by another when it was answered with an error or lost, *)
(* or when its caller got tired of waiting.                                 *)
Send(d, n) ==
  /\ phase = "up" /\ http[<<d, n>>] = "none"
  /\ n > 1 => http[<<d, n - 1>>] \in {"failed", "lost", "evaluating"}
  /\ http' = [http EXCEPT ![<<d, n>>] = "arrived"]
  /\ UNCHANGED <<evaluationVars, processVars, clients, adding, notifications>>

-----------------------------------------------------------------------------
(* The handler of POST /github/webhook. *)

(* Why a request is not evaluated: the headers are missing, the signature   *)
(* is wrong, the body is no JSON; or no rule could listen to its event.     *)
Verdict(headers, signed, json, supported) ==
  IF ~(headers /\ signed /\ json) THEN "rejected"
  ELSE IF ~supported THEN "ignored" ELSE "evaluating"
Verdicts == { Verdict(h, s, j, k) : h, s, j, k \in BOOLEAN }

Handle(r, verdict) ==
  /\ http[r] = "arrived"
  /\ http' = [http EXCEPT ![r] = verdict]
  /\ IF verdict = "evaluating" THEN Evaluate(r) ELSE UNCHANGED evaluationVars
  /\ UNCHANGED <<processVars, clients, adding, notifications>>

Respond(r) ==
  /\ http[r] = "evaluating" /\ Settled(r)
  /\ http' = [http EXCEPT ![r] = IF evals[r].outcome = "ok" THEN "accepted" ELSE "failed"]
  /\ UNCHANGED <<evaluationVars, processVars, clients, adding, notifications>>

-----------------------------------------------------------------------------
(* Evaluations at work over the storage. *)

(* The pool takes statements until it ends, the store in memory for ever.   *)
Open == store = "memory" \/ pool = "open"

(* A statement answers unless the pool refused it, and gives its client back.*)
Answers(r, i) == Open \/ <<r, i>> \in clients
Releases(r, i) == clients' = clients \ {<<r, i>>}

Steps(r) ==
  /\ \/ /\ \/ \E holds \in BOOLEAN : WhenReturns(r, holds)
           \/ RuleOver(r) \/ Watchdog(r)
        /\ UNCHANGED clients
     \/ /\ \/ \E reached \in BOOLEAN : AppendReturns(r, reached)
           \/ EnqueueReturns(r)
        /\ Answers(r, 0) /\ Releases(r, 0)
     \/ StrategyFails(r) /\ Releases(r, 0)
     \/ \E i \in DOMAIN evals[r].pending :
          ListReturns(r, i) /\ Answers(r, i) /\ Releases(r, i)
  /\ UNCHANGED <<processVars, http, adding, notifications>>

(* An action calls store.add. *)
Add(r, i) ==
  /\ At(r, "acting") /\ evals[r].pending[i].state = "running" /\ <<r, i>> \notin adding
  /\ Open
  /\ adding' = adding \cup {<<r, i>>}
  /\ UNCHANGED <<evaluationVars, processVars, clients, http, notifications>>

Added(r, i) ==
  /\ <<r, i>> \in adding /\ ActionSettles(r, i, "ok")
  /\ adding' = adding \ {<<r, i>>} /\ Releases(r, i)
  /\ notifications' = notifications \cup {<<r, i>>}
  /\ UNCHANGED <<processVars, http>>

(* An action throws before it adds anything, the pool refuses the query, or *)
(* its answer is lost when the row may be there already.                    *)
ActionFails(r, i) ==
  /\ ActionSettles(r, i, "failed")
  /\ <<r, i>> \in adding => store = "postgres"
  /\ \/ UNCHANGED notifications
     \/ <<r, i>> \in adding /\ notifications' = notifications \cup {<<r, i>>}
  /\ adding' = adding \ {<<r, i>>} /\ Releases(r, i)
  /\ UNCHANGED <<processVars, http>>

Stopping ==
  /\ WorkerStopped \/ StopResolves
  /\ UNCHANGED <<processVars, clients, http, adding, notifications>>

Done ==
  /\ phase = "closed"
  /\ UNCHANGED vars

Next ==
  \/ Boot \/ Shutdown \/ OnClose \/ Stopping \/ CloseStorage \/ StorageClosed \/ Closed
  \/ Crash \/ Done
  \/ \E d \in Delivery, n \in 1..MaxTries : Send(d, n)
  \/ \E r \in Request :
       \/ Respond(r) \/ Steps(r)
       \/ \E verdict \in Verdicts : Handle(r, verdict)
       \/ \E i \in DOMAIN evals[r].pending : Add(r, i) \/ Added(r, i) \/ ActionFails(r, i)

Spec == Init /\ [][Next]_vars

(* Fairness: handlers and continuations run, watchdogs fire, the hooks of   *)
(* close run one after the other, and the worker stops (StopResolves of     *)
(* ScheduledWorker).  Nothing is assumed of conditions, stores and actions. *)
Fairness ==
  /\ \A r \in Request :
       /\ WF_vars(\E verdict \in Verdicts : Handle(r, verdict))
       /\ WF_vars(Respond(r))
       /\ WF_vars(Watchdog(r) /\ UNCHANGED <<processVars, clients, http, adding, notifications>>)
  /\ WF_vars(OnClose) /\ WF_vars(Stopping)
  /\ WF_vars(CloseStorage) /\ WF_vars(StorageClosed) /\ WF_vars(Closed)

FairSpec == Spec /\ Fairness

-----------------------------------------------------------------------------
(* A delivery that was answered with 202 went through all its rules and has *)
(* the notifications of all its actions in the store: the answer waits for  *)
(* the actions, a failure of any of them is answered with 500, and with the *)
(* table they survive the process.                                          *)
AcceptedMeansNotified ==
  \A r \in Request :
    http[r] = "accepted" /\ (store = "postgres" \/ crashes = 0) =>
      /\ evals[r].rule = Len(evals[r].rules)
      /\ \A i \in DOMAIN evals[r].pending : <<r, i>> \in notifications

(* Once the pool closes, what is still at work was aborted, or began so     *)
(* late that stop() did not see it: closing takes the pool from no          *)
(* evaluation that could still succeed.                                     *)
CleanShutdown ==
  pool # "open" => \A r \in Request : AtWork(r) => evals[r].aborted \/ r \in late

(* Every request is answered although conditions, stores and actions hang,  *)
(* unless the process dies.                                                 *)
EveryRequestAnswered ==
  \A r \in Request : http[r] = "arrived" ~> http[r] \in Answer

(* A shutdown ends, also when conditions and actions hang, if only the      *)
(* statements under way at the end of the pool return at some time.         *)
ShutdownEnds ==
  []<>(clients = {}) => (phase = "closing" ~> phase \in {"closed", "booting"})
=============================================================================

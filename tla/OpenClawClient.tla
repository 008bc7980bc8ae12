--------------------------- MODULE OpenClawClient ---------------------------
(***************************************************************************)
(* src/services/openclaw_client.py: one client on one WebSocket, from the  *)
(* moment connect() has succeeded.  Callers of send_message queue for      *)
(* _send_lock; the listener dispatches the gateway's events one by one;    *)
(* debounce timers (DebounceWindows) and lifecycle fallbacks run on their   *)
(* own; close() may come at any moment.  An action is the code between two *)
(* awaits that can suspend.                                                *)
(*                                                                         *)
(* The gateway runs an agent for every request it receives and some of its *)
(* own (cron).  It is external: the events of a run arrive in the order    *)
(* below, at any time, interleaved with those of other runs.  An answer is *)
(* identified by the run that produced it.                                 *)
(***************************************************************************)
EXTENDS Integers, Sequences, FiniteSets

CONSTANTS
  Requests,    \* msg_ids of send_message calls; also the runs they start
  ProRuns,     \* runs the gateway starts on its own
  ProEvents,   \* bound: the events these runs are followed through
  FinalTexts,  \* texts a chat.final may have before agent texts replace it
  MaxCallers,  \* concurrent send_message calls; 1 under ws_manager's send lock
  MaxBuffer,   \* bound on the finals of one debounce window
  Late,        \* may a run emit events after its request has returned?
  Proactive,   \* the msg_id "proactive"
  None

ASSUME MaxCallersAssumption == MaxCallers \in Nat \ {0}
ASSUME LateAssumption == Late \in BOOLEAN

VARIABLES
  connected,  \* _connected
  ws,         \* state of the socket
  listener,   \* _listen_task
  closing,    \* progress of close()
  pc,         \* where each send_message call is
  queue,      \* calls waiting for _send_lock
  holder,     \* the call that holds it
  active,     \* _active_msg_id, _pending_future_msg_id and whether
              \* _pending_future is set: they are always assigned together
  timedOut,   \* _timed_out_msg_id
  fut,        \* the future of each call
  out,        \* what each call returned or raised
  texts,      \* _agent_texts: runs whose text is buffered
  fallbacks,  \* _delayed_fallback tasks that sleep: <<run, msg_id>>
  buffers,    \* ClawAggregator._buffers
  tasks,      \* ClawAggregator._tasks
  gw,         \* external: the events of each run so far
  pushed,     \* history: answers handed to on_proactive
  ended       \* history: runs that had ended when a call became active

connVars == <<connected, ws, listener, closing>>
callVars == <<pc, queue, holder, out, timedOut, ended>>
aggVars == <<buffers, tasks>>
vars == <<connected, ws, listener, closing, pc, queue, holder, active, timedOut,
          fut, out, texts, fallbacks, buffers, tasks, gw, pushed, ended>>

Runs == Requests \cup ProRuns

(* msg_ids are uuids. *)
ASSUME IdsAssumption == None \notin Runs /\ Proactive \notin Requests

Ids == Requests \cup {Proactive}

Agg == INSTANCE DebounceWindows WITH MsgIds <- Ids, Seqs <- 1..2

Events == {"received", "cron", "rejected", "text", "early", "final", "end", "error"}
Result(k, run) == [kind |-> k, run |-> run]
Unset == Result("unset", None)
Kinds == {"unset", "answer", "fallback", "failure", "rejected",
          "lost", "timeout", "refused"}
Results == [kind : Kinds, run : Runs \cup {None}]

Init ==
  /\ connected = TRUE /\ ws = "open" /\ listener = "running" /\ closing = "no"
  /\ pc = [r \in Requests |-> "idle"]
  /\ queue = <<>> /\ holder = None /\ active = None /\ timedOut = None
  /\ fut = [r \in Requests |-> Unset]
  /\ out = [r \in Requests |-> Unset]
  /\ texts = {} /\ fallbacks = {}
  /\ Agg!AggInit
  /\ gw = [run \in Runs |-> {}]
  /\ pushed = {}
  /\ ended = [r \in Requests |-> {}]

-----------------------------------------------------------------------------
(* _pending_future is not None and not done()                              *)
Pending == active # None /\ fut[active] = Unset

Resolve(v) == fut' = [fut EXCEPT ![active] = v]

(* is_connected *)
IsConnected == connected /\ ws = "open" /\ listener # "done"

(* send_message *)
Callers == {r \in Requests : pc[r] \in {"queued", "waiting"}}

(* Mutant: the finally clause is missing. *)
LeaveActive(r, v) ==
  /\ pc' = [pc EXCEPT ![r] = "done"]
  /\ out' = [out EXCEPT ![r] = v]
  /\ active' = active
  /\ holder' = None

(* Mutant: the lock is not released. *)
LeaveLocked(r, v) ==
  /\ pc' = [pc EXCEPT ![r] = "done"]
  /\ out' = [out EXCEPT ![r] = v]
  /\ active' = None
  /\ holder' = holder

(* the call leaves: the finally clause, then the lock *)
Leave(r, v) ==
  /\ pc' = [pc EXCEPT ![r] = "done"]
  /\ out' = [out EXCEPT ![r] = v]
  /\ active' = None
  /\ holder' = None

(* With the lock: the call becomes active with a fresh future, and ws.send   *)
(* writes while the socket is open and raises otherwise.  The connection is  *)
(* not looked at again.                                                      *)
Enter(r) ==
  \/ /\ ws = "open"
     /\ gw' = [gw EXCEPT ![r] = {"received"}]
     /\ holder' = r
     /\ active' = r
     /\ pc' = [pc EXCEPT ![r] = "waiting"]
     /\ ended' = [ended EXCEPT ![r] = {run \in Runs : "end" \in gw[run]}]
     /\ out' = out
  \/ /\ ws = "closed"
     /\ Leave(r, Result("lost", None))
     /\ UNCHANGED <<gw, ended>>

LockFree == holder = None /\ queue = <<>>

(* a free lock is taken without suspending, otherwise the call queues *)
Call(r) ==
  /\ pc[r] = "idle"
  /\ Cardinality(Callers) < MaxCallers
  /\ IsConnected
  /\ \/ /\ LockFree
        /\ Enter(r)
        /\ queue' = queue
     \/ /\ ~LockFree
        /\ pc' = [pc EXCEPT ![r] = "queued"]
        /\ queue' = Append(queue, r)
        /\ UNCHANGED <<holder, active, out, ended, gw>>
  /\ UNCHANGED <<connVars, timedOut, fut, texts, fallbacks, aggVars, pushed>>

(* "Not connected. Call connect() first." *)
Refuse(r) ==
  /\ pc[r] = "idle"
  /\ Cardinality(Callers) < MaxCallers
  /\ ~IsConnected
  /\ pc' = [pc EXCEPT ![r] = "done"]
  /\ out' = [out EXCEPT ![r] = Result("refused", None)]
  /\ UNCHANGED <<connVars, queue, holder, timedOut, ended, active, fut, texts,
                 fallbacks, aggVars, gw, pushed>>

(* the lock is fair *)
Acquire(r) ==
  /\ pc[r] = "queued"
  /\ holder = None
  /\ Head(queue) = r
  /\ queue' = Tail(queue)
  /\ Enter(r)
  /\ UNCHANGED <<connVars, timedOut, fut, texts, fallbacks, aggVars, pushed>>

(* wait_for(shield(future)) returns or raises what the future holds *)
Resume(r) ==
  /\ pc[r] = "waiting"
  /\ fut[r] # Unset
  /\ Leave(r, fut[r])
  /\ UNCHANGED <<connVars, queue, timedOut, ended, fut, texts, fallbacks,
                 aggVars, gw, pushed>>

(* RECEIVE_TIMEOUT_SEC is over.  wait_for cancels the waiter: it times out   *)
(* also when the future was resolved and the waiter has not resumed yet.     *)
Timeout(r) ==
  /\ pc[r] = "waiting"
  /\ timedOut' = r
  /\ Leave(r, Result("timeout", None))
  /\ UNCHANGED <<connVars, queue, ended, fut, texts, fallbacks, aggVars, gw, pushed>>

-----------------------------------------------------------------------------
(* The connection goes; the listener ends; close().                        *)

LoseConnection ==
  /\ ws = "open"
  /\ ws' = "closed"
  /\ UNCHANGED <<connected, listener, closing, callVars, active, fut, texts,
                 fallbacks, aggVars, gw, pushed>>

(* Mutant: the finally clause of the listener forgets the waiting call. *)
ListenerExitSilent ==
  /\ listener = "cancelled" \/ (listener = "running" /\ ws = "closed")
  /\ listener' = "done"
  /\ connected' = FALSE
  /\ texts' = {}
  /\ fut' = fut
  /\ UNCHANGED <<ws, closing, callVars, active, fallbacks, aggVars, gw, pushed>>

(* the finally clause of _listen_loop *)
ListenerExit ==
  /\ listener = "cancelled" \/ (listener = "running" /\ ws = "closed")
  /\ listener' = "done"
  /\ connected' = FALSE
  /\ texts' = {}
  /\ IF Pending THEN Resolve(Result("lost", None)) ELSE fut' = fut
  /\ UNCHANGED <<ws, closing, callVars, active, fallbacks, aggVars, gw, pushed>>

(* close() up to its await of the listener, or to its end *)
Close ==
  /\ closing = "no"
  /\ connected' = FALSE
  /\ Agg!CancelAll
  /\ texts' = {}
  /\ \/ /\ listener = "running"
        /\ listener' = "cancelled"
        /\ closing' = "waiting"
        /\ ws' = ws
     \/ /\ listener = "done"
        /\ listener' = listener
        /\ closing' = "done"
        /\ ws' = "closed"
  /\ UNCHANGED <<callVars, active, fut, fallbacks, gw, pushed>>

(* its rest, after the listener has ended *)
CloseSocket ==
  /\ closing = "waiting"
  /\ listener = "done"
  /\ ws' = "closed"
  /\ closing' = "done"
  /\ UNCHANGED <<connected, listener, callVars, active, fut, texts, fallbacks,
                 aggVars, gw, pushed>>

-----------------------------------------------------------------------------
(* _dispatch: one event of a run, as the gateway emits it.                 *)

Returned(run) == run \in Requests /\ pc[run] = "done"

(* external: the run has got this far and may still emit e *)
Emits(run, e, before) ==
  /\ listener = "running" /\ ws = "open"
  /\ IF run \in Requests THEN "received" \in gw[run] ELSE e \in ProEvents
  /\ Late \/ ~Returned(run)
  /\ gw[run] \cap ({e, "rejected", "error"} \cup before) = {}
  /\ gw' = [gw EXCEPT ![run] = @ \cup {e}]

(* type=res, not ok: the future of whichever call is active is resolved *)
DispatchRejection(r) ==
  /\ Emits(r, "rejected", {"text", "early", "final", "end"})
  /\ IF Pending THEN Resolve(Result("rejected", r)) ELSE fut' = fut
  /\ active' = None
  /\ UNCHANGED <<connVars, callVars, texts, fallbacks, aggVars, pushed>>

(* agent, stream assistant *)
DispatchText(run) ==
  /\ Emits(run, "text", {"end", "final"})
  /\ texts' = texts \cup {run}
  /\ UNCHANGED <<connVars, callVars, active, fut, fallbacks, aggVars, pushed>>

(* agent, lifecycle error *)
DispatchError(run) ==
  /\ Emits(run, "error", {"end", "final"})
  /\ IF Pending THEN Resolve(Result("failure", run)) ELSE fut' = fut
  /\ UNCHANGED <<connVars, callVars, active, texts, fallbacks, aggVars, pushed>>

(* Mutant: scheduled whether or not a call is waiting. *)
DispatchEndUnasked(run) ==
  /\ Emits(run, "end", {})
  /\ fallbacks' = IF run \in texts THEN fallbacks \cup {<<run, active>>} ELSE fallbacks
  /\ UNCHANGED <<connVars, callVars, active, fut, texts, aggVars, pushed>>

(* agent, lifecycle end: schedules _delayed_fallback *)
DispatchEnd(run) ==
  /\ Emits(run, "end", {})
  /\ fallbacks' = IF run \in texts /\ Pending
                  THEN fallbacks \cup {<<run, active>>} ELSE fallbacks
  /\ UNCHANGED <<connVars, callVars, active, fut, texts, aggVars, pushed>>

(* chat, state final: tagged with the call active now; a buffered agent      *)
(* text replaces the event's own                                             *)
ChatFinal(run, seq, text) ==
  LET m == [seq |-> seq, text |-> IF run \in texts THEN "real" ELSE text, run |-> run]
  IN  /\ Agg!AddEvent(IF active = None THEN Proactive ELSE active, m, "final")
      /\ UNCHANGED <<connVars, callVars, active, fut, texts, fallbacks, pushed>>

DispatchEarly(run) ==
  /\ Emits(run, "early", {"final", "end"})
  /\ ChatFinal(run, 1, "junk")

DispatchFinal(run) ==
  /\ Emits(run, "final", {})
  /\ \E text \in FinalTexts : ChatFinal(run, 2, text)

(* cron, with a summary: handed to on_proactive at once *)
DispatchCron(run) ==
  /\ Emits(run, "cron", {})
  /\ pushed' = pushed \cup {run}
  /\ UNCHANGED <<connVars, callVars, active, fut, texts, fallbacks, aggVars>>

(* call_later(10.0, self._agent_texts.pop) after a final *)
ForgetText(run) ==
  /\ run \in texts
  /\ gw[run] \cap {"early", "final"} # {}
  /\ texts' = texts \ {run}
  /\ UNCHANGED <<connVars, callVars, active, fut, fallbacks, aggVars, gw, pushed>>

-----------------------------------------------------------------------------
(* Tasks of their own.                                                     *)

(* Mutants: of the condition, the identity of the call or done() is lost. *)
MayFallBackAny(f) == Pending
MayFallBackTwice(f) == active # None /\ active = f[2]

(* _delayed_fallback after its sleep *)
MayFallBack(f) == Pending /\ active = f[2]

FireFallback(f) ==
  /\ f \in fallbacks
  /\ fallbacks' = fallbacks \ {f}
  /\ IF MayFallBack(f) THEN Resolve(Result("fallback", f[1])) ELSE fut' = fut
  /\ UNCHANGED <<connVars, callVars, active, texts, aggVars, gw, pushed>>

(* _route_aggregated_message with the best message of a window *)
Route(id, m) ==
  IF Pending /\ active = id /\ timedOut # id
  THEN /\ Resolve(Result("answer", m.run))
       /\ UNCHANGED <<timedOut, pushed>>
  ELSE /\ timedOut' = IF timedOut = id THEN None ELSE timedOut
       /\ pushed' = pushed \cup {m.run}
       /\ fut' = fut

(* the debounce timer of a msg_id fires *)
FinalizeLater(id) ==
  /\ Agg!FinalizeLater(id)
  /\ LET best == Agg!SelectBest(buffers[id])
     IN  IF best = Agg!Nothing THEN UNCHANGED <<timedOut, pushed, fut>>
         ELSE Route(id, best)
  /\ UNCHANGED <<connVars, pc, queue, holder, out, ended, active, texts, fallbacks, gw>>

-----------------------------------------------------------------------------
SendMessage(r) == Call(r) \/ Refuse(r) \/ Acquire(r) \/ Resume(r) \/ Timeout(r)

Dispatch(run) ==
  \/ run \in Requests /\ DispatchRejection(run)
  \/ run \in ProRuns /\ DispatchCron(run)
  \/ DispatchText(run)
  \/ DispatchError(run)
  \/ DispatchEnd(run)
  \/ DispatchEarly(run)
  \/ DispatchFinal(run)

Next ==
  \/ \E r \in Requests : SendMessage(r)
  \/ \E run \in Runs : Dispatch(run) \/ ForgetText(run)
  \/ \E f \in fallbacks : FireFallback(f)
  \/ \E id \in Ids : FinalizeLater(id)
  \/ LoseConnection \/ ListenerExit \/ Close \/ CloseSocket

(* The event loop runs every task that is ready; a wait ends with its        *)
(* timeout.  Neither the gateway nor the network owes an answer.             *)
Fairness ==
  \A r \in Requests : /\ WF_vars(Acquire(r))
                      /\ WF_vars(Resume(r) \/ Timeout(r))

Spec == Init /\ [][Next]_vars /\ Fairness

-----------------------------------------------------------------------------
(* Every variable has its type. *)
TypeOK ==
  /\ connected \in BOOLEAN
  /\ ws \in {"open", "closed"}
  /\ listener \in {"running", "cancelled", "done"}
  /\ closing \in {"no", "waiting", "done"}
  /\ pc \in [Requests -> {"idle", "queued", "waiting", "done"}]
  /\ queue \in Seq(Requests)
  /\ {holder, active, timedOut} \subseteq Requests \cup {None}
  /\ fut \in [Requests -> Results] /\ out \in [Requests -> Results]
  /\ texts \subseteq Runs /\ pushed \subseteq Runs
  /\ fallbacks \subseteq Runs \X Requests
  /\ tasks \subseteq Ids /\ DOMAIN buffers = Ids
  /\ gw \in [Runs -> SUBSET Events]
  /\ ended \in [Requests -> SUBSET Runs]

(* Events are attributed to a call only while that call holds _send_lock:   *)
(* between calls everything the gateway says is proactive (_active_msg_id    *)
(* against send_message's finally clause and the rejection branch).          *)
ActiveHoldsLock == active # None => active = holder

(* A call that waits can be reached: its future is the pending one and the   *)
(* listener that would fail it on a disconnect is alive ("Unblock any        *)
(* waiting send_message", _listen_loop).  This is what keeps send_message    *)
(* from waiting out its timeout on a dead connection.                        *)
WaiterReachable ==
  \A r \in Requests : pc[r] = "waiting" /\ fut[r] = Unset
                        => active = r /\ listener # "done"

(* A future is resolved at most once, whichever of the five resolvers come   *)
(* (a second set_result would raise in a task nobody awaits).                *)
ResolvedOnce == [][\A r \in Requests : fut[r] # Unset => fut'[r] = fut[r]]_vars

(* The lifecycle fallback never answers a call with a run that had ended     *)
(* before the call was made (_delayed_fallback, 0.45 s after the event).     *)
FallbackFresh ==
  \A r \in Requests : fut[r].kind = "fallback" => fut[r].run \notin ended[r]

(* A call returns the answer of its own run.  Answers carry no request id,   *)
(* so this rests on the gateway: it holds if no run says anything once its   *)
(* call has returned and no proactive run speaks (_dispatch, chat.final).    *)
OwnAnswer == \A r \in Requests : out[r].run \in {r, None}

(* Every call that got in returns, whatever the gateway does (send_message). *)
SendReturns == \A r \in Requests : r \in Callers ~> pc[r] = "done"

(* openclaw_client.py:326-327: a fresh future per request "prevents stale    *)
(* responses from a previous timed-out call from being delivered to this     *)
(* call".                                                                    *)
NoStaleAnswer ==
  \A r, q \in Requests : r # q /\ out[r].kind = "timeout" => out[q].run # r

(* openclaw_client.py:369-371: the answer of a call that timed out is        *)
(* delivered through the proactive callback "instead of losing it".          *)
LateAnswerKept ==
  \A r \in Requests : out[r].kind = "timeout" /\ fut[r].kind = "answer"
                        => fut[r].run \in pushed
=============================================================================

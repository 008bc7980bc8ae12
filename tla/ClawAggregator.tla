--------------------------- MODULE ClawAggregator ---------------------------
(***************************************************************************)
(* src/utils/claw_aggregator.py: chat.final events are buffered per msg_id *)
(* and the best of them is emitted after a debounce window of silence.     *)
(*                                                                         *)
(* Each window is kept open by a task that sleeps and then closes it.  A   *)
(* new event cancels the task and starts another one, and asyncio delivers *)
(* both the end of a sleep and a cancellation later than they happen: a    *)
(* task may be due and not have run, or be cancelled and not know it yet.  *)
(* A task whose sleep has ended is still cancelled by cancel(): it gets    *)
(* the CancelledError in place of the end of its sleep, and returns.  So   *)
(* does one that has not run at all.  The selection among the messages of  *)
(* a window is in DebounceWindows, which this module implements.           *)
(***************************************************************************)
EXTENDS Integers, Sequences

CONSTANTS
  MsgIds,     \* request ids and "proactive"
  Seqs,       \* payload seq
  MaxBuffer,  \* bound on the events of one window
  Timers,     \* task objects; one that is done is used again
  NoTimer     \* no entry in _tasks

ASSUME SeqsAssumption == Seqs \subseteq Nat
ASSUME MaxBufferAssumption == MaxBuffer \in Nat
ASSUME TimersAssumption == NoTimer \notin Timers
ASSUME MsgIdsAssumption == MsgIds # {}

VARIABLES
  buffers,   \* _buffers
  task,      \* _tasks: the task of each msg_id
  at,        \* where each task is
  of         \* the msg_id it was started for

avars == <<buffers, task, at, of>>

(* A live task will close a window. *)
Live == {t \in Timers : at[t] \in {"sleeping", "ready"}}

Windows == INSTANCE DebounceWindows WITH tasks <- {of[t] : t \in Live}

NoId == CHOOSE id \in MsgIds : TRUE

Init ==
  /\ buffers = [id \in MsgIds |-> <<>>]
  /\ task = [id \in MsgIds |-> NoTimer]
  /\ at = [t \in Timers |-> "done"]
  /\ of = [t \in Timers |-> NoId]

-----------------------------------------------------------------------------
(* cancel() of those of the tasks ts that are not done: the CancelledError  *)
(* is on its way                                                           *)
Cancelled(ts) ==
  [t \in Timers |-> IF t \in ts /\ at[t] # "done" THEN "cancelled" ELSE at[t]]

(* Mutant: a task whose sleep has ended is taken for one that is done. *)
SparesReady(id, m) ==
  \E t \in Timers :
    /\ at[t] = "done"
    /\ at' = [[s \in Timers |-> IF s = task[id] /\ at[s] = "sleeping"
                                THEN "cancelled" ELSE at[s]] EXCEPT ![t] = "sleeping"]
    /\ task' = [task EXCEPT ![id] = t]
    /\ of' = [of EXCEPT ![t] = id]
    /\ buffers' = [buffers EXCEPT ![id] = Append(@, m)]

(* Mutant: the new task is put into _tasks before the old one is looked up. *)
CancelsNew(id, m) ==
  \E t \in Timers :
    /\ at[t] = "done"
    /\ at' = [at EXCEPT ![t] = "cancelled"]
    /\ task' = [task EXCEPT ![id] = t]
    /\ of' = [of EXCEPT ![t] = id]
    /\ buffers' = [buffers EXCEPT ![id] = Append(@, m)]

(* a final joins its buffer; the task of its msg_id is cancelled, and        *)
(* another one created that has not run yet                                *)
Restart(id, m) ==
  \E t \in Timers :
    /\ at[t] = "done"
    /\ at' = [Cancelled({task[id]}) EXCEPT ![t] = "sleeping"]
    /\ task' = [task EXCEPT ![id] = t]
    /\ of' = [of EXCEPT ![t] = id]
    /\ buffers' = [buffers EXCEPT ![id] = Append(@, m)]

(* add_event: only finals are buffered *)
AddEvent(id, m, state) ==
  /\ Len(buffers[id]) < MaxBuffer
  /\ IF state = "final" THEN Restart(id, m) ELSE UNCHANGED avars

(* the sleep of a task is over; the event loop will run it *)
SleepEnds(t) ==
  /\ at[t] = "sleeping"
  /\ at' = [at EXCEPT ![t] = "ready"]
  /\ UNCHANGED <<buffers, task, of>>

(* _finalize_later after the sleep: both entries are popped, whoever they   *)
(* belong to; on_final is called unless there is nothing to emit           *)
FinalizeLater(t) ==
  LET id == of[t]
  IN  /\ at[t] = "ready"
      /\ buffers' = [buffers EXCEPT ![id] = <<>>]
      /\ task' = [task EXCEPT ![id] = NoTimer]
      /\ \/ /\ Windows!SelectBest(buffers[id]) # Windows!Nothing
            /\ at' = [at EXCEPT ![t] = "emitting"]
            /\ of' = of
         \/ /\ Windows!SelectBest(buffers[id]) = Windows!Nothing
            /\ at' = [at EXCEPT ![t] = "done"]
            /\ of' = [of EXCEPT ![t] = NoId]

(* the CancelledError arrives in the sleep, or before the first step, or in *)
(* on_final; or on_final returns or raises                                 *)
TaskEnds(t) ==
  /\ at[t] \in {"cancelled", "emitting"}
  /\ at' = [at EXCEPT ![t] = "done"]
  /\ of' = [of EXCEPT ![t] = NoId]
  /\ UNCHANGED <<buffers, task>>

(* cancel_all *)
CancelAll ==
  /\ at' = Cancelled({task[id] : id \in MsgIds})
  /\ task' = [id \in MsgIds |-> NoTimer]
  /\ buffers' = [id \in MsgIds |-> <<>>]
  /\ of' = of

Next ==
  \/ \E id \in MsgIds, m \in Windows!Messages, s \in Windows!States : AddEvent(id, m, s)
  \/ \E t \in Timers : SleepEnds(t) \/ FinalizeLater(t) \/ TaskEnds(t)
  \/ CancelAll

(* The event loop ends a sleep and runs a task that is ready. *)
Fairness == \A t \in Timers : WF_avars(SleepEnds(t)) /\ WF_avars(FinalizeLater(t))

Spec == Init /\ [][Next]_avars /\ Fairness

-----------------------------------------------------------------------------
(* Every variable has its type. *)
TypeOK ==
  /\ buffers \in [MsgIds -> Seq(Windows!Messages)]
  /\ task \in [MsgIds -> Timers \cup {NoTimer}]
  /\ at \in [Timers -> {"done", "sleeping", "ready", "cancelled", "emitting"}]
  /\ of \in [Timers -> MsgIds]

(* However cancellations and timers overtake each other, the tasks amount   *)
(* to windows: each event keeps its window open, an open window has one     *)
(* task that will close it, and a task that closes a window takes along     *)
(* every message in it and leaves no second task behind (add_event,         *)
(* _finalize_later and cancel_all against the order in which asyncio        *)
(* delivers cancellations and ends of sleeps).                              *)
RefinesWindows == Windows!AggSpec

(* A window that closes holds a message ("aggregator_empty_buffer" is never *)
(* logged) and emits the best of what it holds; see BestOf (_finalize_later, *)
(* _select_best).                                                          *)
EmitsBest ==
  [][\A t \in Timers : FinalizeLater(t) =>
       buffers[of[t]] # <<>> /\ Windows!BestOf(buffers[of[t]])]_avars

(* Every window closes: a buffered final leaves the buffer, emitted or      *)
(* superseded, once events stop extending the window, although the task     *)
(* that would have closed it may have been cancelled when it was due        *)
(* (add_event, _finalize_later).                                           *)
WindowCloses == \A id \in MsgIds : buffers[id] # <<>> ~> buffers[id] = <<>>

(* claw_aggregator.py:201-202, _select_best: "if ALL are junk/empty, take    *)
(* highest seq anyway (better to send something than nothing)".  A window    *)
(* of blank texts, files or not, should emit something.                     *)
EmitsAnyway ==
  [][\A t \in Timers : FinalizeLater(t) /\ buffers[of[t]] # <<>> =>
       Windows!SelectBest(buffers[of[t]]) # Windows!Nothing]_avars
=============================================================================

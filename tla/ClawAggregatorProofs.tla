------------------------ MODULE ClawAggregatorProofs ------------------------
(***************************************************************************)
(* What holds of the debounce windows for any msg_ids, any sequence        *)
(* numbers, any number of finals in a window and any number of tasks that  *)
(* have been cancelled and do not know it yet.                             *)
(***************************************************************************)
EXTENDS ClawAggregator, FiniteSets, WellFoundedInduction, TLAPS

-----------------------------------------------------------------------------
(* Induction, as far as the provers reach: they cannot instantiate an       *)
(* induction theorem, but they can take the least counterexample.           *)

(* Among natural numbers there is a least one. *)
LEMMA LeastNumber ==
  ASSUME NEW T \in SUBSET Nat, T # {}
  PROVE  \E n \in T : \A m \in T : n <= m
<1> DEFINE R == {ss \in Nat \X Nat : ss[1] < ss[2]}
<1>1. R = OpToRel(<, Nat)
  BY Zenon DEF OpToRel
<1>2. \A m, n \in Nat : m < n => <<m, n>> \in R
  OBVIOUS
<1> HIDE DEF R
<1>3. PICK n \in T : \A m \in T : ~ (<<m, n>> \in R)
  BY <1>1, NatLessThanWellFounded, WFMin
<1>4. ASSUME NEW m \in T PROVE n <= m
  <2>1. m \in Nat /\ n \in Nat /\ ~(m < n)
    BY <1>2, <1>3
  <2> QED
    BY <2>1
<1> QED
  BY <1>4

(* The first of the highest exists whatever the candidates are (max() of a   *)
(* list is not asked for the maximum of nothing).                           *)
LEMMA FirstExists ==
  ASSUME NEW ms, NEW n \in Nat, NEW cs \in SUBSET (1..n), cs # {},
         \A i \in cs : ms[i].seq \in Nat
  PROVE  \E i \in cs : \A j \in cs : Windows!First(ms, i, j)
<1> DEFINE Upto(k) == cs \cap (1..k)
           Wrong == {k \in 0..n : /\ Upto(k) # {}
                                  /\ ~ \E i \in Upto(k) : \A j \in Upto(k) : Windows!First(ms, i, j)}
<1>1. SUFFICES Wrong = {}
  <2>1. Upto(n) = cs
    OBVIOUS
  <2>2. n \in 0..n
    OBVIOUS
  <2> QED
    BY <1>1, <2>1, <2>2
<1>2. SUFFICES ASSUME Wrong # {} PROVE FALSE
  OBVIOUS
<1>3. PICK k \in Wrong : \A l \in Wrong : k <= l
  <2>1. Wrong \in SUBSET Nat
    OBVIOUS
  <2> HIDE DEF Wrong
  <2> QED
    BY <1>2, <2>1, LeastNumber
<1>4. k \in 1..n /\ k-1 \in 0..n /\ k-1 \notin Wrong
  <2>1. k # 0
    OBVIOUS
  <2>2. k \in 0..n
    OBVIOUS
  <2>3. k-1 \notin Wrong
    <3> HIDE DEF Wrong
    <3> QED
      BY <1>3, <2>2
  <2> QED
    BY <2>1, <2>2, <2>3
<1>5. Upto(k) = IF k \in cs THEN Upto(k-1) \cup {k} ELSE Upto(k-1)
  BY <1>4
<1>6. \A i \in Upto(k-1) : i \in cs /\ i < k /\ i \in Nat
  BY <1>4
<1>7. CASE Upto(k-1) = {}
  <2>1. Upto(k) = {k} /\ k \in cs
    BY <1>5, <1>7
  <2>2. Windows!First(ms, k, k)
    BY <2>1, <1>4 DEF Windows!First
  <2> QED
    BY <2>1, <2>2
<1>8. CASE Upto(k-1) # {}
  <2>1. PICK i \in Upto(k-1) : \A j \in Upto(k-1) : Windows!First(ms, i, j)
    BY <1>4, <1>8
  <2>2. CASE k \notin cs
    BY <1>5, <2>1, <2>2
  <2>3. CASE k \in cs /\ ms[i].seq < ms[k].seq
    <3>1. \A j \in Upto(k) : Windows!First(ms, k, j)
      BY <1>4, <1>5, <1>6, <2>1, <2>3 DEF Windows!First
    <3> QED
      BY <1>5, <2>3, <3>1
  <2>4. CASE k \in cs /\ ms[k].seq <= ms[i].seq
    <3>1. ms[i].seq \in Nat /\ ms[k].seq \in Nat /\ i <= k
      BY <1>4, <1>6, <2>4
    <3>2. Windows!First(ms, i, k)
      BY <2>4, <3>1 DEF Windows!First
    <3>3. \A j \in Upto(k) : Windows!First(ms, i, j)
      BY <1>5, <2>1, <3>2
    <3> QED
      BY <1>5, <3>3
  <2> QED
    BY <1>4, <1>6, <2>2, <2>3, <2>4
<1> QED
  BY <1>7, <1>8

-----------------------------------------------------------------------------
(* The selection.                                                          *)

(* What is selected is a candidate that no other one precedes, unless there  *)
(* is none.                                                                *)
LEMMA BestIsFirst ==
  ASSUME NEW ms, NEW n \in Nat, DOMAIN ms = 1..n, \A i \in 1..n : ms[i].seq \in Nat
  PROVE  \/ Windows!Candidates(ms) = {} /\ Windows!SelectBest(ms) = Windows!Nothing
         \/ \E i \in Windows!Candidates(ms) : /\ Windows!SelectBest(ms) = ms[i]
                                              /\ \A j \in Windows!Candidates(ms) : Windows!First(ms, i, j)
<1>1. Windows!Candidates(ms) \in SUBSET (1..n)
  BY DEF Windows!Candidates
<1>2. CASE Windows!Candidates(ms) = {}
  BY <1>2 DEF Windows!SelectBest
<1>3. CASE Windows!Candidates(ms) # {}
  <2> DEFINE i == CHOOSE i \in Windows!Candidates(ms) : \A j \in Windows!Candidates(ms) : Windows!First(ms, i, j)
  <2>1. \E k \in Windows!Candidates(ms) : \A j \in Windows!Candidates(ms) : Windows!First(ms, k, j)
    BY <1>1, <1>3, FirstExists
  <2>2. i \in Windows!Candidates(ms) /\ \A j \in Windows!Candidates(ms) : Windows!First(ms, i, j)
    BY <2>1
  <2>3. Windows!SelectBest(ms) = ms[i]
    BY <1>3 DEF Windows!SelectBest
  <2> QED
    BY <2>2, <2>3
<1> QED
  BY <1>2, <1>3

(* _select_best on every window. *)
LEMMA SelectsBest ==
  ASSUME NEW ms \in Seq(Windows!Messages)
  PROVE  Windows!BestOf(ms)
<1> DEFINE best == Windows!SelectBest(ms)
           where(t) == {j \in DOMAIN ms : ms[j].text = t}
           texts(t) == {ms[i] : i \in {j \in DOMAIN ms : ms[j].text = t}}
<1>1. /\ DOMAIN ms = 1..Len(ms) /\ Len(ms) \in Nat
      /\ \A i \in 1..Len(ms) : ms[i] \in Windows!Messages
  OBVIOUS
<1>2. \A m \in Windows!Messages : m.seq \in Nat /\ m.text \in {"blank", "junk", "real"}
  BY SeqsAssumption DEF Windows!Messages, Windows!Texts
<1>3. /\ Windows!Candidates(ms) = IF where("real") # {} THEN where("real") ELSE where("junk")
      /\ \A t : texts(t) = {} <=> where(t) = {}
  BY <1>1, <1>2 DEF Windows!Candidates, Windows!IsValid, Windows!IsNonEmpty
<1>4. CASE Windows!Candidates(ms) = {}
  <2>1. best = Windows!Nothing /\ texts("real") = {} /\ texts("junk") = {}
    BY <1>1, <1>2, <1>3, <1>4, BestIsFirst
  <2>2. \A j \in DOMAIN ms : ms[j].text # best.text
    BY <1>1, <1>2, <2>1 DEF Windows!Nothing
  <2> QED
    BY <2>1, <2>2 DEF Windows!BestOf
<1>5. CASE Windows!Candidates(ms) # {}
  <2>1. PICK i \in Windows!Candidates(ms) : /\ best = ms[i]
                                            /\ \A j \in Windows!Candidates(ms) : Windows!First(ms, i, j)
    BY <1>1, <1>2, <1>5, BestIsFirst
  <2> HIDE DEF best
  <2>2. PICK t \in {"real", "junk"} :
          /\ Windows!Candidates(ms) = where(t)
          /\ t = "junk" => where("real") = {}
    BY <1>3
  <2>3. i \in 1..Len(ms) /\ best.text = t /\ best \in texts(t)
    BY <1>1, <2>1, <2>2
  <2>4. \A j \in where(t) : ms[j].seq <= best.seq /\ (ms[j].seq = best.seq => i <= j)
    <3> SUFFICES ASSUME NEW j \in where(t)
                 PROVE  ms[j].seq <= best.seq /\ (ms[j].seq = best.seq => i <= j)
      OBVIOUS
    <3>1. /\ ms[j].seq \in Nat /\ best.seq \in Nat /\ i \in Nat /\ j \in Nat
          /\ Windows!First(ms, i, j)
      BY <1>1, <1>2, <2>1, <2>2, <2>3
    <3> QED
      BY <2>1, <3>1 DEF Windows!First
  <2>5. \A m \in texts(t) : m.seq <= best.seq
    BY <2>4
  <2>6. \A j \in DOMAIN ms :
          ms[j].text = best.text /\ ms[j].seq = best.seq => \E k \in 1..j : ms[k] = best
    <3> SUFFICES ASSUME NEW j \in DOMAIN ms,
                        ms[j].text = best.text, ms[j].seq = best.seq
                 PROVE  \E k \in 1..j : ms[k] = best
      OBVIOUS
    <3>1. i <= j /\ i \in 1..Len(ms) /\ j \in 1..Len(ms)
      BY <1>1, <2>3, <2>4
    <3> QED
      BY <2>1, <3>1
  <2>7. t = "junk" => texts("real") = {}
    BY <1>3, <2>2
  <2>8. t = "real" => texts("real") # {}
    BY <2>3
  <2> QED
    BY <2>2, <2>3, <2>5, <2>6, <2>7, <2>8 DEF Windows!BestOf, best
<1> QED
  BY <1>4, <1>5

-----------------------------------------------------------------------------
(* The tasks.                                                              *)

(* _tasks has exactly the tasks that will close a window, each under the     *)
(* msg_id it was started for, and exactly the windows with a message.       *)
TasksInv ==
  /\ TypeOK
  /\ \A id \in MsgIds, t \in Timers : task[id] = t <=> t \in Live /\ of[t] = id
  /\ \A id \in MsgIds : buffers[id] # <<>> <=> task[id] # NoTimer

(* The windows are open that have a task in _tasks. *)
LEMMA OpenWindows ==
  ASSUME TasksInv
  PROVE  {of[t] : t \in Live} = {id \in MsgIds : task[id] # NoTimer}
BY TimersAssumption DEF TasksInv, TypeOK, Live

(* A task that is done has a msg_id, whichever it is. *)
LEMMA NoIdType == NoId \in MsgIds
BY MsgIdsAssumption DEF NoId

(* At first there are neither tasks nor messages. *)
LEMMA InitTasks == Init => TasksInv
<1> SUFFICES ASSUME Init PROVE TasksInv
  OBVIOUS
<1> QED
  BY NoIdType, TimersAssumption DEF Init, TasksInv, TypeOK, Live

(* No order of events, timers and cancellations breaks that. *)
LEMMA TasksStep == TasksInv /\ [Next]_avars => TasksInv'
<1> SUFFICES ASSUME TasksInv, [Next]_avars PROVE TasksInv'
  OBVIOUS
<1> USE NoIdType, TimersAssumption
<1>1. ASSUME NEW id \in MsgIds, NEW m \in Windows!Messages, NEW s \in Windows!States,
             AddEvent(id, m, s)
      PROVE  TasksInv'
  <2>1. CASE Restart(id, m)
    <3>1. PICK t \in Timers :
            /\ at[t] = "done"
            /\ at' = [Cancelled({task[id]}) EXCEPT ![t] = "sleeping"]
            /\ task' = [task EXCEPT ![id] = t]
            /\ of' = [of EXCEPT ![t] = id]
            /\ buffers' = [buffers EXCEPT ![id] = Append(@, m)]
      BY <2>1 DEF Restart
    <3>2. buffers[id] \in Seq(Windows!Messages)
      BY DEF TasksInv, TypeOK
    <3>3. Append(buffers[id], m) \in Seq(Windows!Messages) /\ Append(buffers[id], m) # <<>>
      BY <3>2
    <3>4. TypeOK'
      BY <3>1, <3>3 DEF TasksInv, TypeOK, Cancelled
    <3>5. Live' = (Live \ {task[id]}) \cup {t}
      BY <3>1 DEF TasksInv, TypeOK, Cancelled, Live
    <3>6. t \notin Live
      BY <3>1 DEF Live
    <3>7. \A i \in MsgIds, u \in Timers : task'[i] = u <=> u \in Live' /\ of'[u] = i
      BY <3>1, <3>5, <3>6 DEF TasksInv, TypeOK
    <3>8. \A i \in MsgIds : buffers'[i] # <<>> <=> task'[i] # NoTimer
      BY <3>1, <3>3 DEF TasksInv, TypeOK
    <3> QED
      BY <3>4, <3>7, <3>8 DEF TasksInv
  <2>2. CASE UNCHANGED avars
    BY <2>2 DEF avars, TasksInv, TypeOK, Live
  <2> QED
    BY <1>1, <2>1, <2>2 DEF AddEvent
<1>2. ASSUME NEW t \in Timers, SleepEnds(t) PROVE TasksInv'
  <2>1. Live' = Live
    BY <1>2 DEF SleepEnds, TasksInv, TypeOK, Live
  <2> QED
    BY <1>2, <2>1 DEF SleepEnds, TasksInv, TypeOK
<1>3. ASSUME NEW t \in Timers, FinalizeLater(t) PROVE TasksInv'
  <2>1. t \in Live /\ of[t] \in MsgIds /\ task[of[t]] = t
    BY <1>3 DEF FinalizeLater, TasksInv, TypeOK, Live
  <2>2. /\ Live' = Live \ {t}
        /\ \A u \in Timers \ {t} : of'[u] = of[u]
    BY <1>3 DEF FinalizeLater, TasksInv, TypeOK, Live
  <2>3. TypeOK'
    <3>1. <<>> \in Seq(Windows!Messages)
      OBVIOUS
    <3>2. /\ buffers' = [buffers EXCEPT ![of[t]] = <<>>]
          /\ task' = [task EXCEPT ![of[t]] = NoTimer]
          /\ \E p \in {"emitting", "done"} : at' = [at EXCEPT ![t] = p]
          /\ \E i \in MsgIds : of' = [of EXCEPT ![t] = i]
      BY <1>3, <2>1 DEF FinalizeLater, TasksInv, TypeOK
    <3> QED
      BY <2>1, <3>1, <3>2 DEF TasksInv, TypeOK
  <2>4. \A i \in MsgIds, u \in Timers : task'[i] = u <=> u \in Live' /\ of'[u] = i
    BY <1>3, <2>1, <2>2 DEF FinalizeLater, TasksInv, TypeOK
  <2>5. \A i \in MsgIds : buffers'[i] # <<>> <=> task'[i] # NoTimer
    BY <1>3, <2>1 DEF FinalizeLater, TasksInv, TypeOK
  <2> QED
    BY <2>3, <2>4, <2>5 DEF TasksInv
<1>4. ASSUME NEW t \in Timers, TaskEnds(t) PROVE TasksInv'
  <2>1. t \notin Live /\ Live' = Live /\ \A u \in Live : of'[u] = of[u]
    BY <1>4 DEF TaskEnds, TasksInv, TypeOK, Live
  <2>2. TypeOK'
    BY <1>4 DEF TaskEnds, TasksInv, TypeOK
  <2> QED
    BY <1>4, <2>1, <2>2 DEF TaskEnds, TasksInv
<1>5. CASE CancelAll
  <2>1. Live' = {}
    BY <1>5 DEF CancelAll, Cancelled, TasksInv, TypeOK, Live
  <2> QED
    BY <1>5, <2>1 DEF CancelAll, Cancelled, TasksInv, TypeOK
<1>6. CASE UNCHANGED avars
  BY <1>6 DEF avars, TasksInv, TypeOK, Live
<1> QED
  BY <1>1, <1>2, <1>3, <1>4, <1>5, <1>6 DEF Next

(* A step of the tasks is a step of the windows, or none. *)
LEMMA WindowsStep ==
  TasksInv /\ TasksInv' /\ [Next]_avars => [Windows!AggNext]_(Windows!wvars)
<1> SUFFICES ASSUME TasksInv, TasksInv', [Next]_avars
             PROVE  [Windows!AggNext]_(Windows!wvars)
  OBVIOUS
<1> DEFINE Open == {of[t] : t \in Live}
<1>o. /\ Open = {id \in MsgIds : task[id] # NoTimer}
      /\ Open' = {id \in MsgIds : task'[id] # NoTimer}
  <2>1. Open' = {id \in MsgIds : task'[id] # NoTimer}
    BY TimersAssumption DEF Open, TasksInv, TypeOK, Live
  <2> QED
    BY <2>1, OpenWindows
<1> HIDE DEF Open
<1>0. UNCHANGED <<buffers, Open>> => UNCHANGED Windows!wvars
  BY DEF Windows!wvars, Open
<1> USE TimersAssumption DEF TasksInv, TypeOK
<1>1. ASSUME NEW id \in MsgIds, NEW m \in Windows!Messages, NEW s \in Windows!States,
             AddEvent(id, m, s)
      PROVE  Windows!AddEvent(id, m, s)
  <2>1. CASE s = "final"
    <3>1. PICK t \in Timers : /\ task' = [task EXCEPT ![id] = t]
                              /\ buffers' = [buffers EXCEPT ![id] = Append(@, m)]
      BY <1>1, <2>1 DEF AddEvent, Restart
    <3>2. Open' = Open \cup {id}
      BY <1>o, <3>1
    <3> QED
      BY <1>1, <2>1, <3>1, <3>2 DEF AddEvent, Windows!AddEvent, Open
  <2>2. CASE s # "final"
    <3>1. UNCHANGED <<buffers, Open>>
      BY <1>1, <1>o, <2>2 DEF AddEvent, avars
    <3> QED
      BY <1>1, <1>0, <2>2, <3>1 DEF AddEvent, Windows!AddEvent
  <2> QED
    BY <2>1, <2>2
<1>2. ASSUME NEW t \in Timers, NEW id \in MsgIds, of[t] = id, FinalizeLater(t)
      PROVE  Windows!FinalizeLater(id)
  <2>1. task[id] = t
    BY <1>2 DEF FinalizeLater, Live
  <2>2. id \in Open /\ Open' = Open \ {id}
    BY <1>2, <1>o, <2>1 DEF FinalizeLater
  <2> QED
    BY <1>2, <2>2 DEF FinalizeLater, Windows!FinalizeLater, Open
<1>3. ASSUME NEW t \in Timers, SleepEnds(t) \/ TaskEnds(t) PROVE UNCHANGED Windows!wvars
  BY <1>0, <1>3, <1>o DEF SleepEnds, TaskEnds
<1>4. CASE CancelAll
  <2>1. Open' = {}
    BY <1>4, <1>o DEF CancelAll
  <2>2. Windows!CancelAll
    BY <1>4, <2>1 DEF CancelAll, Windows!CancelAll, Open
  <2> QED
    BY <2>2 DEF Windows!AggNext
<1>5. CASE UNCHANGED avars
  BY <1>5, <1>0, <1>o DEF avars
<1> QED
  <2>1. ASSUME NEW t \in Timers, FinalizeLater(t) PROVE Windows!AggNext
    <3>1. PICK id \in MsgIds : of[t] = id
      OBVIOUS
    <3>2. Windows!FinalizeLater(id)
      BY <1>2, <2>1, <3>1
    <3> QED
      BY <3>2 DEF Windows!AggNext
  <2>2. ASSUME NEW id \in MsgIds, NEW m \in Windows!Messages, NEW s \in Windows!States,
               AddEvent(id, m, s)
        PROVE  Windows!AggNext
    <3>1. Windows!AddEvent(id, m, s)
      BY <1>1, <2>2
    <3> QED
      BY <3>1 DEF Windows!AggNext
  <2> QED
    BY <1>3, <1>4, <1>5, <2>1, <2>2 DEF Next

-----------------------------------------------------------------------------
(* The theorems.                                                           *)

(* The tasks and the entries of both dictionaries always agree. *)
LEMMA TasksKept == Spec => []TasksInv
BY InitTasks, TasksStep, PTL DEF Spec

(* In whatever order cancellations and ends of sleeps reach the tasks, and    *)
(* however many tasks are still to learn of theirs, the tasks implement the  *)
(* windows: no event is left in a buffer nobody will empty, no window is     *)
(* closed by a task that has been replaced, and none is closed twice         *)
(* (add_event, _finalize_later, cancel_all).                                *)
THEOREM TasksImplementWindows == Spec => RefinesWindows
<1>1. Init => Windows!AggInit
  <2> SUFFICES ASSUME Init PROVE Windows!AggInit
    OBVIOUS
  <2>1. {of[t] : t \in Live} = {}
    BY DEF Init, Live
  <2> QED
    BY <2>1 DEF Init, Windows!AggInit
<1> QED
  BY <1>1, TasksKept, WindowsStep, PTL DEF Spec, Windows!AggSpec, RefinesWindows

(* Whatever is in a window, and in whatever order it came, a task that closes *)
(* it finds a message and emits the best there is (_finalize_later,          *)
(* _select_best).                                                          *)
THEOREM BestEmitted == Spec => EmitsBest
<1>1. ASSUME TasksInv, NEW t \in Timers, FinalizeLater(t)
      PROVE  buffers[of[t]] # <<>> /\ Windows!BestOf(buffers[of[t]])
  <2>1. of[t] \in MsgIds /\ task[of[t]] = t /\ buffers[of[t]] \in Seq(Windows!Messages)
    BY <1>1 DEF FinalizeLater, TasksInv, TypeOK, Live
  <2>2. buffers[of[t]] # <<>>
    BY <1>1, <2>1, TimersAssumption DEF TasksInv
  <2> QED
    BY <2>1, <2>2, SelectsBest
<1>2. TasksInv => [\A t \in Timers : FinalizeLater(t) =>
                      buffers[of[t]] # <<>> /\ Windows!BestOf(buffers[of[t]])]_avars
  BY <1>1
<1> QED
  BY <1>2, TasksKept, PTL DEF EmitsBest
=============================================================================

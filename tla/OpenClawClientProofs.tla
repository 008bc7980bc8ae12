------------------------ MODULE OpenClawClientProofs ------------------------
(***************************************************************************)
(* What holds of the client for any requests, runs of the gateway, number  *)
(* of callers and size of the windows.                                     *)
(*                                                                         *)
(* LockInv says who holds _send_lock and who queues for it; the rest is    *)
(* about what is left of a call when others run: FreshInv for the          *)
(* fallbacks, WaitInv for a client with one caller (ws_manager's send      *)
(* lock), OwnInv for a gateway that speaks only of the call in progress.   *)
(***************************************************************************)
EXTENDS OpenClawClient, FiniteSetTheorems, WellFoundedInduction, TLAPS

Finals == [seq : 1..2, text : FinalTexts \cup {"junk", "real"}, run : Runs]

TypeInv ==
  /\ TypeOK
  /\ buffers \in [Ids -> Seq(Finals)]

(* The calls in a queue; a queue that has each of them once. *)
In(q, r) == \E i \in DOMAIN q : q[i] = r
Once(q) == \A i, j \in DOMAIN q : q[i] = q[j] => i = j

(* The calls that wait for the lock are in the queue, once; the one that has *)
(* it waits for its answer, and events are for that call or for nobody.     *)
LockInv ==
  /\ \A r \in Requests : pc[r] = "queued" <=> In(queue, r)
  /\ Once(queue)
  /\ \A r \in Requests : pc[r] = "waiting" <=> holder = r
  /\ ActiveHoldsLock

(* A call that has not got in is unknown to the gateway and has no answer;   *)
(* the runs that had ended before a call was made have ended; the fallbacks  *)
(* that sleep are for runs that ended after it.                             *)
FreshInv ==
  /\ \A r \in Requests : pc[r] \in {"idle", "queued"} => fut[r] = Unset /\ gw[r] = {}
  /\ \A r \in Requests : \A run \in ended[r] : "end" \in gw[run]
  /\ \A f \in fallbacks : pc[f[2]] \notin {"idle", "queued"} /\ f[1] \notin ended[f[2]]
  /\ FallbackFresh

(* With one caller nobody queues. *)
WaitInv ==
  /\ \A r \in Requests : pc[r] # "queued"
  /\ WaiterReachable

(* When only the call in progress is spoken of, whatever is kept for a call   *)
(* is its own.                                                              *)
OwnInv ==
  /\ \A r \in Requests : fut[r].run \in {r, None} /\ out[r].run \in {r, None}
  /\ \A f \in fallbacks : f[1] = f[2]
  /\ \A r \in Requests : \A i \in DOMAIN buffers[r] : buffers[r][i].run = r

-----------------------------------------------------------------------------
(* Operators.                                                              *)

(* The results a call may get, the empty one apart. *)
Answers == {v \in Results : v.kind # "unset"}

(* A result is what it was made of. *)
LEMMA ResultFields ==
  /\ \A k, run : Result(k, run).kind = k /\ Result(k, run).run = run
  /\ \A k \in Kinds, run \in Runs \cup {None} :
       Result(k, run) \in Results /\ (k # "unset" => Result(k, run) \in Answers)
  /\ Unset \in Results /\ Unset \notin Answers
BY DEF Result, Results, Answers, Unset, Kinds

(* Among natural numbers there is a least one. *)
LEMMA LeastNumber ==
  ASSUME NEW T \in SUBSET Nat, T # {}
  PROVE  \E n \in T : \A m \in T : n <= m
<1> DEFINE R == {ss \in Nat \X Nat : ss[1] < ss[2]}
<1>1. R = OpToRel(<, Nat)
  BY Zenon DEF OpToRel
<1>2. \A m, n \in Nat : m < n => <<m, n>> \in R
  OBVIOUS
<1> HIDE DEF R
<1>3. PICK n \in T : \A m \in T : ~ (<<m, n>> \in R)
  BY <1>1, NatLessThanWellFounded, WFMin
<1>4. ASSUME NEW m \in T PROVE n <= m
  <2>1. m \in Nat /\ n \in Nat /\ ~(m < n)
    BY <1>2, <1>3
  <2> QED
    BY <2>1
<1> QED
  BY <1>4

(* What a window emits is one of its messages, or nothing. *)
LEMMA BestIsOfWindow ==
  ASSUME NEW ms \in Seq(Finals), Agg!SelectBest(ms) # Agg!Nothing
  PROVE  \E i \in DOMAIN ms : Agg!SelectBest(ms) = ms[i]
<1> DEFINE cs == Agg!Candidates(ms)
           late == {i \in cs : ms[i].seq = 2}
<1>1. /\ DOMAIN ms = 1..Len(ms) /\ Len(ms) \in Nat
      /\ \A i \in DOMAIN ms : ms[i].seq \in 1..2
  <2>1. DOMAIN ms = 1..Len(ms) /\ Len(ms) \in Nat /\ \A i \in DOMAIN ms : ms[i] \in Finals
    OBVIOUS
  <2> QED
    BY <2>1 DEF Finals
<1>2. cs \subseteq DOMAIN ms /\ cs # {}
  BY DEF Agg!Candidates, Agg!SelectBest
<1> HIDE DEF cs
<1>3. \E i \in cs : \A j \in cs : Agg!First(ms, i, j)
  <2>1. CASE late # {}
    <3>1. late \in SUBSET Nat
      BY <1>1, <1>2
    <3>2. PICK i \in late : \A j \in late : i <= j
      BY <2>1, <3>1, LeastNumber
    <3>3. \A j \in cs : Agg!First(ms, i, j)
      BY <1>1, <1>2, <3>2 DEF Agg!First
    <3> QED
      BY <3>2, <3>3
  <2>2. CASE late = {}
    <3>1. cs \in SUBSET Nat
      BY <1>1, <1>2
    <3>2. PICK i \in cs : \A j \in cs : i <= j
      BY <1>2, <3>1, LeastNumber
    <3>3. \A j \in cs : ms[j].seq = 1
      BY <1>1, <1>2, <2>2
    <3>4. \A j \in cs : Agg!First(ms, i, j)
      BY <3>2, <3>3 DEF Agg!First
    <3> QED
      BY <3>2, <3>4
  <2> QED
    BY <2>1, <2>2
<1>4. Agg!SelectBest(ms) = ms[CHOOSE i \in cs : \A j \in cs : Agg!First(ms, i, j)]
  BY <1>2 DEF Agg!SelectBest, cs
<1> QED
  BY <1>2, <1>3, <1>4

-----------------------------------------------------------------------------
(* The queue of the lock.                                                  *)

(* A call that joins the queue is in it once. *)
LEMMA QueueAppend ==
  ASSUME NEW q \in Seq(Requests), NEW r \in Requests, ~In(q, r), Once(q)
  PROVE  /\ Append(q, r) \in Seq(Requests)
         /\ \A s : In(Append(q, r), s) <=> s = r \/ In(q, s)
         /\ Once(Append(q, r))
<1> DEFINE a == Append(q, r)
<1>1. /\ a \in Seq(Requests) /\ Len(a) = Len(q) + 1 /\ Len(q) \in Nat
      /\ DOMAIN a = 1..(Len(q) + 1) /\ DOMAIN q = 1..Len(q)
      /\ a[Len(q) + 1] = r /\ \A i \in 1..Len(q) : a[i] = q[i]
  OBVIOUS
<1> HIDE DEF a
<1>2. \A i \in DOMAIN a : i \in DOMAIN q \/ i = Len(q) + 1
  BY <1>1
<1>3. \A s : In(a, s) <=> s = r \/ In(q, s)
  BY <1>1, <1>2 DEF In
<1>4. Once(a)
  BY <1>1, <1>2 DEF In, Once
<1> QED
  BY <1>1, <1>3, <1>4 DEF a

(* The call at the head leaves the queue, and only that one. *)
LEMMA QueueTail ==
  ASSUME NEW q \in Seq(Requests), q # <<>>, Once(q)
  PROVE  /\ Tail(q) \in Seq(Requests)
         /\ \A s : In(Tail(q), s) <=> s # Head(q) /\ In(q, s)
         /\ Once(Tail(q))
<1> DEFINE t == Tail(q)
<1>1. /\ t \in Seq(Requests) /\ Len(t) = Len(q) - 1 /\ Len(q) \in Nat \ {0}
      /\ DOMAIN t = 1..(Len(q) - 1) /\ DOMAIN q = 1..Len(q)
      /\ Head(q) = q[1] /\ \A i \in 1..(Len(q) - 1) : t[i] = q[i + 1]
  OBVIOUS
<1> HIDE DEF t
<1>2. \A i \in DOMAIN t : i + 1 \in DOMAIN q /\ i + 1 # 1
  BY <1>1
<1>3. \A i \in DOMAIN q : i = 1 \/ (i - 1 \in DOMAIN t /\ t[i - 1] = q[i])
  BY <1>1
<1>4. ASSUME NEW s PROVE In(t, s) <=> s # Head(q) /\ In(q, s)
  <2>1. ASSUME NEW i \in DOMAIN t, t[i] = s
        PROVE  s # Head(q) /\ In(q, s)
    <3>1. t[i] = q[i + 1] /\ 1 \in DOMAIN q /\ i + 1 \in DOMAIN q /\ i + 1 # 1
      BY <1>1, <1>2
    <3> QED
      BY <1>1, <2>1, <3>1 DEF In, Once
  <2>2. ASSUME NEW i \in DOMAIN q, q[i] = s, s # Head(q)
        PROVE  In(t, s)
    BY <1>1, <1>3, <2>2 DEF In
  <2> QED
    BY <2>1, <2>2 DEF In
<1>5. Once(t)
  BY <1>1, <1>2 DEF Once
<1> QED
  BY <1>1, <1>4, <1>5 DEF t

-----------------------------------------------------------------------------
(* The steps that are not a call's own.                                    *)

(* A run the gateway may speak of. *)
Spoken(run) ==
  /\ run \in Runs
  /\ IF run \in Requests THEN gw[run] # {} ELSE ProEvents \ {"cron"} # {}
  /\ Late \/ ~Returned(run)

(* What a pending future may be resolved with: nothing of a run, what an      *)
(* event of a run says, what is in the window of the call, or the fallback  *)
(* that sleeps for it.                                                      *)
Origin(v) ==
  \/ v.kind # "fallback" /\ v.run = None
  \/ v.kind # "fallback" /\ Spoken(v.run)
  \/ v.kind # "fallback" /\ \E i \in DOMAIN buffers[active] : buffers[active][i].run = v.run
  \/ <<v.run, active>> \in fallbacks

Resolves == Pending /\ \E v \in Answers : Resolve(v) /\ Origin(v)

(* All these steps do to the calls is to resolve the pending future, to       *)
(* forget which call is active, to tell more of the runs that have begun,   *)
(* and to leave fallbacks and finals for the call that is active.           *)
Besides ==
  /\ UNCHANGED <<pc, queue, holder, out, ended>>
  /\ fut' = fut \/ Resolves
  /\ active' = active \/ (active' = None /\ (~Pending \/ Resolves))
  /\ listener' # "done" \/ listener = "done" \/ ~Pending \/ Resolves
  /\ \A run \in Runs : gw[run] \subseteq gw'[run]
  /\ \A r \in Requests : gw[r] = {} => gw'[r] = {}
  /\ \A f \in fallbacks' :
       \/ f \in fallbacks
       \/ /\ Pending /\ f[2] = active
          /\ Spoken(f[1]) /\ "end" \notin gw[f[1]]
  /\ \A id \in Ids :
       \/ buffers'[id] \in {buffers[id], <<>>}
       \/ /\ id = IF active = None THEN Proactive ELSE active
          /\ \E m \in Finals : Spoken(m.run) /\ buffers'[id] = Append(buffers[id], m)

(* A resolved future has its type. *)
LEMMA ResolveType ==
  ASSUME TypeOK, Pending, NEW v \in Answers, Resolve(v)
  PROVE  fut' \in [Requests -> Results]
BY DEF TypeOK, Resolve, Answers, Pending

(* The connection and the listener (_listen_loop, close). *)
LEMMA ConnectionStep ==
  ASSUME TypeInv, LoseConnection \/ ListenerExit \/ Close \/ CloseSocket
  PROVE  TypeInv' /\ Besides
<1> USE DEF TypeInv, TypeOK
<1>1. CASE LoseConnection
  BY <1>1 DEF LoseConnection, callVars, aggVars, Besides
<1>2. CASE ListenerExit
  <2>1. Result("lost", None) \in Answers
    BY ResultFields DEF Kinds
  <2>2. fut' = fut \/ (Pending /\ Resolve(Result("lost", None)))
    BY <1>2 DEF ListenerExit
  <2>3. fut' \in [Requests -> Results]
    BY <2>1, <2>2, ResolveType
  <2>4. /\ UNCHANGED <<ws, closing, pc, queue, holder, out, timedOut, ended, active,
                      fallbacks, buffers, tasks, gw, pushed>>
        /\ listener' = "done" /\ connected' = FALSE /\ texts' = {}
    BY <1>2 DEF ListenerExit, callVars, aggVars
  <2>5. Origin(Result("lost", None))
    BY ResultFields DEF Origin
  <2>6. Besides
    BY <1>2, <2>1, <2>4, <2>5 DEF Besides, Resolves, ListenerExit
  <2> QED
    BY <2>3, <2>4, <2>6
<1>3. CASE Close
  <2>1. /\ UNCHANGED <<pc, queue, holder, out, timedOut, ended, active, fut, fallbacks,
                      gw, pushed>>
        /\ connected' = FALSE /\ texts' = {}
        /\ ws' \in {"open", "closed"}
        /\ listener' = "cancelled" \/ (listener' = "done" /\ listener = "done")
        /\ closing' \in {"waiting", "done"}
        /\ tasks' = {} /\ buffers' = [id \in Ids |-> <<>>]
    BY <1>3 DEF Close, callVars, Agg!CancelAll
  <2>2. [id \in Ids |-> <<>>] \in [Ids -> Seq(Finals)]
    OBVIOUS
  <2>3. TypeInv'
    BY <2>1, <2>2
  <2>4. Besides
    BY <2>1 DEF Besides
  <2> QED
    BY <2>3, <2>4
<1>4. CASE CloseSocket
  BY <1>4 DEF CloseSocket, callVars, aggVars, Besides
<1> QED
  BY <1>1, <1>2, <1>3, <1>4

(* An event of a run is one the gateway has not told yet, of a run it knows. *)
LEMMA EmitsStep ==
  ASSUME TypeInv, NEW run \in Runs, NEW e \in Events, NEW before, Emits(run, e, before)
  PROVE  /\ gw' = [gw EXCEPT ![run] = @ \cup {e}]
         /\ gw' \in [Runs -> SUBSET Events]
         /\ e \notin gw[run]
         /\ e # "cron" => Spoken(run)
         /\ \A q \in Runs : gw[q] \subseteq gw'[q]
         /\ \A r \in Requests : gw[r] = {} => gw'[r] = {}
<1>1. \/ run \in Requests /\ "received" \in gw[run]
      \/ run \notin Requests /\ e \in ProEvents
  BY DEF Emits
<1>2. e # "cron" => Spoken(run)
  BY <1>1 DEF Spoken, Emits
<1>3. \A r \in Requests : gw[r] = {} => r # run
  BY <1>1
<1>4. gw' = [gw EXCEPT ![run] = @ \cup {e}] /\ e \notin gw[run]
  BY DEF Emits
<1> QED
  BY <1>2, <1>3, <1>4 DEF TypeInv, TypeOK, Runs

(* The events that touch no window (_dispatch). *)
LEMMA DispatchStep ==
  ASSUME TypeInv, NEW run \in Runs,
         \/ run \in Requests /\ DispatchRejection(run)
         \/ DispatchCron(run) \/ DispatchText(run) \/ DispatchError(run)
         \/ DispatchEnd(run)
  PROVE  TypeInv' /\ Besides
<1> USE DEF TypeInv, TypeOK
<1>e. Events = {"received", "cron", "rejected", "text", "early", "final", "end", "error"}
  BY DEF Events
<1>1. CASE run \in Requests /\ DispatchRejection(run)
  <2>1. Result("rejected", run) \in Answers
    BY ResultFields DEF Kinds
  <2>2. fut' = fut \/ (Pending /\ Resolve(Result("rejected", run)))
    BY <1>1 DEF DispatchRejection
  <2>3. fut' \in [Requests -> Results]
    BY <2>1, <2>2, ResolveType
  <2>4. /\ UNCHANGED <<connected, ws, listener, closing, pc, queue, holder, out, timedOut,
                      ended, texts, fallbacks, buffers, tasks, pushed>>
        /\ active' = None
        /\ Emits(run, "rejected", {"text", "early", "final", "end"})
    BY <1>1 DEF DispatchRejection, connVars, callVars, aggVars
  <2>5. Origin(Result("rejected", run))
    BY <1>e, <2>4, EmitsStep, ResultFields DEF Origin
  <2>6. Pending => Resolves
    BY <1>1, <2>1, <2>5 DEF Resolves, DispatchRejection
  <2>7. Besides
    BY <1>e, <2>2, <2>4, <2>6, EmitsStep DEF Besides
  <2> QED
    BY <1>e, <2>3, <2>4, <2>7, EmitsStep
<1>2. CASE DispatchCron(run)
  <2>1. /\ UNCHANGED <<connected, ws, listener, closing, pc, queue, holder, out, timedOut,
                      ended, active, fut, texts, fallbacks, buffers, tasks>>
        /\ pushed' = pushed \cup {run} /\ Emits(run, "cron", {})
    BY <1>2 DEF DispatchCron, connVars, callVars, aggVars
  <2> QED
    BY <1>e, <2>1, EmitsStep DEF Besides
<1>3. CASE DispatchText(run)
  <2>1. /\ UNCHANGED <<connected, ws, listener, closing, pc, queue, holder, out, timedOut,
                      ended, active, fut, fallbacks, buffers, tasks, pushed>>
        /\ texts' = texts \cup {run} /\ Emits(run, "text", {"end", "final"})
    BY <1>3 DEF DispatchText, connVars, callVars, aggVars
  <2> QED
    BY <1>e, <2>1, EmitsStep DEF Besides
<1>4. CASE DispatchError(run)
  <2>1. Result("failure", run) \in Answers
    BY ResultFields DEF Kinds
  <2>2. fut' = fut \/ (Pending /\ Resolve(Result("failure", run)))
    BY <1>4 DEF DispatchError
  <2>3. fut' \in [Requests -> Results]
    BY <2>1, <2>2, ResolveType
  <2>4. /\ UNCHANGED <<connected, ws, listener, closing, pc, queue, holder, out, timedOut,
                      ended, active, texts, fallbacks, buffers, tasks, pushed>>
        /\ Emits(run, "error", {"end", "final"})
    BY <1>4 DEF DispatchError, connVars, callVars, aggVars
  <2>5. Origin(Result("failure", run))
    BY <1>e, <2>4, EmitsStep, ResultFields DEF Origin
  <2>6. fut' = fut \/ Resolves
    BY <2>1, <2>2, <2>5 DEF Resolves
  <2>7. Besides
    BY <1>e, <2>4, <2>6, EmitsStep DEF Besides
  <2> QED
    BY <1>e, <2>3, <2>4, <2>7, EmitsStep
<1>5. CASE DispatchEnd(run)
  <2>1. /\ UNCHANGED <<connected, ws, listener, closing, pc, queue, holder, out, timedOut,
                      ended, active, fut, texts, buffers, tasks, pushed>>
        /\ fallbacks' = fallbacks \/ (Pending /\ fallbacks' = fallbacks \cup {<<run, active>>})
        /\ Emits(run, "end", {})
    BY <1>5 DEF DispatchEnd, connVars, callVars, aggVars
  <2>2. fallbacks' \subseteq Runs \X Requests
    BY <2>1 DEF Pending
  <2>3. TypeInv'
    BY <1>e, <2>1, <2>2, EmitsStep
  <2>4. Spoken(run) /\ "end" \notin gw[run]
    BY <1>e, <2>1, EmitsStep
  <2>5. Besides
    BY <1>e, <2>1, <2>4, EmitsStep DEF Besides
  <2> QED
    BY <2>3, <2>5
<1> QED
  BY <1>1, <1>2, <1>3, <1>4, <1>5

(* A final joins the window of the call that is active, or the proactive one *)
(* (_dispatch, chat).                                                       *)
LEMMA ChatStep ==
  ASSUME TypeInv, NEW run \in Runs, DispatchEarly(run) \/ DispatchFinal(run)
  PROVE  TypeInv' /\ Besides
<1> DEFINE id == IF active = None THEN Proactive ELSE active
<1>1. id \in Ids
  BY DEF TypeInv, TypeOK, Ids
<1>2. PICK seq \in 1..2, text \in FinalTexts \cup {"junk"}, e \in {"early", "final"},
           before \in SUBSET Events :
        ChatFinal(run, seq, text) /\ Emits(run, e, before)
  BY DEF DispatchEarly, DispatchFinal, Events
<1> DEFINE m == [seq |-> seq, text |-> IF run \in texts THEN "real" ELSE text, run |-> run]
<1>3. m \in Finals /\ m.run = run
  BY DEF Finals
<1>4. /\ UNCHANGED <<connected, ws, listener, closing, pc, queue, holder, out, timedOut,
                    ended, active, fut, texts, fallbacks, pushed>>
      /\ Agg!AddEvent(id, m, "final")
  BY <1>2 DEF ChatFinal, connVars, callVars
<1> HIDE DEF m
<1>5. /\ buffers' = [buffers EXCEPT ![id] = Append(@, m)]
      /\ tasks' = tasks \cup {id}
  BY <1>4 DEF Agg!AddEvent
<1>6. e \in Events
  BY DEF Events
<1>7. buffers' \in [Ids -> Seq(Finals)]
  <2>1. \A q \in Seq(Finals) : Append(q, m) \in Seq(Finals)
    BY <1>3
  <2> QED
    BY <1>1, <1>5, <2>1 DEF TypeInv
<1>8. TypeInv'
  BY <1>1, <1>2, <1>4, <1>5, <1>6, <1>7, EmitsStep DEF TypeInv, TypeOK
<1>9. Spoken(m.run)
  BY <1>2, <1>3, <1>6, EmitsStep
<1>10. \A k \in Ids : \/ buffers'[k] = buffers[k]
                      \/ k = id /\ buffers'[k] = Append(buffers[k], m)
  BY <1>5 DEF TypeInv
<1>11. Besides
  BY <1>2, <1>3, <1>4, <1>6, <1>9, <1>10, EmitsStep DEF Besides
<1> QED
  BY <1>8, <1>11

(* The text of a run is forgotten after its final. *)
LEMMA ForgetStep ==
  ASSUME TypeInv, NEW run \in Runs, ForgetText(run)
  PROVE  TypeInv' /\ Besides
BY DEF ForgetText, connVars, callVars, aggVars, Besides, TypeInv, TypeOK

(* A fallback that wakes resolves the call it was for, or nothing. *)
LEMMA FallbackStep ==
  ASSUME TypeInv, NEW f \in fallbacks, FireFallback(f)
  PROVE  TypeInv' /\ Besides
<1> USE DEF TypeInv, TypeOK
<1>1. /\ UNCHANGED <<connected, ws, listener, closing, pc, queue, holder, out, timedOut,
                    ended, active, texts, buffers, tasks, gw, pushed>>
      /\ fallbacks' = fallbacks \ {f}
      /\ fut' = fut \/ (Pending /\ Resolve(Result("fallback", f[1])))
  BY DEF FireFallback, MayFallBack, connVars, callVars, aggVars
<1>2. Result("fallback", f[1]) \in Answers
  BY ResultFields DEF Kinds
<1>3. fut' \in [Requests -> Results]
  BY <1>1, <1>2, ResolveType
<1>4. fut' = fut \/ Resolves
  <2>1. CASE MayFallBack(f)
    <3>1. Pending /\ Resolve(Result("fallback", f[1])) /\ f = <<f[1], active>>
      BY <2>1 DEF MayFallBack, FireFallback
    <3>2. ASSUME NEW v, v.run = f[1] PROVE Origin(v)
      BY <3>1, <3>2 DEF Origin
    <3>3. Origin(Result("fallback", f[1]))
      BY <3>2, ResultFields
    <3> QED
      BY <1>2, <3>1, <3>3 DEF Resolves
  <2>2. CASE ~MayFallBack(f)
    BY <2>2 DEF FireFallback
  <2> QED
    BY <2>1, <2>2
<1>5. Besides
  BY <1>1, <1>4 DEF Besides
<1> QED
  BY <1>1, <1>3, <1>5

(* A window that closes answers the call that is active, if it is that        *)
(* call's, with a message of the window (_route_aggregated_message).        *)
LEMMA WindowStep ==
  ASSUME TypeInv, NEW id \in Ids, FinalizeLater(id)
  PROVE  TypeInv' /\ Besides
<1>1. /\ UNCHANGED <<connected, ws, listener, closing, pc, queue, holder, out, ended,
                    active, texts, fallbacks, gw>>
      /\ tasks' = tasks \ {id} /\ buffers' = [buffers EXCEPT ![id] = <<>>]
  BY DEF FinalizeLater, Agg!FinalizeLater, connVars
<1>2. /\ buffers' \in [Ids -> Seq(Finals)]
      /\ \A k \in Ids : buffers'[k] \in {buffers[k], <<>>}
  BY <1>1 DEF TypeInv
<1> DEFINE best == Agg!SelectBest(buffers[id])
<1>3. CASE best = Agg!Nothing
  <2>1. UNCHANGED <<timedOut, pushed, fut>>
    BY <1>3 DEF FinalizeLater
  <2> QED
    BY <1>1, <1>2, <2>1 DEF TypeInv, TypeOK, Besides
<1>4. CASE best # Agg!Nothing
  <2>1. PICK i \in DOMAIN buffers[id] : best = buffers[id][i]
    BY <1>4, BestIsOfWindow DEF TypeInv
  <2>2. best.run \in Runs
    <3>1. buffers[id] \in Seq(Finals)
      BY DEF TypeInv
    <3>2. best \in Finals
      BY <2>1, <3>1
    <3> QED
      BY <3>2 DEF Finals
  <2>3. Route(id, best)
    BY <1>4 DEF FinalizeLater
  <2> HIDE DEF best
  <2>4. Result("answer", best.run) \in Answers
    BY <2>2, ResultFields DEF Kinds
  <2>5. \/ fut' = fut
        \/ Pending /\ active = id /\ Resolve(Result("answer", best.run))
    BY <2>3 DEF Route
  <2>6. fut' \in [Requests -> Results]
    BY <2>4, <2>5, ResolveType DEF TypeInv, TypeOK
  <2>7. timedOut' \in {timedOut, None} /\ pushed' \subseteq Runs
    BY <2>2, <2>3 DEF Route, TypeInv, TypeOK
  <2>8. TypeInv'
    BY <1>1, <1>2, <2>6, <2>7 DEF TypeInv, TypeOK
  <2>9. active = id => Origin(Result("answer", best.run))
    BY <2>1, ResultFields DEF Origin
  <2>10. fut' = fut \/ Resolves
    BY <2>4, <2>5, <2>9 DEF Resolves
  <2>11. Besides
    BY <1>1, <1>2, <2>10 DEF Besides
  <2> QED
    BY <2>8, <2>11
<1> QED
  BY <1>3, <1>4

-----------------------------------------------------------------------------
(* The steps of a call.                                                    *)

(* A call joins the queue of the lock. *)
Joins(r) ==
  /\ pc[r] = "idle" /\ ~LockFree /\ Cardinality(Callers) < MaxCallers
  /\ pc' = [pc EXCEPT ![r] = "queued"]
  /\ queue' = Append(queue, r)
  /\ UNCHANGED <<holder, active, out, ended, gw, timedOut>>

(* A call gets in: from the queue, or past an empty one. *)
Enters(r) ==
  /\ \/ pc[r] = "idle" /\ LockFree /\ IsConnected /\ queue' = queue
     \/ pc[r] = "queued" /\ holder = None /\ Head(queue) = r /\ queue' = Tail(queue)
  /\ pc' = [pc EXCEPT ![r] = "waiting"]
  /\ holder' = r /\ active' = r
  /\ gw' = [gw EXCEPT ![r] = {"received"}]
  /\ ended' = [ended EXCEPT ![r] = {run \in Runs : "end" \in gw[run]}]
  /\ UNCHANGED <<out, timedOut>>

(* A call is over: after its wait, without having got in, or refused. *)
Leaves(r) ==
  /\ \/ pc[r] = "waiting" /\ queue' = queue /\ holder' = None /\ active' = None
     \/ pc[r] = "queued" /\ holder = None /\ Head(queue) = r /\ queue' = Tail(queue)
                         /\ holder' = None /\ active' = None
     \/ pc[r] = "idle" /\ LockFree /\ queue' = queue /\ holder' = None /\ active' = None
     \/ pc[r] = "idle" /\ UNCHANGED <<queue, holder, active>>
  /\ pc' = [pc EXCEPT ![r] = "done"]
  /\ \/ out' = [out EXCEPT ![r] = fut[r]]
     \/ \E k \in Kinds : out' = [out EXCEPT ![r] = Result(k, None)]
  /\ timedOut' \in {timedOut, r}
  /\ UNCHANGED <<ended, gw>>

Elsewhere == <<connected, ws, listener, closing, fut, texts, fallbacks, buffers, tasks, pushed>>

(* These are all the steps of a call (send_message). *)
LEMMA CallSteps ==
  ASSUME NEW r \in Requests, SendMessage(r)
  PROVE  UNCHANGED Elsewhere /\ (Joins(r) \/ Enters(r) \/ Leaves(r))
<1>k. {"lost", "timeout", "refused"} \subseteq Kinds
  BY DEF Kinds
<1>1. CASE Call(r)
  <2>1. /\ UNCHANGED Elsewhere /\ timedOut' = timedOut /\ pc[r] = "idle" /\ IsConnected
        /\ Cardinality(Callers) < MaxCallers
    BY <1>1 DEF Call, connVars, aggVars, Elsewhere
  <2>2. CASE LockFree /\ Enter(r) /\ queue' = queue
    BY <1>k, <2>1, <2>2 DEF Enter, Leave, Enters, Leaves, LockFree
  <2>3. CASE /\ ~LockFree /\ pc' = [pc EXCEPT ![r] = "queued"] /\ queue' = Append(queue, r)
             /\ UNCHANGED <<holder, active, out, ended, gw>>
    BY <2>1, <2>3 DEF Joins
  <2> QED
    BY <1>1, <2>1, <2>2, <2>3 DEF Call
<1>2. CASE Refuse(r)
  <2>1. /\ UNCHANGED Elsewhere /\ pc[r] = "idle"
        /\ UNCHANGED <<queue, holder, active, timedOut, ended, gw>>
        /\ pc' = [pc EXCEPT ![r] = "done"]
        /\ out' = [out EXCEPT ![r] = Result("refused", None)]
    BY <1>2 DEF Refuse, connVars, aggVars, Elsewhere
  <2> QED
    BY <1>k, <2>1 DEF Leaves
<1>3. CASE Acquire(r)
  <2>1. /\ UNCHANGED Elsewhere /\ timedOut' = timedOut /\ pc[r] = "queued"
        /\ holder = None /\ Head(queue) = r /\ queue' = Tail(queue) /\ Enter(r)
    BY <1>3 DEF Acquire, connVars, aggVars, Elsewhere
  <2> QED
    BY <1>k, <2>1 DEF Enter, Leave, Enters, Leaves
<1>4. CASE Resume(r)
  <2>1. /\ UNCHANGED Elsewhere /\ pc[r] = "waiting" /\ Leave(r, fut[r])
        /\ UNCHANGED <<queue, timedOut, ended, gw>>
    BY <1>4 DEF Resume, connVars, aggVars, Elsewhere
  <2> QED
    BY <2>1 DEF Leave, Leaves
<1>5. CASE Timeout(r)
  <2>1. /\ UNCHANGED Elsewhere /\ pc[r] = "waiting" /\ Leave(r, Result("timeout", None))
        /\ timedOut' = r /\ UNCHANGED <<queue, ended, gw>>
    BY <1>5 DEF Timeout, connVars, aggVars, Elsewhere
  <2> QED
    BY <1>k, <2>1 DEF Leave, Leaves
<1> QED
  BY <1>1, <1>2, <1>3, <1>4, <1>5 DEF SendMessage

(* They keep the types and the order of the lock. *)
LEMMA CallStep ==
  ASSUME TypeInv, LockInv, NEW r \in Requests, SendMessage(r)
  PROVE  TypeInv' /\ LockInv'
<1>1. /\ UNCHANGED Elsewhere
      /\ Joins(r) \/ Enters(r) \/ Leaves(r)
  BY CallSteps
<1>2. /\ queue \in Seq(Requests) /\ pc \in [Requests -> {"idle", "queued", "waiting", "done"}]
      /\ holder \in Requests \cup {None} /\ active \in Requests \cup {None}
      /\ None \notin Requests
      /\ Once(queue) /\ \A k \in Requests : pc[k] = "queued" <=> In(queue, k)
      /\ \A k \in Requests : pc[k] = "waiting" <=> holder = k
      /\ active # None => active = holder
  BY IdsAssumption DEF TypeInv, TypeOK, LockInv, ActiveHoldsLock, Runs
<1>3. pc[r] = "queued" => queue # <<>>
  BY <1>2 DEF In
<1>4. pc[r] = "queued" =>
        /\ Tail(queue) \in Seq(Requests)
        /\ \A s : In(Tail(queue), s) <=> s # Head(queue) /\ In(queue, s)
        /\ Once(Tail(queue))
  BY <1>2, <1>3, QueueTail
<1>5. \A k \in Requests \ {r} : pc'[k] = pc[k]
  BY <1>1, <1>2 DEF Joins, Enters, Leaves
<1>6. CASE Joins(r)
  <2>1. ~In(queue, r)
    BY <1>2, <1>6 DEF Joins
  <2>2. /\ queue' \in Seq(Requests) /\ Once(queue')
        /\ \A s : In(queue', s) <=> s = r \/ In(queue, s)
    BY <1>2, <1>6, <2>1, QueueAppend DEF Joins
  <2>3. /\ pc[r] = "idle" /\ pc'[r] = "queued"
        /\ UNCHANGED <<holder, active, out, ended, gw, timedOut>>
        /\ pc' \in [Requests -> {"idle", "queued", "waiting", "done"}]
    BY <1>2, <1>6 DEF Joins
  <2>4. TypeInv'
    BY <1>1, <2>2, <2>3 DEF TypeInv, TypeOK, Elsewhere
  <2>5. \A k \in Requests : pc'[k] = "queued" <=> In(queue', k)
    BY <1>2, <1>5, <2>2, <2>3
  <2>6. \A k \in Requests : pc'[k] = "waiting" <=> holder' = k
    BY <1>2, <1>5, <2>3
  <2> QED
    BY <1>2, <2>2, <2>3, <2>4, <2>5, <2>6 DEF LockInv, ActiveHoldsLock
<1>7. CASE Enters(r)
  <2>1. /\ holder = None /\ pc'[r] = "waiting" /\ holder' = r /\ active' = r
        /\ pc' \in [Requests -> {"idle", "queued", "waiting", "done"}]
        /\ UNCHANGED <<out, timedOut>>
    BY <1>2, <1>7 DEF Enters, LockFree
  <2>2. \/ pc[r] = "idle" /\ queue' = queue
        \/ pc[r] = "queued" /\ Head(queue) = r /\ queue' = Tail(queue)
    BY <1>7 DEF Enters
  <2>3. gw' \in [Runs -> SUBSET Events] /\ ended' \in [Requests -> SUBSET Runs]
    BY <1>7 DEF Enters, TypeInv, TypeOK, Events
  <2>4. /\ queue' \in Seq(Requests) /\ Once(queue')
        /\ \A k \in Requests : In(queue', k) <=> k # r /\ In(queue, k)
    BY <1>2, <1>4, <2>2
  <2>5. TypeInv'
    BY <1>1, <2>1, <2>3, <2>4 DEF TypeInv, TypeOK, Elsewhere
  <2>6. \A k \in Requests : pc'[k] = "queued" <=> In(queue', k)
    BY <1>2, <1>5, <2>1, <2>4
  <2>7. \A k \in Requests : pc'[k] = "waiting" <=> holder' = k
    BY <1>2, <1>5, <2>1
  <2> QED
    BY <2>1, <2>4, <2>5, <2>6, <2>7 DEF LockInv, ActiveHoldsLock
<1>8. CASE Leaves(r)
  <2>1. /\ pc'[r] = "done"
        /\ pc' \in [Requests -> {"idle", "queued", "waiting", "done"}]
        /\ timedOut' \in {timedOut, r} /\ UNCHANGED <<ended, gw>>
    BY <1>2, <1>8 DEF Leaves
  <2>2. \/ pc[r] # "queued" /\ queue' = queue
        \/ pc[r] = "queued" /\ Head(queue) = r /\ queue' = Tail(queue)
    BY <1>8 DEF Leaves
  <2>3. out' \in [Requests -> Results]
    BY <1>8, ResultFields DEF Leaves, TypeInv, TypeOK
  <2>4. /\ queue' \in Seq(Requests) /\ Once(queue')
        /\ \A k \in Requests : In(queue', k) <=> k # r /\ In(queue, k)
    BY <1>2, <1>4, <2>2
  <2>5. \/ pc[r] = "waiting" /\ holder' = None /\ active' = None
        \/ holder = None /\ holder' = None /\ active' \in {active, None}
        \/ pc[r] = "idle" /\ UNCHANGED <<holder, active>>
    BY <1>2, <1>8 DEF Leaves, LockFree
  <2>6. TypeInv'
    BY <1>1, <1>2, <2>1, <2>3, <2>4, <2>5 DEF TypeInv, TypeOK, Elsewhere
  <2>7. \A k \in Requests : pc'[k] = "queued" <=> In(queue', k)
    BY <1>2, <1>5, <2>1, <2>4
  <2>8. \A k \in Requests : pc'[k] = "waiting" <=> holder' = k
    BY <1>2, <1>5, <2>1, <2>5
  <2>9. active' # None => active' = holder'
    BY <1>2, <2>5
  <2> QED
    BY <2>4, <2>6, <2>7, <2>8, <2>9 DEF LockInv, ActiveHoldsLock
<1> QED
  BY <1>1, <1>6, <1>7, <1>8

-----------------------------------------------------------------------------
(* Every step is one or the other.                                         *)

(* Every step is a call's or one of these. *)
LEMMA Steps ==
  ASSUME TypeInv, [Next]_vars
  PROVE  (\E r \in Requests : SendMessage(r)) \/ (TypeInv' /\ Besides)
<1>1. ASSUME NEW run \in Runs, Dispatch(run) \/ ForgetText(run)
      PROVE  TypeInv' /\ Besides
  BY <1>1, DispatchStep, ChatStep, ForgetStep DEF Dispatch
<1>2. ASSUME NEW f \in fallbacks, FireFallback(f)
      PROVE  TypeInv' /\ Besides
  BY <1>2, FallbackStep
<1>3. ASSUME NEW id \in Ids, FinalizeLater(id)
      PROVE  TypeInv' /\ Besides
  BY <1>3, WindowStep
<1>4. CASE LoseConnection \/ ListenerExit \/ Close \/ CloseSocket
  BY <1>4, ConnectionStep
<1>5. CASE UNCHANGED vars
  <2>1. UNCHANGED <<connected, ws, listener, closing, pc, queue, holder, active, timedOut,
                    fut, out, texts, fallbacks, buffers, tasks, gw, pushed, ended>>
    BY <1>5 DEF vars
  <2>2. TypeInv'
    BY <2>1 DEF TypeInv, TypeOK
  <2>3. Besides
    BY <2>1 DEF Besides
  <2> QED
    BY <2>2, <2>3
<1> QED
  BY <1>1, <1>2, <1>3, <1>4, <1>5 DEF Next

(* At first nobody has called. *)
LEMMA InitCalls == Init => TypeInv /\ LockInv /\ FreshInv /\ OwnInv /\ WaitInv
<1> SUFFICES ASSUME Init PROVE TypeInv /\ LockInv /\ FreshInv /\ OwnInv /\ WaitInv
  OBVIOUS
<1>1. /\ connected = TRUE /\ ws = "open" /\ listener = "running" /\ closing = "no"
      /\ pc = [r \in Requests |-> "idle"]
      /\ queue = <<>> /\ holder = None /\ active = None /\ timedOut = None
      /\ fut = [r \in Requests |-> Unset] /\ out = [r \in Requests |-> Unset]
      /\ texts = {} /\ fallbacks = {} /\ pushed = {} /\ tasks = {}
      /\ buffers = [id \in Ids |-> <<>>]
      /\ gw = [run \in Runs |-> {}] /\ ended = [r \in Requests |-> {}]
  BY DEF Init, Agg!AggInit
<1>2. \A r \in Requests : r \in Ids /\ r \in Runs
  BY DEF Ids, Runs
<1>3. [id \in Ids |-> <<>>] \in [Ids -> Seq(Finals)]
  OBVIOUS
<1>4. TypeInv
  BY <1>1, <1>3, ResultFields DEF TypeInv, TypeOK
<1>5. LockInv
  BY <1>1, IdsAssumption DEF LockInv, ActiveHoldsLock, In, Once, Runs
<1>6. Unset.kind = "unset" /\ Unset.run = None
  BY ResultFields DEF Unset
<1>7. FreshInv
  BY <1>1, <1>2, <1>6 DEF FreshInv, FallbackFresh
<1>8. OwnInv
  BY <1>1, <1>2, <1>6 DEF OwnInv
<1>9. WaitInv
  BY <1>1 DEF WaitInv, WaiterReachable
<1> QED
  BY <1>4, <1>5, <1>7, <1>8, <1>9

-----------------------------------------------------------------------------
(* The lock.                                                               *)

(* Every step keeps the types and the order of the lock. *)
LEMMA LockStep == TypeInv /\ LockInv /\ [Next]_vars => TypeInv' /\ LockInv'
<1> SUFFICES ASSUME TypeInv, LockInv, [Next]_vars PROVE TypeInv' /\ LockInv'
  OBVIOUS
<1>1. CASE \E r \in Requests : SendMessage(r)
  BY <1>1, CallStep
<1>2. CASE TypeInv' /\ Besides
  BY <1>2 DEF Besides, LockInv, ActiveHoldsLock
<1> QED
  BY <1>1, <1>2, Steps

(* Every variable keeps its type. *)
THEOREM TypesKept == Spec => []TypeOK
BY InitCalls, LockStep, PTL DEF Spec, TypeInv

(* Events are attributed to a call only while that call holds _send_lock,    *)
(* whatever the gateway sends, rejects or leaves unsaid (send_message).     *)
THEOREM ActiveCallHoldsLock == Spec => []ActiveHoldsLock
BY InitCalls, LockStep, PTL DEF Spec, LockInv

(* A future that has an answer keeps it: a final, an error, a rejection, a     *)
(* fallback and the end of the connection never meet in one future.         *)
THEOREM FuturesResolvedOnce == Spec => ResolvedOnce
<1>1. TypeInv /\ LockInv /\ [Next]_vars
        => [\A r \in Requests : fut[r] # Unset => fut'[r] = fut[r]]_vars
  <2> SUFFICES ASSUME TypeInv, [Next]_vars, NEW r \in Requests, fut[r] # Unset
               PROVE  fut'[r] = fut[r]
    OBVIOUS
  <2>1. ASSUME NEW q \in Requests, SendMessage(q)
        PROVE  fut'[r] = fut[r]
    BY <2>1, CallSteps DEF Elsewhere
  <2>2. CASE Besides
    BY <2>2 DEF Besides, Resolves, Resolve, Pending, TypeInv, TypeOK
  <2> QED
    BY <2>1, <2>2, Steps
<1> QED
  BY <1>1, InitCalls, LockStep, PTL DEF Spec, ResolvedOnce

-----------------------------------------------------------------------------
(* The fallbacks.                                                          *)

(* Only the future of the call in progress is resolved. *)
LEMMA PendingCall ==
  ASSUME TypeInv, LockInv, Pending
  PROVE  active \in Requests /\ pc[active] = "waiting" /\ fut[active] = Unset
BY DEF TypeInv, TypeOK, LockInv, ActiveHoldsLock, Pending

(* Every step keeps what is known of the fallbacks. *)
LEMMA FreshStep == TypeInv /\ LockInv /\ FreshInv /\ [Next]_vars => FreshInv'
<1> SUFFICES ASSUME TypeInv, LockInv, FreshInv, [Next]_vars PROVE FreshInv'
  OBVIOUS
<1>t. /\ pc \in [Requests -> {"idle", "queued", "waiting", "done"}]
      /\ fut \in [Requests -> Results] /\ gw \in [Runs -> SUBSET Events]
      /\ ended \in [Requests -> SUBSET Runs] /\ fallbacks \subseteq Runs \X Requests
      /\ \A r \in Requests : r \in Runs
      /\ Unset.kind = "unset"
  BY ResultFields DEF TypeInv, TypeOK, Runs, Unset
<1>f. /\ \A r \in Requests : pc[r] \in {"idle", "queued"} => fut[r] = Unset /\ gw[r] = {}
      /\ \A r \in Requests : \A run \in ended[r] : "end" \in gw[run]
      /\ \A f \in fallbacks : pc[f[2]] \notin {"idle", "queued"} /\ f[1] \notin ended[f[2]]
      /\ \A r \in Requests : fut[r].kind = "fallback" => fut[r].run \notin ended[r]
  BY DEF FreshInv, FallbackFresh
<1>1. ASSUME NEW r \in Requests, SendMessage(r)
      PROVE  FreshInv'
  <2>1. UNCHANGED <<fut, fallbacks>> /\ (Joins(r) \/ Enters(r) \/ Leaves(r))
    BY <1>1, CallSteps DEF Elsewhere
  <2>2. CASE Joins(r)
    <3>1. /\ pc[r] = "idle" /\ pc' = [pc EXCEPT ![r] = "queued"]
          /\ UNCHANGED <<ended, gw, fut, fallbacks>>
      BY <2>1, <2>2 DEF Joins
    <3>2. \A k \in Requests : pc'[k] \in {"idle", "queued"} <=> pc[k] \in {"idle", "queued"}
      BY <1>t, <3>1
    <3> QED
      BY <1>t, <1>f, <3>1, <3>2 DEF FreshInv, FallbackFresh
  <2>3. CASE Enters(r)
    <3>1. /\ pc[r] \in {"idle", "queued"} /\ pc' = [pc EXCEPT ![r] = "waiting"]
          /\ gw' = [gw EXCEPT ![r] = {"received"}]
          /\ ended' = [ended EXCEPT ![r] = {run \in Runs : "end" \in gw[run]}]
      BY <2>3 DEF Enters
    <3>2. gw[r] = {} /\ fut[r] = Unset
      BY <1>f, <3>1
    <3>3. \A k \in Requests : pc'[k] \in {"idle", "queued"} => k # r /\ pc[k] \in {"idle", "queued"}
      BY <1>t, <3>1
    <3>4. \A k \in Requests : pc'[k] \in {"idle", "queued"} => fut'[k] = Unset /\ gw'[k] = {}
      BY <1>t, <1>f, <2>1, <3>1, <3>3
    <3>5. \A run \in Runs : "end" \in gw[run] => run # r /\ gw'[run] = gw[run]
      BY <1>t, <3>1, <3>2
    <3>6. \A k \in Requests : \A run \in ended'[k] : "end" \in gw'[run]
      BY <1>t, <1>f, <3>1, <3>5
    <3>7. \A f \in fallbacks' : pc'[f[2]] \notin {"idle", "queued"} /\ f[1] \notin ended'[f[2]]
      <4> SUFFICES ASSUME NEW f \in fallbacks
                   PROVE  pc'[f[2]] \notin {"idle", "queued"} /\ f[1] \notin ended'[f[2]]
        BY <2>1
      <4>1. f[2] \in Requests /\ f[2] # r
        BY <1>t, <1>f, <3>1
      <4> QED
        BY <1>t, <1>f, <3>1, <4>1
    <3>8. \A k \in Requests : fut'[k].kind = "fallback" => fut'[k].run \notin ended'[k]
      <4> SUFFICES ASSUME NEW k \in Requests, fut[k].kind = "fallback"
                   PROVE  fut[k].run \notin ended'[k]
        BY <2>1
      <4>1. k # r
        BY <1>t, <3>2
      <4> QED
        BY <1>t, <1>f, <3>1, <4>1
    <3> QED
      BY <3>4, <3>6, <3>7, <3>8 DEF FreshInv, FallbackFresh
  <2>4. CASE Leaves(r)
    <3>1. pc' = [pc EXCEPT ![r] = "done"] /\ UNCHANGED <<ended, gw, fut, fallbacks>>
      BY <2>1, <2>4 DEF Leaves
    <3>2. \A k \in Requests : pc'[k] \in {"idle", "queued"} => pc[k] \in {"idle", "queued"}
      BY <1>t, <3>1
    <3> QED
      BY <1>t, <1>f, <3>1, <3>2 DEF FreshInv, FallbackFresh
  <2> QED
    BY <2>1, <2>2, <2>3, <2>4
<1>2. CASE TypeInv' /\ Besides
  <2>1. /\ UNCHANGED <<pc, ended>> /\ (fut' = fut \/ Resolves)
        /\ \A run \in Runs : gw[run] \subseteq gw'[run]
        /\ \A r \in Requests : gw[r] = {} => gw'[r] = {}
        /\ \A f \in fallbacks' :
             \/ f \in fallbacks
             \/ Pending /\ f[2] = active /\ "end" \notin gw[f[1]]
    BY <1>2 DEF Besides
  <2>2. \A r \in Requests : pc'[r] \in {"idle", "queued"} => fut'[r] = Unset /\ gw'[r] = {}
    BY <1>t, <1>f, <2>1, PendingCall DEF Resolves, Resolve
  <2>3. \A r \in Requests : \A run \in ended'[r] : "end" \in gw'[run]
    BY <1>t, <1>f, <2>1
  <2>4. \A f \in fallbacks' : pc'[f[2]] \notin {"idle", "queued"} /\ f[1] \notin ended'[f[2]]
    BY <1>t, <1>f, <2>1, PendingCall
  <2>5. \A r \in Requests : fut'[r].kind = "fallback" => fut'[r].run \notin ended'[r]
    <3>1. CASE fut' = fut
      BY <1>f, <2>1, <3>1
    <3>2. CASE Resolves
      <4>1. PICK v \in Answers : fut' = [fut EXCEPT ![active] = v] /\ Origin(v)
        BY <3>2 DEF Resolves, Resolve
      <4>2. v.kind = "fallback" => v.run \notin ended[active]
        BY <1>f, <4>1 DEF Origin
      <4> QED
        BY <1>t, <1>f, <2>1, <4>1, <4>2
    <3> QED
      BY <2>1, <3>1, <3>2
  <2> QED
    BY <2>2, <2>3, <2>4, <2>5 DEF FreshInv, FallbackFresh
<1> QED
  BY <1>1, <1>2, Steps

(* No call is ever answered by the fallback of a run that had ended before    *)
(* the call was made (_delayed_fallback).                                   *)
THEOREM FallbacksFresh == Spec => []FallbackFresh
BY InitCalls, LockStep, FreshStep, PTL DEF Spec, FreshInv

-----------------------------------------------------------------------------
(* One caller.                                                             *)

(* The calls in progress are finitely many. *)
LEMMA CallersStep ==
  ASSUME TypeInv, IsFiniteSet(Callers), [Next]_vars
  PROVE  IsFiniteSet(Callers')
<1>1. ASSUME NEW r \in Requests, SendMessage(r)
      PROVE  Callers' \in SUBSET (Callers \cup {r})
  <2>1. Joins(r) \/ Enters(r) \/ Leaves(r)
    BY <1>1, CallSteps
  <2>2. \A k \in Requests \ {r} : pc'[k] = pc[k]
    BY <2>1 DEF Joins, Enters, Leaves, TypeInv, TypeOK
  <2> QED
    BY <2>2 DEF Callers
<1>2. CASE TypeInv' /\ Besides
  BY <1>2 DEF Besides, Callers
<1>3. \A r : IsFiniteSet(Callers \cup {r})
  BY FS_AddElement
<1>4. ASSUME NEW r \in Requests, SendMessage(r)
      PROVE  IsFiniteSet(Callers')
  BY <1>1, <1>3, <1>4, FS_Subset
<1> QED
  BY <1>2, <1>4, Steps

(* A client with one caller, as behind ws_manager's send lock, has an empty   *)
(* queue whenever somebody calls.                                           *)
LEMMA OneCallerNoQueue ==
  ASSUME MaxCallers = 1, TypeInv, LockInv, IsFiniteSet(Callers), NEW r \in Requests
  PROVE  ~Joins(r)
<1> SUFFICES ASSUME Joins(r) PROVE FALSE
  OBVIOUS
<1>1. Cardinality(Callers) < 1 /\ ~LockFree
  BY DEF Joins
<1>2. Cardinality(Callers) \in Nat
  BY FS_CardinalityType
<1>3. Callers = {}
  BY <1>1, <1>2, FS_EmptySet
<1>4. holder = None
  BY <1>3 DEF TypeInv, TypeOK, LockInv, Callers
<1>5. queue = <<>>
  <2>1. queue # <<>> => queue[1] \in Requests /\ In(queue, queue[1])
    BY DEF TypeInv, TypeOK, In
  <2> QED
    BY <1>3, <2>1 DEF LockInv, Callers
<1> QED
  BY <1>1, <1>4, <1>5 DEF LockFree

(* With one caller every step leaves the waiting call where the listener     *)
(* finds it.                                                                *)
LEMMA WaitStep ==
  ASSUME MaxCallers = 1, TypeInv, LockInv, IsFiniteSet(Callers), WaitInv, [Next]_vars
  PROVE  WaitInv'
<1>t. /\ pc \in [Requests -> {"idle", "queued", "waiting", "done"}]
      /\ fut \in [Requests -> Results]
      /\ \A r \in Requests : pc[r] = "waiting" <=> holder = r
      /\ None \notin Requests
  BY IdsAssumption DEF TypeInv, TypeOK, LockInv, Runs
<1>w. /\ \A r \in Requests : pc[r] # "queued"
      /\ \A r \in Requests : pc[r] = "waiting" /\ fut[r] = Unset
                             => active = r /\ listener # "done"
  BY DEF WaitInv, WaiterReachable
<1>1. ASSUME NEW r \in Requests, SendMessage(r)
      PROVE  WaitInv'
  <2>1. UNCHANGED <<fut, listener>> /\ (Enters(r) \/ Leaves(r))
    BY <1>1, CallSteps, OneCallerNoQueue DEF Elsewhere
  <2>2. CASE Enters(r)
    <3>1. /\ holder = None /\ pc' = [pc EXCEPT ![r] = "waiting"] /\ active' = r
          /\ listener # "done"
      BY <1>w, <2>2 DEF Enters, LockFree, IsConnected
    <3>2. \A k \in Requests : pc'[k] = "waiting" => k = r
      BY <1>t, <3>1
    <3> QED
      BY <1>t, <1>w, <2>1, <3>1, <3>2 DEF WaitInv, WaiterReachable
  <2>3. CASE Leaves(r)
    <3>1. /\ pc' = [pc EXCEPT ![r] = "done"]
          /\ \/ pc[r] = "waiting"
             \/ holder = None
             \/ active' = active
      BY <1>w, <2>3 DEF Leaves, LockFree
    <3>2. \A k \in Requests : pc'[k] = "waiting" => k # r /\ pc[k] = "waiting" /\ active' = active
      BY <1>t, <3>1
    <3> QED
      BY <1>t, <1>w, <2>1, <3>1, <3>2 DEF WaitInv, WaiterReachable
  <2> QED
    BY <2>1, <2>2, <2>3
<1>2. CASE TypeInv' /\ Besides
  <2>1. /\ pc' = pc /\ (fut' = fut \/ Resolves)
        /\ active' = active \/ ~Pending \/ Resolves
        /\ listener' # "done" \/ listener = "done" \/ ~Pending \/ Resolves
    BY <1>2 DEF Besides
  <2>2. ASSUME NEW r \in Requests, pc'[r] = "waiting", fut'[r] = Unset
        PROVE  active' = r /\ listener' # "done"
    <3>1. Resolves => fut'[active] # Unset /\ \A k \in Requests \ {active} : fut'[k] = fut[k]
      BY <1>t, PendingCall, ResultFields DEF Resolves, Resolve
    <3>2. fut[r] = Unset /\ pc[r] = "waiting"
      BY <1>t, <2>1, <2>2, <3>1, PendingCall DEF Resolves
    <3>3. active = r /\ listener # "done" /\ Pending
      BY <1>t, <1>w, <3>2 DEF Pending
    <3> QED
      BY <2>1, <2>2, <3>1, <3>3
  <2> QED
    BY <1>w, <2>1, <2>2 DEF WaitInv, WaiterReachable
<1> QED
  BY <1>1, <1>2, Steps

(* A call that waits on a client with one caller is always reached by the     *)
(* end of the connection: the listener that would fail its future is alive  *)
(* and the future is the pending one ("Unblock any waiting send_message").  *)
(* With more callers it is not so: a queued call may get in after the        *)
(* listener has ended.                                                      *)
THEOREM WaitersReachable == MaxCallers = 1 => (Spec => []WaiterReachable)
<1> SUFFICES ASSUME MaxCallers = 1 PROVE Spec => []WaiterReachable
  OBVIOUS
<1>1. Init => IsFiniteSet(Callers)
  <2>1. Init => Callers = {}
    BY DEF Init, Callers
  <2> QED
    BY <2>1, FS_EmptySet
<1>2. TypeInv /\ IsFiniteSet(Callers) /\ [Next]_vars => IsFiniteSet(Callers)'
  BY CallersStep
<1>3. TypeInv /\ LockInv /\ IsFiniteSet(Callers) /\ WaitInv /\ [Next]_vars => WaitInv'
  BY WaitStep
<1>4. WaitInv => WaiterReachable
  BY DEF WaitInv
<1> QED
  BY <1>1, <1>2, <1>3, <1>4, InitCalls, LockStep, PTL DEF Spec

-----------------------------------------------------------------------------
(* A gateway that speaks of nothing but the call in progress.              *)

(* Then the run it speaks of is the one of the call that has the lock. *)
LEMMA SpokenHasLock ==
  ASSUME Late = FALSE, ProEvents \subseteq {"cron"},
         TypeInv, LockInv, FreshInv, NEW run, Spoken(run)
  PROVE  run \in Requests /\ (active # None => active = run)
<1>1. run \in Requests /\ gw[run] # {} /\ pc[run] # "done"
  BY DEF Spoken, Returned
<1>2. pc[run] = "waiting"
  BY <1>1 DEF FreshInv, TypeInv, TypeOK
<1> QED
  BY <1>1, <1>2 DEF LockInv, ActiveHoldsLock

(* Every step keeps what belongs to one call apart from the others. *)
LEMMA OwnStep ==
  ASSUME Late = FALSE, ProEvents \subseteq {"cron"},
         TypeInv, LockInv, FreshInv, OwnInv, [Next]_vars
  PROVE  OwnInv'
<1>t. /\ fut \in [Requests -> Results] /\ out \in [Requests -> Results]
      /\ buffers \in [Ids -> Seq(Finals)]
      /\ \A r \in Requests : r \in Ids /\ r # Proactive
      /\ None \notin Requests
  BY IdsAssumption DEF TypeInv, TypeOK, Ids, Runs
<1>o. /\ \A r \in Requests : fut[r].run \in {r, None} /\ out[r].run \in {r, None}
      /\ \A f \in fallbacks : f[1] = f[2]
      /\ \A r \in Requests : \A i \in DOMAIN buffers[r] : buffers[r][i].run = r
  BY DEF OwnInv
<1>1. ASSUME NEW r \in Requests, SendMessage(r)
      PROVE  OwnInv'
  <2>1. UNCHANGED <<fut, fallbacks, buffers>> /\ (Joins(r) \/ Enters(r) \/ Leaves(r))
    BY <1>1, CallSteps DEF Elsewhere
  <2>2. \/ out' = out \/ out' = [out EXCEPT ![r] = fut[r]]
        \/ \E k \in Kinds : out' = [out EXCEPT ![r] = Result(k, None)]
    BY <2>1 DEF Joins, Enters, Leaves
  <2>3. \A k \in Requests : out'[k].run \in {k, None}
    <3>1. CASE out' = out
      BY <1>o, <3>1
    <3>2. CASE out' = [out EXCEPT ![r] = fut[r]]
      BY <1>t, <1>o, <3>2
    <3>3. CASE \E k \in Kinds : out' = [out EXCEPT ![r] = Result(k, None)]
      <4>1. PICK kind \in Kinds : out' = [out EXCEPT ![r] = Result(kind, None)]
        BY <3>3
      <4>2. Result(kind, None).run = None
        BY DEF Result
      <4> QED
        BY <1>t, <1>o, <4>1, <4>2
    <3> QED
      BY <2>2, <3>1, <3>2, <3>3
  <2> QED
    BY <1>o, <2>1, <2>3 DEF OwnInv
<1>2. CASE TypeInv' /\ Besides
  <2>1. /\ out' = out /\ (fut' = fut \/ Resolves)
        /\ \A f \in fallbacks' :
             f \in fallbacks \/ (Pending /\ f[2] = active /\ Spoken(f[1]))
        /\ \A id \in Ids :
             \/ buffers'[id] \in {buffers[id], <<>>}
             \/ /\ id = IF active = None THEN Proactive ELSE active
                /\ \E m \in Finals : Spoken(m.run) /\ buffers'[id] = Append(buffers[id], m)
    BY <1>2 DEF Besides
  <2>2. \A r \in Requests : fut'[r].run \in {r, None}
    <3>1. CASE fut' = fut
      BY <1>o, <3>1
    <3>2. CASE Resolves
      <4>1. PICK v \in Answers : fut' = [fut EXCEPT ![active] = v] /\ Origin(v)
        BY <3>2 DEF Resolves, Resolve
      <4>2. active \in Requests
        BY <3>2, PendingCall DEF Resolves
      <4>3. v.run \in {active, None}
        BY <1>t, <1>o, <4>1, <4>2, SpokenHasLock DEF Origin
      <4> QED
        BY <1>t, <1>o, <4>1, <4>3
    <3> QED
      BY <2>1, <3>1, <3>2
  <2>3. ASSUME NEW f \in fallbacks'
        PROVE  f[1] = f[2]
    <3>1. CASE f \in fallbacks
      BY <1>o, <3>1
    <3>2. CASE Pending /\ f[2] = active /\ Spoken(f[1])
      <4>1. active \in Requests
        BY <3>2, PendingCall
      <4>2. f[1] = active
        BY <1>t, <3>2, <4>1, SpokenHasLock
      <4> QED
        BY <3>2, <4>2
    <3> QED
      BY <2>1, <3>1, <3>2
  <2>4. ASSUME NEW r \in Requests
        PROVE  \A i \in DOMAIN buffers'[r] : buffers'[r][i].run = r
    <3>1. CASE buffers'[r] \in {buffers[r], <<>>}
      BY <1>o, <3>1
    <3>2. CASE /\ r = IF active = None THEN Proactive ELSE active
               /\ \E m \in Finals : Spoken(m.run) /\ buffers'[r] = Append(buffers[r], m)
      <4>1. PICK m \in Finals : Spoken(m.run) /\ buffers'[r] = Append(buffers[r], m)
        BY <3>2
      <4>2. m.run = r
        BY <1>t, <3>2, <4>1, SpokenHasLock
      <4>s. buffers[r] \in Seq(Finals)
        BY <1>t
      <4>3. ASSUME NEW i \in DOMAIN buffers'[r]
            PROVE  \/ buffers'[r][i] = m
                   \/ i \in DOMAIN buffers[r] /\ buffers'[r][i] = buffers[r][i]
        BY <4>s, <4>1
      <4> QED
        BY <1>o, <4>2, <4>3
    <3> QED
      BY <1>t, <2>1, <3>1, <3>2
  <2> QED
    BY <1>o, <2>1, <2>2, <2>3, <2>4 DEF OwnInv
<1> QED
  BY <1>1, <1>2, Steps

(* If the gateway says nothing of a run once its call has returned, and what  *)
(* it starts on its own does not speak, every call returns the answer of    *)
(* its own run: finals, errors and fallbacks carry no request id, and the   *)
(* one active call is all that tells them apart (_dispatch).                *)
THEOREM OwnAnswers == Late = FALSE /\ ProEvents \subseteq {"cron"} => (Spec => []OwnAnswer)
<1> SUFFICES ASSUME Late = FALSE, ProEvents \subseteq {"cron"} PROVE Spec => []OwnAnswer
  OBVIOUS
<1>1. TypeInv /\ LockInv /\ FreshInv /\ OwnInv /\ [Next]_vars => OwnInv'
  BY OwnStep
<1>2. OwnInv => OwnAnswer
  BY DEF OwnInv, OwnAnswer
<1> QED
  BY <1>1, <1>2, InitCalls, LockStep, FreshStep, PTL DEF Spec
=============================================================================

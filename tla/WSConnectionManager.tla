------------------------ MODULE WSConnectionManager ------------------------
(***************************************************************************)
(* src/services/ws_manager.py: the connections of one user (the users'     *)
(* states are disjoint).  Senders run send_message, a guardian task        *)
(* watches the connection and reconnects, the cleanup loop closes it when  *)
(* it is idle, close_all shuts the manager down.  They share dictionaries  *)
(* of clients, guardians and locks; a lock object outlives its entry.      *)
(*                                                                         *)
(* An action is the code between two awaits that suspend.  In particular a *)
(* free lock is taken without suspending, so a sender that finds both of   *)
(* its locks free and a live client is at the client's send in one step.   *)
(* A client is abstracted to its connection; OpenClawClient has the rest.  *)
(***************************************************************************)
EXTENDS Integers, FiniteSets

CONSTANTS
  Senders,      \* send_message calls
  Clients,      \* OpenClawClient objects; collected ones are used again
  Guardians,    \* guardian tasks, likewise
  LockObjects,  \* bound on lock objects per dictionary, likewise
  Cleanup,      \* is the cleanup loop running?
  Shutdown,     \* may close_all be called?
  Closer,       \* the cleanup loop's task
  None

ASSUME LockObjectsAssumption == LockObjects \in Nat \ {0}
ASSUME FlagsAssumption == Cleanup \in BOOLEAN /\ Shutdown \in BOOLEAN
(* Calls, guardians and the cleanup loop are tasks of their own. *)
ASSUME TasksAssumption == /\ Senders \cap Guardians = {}
                          /\ Closer \notin Senders \cup Guardians

VARIABLES
  lk,        \* the locks: dictionary entries, holders, and who waits on what
  cl,        \* connection of each client object
  client,    \* _clients[user]
  info,      \* is _user_info[user] set?
  active,    \* is _last_active[user] set?
  guardian,  \* _guardian_tasks[user]
  gpc,       \* where each guardian is
  gcl,       \* the client it watches or connects
  spc,       \* where each send_message call is
  scl,       \* the client it uses or connects
  attempt,   \* its first or second try
  cpc,       \* where the cleanup loop is
  shut       \* progress of close_all

guardVars == <<guardian, gpc, gcl>>
vars == <<lk, cl, client, info, active, guardian, gpc, gcl, spc, scl, attempt, cpc,
          shut>>

Tasks == Senders \cup Guardians \cup {Closer}
Locks == {"conn", "send"} \X (1..LockObjects)

ASSUME NoneAssumption == None \notin Tasks \cup Clients \cup Locks

Init ==
  /\ lk = [of |-> [k \in {"conn", "send"} |-> None],
           holder |-> [l \in Locks |-> None],
           wants |-> [t \in Tasks |-> None]]
  /\ cl = [c \in Clients |-> "off"]
  /\ client = None /\ info = FALSE /\ active = FALSE
  /\ guardian = None
  /\ gpc = [g \in Guardians |-> "done"]
  /\ gcl = [g \in Guardians |-> None]
  /\ spc = [s \in Senders |-> "idle"]
  /\ scl = [s \in Senders |-> None]
  /\ attempt = [s \in Senders |-> 1]
  /\ cpc = IF Cleanup THEN "sleep" ELSE "off"
  /\ shut = "no"

-----------------------------------------------------------------------------
(* Locks.  Operators from lock state to lock state, so that code that       *)
(* passes several locks without suspending is one step.                     *)

Collected(L) ==
  {l \in Locks : /\ L.of[l[1]] # l
                 /\ L.holder[l] = None
                 /\ \A t \in Tasks : L.wants[t] # l}

(* Mutant: a lock of its own for every call. *)
LockAnew(L, k) == CHOOSE l \in Collected(L) : l[1] = k

(* _get_lock, _get_send_lock *)
LockOf(L, k) ==
  IF L.of[k] # None THEN L.of[k] ELSE CHOOSE l \in Collected(L) : l[1] = k

(* Bound: an entry that is made needs an object nobody uses. *)
HasLock(L, k) == L.of[k] = None => \E l \in Collected(L) : l[1] = k

(* enter "async with lock": take it if nobody has it or waits, else wait *)
Request(L, t, k) ==
  LET l == LockOf(L, k)
      free == L.holder[l] = None /\ \A u \in Tasks : L.wants[u] # l
  IN  [L EXCEPT !.of[k] = l,
                !.holder[l] = IF free THEN t ELSE @,
                !.wants[t] = IF free THEN None ELSE l]

Waits(L, t) == L.wants[t] # None

(* the lock a task waits on is free: it wakes up holding it *)
CanAcquire(t, k) ==
  /\ Waits(lk, t)
  /\ lk.wants[t][1] = k
  /\ lk.holder[lk.wants[t]] = None

Granted(t) == [lk EXCEPT !.holder[lk.wants[t]] = t, !.wants[t] = None]

Release(L, t, k) ==
  [L EXCEPT !.holder = [l \in Locks |-> IF l[1] = k /\ @[l] = t THEN None ELSE @[l]]]

(* a task ends: it leaves its "async with" blocks and its wait *)
Drop(L, t) ==
  [L EXCEPT !.holder = [l \in Locks |-> IF @[l] = t THEN None ELSE @[l]],
            !.wants[t] = None]

(* _locks.pop, _send_locks.pop: whoever holds or awaits the objects keeps them *)
PopLocks(L) == [L EXCEPT !.of = [k \in {"conn", "send"} |-> None]]

-----------------------------------------------------------------------------
(* Clients and guardians.                                                  *)

Connected(c) == c # None /\ cl[c] = "up"

(* An object nothing refers to any more.  Bound: a new one is one of them. *)
Unused == {c \in Clients : /\ cl[c] = "off" /\ c # client
                           /\ \A s \in Senders : scl[s] # c
                           /\ \A g \in Guardians : gcl[g] # c}

NewClient == CHOOSE c \in Unused : TRUE
NewGuardian == CHOOSE g \in Guardians : gpc[g] = "done"

(* nothing tells a closed client from one that has lost its connection *)
Close(c) == [d \in Clients |-> IF d = c THEN "off" ELSE cl[d]]

(* old is closed (if there is one) and a new client starts to connect *)
Replace(old, new) == [Close(old) EXCEPT ![new] = "connecting"]

(* guardian g is cancelled: it ends at its await, whichever it is; a client *)
(* it was connecting is abandoned                                           *)
CancelledClients(g) ==
  IF g # None /\ gpc[g] = "connect" THEN Close(gcl[g]) ELSE cl
CancelledLocks(L, g) == IF g = None THEN L ELSE Drop(L, g)

(* Mutant: the guardian of the connection before goes on. *)
StartGuardianToo(c) ==
  /\ guardian' = NewGuardian
  /\ gpc' = [gpc EXCEPT ![NewGuardian] = "watch"]
  /\ gcl' = [gcl EXCEPT ![NewGuardian] = c]

(* _start_guardian: the old one is cancelled, the new one reads _clients *)
StartGuardian(c) ==
  /\ guardian' = NewGuardian
  /\ gpc' = [h \in Guardians |-> IF h = NewGuardian THEN "watch"
                                 ELSE IF h = guardian THEN "done" ELSE gpc[h]]
  /\ gcl' = [h \in Guardians |-> IF h = NewGuardian THEN c
                                 ELSE IF h = guardian THEN None ELSE gcl[h]]

Cancelled(g) ==
  /\ gpc' = [h \in Guardians |-> IF h = g THEN "done" ELSE gpc[h]]
  /\ gcl' = [h \in Guardians |-> IF h = g THEN None ELSE gcl[h]]

-----------------------------------------------------------------------------
(* send_message.  A sender is idle again when its call has returned or      *)
(* raised.                                                                  *)

(* get_or_create once the connection lock is held, in lock state L *)
UnderConnLock(s, L) ==
  \/ /\ Connected(client)
     /\ lk' = Release(L, s, "conn")
     /\ spc' = [spc EXCEPT ![s] = "await"]
     /\ scl' = [scl EXCEPT ![s] = client]
     /\ UNCHANGED cl
  \/ /\ ~Connected(client) /\ Unused # {}
     /\ cl' = Replace(client, NewClient)
     /\ scl' = [scl EXCEPT ![s] = NewClient]
     /\ lk' = L
     /\ spc' = [spc EXCEPT ![s] = "connecting"]

GetOrCreate(s, L) ==
  LET M == Request(L, s, "conn")
  IN  /\ HasLock(L, "conn")
      /\ \/ /\ Waits(M, s)
            /\ lk' = M
            /\ spc' = [spc EXCEPT ![s] = "connlock"]
            /\ scl' = [scl EXCEPT ![s] = None]
            /\ UNCHANGED cl
         \/ ~Waits(M, s) /\ UnderConnLock(s, M)

Start(s) ==
  LET L == Request(lk, s, "send")
  IN  /\ spc[s] = "idle" /\ HasLock(lk, "send")
      /\ active' = TRUE
      /\ attempt' = [attempt EXCEPT ![s] = 1]
      /\ \/ /\ Waits(L, s)
            /\ lk' = L
            /\ spc' = [spc EXCEPT ![s] = "sendlock"]
            /\ UNCHANGED <<cl, scl>>
         \/ ~Waits(L, s) /\ GetOrCreate(s, L)
      /\ UNCHANGED <<client, info, guardVars, cpc, shut>>

AcquireSend(s) ==
  /\ spc[s] = "sendlock" /\ CanAcquire(s, "send")
  /\ GetOrCreate(s, Granted(s))
  /\ UNCHANGED <<client, info, active, guardVars, attempt, cpc, shut>>

AcquireConn(s) ==
  /\ spc[s] = "connlock" /\ CanAcquire(s, "conn")
  /\ UnderConnLock(s, Granted(s))
  /\ UNCHANGED <<client, info, active, guardVars, attempt, cpc, shut>>

(* _connect_with_retry returns: publish the client, start its guardian.     *)
(* Bound: there is a task object that is done.                             *)
ConnectOk(s) ==
  /\ spc[s] = "connecting"
  /\ {g \in Guardians : gpc[g] = "done"} # {}
  /\ cl' = [CancelledClients(guardian) EXCEPT ![scl[s]] = "up"]
  /\ client' = scl[s] /\ info' = TRUE
  /\ StartGuardian(scl[s])
  /\ lk' = Release(CancelledLocks(lk, guardian), s, "conn")
  /\ spc' = [spc EXCEPT ![s] = "await"]
  /\ UNCHANGED <<active, scl, attempt, cpc, shut>>

(* Mutant: a call that raises keeps the send lock. *)
ReturnLocked(s) ==
  /\ lk' = Release(lk, s, "conn")
  /\ spc' = [spc EXCEPT ![s] = "idle"]
  /\ scl' = [scl EXCEPT ![s] = None]

(* the call returns or raises out of both "async with" blocks *)
Return(s) ==
  /\ lk' = Drop(lk, s)
  /\ spc' = [spc EXCEPT ![s] = "idle"]
  /\ scl' = [scl EXCEPT ![s] = None]

(* every try failed: the client it closed stays in _clients *)
ConnectFail(s) ==
  /\ spc[s] = "connecting"
  /\ cl' = Close(scl[s])
  /\ Return(s)
  /\ UNCHANGED <<client, info, active, guardVars, attempt, cpc, shut>>

(* the answer, an error text or the text of the client's timeout: none of   *)
(* them raises; a dead connection raises before the timeout                 *)
Answer(s) ==
  /\ spc[s] = "await" /\ cl[scl[s]] = "up"
  /\ Return(s)
  /\ UNCHANGED <<cl, client, info, active, guardVars, attempt, cpc, shut>>

(* Mutant: every failure is retried. *)
SendFailsAgain(s) ==
  /\ spc[s] = "await" /\ cl[scl[s]] = "off"
  /\ attempt' = [attempt EXCEPT ![s] = @ + 1]
  /\ cl' = Close(scl[s])
  /\ spc' = [spc EXCEPT ![s] = "closing"]
  /\ UNCHANGED <<lk, scl, client, info, active, guardVars, cpc, shut>>

(* Mutant: the attempts are not counted. *)
SendFailsUncounted(s) ==
  /\ spc[s] = "await" /\ cl[scl[s]] = "off"
  /\ cl' = Close(scl[s])
  /\ spc' = [spc EXCEPT ![s] = "closing"]
  /\ UNCHANGED <<lk, scl, attempt, client, info, active, guardVars, cpc, shut>>

(* client.send_message raises on a lost connection: the first time the      *)
(* client is closed, the second time the call raises                        *)
SendFails(s) ==
  /\ spc[s] = "await" /\ cl[scl[s]] = "off"
  /\ \/ /\ attempt[s] = 1
        /\ attempt' = [attempt EXCEPT ![s] = 2]
        /\ cl' = Close(scl[s])
        /\ spc' = [spc EXCEPT ![s] = "closing"]
        /\ UNCHANGED <<lk, scl>>
     \/ /\ attempt[s] = 2
        /\ Return(s)
        /\ UNCHANGED <<cl, attempt>>
  /\ UNCHANGED <<client, info, active, guardVars, cpc, shut>>

Retry(s) ==
  /\ spc[s] = "closing"
  /\ GetOrCreate(s, lk)
  /\ UNCHANGED <<client, info, active, guardVars, attempt, cpc, shut>>

(* external: the gateway or the network drops a connection *)
LoseConnection(c) ==
  /\ cl[c] = "up"
  /\ cl' = Close(c)
  /\ UNCHANGED <<lk, client, info, active, guardVars, spc, scl, attempt, cpc, shut>>

-----------------------------------------------------------------------------
(* _guardian_loop *)

(* the top of the loop, with c in _clients *)
Top(g, c) ==
  LET ends == shut # "no" \/ c = None
  IN  /\ gpc' = [gpc EXCEPT ![g] = IF ends THEN "done" ELSE "watch"]
      /\ gcl' = [gcl EXCEPT ![g] = IF ends THEN None ELSE c]

UnchangedByGuardian == <<info, active, guardian, spc, scl, attempt, cpc, shut>>

(* 60 seconds without an event, or the backoff is over *)
Recheck(g) ==
  /\ \/ gpc[g] = "watch" /\ cl[gcl[g]] = "up"
     \/ gpc[g] = "backoff"
  /\ Top(g, client)
  /\ UNCHANGED <<lk, cl, client, UnchangedByGuardian>>

(* Mutant: no look at _shutting_down after the listener has ended. *)
NoticeOnly(g) ==
  /\ gpc[g] = "watch" /\ cl[gcl[g]] # "up"
  /\ gpc' = [gpc EXCEPT ![g] = "pause"]
  /\ gcl' = [gcl EXCEPT ![g] = None]
  /\ UNCHANGED <<lk, cl, client, UnchangedByGuardian>>

(* the listener it watches has ended *)
Notice(g) ==
  /\ gpc[g] = "watch" /\ cl[gcl[g]] # "up"
  /\ gpc' = [gpc EXCEPT ![g] = IF shut # "no" THEN "done" ELSE "pause"]
  /\ gcl' = [gcl EXCEPT ![g] = None]
  /\ UNCHANGED <<lk, cl, client, UnchangedByGuardian>>

(* under the connection lock: close whatever client there is, connect anew *)
Reconnect(g, L) ==
  /\ Unused # {}
  /\ cl' = Replace(client, NewClient)
  /\ gcl' = [gcl EXCEPT ![g] = NewClient]
  /\ gpc' = [gpc EXCEPT ![g] = "connect"]
  /\ lk' = L

(* after the pause: _user_info is read here, before the lock *)
Wake(g) ==
  LET L == Request(lk, g, "conn")
  IN  /\ gpc[g] = "pause" /\ HasLock(lk, "conn")
      /\ \/ /\ ~info
            /\ gpc' = [gpc EXCEPT ![g] = "done"]
            /\ UNCHANGED <<lk, cl, gcl>>
         \/ /\ info /\ Waits(L, g)
            /\ lk' = L
            /\ gpc' = [gpc EXCEPT ![g] = "lock"]
            /\ UNCHANGED <<cl, gcl>>
         \/ info /\ ~Waits(L, g) /\ Reconnect(g, L)
      /\ UNCHANGED <<client, UnchangedByGuardian>>

GuardianAcquires(g) ==
  /\ gpc[g] = "lock" /\ CanAcquire(g, "conn")
  /\ Reconnect(g, Granted(g))
  /\ UNCHANGED <<client, UnchangedByGuardian>>

GuardianConnectOk(g) ==
  /\ gpc[g] = "connect"
  /\ cl' = [cl EXCEPT ![gcl[g]] = "up"]
  /\ client' = gcl[g]
  /\ lk' = Release(lk, g, "conn")
  /\ Top(g, gcl[g])
  /\ UNCHANGED UnchangedByGuardian

(* Mutant: the failed reconnection ends the guardian. *)
GuardianGivesUp(g) ==
  /\ gpc[g] = "connect"
  /\ cl' = Close(gcl[g])
  /\ lk' = Release(lk, g, "conn")
  /\ Cancelled(g)
  /\ UNCHANGED <<client, UnchangedByGuardian>>

GuardianConnectFail(g) ==
  /\ gpc[g] = "connect"
  /\ cl' = Close(gcl[g])
  /\ lk' = Release(lk, g, "conn")
  /\ gpc' = [gpc EXCEPT ![g] = "backoff"]
  /\ gcl' = [gcl EXCEPT ![g] = None]
  /\ UNCHANGED <<client, UnchangedByGuardian>>

-----------------------------------------------------------------------------
(* _cleanup_loop and close_connection.                                      *)

UnchangedByCloser == <<spc, scl, attempt, shut>>

Orphans == {c \in Clients : cl[c] = "up" /\ c # client}

(* The user is idle: no send for longer than ws_idle_timeout_sec, which     *)
(* outlasts the sends of two callers (two tries of 300 seconds each, and    *)
(* their connects).  Other users are closed first, so the decision is old   *)
(* when CloserStart acts on it.  Bound: not while a client is orphaned,     *)
(* live and out of the pool, so that their number stays bounded.            *)
CloserPick ==
  /\ cpc = "sleep" /\ shut = "no"
  /\ Orphans = {}
  /\ active /\ client # None
  /\ \A s \in Senders : spc[s] = "idle"
  /\ cpc' = "picked"
  /\ UNCHANGED <<lk, cl, client, info, active, guardVars, UnchangedByCloser>>

(* Mutant: the loop does not end at shutdown. *)
CloserSleepsOn == "sleep"

(* the loop's condition *)
CloserRests == IF shut = "no" THEN "sleep" ELSE "off"

(* with the connection lock, in lock state L *)
Remove(L) ==
  /\ client' = None /\ info' = FALSE
  /\ \/ /\ client = None
        /\ lk' = Drop(PopLocks(L), Closer)
        /\ cpc' = CloserRests
        /\ UNCHANGED cl
     \/ /\ client # None
        /\ lk' = L
        /\ cl' = Close(client)
        /\ cpc' = "closing"

RequestRemoval(L) ==
  LET M == Request(L, Closer, "conn")
  IN  /\ HasLock(L, "conn")
      /\ \/ /\ Waits(M, Closer)
            /\ lk' = M /\ cpc' = "lock"
            /\ UNCHANGED <<cl, client, info>>
         \/ ~Waits(M, Closer) /\ Remove(M)

(* the guardian, if it runs, is cancelled and awaited *)
CloserStart ==
  /\ cpc = "picked"
  /\ active' = FALSE
  /\ guardian' = None
  /\ \/ /\ guardian # None /\ gpc[guardian] # "done"
        /\ lk' = CancelledLocks(lk, guardian)
        /\ cl' = CancelledClients(guardian)
        /\ Cancelled(guardian)
        /\ cpc' = "joining"
        /\ UNCHANGED <<client, info>>
     \/ /\ guardian = None \/ gpc[guardian] = "done"
        /\ RequestRemoval(lk)
        /\ UNCHANGED <<gpc, gcl>>
  /\ UNCHANGED UnchangedByCloser

CloserJoined ==
  /\ cpc = "joining"
  /\ RequestRemoval(lk)
  /\ UNCHANGED <<active, guardVars, UnchangedByCloser>>

CloserAcquires ==
  /\ cpc = "lock" /\ CanAcquire(Closer, "conn")
  /\ Remove(Granted(Closer))
  /\ UNCHANGED <<active, guardVars, UnchangedByCloser>>

CloserDone ==
  /\ cpc = "closing"
  /\ lk' = Drop(PopLocks(lk), Closer)
  /\ cpc' = CloserRests
  /\ UNCHANGED <<cl, client, info, active, guardVars, UnchangedByCloser>>

-----------------------------------------------------------------------------
(* close_all.  The cleanup task may swallow its cancellation: it does where *)
(* close_connection awaits the guardian, and it may while a client closes.  *)

ShutBegin ==
  /\ Shutdown /\ shut = "no"
  /\ shut' = "cleanup"
  /\ \E swallowed \in BOOLEAN :
       /\ swallowed => cpc \in {"picked", "joining", "closing"}
       /\ cpc = "joining" => swallowed
       /\ IF swallowed
          THEN UNCHANGED <<lk, cpc>>
          ELSE lk' = Drop(lk, Closer) /\ cpc' = "off"
  /\ UNCHANGED <<cl, client, info, active, guardVars, spc, scl, attempt>>

ShutGuardians ==
  /\ shut = "cleanup" /\ cpc = "off"
  /\ shut' = "guardians"
  /\ lk' = CancelledLocks(lk, guardian)
  /\ cl' = CancelledClients(guardian)
  /\ Cancelled(guardian)
  /\ UNCHANGED <<client, info, active, guardian, spc, scl, attempt, cpc>>

(* the clients are popped and closed without their locks *)
ShutClients ==
  /\ shut = "guardians"
  /\ shut' = "clients"
  /\ guardian' = None
  /\ client' = None
  /\ cl' = IF client = None THEN cl ELSE Close(client)
  /\ UNCHANGED <<lk, info, active, gpc, gcl, spc, scl, attempt, cpc>>

ShutDone ==
  /\ shut = "clients"
  /\ shut' = "done"
  /\ lk' = PopLocks(lk)
  /\ UNCHANGED <<cl, client, info, active, guardVars, spc, scl, attempt, cpc>>

-----------------------------------------------------------------------------

Next ==
  \/ \E s \in Senders : \/ Start(s) \/ AcquireSend(s) \/ AcquireConn(s)
                        \/ ConnectOk(s) \/ ConnectFail(s)
                        \/ Answer(s) \/ SendFails(s) \/ Retry(s)
  \/ \E c \in Clients : LoseConnection(c)
  \/ \E g \in Guardians : \/ Recheck(g) \/ Notice(g) \/ Wake(g)
                          \/ GuardianAcquires(g)
                          \/ GuardianConnectOk(g) \/ GuardianConnectFail(g)
  \/ CloserPick \/ CloserStart \/ CloserJoined \/ CloserAcquires \/ CloserDone
  \/ ShutBegin \/ ShutGuardians \/ ShutClients \/ ShutDone

(* Every started step ends: connects and sends have timeouts, sleeps wake.  *)
(* asyncio.Lock serves its waiters in order, hence the strong fairness.     *)
Fairness ==
  /\ \A s \in Senders :
       /\ SF_vars(AcquireSend(s)) /\ SF_vars(AcquireConn(s))
       /\ WF_vars(ConnectOk(s) \/ ConnectFail(s))
       /\ WF_vars(Answer(s) \/ SendFails(s))
       /\ WF_vars(Retry(s))
  /\ \A g \in Guardians :
       /\ WF_vars(Recheck(g) \/ Notice(g) \/ Wake(g))
       /\ SF_vars(GuardianAcquires(g))
       /\ WF_vars(GuardianConnectOk(g) \/ GuardianConnectFail(g))
  /\ WF_vars(CloserStart \/ CloserJoined \/ CloserDone)
  /\ SF_vars(CloserAcquires)
  /\ WF_vars(ShutGuardians \/ ShutClients \/ ShutDone)

Spec == Init /\ [][Next]_vars /\ Fairness

(* external: a gateway that is reachable again and again *)
GatewayBack == \A g \in Guardians : SF_vars(GuardianConnectOk(g))

SpecGatewayBack == Spec /\ GatewayBack

-----------------------------------------------------------------------------
(* Properties.                                                              *)

(* The types of the manager's dictionaries and of its tasks' states. *)
TypeOK ==
  /\ lk \in [of : [{"conn", "send"} -> Locks \cup {None}],
             holder : [Locks -> Tasks \cup {None}],
             wants : [Tasks -> Locks \cup {None}]]
  /\ cl \in [Clients -> {"off", "connecting", "up"}]
  /\ client \in Clients \cup {None}
  /\ info \in BOOLEAN /\ active \in BOOLEAN
  /\ guardian \in Guardians \cup {None}
  /\ gpc \in [Guardians -> {"watch", "pause", "lock", "connect", "backoff", "done"}]
  /\ gcl \in [Guardians -> Clients \cup {None}]
  /\ spc \in [Senders -> {"idle", "sendlock", "connlock", "connecting",
                          "await", "closing"}]
  /\ scl \in [Senders -> Clients \cup {None}]
  /\ attempt \in [Senders -> 1..2]
  /\ cpc \in {"off", "sleep", "picked", "joining", "lock", "closing"}
  /\ shut \in {"no", "cleanup", "guardians", "clients", "done"}

(* "1 user = 1 persistent WS connection" (class docstring): however the     *)
(* calls and the guardian race to reconnect, one client of a user is live.  *)
OneLive == \A c, d \in Clients : cl[c] = "up" /\ cl[d] = "up" => c = d

(* The send locks serialise whole logical sends: no second send_message is  *)
(* past its send lock, retry included.                                      *)
SendSerial ==
  \A s, t \in Senders :
    s # t => spc[s] \in {"idle", "sendlock"} \/ spc[t] \in {"idle", "sendlock"}

(* A user whose connection is in the pool, live or lost, has a running      *)
(* guardian until shutdown: no order of reconnections leaves it alone.      *)
PooledHasGuardian ==
  client # None /\ shut = "no" => guardian # None /\ gpc[guardian] # "done"

(* A guardian reconnects over a lost connection only: it never closes a     *)
(* live one that a send has opened since it noticed the loss.               *)
GuardianSparesLive ==
  [][\A g \in Guardians :
       gpc[g] # "connect" /\ gpc'[g] = "connect" => ~Connected(client)]_vars

(* After close_all no guardian is on its way to a new connection. *)
NoGuardianAfterShutdown ==
  shut = "done" => \A g \in Guardians : gpc[g] \in {"watch", "done"}

(* After close_all no connection is live: "Close all connections (for       *)
(* graceful shutdown)".                                                     *)
ShutdownLeavesNone == shut = "done" => \A c \in Clients : cl[c] # "up"

(* Whoever holds a lock is still in its "async with", and one that holds a  *)
(* connection lock waits for no other lock: neither a popped lock nor a     *)
(* cancelled task leaves waiters behind that nobody wakes.                  *)
HoldersRun ==
  \A l \in Locks :
    LET h == lk.holder[l]
    IN  /\ h \in Senders => spc[h] \notin {"idle", "sendlock"}
        /\ h \in Guardians => gpc[h] = "connect"
        /\ h = Closer => cpc = "closing"
        /\ h # None /\ l[1] = "conn" => ~Waits(lk, h)

(* Every send_message returns or raises, whatever the connection, the       *)
(* guardian, the cleanup loop and close_all do: nobody keeps a lock and     *)
(* nobody waits on a lock that is never free.                               *)
SendReturns == \A s \in Senders : spc[s] # "idle" ~> spc[s] = "idle"

(* close_all returns: the cleanup task, the guardian and the locks it meets *)
(* never wait for one another, even when a cancellation is swallowed.       *)
ShutdownEnds == shut # "no" ~> shut = "done"

(* The pool keeps a user's connection: "Connections are PERSISTENT - never  *)
(* closed on idle (proactive messages need live WS)" (module docstring).    *)
NeverClosedOnIdle == [][client # None /\ shut = "no" => client' # None]_vars

(* A connection in the pool that is lost comes back without a message of    *)
(* the user, when the gateway does.                                         *)
Reconnects == client # None ~> (client = None \/ Connected(client))

=============================================================================

-------------------- MODULE WSConnectionManagerProofs --------------------
(***************************************************************************)
(* Theorems about WSConnectionManager.  The locks are dealt with first:    *)
(* each operator from lock state to lock state changes what one task holds *)
(* and awaits.  The rest of the module speaks of Has and Awaits only.      *)
(***************************************************************************)
EXTENDS WSConnectionManager, TLAPS

Kinds == {"conn", "send"}

(* A lock state whose entries are locks of their dictionary. *)
LockType(L) ==
  /\ L \in [of : [Kinds -> Locks \cup {None}],
            holder : [Locks -> Tasks \cup {None}],
            wants : [Tasks -> Locks \cup {None}]]
  /\ \A k \in Kinds : L.of[k] # None => L.of[k][1] = k

(* t holds a lock of kind k. *)
Has(L, t, k) == \E l \in Locks : l[1] = k /\ L.holder[l] = t

(* What everybody but t holds and awaits is the same in L and M. *)
Local(L, M, t) ==
  \A u \in Tasks \ {t} :
    /\ \A k \in Kinds : Has(M, u, k) <=> Has(L, u, k)
    /\ Waits(M, u) <=> Waits(L, u)

(* Whatever lock is held or awaited is the one in the dictionary. *)
OneLock(L) ==
  \A l \in Locks :
    L.holder[l] # None \/ (\E t \in Tasks : L.wants[t] = l) => L.of[l[1]] = l

-----------------------------------------------------------------------------
(* The operators on lock states.                                           *)

LEMMA LockOfOk ==
  ASSUME NEW L, LockType(L), NEW k \in Kinds, HasLock(L, k)
  PROVE  /\ LockOf(L, k) \in Locks
         /\ LockOf(L, k)[1] = k
         /\ L.of[k] # None => LockOf(L, k) = L.of[k]
         /\ L.of[k] = None => LockOf(L, k) \in Collected(L)
<1>1. CASE L.of[k] # None
  BY <1>1 DEF LockOf, LockType
<1>2. CASE L.of[k] = None
  BY <1>2 DEF LockOf, HasLock, Collected
<1> QED
  BY <1>1, <1>2

(* async with lock: t waits, and nobody holds anything new, or t has it. *)
LEMMA RequestOk ==
  ASSUME NEW L, LockType(L), NEW t \in Tasks, NEW k \in Kinds, HasLock(L, k)
  PROVE  LET M == Request(L, t, k)
         IN  /\ LockType(M)
             /\ Local(L, M, t)
             /\ \A j \in Kinds :
                  Has(M, t, j) <=> Has(L, t, j) \/ (j = k /\ ~Waits(M, t))
             /\ OneLock(L) => OneLock(M)
<1> DEFINE l == LockOf(L, k)
           M == Request(L, t, k)
           free == L.holder[l] = None /\ \A u \in Tasks : L.wants[u] # l
<1>1. /\ l \in Locks
      /\ l[1] = k
      /\ L.of[k] # None => l = L.of[k]
      /\ L.of[k] = None => l \in Collected(L)
  BY LockOfOk
<1> HIDE DEF l
<1>2. M = [L EXCEPT !.of[k] = l,
                    !.holder[l] = IF free THEN t ELSE @,
                    !.wants[t] = IF free THEN None ELSE l]
  BY DEF M, l, Request
<1> HIDE DEF M
<1>3. /\ M.of = [L.of EXCEPT ![k] = l]
      /\ M.holder = [L.holder EXCEPT ![l] = IF free THEN t ELSE @]
      /\ M.wants = [L.wants EXCEPT ![t] = IF free THEN None ELSE l]
      /\ M = [of |-> M.of, holder |-> M.holder, wants |-> M.wants]
  BY <1>1, <1>2 DEF LockType
<1>4. LockType(M)
  <2>1. M.of \in [Kinds -> Locks \cup {None}]
    BY <1>1, <1>3 DEF LockType
  <2>2. M.holder \in [Locks -> Tasks \cup {None}]
    BY <1>1, <1>3 DEF LockType
  <2>3. M.wants \in [Tasks -> Locks \cup {None}]
    BY <1>1, <1>3 DEF LockType
  <2>4. \A j \in Kinds : M.of[j] # None => M.of[j][1] = j
    BY <1>1, <1>3 DEF LockType
  <2> QED
    BY <1>3, <2>1, <2>2, <2>3, <2>4 DEF LockType
<1>5. /\ \A m \in Locks : M.holder[m] = IF m = l /\ free THEN t ELSE L.holder[m]
      /\ \A u \in Tasks : M.wants[u] = IF u = t THEN IF free THEN None ELSE l
                                       ELSE L.wants[u]
      /\ \A j \in Kinds : M.of[j] = IF j = k THEN l ELSE L.of[j]
  BY <1>1, <1>3 DEF LockType
<1>6. free => L.holder[l] = None
  OBVIOUS
<1>7. Waits(M, t) <=> ~free
  BY <1>1, <1>5, NoneAssumption DEF Waits
<1> HIDE DEF free
<1>8. Local(L, M, t)
  <2> SUFFICES ASSUME NEW u \in Tasks \ {t}
               PROVE  /\ \A j \in Kinds : Has(M, u, j) <=> Has(L, u, j)
                      /\ Waits(M, u) <=> Waits(L, u)
    BY DEF Local
  <2>1. \A m \in Locks : M.holder[m] = u <=> L.holder[m] = u
    BY <1>5, <1>6, NoneAssumption
  <2> QED
    BY <1>5, <2>1 DEF Has, Waits
<1>9. \A j \in Kinds : Has(M, t, j) <=> Has(L, t, j) \/ (j = k /\ ~Waits(M, t))
  <2>1. \A m \in Locks : M.holder[m] = t <=> L.holder[m] = t \/ (m = l /\ free)
    BY <1>5
  <2> QED
    BY <1>1, <1>7, <2>1 DEF Has
<1>10. ASSUME OneLock(L) PROVE OneLock(M)
  <2> SUFFICES ASSUME NEW m \in Locks,
                      M.holder[m] # None \/ \E u \in Tasks : M.wants[u] = m
               PROVE  M.of[m[1]] = m
    BY DEF OneLock
  <2>1. m[1] \in Kinds
    BY DEF Locks, Kinds
  <2>2. CASE m = l
    BY <1>1, <1>5, <2>2
  <2>3. CASE m # l
    <3>1. L.holder[m] # None \/ \E u \in Tasks : L.wants[u] = m
      BY <1>5, <2>3, NoneAssumption
    <3>2. L.of[m[1]] = m
      BY <1>10, <3>1 DEF OneLock
    <3>3. m[1] # k
      BY <1>1, <2>3, <3>2, NoneAssumption
    <3> QED
      BY <1>5, <2>1, <3>2, <3>3
  <2> QED
    BY <2>2, <2>3
<1> QED
  BY <1>4, <1>8, <1>9, <1>10 DEF M

(* The lock t waits for is free. *)
LEMMA GrantedOk ==
  ASSUME LockType(lk), NEW t \in Tasks, NEW k \in Kinds, CanAcquire(t, k)
  PROVE  /\ LockType(Granted(t))
         /\ Local(lk, Granted(t), t)
         /\ ~Waits(Granted(t), t)
         /\ \A j \in Kinds : Has(Granted(t), t, j) <=> Has(lk, t, j) \/ j = k
         /\ OneLock(lk) => OneLock(Granted(t))
<1> DEFINE l == lk.wants[t]
           M == Granted(t)
<1>1. l \in Locks /\ l[1] = k /\ lk.holder[l] = None
  BY DEF CanAcquire, Waits, LockType
<1>2. M = [lk EXCEPT !.holder[l] = t, !.wants[t] = None]
  BY DEF Granted
<1>3. /\ M.of = lk.of
      /\ M.holder = [lk.holder EXCEPT ![l] = t]
      /\ M.wants = [lk.wants EXCEPT ![t] = None]
      /\ M = [of |-> M.of, holder |-> M.holder, wants |-> M.wants]
  BY <1>1, <1>2 DEF LockType
<1> HIDE DEF M
<1>4. LockType(M)
  BY <1>1, <1>3 DEF LockType
<1>5. /\ \A m \in Locks : M.holder[m] = IF m = l THEN t ELSE lk.holder[m]
      /\ \A u \in Tasks : M.wants[u] = IF u = t THEN None ELSE lk.wants[u]
  BY <1>1, <1>3 DEF LockType
<1>6. ~Waits(M, t)
  BY <1>5 DEF Waits
<1>7. Local(lk, M, t)
  <2> SUFFICES ASSUME NEW u \in Tasks \ {t}
               PROVE  /\ \A j \in Kinds : Has(M, u, j) <=> Has(lk, u, j)
                      /\ Waits(M, u) <=> Waits(lk, u)
    BY DEF Local
  <2>1. \A m \in Locks : M.holder[m] = u <=> lk.holder[m] = u
    BY <1>1, <1>5, NoneAssumption
  <2> QED
    BY <1>5, <2>1 DEF Has, Waits
<1>8. \A j \in Kinds : Has(M, t, j) <=> Has(lk, t, j) \/ j = k
  <2>1. \A m \in Locks : M.holder[m] = t <=> lk.holder[m] = t \/ m = l
    BY <1>5
  <2> QED
    BY <1>1, <2>1 DEF Has
<1>9. ASSUME OneLock(lk) PROVE OneLock(M)
  <2> SUFFICES ASSUME NEW m \in Locks,
                      M.holder[m] # None \/ \E u \in Tasks : M.wants[u] = m
               PROVE  lk.of[m[1]] = m
    BY <1>3 DEF OneLock
  <2>1. lk.holder[m] # None \/ \E u \in Tasks : lk.wants[u] = m
    BY <1>5, NoneAssumption
  <2> QED
    BY <1>9, <2>1 DEF OneLock
<1> QED
  BY <1>4, <1>6, <1>7, <1>8, <1>9 DEF M

(* t leaves the "async with" of kind k. *)
LEMMA ReleaseOk ==
  ASSUME NEW L, LockType(L), NEW t \in Tasks, NEW k \in Kinds
  PROVE  LET M == Release(L, t, k)
         IN  /\ LockType(M)
             /\ Local(L, M, t)
             /\ Waits(M, t) <=> Waits(L, t)
             /\ \A j \in Kinds : Has(M, t, j) <=> Has(L, t, j) /\ j # k
             /\ OneLock(L) => OneLock(M)
<1> DEFINE M == Release(L, t, k)
<1>1. /\ M.of = L.of /\ M.wants = L.wants
      /\ M.holder = [l \in Locks |-> IF l[1] = k /\ L.holder[l] = t THEN None ELSE L.holder[l]]
      /\ M = [of |-> M.of, holder |-> M.holder, wants |-> M.wants]
  BY DEF Release, LockType
<1> HIDE DEF M
<1>2. LockType(M)
  BY <1>1 DEF LockType
<1>3. Local(L, M, t) /\ (Waits(M, t) <=> Waits(L, t))
  BY <1>1, NoneAssumption DEF Local, Has, Waits
<1>4. \A j \in Kinds : Has(M, t, j) <=> Has(L, t, j) /\ j # k
  BY <1>1, NoneAssumption DEF Has
<1>5. OneLock(L) => OneLock(M)
  BY <1>1 DEF OneLock
<1> QED
  BY <1>2, <1>3, <1>4, <1>5 DEF M

(* t ends, or its call does. *)
LEMMA DropOk ==
  ASSUME NEW L, LockType(L), NEW t \in Tasks
  PROVE  LET M == Drop(L, t)
         IN  /\ LockType(M)
             /\ Local(L, M, t)
             /\ ~Waits(M, t)
             /\ \A j \in Kinds : ~Has(M, t, j)
             /\ OneLock(L) => OneLock(M)
<1> DEFINE M == Drop(L, t)
           H == [l \in Locks |-> IF L.holder[l] = t THEN None ELSE L.holder[l]]
<1>0. M = [L EXCEPT !.holder = H, !.wants[t] = None]
  BY DEF Drop
<1> HIDE DEF M, H
<1>1. /\ M.of = L.of /\ M.wants = [L.wants EXCEPT ![t] = None] /\ M.holder = H
      /\ M = [of |-> M.of, holder |-> M.holder, wants |-> M.wants]
  BY <1>0 DEF LockType
<1> USE DEF H
<1>2. LockType(M)
  BY <1>1 DEF LockType
<1>3. \A u \in Tasks : M.wants[u] = IF u = t THEN None ELSE L.wants[u]
  BY <1>1 DEF LockType
<1>4. Local(L, M, t) /\ ~Waits(M, t)
  BY <1>1, <1>3, NoneAssumption DEF Local, Has, Waits
<1>5. \A j \in Kinds : ~Has(M, t, j)
  BY <1>1, NoneAssumption DEF Has
<1>6. OneLock(L) => OneLock(M)
  BY <1>1, <1>3, NoneAssumption DEF OneLock
<1> QED
  BY <1>2, <1>4, <1>5, <1>6 DEF M

(* The entries go, the objects stay with whoever uses them. *)
LEMMA PopLocksOk ==
  ASSUME NEW L, LockType(L)
  PROVE  /\ LockType(PopLocks(L))
         /\ \A t \in Tasks : /\ \A k \in Kinds : Has(PopLocks(L), t, k) <=> Has(L, t, k)
                             /\ Waits(PopLocks(L), t) <=> Waits(L, t)
<1> DEFINE M == PopLocks(L)
<1>1. /\ M.of = [k \in Kinds |-> None] /\ M.wants = L.wants /\ M.holder = L.holder
      /\ M = [of |-> M.of, holder |-> M.holder, wants |-> M.wants]
  BY DEF PopLocks, LockType, Kinds
<1> HIDE DEF M
<1>2. LockType(M)
  BY <1>1 DEF LockType
<1>3. \A t \in Tasks : /\ \A k \in Kinds : Has(M, t, k) <=> Has(L, t, k)
                       /\ Waits(M, t) <=> Waits(L, t)
  BY <1>1 DEF Has, Waits
<1> QED
  BY <1>2, <1>3 DEF M

-----------------------------------------------------------------------------
(* Where a task is tells what it holds and whether it waits.               *)

SenderStates == {"idle", "sendlock", "connlock", "connecting", "await", "closing"}
GuardianStates == {"watch", "pause", "lock", "connect", "backoff", "done"}
CloserStates == {"off", "sleep", "picked", "joining", "lock", "closing"}

SenderLocks(L, s, p) ==
  /\ Has(L, s, "send") <=> p \notin {"idle", "sendlock"}
  /\ Has(L, s, "conn") <=> p = "connecting"
  /\ Waits(L, s) => p \in {"sendlock", "connlock"}

GuardianLocks(L, g, p) ==
  /\ ~Has(L, g, "send")
  /\ Has(L, g, "conn") <=> p = "connect"
  /\ Waits(L, g) => p = "lock"

CloserLocks(L, p) ==
  /\ ~Has(L, Closer, "send")
  /\ Has(L, Closer, "conn") <=> p = "closing"
  /\ Waits(L, Closer) => p = "lock"

TypeInv == TypeOK /\ LockType(lk)

HoldersInv ==
  /\ \A s \in Senders : SenderLocks(lk, s, spc[s])
  /\ \A g \in Guardians : GuardianLocks(lk, g, gpc[g])
  /\ CloserLocks(lk, cpc)

LEMMA HoldersSuffice == TypeInv /\ HoldersInv => HoldersRun
<1> SUFFICES ASSUME TypeInv, HoldersInv, NEW l \in Locks
             PROVE  LET h == lk.holder[l]
                    IN  /\ h \in Senders => spc[h] \notin {"idle", "sendlock"}
                        /\ h \in Guardians => gpc[h] = "connect"
                        /\ h = Closer => cpc = "closing"
                        /\ h # None /\ l[1] = "conn" => ~Waits(lk, h)
  BY DEF HoldersRun
<1> DEFINE h == lk.holder[l]
<1>1. l[1] \in Kinds /\ (h # None => h \in Tasks) /\ Has(lk, h, l[1])
  BY DEF TypeInv, LockType, Has, Locks, Kinds
<1> HIDE DEF h
<1>2. CASE h \in Senders
  BY <1>1, <1>2, TasksAssumption DEF HoldersInv, SenderLocks, Kinds, h
<1>3. CASE h \in Guardians
  BY <1>1, <1>3, TasksAssumption DEF HoldersInv, GuardianLocks, Kinds, h
<1>4. CASE h = Closer
  BY <1>1, <1>4, TasksAssumption DEF HoldersInv, CloserLocks, Kinds, h
<1>5. CASE h = None
  BY <1>5, NoneAssumption DEF Tasks, h
<1> QED
  BY <1>1, <1>2, <1>3, <1>4, <1>5 DEF Tasks

LEMMA LocalTrans ==
  ASSUME NEW L, NEW M, NEW N, NEW t, Local(L, M, t), Local(M, N, t)
  PROVE  Local(L, N, t)
BY DEF Local

(* A step of one task leaves to the others what they have. *)
LEMMA SenderMoves ==
  ASSUME HoldersInv, NEW s \in Senders, spc \in [Senders -> SenderStates],
         Local(lk, lk', s), NEW p, spc' = [spc EXCEPT ![s] = p],
         SenderLocks(lk', s, p), UNCHANGED <<gpc, cpc>>
  PROVE  HoldersInv'
<1>1. \A t \in Senders : SenderLocks(lk', t, spc'[t])
  <2> SUFFICES ASSUME NEW t \in Senders \ {s} PROVE SenderLocks(lk', t, spc'[t])
    OBVIOUS
  <2>1. SenderLocks(lk, t, spc[t]) /\ spc'[t] = spc[t]
    BY DEF HoldersInv
  <2> QED
    BY <2>1 DEF Local, SenderLocks, Tasks, Kinds
<1>2. \A g \in Guardians : GuardianLocks(lk', g, gpc[g])
  BY TasksAssumption DEF HoldersInv, Local, GuardianLocks, Tasks, Kinds
<1>3. CloserLocks(lk', cpc)
  BY TasksAssumption DEF HoldersInv, Local, CloserLocks, Tasks, Kinds
<1> QED
  BY <1>1, <1>2, <1>3 DEF HoldersInv

LEMMA GuardianMoves ==
  ASSUME HoldersInv, NEW g \in Guardians, gpc \in [Guardians -> GuardianStates],
         Local(lk, lk', g), NEW p, gpc' = [gpc EXCEPT ![g] = p],
         GuardianLocks(lk', g, p), UNCHANGED <<spc, cpc>>
  PROVE  HoldersInv'
<1>1. \A h \in Guardians : GuardianLocks(lk', h, gpc'[h])
  <2> SUFFICES ASSUME NEW h \in Guardians \ {g} PROVE GuardianLocks(lk', h, gpc'[h])
    OBVIOUS
  <2>1. GuardianLocks(lk, h, gpc[h]) /\ gpc'[h] = gpc[h]
    BY DEF HoldersInv
  <2> QED
    BY <2>1 DEF Local, GuardianLocks, Tasks, Kinds
<1>2. \A s \in Senders : SenderLocks(lk', s, spc[s])
  BY TasksAssumption DEF HoldersInv, Local, SenderLocks, Tasks, Kinds
<1>3. CloserLocks(lk', cpc)
  BY TasksAssumption DEF HoldersInv, Local, CloserLocks, Tasks, Kinds
<1> QED
  BY <1>1, <1>2, <1>3 DEF HoldersInv

LEMMA CloserMoves ==
  ASSUME HoldersInv, Local(lk, lk', Closer), CloserLocks(lk', cpc'),
         UNCHANGED <<spc, gpc>>
  PROVE  HoldersInv'
<1>1. \A s \in Senders : SenderLocks(lk', s, spc[s])
  BY TasksAssumption DEF HoldersInv, Local, SenderLocks, Tasks, Kinds
<1>2. \A g \in Guardians : GuardianLocks(lk', g, gpc[g])
  BY TasksAssumption DEF HoldersInv, Local, GuardianLocks, Tasks, Kinds
<1> QED
  BY <1>1, <1>2 DEF HoldersInv

LEMMA NewClientOk ==
  ASSUME Unused # {}
  PROVE  NewClient \in Unused /\ NewClient \in Clients
BY DEF NewClient, Unused

LEMMA ReplaceOk ==
  ASSUME TypeInv, NEW c \in Clients
  PROVE  Replace(client, c) \in [Clients -> {"off", "connecting", "up"}]
BY DEF TypeInv, TypeOK, Replace, Close

(* get_or_create from its lock on, with the lock of the send held. *)
LEMMA UnderConnLockOk ==
  ASSUME TypeInv, NEW s \in Senders, NEW L, LockType(L), Local(lk, L, s),
         Has(L, s, "send"), Has(L, s, "conn"), ~Waits(L, s), UnderConnLock(s, L)
  PROVE  /\ LockType(lk') /\ Local(lk, lk', s) /\ (OneLock(L) => OneLock(lk'))
         /\ \E p \in {"await", "connecting"} :
              spc' = [spc EXCEPT ![s] = p] /\ SenderLocks(lk', s, p)
         /\ scl' \in [Senders -> Clients \cup {None}]
         /\ cl' \in [Clients -> {"off", "connecting", "up"}]
<1>0. s \in Tasks /\ "conn" \in Kinds /\ "send" \in Kinds
  BY DEF Tasks, Kinds
<1>1. CASE Connected(client)
  <2>1. /\ lk' = Release(L, s, "conn") /\ spc' = [spc EXCEPT ![s] = "await"]
        /\ scl' = [scl EXCEPT ![s] = client] /\ cl' = cl
    BY <1>1 DEF UnderConnLock
  <2>2. /\ LockType(lk') /\ Local(L, lk', s) /\ (OneLock(L) => OneLock(lk'))
        /\ Has(lk', s, "send") /\ ~Has(lk', s, "conn") /\ ~Waits(lk', s)
    BY <1>0, <2>1, ReleaseOk
  <2>3. SenderLocks(lk', s, "await")
    BY <2>2 DEF SenderLocks
  <2> QED
    BY <2>1, <2>2, <2>3, LocalTrans DEF TypeInv, TypeOK
<1>2. CASE ~Connected(client)
  <2>1. /\ lk' = L /\ spc' = [spc EXCEPT ![s] = "connecting"] /\ Unused # {}
        /\ scl' = [scl EXCEPT ![s] = NewClient] /\ cl' = Replace(client, NewClient)
    BY <1>2 DEF UnderConnLock
  <2>2. SenderLocks(lk', s, "connecting")
    BY <2>1 DEF SenderLocks
  <2>3. NewClient \in Clients
    BY <2>1, NewClientOk
  <2>4. cl' \in [Clients -> {"off", "connecting", "up"}]
    BY <2>1, <2>3, ReplaceOk
  <2>5. scl' \in [Senders -> Clients \cup {None}]
    BY <2>1, <2>3 DEF TypeInv, TypeOK
  <2> QED
    BY <2>1, <2>2, <2>4, <2>5
<1> QED
  BY <1>1, <1>2

LEMMA GetOrCreateOk ==
  ASSUME TypeInv, NEW s \in Senders, NEW L, LockType(L), Local(lk, L, s),
         Has(L, s, "send"), ~Has(L, s, "conn"), ~Waits(L, s), GetOrCreate(s, L)
  PROVE  /\ LockType(lk') /\ Local(lk, lk', s) /\ (OneLock(L) => OneLock(lk'))
         /\ \E p \in {"connlock", "await", "connecting"} :
              spc' = [spc EXCEPT ![s] = p] /\ SenderLocks(lk', s, p)
         /\ scl' \in [Senders -> Clients \cup {None}]
         /\ cl' \in [Clients -> {"off", "connecting", "up"}]
<1> DEFINE M == Request(L, s, "conn")
<1>1. s \in Tasks /\ "conn" \in Kinds /\ "send" \in Kinds /\ HasLock(L, "conn")
  BY DEF Tasks, Kinds, GetOrCreate
<1>2. /\ LockType(M) /\ Local(L, M, s) /\ (OneLock(L) => OneLock(M))
      /\ Has(M, s, "send") /\ (Has(M, s, "conn") <=> ~Waits(M, s))
  BY <1>1, RequestOk
<1> HIDE DEF M
<1>3. Local(lk, M, s)
  BY <1>2, LocalTrans
<1>4. CASE Waits(M, s)
  <2>1. /\ lk' = M /\ spc' = [spc EXCEPT ![s] = "connlock"]
        /\ scl' = [scl EXCEPT ![s] = None] /\ cl' = cl
    BY <1>4 DEF GetOrCreate, M
  <2>2. SenderLocks(lk', s, "connlock")
    BY <1>2, <1>4, <2>1 DEF SenderLocks
  <2> QED
    BY <1>2, <1>3, <2>1, <2>2 DEF TypeInv, TypeOK
<1>5. CASE ~Waits(M, s)
  <2>1. UnderConnLock(s, M)
    BY <1>5 DEF GetOrCreate, M
  <2> QED
    BY <1>2, <1>3, <1>5, <2>1, UnderConnLockOk
<1> QED
  BY <1>4, <1>5

SendAction(s) ==
  \/ Start(s) \/ AcquireSend(s) \/ AcquireConn(s) \/ ConnectOk(s) \/ ConnectFail(s)
  \/ Answer(s) \/ SendFails(s) \/ Retry(s)

ReturnAction(s) ==
  ConnectFail(s) \/ Answer(s) \/ (SendFails(s) /\ attempt[s] = 2)

(* The steps of send_message that take or leave no lock but the sender's. *)
LEMMA OwnLocksStep ==
  ASSUME TypeInv, HoldersInv, NEW s \in Senders, SendAction(s), ~ConnectOk(s)
  PROVE  /\ LockType(lk') /\ Local(lk, lk', s) /\ (OneLock(lk) => OneLock(lk'))
         /\ \E p \in SenderStates :
              spc' = [spc EXCEPT ![s] = p] /\ SenderLocks(lk', s, p)
         /\ scl' \in [Senders -> Clients \cup {None}]
         /\ cl' \in [Clients -> {"off", "connecting", "up"}]
<1>0. s \in Tasks /\ "conn" \in Kinds /\ "send" \in Kinds
  BY DEF Tasks, Kinds
<1>1. LockType(lk) /\ SenderLocks(lk, s, spc[s]) /\ Local(lk, lk, s)
  BY DEF TypeInv, HoldersInv, Local
<1>2. CASE Start(s)
  <2> DEFINE L == Request(lk, s, "send")
  <2>1. /\ LockType(L) /\ Local(lk, L, s) /\ (OneLock(lk) => OneLock(L))
        /\ (Has(L, s, "send") <=> ~Waits(L, s)) /\ ~Has(L, s, "conn")
    BY <1>0, <1>1, <1>2, RequestOk DEF Start, SenderLocks
  <2>2. CASE Waits(L, s)
    <3>1. /\ lk' = L /\ spc' = [spc EXCEPT ![s] = "sendlock"]
          /\ scl' = scl /\ cl' = cl
      BY <1>2, <2>2 DEF Start
    <3>2. SenderLocks(lk', s, "sendlock")
      BY <2>1, <2>2, <3>1 DEF SenderLocks
    <3> QED
      BY <2>1, <3>1, <3>2 DEF TypeInv, TypeOK, SenderStates
  <2>3. CASE ~Waits(L, s)
    <3>1. GetOrCreate(s, L)
      BY <1>2, <2>3 DEF Start
    <3> HIDE DEF L
    <3> QED
      BY <2>1, <2>3, <3>1, GetOrCreateOk DEF SenderStates
  <2> QED
    BY <2>2, <2>3
<1>3. CASE AcquireSend(s)
  <2>1. spc[s] = "sendlock" /\ CanAcquire(s, "send") /\ GetOrCreate(s, Granted(s))
    BY <1>3 DEF AcquireSend
  <2>2. /\ LockType(Granted(s)) /\ Local(lk, Granted(s), s)
        /\ (OneLock(lk) => OneLock(Granted(s))) /\ ~Waits(Granted(s), s)
        /\ Has(Granted(s), s, "send") /\ ~Has(Granted(s), s, "conn")
    BY <1>0, <1>1, <2>1, GrantedOk DEF SenderLocks
  <2> QED
    BY <2>1, <2>2, GetOrCreateOk DEF SenderStates
<1>4. CASE AcquireConn(s)
  <2>1. spc[s] = "connlock" /\ CanAcquire(s, "conn") /\ UnderConnLock(s, Granted(s))
    BY <1>4 DEF AcquireConn
  <2>2. /\ LockType(Granted(s)) /\ Local(lk, Granted(s), s)
        /\ (OneLock(lk) => OneLock(Granted(s))) /\ ~Waits(Granted(s), s)
        /\ Has(Granted(s), s, "send") /\ Has(Granted(s), s, "conn")
    BY <1>0, <1>1, <2>1, GrantedOk DEF SenderLocks
  <2> QED
    BY <2>1, <2>2, UnderConnLockOk DEF SenderStates
<1>5. CASE Retry(s)
  <2>1. spc[s] = "closing" /\ GetOrCreate(s, lk)
    BY <1>5 DEF Retry
  <2>2. ~Waits(lk, s) /\ Has(lk, s, "send") /\ ~Has(lk, s, "conn")
    BY <1>1, <2>1 DEF SenderLocks
  <2> QED
    BY <1>1, <2>1, <2>2, GetOrCreateOk DEF SenderStates
<1>6. CASE ReturnAction(s)
  <2>1. /\ lk' = Drop(lk, s) /\ spc' = [spc EXCEPT ![s] = "idle"]
        /\ scl' = [scl EXCEPT ![s] = None] /\ (cl' = cl \/ cl' = Close(scl[s]))
    BY <1>6 DEF ReturnAction, ConnectFail, Answer, SendFails, Return
  <2>2. /\ LockType(lk') /\ Local(lk, lk', s) /\ (OneLock(lk) => OneLock(lk'))
        /\ ~Waits(lk', s) /\ ~Has(lk', s, "send") /\ ~Has(lk', s, "conn")
    BY <1>0, <1>1, <2>1, DropOk
  <2>3. SenderLocks(lk', s, "idle")
    BY <2>2 DEF SenderLocks
  <2> QED
    BY <2>1, <2>2, <2>3 DEF TypeInv, TypeOK, SenderStates, Close
<1>7. CASE SendFails(s) /\ attempt[s] # 2
  <2>1. /\ spc[s] = "await" /\ lk' = lk /\ spc' = [spc EXCEPT ![s] = "closing"]
        /\ scl' = scl /\ cl' = Close(scl[s])
    BY <1>7 DEF SendFails
  <2>2. SenderLocks(lk', s, "closing")
    BY <1>1, <2>1 DEF SenderLocks
  <2> QED
    BY <1>1, <2>1, <2>2 DEF TypeInv, TypeOK, SenderStates, Close
<1> QED
  BY <1>2, <1>3, <1>4, <1>5, <1>6, <1>7 DEF SendAction, ReturnAction

(* Whoever connects cancels the guardian there is, and starts one. *)
LEMMA ConnectOkLocks ==
  ASSUME TypeInv, HoldersInv, NEW s \in Senders, ConnectOk(s)
  PROVE  TypeInv' /\ HoldersInv' /\ (OneLock(lk) => OneLock(lk'))
<1> DEFINE L == CancelledLocks(lk, guardian)
<1>0. s \in Tasks /\ Guardians \subseteq Tasks /\ "conn" \in Kinds /\ "send" \in Kinds
  BY DEF Tasks, Kinds
<1>1. LockType(lk) /\ SenderLocks(lk, s, "connecting")
  BY DEF TypeInv, HoldersInv, ConnectOk
<1>2. /\ LockType(L) /\ Local(lk, L, guardian) /\ (OneLock(lk) => OneLock(L))
      /\ guardian \in Guardians =>
           ~Has(L, guardian, "send") /\ ~Has(L, guardian, "conn") /\ ~Waits(L, guardian)
  <2>1. CASE guardian = None
    BY <1>1, <2>1, NoneAssumption DEF CancelledLocks, Local, Tasks
  <2>2. CASE guardian # None
    <3>1. guardian \in Guardians /\ L = Drop(lk, guardian)
      BY <2>2 DEF TypeInv, TypeOK, CancelledLocks
    <3> HIDE DEF L
    <3> QED
      BY <1>0, <1>1, <3>1, DropOk
  <2> QED
    BY <2>1, <2>2
<1>3. lk' = Release(L, s, "conn") /\ spc' = [spc EXCEPT ![s] = "await"] /\ cpc' = cpc
  BY DEF ConnectOk
<1> HIDE DEF L
<1>4. /\ LockType(lk') /\ Local(L, lk', s) /\ (OneLock(L) => OneLock(lk'))
      /\ Waits(lk', s) <=> Waits(L, s)
      /\ Has(lk', s, "send") <=> Has(L, s, "send")
      /\ ~Has(lk', s, "conn")
  BY <1>0, <1>2, <1>3, ReleaseOk
<1>5. NewGuardian \in Guardians /\ gpc[NewGuardian] = "done"
  BY DEF ConnectOk, NewGuardian
<1>6. /\ gpc' = [h \in Guardians |-> IF h = NewGuardian THEN "watch"
                                     ELSE IF h = guardian THEN "done" ELSE gpc[h]]
      /\ gcl' = [h \in Guardians |-> IF h = NewGuardian THEN scl[s]
                                     ELSE IF h = guardian THEN None ELSE gcl[h]]
      /\ guardian' = NewGuardian
  BY DEF ConnectOk, StartGuardian
<1>7. SenderLocks(lk', s, "await")
  BY <1>0, <1>1, <1>2, <1>4, TasksAssumption, NoneAssumption
  DEF SenderLocks, Local, TypeInv, TypeOK
<1>8. \A t \in Senders : SenderLocks(lk', t, spc'[t])
  <2> SUFFICES ASSUME NEW t \in Senders \ {s} PROVE SenderLocks(lk', t, spc'[t])
    BY <1>3, <1>7 DEF TypeInv, TypeOK
  <2>1. SenderLocks(lk, t, spc[t]) /\ spc'[t] = spc[t] /\ t \in Tasks /\ t # guardian
    BY <1>3, TasksAssumption, NoneAssumption DEF HoldersInv, TypeInv, TypeOK, Tasks
  <2> QED
    BY <1>0, <1>2, <1>4, <2>1 DEF Local, SenderLocks
<1>9. \A g \in Guardians : GuardianLocks(lk', g, gpc'[g])
  <2> SUFFICES ASSUME NEW g \in Guardians PROVE GuardianLocks(lk', g, gpc'[g])
    OBVIOUS
  <2>1. GuardianLocks(lk, g, gpc[g]) /\ g \in Tasks /\ g # s
    BY <1>0, TasksAssumption DEF HoldersInv
  <2>2. CASE g = guardian
    <3>1. ~Has(lk', g, "send") /\ ~Has(lk', g, "conn") /\ ~Waits(lk', g)
      BY <1>0, <1>2, <1>4, <2>1, <2>2 DEF Local
    <3>2. gpc'[g] \in {"watch", "done"}
      BY <1>6, <2>2
    <3> QED
      BY <3>1, <3>2 DEF GuardianLocks
  <2>3. CASE g # guardian
    <3>1. /\ Has(lk', g, "send") <=> Has(lk, g, "send")
          /\ Has(lk', g, "conn") <=> Has(lk, g, "conn")
          /\ Waits(lk', g) <=> Waits(lk, g)
      BY <1>0, <1>2, <1>4, <2>1, <2>3 DEF Local
    <3>2. gpc'[g] = gpc[g] \/ (gpc[g] = "done" /\ gpc'[g] = "watch")
      BY <1>5, <1>6, <2>3
    <3> QED
      BY <2>1, <3>1, <3>2 DEF GuardianLocks
  <2> QED
    BY <2>2, <2>3
<1>10. CloserLocks(lk', cpc')
  <2>1. Closer \in Tasks /\ Closer # s /\ Closer # guardian /\ CloserLocks(lk, cpc)
    BY TasksAssumption, NoneAssumption DEF HoldersInv, Tasks, TypeInv, TypeOK
  <2> QED
    BY <1>0, <1>2, <1>3, <1>4, <2>1 DEF Local, CloserLocks
<1>11. TypeInv'
  <2>1. cl' \in [Clients -> {"off", "connecting", "up"}]
    BY DEF ConnectOk, CancelledClients, Close, TypeInv, TypeOK
  <2>2. scl[s] \in Clients \cup {None} /\ client' = scl[s]
    BY DEF ConnectOk, TypeInv, TypeOK
  <2>3. /\ gpc' \in [Guardians -> GuardianStates]
        /\ gcl' \in [Guardians -> Clients \cup {None}]
        /\ guardian' \in Guardians \cup {None}
    BY <1>5, <1>6, <2>2 DEF TypeInv, TypeOK, GuardianStates
  <2>4. /\ spc' \in [Senders -> SenderStates] /\ client' \in Clients \cup {None}
        /\ info' = TRUE /\ UNCHANGED <<active, scl, attempt, cpc, shut>>
    BY <1>3, <2>2 DEF ConnectOk, TypeInv, TypeOK, SenderStates
  <2> QED
    BY <1>4, <2>1, <2>3, <2>4
    DEF TypeInv, TypeOK, LockType, Kinds, GuardianStates, SenderStates
<1> QED
  BY <1>2, <1>4, <1>8, <1>9, <1>10, <1>11 DEF HoldersInv

LEMMA SenderStep ==
  ASSUME TypeInv, HoldersInv, NEW s \in Senders, SendAction(s)
  PROVE  TypeInv' /\ HoldersInv' /\ (OneLock(lk) => OneLock(lk'))
<1>1. CASE ConnectOk(s)
  BY <1>1, ConnectOkLocks
<1>2. CASE ~ConnectOk(s)
  <2>1. /\ LockType(lk') /\ Local(lk, lk', s) /\ (OneLock(lk) => OneLock(lk'))
        /\ \E p \in SenderStates :
             spc' = [spc EXCEPT ![s] = p] /\ SenderLocks(lk', s, p)
        /\ scl' \in [Senders -> Clients \cup {None}]
        /\ cl' \in [Clients -> {"off", "connecting", "up"}]
    BY <1>2, OwnLocksStep
  <2>2. /\ UNCHANGED <<client, info, guardian, gpc, gcl, cpc, shut>>
        /\ active' \in BOOLEAN
        /\ attempt' \in [Senders -> 1..2]
    <3>1. CASE Start(s)
      BY <3>1 DEF Start, guardVars, TypeInv, TypeOK
    <3>2. CASE SendFails(s)
      BY <3>2 DEF SendFails, guardVars, TypeInv, TypeOK
    <3>3. CASE AcquireSend(s) \/ AcquireConn(s) \/ ConnectFail(s) \/ Answer(s) \/ Retry(s)
      BY <3>3 DEF AcquireSend, AcquireConn, ConnectFail, Answer, Retry, guardVars,
                  TypeInv, TypeOK
    <3> QED
      BY <1>2, <3>1, <3>2, <3>3 DEF SendAction
  <2>3. HoldersInv'
    BY <2>1, <2>2, SenderMoves DEF TypeInv, TypeOK, SenderStates
  <2>4. spc' \in [Senders -> SenderStates]
    BY <2>1 DEF TypeInv, TypeOK, SenderStates
  <2>5. TypeInv'
    BY <2>1, <2>2, <2>4 DEF TypeInv, TypeOK, LockType, Kinds, SenderStates
  <2> QED
    BY <2>1, <2>3, <2>5
<1> QED
  BY <1>1, <1>2

GuardianAction(g) ==
  \/ Recheck(g) \/ Notice(g) \/ Wake(g) \/ GuardianAcquires(g)
  \/ GuardianConnectOk(g) \/ GuardianConnectFail(g)

LEMMA ReconnectOk ==
  ASSUME TypeInv, NEW g \in Guardians, NEW L, Reconnect(g, L)
  PROVE  /\ lk' = L /\ gpc' = [gpc EXCEPT ![g] = "connect"]
         /\ gcl' \in [Guardians -> Clients \cup {None}]
         /\ cl' \in [Clients -> {"off", "connecting", "up"}]
<1>1. NewClient \in Clients
  BY NewClientOk DEF Reconnect
<1>2. cl' \in [Clients -> {"off", "connecting", "up"}]
  BY <1>1, ReplaceOk DEF Reconnect
<1> QED
  BY <1>1, <1>2 DEF Reconnect, TypeInv, TypeOK

LEMMA GuardianLocksStep ==
  ASSUME TypeInv, HoldersInv, NEW g \in Guardians, GuardianAction(g)
  PROVE  /\ LockType(lk') /\ Local(lk, lk', g) /\ (OneLock(lk) => OneLock(lk'))
         /\ \E p \in GuardianStates :
              gpc' = [gpc EXCEPT ![g] = p] /\ GuardianLocks(lk', g, p)
         /\ gcl' \in [Guardians -> Clients \cup {None}]
         /\ cl' \in [Clients -> {"off", "connecting", "up"}]
         /\ client' \in Clients \cup {None}
<1>0. g \in Tasks /\ "conn" \in Kinds /\ "send" \in Kinds
  BY DEF Tasks, Kinds
<1>1. LockType(lk) /\ GuardianLocks(lk, g, gpc[g]) /\ Local(lk, lk, g)
  BY DEF TypeInv, HoldersInv, Local
<1>2. CASE Recheck(g) \/ Notice(g)
  <2>1. gpc[g] \in {"watch", "backoff"} /\ lk' = lk /\ cl' = cl /\ client' = client
    BY <1>2 DEF Recheck, Notice
  <2>2. \E p \in {"watch", "done", "pause"} : gpc' = [gpc EXCEPT ![g] = p]
    BY <1>2 DEF Recheck, Notice, Top
  <2>3. gcl' \in [Guardians -> Clients \cup {None}]
    BY <1>2 DEF Recheck, Notice, Top, TypeInv, TypeOK
  <2>4. \A p \in {"watch", "done", "pause"} : GuardianLocks(lk', g, p)
    BY <1>1, <2>1 DEF GuardianLocks
  <2> QED
    BY <1>1, <2>1, <2>2, <2>3, <2>4 DEF TypeInv, TypeOK, GuardianStates
<1>3. CASE Wake(g)
  <2> DEFINE L == Request(lk, g, "conn")
  <2>1. /\ LockType(L) /\ Local(lk, L, g) /\ (OneLock(lk) => OneLock(L))
        /\ (Has(L, g, "conn") <=> ~Waits(L, g)) /\ ~Has(L, g, "send")
    BY <1>0, <1>1, <1>3, RequestOk DEF Wake, GuardianLocks
  <2>2. gpc[g] = "pause" /\ client' = client
    BY <1>3 DEF Wake
  <2>3. CASE ~info
    <3>1. /\ lk' = lk /\ gpc' = [gpc EXCEPT ![g] = "done"] /\ cl' = cl /\ gcl' = gcl
      BY <1>3, <2>3 DEF Wake
    <3>2. GuardianLocks(lk', g, "done")
      BY <1>1, <2>2, <3>1 DEF GuardianLocks
    <3> QED
      BY <1>1, <2>2, <3>1, <3>2 DEF TypeInv, TypeOK, GuardianStates
  <2>4. CASE info /\ Waits(L, g)
    <3>1. /\ lk' = L /\ gpc' = [gpc EXCEPT ![g] = "lock"] /\ cl' = cl /\ gcl' = gcl
      BY <1>3, <2>4 DEF Wake
    <3>2. GuardianLocks(lk', g, "lock")
      BY <2>1, <2>4, <3>1 DEF GuardianLocks
    <3> QED
      BY <2>1, <2>2, <3>1, <3>2 DEF TypeInv, TypeOK, GuardianStates
  <2>5. CASE info /\ ~Waits(L, g)
    <3>1. Reconnect(g, L)
      BY <1>3, <2>5 DEF Wake
    <3> HIDE DEF L
    <3>2. GuardianLocks(L, g, "connect")
      BY <2>1, <2>5 DEF GuardianLocks
    <3> QED
      BY <2>1, <2>2, <3>1, <3>2, ReconnectOk DEF TypeInv, TypeOK, GuardianStates
  <2> QED
    BY <2>3, <2>4, <2>5
<1>4. CASE GuardianAcquires(g)
  <2>1. /\ gpc[g] = "lock" /\ CanAcquire(g, "conn") /\ Reconnect(g, Granted(g))
        /\ client' = client
    BY <1>4 DEF GuardianAcquires
  <2>2. /\ LockType(Granted(g)) /\ Local(lk, Granted(g), g)
        /\ (OneLock(lk) => OneLock(Granted(g))) /\ ~Waits(Granted(g), g)
        /\ Has(Granted(g), g, "conn") /\ ~Has(Granted(g), g, "send")
    BY <1>0, <1>1, <2>1, GrantedOk DEF GuardianLocks
  <2>3. GuardianLocks(Granted(g), g, "connect")
    BY <2>2 DEF GuardianLocks
  <2> QED
    BY <2>1, <2>2, <2>3, ReconnectOk DEF TypeInv, TypeOK, GuardianStates
<1>5. CASE GuardianConnectOk(g) \/ GuardianConnectFail(g)
  <2>1. gpc[g] = "connect" /\ lk' = Release(lk, g, "conn")
    BY <1>5 DEF GuardianConnectOk, GuardianConnectFail
  <2>2. \E p \in {"watch", "done", "backoff"} : gpc' = [gpc EXCEPT ![g] = p]
    BY <1>5 DEF GuardianConnectOk, GuardianConnectFail, Top
  <2>3. /\ gcl' \in [Guardians -> Clients \cup {None}]
        /\ cl' \in [Clients -> {"off", "connecting", "up"}]
        /\ client' \in Clients \cup {None}
    <3>1. CASE GuardianConnectOk(g)
      BY <3>1 DEF GuardianConnectOk, Top, TypeInv, TypeOK
    <3>2. CASE GuardianConnectFail(g)
      BY <3>2 DEF GuardianConnectFail, Close, TypeInv, TypeOK
    <3> QED
      BY <1>5, <3>1, <3>2
  <2>4. /\ LockType(lk') /\ Local(lk, lk', g) /\ (OneLock(lk) => OneLock(lk'))
        /\ ~Waits(lk', g) /\ ~Has(lk', g, "send") /\ ~Has(lk', g, "conn")
    BY <1>0, <1>1, <2>1, ReleaseOk DEF GuardianLocks
  <2>5. \A p \in {"watch", "done", "backoff"} : GuardianLocks(lk', g, p)
    BY <2>4 DEF GuardianLocks
  <2> QED
    BY <2>2, <2>3, <2>4, <2>5 DEF GuardianStates
<1> QED
  BY <1>2, <1>3, <1>4, <1>5 DEF GuardianAction

LEMMA GuardianStep ==
  ASSUME TypeInv, HoldersInv, NEW g \in Guardians, GuardianAction(g)
  PROVE  TypeInv' /\ HoldersInv' /\ (OneLock(lk) => OneLock(lk'))
<1>1. /\ LockType(lk') /\ Local(lk, lk', g) /\ (OneLock(lk) => OneLock(lk'))
      /\ \E p \in GuardianStates :
           gpc' = [gpc EXCEPT ![g] = p] /\ GuardianLocks(lk', g, p)
      /\ gcl' \in [Guardians -> Clients \cup {None}]
      /\ cl' \in [Clients -> {"off", "connecting", "up"}]
      /\ client' \in Clients \cup {None}
  BY GuardianLocksStep
<1>2. UNCHANGED UnchangedByGuardian
  BY DEF GuardianAction, Recheck, Notice, Wake, GuardianAcquires, GuardianConnectOk,
         GuardianConnectFail
<1>3. HoldersInv'
  BY <1>1, <1>2, GuardianMoves DEF TypeInv, TypeOK, GuardianStates, UnchangedByGuardian
<1>4. gpc' \in [Guardians -> GuardianStates]
  BY <1>1 DEF TypeInv, TypeOK, GuardianStates
<1>5. TypeInv'
  BY <1>1, <1>2, <1>4
  DEF TypeInv, TypeOK, LockType, Kinds, GuardianStates, UnchangedByGuardian
<1> QED
  BY <1>1, <1>3, <1>5

(* A guardian is cancelled, and leaves its locks with them. *)
LEMMA CancelledOk ==
  ASSUME TypeInv, HoldersInv, lk' = CancelledLocks(lk, guardian),
         cl' = CancelledClients(guardian), Cancelled(guardian), spc' = spc,
         cpc' = cpc \/ {cpc, cpc'} \cap {"closing", "lock"} = {}
  PROVE  /\ HoldersInv' /\ LockType(lk')
         /\ gpc' \in [Guardians -> GuardianStates]
         /\ gcl' \in [Guardians -> Clients \cup {None}]
         /\ cl' \in [Clients -> {"off", "connecting", "up"}]
<1>0. Guardians \subseteq Tasks /\ Senders \subseteq Tasks /\ Closer \in Tasks
      /\ "conn" \in Kinds /\ "send" \in Kinds
  BY DEF Tasks, Kinds
<1>1. /\ gpc' \in [Guardians -> GuardianStates]
      /\ gcl' \in [Guardians -> Clients \cup {None}]
      /\ cl' \in [Clients -> {"off", "connecting", "up"}]
  BY DEF TypeInv, TypeOK, Cancelled, CancelledClients, Close, GuardianStates
<1>2. CloserLocks(lk, cpc')
  BY DEF HoldersInv, CloserLocks
<1>3. CASE guardian = None
  <2>1. lk' = lk /\ gpc' = gpc
    BY <1>3, NoneAssumption DEF CancelledLocks, Cancelled, Tasks, TypeInv, TypeOK
  <2> QED
    BY <1>1, <1>2, <2>1 DEF HoldersInv, TypeInv
<1>4. CASE guardian # None
  <2>1. guardian \in Guardians /\ lk' = Drop(lk, guardian) /\ LockType(lk)
    BY <1>4 DEF TypeInv, TypeOK, CancelledLocks
  <2>2. /\ LockType(lk') /\ Local(lk, lk', guardian) /\ ~Waits(lk', guardian)
        /\ ~Has(lk', guardian, "send") /\ ~Has(lk', guardian, "conn")
    BY <1>0, <2>1, DropOk
  <2>3. \A t \in Senders : SenderLocks(lk', t, spc[t])
    BY <1>0, <2>1, <2>2, TasksAssumption DEF HoldersInv, Local, SenderLocks
  <2>4. CloserLocks(lk', cpc')
    BY <1>0, <1>2, <2>1, <2>2, TasksAssumption DEF Local, CloserLocks
  <2>5. \A h \in Guardians : GuardianLocks(lk', h, gpc'[h])
    <3> SUFFICES ASSUME NEW h \in Guardians PROVE GuardianLocks(lk', h, gpc'[h])
      OBVIOUS
    <3>1. CASE h = guardian
      BY <2>2, <3>1 DEF Cancelled, GuardianLocks
    <3>2. CASE h # guardian
      BY <1>0, <2>2, <3>2 DEF HoldersInv, Local, Cancelled, GuardianLocks
    <3> QED
      BY <3>1, <3>2
  <2> QED
    BY <1>1, <2>2, <2>3, <2>4, <2>5 DEF HoldersInv
<1> QED
  BY <1>3, <1>4

(* close_connection under the connection lock, in lock state L. *)
LEMMA RemoveOk ==
  ASSUME TypeInv, NEW L, LockType(L), Local(lk, L, Closer), ~Waits(L, Closer),
         Has(L, Closer, "conn"), ~Has(L, Closer, "send"), Remove(L)
  PROVE  /\ LockType(lk') /\ Local(lk, lk', Closer) /\ CloserLocks(lk', cpc')
         /\ cpc' \in CloserStates /\ client' = None /\ info' = FALSE
         /\ cl' \in [Clients -> {"off", "connecting", "up"}]
<1>0. Closer \in Tasks /\ "conn" \in Kinds /\ "send" \in Kinds
  BY DEF Tasks, Kinds
<1>1. client' = None /\ info' = FALSE
  BY DEF Remove
<1>2. CASE client = None
  <2>1. lk' = Drop(PopLocks(L), Closer) /\ cpc' \in {"sleep", "off"} /\ cl' = cl
    BY <1>2 DEF Remove, CloserRests
  <2> DEFINE M == PopLocks(L)
  <2>2. LockType(M) /\ Local(L, M, Closer)
    BY PopLocksOk DEF Local
  <2> HIDE DEF M
  <2>3. /\ LockType(lk') /\ Local(M, lk', Closer) /\ ~Waits(lk', Closer)
        /\ ~Has(lk', Closer, "send") /\ ~Has(lk', Closer, "conn")
    BY <1>0, <2>1, <2>2, DropOk DEF M
  <2>4. Local(lk, lk', Closer)
    BY <2>2, <2>3, LocalTrans
  <2>5. CloserLocks(lk', cpc')
    BY <2>1, <2>3 DEF CloserLocks
  <2> QED
    BY <1>1, <2>1, <2>3, <2>4, <2>5 DEF TypeInv, TypeOK, CloserStates
<1>3. CASE client # None
  <2>1. lk' = L /\ cpc' = "closing" /\ cl' = Close(client)
    BY <1>3 DEF Remove
  <2>2. CloserLocks(lk', cpc')
    BY <2>1 DEF CloserLocks
  <2> QED
    BY <1>1, <2>1, <2>2 DEF TypeInv, TypeOK, CloserStates, Close
<1> QED
  BY <1>2, <1>3

LEMMA RequestRemovalOk ==
  ASSUME TypeInv, CloserLocks(lk, cpc), cpc \in {"picked", "joining"}, RequestRemoval(lk)
  PROVE  /\ LockType(lk') /\ Local(lk, lk', Closer) /\ CloserLocks(lk', cpc')
         /\ cpc' \in CloserStates /\ client' \in Clients \cup {None} /\ info' \in BOOLEAN
         /\ cl' \in [Clients -> {"off", "connecting", "up"}]
<1> DEFINE M == Request(lk, Closer, "conn")
<1>0. Closer \in Tasks /\ "conn" \in Kinds /\ "send" \in Kinds
  BY DEF Tasks, Kinds
<1>1. /\ LockType(M) /\ Local(lk, M, Closer)
      /\ (Has(M, Closer, "conn") <=> ~Waits(M, Closer)) /\ ~Has(M, Closer, "send")
  BY <1>0, RequestOk DEF RequestRemoval, CloserLocks, TypeInv
<1>2. CASE Waits(M, Closer)
  <2>1. lk' = M /\ cpc' = "lock" /\ cl' = cl /\ client' = client /\ info' = info
    BY <1>2 DEF RequestRemoval
  <2>2. CloserLocks(lk', cpc')
    BY <1>1, <1>2, <2>1 DEF CloserLocks
  <2> QED
    BY <1>1, <2>1, <2>2 DEF TypeInv, TypeOK, CloserStates
<1>3. CASE ~Waits(M, Closer)
  <2>1. Remove(M)
    BY <1>3 DEF RequestRemoval
  <2> HIDE DEF M
  <2> QED
    BY <1>1, <1>3, <2>1, RemoveOk
<1> QED
  BY <1>2, <1>3

CloserAction ==
  CloserPick \/ CloserStart \/ CloserJoined \/ CloserAcquires \/ CloserDone

LEMMA CloserStep ==
  ASSUME TypeInv, HoldersInv, CloserAction
  PROVE  TypeInv' /\ HoldersInv'
<1>0. Closer \in Tasks /\ "conn" \in Kinds /\ "send" \in Kinds
  BY DEF Tasks, Kinds
<1>1. LockType(lk) /\ CloserLocks(lk, cpc) /\ Local(lk, lk, Closer)
  BY DEF TypeInv, HoldersInv, Local
<1>2. ASSUME LockType(lk'), Local(lk, lk', Closer), CloserLocks(lk', cpc'),
             cpc' \in CloserStates, client' \in Clients \cup {None}, info' \in BOOLEAN,
             cl' \in [Clients -> {"off", "connecting", "up"}],
             active' \in BOOLEAN, guardian' \in Guardians \cup {None},
             UNCHANGED <<gpc, gcl, UnchangedByCloser>>
      PROVE  TypeInv' /\ HoldersInv'
  <2>1. HoldersInv'
    BY <1>2, CloserMoves DEF UnchangedByCloser
  <2>2. TypeInv'
    BY <1>2 DEF TypeInv, TypeOK, LockType, Kinds, UnchangedByCloser, CloserStates
  <2> QED
    BY <2>1, <2>2
<1>3. CASE CloserPick
  <2>1. cpc = "sleep" /\ cpc' = "picked" /\ lk' = lk
    BY <1>3 DEF CloserPick
  <2>2. CloserLocks(lk', cpc')
    BY <1>1, <2>1 DEF CloserLocks
  <2> QED
    BY <1>1, <1>2, <1>3, <2>1, <2>2
    DEF CloserPick, guardVars, TypeInv, TypeOK, CloserStates
<1>4. CASE CloserStart /\ guardian # None /\ gpc[guardian] # "done"
  <2>1. /\ lk' = CancelledLocks(lk, guardian) /\ cl' = CancelledClients(guardian)
        /\ Cancelled(guardian) /\ UNCHANGED <<client, info, spc, scl, attempt, shut>>
        /\ cpc = "picked" /\ cpc' = "joining" /\ active' = FALSE /\ guardian' = None
    BY <1>4 DEF CloserStart, UnchangedByCloser
  <2>2. /\ HoldersInv' /\ LockType(lk')
        /\ gpc' \in [Guardians -> GuardianStates]
        /\ gcl' \in [Guardians -> Clients \cup {None}]
        /\ cl' \in [Clients -> {"off", "connecting", "up"}]
    BY <2>1, CancelledOk
  <2> QED
    BY <2>1, <2>2 DEF TypeInv, TypeOK, LockType, Kinds, GuardianStates
<1>5. CASE CloserStart /\ (guardian = None \/ gpc[guardian] = "done")
  <2>1. /\ cpc = "picked" /\ active' = FALSE /\ guardian' = None /\ RequestRemoval(lk)
        /\ UNCHANGED <<gpc, gcl, UnchangedByCloser>>
    BY <1>5 DEF CloserStart
  <2> QED
    BY <1>1, <1>2, <2>1, RequestRemovalOk
<1>6. CASE CloserJoined
  <2>1. /\ cpc = "joining" /\ RequestRemoval(lk)
        /\ UNCHANGED <<active, guardian, gpc, gcl, UnchangedByCloser>>
    BY <1>6 DEF CloserJoined, guardVars
  <2> QED
    BY <1>1, <1>2, <2>1, RequestRemovalOk DEF TypeInv, TypeOK
<1>7. CASE CloserAcquires
  <2>1. /\ cpc = "lock" /\ CanAcquire(Closer, "conn") /\ Remove(Granted(Closer))
        /\ UNCHANGED <<active, guardian, gpc, gcl, UnchangedByCloser>>
    BY <1>7 DEF CloserAcquires, guardVars
  <2>2. /\ LockType(Granted(Closer)) /\ Local(lk, Granted(Closer), Closer)
        /\ ~Waits(Granted(Closer), Closer)
        /\ Has(Granted(Closer), Closer, "conn") /\ ~Has(Granted(Closer), Closer, "send")
    BY <1>0, <1>1, <2>1, GrantedOk DEF CloserLocks
  <2> QED
    BY <1>2, <2>1, <2>2, RemoveOk DEF TypeInv, TypeOK
<1>8. CASE CloserDone
  <2> DEFINE M == PopLocks(lk)
  <2>1. /\ cpc' \in {"sleep", "off"} /\ lk' = Drop(M, Closer)
        /\ UNCHANGED <<cl, client, info, active, guardian, gpc, gcl, UnchangedByCloser>>
    BY <1>8 DEF CloserDone, CloserRests, guardVars
  <2>2. LockType(M) /\ Local(lk, M, Closer)
    BY <1>1, PopLocksOk DEF Local
  <2> HIDE DEF M
  <2>3. /\ LockType(lk') /\ Local(M, lk', Closer) /\ ~Waits(lk', Closer)
        /\ ~Has(lk', Closer, "send") /\ ~Has(lk', Closer, "conn")
    BY <1>0, <2>1, <2>2, DropOk
  <2>4. Local(lk, lk', Closer)
    BY <2>2, <2>3, LocalTrans
  <2>5. CloserLocks(lk', cpc')
    BY <2>1, <2>3 DEF CloserLocks
  <2> QED
    BY <1>2, <2>1, <2>3, <2>4, <2>5 DEF TypeInv, TypeOK, CloserStates
<1> QED
  BY <1>3, <1>4, <1>5, <1>6, <1>7, <1>8 DEF CloserAction

ShutAction == ShutBegin \/ ShutGuardians \/ ShutClients \/ ShutDone

LEMMA ShutStep ==
  ASSUME TypeInv, HoldersInv, ShutAction
  PROVE  TypeInv' /\ HoldersInv'
<1>0. Closer \in Tasks /\ "conn" \in Kinds /\ "send" \in Kinds
  BY DEF Tasks, Kinds
<1>1. LockType(lk) /\ CloserLocks(lk, cpc) /\ Local(lk, lk, Closer)
  BY DEF TypeInv, HoldersInv, Local
<1>2. CASE ShutBegin
  <2>1. /\ UNCHANGED <<cl, client, info, active, guardian, gpc, gcl, spc, scl, attempt>>
        /\ shut' = "cleanup"
        /\ \/ lk' = lk /\ cpc' = cpc
           \/ lk' = Drop(lk, Closer) /\ cpc' = "off"
    BY <1>2 DEF ShutBegin, guardVars
  <2>2. LockType(lk') /\ Local(lk, lk', Closer) /\ CloserLocks(lk', cpc')
    <3>1. CASE lk' = lk /\ cpc' = cpc
      BY <1>1, <3>1
    <3>2. CASE lk' = Drop(lk, Closer) /\ cpc' = "off"
      <4>1. /\ LockType(lk') /\ Local(lk, lk', Closer) /\ ~Waits(lk', Closer)
            /\ ~Has(lk', Closer, "send") /\ ~Has(lk', Closer, "conn")
        BY <1>0, <1>1, <3>2, DropOk
      <4> QED
        BY <3>2, <4>1 DEF CloserLocks
    <3> QED
      BY <2>1, <3>1, <3>2
  <2>3. HoldersInv'
    BY <2>1, <2>2, CloserMoves
  <2> QED
    BY <2>1, <2>2, <2>3 DEF TypeInv, TypeOK, LockType, Kinds
<1>3. CASE ShutGuardians
  <2>1. /\ lk' = CancelledLocks(lk, guardian) /\ cl' = CancelledClients(guardian)
        /\ Cancelled(guardian) /\ shut' = "guardians"
        /\ UNCHANGED <<client, info, active, guardian, spc, scl, attempt, cpc>>
    BY <1>3 DEF ShutGuardians
  <2>2. /\ HoldersInv' /\ LockType(lk')
        /\ gpc' \in [Guardians -> GuardianStates]
        /\ gcl' \in [Guardians -> Clients \cup {None}]
        /\ cl' \in [Clients -> {"off", "connecting", "up"}]
    BY <2>1, CancelledOk
  <2> QED
    BY <2>1, <2>2 DEF TypeInv, TypeOK, LockType, Kinds, GuardianStates
<1>4. CASE ShutClients
  <2>1. /\ UNCHANGED <<lk, info, active, gpc, gcl, spc, scl, attempt, cpc>>
        /\ shut' = "clients" /\ guardian' = None /\ client' = None
        /\ cl' \in [Clients -> {"off", "connecting", "up"}]
    BY <1>4 DEF ShutClients, Close, TypeInv, TypeOK
  <2> QED
    BY <2>1 DEF HoldersInv, TypeInv, TypeOK
<1>5. CASE ShutDone
  <2>1. /\ UNCHANGED <<cl, client, info, active, guardian, gpc, gcl, spc, scl, attempt, cpc>>
        /\ shut' = "done" /\ lk' = PopLocks(lk)
    BY <1>5 DEF ShutDone, guardVars
  <2>2. /\ LockType(lk')
        /\ \A t \in Tasks : /\ \A k \in Kinds : Has(lk', t, k) <=> Has(lk, t, k)
                            /\ Waits(lk', t) <=> Waits(lk, t)
    BY <1>1, <2>1, PopLocksOk
  <2>3. HoldersInv'
    BY <1>0, <2>1, <2>2
    DEF HoldersInv, SenderLocks, GuardianLocks, CloserLocks, Tasks
  <2> QED
    BY <2>1, <2>2, <2>3 DEF TypeInv, TypeOK, LockType, Kinds
<1> QED
  BY <1>2, <1>3, <1>4, <1>5 DEF ShutAction

LEMMA LoseStep ==
  ASSUME TypeInv, HoldersInv, NEW c \in Clients, LoseConnection(c)
  PROVE  TypeInv' /\ HoldersInv' /\ lk' = lk
<1>1. /\ UNCHANGED <<lk, client, info, active, guardian, gpc, gcl, spc, scl, attempt, cpc, shut>>
      /\ cl' \in [Clients -> {"off", "connecting", "up"}]
  BY DEF LoseConnection, guardVars, Close, TypeInv, TypeOK
<1>2. HoldersInv'
  BY <1>1 DEF HoldersInv
<1> QED
  BY <1>1, <1>2 DEF TypeInv, TypeOK

LEMMA InitOk == Init => TypeInv /\ HoldersInv /\ OneLock(lk)
<1> SUFFICES ASSUME Init PROVE TypeInv /\ HoldersInv /\ OneLock(lk)
  OBVIOUS
<1>1. /\ lk = [of |-> lk.of, holder |-> lk.holder, wants |-> lk.wants]
      /\ lk.of = [k \in Kinds |-> None]
      /\ lk.holder = [l \in Locks |-> None] /\ lk.wants = [t \in Tasks |-> None]
  BY DEF Init, Kinds
<1>2. LockType(lk)
  BY <1>1 DEF LockType
<1>3. TypeInv
  <2>1. /\ cl \in [Clients -> {"off", "connecting", "up"}]
        /\ gpc \in [Guardians -> GuardianStates]
        /\ gcl \in [Guardians -> Clients \cup {None}]
        /\ spc \in [Senders -> SenderStates]
        /\ scl \in [Senders -> Clients \cup {None}]
        /\ attempt \in [Senders -> 1..2]
    BY DEF Init, GuardianStates, SenderStates
  <2>2. /\ client = None /\ info = FALSE /\ active = FALSE /\ guardian = None
        /\ cpc \in CloserStates /\ shut = "no"
    BY DEF Init, CloserStates
  <2> QED
    BY <1>2, <2>1, <2>2
    DEF TypeInv, TypeOK, LockType, Kinds, GuardianStates, SenderStates, CloserStates
<1>4. \A t \in Tasks : ~Waits(lk, t) /\ \A k \in Kinds : ~Has(lk, t, k)
  BY <1>1, NoneAssumption DEF Waits, Has
<1>5. HoldersInv
  BY <1>4 DEF Init, HoldersInv, SenderLocks, GuardianLocks, CloserLocks, Tasks, Kinds
<1>6. OneLock(lk)
  BY <1>1, NoneAssumption DEF OneLock
<1> QED
  BY <1>3, <1>5, <1>6

LEMMA HoldersStep == TypeInv /\ HoldersInv /\ [Next]_vars => TypeInv' /\ HoldersInv'
<1> SUFFICES ASSUME TypeInv, HoldersInv, [Next]_vars PROVE TypeInv' /\ HoldersInv'
  OBVIOUS
<1>1. CASE \E s \in Senders : SendAction(s)
  BY <1>1, SenderStep
<1>2. CASE \E c \in Clients : LoseConnection(c)
  BY <1>2, LoseStep
<1>3. CASE \E g \in Guardians : GuardianAction(g)
  BY <1>3, GuardianStep
<1>4. CASE CloserAction
  BY <1>4, CloserStep
<1>5. CASE ShutAction
  BY <1>5, ShutStep
<1>6. CASE UNCHANGED vars
  BY <1>6 DEF vars, TypeInv, TypeOK, HoldersInv
<1> QED
  BY <1>1, <1>2, <1>3, <1>4, <1>5, <1>6
  DEF Next, SendAction, GuardianAction, CloserAction, ShutAction

-----------------------------------------------------------------------------

(* The manager's dictionaries, locks and tasks have their types, however      *)
(* many calls, clients and guardians there are.                             *)
THEOREM TypesKept == Spec => []TypeOK
BY InitOk, HoldersStep, PTL DEF Spec, TypeInv

(* With cleanup and shutdown, popped locks, cancelled guardians and calls     *)
(* that raise: who holds a lock is in its "async with" and can go on          *)
(* (send_message, _guardian_loop, close_connection).                        *)
THEOREM LockHoldersRun == Spec => []HoldersRun
BY InitOk, HoldersStep, HoldersSuffice, PTL DEF Spec

-----------------------------------------------------------------------------
(* Guardians.                                                              *)

(* Until close_all cancels it, the guardian in the dictionary is the only one *)
(* that runs; afterwards none has noticed a loss.                           *)
GuardianInv ==
  /\ shut \in {"no", "cleanup"} =>
       \A g \in Guardians : gpc[g] # "done" => g = guardian
  /\ shut \notin {"no", "cleanup"} =>
       \A g \in Guardians : gpc[g] \in {"watch", "done"}

LEMMA OneGuardian ==
  TypeInv /\ GuardianInv /\ [Next]_vars => GuardianInv'
<1> SUFFICES ASSUME TypeInv, GuardianInv, [Next]_vars PROVE GuardianInv'
  OBVIOUS
<1> USE DEF GuardianInv
<1>0. gpc \in [Guardians -> GuardianStates] /\ guardian \in Guardians \cup {None}
  BY DEF TypeInv, TypeOK, GuardianStates
<1>1. ASSUME NEW s \in Senders, SendAction(s) PROVE GuardianInv'
  <2>1. CASE ConnectOk(s)
    <3>1. /\ guardian' = NewGuardian /\ shut' = shut
          /\ gpc' = [h \in Guardians |-> IF h = NewGuardian THEN "watch"
                                         ELSE IF h = guardian THEN "done" ELSE gpc[h]]
      BY <2>1 DEF ConnectOk, StartGuardian
    <3> QED
      BY <1>0, <3>1
  <2>2. CASE ~ConnectOk(s)
    <3>1. UNCHANGED <<guardian, gpc, shut>>
      <4>1. CASE Start(s)
        BY <4>1 DEF Start, guardVars
      <4>2. CASE SendFails(s)
        BY <4>2 DEF SendFails, guardVars
      <4>3. CASE AcquireSend(s) \/ AcquireConn(s) \/ ConnectFail(s) \/ Answer(s) \/ Retry(s)
        BY <4>3 DEF AcquireSend, AcquireConn, ConnectFail, Answer, Retry, guardVars
      <4> QED
        BY <1>1, <2>2, <4>1, <4>2, <4>3 DEF SendAction
    <3> QED
      BY <3>1
  <2> QED
    BY <2>1, <2>2
<1>2. ASSUME NEW g \in Guardians, GuardianAction(g) PROVE GuardianInv'
  <2>1. UNCHANGED <<guardian, shut>>
    BY <1>2 DEF GuardianAction, Recheck, Notice, Wake, GuardianAcquires,
                GuardianConnectOk, GuardianConnectFail, UnchangedByGuardian
  <2>2. /\ gpc[g] # "done"
        /\ \E p \in GuardianStates : gpc' = [gpc EXCEPT ![g] = p]
        /\ shut \notin {"no", "cleanup"} /\ gpc[g] = "watch" => gpc'[g] \in {"watch", "done"}
    <3>1. CASE Recheck(g)
      BY <1>0, <3>1 DEF Recheck, Top, GuardianStates
    <3>2. CASE Notice(g)
      BY <1>0, <3>2 DEF Notice, GuardianStates
    <3>3. CASE Wake(g)
      BY <1>0, <3>3 DEF Wake, Reconnect, GuardianStates
    <3>4. CASE GuardianAcquires(g)
      BY <1>0, <3>4 DEF GuardianAcquires, Reconnect, GuardianStates
    <3>5. CASE GuardianConnectOk(g)
      BY <1>0, <3>5 DEF GuardianConnectOk, Top, GuardianStates
    <3>6. CASE GuardianConnectFail(g)
      BY <1>0, <3>6 DEF GuardianConnectFail, GuardianStates
    <3> QED
      BY <1>2, <3>1, <3>2, <3>3, <3>4, <3>5, <3>6 DEF GuardianAction
  <2> QED
    BY <1>0, <2>1, <2>2
<1>3. CASE CloserAction
  <2>1. CASE CloserStart
    <3>1. /\ shut' = shut
          /\ \/ Cancelled(guardian)
             \/ (guardian = None \/ gpc[guardian] = "done") /\ gpc' = gpc
      BY <2>1 DEF CloserStart, UnchangedByCloser
    <3>2. shut \in {"no", "cleanup"} => \A g \in Guardians : gpc'[g] = "done"
      BY <1>0, <3>1, NoneAssumption DEF Cancelled, Tasks
    <3>3. shut \notin {"no", "cleanup"} => \A g \in Guardians : gpc'[g] \in {"watch", "done"}
      BY <1>0, <3>1 DEF Cancelled
    <3> QED
      BY <3>1, <3>2, <3>3
  <2>2. CASE CloserPick \/ CloserJoined \/ CloserAcquires \/ CloserDone
    BY <2>2 DEF CloserPick, CloserJoined, CloserAcquires, CloserDone, guardVars,
                UnchangedByCloser
  <2> QED
    BY <1>3, <2>1, <2>2 DEF CloserAction
<1>4. CASE ShutBegin
  BY <1>4 DEF ShutBegin, guardVars
<1>5. CASE ShutGuardians
  <2>1. shut = "cleanup" /\ shut' = "guardians" /\ Cancelled(guardian)
    BY <1>5 DEF ShutGuardians
  <2> QED
    BY <1>0, <2>1 DEF Cancelled
<1>6. CASE ShutClients \/ ShutDone
  BY <1>6 DEF ShutClients, ShutDone, guardVars
<1>7. CASE \E c \in Clients : LoseConnection(c)
  BY <1>7 DEF LoseConnection, guardVars
<1>8. CASE UNCHANGED vars
  BY <1>8 DEF vars
<1> QED
  BY <1>1, <1>2, <1>3, <1>4, <1>5, <1>6, <1>7, <1>8
  DEF Next, SendAction, GuardianAction, CloserAction

LEMMA InitGuardians == Init => GuardianInv
BY DEF Init, GuardianInv

(* close_all leaves no guardian on its way to a new connection, whatever     *)
(* calls, cleanup and guardians do while it runs.                           *)
THEOREM ShutdownStopsGuardians == Spec => []NoGuardianAfterShutdown
<1>1. GuardianInv => NoGuardianAfterShutdown
  BY DEF GuardianInv, NoGuardianAfterShutdown
<1> QED
  BY <1>1, InitOk, InitGuardians, HoldersStep, OneGuardian, PTL DEF Spec

-----------------------------------------------------------------------------
(* The pool without the cleanup loop, which pops locks in use, and without   *)
(* close_all, which closes clients without their locks.                     *)

Lost(g) == gpc[g] \in {"pause", "lock", "connect", "backoff"}

PoolInv ==
  /\ cpc = "off" /\ shut = "no"
  /\ OneLock(lk)
  /\ \A c \in Clients : cl[c] = "up" => c = client
  /\ (\E s \in Senders : spc[s] = "connecting") \/ (\E g \in Guardians : Lost(g))
       => \A c \in Clients : cl[c] # "up"
  /\ \A g \in Guardians : gpc[g] = "watch" => gcl[g] = client
  /\ guardian # None => info
  /\ PooledHasGuardian

(* One task at a time holds the lock of a kind. *)
LEMMA OneHolder ==
  ASSUME LockType(lk), OneLock(lk), NEW t \in Tasks, NEW u \in Tasks, NEW k \in Kinds,
         Has(lk, t, k), Has(lk, u, k)
  PROVE  t = u
<1>1. PICK l \in Locks : l[1] = k /\ lk.holder[l] = t
  BY DEF Has
<1>2. PICK m \in Locks : m[1] = k /\ lk.holder[m] = u
  BY DEF Has
<1>3. l = lk.of[k] /\ m = lk.of[k]
  BY <1>1, <1>2, NoneAssumption DEF OneLock
<1> QED
  BY <1>1, <1>2, <1>3

(* Before a client connects nothing else becomes live. *)
LEMMA ReplaceLive ==
  ASSUME TypeInv, NEW n \in Clients, NEW c \in Clients, Replace(client, n)[c] = "up"
  PROVE  cl[c] = "up"
BY DEF TypeInv, TypeOK, Replace, Close

LEMMA UnderConnLockLive ==
  ASSUME TypeInv, NEW s \in Senders, NEW L, UnderConnLock(s, L)
  PROVE  /\ \A c \in Clients : cl'[c] = "up" => cl[c] = "up"
         /\ \A t \in Senders : spc'[t] = "connecting"
                                 => spc[t] = "connecting" \/ ~Connected(client)
<1>1. \A t \in Senders : spc'[t] = "connecting"
                           => spc[t] = "connecting" \/ ~Connected(client)
  BY DEF UnderConnLock, TypeInv, TypeOK
<1>2. CASE Connected(client)
  BY <1>1, <1>2 DEF UnderConnLock
<1>3. CASE ~Connected(client)
  <2>1. cl' = Replace(client, NewClient) /\ NewClient \in Clients
    BY <1>3, NewClientOk DEF UnderConnLock
  <2> QED
    BY <1>1, <2>1, ReplaceLive
<1> QED
  BY <1>2, <1>3

LEMMA GetOrCreateLive ==
  ASSUME TypeInv, NEW s \in Senders, NEW L, GetOrCreate(s, L)
  PROVE  /\ \A c \in Clients : cl'[c] = "up" => cl[c] = "up"
         /\ \A t \in Senders : spc'[t] = "connecting"
                                 => spc[t] = "connecting" \/ ~Connected(client)
<1> DEFINE M == Request(L, s, "conn")
<1>1. CASE spc' = [spc EXCEPT ![s] = "connlock"] /\ cl' = cl
  BY <1>1 DEF TypeInv, TypeOK
<1>2. CASE UnderConnLock(s, M)
  <2> HIDE DEF M
  <2> QED
    BY <1>2, UnderConnLockLive
<1> QED
  BY <1>1, <1>2 DEF GetOrCreate

LEMMA SenderLive ==
  ASSUME TypeInv, NEW s \in Senders, SendAction(s), ~ConnectOk(s)
  PROVE  /\ \A c \in Clients : cl'[c] = "up" => cl[c] = "up"
         /\ \A t \in Senders : spc'[t] = "connecting"
                                 => spc[t] = "connecting" \/ ~Connected(client)
         /\ UNCHANGED <<client, info, guardian, gpc, gcl, cpc, shut>>
<1>1. CASE Start(s)
  <2> DEFINE L == Request(lk, s, "send")
  <2>1. UNCHANGED <<client, info, guardian, gpc, gcl, cpc, shut>>
    BY <1>1 DEF Start, guardVars
  <2>2. CASE Waits(L, s)
    <3>1. spc' = [spc EXCEPT ![s] = "sendlock"] /\ cl' = cl
      BY <1>1, <2>2 DEF Start
    <3> QED
      BY <2>1, <3>1 DEF TypeInv, TypeOK
  <2>3. CASE ~Waits(L, s)
    <3>1. GetOrCreate(s, L)
      BY <1>1, <2>3 DEF Start
    <3> HIDE DEF L
    <3> QED
      BY <2>1, <3>1, GetOrCreateLive
  <2> QED
    BY <2>2, <2>3
<1>2. CASE AcquireSend(s)
  <2>1. /\ GetOrCreate(s, Granted(s))
        /\ UNCHANGED <<client, info, guardian, gpc, gcl, cpc, shut>>
    BY <1>2 DEF AcquireSend, guardVars
  <2> QED
    BY <2>1, GetOrCreateLive
<1>3. CASE AcquireConn(s)
  <2>1. /\ UnderConnLock(s, Granted(s))
        /\ UNCHANGED <<client, info, guardian, gpc, gcl, cpc, shut>>
    BY <1>3 DEF AcquireConn, guardVars
  <2> QED
    BY <2>1, UnderConnLockLive
<1>4. CASE Retry(s)
  <2>1. /\ GetOrCreate(s, lk)
        /\ UNCHANGED <<client, info, guardian, gpc, gcl, cpc, shut>>
    BY <1>4 DEF Retry, guardVars
  <2> QED
    BY <2>1, GetOrCreateLive
<1>5. CASE ConnectFail(s) \/ Answer(s) \/ SendFails(s)
  <2>1. /\ UNCHANGED <<client, info, guardian, gpc, gcl, cpc, shut>>
        /\ cl' = cl \/ cl' = Close(scl[s])
        /\ spc' = [spc EXCEPT ![s] = "idle"] \/ spc' = [spc EXCEPT ![s] = "closing"]
    BY <1>5 DEF ConnectFail, Answer, SendFails, Return, guardVars
  <2>2. \A c \in Clients : cl'[c] = "up" => cl[c] = "up"
    BY <2>1 DEF Close
  <2>3. \A t \in Senders : spc'[t] = "connecting" => spc[t] = "connecting"
    BY <2>1 DEF TypeInv, TypeOK
  <2> QED
    BY <2>1, <2>2, <2>3
<1> QED
  BY <1>1, <1>2, <1>3, <1>4, <1>5 DEF SendAction

(* ConnectOk: nobody was live, and nobody else connects. *)
LEMMA ConnectOkPool ==
  ASSUME TypeInv, HoldersInv, GuardianInv, PoolInv, NEW s \in Senders, ConnectOk(s),
         OneLock(lk')
  PROVE  PoolInv'
<1>0. /\ spc \in [Senders -> SenderStates] /\ gpc \in [Guardians -> GuardianStates]
      /\ scl[s] \in Clients \cup {None} /\ guardian \in Guardians \cup {None}
      /\ Senders \subseteq Tasks /\ Guardians \subseteq Tasks /\ "conn" \in Kinds
  BY DEF TypeInv, TypeOK, SenderStates, GuardianStates, Tasks, Kinds
<1>1. /\ spc[s] = "connecting" /\ cl' = [CancelledClients(guardian) EXCEPT ![scl[s]] = "up"]
      /\ client' = scl[s] /\ info' = TRUE /\ spc' = [spc EXCEPT ![s] = "await"]
      /\ cpc' = cpc /\ shut' = shut
  BY DEF ConnectOk
<1>2. NewGuardian \in Guardians
  BY DEF ConnectOk, NewGuardian
<1>3. /\ guardian' = NewGuardian
      /\ gpc' = [h \in Guardians |-> IF h = NewGuardian THEN "watch"
                                     ELSE IF h = guardian THEN "done" ELSE gpc[h]]
      /\ gcl' = [h \in Guardians |-> IF h = NewGuardian THEN scl[s]
                                     ELSE IF h = guardian THEN None ELSE gcl[h]]
  BY DEF ConnectOk, StartGuardian
<1>4. \A c \in Clients : cl'[c] = "up" => c = client'
  <2>1. \A c \in Clients : CancelledClients(guardian)[c] # "up"
    BY <1>1 DEF PoolInv, CancelledClients, Close
  <2>2. \A c \in Clients : CancelledClients(guardian)[c] = cl[c] \/ CancelledClients(guardian)[c] = "off"
    BY DEF CancelledClients, Close
  <2>3. CancelledClients(guardian) \in [Clients -> {"off", "connecting", "up"}]
    BY DEF CancelledClients, Close, TypeInv, TypeOK
  <2> QED
    BY <1>1, <2>1, <2>3
<1>5. \A t \in Senders : spc'[t] # "connecting"
  <2> SUFFICES ASSUME NEW t \in Senders, spc[t] = "connecting" PROVE t = s
    BY <1>0, <1>1
  <2>1. Has(lk, t, "conn") /\ Has(lk, s, "conn")
    BY <1>1 DEF HoldersInv, SenderLocks
  <2> QED
    BY <1>0, <2>1, OneHolder DEF TypeInv, PoolInv
<1>6. \A g \in Guardians : gpc'[g] \in {"watch", "done"}
  BY <1>0, <1>3 DEF GuardianInv, PoolInv
<1>7. \A g \in Guardians : gpc'[g] = "watch" => gcl'[g] = client'
  BY <1>0, <1>1, <1>3 DEF GuardianInv, PoolInv
<1>8. guardian' \in Guardians /\ gpc'[guardian'] = "watch"
  BY <1>2, <1>3
<1>9. guardian' # None
  BY <1>8, NoneAssumption DEF Tasks
<1> QED
  BY <1>1, <1>4, <1>5, <1>6, <1>7, <1>8, <1>9 DEF PoolInv, Lost, PooledHasGuardian

LEMMA SenderPool ==
  ASSUME TypeInv, HoldersInv, GuardianInv, PoolInv, NEW s \in Senders, SendAction(s)
  PROVE  PoolInv'
<1>0. OneLock(lk')
  BY SenderStep DEF PoolInv
<1>1. CASE ConnectOk(s)
  BY <1>0, <1>1, ConnectOkPool
<1>2. CASE ~ConnectOk(s)
  <2>1. /\ \A c \in Clients : cl'[c] = "up" => cl[c] = "up"
        /\ \A t \in Senders : spc'[t] = "connecting"
                                => spc[t] = "connecting" \/ ~Connected(client)
        /\ UNCHANGED <<client, info, guardian, gpc, gcl, cpc, shut>>
    BY <1>2, SenderLive
  <2>2. ~Connected(client) => \A c \in Clients : cl[c] # "up"
    BY NoneAssumption DEF PoolInv, Connected
  <2>3. (\E t \in Senders : spc'[t] = "connecting") \/ (\E g \in Guardians : Lost(g))
          => \A c \in Clients : cl'[c] # "up"
    BY <2>1, <2>2 DEF PoolInv
  <2>4. (\A g \in Guardians : gpc'[g] = "watch" => gcl'[g] = client')
        /\ (guardian' # None => info') /\ PooledHasGuardian'
    BY <2>1 DEF PoolInv, PooledHasGuardian
  <2> QED
    BY <1>0, <2>1, <2>3, <2>4 DEF PoolInv, Lost
<1> QED
  BY <1>1, <1>2

LEMMA ReconnectLive ==
  ASSUME TypeInv, NEW g \in Guardians, NEW L, Reconnect(g, L)
  PROVE  /\ \A c \in Clients : cl'[c] = "up" => cl[c] = "up"
         /\ gpc' = [gpc EXCEPT ![g] = "connect"]
<1>1. NewClient \in Clients /\ cl' = Replace(client, NewClient)
  BY NewClientOk DEF Reconnect
<1> QED
  BY <1>1, ReplaceLive DEF Reconnect

LEMMA GuardianPool ==
  ASSUME TypeInv, HoldersInv, GuardianInv, PoolInv, NEW g \in Guardians, GuardianAction(g)
  PROVE  PoolInv'
<1>0. /\ OneLock(lk')
      /\ gpc \in [Guardians -> GuardianStates] /\ gcl \in [Guardians -> Clients \cup {None}]
      /\ Senders \subseteq Tasks /\ Guardians \subseteq Tasks /\ "conn" \in Kinds
  BY GuardianStep DEF PoolInv, TypeInv, TypeOK, GuardianStates, Tasks, Kinds
<1>1. UNCHANGED <<info, guardian, spc, cpc, shut>> /\ cpc = "off" /\ shut = "no"
  BY DEF PoolInv, GuardianAction, Recheck, Notice, Wake, GuardianAcquires,
         GuardianConnectOk, GuardianConnectFail, UnchangedByGuardian
<1>2. gpc[g] # "done" /\ g = guardian /\ info = TRUE
      /\ \A h \in Guardians \ {g} : gpc[h] = "done"
  <2>1. gpc[g] # "done"
    BY DEF GuardianAction, Recheck, Notice, Wake, GuardianAcquires, GuardianConnectOk,
           GuardianConnectFail
  <2>2. g = guardian /\ \A h \in Guardians \ {g} : gpc[h] = "done"
    BY <2>1 DEF GuardianInv, PoolInv
  <2> QED
    BY <2>1, <2>2, NoneAssumption DEF PoolInv, Tasks, TypeInv, TypeOK
<1>3. CASE Recheck(g)
  <2>1. /\ cl' = cl /\ client' = client
        /\ gpc' = [gpc EXCEPT ![g] = IF client = None THEN "done" ELSE "watch"]
        /\ gcl' = [gcl EXCEPT ![g] = IF client = None THEN None ELSE client]
    BY <1>1, <1>3 DEF Recheck, Top
  <2>2. \A h \in Guardians : gpc'[h] = "watch" => gcl'[h] = client
    BY <1>0, <1>2, <2>1
  <2>3. \A h \in Guardians : gpc'[h] \in {"watch", "done"}
    BY <1>0, <1>2, <2>1
  <2>4. PooledHasGuardian'
    BY <1>0, <1>1, <1>2, <2>1, NoneAssumption DEF PooledHasGuardian, Tasks
  <2>5. (\E s \in Senders : spc'[s] = "connecting") => \A c \in Clients : cl'[c] # "up"
    BY <1>1, <2>1 DEF PoolInv
  <2> QED
    BY <1>0, <1>1, <1>2, <2>1, <2>2, <2>3, <2>4, <2>5 DEF PoolInv, Lost
<1>4. CASE GuardianConnectOk(g)
  <2>1. /\ gpc[g] = "connect" /\ cl' = [cl EXCEPT ![gcl[g]] = "up"] /\ client' = gcl[g]
        /\ gpc' = [gpc EXCEPT ![g] = IF gcl[g] = None THEN "done" ELSE "watch"]
        /\ gcl' = [gcl EXCEPT ![g] = IF gcl[g] = None THEN None ELSE gcl[g]]
    BY <1>1, <1>4 DEF GuardianConnectOk, Top
  <2>2. \A c \in Clients : cl'[c] = "up" => c = client'
    BY <2>1 DEF PoolInv, Lost, TypeInv, TypeOK
  <2>3. \A h \in Guardians : gpc'[h] = "watch" => gcl'[h] = client'
    BY <1>0, <1>2, <2>1
  <2>4. \A h \in Guardians : gpc'[h] \in {"watch", "done"}
    BY <1>0, <1>2, <2>1
  <2>5. PooledHasGuardian'
    BY <1>0, <1>1, <1>2, <2>1, NoneAssumption DEF PooledHasGuardian, Tasks
  <2>6. \A s \in Senders : spc'[s] # "connecting"
    <3> SUFFICES ASSUME NEW s \in Senders, spc[s] = "connecting" PROVE FALSE
      BY <1>1
    <3>1. Has(lk, s, "conn") /\ Has(lk, g, "conn")
      BY <2>1 DEF HoldersInv, SenderLocks, GuardianLocks
    <3>2. s = g
      BY <1>0, <3>1, OneHolder DEF TypeInv, PoolInv
    <3> QED
      BY <3>2, TasksAssumption
  <2> QED
    BY <1>0, <1>1, <1>2, <2>2, <2>3, <2>4, <2>5, <2>6 DEF PoolInv, Lost
<1>5. CASE Notice(g) \/ Wake(g) \/ GuardianAcquires(g) \/ GuardianConnectFail(g)
  <2>1. client' = client /\ (\A c \in Clients : cl'[c] = "up" => cl[c] = "up")
        /\ \E p \in {"pause", "lock", "connect", "backoff"} : gpc' = [gpc EXCEPT ![g] = p]
    <3>1. CASE Notice(g)
      BY <1>1, <3>1 DEF Notice
    <3>2. CASE Wake(g)
      <4>1. client' = client
        BY <3>2 DEF Wake
      <4>2. CASE gpc' = [gpc EXCEPT ![g] = "lock"] /\ cl' = cl
        BY <4>1, <4>2
      <4>3. CASE Reconnect(g, Request(lk, g, "conn"))
        BY <4>1, <4>3, ReconnectLive
      <4> QED
        BY <1>2, <3>2, <4>2, <4>3 DEF Wake
    <3>3. CASE GuardianAcquires(g)
      <4>1. client' = client /\ Reconnect(g, Granted(g))
        BY <3>3 DEF GuardianAcquires
      <4> QED
        BY <4>1, ReconnectLive
    <3>4. CASE GuardianConnectFail(g)
      <4>1. cl' = Close(gcl[g]) /\ client' = client /\ gpc' = [gpc EXCEPT ![g] = "backoff"]
        BY <3>4 DEF GuardianConnectFail
      <4> QED
        BY <4>1 DEF Close
    <3> QED
      BY <1>5, <3>1, <3>2, <3>3, <3>4
  <2>2. \A c \in Clients : cl[c] # "up"
    <3>1. CASE Notice(g)
      <4>1. gpc[g] = "watch" /\ cl[gcl[g]] # "up"
        BY <3>1 DEF Notice
      <4> QED
        BY <4>1 DEF PoolInv
    <3>2. CASE ~Notice(g)
      <4>1. Lost(g)
        BY <1>5, <3>2 DEF Wake, GuardianAcquires, GuardianConnectFail, Lost
      <4> QED
        BY <4>1 DEF PoolInv
    <3> QED
      BY <3>1, <3>2
  <2>3. \A h \in Guardians : gpc'[h] # "watch"
    BY <1>0, <1>2, <2>1
  <2>4. PooledHasGuardian'
    BY <1>0, <1>1, <1>2, <2>1, NoneAssumption DEF PooledHasGuardian, Tasks
  <2>5. \A c \in Clients : cl'[c] # "up"
    BY <2>1, <2>2
  <2> QED
    BY <1>0, <1>1, <1>2, <2>3, <2>4, <2>5 DEF PoolInv, Lost
<1> QED
  BY <1>3, <1>4, <1>5 DEF GuardianAction

LEMMA PoolStep ==
  ASSUME ~Shutdown
  PROVE  TypeInv /\ HoldersInv /\ GuardianInv /\ PoolInv /\ [Next]_vars => PoolInv'
<1> SUFFICES ASSUME TypeInv, HoldersInv, GuardianInv, PoolInv, [Next]_vars PROVE PoolInv'
  OBVIOUS
<1>1. CASE \E s \in Senders : SendAction(s)
  BY <1>1, SenderPool
<1>2. CASE \E g \in Guardians : GuardianAction(g)
  BY <1>2, GuardianPool
<1>3. ASSUME NEW c \in Clients, LoseConnection(c) PROVE PoolInv'
  <2>1. /\ UNCHANGED <<lk, client, info, guardian, gpc, gcl, spc, cpc, shut>>
        /\ \A d \in Clients : cl'[d] = "up" => cl[d] = "up"
    BY <1>3 DEF LoseConnection, guardVars, Close
  <2>2. PooledHasGuardian'
    BY <2>1 DEF PoolInv, PooledHasGuardian
  <2> QED
    BY <2>1, <2>2 DEF PoolInv, Lost
<1>4. ~CloserAction /\ ~ShutAction
  BY DEF PoolInv, CloserAction, CloserPick, CloserStart, CloserJoined, CloserAcquires,
         CloserDone, ShutAction, ShutBegin, ShutGuardians, ShutClients, ShutDone
<1>5. CASE UNCHANGED vars
  <2>1. PooledHasGuardian'
    BY <1>5 DEF vars, PoolInv, PooledHasGuardian
  <2> QED
    BY <1>5, <2>1 DEF vars, PoolInv, Lost
<1> QED
  BY <1>1, <1>2, <1>3, <1>4, <1>5
  DEF Next, SendAction, GuardianAction, CloserAction, ShutAction

LEMMA InitPool == ASSUME ~Cleanup PROVE Init => PoolInv
<1> SUFFICES ASSUME Init PROVE PoolInv
  OBVIOUS
<1>1. OneLock(lk)
  BY InitOk
<1>2. PooledHasGuardian
  BY DEF Init, PooledHasGuardian
<1> QED
  BY <1>1, <1>2 DEF Init, PoolInv, Lost

(* What holds of every reachable state without cleanup and shutdown. *)
LEMMA PoolAlways ==
  ASSUME ~Cleanup, ~Shutdown
  PROVE  Spec => [](TypeInv /\ HoldersInv /\ GuardianInv /\ PoolInv)
<1>1. Init => PoolInv
  BY InitPool
<1>2. TypeInv /\ HoldersInv /\ GuardianInv /\ PoolInv /\ [Next]_vars => PoolInv'
  BY PoolStep
<1> QED
  BY <1>1, <1>2, InitOk, InitGuardians, HoldersStep, OneGuardian, PTL DEF Spec

(* However calls and the guardian race to reconnect, one client of a user is *)
(* live (get_or_create, _guardian_loop), while no lock is popped.           *)
THEOREM OneConnection == ~Cleanup /\ ~Shutdown => (Spec => []OneLive)
<1> SUFFICES ASSUME ~Cleanup, ~Shutdown PROVE Spec => []OneLive
  OBVIOUS
<1>1. PoolInv => OneLive
  BY DEF PoolInv, OneLive
<1> QED
  BY <1>1, PoolAlways, PTL

(* The sends of a user are serial, retries included (_get_send_lock). *)
THEOREM SendsAreSerial == ~Cleanup /\ ~Shutdown => (Spec => []SendSerial)
<1> SUFFICES ASSUME ~Cleanup, ~Shutdown PROVE Spec => []SendSerial
  OBVIOUS
<1>1. TypeInv /\ HoldersInv /\ PoolInv => SendSerial
  <2> SUFFICES ASSUME TypeInv, HoldersInv, PoolInv, NEW s \in Senders, NEW t \in Senders,
                      spc[s] \notin {"idle", "sendlock"}, spc[t] \notin {"idle", "sendlock"}
               PROVE  s = t
    BY DEF SendSerial
  <2>1. Has(lk, s, "send") /\ Has(lk, t, "send")
    BY DEF HoldersInv, SenderLocks
  <2> QED
    BY <2>1, OneHolder DEF TypeInv, PoolInv, Tasks, Kinds
<1> QED
  BY <1>1, PoolAlways, PTL

(* A pooled client is never without a running guardian (_start_guardian). *)
THEOREM PooledIsGuarded == ~Cleanup /\ ~Shutdown => (Spec => []PooledHasGuardian)
<1> SUFFICES ASSUME ~Cleanup, ~Shutdown PROVE Spec => []PooledHasGuardian
  OBVIOUS
<1>1. PoolInv => PooledHasGuardian
  BY DEF PoolInv
<1> QED
  BY <1>1, PoolAlways, PTL

(* The guardian closes no live client that a send has opened since it noticed *)
(* the loss (_guardian_loop after its pause).                               *)
THEOREM LiveIsSpared == ~Cleanup /\ ~Shutdown => (Spec => GuardianSparesLive)
<1> SUFFICES ASSUME ~Cleanup, ~Shutdown PROVE Spec => GuardianSparesLive
  OBVIOUS
<1>1. TypeInv /\ GuardianInv /\ PoolInv /\ [Next]_vars
        => [\A g \in Guardians :
              gpc[g] # "connect" /\ gpc'[g] = "connect" => ~Connected(client)]_vars
  <2> SUFFICES ASSUME TypeInv, GuardianInv, PoolInv, [Next]_vars, NEW g \in Guardians,
                      gpc[g] # "connect", gpc'[g] = "connect"
               PROVE  ~Connected(client)
    OBVIOUS
  <2>0. gpc \in [Guardians -> GuardianStates]
    BY DEF TypeInv, TypeOK, GuardianStates
  <2>1. Wake(g) \/ GuardianAcquires(g)
    <3>1. ASSUME NEW s \in Senders, SendAction(s) PROVE FALSE
      <4>1. CASE ConnectOk(s)
        BY <2>0, <4>1 DEF ConnectOk, StartGuardian
      <4>2. CASE ~ConnectOk(s)
        BY <3>1, <4>2, SenderLive
      <4> QED
        BY <4>1, <4>2
    <3>2. ASSUME NEW h \in Guardians, GuardianAction(h)
          PROVE  Wake(g) \/ GuardianAcquires(g)
      <4>1. CASE Recheck(h) \/ Notice(h) \/ GuardianConnectOk(h) \/ GuardianConnectFail(h)
        BY <2>0, <4>1 DEF Recheck, Notice, GuardianConnectOk, GuardianConnectFail, Top
      <4>2. CASE Wake(h) \/ GuardianAcquires(h)
        <5>1. \E p \in GuardianStates : gpc' = [gpc EXCEPT ![h] = p]
          BY <4>2 DEF Wake, GuardianAcquires, Reconnect, GuardianStates
        <5>2. h = g
          BY <2>0, <5>1
        <5> QED
          BY <4>2, <5>2
      <4> QED
        BY <3>2, <4>1, <4>2 DEF GuardianAction
    <3>3. ~CloserAction /\ ~ShutAction
      BY DEF PoolInv, CloserAction, CloserPick, CloserStart, CloserJoined,
             CloserAcquires, CloserDone, ShutAction, ShutBegin, ShutGuardians,
             ShutClients, ShutDone
    <3>4. ~(\E c \in Clients : LoseConnection(c)) /\ ~(UNCHANGED vars)
      BY DEF LoseConnection, guardVars, vars
    <3> QED
      BY <3>1, <3>2, <3>3, <3>4
      DEF Next, SendAction, GuardianAction, CloserAction, ShutAction
  <2>2. Lost(g)
    BY <2>1 DEF Wake, GuardianAcquires, Lost
  <2> QED
    BY <2>2 DEF PoolInv, Connected, TypeInv, TypeOK
<1> QED
  BY <1>1, PoolAlways, PTL DEF Spec, GuardianSparesLive

=============================================================================

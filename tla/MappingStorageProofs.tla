------------------------ MODULE MappingStorageProofs ------------------------
(***************************************************************************)
(* Proofs about MappingStorage, for every number of replicas, caches,      *)
(* users, instances, lookups and binds, and every cache size and version   *)
(* bound: type correctness, coherence of the caches under the version      *)
(* check, their size, currency of what a lookup returns, one assignment    *)
(* per user and instance, refinement of BindingRegister.                   *)
(***************************************************************************)
EXTENDS MappingStorage, FiniteSetTheorems, TLAPS

-----------------------------------------------------------------------------
(* The inductive invariant.                                                *)

Past == {"check", "query", "put"}

(* No entry and no lookup is tagged with a version of the future. *)
VersionsPast ==
  /\ \A s \in Slots : cache[s].ver <= version
  /\ \A t \in Readers : rpc[t] \in Past => rver[t] <= version /\ rver[t] # 0

(* A lookup in flight has noted its user's present binding. *)
WindowOpen ==
  \A t \in Readers : rpc[t] \in InFlight => Current(rkey[t][3]) \in seen[t]

(* A row about to be cached under the present version is the present row. *)
RowCoherent ==
  \A t \in Readers : rpc[t] = "put" /\ rver[t] = version => rrow[t] = Current(rkey[t][3])

(* An entry that a lookup in flight may hit holds a binding of its window:  *)
(* it was stored under the version the lookup read, after that read or      *)
(* while that version was still the present one.                            *)
EntryInWindow ==
  \A t \in Readers, s \in Slots :
    rpc[t] \in Past /\ s[3] = rkey[t][3] /\ cache[s].ver = rver[t]
      => cache[s].val \in seen[t]

(* The same of a row another lookup is about to store. *)
RowInWindow ==
  \A t, q \in Readers :
    /\ rpc[t] \in Past
    /\ rpc[q] = "put"
    /\ rkey[q][3] = rkey[t][3]
    /\ rver[q] = rver[t]
    => rrow[q] \in seen[t]

MappingInv ==
  /\ TypeOK
  /\ VersionsPast
  /\ CacheCoherent
  /\ WindowOpen
  /\ RowCoherent
  /\ EntryInWindow
  /\ RowInWindow
  /\ LookupCurrent

-----------------------------------------------------------------------------
(* The locals of an idle call have their type. *)
LEMMA IdleLocals == NoKey \in Slots /\ NoBind \in BindArgs
<1>1. NoKey \in Slots
  <2>1. PICK r \in Replicas, k \in Kinds, u \in Users : TRUE
    BY NonEmptyAssumption
  <2>2. <<r, k, u>> \in Slots
    BY <2>1 DEF Slots
  <2> QED
    BY <2>2 DEF NoKey
<1>2. NoBind \in BindArgs
  <2>1. PICK u \in Users, i \in Instances, f \in Infos : TRUE
    BY NonEmptyAssumption
  <2>2. [user |-> u, inst |-> i, info |-> f, oldInfo |-> f, oldUi |-> i] \in BindArgs
    BY <2>1 DEF BindArgs, Values
  <2> QED
    BY <2>2 DEF NoBind
<1> QED
  BY <1>1, <1>2

(* What the join returns is a value. *)
LEMMA JoinedType ==
  ASSUME NEW us \in [Users -> Instances \cup {NoInst}],
         NEW is \in [Instances -> Values], NEW u \in Users
  PROVE  Joined(us, is, u) \in Values
BY NoInstAssumption DEF Joined, Values

(* The initial states satisfy the invariant. *)
LEMMA InitInv == Init => MappingInv
<1> SUFFICES ASSUME Init PROVE MappingInv
  OBVIOUS
<1> USE DEF Init
<1>1. TypeOK
  BY IdleLocals DEF TypeOK, Entries, NoEntry, Values, InFlight
<1>2. VersionsPast /\ WindowOpen /\ RowCoherent /\ EntryInWindow /\ RowInWindow
      /\ LookupCurrent
  BY DEF VersionsPast, WindowOpen, RowCoherent, EntryInWindow, RowInWindow,
         LookupCurrent, Past, InFlight, NoEntry
<1>3. CacheCoherent
  BY DEF CacheCoherent, NoEntry
<1> QED
  BY <1>1, <1>2, <1>3 DEF MappingInv

-----------------------------------------------------------------------------
(* Every step keeps the types.                                             *)
LEMMA TypeStep == TypeOK /\ [Next]_vars => TypeOK'
<1> SUFFICES ASSUME TypeOK, [Next]_vars PROVE TypeOK'
  OBVIOUS
<1> USE IdleLocals DEF TypeOK, dbVars, readVars, bindVars
<1>c. \A u \in Users : Current(u) \in Values
  BY JoinedType DEF Current
<1>k. \A s \in Slots : s[3] \in Users
  BY DEF Slots
<1>1. ASSUME NEW t \in Readers, Lookup(t) PROVE TypeOK'
  <2>1. ASSUME NEW s \in Slots, Call(t, s) PROVE TypeOK'
    BY <2>1, <1>c, <1>k DEF Call, InFlight
  <2>2. CASE ReadVersion(t)
    BY <2>2 DEF ReadVersion, InFlight
  <2>3. CASE CacheHit(t)
    <3>1. cache[rkey[t]].val \in Values
      BY DEF Entries
    <3> QED
      BY <2>3, <3>1 DEF CacheHit, Return, InFlight, Values
  <2>4. CASE CacheMiss(t)
    BY <2>4 DEF CacheMiss, InFlight, Entries, NoEntry, Values
  <2>5. CASE QueryRow(t)
    BY <2>5, <1>c, <1>k DEF QueryRow, InFlight
  <2>6. CASE NotFound(t)
    BY <2>6 DEF NotFound, Return, InFlight, Values
  <2>7. CASE PutRow(t)
    <3>1. [ver |-> rver[t], val |-> rrow[t], live |-> TRUE] \in Entries /\ NoEntry \in Entries
      BY DEF Entries, NoEntry, Values
    <3>2. cache' \in [Slots -> Entries]
      BY <2>7, <3>1 DEF PutRow, CacheAfterPut
    <3> QED
      BY <2>7, <3>2 DEF PutRow, Return, InFlight, Values
  <2> QED
    BY <1>1, <2>1, <2>2, <2>3, <2>4, <2>5, <2>6, <2>7 DEF Lookup
<1>2. ASSUME NEW s \in Slots, Expire(s) PROVE TypeOK'
  BY <1>2 DEF Expire, Entries
<1>3. ASSUME NEW b \in Binders, Bind(b) PROVE TypeOK'
  <2>1. ASSUME NEW u \in Users, NEW i \in Instances, NEW f \in Infos,
               BindBegin(b, u, i, f)
        PROVE  TypeOK'
    BY <2>1 DEF BindBegin, BindArgs, Values
  <2>2. CASE BindReadUser(b)
    BY <2>2 DEF BindReadUser, BindArgs
  <2>3. CASE BindCommit(b)
    <3>1. bind[b].user \in Users /\ bind[b].inst \in Instances /\ bind[b].info \in Infos
      BY DEF BindArgs
    <3>2. inst' \in [Instances -> Values] /\ ui' \in [Users -> Instances \cup {NoInst}]
      BY <2>3, <3>1 DEF BindCommit, WriteInstance, WriteUserInstance, Values
    <3>3. seen' \in [Readers -> SUBSET Values]
      <4>1. \A t \in Readers : Joined(ui', inst', rkey[t][3]) \in Values
        BY <3>2, <1>k, JoinedType
      <4> QED
        BY <2>3, <4>1 DEF BindCommit, Observe
    <3> QED
      BY <2>3, <3>2, <3>3 DEF BindCommit, BumpVersion
  <2>4. CASE BindAbort(b)
    BY <2>4 DEF BindAbort, BindReturn
  <2>5. CASE InvalidateCache(b)
    BY <2>5 DEF InvalidateCache, BindReturn, Entries, NoEntry, Values
  <2> QED
    BY <1>3, <2>1, <2>2, <2>3, <2>4, <2>5 DEF Bind
<1>4. ASSUME NEW r \in Replicas, ReloadRead(r) PROVE TypeOK'
  BY <1>4 DEF ReloadRead
<1>5. ASSUME NEW r \in Replicas, ReloadSweep(r) PROVE TypeOK'
  BY <1>5 DEF ReloadSweep, Entries, NoEntry, Values
<1>6. ASSUME NEW r \in Replicas, Restart(r) PROVE TypeOK'
  BY <1>6 DEF Restart, Entries, NoEntry, Values
<1>7. CASE UNCHANGED vars
  BY <1>7 DEF vars
<1> QED
  BY <1>1, <1>2, <1>3, <1>4, <1>5, <1>6, <1>7 DEF Next

(* Every variable of every reachable state of the mapping storage has its  *)
(* type, whatever lookups, binds, reloads and restarts interleave.         *)
THEOREM TypeCorrect == Spec => []TypeOK
<1>1. Init => TypeOK
  BY InitInv DEF MappingInv
<1> QED
  BY <1>1, TypeStep, PTL DEF Spec
-----------------------------------------------------------------------------
(* A step that leaves the rows, the version and the lookups' locals alone   *)
(* and only drops or expires entries keeps the invariant.                  *)
Weaker(e, f) == e = NoEntry \/ (e.ver = f.ver /\ e.val = f.val)

(* Dropping or expiring entries keeps the invariant. *)
LEMMA CacheShrinks ==
  ASSUME MappingInv, TypeOK', UNCHANGED dbVars, UNCHANGED readVars, UNCHANGED seen,
         \A s \in Slots : Weaker(cache'[s], cache[s])
  PROVE  MappingInv'
<1> USE DEF MappingInv, TypeOK, dbVars, readVars, Current
<1>e. \A s \in Slots : cache[s].ver \in Nat /\ cache'[s].ver \in Nat
  BY DEF Entries
<1>1. VersionsPast'
  BY <1>e DEF VersionsPast, Weaker, NoEntry
<1>2. CacheCoherent'
  BY DEF CacheCoherent, Weaker, NoEntry
<1>3. EntryInWindow'
  BY DEF EntryInWindow, VersionsPast, Weaker, NoEntry
<1>4. WindowOpen' /\ RowCoherent' /\ RowInWindow' /\ LookupCurrent'
  BY DEF WindowOpen, RowCoherent, RowInWindow, LookupCurrent
<1> QED
  BY <1>1, <1>2, <1>3, <1>4

(* A lookup that returns a value of its window, or dies, keeps it too.      *)
LEMMA LookupEnds ==
  ASSUME MappingInv, TypeOK', UNCHANGED dbVars,
         \A s \in Slots : Weaker(cache'[s], cache[s]),
         \A t \in Readers :
           \/ /\ rpc'[t] = rpc[t] /\ rkey'[t] = rkey[t] /\ rver'[t] = rver[t]
              /\ rrow'[t] = rrow[t] /\ res'[t] = res[t] /\ seen'[t] = seen[t]
           \/ rpc'[t] = "idle"
           \/ rpc'[t] = "done" /\ res'[t] \in seen'[t]
  PROVE  MappingInv'
<1> USE DEF MappingInv, TypeOK, dbVars, Current
<1>e. \A s \in Slots : /\ cache[s].ver \in Nat
                       /\ cache'[s].ver = 0 \/ (/\ cache'[s].ver = cache[s].ver
                                                /\ cache'[s].val = cache[s].val)
  BY DEF Entries, Weaker, NoEntry
<1>p. \A t \in Readers : rpc'[t] \in Past =>
        /\ rpc'[t] = rpc[t] /\ rkey'[t] = rkey[t] /\ rver'[t] = rver[t]
        /\ seen'[t] = seen[t]
  BY DEF Past
<1>1. VersionsPast'
  <2>1. \A s \in Slots : cache'[s].ver <= version
    BY <1>e DEF VersionsPast
  <2>2. \A t \in Readers : rpc'[t] \in Past => rver'[t] <= version /\ rver'[t] # 0
    BY <1>p DEF VersionsPast
  <2> QED
    BY <2>1, <2>2 DEF VersionsPast
<1>2. CacheCoherent'
  BY DEF CacheCoherent, Weaker, NoEntry
<1>3. EntryInWindow'
  BY <1>e, <1>p DEF EntryInWindow, VersionsPast
<1>4. WindowOpen' /\ RowCoherent'
  BY DEF WindowOpen, RowCoherent, InFlight
<1>5. RowInWindow' /\ LookupCurrent'
  BY DEF RowInWindow, LookupCurrent, Past
<1> QED
  BY <1>1, <1>2, <1>3, <1>4, <1>5

(* Each step of a lookup keeps the invariant. *)
LEMMA LookupStep ==
  ASSUME MappingInv, TypeOK', NEW t \in Readers, Lookup(t)
  PROVE  MappingInv'
<1> USE DEF MappingInv, TypeOK, dbVars, bindVars
<1>k. \A s \in Slots : s[3] \in Users
  BY DEF Slots
<1>1. ASSUME NEW s \in Slots, Call(t, s) PROVE MappingInv'
  <2> USE <1>1 DEF Call, Current
  <2>1. VersionsPast' /\ CacheCoherent'
    BY DEF VersionsPast, CacheCoherent, Past
  <2>2. WindowOpen' /\ RowCoherent'
    BY DEF WindowOpen, RowCoherent, InFlight
  <2>3. EntryInWindow' /\ RowInWindow' /\ LookupCurrent'
    BY DEF EntryInWindow, RowInWindow, LookupCurrent, Past
  <2> QED
    BY <2>1, <2>2, <2>3
<1>2. CASE ReadVersion(t)
  <2> USE <1>2 DEF ReadVersion, Current
  <2>1. VersionsPast' /\ CacheCoherent'
    BY DEF VersionsPast, CacheCoherent, Past
  <2>2. WindowOpen' /\ RowCoherent' /\ LookupCurrent'
    BY DEF WindowOpen, RowCoherent, LookupCurrent, InFlight
  <2>3. EntryInWindow'
    BY DEF EntryInWindow, CacheCoherent, WindowOpen, Past, InFlight
  <2>4. RowInWindow'
    BY DEF RowInWindow, RowCoherent, WindowOpen, Past, InFlight
  <2> QED
    BY <2>1, <2>2, <2>3, <2>4
<1>3. CASE CacheHit(t)
  <2>1. cache[rkey[t]].val \in seen[t]
    BY <1>3 DEF CacheHit, Hits, EntryInWindow, Past
  <2> QED
    BY <1>3, <2>1, LookupEnds DEF CacheHit, Return, Weaker
<1>4. CASE CacheMiss(t)
  <2> USE <1>4 DEF CacheMiss, Current
  <2>1. VersionsPast' /\ CacheCoherent'
    BY DEF VersionsPast, CacheCoherent, NoEntry, Past
  <2>2. WindowOpen' /\ RowCoherent' /\ LookupCurrent'
    BY DEF WindowOpen, RowCoherent, LookupCurrent, InFlight
  <2>3. EntryInWindow'
    BY DEF EntryInWindow, VersionsPast, NoEntry, Past
  <2>4. RowInWindow'
    BY DEF RowInWindow, Past
  <2> QED
    BY <2>1, <2>2, <2>3, <2>4
<1>5. CASE QueryRow(t)
  <2> USE <1>5 DEF QueryRow, Current
  <2>1. VersionsPast' /\ CacheCoherent'
    BY DEF VersionsPast, CacheCoherent, Past
  <2>2. WindowOpen' /\ RowCoherent' /\ LookupCurrent'
    BY DEF WindowOpen, RowCoherent, LookupCurrent, InFlight
  <2>3. EntryInWindow'
    BY DEF EntryInWindow, Past
  <2>4. RowInWindow'
    BY DEF RowInWindow, WindowOpen, Past, InFlight
  <2> QED
    BY <2>1, <2>2, <2>3, <2>4
<1>6. CASE NotFound(t)
  <2>1. rrow[t] \in seen[t]
    BY <1>6 DEF NotFound, RowInWindow, Past
  <2> QED
    BY <1>6, <2>1, LookupEnds DEF NotFound, Return, Weaker
<1>7. CASE PutRow(t)
  <2> DEFINE e == [ver |-> rver[t], val |-> rrow[t], live |-> TRUE]
  <2>1. \A s \in Slots : (cache'[s] = e /\ s = rkey[t]) \/ Weaker(cache'[s], cache[s])
    BY <1>7 DEF PutRow, CacheAfterPut, Weaker
  <2>2. rpc[t] = "put" /\ rrow[t] \in seen[t]
    BY <1>7 DEF PutRow, RowInWindow, Past
  <2>3. \A q \in Readers \ {t} :
          /\ rpc'[q] = rpc[q] /\ rkey'[q] = rkey[q] /\ rver'[q] = rver[q]
          /\ rrow'[q] = rrow[q] /\ res'[q] = res[q]
    BY <1>7 DEF PutRow, Return
  <2>4. rpc'[t] = "done" /\ res'[t] = rrow[t] /\ seen' = seen /\ UNCHANGED dbVars
    BY <1>7 DEF PutRow, Return
  <2> HIDE DEF e
  <2> USE <2>2, <2>3, <2>4 DEF Current
  <2>5. e.ver = rver[t] /\ e.val = rrow[t]
    BY DEF e
  <2>e. \A s \in Slots : \/ s = rkey[t] /\ cache'[s].ver = rver[t] /\ cache'[s].val = rrow[t]
                         \/ cache'[s].ver = 0
                         \/ cache'[s].ver = cache[s].ver /\ cache'[s].val = cache[s].val
    BY <2>1, <2>5 DEF Weaker, NoEntry
  <2>p. \A q \in Readers : rpc'[q] \in Past =>
          /\ q # t /\ rpc'[q] = rpc[q] /\ rkey'[q] = rkey[q] /\ rver'[q] = rver[q]
          /\ seen'[q] = seen[q]
    BY DEF Past
  <2>6. VersionsPast'
    <3>1. \A s \in Slots : cache'[s].ver <= version
      <4>1. rver[t] <= version /\ version' = version /\ 0 <= version
        BY DEF VersionsPast, Past
      <4>2. \A s \in Slots : cache[s].ver <= version
        BY DEF VersionsPast
      <4>3. TAKE s \in Slots
      <4> QED
        BY ONLY <2>e, <4>1, <4>2
    <3>2. \A q \in Readers : rpc'[q] \in Past => rver'[q] <= version /\ rver'[q] # 0
      BY <2>p DEF VersionsPast
    <3> QED
      BY <3>1, <3>2 DEF VersionsPast
  <2>7. CacheCoherent'
    BY <2>1, <2>5 DEF CacheCoherent, RowCoherent, Weaker, NoEntry
  <2>8. WindowOpen' /\ RowCoherent' /\ LookupCurrent'
    BY DEF WindowOpen, RowCoherent, LookupCurrent, InFlight
  <2>9. EntryInWindow'
    <3> SUFFICES ASSUME NEW q \in Readers, NEW s \in Slots, rpc'[q] \in Past,
                        s[3] = rkey'[q][3], cache'[s].ver = rver'[q]
                 PROVE  cache'[s].val \in seen'[q]
      BY DEF EntryInWindow
    <3>1. /\ rpc[q] \in Past /\ rkey'[q] = rkey[q] /\ rver'[q] = rver[q]
          /\ seen'[q] = seen[q] /\ rver[q] # 0
      BY <2>p DEF VersionsPast
    <3>2. CASE s = rkey[t] /\ cache'[s].ver = rver[t] /\ cache'[s].val = rrow[t]
      BY <3>1, <3>2 DEF RowInWindow
    <3>3. CASE cache'[s].ver = cache[s].ver /\ cache'[s].val = cache[s].val
      BY <3>1, <3>3 DEF EntryInWindow
    <3> QED
      BY <2>e, <3>1, <3>2, <3>3
  <2>10. RowInWindow'
    BY DEF RowInWindow, Past
  <2> QED
    BY <2>6, <2>7, <2>8, <2>9, <2>10
<1> QED
  BY <1>1, <1>2, <1>3, <1>4, <1>5, <1>6, <1>7 DEF Lookup

(* A commit changes rows and version together: every tag becomes a tag of   *)
(* the past, and every open window takes the new binding in.                *)
LEMMA CommitStep ==
  ASSUME MappingInv, TypeOK', NEW b \in Binders, BindCommit(b)
  PROVE  MappingInv'
<1> USE DEF MappingInv, TypeOK
<1>1. UNCHANGED <<cache, readVars>> /\ version' = version + 1
  BY DEF BindCommit, BumpVersion
<1>2. \A t \in Readers : /\ seen[t] \subseteq seen'[t]
                         /\ rpc[t] \in InFlight => Current(rkey[t][3])' \in seen'[t]
                         /\ rpc[t] \notin InFlight => seen'[t] = seen[t]
  BY <1>1 DEF BindCommit, Observe, Current, readVars
<1> USE <1>1, <1>2 DEF readVars
<1>e. \A s \in Slots : cache[s].ver \in Nat
  BY DEF Entries
<1>3. VersionsPast'
  BY <1>e DEF VersionsPast
<1>4. CacheCoherent' /\ RowCoherent'
  BY DEF CacheCoherent, RowCoherent, VersionsPast, Past
<1>5. WindowOpen' /\ LookupCurrent'
  BY DEF WindowOpen, LookupCurrent, InFlight
<1>6. EntryInWindow' /\ RowInWindow'
  BY DEF EntryInWindow, RowInWindow
<1> QED
  BY <1>3, <1>4, <1>5, <1>6

(* Every step keeps the invariant. *)
LEMMA InvStep == MappingInv /\ [Next]_vars => MappingInv'
<1> SUFFICES ASSUME MappingInv, [Next]_vars PROVE MappingInv'
  OBVIOUS
<1>t. TypeOK /\ TypeOK'
  BY TypeStep DEF MappingInv
<1>1. ASSUME NEW t \in Readers, Lookup(t) PROVE MappingInv'
  BY <1>1, <1>t, LookupStep
<1>2. ASSUME NEW s \in Slots, Expire(s) PROVE MappingInv'
  BY <1>2, <1>t, CacheShrinks DEF Expire, Weaker, TypeOK, Entries
<1>3. ASSUME NEW b \in Binders, Bind(b) PROVE MappingInv'
  <2>1. ASSUME NEW u \in Users, NEW i \in Instances, NEW f \in Infos,
               BindBegin(b, u, i, f)
        PROVE  MappingInv'
    BY <2>1, <1>t, CacheShrinks DEF BindBegin, Weaker
  <2>2. CASE BindReadUser(b)
    BY <2>2, <1>t, CacheShrinks DEF BindReadUser, Weaker
  <2>3. CASE BindCommit(b)
    BY <2>3, <1>t, CommitStep
  <2>4. CASE BindAbort(b)
    BY <2>4, <1>t, CacheShrinks DEF BindAbort, Weaker
  <2>5. CASE InvalidateCache(b)
    BY <2>5, <1>t, CacheShrinks DEF InvalidateCache, Weaker, TypeOK
  <2> QED
    BY <1>3, <2>1, <2>2, <2>3, <2>4, <2>5 DEF Bind
<1>4. ASSUME NEW r \in Replicas, ReloadRead(r) PROVE MappingInv'
  BY <1>4, <1>t, CacheShrinks DEF ReloadRead, Weaker
<1>5. ASSUME NEW r \in Replicas, ReloadSweep(r) PROVE MappingInv'
  BY <1>5, <1>t, CacheShrinks DEF ReloadSweep, Weaker
<1>6. ASSUME NEW r \in Replicas, Restart(r) PROVE MappingInv'
  <2>1. \A s \in Slots : Weaker(cache'[s], cache[s])
    BY <1>6 DEF Restart, Weaker
  <2> QED
    BY <1>6, <1>t, <2>1, LookupEnds DEF Restart, TypeOK, dbVars
<1>7. CASE UNCHANGED vars
  BY <1>7, <1>t, CacheShrinks DEF vars, dbVars, readVars, Weaker
<1> QED
  BY <1>1, <1>2, <1>3, <1>4, <1>5, <1>6, <1>7 DEF Next

(* The invariant holds in every reachable state. *)
LEMMA SpecInv == Spec => []MappingInv
BY InitInv, InvStep, PTL DEF Spec

(* An entry the version check accepts holds the present binding, in every   *)
(* replica: _cache_get cannot serve what a committed bind has replaced.     *)
THEOREM CacheIsCoherent == Spec => []CacheCoherent
<1>1. MappingInv => CacheCoherent
  BY DEF MappingInv
<1> QED
  BY <1>1, SpecInv, PTL

(* A lookup returns a binding its user had during the call, whether it      *)
(* came from the cache or from the database.                                *)
THEOREM LookupIsCurrent == Spec => []LookupCurrent
<1>1. MappingInv => LookupCurrent
  BY DEF MappingInv
<1> QED
  BY <1>1, SpecInv, PTL
-----------------------------------------------------------------------------
(* The mapping implements BindingRegister.                                  *)

(* The refinement mapping, as operators of this module. *)
bindingBar == [u \in Users |-> Current(u)]
callBar == [t \in Readers |-> IF rpc[t] \in InFlight THEN rkey[t][3] ELSE NoInst]

(* What the refinement mapping makes of a call. *)
LEMMA Unprimed ==
  ASSUME NEW t \in Readers, TypeOK
  PROVE  /\ rkey[t][3] \in Users
         /\ callBar[t] = NoInst <=> rpc[t] \notin InFlight
         /\ rpc[t] \in InFlight => callBar[t] = rkey[t][3]
BY NoInstAssumption DEF callBar, TypeOK, Slots

(* The initial states are initial states of the register. *)
LEMMA RegisterInit == Init => Register!Init
<1> SUFFICES ASSUME Init PROVE Register!Init
  OBVIOUS
<1>1. TypeOK
  BY InitInv DEF MappingInv
<1>2. [u \in Users |-> Current(u)] \in [Users -> Values]
  BY <1>1, JoinedType DEF Current, TypeOK
<1> QED
  BY <1>1, <1>2 DEF Init, Register!Init, InFlight, TypeOK

(* A step that leaves calls, windows, answers and bindings alone stutters. *)
LEMMA RegisterStutter ==
  ASSUME UNCHANGED <<dbVars, seen, res>>,
         \A t \in Readers : callBar'[t] = callBar[t]
  PROVE  UNCHANGED Register!rvars
BY DEF Register!rvars, dbVars, Current, callBar

(* The return of a lookup is an answer of the register. *)
LEMMA RegisterAnswer ==
  ASSUME MappingInv, NEW t \in Readers, NEW v, rpc[t] \in InFlight, Return(t, v),
         v \in seen[t], UNCHANGED <<dbVars, seen>>
  PROVE  Register!Next
<1> DEFINE cb == [q \in Readers |-> IF rpc[q] \in InFlight THEN rkey[q][3] ELSE NoInst]
<1>1. cb[t] # NoInst
  BY Unprimed DEF MappingInv, callBar
<1>2. res' = [res EXCEPT ![t] = v]
  BY DEF Return
<1>3. cb' = [cb EXCEPT ![t] = NoInst]
  BY DEF Return, InFlight, MappingInv, TypeOK
<1>4. Register!Answer(t)
  BY <1>1, <1>2, <1>3 DEF Register!Answer, dbVars, Current
<1> QED
  BY <1>4 DEF Register!Next

(* Every step is a step of the register or a stutter. *)
LEMMA RegisterStep == MappingInv /\ MappingInv' /\ [Next]_vars => [Register!Next]_(Register!rvars)
<1> SUFFICES ASSUME MappingInv, MappingInv', [Next]_vars
             PROVE  Register!Next \/ UNCHANGED Register!rvars
  BY DEF Register!rvars
<1>t. TypeOK /\ TypeOK'
  BY DEF MappingInv
<1>1. ASSUME NEW t \in Readers, Lookup(t)
      PROVE  Register!Next \/ UNCHANGED Register!rvars
  <2>1. ASSUME NEW s \in Slots, Call(t, s)
        PROVE  Register!Next \/ UNCHANGED Register!rvars
    <3> DEFINE cb == [q \in Readers |-> IF rpc[q] \in InFlight THEN rkey[q][3] ELSE NoInst]
    <3>1. s[3] \in Users
      BY DEF Slots
    <3>2. cb[t] = NoInst
      BY <2>1 DEF Call, InFlight
    <3>3. cb' = [cb EXCEPT ![t] = s[3]]
      BY <2>1, <1>t DEF Call, InFlight, TypeOK
    <3>4. seen' = [seen EXCEPT ![t] = {[u \in Users |-> Current(u)][s[3]]}]
      BY <2>1, <3>1 DEF Call
    <3>5. Register!Invoke(t, s[3])
      BY <2>1, <3>2, <3>3, <3>4 DEF Register!Invoke, Call, dbVars, Current
    <3> QED
      BY <3>1, <3>5 DEF Register!Next
  <2>2. CASE ReadVersion(t)
    BY <2>2, <1>t, RegisterStutter DEF ReadVersion, callBar, InFlight, TypeOK
  <2>3. CASE CacheHit(t)
    <3>1. cache[rkey[t]].val \in seen[t] /\ rpc[t] \in InFlight
      BY <2>3 DEF CacheHit, Hits, MappingInv, EntryInWindow, TypeOK, Past, InFlight
    <3> QED
      BY <2>3, <3>1, RegisterAnswer DEF CacheHit
  <2>4. CASE CacheMiss(t)
    BY <2>4, <1>t, RegisterStutter DEF CacheMiss, callBar, InFlight, TypeOK
  <2>5. CASE QueryRow(t)
    BY <2>5, <1>t, RegisterStutter DEF QueryRow, callBar, InFlight, TypeOK
  <2>6. CASE NotFound(t)
    <3>1. rrow[t] \in seen[t] /\ rpc[t] \in InFlight
      BY <2>6 DEF NotFound, MappingInv, RowInWindow, Past, InFlight
    <3> QED
      BY <2>6, <3>1, RegisterAnswer DEF NotFound
  <2>7. CASE PutRow(t)
    <3>1. rrow[t] \in seen[t] /\ rpc[t] \in InFlight
      BY <2>7 DEF PutRow, MappingInv, RowInWindow, Past, InFlight
    <3> QED
      BY <2>7, <3>1, RegisterAnswer DEF PutRow
  <2> QED
    BY <1>1, <2>1, <2>2, <2>3, <2>4, <2>5, <2>6, <2>7 DEF Lookup
<1>2. ASSUME NEW s \in Slots, Expire(s) PROVE UNCHANGED Register!rvars
  BY <1>2, RegisterStutter DEF Expire, readVars, callBar
<1>3. ASSUME NEW b \in Binders, Bind(b) PROVE Register!Next \/ UNCHANGED Register!rvars
  <2>1. CASE BindCommit(b)
    <3> DEFINE cb == [q \in Readers |-> IF rpc[q] \in InFlight THEN rkey[q][3] ELSE NoInst]
               bb == [u \in Users |-> Current(u)]
    <3>1. bb' \in [Users -> Values]
      BY <1>t, JoinedType DEF Current, TypeOK
    <3>2. cb' = cb /\ res' = res
      BY <2>1 DEF BindCommit, readVars
    <3>3. \A t \in Readers : rkey[t][3] \in Users /\ (cb[t] = NoInst <=> rpc[t] \notin InFlight)
                             /\ (rpc[t] \in InFlight => cb[t] = rkey[t][3])
      BY <1>t, Unprimed DEF callBar
    <3>4. seen' = [t \in Readers |-> IF cb[t] = NoInst THEN seen[t]
                                     ELSE seen[t] \cup {bb'[cb[t]]}]
      BY <2>1, <3>3 DEF BindCommit, Observe, Current
    <3>5. Register!Change
      BY <3>1, <3>2, <3>4 DEF Register!Change
    <3> QED
      BY <3>5 DEF Register!Next
  <2>2. ASSUME NEW u \in Users, NEW i \in Instances, NEW f \in Infos,
               BindBegin(b, u, i, f)
        PROVE  UNCHANGED Register!rvars
    BY <2>2, RegisterStutter DEF BindBegin, readVars, callBar
  <2>3. CASE BindReadUser(b)
    BY <2>3, RegisterStutter DEF BindReadUser, readVars, callBar
  <2>4. CASE BindAbort(b)
    BY <2>4, RegisterStutter DEF BindAbort, readVars, callBar
  <2>5. CASE InvalidateCache(b)
    BY <2>5, RegisterStutter DEF InvalidateCache, readVars, callBar
  <2> QED
    BY <1>3, <2>1, <2>2, <2>3, <2>4, <2>5 DEF Bind
<1>4. ASSUME NEW r \in Replicas, ReloadRead(r) \/ ReloadSweep(r)
      PROVE  UNCHANGED Register!rvars
  BY <1>4, RegisterStutter DEF ReloadRead, ReloadSweep, readVars, callBar
<1>5. ASSUME NEW r \in Replicas, Restart(r) PROVE Register!Next
  <2> DEFINE cb == [q \in Readers |-> IF rpc[q] \in InFlight THEN rkey[q][3] ELSE NoInst]
  <2>0. PICK T \in SUBSET Readers : T = {t \in Readers : Killed(t, r)}
    OBVIOUS
  <2>1. \A t \in T : cb[t] # NoInst
    BY <1>t, <2>0, Unprimed DEF Killed, callBar
  <2>2. cb' = [t \in Readers |-> IF t \in T THEN NoInst ELSE cb[t]]
    BY <1>5, <2>0 DEF Restart, InFlight
  <2>3. seen' = [t \in Readers |-> IF t \in T THEN {} ELSE seen[t]]
    BY <1>5, <2>0 DEF Restart
  <2>4. Register!Abandon(T)
    BY <1>5, <2>1, <2>2, <2>3 DEF Register!Abandon, Restart, dbVars, Current
  <2> QED
    BY <2>4 DEF Register!Next
<1>6. CASE UNCHANGED vars
  BY <1>6, RegisterStutter DEF vars, dbVars, callBar
<1> QED
  BY <1>1, <1>2, <1>3, <1>4, <1>5, <1>6 DEF Next

(* The mapping implements the regular register: to its callers, caches,     *)
(* versions and replicas are invisible.                                     *)
THEOREM MappingRefinesRegister == Spec => RefinesRegister
<1>1. MappingInv /\ MappingInv' /\ [Next]_vars => [Register!Next]_(Register!rvars)
  BY RegisterStep
<1> QED
  BY RegisterInit, <1>1, SpecInv, PTL DEF Spec, Register!Spec, RefinesRegister

-----------------------------------------------------------------------------
(* The assignments.                                                        *)

(* A bind that has found a row of its instance can rely on there being one. *)
RowKnown ==
  \A b \in Binders : bpc[b] \in {"selected", "flush"} /\ bind[b].oldInfo # NoInfo
                       => inst[bind[b].inst] # NoInfo

AssignmentInv == OneToOne /\ RowKnown

(* A step without a commit, in which binds at most end. *)
LEMMA BindsEnd ==
  ASSUME AssignmentInv, UNCHANGED <<inst, ui>>,
         \A b \in Binders : \/ bpc'[b] = bpc[b] /\ bind'[b] = bind[b]
                           \/ bpc'[b] \notin {"selected", "flush"}
  PROVE  AssignmentInv'
BY DEF AssignmentInv, OneToOne, RowKnown

(* No step assigns an instance twice, or one without a row. *)
LEMMA AssignmentStep == TypeOK /\ AssignmentInv /\ [Next]_vars => AssignmentInv'
<1> SUFFICES ASSUME TypeOK, AssignmentInv, [Next]_vars PROVE AssignmentInv'
  OBVIOUS
<1> USE DEF TypeOK, dbVars, readVars, bindVars
<1>1. ASSUME NEW t \in Readers, Lookup(t) PROVE AssignmentInv'
  <2>1. UNCHANGED <<inst, ui, bpc, bind>>
    BY <1>1 DEF Lookup, Call, ReadVersion, CacheHit, CacheMiss, QueryRow, NotFound, PutRow
  <2> QED
    BY <2>1, BindsEnd
<1>2. ASSUME NEW s \in Slots, Expire(s) PROVE AssignmentInv'
  BY <1>2, BindsEnd DEF Expire
<1>3. ASSUME NEW b \in Binders, Bind(b) PROVE AssignmentInv'
  <2>1. ASSUME NEW u \in Users, NEW i \in Instances, NEW f \in Infos, BindBegin(b, u, i, f)
        PROVE  AssignmentInv'
    BY <2>1 DEF BindBegin, AssignmentInv, OneToOne, RowKnown
  <2>2. CASE BindReadUser(b)
    BY <2>2 DEF BindReadUser, AssignmentInv, OneToOne, RowKnown, BindArgs
  <2>3. CASE BindCommit(b)
    <3> DEFINE a == bind[b]
    <3>1. /\ a.user \in Users /\ a.inst \in Instances /\ a.info # NoInfo
          /\ bpc[b] = "flush"
      BY <2>3, NoInfoAssumption DEF BindArgs, BindCommit
    <3>2. \A i \in Instances : inst[i] # NoInfo => inst'[i] # NoInfo
      BY <2>3, <3>1 DEF BindCommit, WriteInstance
    <3>3. inst'[a.inst] # NoInfo
      <4>1. CASE a.oldInfo = a.info
        BY <3>1, <3>2, <4>1 DEF AssignmentInv, RowKnown
      <4>2. CASE a.oldInfo # a.info
        BY <2>3, <3>1, <4>2 DEF BindCommit, WriteInstance
      <4> QED
        BY <4>1, <4>2
    <3>4. CASE a.oldUi = a.inst
      <4>1. ui' = ui
        BY <2>3, <3>4 DEF BindCommit, WriteUserInstance
      <4> QED
        BY <2>3, <3>2, <4>1, NoInstAssumption
           DEF BindCommit, AssignmentInv, OneToOne, RowKnown, BindArgs
    <3>5. CASE a.oldUi # a.inst
      <4> DEFINE Ws == WrittenRows(a)
      <4>1. /\ ui' = [v \in Users |-> IF v \in Ws THEN a.inst ELSE ui[v]]
            /\ \A v \in Users : ui[v] # a.inst
        BY <2>3, <3>5 DEF BindCommit, WriteUserInstance, UserInstanceWriteOK
      <4>2. \A v, w \in Ws : v = w
        BY DEF WrittenRows, AssignmentInv, OneToOne
      <4> HIDE DEF Ws
      <4>3. OneToOne'
        BY <3>1, <3>2, <3>3, <4>1, <4>2 DEF AssignmentInv, OneToOne
      <4>4. RowKnown'
        BY <2>3, <3>2 DEF BindCommit, AssignmentInv, RowKnown, BindArgs
      <4> QED
        BY <4>3, <4>4 DEF AssignmentInv
    <3> QED
      BY <3>4, <3>5
  <2>4. CASE BindAbort(b)
    BY <2>4, BindsEnd DEF BindAbort, BindReturn
  <2>5. CASE InvalidateCache(b)
    BY <2>5, BindsEnd DEF InvalidateCache, BindReturn
  <2> QED
    BY <1>3, <2>1, <2>2, <2>3, <2>4, <2>5 DEF Bind
<1>4. ASSUME NEW r \in Replicas, ReloadRead(r) \/ ReloadSweep(r) \/ Restart(r)
      PROVE  AssignmentInv'
  BY <1>4, BindsEnd DEF ReloadRead, ReloadSweep, Restart
<1>5. CASE UNCHANGED vars
  BY <1>5, BindsEnd DEF vars
<1> QED
  BY <1>1, <1>2, <1>3, <1>4, <1>5 DEF Next

(* A user and an instance are in at most one assignment, and an assigned    *)
(* instance has a row, in whatever order any number of binds read and       *)
(* commit (bind_user_instance; the unique keys of user_instance).           *)
THEOREM AssignmentsOneToOne == Spec => []OneToOne
<1>1. Init => AssignmentInv
  BY DEF Init, AssignmentInv, OneToOne, RowKnown
<1>2. AssignmentInv => OneToOne
  BY DEF AssignmentInv
<1> QED
  BY <1>1, <1>2, AssignmentStep, TypeCorrect, PTL DEF Spec

-----------------------------------------------------------------------------
(* The size of the caches.                                                 *)

CachesFinite == \A s \in Slots : IsFiniteSet(CacheOf(s))

(* A step that adds no entry. *)
LEMMA NoEntryAdded ==
  ASSUME CachesFinite, CacheBounded,
         \A s \in Slots : cache'[s].ver # 0 => cache[s].ver # 0
  PROVE  (CachesFinite /\ CacheBounded)'
<1> SUFFICES ASSUME NEW s \in Slots
             PROVE  IsFiniteSet(CacheOf(s)') /\ Cardinality(CacheOf(s)') <= MaxCacheEntries
  BY DEF CachesFinite, CacheBounded
<1>1. CacheOf(s)' \in SUBSET CacheOf(s)
  BY DEF CacheOf
<1>2. IsFiniteSet(CacheOf(s)) /\ Cardinality(CacheOf(s)) <= MaxCacheEntries
  BY DEF CachesFinite, CacheBounded
<1>3. IsFiniteSet(CacheOf(s)') /\ Cardinality(CacheOf(s)') <= Cardinality(CacheOf(s))
  BY <1>1, <1>2, FS_Subset
<1>4. Cardinality(CacheOf(s)) \in Nat /\ Cardinality(CacheOf(s)') \in Nat
  BY <1>2, <1>3, FS_CardinalityType
<1> QED
  BY <1>2, <1>3, <1>4, MaxCacheAssumption

(* Storing an entry clears a full cache first. *)
LEMMA PutBounded ==
  ASSUME CachesFinite, CacheBounded, cache \in [Slots -> Entries],
         NEW k \in Slots, NEW e \in Entries, cache' = CacheAfterPut(k, e)
  PROVE  (CachesFinite /\ CacheBounded)'
<1> SUFFICES ASSUME NEW s \in Slots
             PROVE  IsFiniteSet(CacheOf(s)') /\ Cardinality(CacheOf(s)') <= MaxCacheEntries
  BY DEF CachesFinite, CacheBounded
<1>0. /\ IsFiniteSet(CacheOf(s)) /\ Cardinality(CacheOf(s)) <= MaxCacheEntries
      /\ Cardinality(CacheOf(s)) \in Nat
  BY FS_CardinalityType DEF CachesFinite, CacheBounded
<1>1. CASE ~SameCache(k, s)
  <2>1. CacheOf(s)' \in SUBSET CacheOf(s)
    BY <1>1 DEF CacheOf, CacheAfterPut, SameCache, NoEntry
  <2>2. IsFiniteSet(CacheOf(s)') /\ Cardinality(CacheOf(s)') <= Cardinality(CacheOf(s))
    BY <1>0, <2>1, FS_Subset
  <2>3. Cardinality(CacheOf(s)') \in Nat
    BY <2>2, FS_CardinalityType
  <2> QED
    BY <1>0, <2>2, <2>3, MaxCacheAssumption
<1>2. CASE SameCache(k, s) /\ Cardinality(CacheOf(k)) >= MaxCacheEntries
  <2>1. CacheOf(s)' \in SUBSET {k}
    BY <1>2 DEF CacheOf, CacheAfterPut, SameCache, NoEntry
  <2>2. IsFiniteSet({k}) /\ Cardinality({k}) = 1
    BY FS_Singleton
  <2>3. IsFiniteSet(CacheOf(s)') /\ Cardinality(CacheOf(s)') <= 1
    BY <2>1, <2>2, FS_Subset
  <2>4. Cardinality(CacheOf(s)') \in Nat
    BY <2>3, FS_CardinalityType
  <2> QED
    BY <2>3, <2>4, MaxCacheAssumption
<1>3. CASE SameCache(k, s) /\ ~(Cardinality(CacheOf(k)) >= MaxCacheEntries)
  <2>1. CacheOf(s)' \in SUBSET (CacheOf(s) \cup {k})
    BY <1>3 DEF CacheOf, CacheAfterPut
  <2>2. CacheOf(k) = CacheOf(s)
    BY <1>3 DEF CacheOf, SameCache
  <2>3. /\ IsFiniteSet(CacheOf(s) \cup {k})
        /\ Cardinality(CacheOf(s) \cup {k}) <= Cardinality(CacheOf(s)) + 1
    BY <1>0, FS_AddElement
  <2>4. /\ IsFiniteSet(CacheOf(s)')
        /\ Cardinality(CacheOf(s)') <= Cardinality(CacheOf(s) \cup {k})
    BY <2>1, <2>3, FS_Subset
  <2>5. Cardinality(CacheOf(s)') \in Nat /\ Cardinality(CacheOf(s) \cup {k}) \in Nat
    BY <2>3, <2>4, FS_CardinalityType
  <2>6. Cardinality(CacheOf(s)) < MaxCacheEntries
    BY <1>0, <1>3, <2>2, MaxCacheAssumption
  <2> QED
    BY <1>0, <2>3, <2>4, <2>5, <2>6, MaxCacheAssumption
<1> QED
  BY <1>1, <1>2, <1>3

(* Only PutRow adds an entry. *)
LEMMA BoundedStep ==
  TypeOK /\ CachesFinite /\ CacheBounded /\ [Next]_vars => (CachesFinite /\ CacheBounded)'
<1> SUFFICES ASSUME TypeOK, CachesFinite, CacheBounded, [Next]_vars
             PROVE  (CachesFinite /\ CacheBounded)'
  OBVIOUS
<1>t. cache \in [Slots -> Entries] /\ rkey \in [Readers -> Slots]
  BY DEF TypeOK
<1>1. ASSUME NEW t \in Readers, PutRow(t) PROVE (CachesFinite /\ CacheBounded)'
  <2>1. [ver |-> rver[t], val |-> rrow[t], live |-> TRUE] \in Entries
    BY DEF TypeOK, Entries
  <2> QED
    BY <1>t, <1>1, <2>1, PutBounded DEF PutRow
<1>2. CASE ~\E t \in Readers : PutRow(t)
  <2>1. \A s \in Slots : cache'[s].ver # 0 => cache[s].ver # 0
    <3>1. ASSUME NEW t \in Readers, Lookup(t), ~PutRow(t)
          PROVE  \A s \in Slots : cache'[s] = cache[s] \/ cache'[s] = NoEntry
      BY <1>t, <3>1 DEF Lookup, Call, ReadVersion, CacheHit, CacheMiss, QueryRow, NotFound
    <3>2. ASSUME NEW s \in Slots, Expire(s)
          PROVE  \A k \in Slots : cache'[k].ver = cache[k].ver
      BY <1>t, <3>2 DEF Expire, Entries
    <3>3. ASSUME NEW b \in Binders, Bind(b)
          PROVE  \A s \in Slots : cache'[s] = cache[s] \/ cache'[s] = NoEntry
      BY <3>3 DEF Bind, BindBegin, BindReadUser, BindCommit, BindAbort, InvalidateCache
    <3>4. ASSUME NEW r \in Replicas, ReloadRead(r) \/ ReloadSweep(r) \/ Restart(r)
          PROVE  \A s \in Slots : cache'[s] = cache[s] \/ cache'[s] = NoEntry
      BY <3>4 DEF ReloadRead, ReloadSweep, Restart
    <3>5. CASE UNCHANGED vars
      BY <3>5 DEF vars
    <3> QED
      BY <1>2, <3>1, <3>2, <3>3, <3>4, <3>5 DEF Next, NoEntry
  <2> QED
    BY <2>1, NoEntryAdded
<1> QED
  BY <1>1, <1>2

(* No cache of any replica grows beyond _MAX_CACHE_ENTRIES, however many    *)
(* lookups store at once (_cache_put clears a full one before it stores).   *)
THEOREM CachesBounded == Spec => []CacheBounded
<1>1. Init => CachesFinite /\ CacheBounded
  <2> SUFFICES ASSUME Init, NEW s \in Slots
               PROVE  IsFiniteSet(CacheOf(s)) /\ Cardinality(CacheOf(s)) <= MaxCacheEntries
    BY DEF CachesFinite, CacheBounded
  <2>1. CacheOf(s) = {}
    BY DEF Init, CacheOf, NoEntry
  <2> QED
    BY <2>1, FS_EmptySet, MaxCacheAssumption
<1> QED
  BY <1>1, BoundedStep, TypeCorrect, PTL DEF Spec
=============================================================================

--------------------------- MODULE MappingStorage ---------------------------
(***************************************************************************)
(* src/services/mapping.py: the user -> instance mapping.                  *)
(*                                                                         *)
(* The database holds the instance rows, the user_instance rows and the    *)
(* mapping_state version.  Every replica (gateway process) keeps two       *)
(* caches of lookups, each entry tagged with the version that was current  *)
(* when its lookup began.  A lookup reads the version, tries the cache,    *)
(* queries the row and stores it, with an await between the steps; a bind  *)
(* changes rows and version in one transaction and clears its own          *)
(* replica's caches afterwards.  Statements run at READ COMMITTED, the     *)
(* default of the engine created in src/core/database.py.                  *)
(*                                                                         *)
(* A user stands for app_user and its identity, an "info" for the url and  *)
(* the credentials of an instance row.                                     *)
(***************************************************************************)
EXTENDS Integers, FiniteSets

CONSTANTS
  Replicas,         \* gateway processes
  Kinds,            \* the two caches: by identity and by external id
  Users,
  Instances,        \* instance_uuid values
  Infos,            \* url and credentials of an instance row
  Readers,          \* concurrent lookups
  Binders,          \* concurrent bind_user_instance calls
  Home,             \* the process each of these calls runs in
  NoInst,           \* no user_instance row
  NoInfo,           \* no instance row, lookup failed
  MaxCacheEntries,  \* _MAX_CACHE_ENTRIES
  MaxVersion        \* bound on mapping_state.version

ASSUME NoInstAssumption == NoInst \notin Instances /\ NoInst \notin Users
ASSUME NoInfoAssumption == NoInfo \notin Infos
ASSUME NonEmptyAssumption ==
  Replicas # {} /\ Kinds # {} /\ Users # {} /\ Instances # {} /\ Infos # {}
ASSUME HomeAssumption == Home \in [Readers \cup Binders -> Replicas]
ASSUME MaxCacheAssumption == MaxCacheEntries \in Nat \ {0}
ASSUME MaxVersionAssumption == MaxVersion \in Nat

VARIABLES
  version,   \* mapping_state.version
  inst,      \* instance rows: uuid -> info
  ui,        \* user_instance rows: user -> uuid
  cache,     \* slot -> entry, over all replicas
  rpc,       \* where each lookup is
  rkey,      \* the slot it looks up
  rver,      \* the version it read
  rrow,      \* the row it read
  res,       \* what it returned
  seen,      \* history: the bindings its user has had during the call
  bpc,       \* where each bind is
  bind,      \* its arguments and what it has read
  reload     \* per replica: version read by a reload in progress, 0 if none

dbVars == <<version, inst, ui>>
readVars == <<rpc, rkey, rver, rrow, res>>
bindVars == <<bpc, bind>>
vars == <<version, inst, ui, cache, rpc, rkey, rver, rrow, res, seen,
          bpc, bind, reload>>

-----------------------------------------------------------------------------
(* One slot of one cache of one replica, and what it may hold.             *)

Slots == Replicas \X Kinds \X Users
Values == Infos \cup {NoInfo}
Entries == [ver : Nat, val : Values, live : BOOLEAN]
NoEntry == [ver |-> 0, val |-> NoInfo, live |-> FALSE]
SameCache(s, t) == s[1] = t[1] /\ s[2] = t[2]

(* What the join of the lookup queries returns for a user, given the rows. *)
Joined(uiRows, instRows, u) ==
  IF uiRows[u] = NoInst THEN NoInfo ELSE instRows[uiRows[u]]

Current(u) == Joined(ui, inst, u)

InFlight == {"version", "check", "query", "put"}
BindArgs == [user : Users, inst : Instances, info : Infos,
             oldInfo : Values, oldUi : Instances \cup {NoInst}]

(* locals of a call that is not running *)
NoKey == CHOOSE s \in Slots : TRUE
NoBind == CHOOSE a \in BindArgs : TRUE

Init ==
  /\ version = 1
  /\ inst = [i \in Instances |-> NoInfo]
  /\ ui = [u \in Users |-> NoInst]
  /\ cache = [s \in Slots |-> NoEntry]
  /\ rpc = [t \in Readers |-> "idle"]
  /\ rkey = [t \in Readers |-> NoKey]
  /\ rver = [t \in Readers |-> 0]
  /\ rrow = [t \in Readers |-> NoInfo]
  /\ res = [t \in Readers |-> NoInfo]
  /\ seen = [t \in Readers |-> {}]
  /\ bpc = [b \in Binders |-> "idle"]
  /\ bind = [b \in Binders |-> NoBind]
  /\ reload = [r \in Replicas |-> 0]

-----------------------------------------------------------------------------
(* get_instance_by_identity, get_instance_by_external_id                   *)

(* the call returns v, or raises when v is NoInfo; its locals are gone *)
Return(t, v) ==
  /\ res' = [res EXCEPT ![t] = v]
  /\ rpc' = [rpc EXCEPT ![t] = "done"]
  /\ rver' = [rver EXCEPT ![t] = 0]
  /\ rrow' = [rrow EXCEPT ![t] = NoInfo]
  /\ rkey' = [rkey EXCEPT ![t] = NoKey]

Call(t, s) ==
  /\ rpc[t] \in {"idle", "done"}
  /\ s[1] = Home[t]
  /\ rpc' = [rpc EXCEPT ![t] = "version"]
  /\ rkey' = [rkey EXCEPT ![t] = s]
  /\ seen' = [seen EXCEPT ![t] = {Current(s[3])}]
  /\ UNCHANGED <<dbVars, cache, rver, rrow, res, bindVars, reload>>

(* _cache_version *)
ReadVersion(t) ==
  /\ rpc[t] = "version"
  /\ rver' = [rver EXCEPT ![t] = version]
  /\ rpc' = [rpc EXCEPT ![t] = "check"]
  /\ UNCHANGED <<dbVars, cache, rkey, rrow, res, seen, bindVars, reload>>

(* Mutant: the version check is forgotten. *)
HitsAnyVersion(e, v) == e.live

(* _cache_get finds an entry that has not expired and has the version read *)
Hits(e, v) == e.live /\ e.ver = v

CacheHit(t) ==
  /\ rpc[t] = "check"
  /\ Hits(cache[rkey[t]], rver[t])
  /\ Return(t, cache[rkey[t]].val)
  /\ UNCHANGED <<dbVars, cache, seen, bindVars, reload>>

CacheMiss(t) ==
  /\ rpc[t] = "check"
  /\ ~Hits(cache[rkey[t]], rver[t])
  /\ cache' = [cache EXCEPT ![rkey[t]] = NoEntry]
  /\ rpc' = [rpc EXCEPT ![t] = "query"]
  /\ UNCHANGED <<dbVars, rkey, rver, rrow, res, seen, bindVars, reload>>

(* Mutant: the query selects the uuid of the assignment, not the instance. *)
QueryUuid(t) ==
  /\ rpc[t] = "query"
  /\ rrow' = [rrow EXCEPT ![t] = ui[rkey[t][3]]]
  /\ rpc' = [rpc EXCEPT ![t] = "put"]
  /\ UNCHANGED <<dbVars, cache, rkey, rver, res, seen, bindVars, reload>>

QueryRow(t) ==
  /\ rpc[t] = "query"
  /\ rrow' = [rrow EXCEPT ![t] = Current(rkey[t][3])]
  /\ rpc' = [rpc EXCEPT ![t] = "put"]
  /\ UNCHANGED <<dbVars, cache, rkey, rver, res, seen, bindVars, reload>>

(* InstanceNotFoundError: nothing is cached *)
NotFound(t) ==
  /\ rpc[t] = "put"
  /\ rrow[t] = NoInfo
  /\ Return(t, NoInfo)
  /\ UNCHANGED <<dbVars, cache, seen, bindVars, reload>>

(* _cache_put: a full cache is cleared first, whether or not the key is in it *)
CacheOf(s) == {k \in Slots : SameCache(k, s) /\ cache[k].ver # 0}

(* Mutant: off by one in the test for a full cache. *)
CacheAfterLatePut(s, e) ==
  LET full == Cardinality(CacheOf(s)) > MaxCacheEntries
  IN  [k \in Slots |-> IF k = s THEN e
                       ELSE IF full /\ SameCache(k, s) THEN NoEntry
                       ELSE cache[k]]

CacheAfterPut(s, e) ==
  LET full == Cardinality(CacheOf(s)) >= MaxCacheEntries
  IN  [k \in Slots |-> IF k = s THEN e
                       ELSE IF full /\ SameCache(k, s) THEN NoEntry
                       ELSE cache[k]]

(* Mutant: the entry is tagged with the version read after the row. *)
PutRowVersionedLate(t) ==
  /\ rpc[t] = "put"
  /\ rrow[t] # NoInfo
  /\ cache' = CacheAfterPut(rkey[t], [ver |-> version, val |-> rrow[t], live |-> TRUE])
  /\ Return(t, rrow[t])
  /\ UNCHANGED <<dbVars, seen, bindVars, reload>>

PutRow(t) ==
  /\ rpc[t] = "put"
  /\ rrow[t] # NoInfo
  /\ cache' = CacheAfterPut(rkey[t], [ver |-> rver[t], val |-> rrow[t], live |-> TRUE])
  /\ Return(t, rrow[t])
  /\ UNCHANGED <<dbVars, seen, bindVars, reload>>

(* an entry outlives mapping_cache_ttl_sec *)
Expire(s) ==
  /\ cache[s].live
  /\ cache' = [cache EXCEPT ![s].live = FALSE]
  /\ UNCHANGED <<dbVars, readVars, seen, bindVars, reload>>

-----------------------------------------------------------------------------
(* bind_user_instance                                                      *)

BindReturn(b) ==
  /\ bpc' = [bpc EXCEPT ![b] = "idle"]
  /\ bind' = [bind EXCEPT ![b] = NoBind]

(* the SELECT on instance *)
BindBegin(b, u, i, f) ==
  /\ bpc[b] = "idle"
  /\ bind' = [bind EXCEPT ![b] = [user |-> u, inst |-> i, info |-> f,
                                  oldInfo |-> inst[i], oldUi |-> NoInst]]
  /\ bpc' = [bpc EXCEPT ![b] = "selected"]
  /\ UNCHANGED <<dbVars, cache, readVars, seen, reload>>

(* the SELECTs on app_user and user_instance *)
BindReadUser(b) ==
  /\ bpc[b] = "selected"
  /\ bind' = [bind EXCEPT ![b].oldUi = ui[bind[b].user]]
  /\ bpc' = [bpc EXCEPT ![b] = "flush"]
  /\ UNCHANGED <<dbVars, cache, readVars, seen, reload>>

(* The writes the session emits: an INSERT where the row was absent, an    *)
(* UPDATE addressed by the primary key it had where it differs, nothing    *)
(* where it is equal.  Keys: instance_uuid for both tables, user_id unique *)
InstanceWriteOK(a) == a.oldInfo = NoInfo => inst[a.inst] = NoInfo

(* The user_instance rows the write addresses.  The primary key is what     *)
(* changes, so the UPDATE finds its row by the instance_uuid it had when it *)
(* was read, whoever that uuid is assigned to by now.                      *)
WrittenRows(a) ==
  IF a.oldUi = NoInst THEN {a.user} ELSE {v \in Users : ui[v] = a.oldUi}

(* Mutant: user_instance keyed by user_id, the instance no longer unique. *)
UserInstanceKeyedByUser(a) ==
  \/ a.oldUi = a.inst
  \/ /\ a.oldUi = NoInst => ui[a.user] = NoInst
     /\ WrittenRows(a) # {}

(* no key is there already; an UPDATE of no row is a StaleDataError *)
UserInstanceWriteOK(a) ==
  \/ a.oldUi = a.inst
  \/ /\ a.oldUi = NoInst => ui[a.user] = NoInst
     /\ WrittenRows(a) # {}
     /\ \A v \in Users : ui[v] # a.inst

WriteInstance(a) ==
  IF a.oldInfo = a.info THEN inst ELSE [inst EXCEPT ![a.inst] = a.info]

WriteUserInstance(a) ==
  IF a.oldUi = a.inst THEN ui
  ELSE [v \in Users |-> IF v \in WrittenRows(a) THEN a.inst ELSE ui[v]]

(* Mutant: the version is not bumped in the transaction. *)
NoBump == version

(* _bump_version in the same transaction *)
BumpVersion == version + 1

(* history: a call in flight notes what its user is bound to from now on *)
Observe ==
  seen' = [t \in Readers |-> IF rpc[t] \in InFlight
                             THEN seen[t] \cup {Joined(ui', inst', rkey[t][3])}
                             ELSE seen[t]]

BindCommit(b) ==
  /\ bpc[b] = "flush"
  /\ version < MaxVersion
  /\ InstanceWriteOK(bind[b])
  /\ UserInstanceWriteOK(bind[b])
  /\ inst' = WriteInstance(bind[b])
  /\ ui' = WriteUserInstance(bind[b])
  /\ version' = BumpVersion
  /\ Observe
  /\ bpc' = [bpc EXCEPT ![b] = "committed"]
  /\ UNCHANGED <<cache, readVars, bind, reload>>

(* IntegrityError or StaleDataError: the transaction rolls back and the    *)
(* exception leaves bind_user_instance                                     *)
BindAbort(b) ==
  /\ bpc[b] = "flush"
  /\ ~(InstanceWriteOK(bind[b]) /\ UserInstanceWriteOK(bind[b]))
  /\ BindReturn(b)
  /\ UNCHANGED <<dbVars, cache, readVars, seen, reload>>

(* invalidate_cache, after the commit has returned *)
InvalidateCache(b) ==
  /\ bpc[b] = "committed"
  /\ cache' = [s \in Slots |-> IF s[1] = Home[b] THEN NoEntry ELSE cache[s]]
  /\ BindReturn(b)
  /\ UNCHANGED <<dbVars, readVars, seen, reload>>

-----------------------------------------------------------------------------
(* reload_cache_version: read the version, then sweep                      *)

ReloadRead(r) ==
  /\ reload[r] = 0
  /\ reload' = [reload EXCEPT ![r] = version]
  /\ UNCHANGED <<dbVars, cache, readVars, seen, bindVars>>

ReloadSweep(r) ==
  /\ reload[r] # 0
  /\ cache' = [s \in Slots |-> IF s[1] = r /\ cache[s].ver # reload[r]
                               THEN NoEntry ELSE cache[s]]
  /\ reload' = [reload EXCEPT ![r] = 0]
  /\ UNCHANGED <<dbVars, readVars, seen, bindVars>>

(* A process dies and comes back: caches and calls are gone, rows stay.    *)
Killed(t, r) == rpc[t] \in InFlight /\ Home[t] = r

Restart(r) ==
  /\ cache' = [s \in Slots |-> IF s[1] = r THEN NoEntry ELSE cache[s]]
  /\ rpc' = [t \in Readers |-> IF Killed(t, r) THEN "idle" ELSE rpc[t]]
  /\ rkey' = [t \in Readers |-> IF Killed(t, r) THEN NoKey ELSE rkey[t]]
  /\ rver' = [t \in Readers |-> IF Killed(t, r) THEN 0 ELSE rver[t]]
  /\ rrow' = [t \in Readers |-> IF Killed(t, r) THEN NoInfo ELSE rrow[t]]
  /\ bpc' = [b \in Binders |-> IF Home[b] = r THEN "idle" ELSE bpc[b]]
  /\ bind' = [b \in Binders |-> IF Home[b] = r THEN NoBind ELSE bind[b]]
  /\ reload' = [reload EXCEPT ![r] = 0]
  /\ seen' = [t \in Readers |-> IF Killed(t, r) THEN {} ELSE seen[t]]
  /\ UNCHANGED <<dbVars, res>>

Lookup(t) ==
  \/ \E s \in Slots : Call(t, s)
  \/ ReadVersion(t)
  \/ CacheHit(t)
  \/ CacheMiss(t)
  \/ QueryRow(t)
  \/ NotFound(t)
  \/ PutRow(t)

Bind(b) ==
  \/ \E u \in Users, i \in Instances, f \in Infos : BindBegin(b, u, i, f)
  \/ BindReadUser(b)
  \/ BindCommit(b)
  \/ BindAbort(b)
  \/ InvalidateCache(b)

Next ==
  \/ \E t \in Readers : Lookup(t)
  \/ \E s \in Slots : Expire(s)
  \/ \E b \in Binders : Bind(b)
  \/ \E r \in Replicas : ReloadRead(r) \/ ReloadSweep(r) \/ Restart(r)

Spec == Init /\ [][Next]_vars

-----------------------------------------------------------------------------
(* scripts/onboard_user.sql: an operator assigns an instance with SQL.  It  *)
(* frees the instance and the user first and does not touch mapping_state.  *)
OnboardUser(u, i) ==
  /\ inst[i] # NoInfo
  /\ \A r \in Replicas : reload[r] = 0   \* the script first, then the endpoint
  /\ ui' = [v \in Users |-> IF v = u THEN i
                            ELSE IF ui[v] = i THEN NoInst ELSE ui[v]]
  /\ inst' = inst
  /\ Observe
  /\ UNCHANGED <<version, cache, readVars, bindVars, reload>>

NextWithScript == Next \/ \E u \in Users, i \in Instances : OnboardUser(u, i)

SpecWithScript == Init /\ [][NextWithScript]_vars

-----------------------------------------------------------------------------
(* Every variable has its type. *)
TypeOK ==
  /\ version \in Nat \ {0}
  /\ inst \in [Instances -> Values]
  /\ ui \in [Users -> Instances \cup {NoInst}]
  /\ cache \in [Slots -> Entries]
  /\ rpc \in [Readers -> InFlight \cup {"idle", "done"}]
  /\ rkey \in [Readers -> Slots]
  /\ rver \in [Readers -> Nat]
  /\ rrow \in [Readers -> Values]
  /\ res \in [Readers -> Values]
  /\ seen \in [Readers -> SUBSET Values]
  /\ bpc \in [Binders -> {"idle", "selected", "flush", "committed"}]
  /\ bind \in [Binders -> BindArgs]
  /\ reload \in [Replicas -> Nat]

(* A cache entry that the version check would accept now holds what the    *)
(* database holds now, in every replica: the entry was tagged with the     *)
(* version read BEFORE its row, and every bind bumps the version in its    *)
(* own transaction (mapping.py, _cache_get against bind_user_instance).    *)
CacheCoherent ==
  \A s \in Slots : cache[s].ver = version => cache[s].val = Current(s[3])

(* What a lookup returns, from the cache or from the database, is a        *)
(* binding its user had at some moment of the call: a lookup that starts   *)
(* after a bind has committed, in any replica, never answers with the      *)
(* binding before it (get_instance_by_identity, get_instance_by_external_id). *)
LookupCurrent == \A t \in Readers : rpc[t] = "done" => res[t] \in seen[t]

(* No cache grows beyond _MAX_CACHE_ENTRIES (_cache_put). *)
CacheBounded ==
  \A s \in Slots : Cardinality(CacheOf(s)) <= MaxCacheEntries

(* A user and an instance are in at most one assignment, and an assigned   *)
(* instance has a row, whatever order concurrent binds read and write in   *)
(* (bind_user_instance; models.py, UserInstance).                          *)
OneToOne ==
  /\ \A u, v \in Users : ui[u] = ui[v] /\ ui[u] # NoInst => u = v
  /\ \A u \in Users : ui[u] # NoInst => inst[ui[u]] # NoInfo

(* models.py:173-181: an instance and a user are bound one to one, and "to  *)
(* reassign, DELETE first, then INSERT".  bind_user_instance updates the    *)
(* key instead (mapping.py:444), so what a user should expect is that binds *)
(* of others leave their assignment alone.                                 *)
BindsOwnUser ==
  [][\A b \in Binders : BindCommit(b) =>
        \A v \in Users \ {bind[b].user} : ui'[v] = ui[v]]_vars

(* docs/architecture.md: after direct external edits a replica's caches    *)
(* are "bustable via POST /api/v1/mappings/reload": what the sweep leaves  *)
(* in the replica's caches is what the database holds.                     *)
ReloadBusts ==
  [][\A r \in Replicas : ReloadSweep(r) /\ reload[r] = version =>
        \A s \in Slots : s[1] = r /\ cache'[s].live =>
                              cache'[s].val = Current(s[3])]_vars

-----------------------------------------------------------------------------
(* The lookups implement a regular register per user: see BindingRegister. *)
Register == INSTANCE BindingRegister WITH
  binding <- [u \in Users |-> Current(u)],
  call <- [t \in Readers |-> IF rpc[t] \in InFlight THEN rkey[t][3] ELSE NoInst],
  window <- seen, answer <- res, Idle <- NoInst

RefinesRegister == Register!Spec
=============================================================================

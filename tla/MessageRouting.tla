--------------------------- MODULE MessageRouting ---------------------------
(***************************************************************************)
(* One replica's handle_event (src/router.py) from the mapping to the      *)
(* instance: the cached info of the connection pool or a lookup, automatic *)
(* provisioning (src/services/provisioner.py), the attachments' directory  *)
(* (src/services/file_manager.py) and a send with its retry over the pool  *)
(* (src/services/ws_manager.py).                                           *)
(*                                                                         *)
(* It composes components modelled in detail elsewhere.  The mapping is    *)
(* seen as BindingRegister, which MappingStorage implements: a lookup      *)
(* answers with a binding its user has had since it began.  The pool is    *)
(* WSConnectionManager seen from outside, one entry per user; its locks    *)
(* are left out, for the cleanup loop pops them: two calls of one user may *)
(* connect or send at once.                                                *)
(***************************************************************************)
EXTENDS Naturals

CONSTANTS
  Users,
  Instances,         \* OpenClaw instances; an InstanceInfo names one
  Jobs,              \* handle_event calls; one that has ended is used again
  AutoProvisioning,  \* settings.enable_auto_provisioning
  MaxRebinds,        \* bound on the binds of other replicas
  NoUser,
  NoInst

ASSUME NoUserAssumption == NoUser \notin Users
ASSUME NoInstAssumption == NoInst \notin Instances
ASSUME RowsAssumption == Users \cap Instances = {}
ASSUME FlagAssumption == AutoProvisioning \in BOOLEAN
ASSUME MaxRebindsAssumption == MaxRebinds \in Nat

VARIABLES
  binding,     \* user_instance: the instance of each user
  rows,        \* app_user and instance rows
  perUser,     \* external: does the orchestrator keep one instance per user?
  owner,       \* external: the user each instance was created for
  rebinds,     \* binds of other replicas so far
  pool,        \* _user_info[user], and whether _clients[user] is connected
  job,         \* the locals of each call
  entry,       \* history: bindings since the call began that made the pool's entry
  since,       \* history: bindings since the call, or an entry it used, began
  used         \* history: instances that have accepted a message

Bindings == Instances \cup {NoInst}

orchestratorVars == <<perUser, owner>>
history == <<entry, since, used>>
vars == <<binding, rows, orchestratorVars, rebinds, pool, job, history>>

NoConnection == [info |-> NoInst, up |-> FALSE]

NewJob == [pc |-> "idle", user |-> NoUser, info |-> NoInst,
           read |-> {}, old |-> NoInst,    \* what bind_user_instance has read
           client |-> NoInst, attempt |-> 1,
           accepted |-> {}]                \* history: where the message arrived

Init ==
  /\ binding = [u \in Users |-> NoInst]
  /\ rows = {}
  /\ perUser \in BOOLEAN
  /\ owner = [i \in Instances |-> NoUser]
  /\ rebinds = 0
  /\ pool = [u \in Users |-> NoConnection]
  /\ job = [j \in Jobs |-> NewJob]
  /\ entry = [u \in Users |-> {}]
  /\ since = [j \in Jobs |-> {}]
  /\ used = {}

-----------------------------------------------------------------------------
(* handle_event as far as the instance: _user_info, else the mapping.      *)

At(j, pc) == job[j].pc = pc
Pooled(u) == pool[u].info # NoInst

(* the handler returns, or raises *)
End(j) ==
  /\ job' = [job EXCEPT ![j] = NewJob]
  /\ since' = [since EXCEPT ![j] = {}]
  /\ UNCHANGED <<entry, used>>

(* get_cached_info has an entry, whether or not its connection is alive *)
ReceivePooled(j, u) ==
  /\ At(j, "idle") /\ Pooled(u)
  /\ job' = [job EXCEPT ![j].pc = "files", ![j].user = u, ![j].info = pool[u].info]
  /\ since' = [since EXCEPT ![j] = entry[u]]
  /\ UNCHANGED <<binding, rows, orchestratorVars, rebinds, pool, entry, used>>

ReceiveUnpooled(j, u) ==
  /\ At(j, "idle") /\ ~Pooled(u)
  /\ job' = [job EXCEPT ![j].pc = "lookup", ![j].user = u]
  /\ since' = [since EXCEPT ![j] = {binding[u]}]
  /\ UNCHANGED <<binding, rows, orchestratorVars, rebinds, pool, entry, used>>

(* Mutant: a lookup may answer with what was true at any time before. *)
LookupFindsStale(j) ==
  /\ At(j, "lookup")
  /\ \E i \in (since[j] \cup used) \ {NoInst} :
       job' = [job EXCEPT ![j].pc = "files", ![j].info = i]
  /\ UNCHANGED <<binding, rows, orchestratorVars, rebinds, pool, history>>

LookupFinds(j) ==
  /\ At(j, "lookup")
  /\ \E i \in since[j] \ {NoInst} :
       job' = [job EXCEPT ![j].pc = "files", ![j].info = i]
  /\ UNCHANGED <<binding, rows, orchestratorVars, rebinds, pool, history>>

(* InstanceNotFoundError: provision one, or answer that there is none *)
LookupFindsNone(j) ==
  /\ At(j, "lookup")
  /\ NoInst \in since[j]
  /\ IF AutoProvisioning
        THEN job' = [job EXCEPT ![j].pc = "provision"] /\ UNCHANGED history
        ELSE End(j)
  /\ UNCHANGED <<binding, rows, orchestratorVars, rebinds, pool>>

(* the database fails, or the info of an attachment is malformed: the       *)
(* exception leaves handle_event                                           *)
Raises(j) ==
  /\ At(j, "lookup") \/ At(j, "files")
  /\ End(j)
  /\ UNCHANGED <<binding, rows, orchestratorVars, rebinds, pool>>

-----------------------------------------------------------------------------
(* provision_instance                                                      *)

(* Mutant: the binding is committed before the workspace is seeded. *)
BindThenSeed == [provision |-> "instance", commit |-> "seed", seed |-> "files"]

(* where a call goes on after the webhook, the template and the bind *)
Follows == [provision |-> "seed", seed |-> "instance", commit |-> "files"]

(* external: the instances an orchestrator may hand out for a user *)
Offers(u) ==
  LET own == {i \in Instances : owner[i] = u}
  IN  IF perUser /\ own # {} THEN own ELSE {i \in Instances : owner[i] = NoUser}

(* _provision_webhook or _provision_mock: a valid target comes back *)
Provision(j) ==
  /\ At(j, "provision")
  /\ \E i \in Offers(job[j].user) :
       /\ owner' = [owner EXCEPT ![i] = job[j].user]
       /\ job' = [job EXCEPT ![j].pc = Follows["provision"], ![j].info = i]
  /\ UNCHANGED <<binding, rows, perUser, rebinds, pool, history>>

(* _seed_workspace_template, unless the orchestrator has done it; whatever *)
(* goes wrong is logged                                                    *)
Seed(j) ==
  /\ At(j, "seed")
  /\ job' = [job EXCEPT ![j].pc = Follows["seed"]]
  /\ UNCHANGED <<binding, rows, orchestratorVars, rebinds, pool, history>>

(* bind_user_instance: the SELECT on instance *)
BindReadInstance(j) ==
  /\ At(j, "instance")
  /\ job' = [job EXCEPT ![j].pc = "user", ![j].read = rows \cap {job[j].info}]
  /\ UNCHANGED <<binding, rows, orchestratorVars, rebinds, pool, history>>

(* the SELECTs on app_user and user_instance *)
BindReadUser(j) ==
  LET u == job[j].user
  IN  /\ At(j, "user")
      /\ job' = [job EXCEPT ![j].pc = "commit", ![j].read = @ \cup (rows \cap {u}),
                             ![j].old = binding[u]]
      /\ UNCHANGED <<binding, rows, orchestratorVars, rebinds, pool, history>>

(* no INSERT of a row that another bind has inserted, no UPDATE of a row    *)
(* another bind has moved (the unique keys; StaleDataError).  The UPDATE    *)
(* finds the row by its old instance: an instance has one owner, so that    *)
(* row is u's or nobody's, which MappingStorage does not assume.            *)
BindOK(j) ==
  LET u == job[j].user
      i == job[j].info
  IN  /\ rows \cap {u, i} \subseteq job[j].read
      /\ \/ job[j].old = i
         \/ binding[u] = job[j].old /\ \A v \in Users \ {u} : binding[v] # i

(* history: u's calls and u's entry in the pool see the new binding *)
Observe(u) ==
  /\ since' = [k \in Jobs |-> IF job[k].user = u THEN since[k] \cup {binding'[u]}
                                                 ELSE since[k]]
  /\ entry' = [entry EXCEPT ![u] = IF Pooled(u) THEN @ \cup {binding'[u]} ELSE {}]
  /\ UNCHANGED used

(* user_instance, app_user and instance change in one transaction *)
Assign(u, i) ==
  /\ binding' = [binding EXCEPT ![u] = i]
  /\ rows' = rows \cup {u, i}
  /\ Observe(u)

BindCommit(j) ==
  LET u == job[j].user
      i == job[j].info
  IN  /\ At(j, "commit") /\ BindOK(j)
      /\ Assign(u, IF job[j].old = i THEN binding[u] ELSE i)
      /\ job' = [job EXCEPT ![j].pc = Follows["commit"], ![j].read = {}, ![j].old = NoInst]
      /\ UNCHANGED <<orchestratorVars, rebinds, pool>>

(* Mutant: a bind that fails is only logged. *)
RouteAnyway(j) ==
  /\ job[j].pc \in {"provision", "instance", "user", "commit"}
  /\ job' = [job EXCEPT ![j].pc = IF At(j, "commit") THEN "files" ELSE "idle"]
  /\ UNCHANGED <<binding, rows, orchestratorVars, rebinds, pool, history>>

(* the webhook fails, times out or hands out something invalid, the bind    *)
(* fails: the user is told so, or Dify answers                             *)
ProvisioningFails(j) ==
  /\ job[j].pc \in {"provision", "instance", "user", "commit"}
  /\ End(j)
  /\ UNCHANGED <<binding, rows, orchestratorVars, rebinds, pool>>

-----------------------------------------------------------------------------
(* handle_event from the instance on: attachments and send_message.        *)

(* download_attachments into the workspace of info, if there are any *)
SaveFiles(j) ==
  /\ At(j, "files")
  /\ job' = [job EXCEPT ![j].pc = "send"]
  /\ UNCHANGED <<binding, rows, orchestratorVars, rebinds, pool, history>>

(* get_or_create: a live connection is used, whatever info it was made for *)
ReuseConnection(j) ==
  LET u == job[j].user
  IN  /\ At(j, "send") /\ pool[u].up
      /\ job' = [job EXCEPT ![j].pc = "await", ![j].client = pool[u].info]
      /\ since' = [since EXCEPT ![j] = @ \cup entry[u]]
      /\ UNCHANGED <<binding, rows, orchestratorVars, rebinds, pool, entry, used>>

StartConnecting(j) ==
  /\ At(j, "send") /\ ~pool[job[j].user].up
  /\ job' = [job EXCEPT ![j].pc = "connect"]
  /\ UNCHANGED <<binding, rows, orchestratorVars, rebinds, pool, history>>

Connected(j) ==
  LET u == job[j].user
  IN  /\ At(j, "connect")
      /\ pool' = [pool EXCEPT ![u] = [info |-> job[j].info, up |-> TRUE]]
      /\ entry' = [entry EXCEPT ![u] = since[j]]
      /\ job' = [job EXCEPT ![j].pc = "await", ![j].client = job[j].info]
      /\ UNCHANGED <<binding, rows, orchestratorVars, rebinds, since, used>>

(* _connect_with_retry gives up: an error reply; an old entry stays *)
ConnectFails(j) ==
  /\ At(j, "connect")
  /\ End(j)
  /\ UNCHANGED <<binding, rows, orchestratorVars, rebinds, pool>>

(* external: the instance accepts the message; one that has seen its        *)
(* idempotencyKey before does not process it again                         *)
Accept(j) ==
  /\ At(j, "await") /\ job[j].client \notin job[j].accepted
  /\ job' = [job EXCEPT ![j].accepted = @ \cup {job[j].client}]
  /\ used' = used \cup {job[j].client}
  /\ UNCHANGED <<binding, rows, orchestratorVars, rebinds, pool, entry, since>>

(* the answer, or the text of the client's timeout, is delivered *)
Answered(j) ==
  /\ At(j, "await")
  /\ End(j)
  /\ UNCHANGED <<binding, rows, orchestratorVars, rebinds, pool>>

(* Mutant: every failure is retried. *)
RetryAgain(j) ==
  /\ At(j, "await")
  /\ job' = [job EXCEPT ![j].pc = "send", ![j].client = NoInst, ![j].attempt = @ + 1]
  /\ UNCHANGED <<binding, rows, orchestratorVars, rebinds, pool, history>>

(* Mutant: failures are not counted. *)
RetryForever(j) ==
  LET u == job[j].user
  IN  /\ At(j, "await")
      /\ pool' \in {pool, [pool EXCEPT ![u].up = FALSE]}
      /\ job' = [job EXCEPT ![j].pc = "send", ![j].client = NoInst]
      /\ UNCHANGED <<binding, rows, orchestratorVars, rebinds, history>>

(* the connection of the call is lost: it is closed and one more is tried.  *)
(* The pool may hold another one by then, of the guardian or another call. *)
SendFails(j) ==
  LET u == job[j].user
  IN  /\ At(j, "await")
      /\ pool' \in {pool, [pool EXCEPT ![u].up = FALSE]}
      /\ IF job[j].attempt = 1
            THEN /\ job' = [job EXCEPT ![j].pc = "send", ![j].client = NoInst,
                                       ![j].attempt = 2]
                 /\ UNCHANGED history
            ELSE End(j)
      /\ UNCHANGED <<binding, rows, orchestratorVars, rebinds>>

-----------------------------------------------------------------------------
(* The pool beside the calls, and the rest of the world.                   *)

LoseConnection(u) ==
  /\ pool[u].up
  /\ pool' = [pool EXCEPT ![u].up = FALSE]
  /\ UNCHANGED <<binding, rows, orchestratorVars, rebinds, job, history>>

(* _guardian_loop: with the info of the entry *)
GuardianReconnects(u) ==
  /\ Pooled(u) /\ ~pool[u].up
  /\ pool' = [pool EXCEPT ![u].up = TRUE]
  /\ UNCHANGED <<binding, rows, orchestratorVars, rebinds, job, history>>

(* Mutant: the client is removed, its info is not. *)
CloseClientOnly(u) ==
  /\ Pooled(u)
  /\ pool' = [pool EXCEPT ![u].up = FALSE]
  /\ entry' = [entry EXCEPT ![u] = {binding[u]}]
  /\ UNCHANGED <<binding, rows, orchestratorVars, rebinds, job, since, used>>

(* close_connection, called by the cleanup loop; calls that began long ago  *)
(* may still run                                                           *)
CloseIdle(u) ==
  /\ Pooled(u)
  /\ pool' = [pool EXCEPT ![u] = NoConnection]
  /\ entry' = [entry EXCEPT ![u] = {}]
  /\ UNCHANGED <<binding, rows, orchestratorVars, rebinds, job, since, used>>

(* external: a bind that another replica commits *)
Rebind(u) ==
  /\ rebinds < MaxRebinds
  /\ \E i \in Offers(u) :
       /\ binding[u] # i
       /\ Assign(u, i)
       /\ owner' = [owner EXCEPT ![i] = u]
  /\ rebinds' = rebinds + 1
  /\ UNCHANGED <<perUser, pool, job>>

(* the replica dies and starts again *)
Restart ==
  /\ pool' = [u \in Users |-> NoConnection]
  /\ job' = [j \in Jobs |-> NewJob]
  /\ entry' = [u \in Users |-> {}]
  /\ since' = [j \in Jobs |-> {}]
  /\ UNCHANGED <<binding, rows, orchestratorVars, rebinds, used>>

Handle(j) ==
  \/ LookupFinds(j) \/ LookupFindsNone(j) \/ Raises(j)
  \/ Provision(j) \/ Seed(j)
  \/ BindReadInstance(j) \/ BindReadUser(j) \/ BindCommit(j)
  \/ ProvisioningFails(j)
  \/ SaveFiles(j)
  \/ ReuseConnection(j) \/ StartConnecting(j) \/ Connected(j) \/ ConnectFails(j)
  \/ Answered(j) \/ SendFails(j)

Next ==
  \/ \E j \in Jobs :
       \/ \E u \in Users : ReceivePooled(j, u) \/ ReceiveUnpooled(j, u)
       \/ Handle(j)
       \/ Accept(j)
  \/ \E u \in Users :
       \/ LoseConnection(u) \/ GuardianReconnects(u) \/ CloseIdle(u)
       \/ Rebind(u)
  \/ Restart

(* Every await of a handler ends: the statements, the webhook, the connect  *)
(* and the wait for the answer have timeouts, the client's calls return.    *)
Fairness == \A j \in Jobs : WF_vars(Handle(j))

Spec == Init /\ [][Next]_vars /\ Fairness

-----------------------------------------------------------------------------
Pcs == {"idle", "lookup", "provision", "seed", "instance", "user", "commit",
        "files", "send", "connect", "await"}

(* Every variable has its type. *)
TypeOK ==
  /\ binding \in [Users -> Bindings]
  /\ rows \subseteq Users \cup Instances
  /\ perUser \in BOOLEAN
  /\ owner \in [Instances -> Users \cup {NoUser}]
  /\ rebinds \in 0..MaxRebinds
  /\ pool \in [Users -> [info : Bindings, up : BOOLEAN]]
  /\ job \in [Jobs -> [pc : Pcs, user : Users \cup {NoUser}, info : Bindings,
                       read : SUBSET (Users \cup Instances), old : Bindings,
                       client : Bindings, attempt : 1..2,
                       accepted : SUBSET Instances]]
  /\ entry \in [Users -> SUBSET Bindings]
  /\ since \in [Jobs -> SUBSET Bindings]
  /\ used \subseteq Instances

Routed == {"files", "send", "connect", "await"}

(* The instances j has sent its message to, or holds its files. *)
Reached(j) == job[j].accepted \cup (IF job[j].pc \in Routed THEN {job[j].info} ELSE {})

(* A message and its files reach only instances its user was bound to since *)
(* the call began, or since the call began that made the entry of the pool  *)
(* it used: an old binding lives on in a connection (get_cached_info, the   *)
(* reuse of a live client, the retry, the guardian) and ends with it, and a *)
(* bind that fails sends nothing (handle_event, get_or_create,              *)
(* close_connection).                                                      *)
FreshOrPooled == \A j \in Jobs : Reached(j) \subseteq since[j]

(* With an orchestrator that never hands out an instance twice, the         *)
(* template is written before any message reaches the workspace: it cannot  *)
(* overwrite what an agent has made of its files (provision_instance seeds  *)
(* before bind_user_instance publishes the instance to other calls).        *)
SeedBeforeUse ==
  [][~perUser => \A j \in Jobs : Seed(j) => job[j].info \notin used]_vars

(* Every call of handle_event ends, whatever fails on its way. *)
Handled == \A j \in Jobs : ~At(j, "idle") ~> At(j, "idle")

(* If the connection of every user is closed again and again while none of *)
(* their calls runs (they rest longer than ws_idle_timeout_sec), then once  *)
(* bindings have stopped changing all messages go to the current one: the  *)
(* old one does not survive, although a call that took it from one entry   *)
(* of the pool may put it into the next (get_cached_info, close_connection). *)
Rested(u) == ~Pooled(u) /\ \A j \in Jobs : job[j].user # u

RebindTakesEffect ==
  (\A u \in Users : []<>Rested(u)) =>
    <>[](\A j \in Jobs : \A i \in job[j].accepted : i = binding[job[j].user])

(* ws_manager.py:236-238: the retry reuses the idempotencyKey, so a          *)
(* disconnect "cannot cause duplicate processing".                          *)
ProcessedOnce ==
  \A j \in Jobs : \A a, b \in job[j].accepted : a = b

(* The files of a message are where its instance looks for them: it is      *)
(* processed by the instance whose workspace they were saved to.            *)
FilesWithMessage ==
  \A j \in Jobs : job[j].accepted \subseteq {job[j].info}

(* docs/architecture.md:34-36: stale entries "are reloaded in any replica    *)
(* immediately", so a message follows the binding its user has now.         *)
RebindSeen ==
  [][\A j \in Jobs, u \in Users : ReceivePooled(j, u) => pool[u].info = binding[u]]_vars

(* Every instance the database knows belongs to somebody: two first         *)
(* messages of one user leave no provisioned instance over.                 *)
NoOrphan ==
  \A i \in Instances : i \in rows => \E u \in Users : binding[u] = i

(* "Copy default workspace template files" (_seed_workspace_template) is for *)
(* a new workspace: the template is never written into one in use.          *)
SeedOnce == [][\A j \in Jobs : Seed(j) => job[j].info \notin used]_vars
=============================================================================

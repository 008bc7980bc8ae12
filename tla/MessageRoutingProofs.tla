------------------------- MODULE MessageRoutingProofs -------------------------
(***************************************************************************)
(* Proofs about MessageRouting, for every number of users, instances,      *)
(* concurrent calls and binds of other replicas: type correctness, the     *)
(* bound on which instances a message and its files can reach, and the     *)
(* template's being written before any message.                            *)
(***************************************************************************)
EXTENDS MessageRouting, TLAPS

-----------------------------------------------------------------------------
(* Types.                                                                  *)

Chain == {"seed", "instance", "user", "commit"}

(* A call in progress has a user, and from the instance on an instance. *)
LocalsSet ==
  \A j \in Jobs :
    /\ job[j].pc # "idle" => job[j].user \in Users
    /\ job[j].pc \in Chain \cup Routed => job[j].info \in Instances
    /\ job[j].pc = "await" => job[j].client \in Instances

(* A connection is one to the instance of its entry. *)
EntrySet == \A u \in Users : pool[u].up => Pooled(u)

(* Nobody loses a binding: a call that has read one commits over one. *)
Bound ==
  \A j \in Jobs : job[j].pc = "commit" /\ job[j].old # NoInst
                    => binding[job[j].user] # NoInst

TypeInv == TypeOK /\ LocalsSet /\ EntrySet

Job == [pc : Pcs, user : Users \cup {NoUser}, info : Bindings,
        read : SUBSET (Users \cup Instances), old : Bindings,
        client : Bindings, attempt : 1..2, accepted : SUBSET Instances]

(* A step of one call keeps the locals of the others. *)
LEMMA JobStep ==
  ASSUME TypeInv, NEW j \in Jobs, NEW x \in Job, job' = [job EXCEPT ![j] = x],
         x.pc # "idle" => x.user \in Users,
         x.pc \in Chain \cup Routed => x.info \in Instances,
         x.pc = "await" => x.client \in Instances
  PROVE  job' \in [Jobs -> Job] /\ LocalsSet'
BY DEF TypeInv, TypeOK, Job, LocalsSet

(* The locals of a call that is not running have their types. *)
LEMMA NewJobType == NewJob \in Job /\ NewJob.pc = "idle" /\ NewJob.accepted = {}
BY DEF NewJob, Job, Pcs, Bindings

(* A call that ends leaves new locals. *)
LEMMA EndStep ==
  ASSUME TypeInv, NEW j \in Jobs, End(j)
  PROVE  /\ job' \in [Jobs -> Job] /\ LocalsSet'
         /\ since' \in [Jobs -> SUBSET Bindings]
         /\ UNCHANGED <<entry, used>>
<1>1. job' \in [Jobs -> Job] /\ LocalsSet'
  BY NewJobType, JobStep DEF End, Chain, Routed
<1> QED
  BY <1>1 DEF End, TypeInv, TypeOK

(* A bind, of this replica or another, keeps the types of what it changes. *)
LEMMA AssignType ==
  ASSUME TypeInv, NEW u \in Users, NEW i \in Bindings, Assign(u, i)
  PROVE  /\ binding' \in [Users -> Bindings]
         /\ since' \in [Jobs -> SUBSET Bindings]
         /\ entry' \in [Users -> SUBSET Bindings]
         /\ used' = used
BY DEF Assign, Observe, TypeInv, TypeOK

(* The initial states satisfy the invariant. *)
LEMMA InitTypes == Init => TypeInv
<1> SUFFICES ASSUME Init PROVE TypeInv
  OBVIOUS
<1>1. TypeOK
  BY NewJobType, MaxRebindsAssumption DEF Init, TypeOK, NoConnection, Bindings, Job
<1>2. LocalsSet /\ EntrySet
  BY NewJobType DEF Init, LocalsSet, EntrySet, NoConnection, Chain, Routed
<1> QED
  BY <1>1, <1>2 DEF TypeInv

(* Every step of a call keeps the types. *)
LEMMA HandleTypes ==
  ASSUME TypeInv, Bound, NEW j \in Jobs, Handle(j)
  PROVE  TypeInv'
<1>t. /\ job \in [Jobs -> Job] /\ job[j] \in Job
      /\ TypeOK /\ LocalsSet /\ EntrySet
  BY DEF TypeInv, TypeOK, Job
<1>s. /\ since \in [Jobs -> SUBSET Bindings] /\ entry \in [Users -> SUBSET Bindings]
      /\ pool \in [Users -> [info : Bindings, up : BOOLEAN]]
      /\ used \subseteq Instances
  BY DEF TypeInv, TypeOK
<1>u. /\ job[j].pc # "idle" => job[j].user \in Users
      /\ job[j].pc \in Chain \cup Routed => job[j].info \in Instances
  BY <1>t DEF LocalsSet
<1> USE <1>t, <1>s
<1>1. CASE LookupFinds(j)
  <2>0. PICK i \in since[j] \ {NoInst} :
          job' = [job EXCEPT ![j] = [job[j] EXCEPT !.pc = "files", !.info = i]]
    BY <1>1 DEF LookupFinds
  <2>1. job' \in [Jobs -> Job] /\ LocalsSet'
    <3> DEFINE x == [job[j] EXCEPT !.pc = "files", !.info = i]
    <3>1. i \in Instances
      BY DEF Bindings
    <3>2. x \in Job /\ x.pc = "files" /\ x.info = i /\ x.user = job[j].user
      BY <3>1 DEF Job, Pcs, Bindings
    <3> QED
      BY <1>1, <1>u, <2>0, <3>1, <3>2, JobStep DEF LookupFinds, At
  <2> QED
    BY <1>1, <2>1 DEF LookupFinds, TypeInv, TypeOK, Job, EntrySet, Pooled, history,
                    orchestratorVars
<1>2. CASE LookupFindsNone(j)
  <2>1. CASE End(j)
    <3>1. job' \in [Jobs -> Job] /\ LocalsSet' /\ since' \in [Jobs -> SUBSET Bindings]
          /\ UNCHANGED <<entry, used>>
      BY <2>1, EndStep
    <3> QED
      BY <1>2, <3>1 DEF LookupFindsNone, TypeInv, TypeOK, Job, EntrySet, Pooled, orchestratorVars
  <2>2. CASE job' = [job EXCEPT ![j].pc = "provision"] /\ UNCHANGED history
    <3>1. job' \in [Jobs -> Job] /\ LocalsSet'
      BY <1>2, <2>2 DEF LookupFindsNone, LocalsSet, At, Chain, Routed, Job, Pcs
    <3> QED
      BY <1>2, <2>2, <3>1 DEF LookupFindsNone, TypeInv, TypeOK, Job, EntrySet, Pooled, history,
                              orchestratorVars
  <2> QED
    BY <1>2, <2>1, <2>2 DEF LookupFindsNone
<1>3. CASE Raises(j)
  <2>1. job' \in [Jobs -> Job] /\ LocalsSet' /\ since' \in [Jobs -> SUBSET Bindings]
        /\ UNCHANGED <<entry, used>>
    BY <1>3, EndStep DEF Raises
  <2> QED
    BY <1>3, <2>1 DEF Raises, TypeInv, TypeOK, Job, EntrySet, Pooled, history,
                    orchestratorVars
<1>4. CASE Provision(j)
  <2>0. PICK i \in Instances :
          /\ owner' = [owner EXCEPT ![i] = job[j].user]
          /\ job' = [job EXCEPT ![j] = [job[j] EXCEPT !.pc = "seed", !.info = i]]
    BY <1>4 DEF Provision, Offers, Follows
  <2>1. job' \in [Jobs -> Job] /\ LocalsSet'
    <3> DEFINE x == [job[j] EXCEPT !.pc = "seed", !.info = i]
    <3>1. x \in Job /\ x.pc = "seed" /\ x.info = i /\ x.user = job[j].user
      BY DEF Job, Pcs, Bindings
    <3> QED
      BY <1>4, <1>u, <2>0, <3>1, JobStep DEF Provision, At
  <2>2. owner' \in [Instances -> Users \cup {NoUser}]
    BY <2>0 DEF TypeOK, Job
  <2> QED
    BY <1>4, <2>1, <2>2 DEF Provision, TypeInv, TypeOK, Job, EntrySet, Pooled, history
<1>5. CASE Seed(j)
  <2>1. job' \in [Jobs -> Job] /\ LocalsSet'
    BY <1>5 DEF Seed, LocalsSet, At, Chain, Routed, Job, Pcs, Follows, Bindings
  <2> QED
    BY <1>5, <2>1 DEF Seed, TypeInv, TypeOK, Job, EntrySet, Pooled, history,
                    orchestratorVars
<1>6. CASE BindReadInstance(j)
  <2>1. job' \in [Jobs -> Job] /\ LocalsSet'
    <3> DEFINE x == [job[j] EXCEPT !.pc = "user", !.read = rows \cap {job[j].info}]
    <3>1. x \in Job /\ x.pc = "user" /\ x.info = job[j].info /\ x.user = job[j].user
      BY DEF Job, Pcs, TypeOK
    <3>2. job' = [job EXCEPT ![j] = x]
      BY <1>6 DEF BindReadInstance
    <3> QED
      BY <1>6, <1>u, <3>1, <3>2, JobStep DEF BindReadInstance, At, Chain
  <2> QED
    BY <1>6, <2>1 DEF BindReadInstance, TypeInv, TypeOK, Job, EntrySet, Pooled, history,
                    orchestratorVars
<1>7. CASE BindReadUser(j)
  <2>1. job' \in [Jobs -> Job] /\ LocalsSet'
    <3> DEFINE x == [job[j] EXCEPT !.pc = "commit",
                                   !.read = @ \cup (rows \cap {job[j].user}),
                                   !.old = binding[job[j].user]]
    <3>1. x \in Job /\ x.pc = "commit" /\ x.info = job[j].info /\ x.user = job[j].user
      BY <1>7, <1>u DEF Job, Pcs, TypeOK, BindReadUser, At
    <3>2. job' = [job EXCEPT ![j] = x]
      BY <1>7 DEF BindReadUser
    <3> QED
      BY <1>7, <1>u, <3>1, <3>2, JobStep DEF BindReadUser, At, Chain
  <2> QED
    BY <1>7, <2>1 DEF BindReadUser, TypeInv, TypeOK, Job, EntrySet, Pooled, history,
                    orchestratorVars
<1>8. CASE BindCommit(j)
  <2>1. job' \in [Jobs -> Job] /\ LocalsSet'
    BY <1>8 DEF BindCommit, LocalsSet, At, Chain, Routed, Job, Pcs, Follows, Bindings
  <2> DEFINE u == job[j].user
             i == IF job[j].old = job[j].info THEN binding[u] ELSE job[j].info
  <2>2. u \in Users /\ i \in Instances
    BY <1>8, <1>u, NoInstAssumption DEF BindCommit, At, Chain, TypeOK, Job, Bindings, Bound
  <2>a. Assign(u, i)
    BY <1>8 DEF BindCommit
  <2> HIDE DEF u, i
  <2>3. /\ binding' \in [Users -> Bindings]
        /\ since' \in [Jobs -> SUBSET Bindings]
        /\ entry' \in [Users -> SUBSET Bindings]
        /\ used' = used
    BY <2>2, <2>a, AssignType DEF Bindings
  <2>4. rows' \subseteq Users \cup Instances
    BY <2>2, <2>a DEF Assign, TypeOK
  <2> QED
    BY <1>8, <2>1, <2>3, <2>4 DEF BindCommit, TypeInv, TypeOK, Job, EntrySet, Pooled,
                                  orchestratorVars
<1>9. CASE ProvisioningFails(j)
  <2>1. job' \in [Jobs -> Job] /\ LocalsSet' /\ since' \in [Jobs -> SUBSET Bindings]
        /\ UNCHANGED <<entry, used>>
    BY <1>9, EndStep DEF ProvisioningFails
  <2> QED
    BY <1>9, <2>1 DEF ProvisioningFails, TypeInv, TypeOK, Job, EntrySet, Pooled, history,
                    orchestratorVars
<1>10. CASE SaveFiles(j)
  <2>1. job' \in [Jobs -> Job] /\ LocalsSet'
    BY <1>10 DEF SaveFiles, LocalsSet, At, Chain, Routed, Job, Pcs, Follows, Bindings
  <2> QED
    BY <1>10, <2>1 DEF SaveFiles, TypeInv, TypeOK, Job, EntrySet, Pooled, history,
                    orchestratorVars
<1>11. CASE ReuseConnection(j)
  <2>0. job[j].user \in Users /\ pool[job[j].user].info \in Instances
    BY <1>11, <1>u DEF ReuseConnection, At, EntrySet, Pooled, Bindings
  <2>1. job' \in [Jobs -> Job] /\ LocalsSet'
    <3> DEFINE x == [job[j] EXCEPT !.pc = "await", !.client = pool[job[j].user].info]
    <3>1. /\ x \in Job /\ x.pc = "await" /\ x.info = job[j].info /\ x.user = job[j].user
          /\ x.client \in Instances
      BY <2>0 DEF Job, Pcs, Bindings
    <3>2. job' = [job EXCEPT ![j] = x]
      BY <1>11 DEF ReuseConnection
    <3> QED
      BY <1>11, <1>u, <3>1, <3>2, JobStep DEF ReuseConnection, At, Routed
  <2>2. since' \in [Jobs -> SUBSET Bindings]
    BY <1>11, <2>0 DEF ReuseConnection
  <2> QED
    BY <1>11, <2>1, <2>2 DEF ReuseConnection, TypeInv, TypeOK, Job, EntrySet, Pooled,
                             orchestratorVars
<1>12. CASE StartConnecting(j)
  <2>1. job' \in [Jobs -> Job] /\ LocalsSet'
    BY <1>12 DEF StartConnecting, LocalsSet, At, Chain, Routed, Job, Pcs, Follows, Bindings
  <2> QED
    BY <1>12, <2>1 DEF StartConnecting, TypeInv, TypeOK, Job, EntrySet, Pooled, history,
                    orchestratorVars
<1>13. CASE Connected(j)
  <2>1. job' \in [Jobs -> Job] /\ LocalsSet'
    BY <1>13 DEF Connected, LocalsSet, At, Chain, Routed, Job, Pcs, Bindings
  <2>2. job[j].user \in Users /\ job[j].info \in Instances
    BY <1>13, <1>u DEF Connected, At, Routed
  <2>3. /\ pool' \in [Users -> [info : Bindings, up : BOOLEAN]] /\ EntrySet'
        /\ entry' \in [Users -> SUBSET Bindings]
    BY <1>13, <2>2, NoInstAssumption DEF Connected, EntrySet, Pooled, Bindings
  <2> QED
    BY <1>13, <2>1, <2>3 DEF Connected, TypeInv, TypeOK, Job, orchestratorVars
<1>14. CASE ConnectFails(j)
  <2>1. job' \in [Jobs -> Job] /\ LocalsSet' /\ since' \in [Jobs -> SUBSET Bindings]
        /\ UNCHANGED <<entry, used>>
    BY <1>14, EndStep DEF ConnectFails
  <2> QED
    BY <1>14, <2>1 DEF ConnectFails, TypeInv, TypeOK, Job, EntrySet, Pooled, history,
                    orchestratorVars
<1>15. CASE Answered(j)
  <2>1. job' \in [Jobs -> Job] /\ LocalsSet' /\ since' \in [Jobs -> SUBSET Bindings]
        /\ UNCHANGED <<entry, used>>
    BY <1>15, EndStep DEF Answered
  <2> QED
    BY <1>15, <2>1 DEF Answered, TypeInv, TypeOK, Job, EntrySet, Pooled, history,
                    orchestratorVars
<1>16. CASE SendFails(j)
  <2>1. pool' \in [Users -> [info : Bindings, up : BOOLEAN]] /\ EntrySet'
    BY <1>16 DEF SendFails, EntrySet, Pooled
  <2>2. CASE End(j)
    <3>1. job' \in [Jobs -> Job] /\ LocalsSet' /\ since' \in [Jobs -> SUBSET Bindings]
          /\ UNCHANGED <<entry, used>>
      BY <2>2, EndStep
    <3> QED
      BY <1>16, <2>1, <3>1 DEF SendFails, TypeInv, TypeOK, Job, orchestratorVars
  <2>3. CASE /\ job' = [job EXCEPT ![j].pc = "send", ![j].client = NoInst, ![j].attempt = 2]
             /\ UNCHANGED history
    <3> DEFINE x == [job[j] EXCEPT !.pc = "send", !.client = NoInst, !.attempt = 2]
    <3>1. job' \in [Jobs -> Job] /\ LocalsSet'
      <4>1. x \in Job /\ x.pc = "send" /\ x.info = job[j].info /\ x.user = job[j].user
        <5>1. {1, 2} = 1..2
          OBVIOUS
        <5> QED
          BY <5>1 DEF Job, Pcs, Bindings
      <4>2. job' = [job EXCEPT ![j] = x]
        BY <2>3
      <4> QED
        BY <1>16, <1>u, <4>1, <4>2, JobStep DEF SendFails, At, Routed
    <3> QED
      BY <1>16, <2>1, <2>3, <3>1 DEF SendFails, TypeInv, TypeOK, Job, history, orchestratorVars
  <2> QED
    BY <1>16, <2>2, <2>3 DEF SendFails
<1> QED
  BY <1>1, <1>2, <1>3, <1>4, <1>5, <1>6, <1>7, <1>8, <1>9, <1>10, <1>11, <1>12, <1>13, <1>14, <1>15, <1>16 DEF Handle

(* The steps that begin a call, and those beside the calls, keep the types. *)
LEMMA WorldTypes ==
  ASSUME TypeInv,
         \/ \E j \in Jobs : \/ \E u \in Users : ReceivePooled(j, u) \/ ReceiveUnpooled(j, u)
                           \/ Accept(j)
         \/ \E u \in Users : \/ LoseConnection(u) \/ GuardianReconnects(u) \/ CloseIdle(u)
                            \/ Rebind(u)
         \/ Restart
         \/ UNCHANGED vars
  PROVE  TypeInv'
<1>t. /\ job \in [Jobs -> Job]
      /\ TypeOK /\ LocalsSet /\ EntrySet
  BY DEF TypeInv, TypeOK, Job
<1>s. /\ since \in [Jobs -> SUBSET Bindings] /\ entry \in [Users -> SUBSET Bindings]
      /\ pool \in [Users -> [info : Bindings, up : BOOLEAN]]
      /\ binding \in [Users -> Bindings] /\ used \subseteq Instances
  BY DEF TypeInv, TypeOK
<1> USE <1>t, <1>s
<1>1. ASSUME NEW j \in Jobs, NEW u \in Users, ReceivePooled(j, u) PROVE TypeInv'
  <2>1. job' \in [Jobs -> Job] /\ LocalsSet'
    <3> DEFINE x == [job[j] EXCEPT !.pc = "files", !.user = u, !.info = pool[u].info]
    <3>1. /\ x \in Job /\ x.pc = "files" /\ x.user \in Users /\ x.info \in Instances
      BY <1>1 DEF ReceivePooled, Pooled, Job, Pcs, Bindings
    <3>2. job' = [job EXCEPT ![j] = x]
      BY <1>1 DEF ReceivePooled
    <3> QED
      BY <3>1, <3>2, JobStep
  <2> QED
    BY <1>1, <2>1 DEF ReceivePooled, TypeInv, TypeOK, Job, EntrySet, Pooled, orchestratorVars
<1>2. ASSUME NEW j \in Jobs, NEW u \in Users, ReceiveUnpooled(j, u) PROVE TypeInv'
  <2>1. job' \in [Jobs -> Job] /\ LocalsSet'
    <3> DEFINE x == [job[j] EXCEPT !.pc = "lookup", !.user = u]
    <3>1. /\ x \in Job /\ x.pc = "lookup" /\ x.user \in Users
      BY DEF Job, Pcs
    <3>2. job' = [job EXCEPT ![j] = x]
      BY <1>2 DEF ReceiveUnpooled
    <3> QED
      BY <3>1, <3>2, JobStep DEF Chain, Routed
  <2> QED
    BY <1>2, <2>1 DEF ReceiveUnpooled, TypeInv, TypeOK, Job, EntrySet, Pooled, orchestratorVars
<1>3. ASSUME NEW j \in Jobs, Accept(j) PROVE TypeInv'
  <2>0. job[j].client \in Instances
    BY <1>3 DEF Accept, At, LocalsSet
  <2>1. job' \in [Jobs -> Job] /\ LocalsSet'
    <3> DEFINE x == [job[j] EXCEPT !.accepted = @ \cup {job[j].client}]
    <3>1. /\ x \in Job /\ x.pc = job[j].pc /\ x.user = job[j].user /\ x.info = job[j].info
          /\ x.client = job[j].client
      BY <2>0 DEF Job
    <3>2. job' = [job EXCEPT ![j] = x]
      BY <1>3 DEF Accept
    <3> QED
      BY <2>0, <3>1, <3>2, JobStep DEF LocalsSet
  <2> QED
    BY <1>3, <2>0, <2>1 DEF Accept, TypeInv, TypeOK, Job, EntrySet, Pooled, orchestratorVars
<1>4. ASSUME NEW u \in Users, LoseConnection(u) \/ GuardianReconnects(u) \/ CloseIdle(u)
      PROVE  TypeInv'
  <2>1. /\ pool' \in [Users -> [info : Bindings, up : BOOLEAN]] /\ EntrySet'
        /\ entry' \in [Users -> SUBSET Bindings]
    <3>1. CASE LoseConnection(u)
      BY <3>1 DEF LoseConnection, EntrySet, Pooled, history
    <3>2. CASE GuardianReconnects(u)
      BY <3>2 DEF GuardianReconnects, EntrySet, Pooled, history
    <3>3. CASE CloseIdle(u)
      BY <3>3 DEF CloseIdle, NoConnection, EntrySet, Pooled, Bindings
    <3> QED
      BY <1>4, <3>1, <3>2, <3>3
  <2>2. UNCHANGED <<binding, rows, perUser, owner, rebinds, job, since, used>>
    BY <1>4 DEF LoseConnection, GuardianReconnects, CloseIdle, orchestratorVars, history
  <2> QED
    BY <2>1, <2>2 DEF TypeInv, TypeOK, LocalsSet
<1>5. ASSUME NEW u \in Users, Rebind(u) PROVE TypeInv'
  <2>0. PICK i \in Instances : Assign(u, i) /\ owner' = [owner EXCEPT ![i] = u]
    BY <1>5 DEF Rebind, Offers
  <2>1. /\ binding' \in [Users -> Bindings]
        /\ since' \in [Jobs -> SUBSET Bindings]
        /\ entry' \in [Users -> SUBSET Bindings]
        /\ used' = used
    BY <2>0, AssignType DEF Bindings
  <2>2. rows' \subseteq Users \cup Instances /\ owner' \in [Instances -> Users \cup {NoUser}]
    BY <2>0 DEF Assign, TypeOK
  <2>3. rebinds' \in 0..MaxRebinds
    BY <1>5, MaxRebindsAssumption DEF Rebind, TypeOK
  <2> QED
    BY <1>5, <2>1, <2>2, <2>3 DEF Rebind, TypeInv, TypeOK, LocalsSet, EntrySet, Pooled
<1>6. CASE Restart
  <2>1. job' \in [Jobs -> Job] /\ LocalsSet' /\ EntrySet'
    BY <1>6, NewJobType DEF Restart, LocalsSet, EntrySet, NoConnection, Chain, Routed
  <2> QED
    BY <1>6, <2>1 DEF Restart, TypeInv, TypeOK, Job, NoConnection, Bindings, orchestratorVars
<1>7. CASE UNCHANGED vars
  BY <1>7 DEF vars, orchestratorVars, history, TypeInv, TypeOK, LocalsSet, EntrySet, Pooled
<1> QED
  BY <1>1, <1>2, <1>3, <1>4, <1>5, <1>6, <1>7

(* A step of one call that does not leave it with a reading of nothing.     *)
LEMMA BoundKept ==
  ASSUME TypeInv, Bound, NEW j \in Jobs,
         \A u \in Users : binding[u] # NoInst => binding'[u] # NoInst,
         \A k \in Jobs \ {j} : job'[k] = job[k],
         job'[j].pc = "commit" /\ job'[j].old # NoInst => binding'[job'[j].user] # NoInst
  PROVE  Bound'
<1>1. \A k \in Jobs : job[k].pc = "commit" => job[k].user \in Users
  BY DEF TypeInv, LocalsSet
<1>2. ASSUME NEW k \in Jobs, job'[k].pc = "commit", job'[k].old # NoInst
      PROVE  binding'[job'[k].user] # NoInst
  <2>1. CASE k = j
    BY <1>2, <2>1
  <2>2. CASE k # j
    BY <1>1, <1>2, <2>2 DEF Bound
  <2> QED
    BY <2>1, <2>2
<1> QED
  BY <1>2 DEF Bound

(* No step takes a binding away. *)
LEMMA BoundStep == TypeInv /\ Bound /\ [Next]_vars => Bound'
<1> SUFFICES ASSUME TypeInv, Bound, [Next]_vars PROVE Bound'
  OBVIOUS
<1>t. job \in [Jobs -> Job] /\ binding \in [Users -> Bindings]
  BY DEF TypeInv, TypeOK, Job
<1>1. ASSUME NEW j \in Jobs, Handle(j) PROVE Bound'
  <2>1. CASE BindCommit(j)
    <3>1. job[j].user \in Users /\ job[j].info \in Instances /\ job'[j].pc = "files"
      BY <1>t, <2>1 DEF BindCommit, At, Chain, TypeInv, LocalsSet, Follows
    <3>2. \A u \in Users : binding[u] # NoInst => binding'[u] # NoInst
      BY <1>t, <2>1, <3>1, NoInstAssumption DEF BindCommit, Assign
    <3>3. \A k \in Jobs \ {j} : job'[k] = job[k]
      BY <1>t, <2>1 DEF BindCommit
    <3>4. job'[j].pc # "commit"
      BY <3>1
    <3> QED
      BY <3>2, <3>3, <3>4, BoundKept
  <2>2. CASE BindReadUser(j)
    <3>1. job'[j].old = binding[job'[j].user] /\ binding' = binding
      BY <1>t, <2>2 DEF BindReadUser, Job
    <3>2. \A k \in Jobs \ {j} : job'[k] = job[k]
      BY <1>t, <2>2 DEF BindReadUser
    <3> QED
      BY <3>1, <3>2, BoundKept
  <2>3. CASE ~BindCommit(j) /\ ~BindReadUser(j)
    <3>1. /\ binding' = binding /\ job'[j].pc # "commit"
          /\ \A k \in Jobs \ {j} : job'[k] = job[k]
      BY <1>1, <1>t, <2>3
         DEF Handle, LookupFinds, LookupFindsNone, Raises, Provision, Seed, Follows,
             BindReadInstance, ProvisioningFails, SaveFiles, ReuseConnection, StartConnecting,
             Connected, ConnectFails, Answered, SendFails, End, NewJob, Job
    <3> QED
      BY <3>1, BoundKept
  <2> QED
    BY <2>1, <2>2, <2>3
<1>2. ASSUME NEW u \in Users, Rebind(u) PROVE Bound'
  <2>1. PICK i \in Instances : Assign(u, i)
    BY <1>2 DEF Rebind, Offers
  <2>2. /\ \A v \in Users : binding[v] # NoInst => binding'[v] # NoInst
        /\ job' = job
    BY <1>2, <1>t, <2>1, NoInstAssumption DEF Rebind, Assign
  <2> QED
    BY <2>2 DEF Bound, TypeInv, LocalsSet
<1>3. ASSUME NEW j \in Jobs, NEW u \in Users, ReceivePooled(j, u) \/ ReceiveUnpooled(j, u)
      PROVE  Bound'
  <2>1. /\ binding' = binding /\ job'[j].pc # "commit"
        /\ \A k \in Jobs \ {j} : job'[k] = job[k]
    BY <1>3, <1>t DEF ReceivePooled, ReceiveUnpooled, Job
  <2> QED
    BY <2>1, BoundKept
<1>4. ASSUME NEW j \in Jobs, Accept(j) PROVE Bound'
  <2>1. /\ binding' = binding /\ job'[j].pc # "commit"
        /\ \A k \in Jobs \ {j} : job'[k] = job[k]
    BY <1>4, <1>t DEF Accept, At, Job
  <2> QED
    BY <2>1, BoundKept
<1>5. ASSUME NEW u \in Users, LoseConnection(u) \/ GuardianReconnects(u) \/ CloseIdle(u)
      PROVE  Bound'
  BY <1>5 DEF LoseConnection, GuardianReconnects, CloseIdle, Bound
<1>6. CASE Restart
  BY <1>6, NewJobType DEF Restart, Bound
<1>7. CASE UNCHANGED vars
  BY <1>7 DEF vars, Bound
<1> QED
  BY <1>1, <1>2, <1>3, <1>4, <1>5, <1>6, <1>7 DEF Next

(* Every step keeps the types. *)
LEMMA TypeStep == TypeInv /\ Bound /\ [Next]_vars => TypeInv'
BY HandleTypes, WorldTypes DEF Next

(* The types hold in every reachable state. *)
LEMMA TypesKept == Spec => [](TypeInv /\ Bound)
<1>1. Init => TypeInv /\ Bound
  BY InitTypes, NewJobType DEF Init, Bound
<1> QED
  BY <1>1, TypeStep, BoundStep, PTL DEF Spec

(* Every variable of every reachable state of the routing has its type: in  *)
(* particular no send is retried twice, and no call leaves provisioning     *)
(* without an instance (handle_event, send_message of the manager).        *)
THEOREM TypeCorrect == Spec => []TypeOK
BY TypesKept, PTL DEF TypeInv

-----------------------------------------------------------------------------
(* Where messages go.                                                      *)

(* A call in progress knows the present binding of its user. *)
SinceCurrent == \A j \in Jobs : job[j].pc # "idle" => binding[job[j].user] \in since[j]

(* So does an entry of the pool, whose instance is one of its own. *)
EntryCurrent == \A u \in Users : Pooled(u) => {binding[u], pool[u].info} \subseteq entry[u]

(* What a call has read, chosen, connected to and sent to. *)
JobFresh(j) ==
  /\ job[j].pc = "idle" => job[j].accepted = {}
  /\ job[j].pc = "commit" => job[j].old \in since[j]
  /\ job[j].pc \in Routed => job[j].info \in since[j]
  /\ job[j].pc = "await" => job[j].client \in since[j]
  /\ job[j].accepted \subseteq since[j]

RoutingInv == SinceCurrent /\ EntryCurrent /\ \A j \in Jobs : JobFresh(j)

(* A bind keeps what the calls and the pool know up to date. *)
LEMMA AssignFresh ==
  ASSUME TypeInv, RoutingInv, NEW u \in Users, NEW i \in Bindings, Assign(u, i), UNCHANGED pool
  PROVE  /\ EntryCurrent'
         /\ \A k \in Jobs : since[k] \subseteq since'[k]
         /\ \A k \in Jobs : job[k].pc # "idle" => binding'[job[k].user] \in since'[k]
<1>1. /\ binding \in [Users -> Bindings] /\ entry \in [Users -> SUBSET Bindings]
      /\ binding' = [binding EXCEPT ![u] = i]
      /\ since' = [k \in Jobs |-> IF job[k].user = u THEN since[k] \cup {i} ELSE since[k]]
      /\ entry' = [entry EXCEPT ![u] = IF Pooled(u) THEN @ \cup {i} ELSE {}]
      /\ \A k \in Jobs : job[k].pc # "idle" => job[k].user \in Users
  BY DEF TypeInv, TypeOK, LocalsSet, Assign, Observe
<1>2. EntryCurrent'
  BY <1>1 DEF RoutingInv, EntryCurrent, Pooled
<1>3. \A k \in Jobs : job[k].pc # "idle" => binding'[job[k].user] \in since'[k]
  BY <1>1 DEF RoutingInv, SinceCurrent
<1> QED
  BY <1>1, <1>2, <1>3

(* A step of one call, under bindings that do not change. *)
LEMMA CallFresh ==
  ASSUME RoutingInv, NEW j \in Jobs, binding' = binding, EntryCurrent',
         \A k \in Jobs \ {j} : job'[k] = job[k] /\ since'[k] = since[k],
         job'[j].pc # "idle" => binding[job'[j].user] \in since'[j],
         JobFresh(j)'
  PROVE  RoutingInv'
<1>1. SinceCurrent'
  BY DEF RoutingInv, SinceCurrent
<1>2. ASSUME NEW k \in Jobs PROVE JobFresh(k)'
  <2>1. CASE k = j
    BY <2>1
  <2>2. CASE k # j
    BY <2>2 DEF RoutingInv, JobFresh
  <2> QED
    BY <2>1, <2>2
<1> QED
  BY <1>1, <1>2 DEF RoutingInv

(* A call that ends, whatever happens to its connection. *)
LEMMA EndFresh ==
  ASSUME TypeInv, RoutingInv, NEW j \in Jobs, End(j), UNCHANGED binding,
         \A u \in Users : pool'[u].info = pool[u].info
  PROVE  RoutingInv'
<1>1. /\ job \in [Jobs -> Job] /\ since \in [Jobs -> SUBSET Bindings]
  BY DEF TypeInv, TypeOK, Job
<1>2. /\ job'[j] = NewJob /\ since'[j] = {} /\ entry' = entry
      /\ \A k \in Jobs \ {j} : job'[k] = job[k] /\ since'[k] = since[k]
  BY <1>1 DEF End
<1>3. EntryCurrent'
  BY <1>2 DEF RoutingInv, EntryCurrent, Pooled
<1>4. JobFresh(j)' /\ job'[j].pc = "idle"
  BY <1>2, NewJobType DEF JobFresh, Routed
<1> QED
  BY <1>2, <1>3, <1>4, CallFresh

(* Each step of a call routes it to bindings of its window only. *)
LEMMA HandleFresh ==
  ASSUME TypeInv, RoutingInv, NEW j \in Jobs, Handle(j)
  PROVE  RoutingInv'
<1>t. /\ job \in [Jobs -> Job] /\ job[j] \in Job /\ since \in [Jobs -> SUBSET Bindings]
      /\ pool \in [Users -> [info : Bindings, up : BOOLEAN]]
      /\ entry \in [Users -> SUBSET Bindings]
      /\ job[j].pc # "idle" => job[j].user \in Users
      /\ job[j].pc \in Chain \cup Routed => job[j].info \in Instances
  BY DEF TypeInv, TypeOK, Job, LocalsSet
<1>i. /\ job[j].pc # "idle" => binding[job[j].user] \in since[j]
      /\ JobFresh(j) /\ EntryCurrent
  BY DEF RoutingInv, SinceCurrent
<1> USE <1>t, <1>i
<1>1. CASE End(j) /\ UNCHANGED <<binding, pool>>
  BY <1>1, EndFresh
<1>2. CASE SendFails(j)
  <2>1. binding' = binding /\ \A u \in Users : pool'[u].info = pool[u].info
    BY <1>2 DEF SendFails
  <2>2. CASE End(j)
    BY <2>1, <2>2, EndFresh
  <2>3. CASE /\ job' = [job EXCEPT ![j].pc = "send", ![j].client = NoInst, ![j].attempt = 2]
             /\ UNCHANGED history
    <3>1. EntryCurrent'
      BY <2>1, <2>3 DEF EntryCurrent, Pooled, history
    <3>2. /\ job'[j].pc = "send" /\ job'[j].user = job[j].user /\ job'[j].info = job[j].info
          /\ job'[j].accepted = job[j].accepted
          /\ \A k \in Jobs \ {j} : job'[k] = job[k] /\ since'[k] = since[k]
          /\ since'[j] = since[j] /\ job[j].pc = "await"
      BY <1>2, <2>3 DEF Job, history, SendFails, At
    <3>3. JobFresh(j)'
      BY <3>2 DEF JobFresh, Routed
    <3> QED
      BY <2>1, <3>1, <3>2, <3>3, CallFresh
  <2> QED
    BY <1>2, <2>2, <2>3 DEF SendFails
<1>3. CASE LookupFinds(j)
  <2>1. PICK i \in since[j] : job' = [job EXCEPT ![j].pc = "files", ![j].info = i]
    BY <1>3 DEF LookupFinds
  <2>2. /\ job'[j].pc = "files" /\ job'[j].user = job[j].user /\ job'[j].info \in since[j]
        /\ job'[j].accepted = job[j].accepted /\ job[j].pc # "idle"
        /\ \A k \in Jobs \ {j} : job'[k] = job[k]
        /\ UNCHANGED <<binding, pool, since, entry>>
    BY <1>3, <2>1 DEF Job, LookupFinds, history, At
  <2>3. JobFresh(j)' /\ EntryCurrent'
    BY <2>2 DEF JobFresh, Routed, EntryCurrent, Pooled
  <2> QED
    BY <2>2, <2>3, CallFresh
<1>4. CASE BindReadUser(j)
  <2>1. /\ job'[j].pc = "commit" /\ job'[j].user = job[j].user
        /\ job'[j].old = binding[job[j].user]
        /\ job'[j].accepted = job[j].accepted /\ job[j].pc # "idle"
        /\ \A k \in Jobs \ {j} : job'[k] = job[k]
        /\ UNCHANGED <<binding, pool, since, entry>>
    BY <1>4 DEF Job, BindReadUser, history, At
  <2>2. JobFresh(j)' /\ EntryCurrent'
    BY <2>1 DEF JobFresh, Routed, EntryCurrent, Pooled
  <2> QED
    BY <2>1, <2>2, CallFresh
<1>5. CASE BindCommit(j)
  <2> DEFINE u == job[j].user
             i == IF job[j].old = job[j].info THEN binding[u] ELSE job[j].info
  <2>1. u \in Users /\ i \in Bindings /\ Assign(u, i) /\ UNCHANGED pool
    BY <1>5 DEF BindCommit, At, Chain, Bindings, TypeInv, TypeOK
  <2>2. /\ EntryCurrent'
        /\ \A k \in Jobs : since[k] \subseteq since'[k]
        /\ \A k \in Jobs : job[k].pc # "idle" => binding'[job[k].user] \in since'[k]
    <3> HIDE DEF u, i
    <3> QED
      BY <2>1, AssignFresh
  <2>3. /\ job'[j].pc = "files" /\ job'[j].user = u /\ job'[j].info = job[j].info
        /\ job'[j].accepted = job[j].accepted /\ job[j].pc = "commit"
        /\ \A k \in Jobs \ {j} : job'[k] = job[k]
    BY <1>5 DEF Job, BindCommit, At, Follows
  <2>4. job[j].info \in since'[j]
    <3>1. CASE job[j].old = job[j].info
      BY <2>2, <2>3, <3>1 DEF JobFresh
    <3>2. CASE job[j].old # job[j].info
      <4>1. binding'[u] = job[j].info
        BY <2>1, <3>2 DEF Assign, TypeInv, TypeOK
      <4> QED
        BY <2>2, <2>3, <4>1
    <3> QED
      BY <3>1, <3>2
  <2>5. JobFresh(j)'
    BY <2>2, <2>3, <2>4 DEF JobFresh, Routed
  <2>6. ASSUME NEW k \in Jobs PROVE JobFresh(k)'
    <3>1. CASE k = j
      BY <2>5, <3>1
    <3>2. CASE k # j
      BY <2>2, <2>3, <3>2 DEF RoutingInv, JobFresh
    <3> QED
      BY <3>1, <3>2
  <2>7. SinceCurrent'
    BY <2>2, <2>3 DEF SinceCurrent
  <2> QED
    BY <2>2, <2>6, <2>7 DEF RoutingInv
<1>6. CASE ReuseConnection(j)
  <2>1. /\ job'[j].pc = "await" /\ job'[j].user = job[j].user /\ job'[j].info = job[j].info
        /\ job'[j].client = pool[job[j].user].info
        /\ job'[j].accepted = job[j].accepted /\ job[j].pc = "send"
        /\ since'[j] = since[j] \cup entry[job[j].user]
        /\ \A k \in Jobs \ {j} : job'[k] = job[k] /\ since'[k] = since[k]
        /\ UNCHANGED <<binding, pool, entry>> /\ pool[job[j].user].up
    BY <1>6 DEF Job, ReuseConnection, At
  <2>2. pool[job[j].user].info \in entry[job[j].user]
    BY <2>1 DEF TypeInv, EntrySet, EntryCurrent
  <2>3. JobFresh(j)' /\ EntryCurrent'
    BY <2>1, <2>2 DEF JobFresh, Routed, EntryCurrent, Pooled
  <2> QED
    BY <2>1, <2>3, CallFresh
<1>7. CASE Connected(j)
  <2>1. /\ job'[j].pc = "await" /\ job'[j].user = job[j].user /\ job'[j].info = job[j].info
        /\ job'[j].client = job[j].info
        /\ job'[j].accepted = job[j].accepted /\ job[j].pc = "connect"
        /\ \A k \in Jobs \ {j} : job'[k] = job[k]
        /\ UNCHANGED <<binding, since>>
    BY <1>7 DEF Job, Connected, At
  <2>2. JobFresh(j)' /\ job[j].info \in since[j]
    BY <2>1 DEF JobFresh, Routed
  <2>3. EntryCurrent'
    BY <1>7, <2>1, <2>2 DEF EntryCurrent, Pooled, Connected
  <2> QED
    BY <2>1, <2>2, <2>3, CallFresh
<1>8. CASE \/ Seed(j) \/ BindReadInstance(j) \/ SaveFiles(j) \/ StartConnecting(j)
           \/ Provision(j)
           \/ LookupFindsNone(j) /\ ~End(j)
  <2>1. /\ job'[j].pc \in {"provision", "seed", "instance", "user", "files", "send", "connect"}
        /\ job'[j].pc \in Routed => job[j].pc \in Routed /\ job'[j].info = job[j].info
        /\ job'[j].user = job[j].user
        /\ job'[j].accepted = job[j].accepted /\ job[j].pc # "idle"
        /\ \A k \in Jobs \ {j} : job'[k] = job[k]
        /\ UNCHANGED <<binding, pool, since, entry>>
    BY <1>8 DEF Job, Seed, BindReadInstance, SaveFiles, StartConnecting, Provision,
                LookupFindsNone, At, Follows, Routed, history
  <2>2. JobFresh(j)' /\ EntryCurrent'
    BY <2>1 DEF JobFresh, Routed, EntryCurrent, Pooled
  <2> QED
    BY <2>1, <2>2, CallFresh
<1> QED
  <2>1. CASE LookupFindsNone(j) \/ Raises(j) \/ ProvisioningFails(j) \/ ConnectFails(j)
             \/ Answered(j)
    BY <1>1, <1>8, <2>1 DEF LookupFindsNone, Raises, ProvisioningFails, ConnectFails, Answered
  <2> QED
    BY <1>2, <1>3, <1>4, <1>5, <1>6, <1>7, <1>8, <2>1 DEF Handle

(* The steps that begin a call, and those beside the calls. *)
LEMMA WorldFresh ==
  ASSUME TypeInv, RoutingInv,
         \/ \E j \in Jobs : \/ \E u \in Users : ReceivePooled(j, u) \/ ReceiveUnpooled(j, u)
                           \/ Accept(j)
         \/ \E u \in Users : \/ LoseConnection(u) \/ GuardianReconnects(u) \/ CloseIdle(u)
                            \/ Rebind(u)
         \/ Restart
         \/ UNCHANGED vars
  PROVE  RoutingInv'
<1>t. /\ job \in [Jobs -> Job] /\ since \in [Jobs -> SUBSET Bindings]
      /\ pool \in [Users -> [info : Bindings, up : BOOLEAN]]
      /\ entry \in [Users -> SUBSET Bindings]
      /\ SinceCurrent /\ EntryCurrent /\ \A j \in Jobs : JobFresh(j)
  BY DEF TypeInv, TypeOK, Job, RoutingInv
<1> USE <1>t
<1>1. ASSUME NEW j \in Jobs, NEW u \in Users, ReceivePooled(j, u) PROVE RoutingInv'
  <2>1. /\ job'[j].pc = "files" /\ job'[j].user = u /\ job'[j].info = pool[u].info
        /\ job'[j].accepted = job[j].accepted /\ job[j].pc = "idle" /\ Pooled(u)
        /\ since'[j] = entry[u]
        /\ \A k \in Jobs \ {j} : job'[k] = job[k] /\ since'[k] = since[k]
        /\ UNCHANGED <<binding, pool, entry>>
    BY <1>1 DEF ReceivePooled, At, Job
  <2>2. JobFresh(j)' /\ EntryCurrent' /\ binding[u] \in since'[j]
    BY <2>1 DEF JobFresh, Routed, EntryCurrent, Pooled
  <2> QED
    BY <2>1, <2>2, CallFresh
<1>2. ASSUME NEW j \in Jobs, NEW u \in Users, ReceiveUnpooled(j, u) PROVE RoutingInv'
  <2>1. /\ job'[j].pc = "lookup" /\ job'[j].user = u
        /\ job'[j].accepted = job[j].accepted /\ job[j].pc = "idle"
        /\ since'[j] = {binding[u]}
        /\ \A k \in Jobs \ {j} : job'[k] = job[k] /\ since'[k] = since[k]
        /\ UNCHANGED <<binding, pool, entry>>
    BY <1>2 DEF ReceiveUnpooled, At, Job
  <2>2. JobFresh(j)' /\ EntryCurrent'
    BY <2>1 DEF JobFresh, Routed, EntryCurrent, Pooled
  <2> QED
    BY <2>1, <2>2, CallFresh
<1>3. ASSUME NEW j \in Jobs, Accept(j) PROVE RoutingInv'
  <2>1. /\ job'[j].pc = "await" /\ job'[j].user = job[j].user /\ job'[j].info = job[j].info
        /\ job'[j].client = job[j].client
        /\ job'[j].accepted = job[j].accepted \cup {job[j].client} /\ job[j].pc = "await"
        /\ \A k \in Jobs \ {j} : job'[k] = job[k]
        /\ UNCHANGED <<binding, pool, since, entry>>
    BY <1>3 DEF Accept, At, Job
  <2>2. JobFresh(j)' /\ EntryCurrent' /\ binding[job[j].user] \in since[j]
    BY <2>1 DEF JobFresh, Routed, EntryCurrent, Pooled, SinceCurrent
  <2> QED
    BY <2>1, <2>2, CallFresh
<1>4. ASSUME NEW u \in Users, LoseConnection(u) \/ GuardianReconnects(u) \/ CloseIdle(u)
      PROVE  RoutingInv'
  <2>1. UNCHANGED <<binding, job, since>>
    BY <1>4 DEF LoseConnection, GuardianReconnects, CloseIdle, history
  <2>2. EntryCurrent'
    <3>1. CASE CloseIdle(u)
      BY <3>1 DEF CloseIdle, EntryCurrent, Pooled, NoConnection
    <3>2. CASE LoseConnection(u) \/ GuardianReconnects(u)
      BY <3>2 DEF LoseConnection, GuardianReconnects, EntryCurrent, Pooled, history
    <3> QED
      BY <1>4, <3>1, <3>2
  <2>3. SinceCurrent' /\ \A j \in Jobs : JobFresh(j)'
    BY <2>1 DEF SinceCurrent, JobFresh
  <2> QED
    BY <2>2, <2>3 DEF RoutingInv
<1>5. ASSUME NEW u \in Users, Rebind(u) PROVE RoutingInv'
  <2>1. PICK i \in Bindings : Assign(u, i) /\ UNCHANGED <<pool, job>>
    BY <1>5 DEF Rebind, Offers, Bindings
  <2>2. /\ EntryCurrent'
        /\ \A k \in Jobs : since[k] \subseteq since'[k]
        /\ \A k \in Jobs : job[k].pc # "idle" => binding'[job[k].user] \in since'[k]
    BY <2>1, AssignFresh
  <2>3. ASSUME NEW k \in Jobs PROVE JobFresh(k)'
    BY <2>1, <2>2 DEF JobFresh
  <2> QED
    BY <2>1, <2>2, <2>3 DEF RoutingInv, SinceCurrent
<1>6. CASE Restart
  <2>1. \A j \in Jobs : job'[j] = NewJob /\ since'[j] = {}
    BY <1>6 DEF Restart
  <2>2. EntryCurrent'
    BY <1>6 DEF Restart, EntryCurrent, Pooled, NoConnection
  <2>3. SinceCurrent' /\ \A j \in Jobs : JobFresh(j)'
    BY <2>1, NewJobType DEF SinceCurrent, JobFresh, Routed
  <2> QED
    BY <2>2, <2>3 DEF RoutingInv
<1>7. CASE UNCHANGED vars
  <2>1. UNCHANGED <<binding, pool, job, entry, since>>
    BY <1>7 DEF vars, history
  <2> QED
    BY <2>1 DEF RoutingInv, SinceCurrent, EntryCurrent, JobFresh, Pooled
<1> QED
  BY <1>1, <1>2, <1>3, <1>4, <1>5, <1>6, <1>7

(* No call and no entry of the pool knows anything when a replica starts. *)
LEMMA InitFresh == Init => RoutingInv
<1> SUFFICES ASSUME Init PROVE RoutingInv
  OBVIOUS
<1>1. \A j \in Jobs : job[j] = NewJob
  BY DEF Init
<1> QED
  BY <1>1, NewJobType DEF Init, RoutingInv, SinceCurrent, EntryCurrent, JobFresh, Routed,
                          Pooled, NoConnection

(* Every step keeps the invariant of where messages go. *)
LEMMA FreshStep == TypeInv /\ RoutingInv /\ [Next]_vars => RoutingInv'
BY HandleFresh, WorldFresh DEF Next

(* A message and its files reach only instances their user has been bound   *)
(* to since the call began, or since the call began that made the entry of  *)
(* the pool it used: for every number of calls, users and replicas' binds   *)
(* (handle_event, get_cached_info, get_or_create, close_connection).        *)
THEOREM ReachesFresh == Spec => []FreshOrPooled
<1>1. RoutingInv => FreshOrPooled
  BY DEF RoutingInv, JobFresh, FreshOrPooled, Reached
<1> QED
  BY <1>1, InitFresh, FreshStep, TypesKept, PTL DEF Spec

-----------------------------------------------------------------------------
(* The template.                                                           *)

(* The instances a message can be on its way to, now or later. *)
Published(i) ==
  \/ i \in used
  \/ \E k \in Jobs : i \in since[k]
  \/ \E u \in Users : i \in entry[u] \/ binding[u] = i

(* Between the provisioning and the commit only the call knows an instance. *)
Holds(k, i) == job[k].pc \in Chain /\ job[k].info = i

(* With an orchestrator that never hands out an instance twice, nobody      *)
(* knows an instance that is not handed out, nor, but for one call, an      *)
(* instance whose workspace is about to be seeded.                          *)
SeedInv ==
  ~perUser =>
    /\ \A i \in Instances : owner[i] = NoUser => ~Published(i) /\ \A k \in Jobs : ~Holds(k, i)
    /\ \A j \in Jobs, i \in Instances : job[j].pc = "seed" /\ job[j].info = i =>
         ~Published(i) /\ \A k \in Jobs \ {j} : ~Holds(k, i)

(* A step of one call that makes no instance known. *)
LEMMA NothingPublished ==
  ASSUME TypeInv, SeedInv, NEW j \in Jobs, UNCHANGED <<perUser, owner>>,
         \A k \in Jobs \ {j} : job'[k] = job[k],
         \A i \in Instances : Published(i)' => Published(i),
         job'[j].pc \in Chain => job[j].pc \in Chain /\ job'[j].info = job[j].info,
         job'[j].pc = "seed" => job[j].pc = "seed"
  PROVE  SeedInv'
<1> SUFFICES ASSUME ~perUser PROVE SeedInv'
  BY DEF SeedInv
<1>1. \A k \in Jobs, i \in Instances : Holds(k, i)' => Holds(k, i)
  BY DEF Holds
<1>2. \A k \in Jobs : job'[k].pc = "seed" =>
        /\ job[k].pc = "seed" /\ job'[k].info = job[k].info /\ job[k].info \in Instances
  BY DEF TypeInv, LocalsSet, Chain
<1>3. \A i \in Instances : owner'[i] = NoUser =>
        ~Published(i)' /\ \A k \in Jobs : ~Holds(k, i)'
  BY <1>1 DEF SeedInv
<1>4. ASSUME NEW k \in Jobs, NEW a \in Instances, job'[k].pc = "seed", job'[k].info = a
      PROVE  ~Published(a)' /\ \A q \in Jobs \ {k} : ~Holds(q, a)'
  BY <1>1, <1>2, <1>4 DEF SeedInv
<1> QED
  BY <1>3, <1>4 DEF SeedInv

(* A bind, of this replica or another, makes at most its instance known. *)
LEMMA AssignPublishes ==
  ASSUME TypeInv, NEW u \in Users, NEW i \in Bindings, Assign(u, i)
  PROVE  \A a \in Instances : Published(a)' => Published(a) \/ a = i
<1>1. /\ binding \in [Users -> Bindings] /\ entry \in [Users -> SUBSET Bindings]
      /\ since \in [Jobs -> SUBSET Bindings]
      /\ binding' = [binding EXCEPT ![u] = i] /\ used' = used
      /\ since' = [k \in Jobs |-> IF job[k].user = u THEN since[k] \cup {i} ELSE since[k]]
      /\ entry' = [entry EXCEPT ![u] = IF Pooled(u) THEN @ \cup {i} ELSE {}]
  BY DEF TypeInv, TypeOK, Assign, Observe
<1>2. /\ \A k \in Jobs : since'[k] \subseteq since[k] \cup {i}
      /\ \A v \in Users : entry'[v] \subseteq entry[v] \cup {i} /\ binding'[v] \in {binding[v], i}
  BY <1>1
<1> QED
  BY <1>1, <1>2 DEF Published

(* Each step of a call keeps a provisioned instance to itself until the bind. *)
LEMMA HandleSeeds ==
  ASSUME TypeInv, RoutingInv, SeedInv, NEW j \in Jobs, Handle(j)
  PROVE  SeedInv'
<1>t. /\ job \in [Jobs -> Job] /\ job[j] \in Job /\ since \in [Jobs -> SUBSET Bindings]
      /\ entry \in [Users -> SUBSET Bindings] /\ binding \in [Users -> Bindings]
      /\ owner \in [Instances -> Users \cup {NoUser}]
      /\ job[j].pc # "idle" => job[j].user \in Users
      /\ \A k \in Jobs : job[k].pc \in Chain => job[k].info \in Instances
  BY DEF TypeInv, TypeOK, Job, LocalsSet
<1> USE <1>t
<1>1. CASE Provision(j)
  <2>1. PICK i \in Offers(job[j].user) :
          /\ owner' = [owner EXCEPT ![i] = job[j].user]
          /\ job' = [job EXCEPT ![j].pc = "seed", ![j].info = i]
    BY <1>1 DEF Provision, Follows
  <2> SUFFICES ASSUME ~perUser PROVE SeedInv'
    BY <1>1 DEF Provision, SeedInv
  <2>2. /\ i \in Instances /\ owner[i] = NoUser /\ job[j].user # NoUser /\ job[j].pc = "provision"
    BY <1>1, NoUserAssumption DEF Offers, Provision, At
  <2>3. \A a : Published(a)' <=> Published(a)
    BY <1>1 DEF Published, Provision, history
  <2>4. ~Published(i) /\ \A k \in Jobs : ~Holds(k, i)
    BY <2>2 DEF SeedInv
  <2>5. /\ job'[j].pc = "seed" /\ job'[j].info = i
        /\ \A k \in Jobs \ {j} : job'[k] = job[k]
    BY <2>1 DEF Job
  <2>6. \A a \in Instances : owner'[a] = NoUser => a # i /\ owner[a] = NoUser
    BY <2>1, <2>2
  <2>7. \A k \in Jobs \ {j} : \A a : Holds(k, a)' <=> Holds(k, a)
    BY <2>5 DEF Holds
  <2>8. \A a : Holds(j, a)' <=> a = i
    BY <2>5 DEF Holds, Chain
  <2>9. \A a \in Instances : owner'[a] = NoUser =>
          ~Published(a)' /\ \A k \in Jobs : ~Holds(k, a)'
    BY <2>3, <2>6, <2>7, <2>8 DEF SeedInv
  <2>10. ASSUME NEW k \in Jobs, NEW a \in Instances, job'[k].pc = "seed", job'[k].info = a
         PROVE  ~Published(a)' /\ \A q \in Jobs \ {k} : ~Holds(q, a)'
    <3>1. CASE k = j
      BY <2>3, <2>4, <2>5, <2>7, <2>10, <3>1
    <3>2. CASE k # j
      <4>1. job'[k] = job[k] /\ job[k].pc = "seed" /\ Holds(k, job[k].info)
        BY <2>5, <2>10, <3>2 DEF Holds, Chain
      <4>2. job[k].info # i
        BY <2>4, <4>1
      <4> QED
        BY <2>3, <2>7, <2>8, <2>10, <4>1, <4>2 DEF SeedInv
    <3> QED
      BY <3>1, <3>2
  <2> QED
    BY <2>9, <2>10 DEF SeedInv
<1>2. CASE BindCommit(j)
  <2> DEFINE u == job[j].user
             i == IF job[j].old = job[j].info THEN binding[u] ELSE job[j].info
  <2> SUFFICES ASSUME ~perUser PROVE SeedInv'
    BY <1>2 DEF BindCommit, orchestratorVars, SeedInv
  <2>1. u \in Users /\ i \in Bindings /\ Assign(u, i) /\ i \in {binding[u], job[j].info}
    BY <1>2 DEF BindCommit, At, Chain, Bindings
  <2>2. \A a \in Instances : Published(a)' => Published(a) \/ a = job[j].info
    <3>1. \A a \in Instances : Published(a)' => Published(a) \/ a = i
      <4> HIDE DEF u, i
      <4> QED
        BY <2>1, AssignPublishes
    <3>2. Published(binding[u])
      BY <2>1 DEF Published
    <3> QED
      BY <2>1, <3>1, <3>2
  <2>3. /\ job'[j].pc = "files" /\ job[j].pc = "commit" /\ owner' = owner /\ perUser' = perUser
        /\ \A k \in Jobs \ {j} : job'[k] = job[k]
    BY <1>2 DEF Job, BindCommit, At, Follows, orchestratorVars
  <2>4. Holds(j, job[j].info) /\ job[j].info \in Instances
    BY <2>3 DEF Holds, Chain
  <2>5. \A k \in Jobs, a \in Instances : Holds(k, a)' => Holds(k, a)
    BY <2>3 DEF Holds, Chain
  <2>6. \A a \in Instances : owner'[a] = NoUser =>
          ~Published(a)' /\ \A k \in Jobs : ~Holds(k, a)'
    BY <2>2, <2>3, <2>4, <2>5 DEF SeedInv
  <2>7. ASSUME NEW k \in Jobs, NEW a \in Instances, job'[k].pc = "seed", job'[k].info = a
        PROVE  ~Published(a)' /\ \A q \in Jobs \ {k} : ~Holds(q, a)'
    <3>1. k # j /\ job'[k] = job[k] /\ job[k].pc = "seed" /\ job[k].info \in Instances
      BY <2>3, <2>7 DEF Chain
    <3>2. job[k].info # job[j].info
      BY <2>4, <3>1 DEF SeedInv
    <3> QED
      BY <2>2, <2>5, <2>7, <3>1, <3>2 DEF SeedInv
  <2> QED
    BY <2>6, <2>7 DEF SeedInv
<1>3. CASE ReuseConnection(j)
  <2>1. /\ job'[j].pc = "await" /\ UNCHANGED <<perUser, owner, used, entry, binding>>
        /\ \A k \in Jobs \ {j} : job'[k] = job[k] /\ since'[k] = since[k]
        /\ since'[j] = since[j] \cup entry[job[j].user] /\ job[j].user \in Users
    BY <1>3 DEF ReuseConnection, At, Job, orchestratorVars
  <2>2. \A i \in Instances : Published(i)' => Published(i)
    BY <2>1 DEF Published
  <2> QED
    BY <2>1, <2>2, NothingPublished DEF Chain
<1>4. CASE Connected(j)
  <2>1. /\ job'[j].pc = "await" /\ UNCHANGED <<perUser, owner, used, since, binding>>
        /\ \A k \in Jobs \ {j} : job'[k] = job[k]
        /\ \A v \in Users : entry'[v] \in {entry[v], since[j]}
    BY <1>4 DEF Connected, At, Job, orchestratorVars
  <2>2. \A i \in Instances : Published(i)' => Published(i)
    BY <2>1 DEF Published
  <2> QED
    BY <2>1, <2>2, NothingPublished DEF Chain
<1>5. CASE End(j) /\ UNCHANGED <<perUser, owner, binding>>
  <2>1. /\ job'[j].pc = "idle" /\ UNCHANGED <<used, entry>>
        /\ \A k \in Jobs \ {j} : job'[k] = job[k]
        /\ \A k \in Jobs : since'[k] \subseteq since[k]
    BY <1>5, NewJobType DEF End
  <2>2. \A i \in Instances : Published(i)' => Published(i)
    BY <1>5, <2>1 DEF Published
  <2> QED
    BY <1>5, <2>1, <2>2, NothingPublished DEF Chain
<1>6. CASE \/ LookupFinds(j) \/ Seed(j) \/ BindReadInstance(j) \/ BindReadUser(j)
           \/ SaveFiles(j) \/ StartConnecting(j)
           \/ LookupFindsNone(j) /\ ~End(j)
           \/ SendFails(j) /\ ~End(j)
  <2>1. /\ job'[j].pc \in Chain => job[j].pc \in Chain /\ job'[j].info = job[j].info
        /\ job'[j].pc # "seed"
        /\ \A k \in Jobs \ {j} : job'[k] = job[k]
        /\ UNCHANGED <<perUser, owner, binding, entry, since, used>>
    BY <1>6 DEF LookupFinds, Seed, BindReadInstance, BindReadUser, SaveFiles, StartConnecting,
                LookupFindsNone, SendFails, At, Follows, Chain, Job, history, orchestratorVars
  <2>2. \A i \in Instances : Published(i)' => Published(i)
    BY <2>1 DEF Published
  <2> QED
    BY <2>1, <2>2, NothingPublished
<1> QED
  <2>1. CASE LookupFindsNone(j) \/ SendFails(j)
    BY <1>5, <1>6, <2>1 DEF LookupFindsNone, SendFails, orchestratorVars
  <2>2. CASE Raises(j) \/ ProvisioningFails(j) \/ ConnectFails(j) \/ Answered(j)
    BY <1>5, <2>2 DEF Raises, ProvisioningFails, ConnectFails, Answered, orchestratorVars
  <2> QED
    BY <1>1, <1>2, <1>3, <1>4, <1>6, <2>1, <2>2 DEF Handle

(* The steps that begin a call, and those beside the calls. *)
LEMMA WorldSeeds ==
  ASSUME TypeInv, RoutingInv, SeedInv,
         \/ \E j \in Jobs : \/ \E u \in Users : ReceivePooled(j, u) \/ ReceiveUnpooled(j, u)
                           \/ Accept(j)
         \/ \E u \in Users : \/ LoseConnection(u) \/ GuardianReconnects(u) \/ CloseIdle(u)
                            \/ Rebind(u)
         \/ Restart
         \/ UNCHANGED vars
  PROVE  SeedInv'
<1>t. /\ job \in [Jobs -> Job] /\ since \in [Jobs -> SUBSET Bindings]
      /\ entry \in [Users -> SUBSET Bindings] /\ binding \in [Users -> Bindings]
      /\ owner \in [Instances -> Users \cup {NoUser}]
      /\ \A k \in Jobs : job[k].pc \in Chain => job[k].info \in Instances
  BY DEF TypeInv, TypeOK, Job, LocalsSet
<1> USE <1>t
<1>1. ASSUME NEW j \in Jobs, NEW u \in Users, ReceivePooled(j, u) \/ ReceiveUnpooled(j, u)
      PROVE  SeedInv'
  <2>1. /\ job'[j].pc \in {"files", "lookup"}
        /\ UNCHANGED <<perUser, owner, used, entry, binding>>
        /\ \A k \in Jobs \ {j} : job'[k] = job[k] /\ since'[k] = since[k]
        /\ since'[j] = entry[u] \/ since'[j] = {binding[u]}
    <3>1. CASE ReceivePooled(j, u)
      BY <3>1 DEF ReceivePooled, Job, orchestratorVars
    <3>2. CASE ReceiveUnpooled(j, u)
      BY <3>2 DEF ReceiveUnpooled, Job, orchestratorVars
    <3> QED
      BY <1>1, <3>1, <3>2
  <2>2. \A i \in Instances : Published(i)' => Published(i)
    BY <2>1 DEF Published
  <2> QED
    BY <2>1, <2>2, NothingPublished DEF Chain
<1>2. ASSUME NEW j \in Jobs, Accept(j) PROVE SeedInv'
  <2>1. /\ job'[j].pc = "await" /\ UNCHANGED <<perUser, owner, entry, binding, since>>
        /\ \A k \in Jobs \ {j} : job'[k] = job[k]
        /\ used' = used \cup {job[j].client} /\ job[j].pc = "await"
    BY <1>2 DEF Accept, At, Job, orchestratorVars
  <2>2. job[j].client \in since[j]
    BY <2>1 DEF RoutingInv, JobFresh
  <2>3. \A i \in Instances : Published(i)' => Published(i)
    BY <2>1, <2>2 DEF Published
  <2> QED
    BY <2>1, <2>3, NothingPublished DEF Chain
<1>3. ASSUME NEW u \in Users, LoseConnection(u) \/ GuardianReconnects(u) \/ CloseIdle(u)
      PROVE  SeedInv'
  <2>1. /\ UNCHANGED <<perUser, owner, binding, job, since, used>>
        /\ \A v \in Users : entry'[v] \subseteq entry[v]
    BY <1>3 DEF LoseConnection, GuardianReconnects, CloseIdle, history, orchestratorVars
  <2>2. \A i : Published(i)' => Published(i)
    BY <2>1 DEF Published
  <2>3. \A k \in Jobs : \A i : Holds(k, i)' <=> Holds(k, i)
    BY <2>1 DEF Holds
  <2> QED
    BY <2>1, <2>2, <2>3 DEF SeedInv
<1>4. ASSUME NEW u \in Users, Rebind(u) PROVE SeedInv'
  <2>1. PICK i \in Offers(u) :
          Assign(u, i) /\ owner' = [owner EXCEPT ![i] = u] /\ UNCHANGED <<perUser, job>>
    BY <1>4 DEF Rebind
  <2> SUFFICES ASSUME ~perUser PROVE SeedInv'
    BY <2>1 DEF SeedInv
  <2>2. i \in Instances /\ owner[i] = NoUser /\ u # NoUser
    BY NoUserAssumption DEF Offers
  <2>3. \A a \in Instances : Published(a)' => Published(a) \/ a = i
    BY <2>1, <2>2, AssignPublishes DEF Bindings
  <2>4. \A k \in Jobs : ~Holds(k, i)
    BY <2>2 DEF SeedInv
  <2>5. \A k \in Jobs : \A a : Holds(k, a)' <=> Holds(k, a)
    BY <2>1 DEF Holds
  <2>6. \A a \in Instances : owner'[a] = NoUser => a # i /\ owner[a] = NoUser
    BY <2>1, <2>2
  <2>7. \A a \in Instances : owner'[a] = NoUser =>
          ~Published(a)' /\ \A k \in Jobs : ~Holds(k, a)'
    BY <2>3, <2>5, <2>6 DEF SeedInv
  <2>8. ASSUME NEW k \in Jobs, NEW a \in Instances, job'[k].pc = "seed", job'[k].info = a
        PROVE  ~Published(a)' /\ \A q \in Jobs \ {k} : ~Holds(q, a)'
    <3>1. job'[k] = job[k] /\ Holds(k, job[k].info) /\ job[k].info \in Instances
      BY <2>1, <2>8 DEF Holds, Chain
    <3>2. job[k].info # i
      BY <2>4, <3>1
    <3> QED
      BY <2>3, <2>5, <2>8, <3>1, <3>2 DEF SeedInv
  <2> QED
    BY <2>7, <2>8 DEF SeedInv
<1>5. CASE Restart
  <2>1. /\ UNCHANGED <<perUser, owner, binding, used>>
        /\ \A k \in Jobs : job'[k].pc = "idle" /\ since'[k] = {}
        /\ \A u \in Users : entry'[u] = {}
    BY <1>5, NewJobType DEF Restart, orchestratorVars
  <2>2. \A i : Published(i)' => Published(i)
    BY <2>1 DEF Published
  <2>3. \A k \in Jobs : \A i : ~Holds(k, i)'
    BY <2>1 DEF Holds, Chain
  <2> QED
    BY <2>1, <2>2, <2>3 DEF SeedInv
<1>6. CASE UNCHANGED vars
  BY <1>6 DEF vars, history, orchestratorVars, SeedInv, Published, Holds
<1> QED
  BY <1>1, <1>2, <1>3, <1>4, <1>5, <1>6

(* Nothing is handed out at first. *)
LEMMA InitSeeds == Init => SeedInv
<1> SUFFICES ASSUME Init PROVE SeedInv
  OBVIOUS
<1>1. \A i \in Instances : ~Published(i)
  BY NoInstAssumption DEF Init, Published
<1>2. \A k \in Jobs : job[k].pc = "idle"
  BY NewJobType DEF Init
<1> QED
  BY <1>1, <1>2 DEF SeedInv, Holds, Chain

(* Every step keeps the invariant of the template. *)
LEMMA SeedStep == TypeInv /\ RoutingInv /\ SeedInv /\ [Next]_vars => SeedInv'
BY HandleSeeds, WorldSeeds DEF Next

(* The template never overwrites what an agent has made of its files, as    *)
(* long as the orchestrator hands out no instance twice: whatever calls,    *)
(* binds of other replicas and restarts interleave with a provisioning      *)
(* (provision_instance, bind_user_instance).                                *)
THEOREM SeedsUnused == Spec => SeedBeforeUse
<1>1. TypeInv /\ SeedInv => (~perUser => \A j \in Jobs : Seed(j) => job[j].info \notin used)
  <2>1. TypeInv => \A j \in Jobs : job[j].pc = "seed" => job[j].info \in Instances
    BY DEF TypeInv, LocalsSet, Chain
  <2> QED
    BY <2>1 DEF SeedInv, Published, Seed, At
<1>2. Spec => [](TypeInv /\ SeedInv)
  BY InitFresh, FreshStep, InitSeeds, SeedStep, TypesKept, PTL DEF Spec
<1>3. TypeInv /\ SeedInv /\ [Next]_vars
        => [~perUser => \A j \in Jobs : Seed(j) => job[j].info \notin used]_vars
  BY <1>1
<1> QED
  BY <1>2, <1>3, PTL DEF Spec, SeedBeforeUse
=============================================================================

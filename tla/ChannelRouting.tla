--------------------------- MODULE ChannelRouting ---------------------------
(***************************************************************************)
(* Where messages go: the channel bookkeeping of src/router.py and of      *)
(* MappingStorage.  Every replica keeps _user_channels, the last channel   *)
(* of an identity; the table user_channel keeps it for all of them.        *)
(* Inbound events write both, proactive and triggered messages read them.  *)
(*                                                                         *)
(* A job is one call of handle_event, handle_proactive or trigger_message, *)
(* its steps the code between two awaits.  An identity is a pair of a      *)
(* provider and a provider_user_id; the manager's callback passes the key  *)
(* of an identity where handle_proactive expects a provider_user_id, so    *)
(* the second component may be a pair again.                               *)
(***************************************************************************)
EXTENDS FiniteSets

CONSTANTS
  Replicas,
  Providers,
  Default,    \* DEFAULT_PROVIDER
  Users,      \* provider_user_ids
  Rooms,      \* channels of a provider other than direct messages
  Jobs,       \* bound on concurrent calls
  MayFail,    \* may the database and the creation of a DM fail?
  None

ASSUME DefaultAssumption == Default \in Providers
ASSUME MayFailAssumption == MayFail \in BOOLEAN

Persons == Providers \X Users

(* A provider_user_id is never a key of an identity (provider:id) itself.   *)
ASSUME UsersAssumption == Users \cap Persons = {}
ASSUME NoneAssumption == None \notin Persons \cup (Providers \X Rooms)

Identities == Providers \X (Users \cup Persons)
Channel(p, room) == <<p, room>>
Direct(id) == <<id[1], id[2]>>
Channels == (Providers \X Rooms) \cup Persons

VARIABLES
  cache,    \* _user_channels of each replica
  db,       \* user_channel
  job,      \* the calls in progress
  seen,     \* history: channels each person has written in
  sent,     \* history: <<person, channel>> of messages delivered
  dropped,  \* history: persons a message to whom was dropped
  opened    \* history: persons for whom a DM was created though a channel
            \* was in the cache

vars == <<cache, db, job, seen, sent, dropped, opened>>
history == <<seen, sent, dropped, opened>>

NoChannels == [id \in Identities |-> None]
Free == [pc |-> "free"]

Init ==
  /\ cache = [r \in Replicas |-> NoChannels]
  /\ db = NoChannels
  /\ job = [j \in Jobs |-> Free]
  /\ seen = [x \in Persons |-> {}]
  /\ sent = {} /\ dropped = {} /\ opened = {}

-----------------------------------------------------------------------------
(* _normalize_identity_key, _provider_user_id: a user_id that is a key of    *)
(* this provider stands for itself                                          *)
Normalize(p, userId) == IF userId \in {p} \X Users THEN userId ELSE <<p, userId>>

Begin(j, r, id, person, ch, pc) ==
  job' = [job EXCEPT ![j] = [pc |-> pc, r |-> r, id |-> id, to |-> person, ch |-> ch]]

Step(j, pc) == job' = [job EXCEPT ![j].pc = pc]
Finish(j) == job' = [job EXCEPT ![j] = Free]

(* _remember_channel, up to its await of the database *)
Cached(r, id, ch) == cache' = [cache EXCEPT ![r][id] = ch]

(* handle_event: the rest of it is ReplyDelivery *)
HandleEvent(j, r, x, room) ==
  /\ job[j].pc = "free"
  /\ Cached(r, x, Channel(x[1], room))
  /\ seen' = [seen EXCEPT ![x] = @ \cup {Channel(x[1], room)}]
  /\ Begin(j, r, x, None, Channel(x[1], room), "update")
  /\ UNCHANGED <<db, sent, dropped, opened>>

(* handle_proactive and trigger_message up to their first await: with a      *)
(* cached channel get_or_create_channel goes on to open a DM                *)
Deliver(j, r, id, person) ==
  /\ job[j].pc = "free"
  /\ Begin(j, r, id, person, None, IF cache[r][id] = None THEN "lookup" ELSE "dm")
  /\ UNCHANGED <<cache, db, history>>

(* the WebSocket manager's callback: on_proactive(user_id, text) *)
HandleProactive(j, r, person) == Deliver(j, r, Normalize(Default, person), person)

(* POST /api/v1/notify and /trigger name the provider *)
Notify(j, r, person) == Deliver(j, r, Normalize(person[1], person[2]), person)

-----------------------------------------------------------------------------
(* The steps of a call.                                                    *)

(* Mutant: the provider is missing from the query. *)
RowOfAny(id) ==
  LET rows == {i \in Identities : i[2] = id[2] /\ db[i] # None}
  IN  IF rows = {} THEN None ELSE db[CHOOSE i \in rows : i # id \/ rows = {id}]

(* mapping.get_channel *)
RowOf(id) == db[id]

Lookup(j) ==
  LET id == job[j].id
  IN  /\ job[j].pc = "lookup"
      /\ \/ /\ RowOf(id) # None
            /\ Cached(job[j].r, id, RowOf(id))
            /\ job' = [job EXCEPT ![j].pc = "send", ![j].ch = RowOf(id)]
         \/ /\ MayFail \/ RowOf(id) = None
            /\ Step(j, "dm")
            /\ UNCHANGED cache
      /\ UNCHANGED <<db, history>>

(* external: a DM exists for users of the provider *)
CreateDm(j) ==
  LET r == job[j].r
      id == job[j].id
  IN  /\ job[j].pc = "dm"
      /\ opened' = IF cache[r][id] # None THEN opened \cup {job[j].to} ELSE opened
      /\ \/ /\ id \in Persons
            /\ Cached(r, id, Direct(id))
            /\ job' = [job EXCEPT ![j].pc = "update", ![j].ch = Direct(id)]
            /\ UNCHANGED dropped
         \/ /\ MayFail \/ id \notin Persons
            /\ dropped' = dropped \cup {job[j].to}
            /\ Finish(j)
            /\ UNCHANGED cache
      /\ UNCHANGED <<db, seen, sent>>

(* Mutant: handle_event, too, goes on to deliver something. *)
RememberedSends(j) == Step(j, "send")

Remembered(j) == IF job[j].to = None THEN Finish(j) ELSE Step(j, "send")

(* Mutant: the cache keeps its entry, the table the older one. *)
UpdateNothing(j) ==
  /\ job[j].pc = "update"
  /\ \/ /\ db[job[j].id] # None
        /\ Remembered(j)
     \/ /\ db[job[j].id] = None
        /\ Step(j, "insert")
  /\ UNCHANGED <<cache, db, history>>

(* mapping.remember_channel: UPDATE *)
Update(j) ==
  /\ job[j].pc = "update"
  /\ \/ /\ db[job[j].id] # None
        /\ db' = [db EXCEPT ![job[j].id] = job[j].ch]
        /\ Remembered(j)
     \/ /\ db[job[j].id] = None
        /\ Step(j, "insert")
        /\ UNCHANGED db
  /\ UNCHANGED <<cache, history>>

(* its INSERT, which fails if another call has inserted the row *)
Insert(j) ==
  /\ job[j].pc = "insert"
  /\ IF db[job[j].id] = None
     THEN db' = [db EXCEPT ![job[j].id] = job[j].ch]
     ELSE UNCHANGED db
  /\ Remembered(j)
  /\ UNCHANGED <<cache, history>>

(* a failure of the database is only logged *)
NotPersisted(j) ==
  /\ MayFail
  /\ job[j].pc \in {"update", "insert"}
  /\ Remembered(j)
  /\ UNCHANGED <<cache, db, history>>

(* adapter.send_reply; a trigger has waited for its answer by now *)
Send(j) ==
  /\ job[j].pc = "send"
  /\ sent' = sent \cup {<<job[j].to, job[j].ch>>}
  /\ Finish(j)
  /\ UNCHANGED <<cache, db, seen, dropped, opened>>

(* the process of a replica ends and starts again *)
Restart(r) ==
  /\ cache' = [cache EXCEPT ![r] = NoChannels]
  /\ job' = [j \in Jobs |-> IF job[j].pc # "free" /\ job[j].r = r THEN Free ELSE job[j]]
  /\ UNCHANGED <<db, history>>

-----------------------------------------------------------------------------

Next ==
  \/ \E j \in Jobs, r \in Replicas, x \in Persons :
       \/ \E room \in Rooms : HandleEvent(j, r, x, room)
       \/ HandleProactive(j, r, x)
       \/ Notify(j, r, x)
  \/ \E j \in Jobs : \/ Lookup(j) \/ CreateDm(j) \/ Update(j) \/ Insert(j)
                     \/ NotPersisted(j) \/ Send(j)
  \/ \E r \in Replicas : Restart(r)

Spec == Init /\ [][Next]_vars

-----------------------------------------------------------------------------
(* The types of the caches, the table and the calls. *)
TypeOK ==
  /\ cache \in [Replicas -> [Identities -> Channels \cup {None}]]
  /\ db \in [Identities -> Channels \cup {None}]
  /\ job \in [Jobs ->
       {Free} \cup [pc : {"lookup", "dm", "update", "insert", "send"},
                    r : Replicas, id : Identities,
                    to : Persons \cup {None}, ch : Channels \cup {None}]]
  /\ seen \in [Persons -> SUBSET Channels]
  /\ sent \subseteq Persons \X Channels
  /\ dropped \subseteq Persons /\ opened \subseteq Persons

(* A message for a person goes to a channel where that person has written,  *)
(* or to their own DM: whatever the caches, restarts and failures are, no   *)
(* identity ever gets the channel of another one with the same user id.     *)
OwnChannels ==
  \A s \in sent : s[2] \in seen[s[1]] \cup {Direct(s[1])}

(* "the source of truth is the user_channel table ... this dict only avoids *)
(* a DB read" (router.py:111-113): with nothing on its way to the table, a  *)
(* cached channel is the one the table has.                                 *)
CacheAgrees ==
  (\A j \in Jobs : job[j].pc \notin {"update", "insert"})
    => \A r \in Replicas, id \in Identities : cache[r][id] \in {None, db[id]}

(* "Get the user's last known channel (local cache -> DB), or create a DM"  *)
(* (get_or_create_channel): no DM is created for a cached channel.          *)
NoDMWhenKnown == opened = {}

(* "Deliver a proactive message from OpenClaw to the user's last known      *)
(* channel" (handle_proactive): with a database and platforms that do not   *)
(* fail, no message to a person with a known channel is dropped.            *)
ProactiveKept == \A x \in dropped : db[x] = None

=============================================================================

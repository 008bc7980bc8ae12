------------------------ MODULE ChannelRoutingProofs ------------------------
(***************************************************************************)
(* What holds of the channel bookkeeping for any number of replicas,       *)
(* providers, users, rooms and calls.                                      *)
(*                                                                         *)
(* OwnChannels is about the messages delivered; the reason for it is       *)
(* Bookkeeping below: whatever is known of a person, in a cache, in the    *)
(* table or by a call on its way to either, is that person's own.          *)
(***************************************************************************)
EXTENDS ChannelRouting, TLAPS

(* The channels that are right for a person x, if s tells in which channels  *)
(* each person has written.                                                 *)
Own(s, x) == s[x] \cup {Direct(x)}

(* Nothing is kept for the identities that belong to nobody, the doubled     *)
(* keys of handle_proactive.                                                *)
Kept(s, id, ch) == ch # None => id \in Persons /\ ch \in Own(s, id)

(* What a call knows: whom it is for, and that the channel it carries is     *)
(* theirs.                                                                  *)
CallKnows(s, c) ==
  /\ c.pc \in {"lookup", "dm", "send"} => c.to # None
  /\ c.pc \in {"update", "insert", "send"} => c.id \in Persons /\ c.ch \in Own(s, c.id)
  /\ c.pc # "free" /\ c.to # None /\ c.id \in Persons => c.id = c.to

Bookkeeping ==
  /\ \A r \in Replicas, id \in Identities : Kept(seen, id, cache[r][id])
  /\ \A id \in Identities : Kept(seen, id, db[id])
  /\ \A j \in Jobs : CallKnows(seen, job[j])

-----------------------------------------------------------------------------
(* Keys.                                                                   *)

(* A person's direct channel is named like the person, and persons are      *)
(* identities.                                                              *)
LEMMA PersonKeys ==
  /\ \A x \in Persons : x \in Identities /\ Direct(x) = x /\ Direct(x) \in Channels
  /\ \A x \in Persons : x[1] \in Providers /\ x[2] \in Users
  /\ \A p \in Providers, room \in Rooms : Channel(p, room) \in Channels
  /\ None \notin Channels /\ None \notin Persons
BY NoneAssumption DEF Persons, Identities, Direct, Channel, Channels

(* The key of a notification is the person it names; the key of a proactive *)
(* message is either that person or nobody's (_normalize_identity_key).     *)
LEMMA NormalizedKeys ==
  ASSUME NEW x \in Persons
  PROVE  /\ Normalize(x[1], x[2]) = x
         /\ Normalize(Default, x) \in Identities
         /\ Normalize(Default, x) \in Persons => Normalize(Default, x) = x
<1>1. x[1] \in Providers /\ x[2] \in Users /\ x = <<x[1], x[2]>>
  BY DEF Persons
<1>2. Normalize(x[1], x[2]) = x
  <2>1. x[2] \notin {x[1]} \X Users
    BY <1>1, UsersAssumption DEF Persons
  <2> QED
    BY <1>1, <2>1 DEF Normalize
<1>3. CASE x \in {Default} \X Users
  BY <1>2, <1>3 DEF Normalize, Identities, Persons
<1>4. CASE x \notin {Default} \X Users
  <2>1. Normalize(Default, x) = <<Default, x>>
    BY <1>4 DEF Normalize
  <2>2. <<Default, x>> \in Identities
    BY DefaultAssumption DEF Identities
  <2>3. <<Default, x>> \notin Persons
    BY UsersAssumption DEF Persons
  <2> QED
    BY <1>2, <2>1, <2>2, <2>3
<1> QED
  BY <1>3, <1>4

-----------------------------------------------------------------------------
(* Types.                                                                  *)

Call == [pc : {"lookup", "dm", "update", "insert", "send"},
         r : Replicas, id : Identities,
         to : Persons \cup {None}, ch : Channels \cup {None}]

(* A call is free or has all of its fields. *)
LEMMA CallFields ==
  /\ Free.pc = "free"
  /\ \A c \in Call : c.pc # "free"
  /\ \A c \in {Free} \cup Call : c.pc # "free" =>
       /\ c \in Call
       /\ c.r \in Replicas /\ c.id \in Identities
       /\ c.to \in Persons \cup {None} /\ c.ch \in Channels \cup {None}
BY DEF Call, Free

(* A step of one call. *)
LEMMA CallStep ==
  ASSUME TypeOK, NEW j \in Jobs, NEW c \in {Free} \cup Call, job' = [job EXCEPT ![j] = c]
  PROVE  /\ job' \in [Jobs -> {Free} \cup Call]
         /\ job'[j] = c
         /\ \A k \in Jobs \ {j} : job'[k] = job[k]
BY DEF TypeOK, Call

(* An entry of a replica's cache is written (_remember_channel). *)
LEMMA CachedStep ==
  ASSUME TypeOK, NEW r \in Replicas, NEW id \in Identities, NEW ch \in Channels,
         Cached(r, id, ch)
  PROVE  /\ cache' \in [Replicas -> [Identities -> Channels \cup {None}]]
         /\ cache'[r][id] = ch
         /\ \A q \in Replicas, i \in Identities :
              q # r \/ i # id => cache'[q][i] = cache[q][i]
BY DEF TypeOK, Cached

-----------------------------------------------------------------------------
(* A person's own channels stay their own.                                 *)

(* What was known stays right when persons only write in more channels. *)
LEMMA KnowledgeGrows ==
  ASSUME NEW s, NEW t, \A x \in Persons : s[x] \subseteq t[x]
  PROVE  /\ \A id, ch : Kept(s, id, ch) => Kept(t, id, ch)
         /\ \A c : CallKnows(s, c) => CallKnows(t, c)
BY DEF Kept, CallKnows, Own

(* One call makes a step, and writes at most one entry of a cache and one    *)
(* row of the table: the bookkeeping stays right if what it writes and what *)
(* it carries is right.                                                     *)
LEMMA OneCall ==
  ASSUME Bookkeeping, NEW j \in Jobs, CallKnows(seen', job'[j]),
         \A k \in Jobs \ {j} : job'[k] = job[k],
         \A x \in Persons : seen[x] \subseteq seen'[x],
         \A r \in Replicas, id \in Identities :
           cache'[r][id] = cache[r][id] \/ Kept(seen', id, cache'[r][id]),
         \A id \in Identities : db'[id] = db[id] \/ Kept(seen', id, db'[id])
  PROVE  Bookkeeping'
<1>1. \A r \in Replicas, id \in Identities : Kept(seen', id, cache'[r][id])
  BY KnowledgeGrows DEF Bookkeeping
<1>2. \A id \in Identities : Kept(seen', id, db'[id])
  BY KnowledgeGrows DEF Bookkeeping
<1>3. \A k \in Jobs : CallKnows(seen', job'[k])
  BY KnowledgeGrows DEF Bookkeeping
<1> QED
  BY <1>1, <1>2, <1>3 DEF Bookkeeping

(* A call ends, or goes on with the same knowledge. *)
LEMMA SameCall ==
  ASSUME NEW s, NEW c \in Call, CallKnows(s, c), c.pc \in {"update", "insert"}
  PROVE  /\ CallKnows(s, Free)
         /\ CallKnows(s, [c EXCEPT !.pc = "insert"])
         /\ c.to # None => CallKnows(s, [c EXCEPT !.pc = "send"])
BY DEF CallKnows, Free, Call

-----------------------------------------------------------------------------
(* The steps.                                                              *)

(* handle_event writes down the channel the person is writing in. *)
LEMMA HandleEventStep ==
  ASSUME TypeOK, Bookkeeping, NEW j \in Jobs, NEW r \in Replicas, NEW x \in Persons,
         NEW room \in Rooms, HandleEvent(j, r, x, room)
  PROVE  TypeOK' /\ Bookkeeping'
<1> DEFINE ch == Channel(x[1], room)
           c == [pc |-> "update", r |-> r, id |-> x, to |-> None, ch |-> ch]
<1>1. ch \in Channels /\ x \in Identities
  BY PersonKeys
<1>2. c \in Call
  BY <1>1 DEF Call
<1>3. /\ job' = [job EXCEPT ![j] = c] /\ Cached(r, x, ch)
      /\ seen' = [seen EXCEPT ![x] = @ \cup {ch}]
      /\ UNCHANGED <<db, sent, dropped, opened>>
  BY DEF HandleEvent, Begin
<1> HIDE DEF c, ch
<1>4. /\ job' \in [Jobs -> {Free} \cup Call] /\ job'[j] = c
      /\ \A k \in Jobs \ {j} : job'[k] = job[k]
  BY <1>2, <1>3, CallStep
<1>5. /\ cache' \in [Replicas -> [Identities -> Channels \cup {None}]]
      /\ cache'[r][x] = ch
      /\ \A q \in Replicas, i \in Identities :
           q # r \/ i # x => cache'[q][i] = cache[q][i]
  BY <1>1, <1>3, CachedStep
<1>6. /\ seen' \in [Persons -> SUBSET Channels] /\ ch \in seen'[x]
      /\ \A y \in Persons : seen[y] \subseteq seen'[y]
  BY <1>1, <1>3 DEF TypeOK
<1>7. TypeOK'
  BY <1>3, <1>4, <1>5, <1>6 DEF TypeOK, Call
<1>8. CallKnows(seen', job'[j]) /\ Kept(seen', x, ch)
  BY <1>4, <1>6 DEF CallKnows, Kept, Own, c
<1>9. \A q \in Replicas, i \in Identities :
        cache'[q][i] = cache[q][i] \/ Kept(seen', i, cache'[q][i])
  BY <1>5, <1>8
<1>10. db' = db
  BY <1>3
<1>11. Bookkeeping'
  BY <1>4, <1>6, <1>8, <1>9, <1>10, OneCall
<1> QED
  BY <1>7, <1>11

(* A message that the gateway or the control plane asks for is for the       *)
(* person whose key it looks up, or for nobody.                             *)
LEMMA DeliverStep ==
  ASSUME TypeOK, Bookkeeping, NEW j \in Jobs, NEW r \in Replicas, NEW x \in Persons,
         NEW id \in Identities, id \in Persons => id = x,
         Deliver(j, r, id, x)
  PROVE  TypeOK' /\ Bookkeeping'
<1> DEFINE c == [pc |-> IF cache[r][id] = None THEN "lookup" ELSE "dm",
                 r |-> r, id |-> id, to |-> x, ch |-> None]
<1>1. c \in Call
  BY DEF Call
<1>2. job' = [job EXCEPT ![j] = c] /\ UNCHANGED <<cache, db, history>>
  BY DEF Deliver, Begin
<1>3. CallKnows(seen, c)
  BY PersonKeys DEF CallKnows
<1> HIDE DEF c
<1>4. /\ job' \in [Jobs -> {Free} \cup Call] /\ job'[j] = c
      /\ \A k \in Jobs \ {j} : job'[k] = job[k]
  BY <1>1, <1>2, CallStep
<1>5. TypeOK'
  BY <1>2, <1>4 DEF TypeOK, Call, history
<1>6. Bookkeeping'
  BY <1>2, <1>3, <1>4, OneCall DEF history
<1> QED
  BY <1>5, <1>6

(* A row of the table is that person's own channel. *)
LEMMA LookupStep ==
  ASSUME TypeOK, Bookkeeping, NEW j \in Jobs, Lookup(j)
  PROVE  TypeOK' /\ Bookkeeping'
<1> DEFINE o == job[j]
<1>1. /\ o \in Call /\ o.id \in Identities /\ o.r \in Replicas /\ o.pc = "lookup"
      /\ CallKnows(seen, o)
  BY CallFields DEF Lookup, TypeOK, Call, Bookkeeping
<1>2. UNCHANGED <<db, seen, sent, dropped, opened>>
  BY DEF Lookup, history
<1>3. CASE /\ db[o.id] # None /\ Cached(o.r, o.id, db[o.id])
           /\ job' = [job EXCEPT ![j].pc = "send", ![j].ch = db[o.id]]
  <2> DEFINE c == [o EXCEPT !.pc = "send", !.ch = db[o.id]]
  <2>1. Kept(seen, o.id, db[o.id]) /\ db[o.id] \in Channels
    BY <1>1, <1>3 DEF Bookkeeping, TypeOK
  <2>2. job' = [job EXCEPT ![j] = c]
    BY <1>3 DEF TypeOK
  <2>3. c \in Call /\ CallKnows(seen, c)
    BY <1>1, <1>3, <2>1 DEF CallKnows, Call, Kept
  <2> HIDE DEF c
  <2>4. /\ job' \in [Jobs -> {Free} \cup Call] /\ job'[j] = c
        /\ \A k \in Jobs \ {j} : job'[k] = job[k]
    BY <2>2, <2>3, CallStep
  <2>5. /\ cache' \in [Replicas -> [Identities -> Channels \cup {None}]]
        /\ cache'[o.r][o.id] = db[o.id]
        /\ \A q \in Replicas, i \in Identities :
             q # o.r \/ i # o.id => cache'[q][i] = cache[q][i]
    BY <1>1, <1>3, <2>1, CachedStep
  <2>6. TypeOK'
    BY <1>2, <2>4, <2>5 DEF TypeOK, Call
  <2>7. Bookkeeping'
    BY <1>2, <2>1, <2>3, <2>4, <2>5, OneCall
  <2> QED
    BY <2>6, <2>7
<1>4. CASE job' = [job EXCEPT ![j].pc = "dm"] /\ UNCHANGED cache
  <2> DEFINE c == [o EXCEPT !.pc = "dm"]
  <2>1. job' = [job EXCEPT ![j] = c]
    BY <1>4 DEF TypeOK
  <2>2. c \in Call /\ CallKnows(seen, c)
    BY <1>1 DEF CallKnows, Call
  <2> HIDE DEF c
  <2>3. /\ job' \in [Jobs -> {Free} \cup Call] /\ job'[j] = c
        /\ \A k \in Jobs \ {j} : job'[k] = job[k]
    BY <2>1, <2>2, CallStep
  <2>4. TypeOK'
    BY <1>2, <1>4, <2>3 DEF TypeOK, Call
  <2>5. Bookkeeping'
    BY <1>2, <1>4, <2>2, <2>3, OneCall
  <2> QED
    BY <2>4, <2>5
<1> QED
  BY <1>3, <1>4 DEF Lookup, RowOf, Step

(* A DM that is created is the person's own. *)
LEMMA CreateDmStep ==
  ASSUME TypeOK, Bookkeeping, NEW j \in Jobs, CreateDm(j)
  PROVE  TypeOK' /\ Bookkeeping'
<1> DEFINE o == job[j]
<1>1. /\ o \in Call /\ o.id \in Identities /\ o.r \in Replicas /\ o.pc = "dm"
      /\ o.to \in Persons /\ CallKnows(seen, o)
  BY CallFields DEF CreateDm, TypeOK, Call, Bookkeeping, CallKnows
<1>2. UNCHANGED <<db, seen, sent>> /\ opened' \subseteq Persons
  BY <1>1 DEF CreateDm, TypeOK
<1>3. CASE /\ o.id \in Persons /\ Cached(o.r, o.id, Direct(o.id))
           /\ job' = [job EXCEPT ![j].pc = "update", ![j].ch = Direct(o.id)]
           /\ UNCHANGED dropped
  <2> DEFINE c == [o EXCEPT !.pc = "update", !.ch = Direct(o.id)]
  <2>1. Kept(seen, o.id, Direct(o.id)) /\ Direct(o.id) \in Channels
    BY <1>3, PersonKeys DEF Kept, Own
  <2>2. job' = [job EXCEPT ![j] = c]
    BY <1>3 DEF TypeOK
  <2>3. c \in Call /\ CallKnows(seen, c)
    BY <1>1, <1>3, <2>1, PersonKeys DEF CallKnows, Call, Own
  <2> HIDE DEF c
  <2>4. /\ job' \in [Jobs -> {Free} \cup Call] /\ job'[j] = c
        /\ \A k \in Jobs \ {j} : job'[k] = job[k]
    BY <2>2, <2>3, CallStep
  <2>5. /\ cache' \in [Replicas -> [Identities -> Channels \cup {None}]]
        /\ cache'[o.r][o.id] = Direct(o.id)
        /\ \A q \in Replicas, i \in Identities :
             q # o.r \/ i # o.id => cache'[q][i] = cache[q][i]
    BY <1>1, <1>3, <2>1, CachedStep
  <2>6. TypeOK'
    BY <1>2, <1>3, <2>4, <2>5 DEF TypeOK, Call
  <2>7. Bookkeeping'
    BY <1>2, <2>1, <2>3, <2>4, <2>5, OneCall
  <2> QED
    BY <2>6, <2>7
<1>4. CASE /\ dropped' = dropped \cup {o.to}
           /\ Finish(j) /\ UNCHANGED cache
  <2>1. /\ job' \in [Jobs -> {Free} \cup Call] /\ job'[j] = Free
        /\ \A k \in Jobs \ {j} : job'[k] = job[k]
    BY <1>4, CallStep DEF Finish
  <2>2. TypeOK'
    BY <1>1, <1>2, <1>4, <2>1 DEF TypeOK, Call
  <2>3. CallKnows(seen, Free)
    BY DEF CallKnows, Free
  <2>4. Bookkeeping'
    BY <1>2, <1>4, <2>1, <2>3, OneCall
  <2> QED
    BY <2>2, <2>4
<1> QED
  BY <1>3, <1>4 DEF CreateDm

(* A call that has seen to the table goes on to send, if it has anything to   *)
(* send.                                                                    *)
LEMMA RememberedStep ==
  ASSUME TypeOK, Bookkeeping, NEW j \in Jobs, job[j].pc \in {"update", "insert"},
         Remembered(j) \/ Step(j, "insert")
  PROVE  /\ job' \in [Jobs -> {Free} \cup Call]
         /\ CallKnows(seen, job'[j])
         /\ \A k \in Jobs \ {j} : job'[k] = job[k]
<1> DEFINE o == job[j]
<1>1. o \in Call /\ CallKnows(seen, o)
  BY CallFields DEF TypeOK, Call, Bookkeeping
<1>2. CASE Finish(j)
  BY <1>1, <1>2, CallStep, SameCall DEF Finish
<1>3. CASE o.to # None /\ Step(j, "send")
  <2> DEFINE c == [o EXCEPT !.pc = "send"]
  <2>1. c \in Call /\ job' = [job EXCEPT ![j] = c]
    BY <1>1, <1>3 DEF Step, TypeOK, Call
  <2>2. CallKnows(seen, c)
    BY <1>1, <1>3, SameCall
  <2> QED
    BY <2>1, <2>2, CallStep
<1>4. CASE Step(j, "insert")
  <2> DEFINE c == [o EXCEPT !.pc = "insert"]
  <2>1. c \in Call /\ job' = [job EXCEPT ![j] = c]
    BY <1>1, <1>4 DEF Step, TypeOK, Call
  <2>2. CallKnows(seen, c)
    BY <1>1, SameCall
  <2> QED
    BY <2>1, <2>2, CallStep
<1> QED
  BY <1>2, <1>3, <1>4 DEF Remembered

(* The table gets the channel of the call, or keeps what it has              *)
(* (remember_channel).                                                      *)
LEMMA PersistStep ==
  ASSUME TypeOK, Bookkeeping, NEW j \in Jobs,
         Update(j) \/ Insert(j) \/ NotPersisted(j)
  PROVE  TypeOK' /\ Bookkeeping'
<1> DEFINE o == job[j]
<1>1. /\ o \in Call /\ o.id \in Persons /\ o.id \in Identities
      /\ o.ch \in Own(seen, o.id) /\ o.pc \in {"update", "insert"}
  BY CallFields DEF Update, Insert, NotPersisted, TypeOK, Call, Bookkeeping, CallKnows
<1>2. o.ch \in Channels /\ Kept(seen, o.id, o.ch)
  BY <1>1, PersonKeys DEF Kept, Own, TypeOK
<1>3. /\ UNCHANGED <<cache, seen, sent, dropped, opened>>
      /\ Remembered(j) \/ Step(j, "insert")
      /\ db' = db \/ db' = [db EXCEPT ![o.id] = o.ch]
  BY DEF Update, Insert, NotPersisted, history
<1>4. /\ job' \in [Jobs -> {Free} \cup Call]
      /\ CallKnows(seen, job'[j])
      /\ \A k \in Jobs \ {j} : job'[k] = job[k]
  BY <1>1, <1>3, RememberedStep
<1>5. /\ db' \in [Identities -> Channels \cup {None}]
      /\ \A i \in Identities : db'[i] = db[i] \/ Kept(seen, i, db'[i])
  BY <1>1, <1>2, <1>3 DEF TypeOK
<1>6. TypeOK'
  BY <1>3, <1>4, <1>5 DEF TypeOK, Call
<1>7. Bookkeeping'
  BY <1>3, <1>4, <1>5, OneCall
<1> QED
  BY <1>6, <1>7

(* What is sent goes to the person the call is for, in a channel of theirs. *)
LEMMA SendStep ==
  ASSUME TypeOK, Bookkeeping, NEW j \in Jobs, Send(j)
  PROVE  /\ TypeOK' /\ Bookkeeping'
         /\ OwnChannels => OwnChannels'
<1> DEFINE o == job[j]
<1>1. /\ o \in Call /\ o.id = o.to /\ o.to \in Persons
      /\ o.ch \in Own(seen, o.to) /\ o.ch \in Channels
  BY CallFields, PersonKeys DEF Send, TypeOK, Call, Bookkeeping, CallKnows, Own
<1>2. /\ sent' = sent \cup {<<o.to, o.ch>>}
      /\ UNCHANGED <<cache, db, seen, dropped, opened>> /\ Finish(j)
  BY DEF Send
<1>3. /\ job' \in [Jobs -> {Free} \cup Call] /\ job'[j] = Free
      /\ \A k \in Jobs \ {j} : job'[k] = job[k]
  BY <1>2, CallStep DEF Finish
<1>4. TypeOK'
  BY <1>1, <1>2, <1>3 DEF TypeOK, Call
<1>5. CallKnows(seen, Free)
  BY DEF CallKnows, Free
<1>6. Bookkeeping'
  BY <1>2, <1>3, <1>5, OneCall
<1>7. OwnChannels => OwnChannels'
  BY <1>1, <1>2 DEF OwnChannels, Own
<1> QED
  BY <1>4, <1>6, <1>7

(* A restart forgets, and what is forgotten is not wrong. *)
LEMMA RestartStep ==
  ASSUME TypeOK, Bookkeeping, NEW r \in Replicas, Restart(r)
  PROVE  TypeOK' /\ Bookkeeping'
<1>1. /\ UNCHANGED <<db, seen, sent, dropped, opened>>
      /\ \A q \in Replicas, i \in Identities :
           cache'[q][i] = cache[q][i] \/ cache'[q][i] = None
      /\ cache' \in [Replicas -> [Identities -> Channels \cup {None}]]
  BY DEF Restart, history, NoChannels, TypeOK
<1>2. /\ \A j \in Jobs : job'[j] = job[j] \/ job'[j] = Free
      /\ job' \in [Jobs -> {Free} \cup Call]
  BY DEF Restart, TypeOK, Call
<1>3. TypeOK'
  BY <1>1, <1>2 DEF TypeOK, Call
<1>4. CallKnows(seen, Free) /\ \A i : Kept(seen, i, None)
  BY DEF CallKnows, Free, Kept
<1>5. Bookkeeping'
  BY <1>1, <1>2, <1>4 DEF Bookkeeping
<1> QED
  BY <1>3, <1>5

-----------------------------------------------------------------------------
(* The theorems.                                                           *)

(* Nothing is known at first. *)
LEMMA InitKnows == Init => TypeOK /\ Bookkeeping /\ OwnChannels
<1> SUFFICES ASSUME Init PROVE TypeOK /\ Bookkeeping /\ OwnChannels
  OBVIOUS
<1>1. TypeOK
  BY DEF Init, TypeOK, NoChannels
<1>2. CallKnows(seen, Free) /\ \A i : Kept(seen, i, None)
  BY DEF CallKnows, Free, Kept
<1>3. Bookkeeping
  BY <1>2 DEF Init, Bookkeeping, NoChannels
<1> QED
  BY <1>1, <1>3 DEF Init, OwnChannels

(* Every step keeps the bookkeeping right, and the messages with it. *)
LEMMA NextKnows ==
  ASSUME TypeOK, Bookkeeping, [Next]_vars
  PROVE  /\ TypeOK' /\ Bookkeeping'
         /\ OwnChannels => OwnChannels'
<1>1. ASSUME NEW j \in Jobs, NEW r \in Replicas, NEW x \in Persons, NEW room \in Rooms,
             HandleEvent(j, r, x, room)
      PROVE  TypeOK' /\ Bookkeeping' /\ (OwnChannels => OwnChannels')
  <2>1. TypeOK' /\ Bookkeeping'
    BY <1>1, HandleEventStep
  <2>2. sent' = sent /\ \A y \in Persons : seen[y] \subseteq seen'[y]
    BY <1>1 DEF HandleEvent, TypeOK
  <2> QED
    BY <2>1, <2>2 DEF OwnChannels, TypeOK
<1>2. ASSUME NEW j \in Jobs, NEW r \in Replicas, NEW x \in Persons,
             HandleProactive(j, r, x) \/ Notify(j, r, x)
      PROVE  TypeOK' /\ Bookkeeping' /\ (OwnChannels => OwnChannels')
  <2>1. PICK id \in Identities : (id \in Persons => id = x) /\ Deliver(j, r, id, x)
    BY <1>2, NormalizedKeys, PersonKeys DEF HandleProactive, Notify
  <2>2. TypeOK' /\ Bookkeeping'
    BY <2>1, DeliverStep
  <2> QED
    BY <2>1, <2>2 DEF Deliver, history, OwnChannels
<1>3. ASSUME NEW j \in Jobs, Lookup(j) \/ CreateDm(j)
      PROVE  TypeOK' /\ Bookkeeping' /\ (OwnChannels => OwnChannels')
  BY <1>3, LookupStep, CreateDmStep DEF Lookup, CreateDm, history, OwnChannels
<1>4. ASSUME NEW j \in Jobs, Update(j) \/ Insert(j) \/ NotPersisted(j)
      PROVE  TypeOK' /\ Bookkeeping' /\ (OwnChannels => OwnChannels')
  BY <1>4, PersistStep DEF Update, Insert, NotPersisted, history, OwnChannels
<1>5. ASSUME NEW j \in Jobs, Send(j)
      PROVE  TypeOK' /\ Bookkeeping' /\ (OwnChannels => OwnChannels')
  BY <1>5, SendStep
<1>6. ASSUME NEW r \in Replicas, Restart(r)
      PROVE  TypeOK' /\ Bookkeeping' /\ (OwnChannels => OwnChannels')
  BY <1>6, RestartStep DEF Restart, history, OwnChannels
<1>7. CASE UNCHANGED vars
  <2>1. UNCHANGED <<cache, db, job, seen, sent, dropped, opened>>
    BY <1>7 DEF vars
  <2> QED
    BY <2>1 DEF TypeOK, Bookkeeping, OwnChannels
<1> QED
  BY <1>1, <1>2, <1>3, <1>4, <1>5, <1>6, <1>7 DEF Next

(* The caches, the table and the calls keep their types. *)
THEOREM TypesKept == Spec => []TypeOK
<1>1. TypeOK /\ Bookkeeping /\ [Next]_vars => TypeOK' /\ Bookkeeping'
  BY NextKnows
<1> QED
  BY <1>1, InitKnows, PTL DEF Spec

(* However the caches of the replicas, the table, failures and restarts      *)
(* interleave, a person gets messages only in channels where they have      *)
(* written and in their own DM (handle_event, handle_proactive,             *)
(* trigger_message).                                                        *)
THEOREM OwnChannelsOnly == Spec => []OwnChannels
<1>1. /\ TypeOK /\ Bookkeeping /\ OwnChannels /\ [Next]_vars
      => TypeOK' /\ Bookkeeping' /\ OwnChannels'
  BY NextKnows
<1> QED
  BY <1>1, InitKnows, PTL DEF Spec
=============================================================================

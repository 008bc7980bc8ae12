---------------------------- MODULE ChannelIntake ----------------------------
(***************************************************************************)
(* How an event of a chat platform becomes a call of Router.handle_event:  *)
(* the receiving half of one chat adapter.                                 *)
(*   "poll"  telegram.py, vk_teams.py: a long poll with an offset, which   *)
(*           the platform takes as a confirmation of everything before it  *)
(*   "ack"   slack.py: a socket on which each envelope is acknowledged     *)
(*   "push"  mattermost.py: a socket without acknowledgements              *)
(* The offset is kept in memory only.  Each wanted event is handed to a    *)
(* task of its own (fire_and_forget), which ends this module's concern.    *)
(*                                                                         *)
(* Updates are numbered as the platform issues them.  Handling what has    *)
(* been received does not suspend, except at the acknowledgement.          *)
(***************************************************************************)
EXTENDS Integers, Sequences, SequencesExt

CONSTANTS
  Kinds,          \* kinds of adapter considered
  MaxUpdates,     \* bound on the updates
  MaxRestarts,    \* bound on the restarts of the process
  MaxRedelivered  \* bound on deliveries of what has been acknowledged before

ASSUME KindsAssumption == Kinds \subseteq {"poll", "ack", "push"}
ASSUME BoundsAssumption ==
  MaxUpdates \in Nat /\ MaxRestarts \in Nat /\ MaxRedelivered \in Nat

VARIABLES
  kind,      \* which adapter this is
  shape,     \* external: what each update is, so far
  held,      \* external: updates the platform keeps for (re)delivery
  wire,      \* external: updates on the socket
  acks,      \* external: acknowledgements on the socket
  link,      \* the adapter: not started, listening, ...
  hand,      \* updates received and not yet handled
  last,      \* _last_update_id, _last_event_id
  order,     \* history: what this process has dispatched, in order
  ever,      \* history: what any process has dispatched
  restarts, redelivered

vars == <<kind, shape, held, wire, acks, link, hand, last, order, ever,
          restarts, redelivered>>
platformVars == <<shape, held, wire, acks, redelivered>>
history == <<order, ever>>

Updates == 1..MaxUpdates
Shapes == {"message", "unwanted", "malformed"}
Posted == {n \in Updates : shape[n] # "none"}

Init ==
  /\ kind \in Kinds
  /\ shape = [n \in Updates |-> "none"]
  /\ held = {} /\ wire = {} /\ acks = {}
  /\ link = "off" /\ hand = {} /\ last = 0
  /\ order = <<>> /\ ever = {}
  /\ restarts = 0 /\ redelivered = 0

-----------------------------------------------------------------------------
(* The platform.                                                           *)

(* external: somebody writes, or something else happens in a channel *)
Post(s) ==
  LET n == Cardinality(Posted) + 1
  IN  /\ n \in Updates
      /\ shape' = [shape EXCEPT ![n] = s]
      /\ held' = IF kind = "push" THEN held ELSE held \cup {n}
      /\ wire' = IF kind = "push" /\ link = "up" THEN wire \cup {n} ELSE wire
      /\ UNCHANGED <<kind, acks, redelivered, link, hand, last, history, restarts>>

(* external: an envelope without an acknowledgement is delivered, and       *)
(* delivered again when its acknowledgement is late or was lost             *)
Deliver(n) ==
  LET again == n \in acks \cup hand \cup ToSet(order)
  IN  /\ kind = "ack" /\ link = "up"
      /\ n \in held \ wire
      /\ again => redelivered < MaxRedelivered
      /\ redelivered' = IF again THEN redelivered + 1 ELSE redelivered
      /\ wire' = wire \cup {n}
      /\ UNCHANGED <<kind, shape, held, acks, link, hand, last, history, restarts>>

AckArrives(n) ==
  /\ n \in acks
  /\ acks' = acks \ {n} /\ held' = held \ {n}
  /\ UNCHANGED <<kind, shape, wire, redelivered, link, hand, last, history, restarts>>

(* the socket goes, with what is on it: of the acknowledgements some arrive *)
Cut ==
  /\ wire' = {} /\ acks' = {}
  /\ \E arrived \in SUBSET acks : held' = held \ arrived

LoseLink ==
  /\ kind # "poll" /\ link = "up"
  /\ link' = "down"
  /\ Cut
  /\ UNCHANGED <<kind, shape, redelivered, hand, last, history, restarts>>

-----------------------------------------------------------------------------
(* start, stop                                                             *)

UnchangedByLink == <<kind, platformVars, hand, last, history, restarts>>

(* The login call of start().  If it raises, the listener's task ends and   *)
(* nobody starts the adapter again.                                         *)
StartOk ==
  /\ link = "off"
  /\ link' = IF kind = "poll" THEN "up" ELSE "down"
  /\ UNCHANGED UnchangedByLink

StartFails ==
  /\ link = "off"
  /\ link' = "dead"
  /\ UNCHANGED UnchangedByLink

(* the loop around the socket connects again *)
Connect ==
  /\ link = "down" /\ hand = {}
  /\ link' = "up"
  /\ UNCHANGED UnchangedByLink

(* stop() and a new process, or a crash: whatever was in memory is gone *)
Restart ==
  /\ restarts < MaxRestarts
  /\ restarts' = restarts + 1
  /\ link' = "off" /\ hand' = {} /\ last' = 0 /\ order' = <<>>
  /\ Cut
  /\ UNCHANGED <<kind, shape, redelivered, ever>>

-----------------------------------------------------------------------------
(* _handle_update, _handle_event, _handle_events_api, _handle_ws_event      *)

(* Mutant: updates of other types, empty ones and the bot's own count. *)
WantedAll(n) == shape[n] # "malformed"

Wanted(n) == shape[n] = "message"

Increasing(s) == \A i, j \in DOMAIN s : i < j => s[i] < s[j]
InTurn(S) == CHOOSE s \in SetToSeqs(S) : Increasing(s)

Dispatch(S) ==
  LET wanted == {n \in S : Wanted(n)}
  IN  /\ order' = order \o InTurn(wanted)
      /\ ever' = ever \cup wanted

-----------------------------------------------------------------------------
(* _poll_loop of telegram.py and vk_teams.py                                *)

(* Mutant: the offset is the last update's, not the next one's. *)
NewerInclusive(n) == n >= last

(* the offset of the request, and what it confirms *)
Newer(n) == n > last
Unconfirmed == {n \in held : Newer(n)}

(* external: the request arrives, then its answer *)
Answered ==
  /\ kind = "poll" /\ link = "up" /\ hand = {}
  /\ Unconfirmed # {}
  /\ held' = Unconfirmed
  /\ hand' = Unconfirmed
  /\ UNCHANGED <<kind, shape, wire, acks, redelivered, link, last, history, restarts>>

(* an error, a timeout, or an empty answer; the request may have arrived *)
PollFails ==
  /\ kind = "poll" /\ link = "up" /\ hand = {}
  /\ held' = Unconfirmed
  /\ UNCHANGED <<kind, shape, wire, acks, redelivered, link, hand, last, history,
                 restarts>>

Malformed(S) == {n \in S : shape[n] = "malformed"}

(* those handled before an exception leaves the loop over the answer, the   *)
(* one that raised included; the rest is fetched again                      *)
Handled(S) ==
  IF Malformed(S) = {} THEN S ELSE {n \in S : n <= Min(Malformed(S))}

(* Mutant: the offset moves to the end of the answer first. *)
HandleAnswerEndFirst ==
  /\ kind = "poll" /\ hand # {}
  /\ last' = Max(hand)
  /\ Dispatch(Handled(hand))
  /\ hand' = {}
  /\ UNCHANGED <<kind, platformVars, link, restarts>>

(* Mutant: the offset moves past an update after it has been handled. *)
HandleAnswerOffsetLast ==
  /\ kind = "poll" /\ hand # {}
  /\ last' = Max((Handled(hand) \ Malformed(hand)) \cup {last})
  /\ Dispatch(Handled(hand))
  /\ hand' = {}
  /\ UNCHANGED <<kind, platformVars, link, restarts>>

(* the offset moves past each update before it is handled *)
HandleAnswer ==
  /\ kind = "poll" /\ hand # {}
  /\ last' = Max(Handled(hand))
  /\ Dispatch(Handled(hand))
  /\ hand' = {}
  /\ UNCHANGED <<kind, platformVars, link, restarts>>

-----------------------------------------------------------------------------
(* _socket_mode_loop of slack.py: acknowledge, then handle.  A send that     *)
(* raises is a socket lost before the envelope was read.                    *)

Acknowledge(n) ==
  /\ kind = "ack" /\ link = "up" /\ hand = {}
  /\ n \in wire
  /\ wire' = wire \ {n}
  /\ acks' = acks \cup {n}
  /\ hand' = {n}
  /\ UNCHANGED <<kind, shape, held, redelivered, link, last, history, restarts>>

(* Mutant: the loop looks at the connection again before it handles. *)
HandleEnvelopeWhenUp ==
  /\ kind = "ack" /\ hand # {}
  /\ Dispatch(IF link = "up" THEN hand ELSE {})
  /\ hand' = {}
  /\ UNCHANGED <<kind, platformVars, link, last, restarts>>

(* an exception is only logged *)
HandleEnvelope ==
  /\ kind = "ack" /\ hand # {}
  /\ Dispatch(hand)
  /\ hand' = {}
  /\ UNCHANGED <<kind, platformVars, link, last, restarts>>

(* _ws_listen_loop of mattermost.py: the frames come in order; an exception *)
(* is only logged                                                           *)
HandleFrame ==
  /\ kind = "push" /\ link = "up"
  /\ wire # {}
  /\ wire' = wire \ {Min(wire)}
  /\ Dispatch({Min(wire)})
  /\ UNCHANGED <<kind, shape, held, acks, redelivered, link, hand, last, restarts>>

-----------------------------------------------------------------------------

Next ==
  \/ \E s \in Shapes : Post(s)
  \/ \E n \in Updates : Deliver(n) \/ AckArrives(n) \/ Acknowledge(n)
  \/ LoseLink \/ StartOk \/ StartFails \/ Connect \/ Restart
  \/ Answered \/ PollFails \/ HandleAnswer
  \/ HandleEnvelope \/ HandleFrame

(* The loops go on.  The platform is external: it answers some polls,       *)
(* delivers what is not acknowledged, again and again, and a socket lasts   *)
(* now and then until an envelope has been read, or its acknowledgement has *)
(* arrived.                                                                 *)
Fairness ==
  /\ WF_vars(StartOk \/ StartFails) /\ WF_vars(Connect)
  /\ WF_vars(HandleAnswer) /\ WF_vars(HandleEnvelope)
  /\ SF_vars(Answered)
  /\ SF_vars(\E n \in Updates : Deliver(n))
  /\ SF_vars(\E n \in Updates : Acknowledge(n))
  /\ SF_vars(\E n \in Updates : AckArrives(n))

Spec == Init /\ [][Next]_vars /\ Fairness

-----------------------------------------------------------------------------
(* The types of the adapter's fields and of what is on the way. *)
TypeOK ==
  /\ kind \in Kinds
  /\ shape \in [Updates -> Shapes \cup {"none"}]
  /\ held \subseteq Posted /\ wire \subseteq Posted
  /\ acks \subseteq Posted /\ hand \subseteq Posted
  /\ link \in {"off", "down", "up", "dead"}
  /\ last \in 0..MaxUpdates
  /\ \A i \in DOMAIN order : shape[order[i]] = "message"
  /\ ever \subseteq Posted
  /\ restarts \in 0..MaxRestarts /\ redelivered \in 0..MaxRedelivered

(* A polling or pushing adapter dispatches messages in the order of the     *)
(* platform and none twice, however answers are lost and polls repeated     *)
(* (_last_update_id against the loop over the answer).                      *)
InOrder == kind # "ack" => Increasing(order)

(* A polling adapter confirms a message only after it has dispatched it:    *)
(* neither an exception in the middle of an answer nor a crash or restart   *)
(* between any two steps loses one (the offset of the next getUpdates).     *)
NothingSkipped ==
  kind = "poll" => \A n \in Posted \ held : Wanted(n) => n \in ever

(* The acknowledgement precedes the dispatch, so here only a process that   *)
(* ends in between loses a message (slack.py, "Acknowledge envelope         *)
(* immediately").                                                           *)
LostInRestartOnly ==
  kind = "ack" /\ restarts = 0 =>
    \A n \in Posted \ held : Wanted(n) => n \in ever \cup hand

(* Where the platform keeps its updates, every message is dispatched in the *)
(* end: neither a malformed update before it nor lost polls, connections    *)
(* and acknowledgements stop the loop for good.  Adapters whose start()     *)
(* failed, and processes that end, are excepted.                            *)
EveryMessageDispatched ==
  \A n \in Updates :
    kind # "push" /\ shape[n] = "message"
      ~> n \in ever \/ link = "dead" \/ (kind = "ack" /\ restarts > 0)

=============================================================================

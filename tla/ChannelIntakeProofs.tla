------------------------ MODULE ChannelIntakeProofs ------------------------
(***************************************************************************)
(* What holds of one adapter of any kind for any number of updates and     *)
(* restarts, whatever is lost on the way.                                  *)
(*                                                                         *)
(* PollInv and AckInv say where a message is that the platform no longer   *)
(* keeps; TurnInv why what is still to come is newer than what has been    *)
(* dispatched.                                                             *)
(***************************************************************************)
EXTENDS ChannelIntake, FiniteSetTheorems, WellFoundedInduction, TLAPS

(* The platform numbers the updates one after the other; the adapter knows   *)
(* of none that was not posted.                                             *)
TypeInv ==
  /\ TypeOK
  /\ \E k \in 0..MaxUpdates : Posted = 1..k
  /\ last \in Posted \cup {0}
  /\ order \in Seq(Updates)

(* What a poll has confirmed, or will confirm, has been dispatched; an answer *)
(* that is being handled leaves nothing out.                               *)
PollInv ==
  kind = "poll" =>
    /\ wire = {} /\ acks = {}
    /\ \A n \in Posted : n <= last /\ Wanted(n) => n \in ever
    /\ \A m \in hand, n \in Posted : n <= m /\ Wanted(n) => n \in ever \cup hand
    /\ NothingSkipped

(* What has been acknowledged has been dispatched, or is in hand. *)
AckInv ==
  kind = "ack" /\ restarts = 0 =>
    /\ \A n \in acks : Wanted(n) => n \in ever \cup hand
    /\ LostInRestartOnly

(* What is still to come is newer than what has been dispatched. *)
TurnInv ==
  /\ kind = "poll" => (\A n \in hand : last < n) /\ (\A i \in DOMAIN order : order[i] <= last)
  /\ kind = "push" => \A n \in wire : \A i \in DOMAIN order : order[i] < n
  /\ InOrder

-----------------------------------------------------------------------------
(* Operators.                                                              *)

(* Among natural numbers there is a least one. *)
LEMMA LeastNumber ==
  ASSUME NEW T \in SUBSET Nat, T # {}
  PROVE  \E n \in T : \A m \in T : n <= m
<1> DEFINE R == {ss \in Nat \X Nat : ss[1] < ss[2]}
<1>1. R = OpToRel(<, Nat)
  BY Zenon DEF OpToRel
<1>2. \A m, n \in Nat : m < n => <<m, n>> \in R
  OBVIOUS
<1> HIDE DEF R
<1>3. PICK n \in T : \A m \in T : ~ (<<m, n>> \in R)
  BY <1>1, NatLessThanWellFounded, WFMin
<1>4. ASSUME NEW m \in T PROVE n <= m
  <2>1. m \in Nat /\ n \in Nat /\ ~(m < n)
    BY <1>2, <1>3
  <2> QED
    BY <2>1
<1> QED
  BY <1>4

(* The updates are numbers. *)
LEMMA UpdatesAreNumbers ==
  /\ MaxUpdates \in Nat /\ MaxRestarts \in Nat /\ MaxRedelivered \in Nat
  /\ Updates \subseteq Nat /\ \A n \in Updates : n >= 1 /\ n <= MaxUpdates
BY BoundsAssumption DEF Updates

(* Of some updates one is the first, and one the last. *)
LEMMA FirstAndLast ==
  ASSUME NEW S \in SUBSET Updates, S # {}
  PROVE  /\ Min(S) \in S /\ \A n \in S : Min(S) <= n
         /\ Max(S) \in S /\ \A n \in S : n <= Max(S)
<1>1. PICK lo \in S : \A n \in S : lo <= n
  BY UpdatesAreNumbers, LeastNumber
<1> DEFINE T == {MaxUpdates - n : n \in S}
<1>2. T \in SUBSET Nat /\ T # {}
  BY UpdatesAreNumbers
<1> HIDE DEF T
<1>3. PICK t \in T : \A u \in T : t <= u
  BY <1>2, LeastNumber
<1>4. PICK hi \in S : t = MaxUpdates - hi
  BY <1>3 DEF T
<1>5. \A n \in S : MaxUpdates - n \in T
  BY DEF T
<1>6. \A n \in S : hi >= n
  BY <1>3, <1>4, <1>5, UpdatesAreNumbers
<1>7. Max(S) \in S /\ \A n \in S : Max(S) >= n
  BY <1>6 DEF Max
<1>8. Min(S) \in S /\ \A n \in S : Min(S) <= n
  BY <1>1 DEF Min
<1> QED
  BY <1>7, <1>8, UpdatesAreNumbers

(* Any set of updates can be put in order. *)
LEMMA OrderExists ==
  ASSUME NEW S \in SUBSET Updates
  PROVE  /\ IsFiniteSet(S)
         /\ \E s \in [1..Cardinality(S) -> S] : Increasing(s)
<1> DEFINE InOrderOf(X) == \E s \in [1..Cardinality(X) -> X] : Increasing(s)
           Bad == {k \in Nat : \E X \in SUBSET Updates : Cardinality(X) = k /\ ~InOrderOf(X)}
<1>1. \A X \in SUBSET Updates : IsFiniteSet(X) /\ Cardinality(X) \in Nat
  <2>1. IsFiniteSet(Updates)
    BY UpdatesAreNumbers, FS_Interval DEF Updates
  <2> QED
    BY <2>1, FS_Subset, FS_CardinalityType
<1>2. Bad = {}
  <2> SUFFICES ASSUME Bad # {} PROVE FALSE
    OBVIOUS
  <2>1. PICK k \in Bad : \A j \in Bad : k <= j
    BY LeastNumber
  <2>2. k \in Nat
    BY <2>1
  <2>3. PICK X \in SUBSET Updates : Cardinality(X) = k /\ ~InOrderOf(X)
    BY <2>1
  <2>4. CASE X = {}
    <3>1. Cardinality(X) = 0
      BY <2>4, FS_EmptySet
    <3>2. << >> \in [1..0 -> X] /\ Increasing(<< >>)
      BY DEF Increasing
    <3> QED
      BY <2>3, <3>1, <3>2
  <2>5. CASE X # {}
    <3> DEFINE m == Max(X)
               Y == X \ {m}
    <3>1. m \in X /\ \A n \in X : n <= m
      BY <2>5, FirstAndLast
    <3> HIDE DEF m
    <3>2. Cardinality(Y) = k - 1 /\ k - 1 \in Nat /\ Y \in SUBSET Updates
      BY <1>1, <2>2, <2>3, <3>1, FS_RemoveElement
    <3>3. k - 1 \notin Bad
      BY <2>1, <2>2, <3>2
    <3>4. InOrderOf(Y)
      BY <3>2, <3>3
    <3>5. PICK t \in [1..(k - 1) -> Y] : Increasing(t)
      BY <3>2, <3>4
    <3> DEFINE s == [i \in 1..k |-> IF i = k THEN m ELSE t[i]]
    <3>6. \A i \in 1..k : i # k => i \in 1..(k - 1) /\ s[i] = t[i] /\ t[i] \in Y
      BY <2>2, <3>5
    <3>7. s \in [1..k -> X]
      BY <3>1, <3>6
    <3>8. DOMAIN s = 1..k /\ (k \in 1..k => s[k] = m)
      OBVIOUS
    <3> HIDE DEF s
    <3>9. ASSUME NEW i \in DOMAIN s, NEW j \in DOMAIN s, i < j
          PROVE  s[i] < s[j]
      <4>1. i # k /\ i \in 1..k /\ j \in 1..k
        BY <2>2, <3>8, <3>9
      <4>2. CASE j = k
        <5>1. s[i] \in Y /\ s[j] = m
          BY <3>6, <3>8, <4>1, <4>2
        <5>2. s[i] <= m /\ s[i] # m /\ s[i] \in Nat /\ m \in Nat
          BY <2>3, <3>1, <5>1, UpdatesAreNumbers
        <5> QED
          BY <5>1, <5>2
      <4>3. CASE j # k
        BY <3>5, <3>6, <3>9, <4>1, <4>3 DEF Increasing
      <4> QED
        BY <4>2, <4>3
    <3>10. Increasing(s)
      BY <3>9 DEF Increasing
    <3> QED
      BY <2>3, <3>7, <3>10
  <2> QED
    BY <2>4, <2>5
<1>3. InOrderOf(S)
  BY <1>1, <1>2
<1> QED
  BY <1>1, <1>3

(* InTurn puts a set of updates in order. *)
LEMMA InTurnOrders ==
  ASSUME NEW S \in SUBSET Updates
  PROVE  /\ InTurn(S) \in Seq(Updates) /\ Increasing(InTurn(S))
         /\ \A i \in DOMAIN InTurn(S) : InTurn(S)[i] \in S
<1>1. PICK s \in [1..Cardinality(S) -> S] : Increasing(s)
  BY OrderExists
<1>2. Cardinality(S) \in Nat
  BY OrderExists, FS_CardinalityType
<1>3. \A i, j \in 1..Cardinality(S) : i # j => s[i] # s[j]
  <2> SUFFICES ASSUME NEW i \in 1..Cardinality(S), NEW j \in 1..Cardinality(S), i # j
               PROVE  s[i] # s[j]
    OBVIOUS
  <2>1. i \in Nat /\ j \in Nat /\ s[i] \in Nat /\ s[j] \in Nat
    <3>1. i \in Nat /\ j \in Nat /\ s[i] \in S /\ s[j] \in S
      BY <1>2
    <3> QED
      BY <3>1, UpdatesAreNumbers
  <2>2. i < j \/ j < i
    BY <2>1
  <2>3. s[i] < s[j] \/ s[j] < s[i]
    BY <1>1, <2>2 DEF Increasing
  <2> QED
    BY <2>1, <2>3
<1>4. s \in SetToSeqs(S)
  BY <1>3 DEF SetToSeqs
<1>5. InTurn(S) \in SetToSeqs(S) /\ Increasing(InTurn(S))
  BY <1>1, <1>4 DEF InTurn
<1>6. InTurn(S) \in [1..Cardinality(S) -> S]
  BY <1>5 DEF SetToSeqs
<1>7. InTurn(S) \in Seq(Updates)
  BY <1>2, <1>6
<1> QED
  BY <1>5, <1>6, <1>7

-----------------------------------------------------------------------------
(* The types.                                                              *)

(* The initial state satisfies the invariants. *)
LEMMA InitOk == Init => TypeInv /\ PollInv /\ AckInv /\ TurnInv
<1> SUFFICES ASSUME Init PROVE TypeInv /\ PollInv /\ AckInv /\ TurnInv
  OBVIOUS
<1> USE UpdatesAreNumbers DEF Init
<1>1. Posted = {} /\ Posted = 1..0
  BY DEF Posted
<1>2. TypeOK
  BY DEF TypeOK
<1>3. TypeInv
  BY <1>1, <1>2 DEF TypeInv
<1>4. PollInv /\ AckInv
  BY <1>1 DEF PollInv, AckInv, NothingSkipped, LostInRestartOnly
<1>5. TurnInv
  BY DEF TurnInv, InOrder, Increasing
<1> QED
  BY <1>3, <1>4, <1>5

(* A new update is newer than all others. *)
LEMMA PostStep ==
  ASSUME TypeInv, NEW s \in Shapes, Post(s)
  PROVE  /\ TypeInv'
         /\ \E n \in Updates :
              /\ Posted' = Posted \cup {n} /\ \A m \in Posted : m < n
              /\ \A m \in Posted : Wanted(m)' = Wanted(m)
              /\ held' = IF kind = "push" THEN held ELSE held \cup {n}
              /\ wire' \in {wire, wire \cup {n}} /\ (kind # "push" => wire' = wire)
              /\ UNCHANGED <<kind, acks, redelivered, link, hand, last, order, ever,
                            restarts>>
<1> DEFINE n == Cardinality(Posted) + 1
<1>1. PICK k \in 0..MaxUpdates : Posted = 1..k
  BY DEF TypeInv
<1>2. n = k + 1 /\ k \in Nat
  <2>1. k \in Nat /\ k \in Int /\ 1 \in Int
    BY UpdatesAreNumbers
  <2>2. Cardinality(1..k) = k
    BY <2>1, FS_Interval
  <2> QED
    BY <1>1, <2>1, <2>2
<1>3. /\ n \in Updates /\ shape' = [shape EXCEPT ![n] = s]
      /\ held' = IF kind = "push" THEN held ELSE held \cup {n}
      /\ wire' = IF kind = "push" /\ link = "up" THEN wire \cup {n} ELSE wire
      /\ UNCHANGED <<kind, acks, redelivered, link, hand, last, order, ever, restarts>>
  BY DEF Post, history
<1> HIDE DEF n
<1>4. /\ shape \in [Updates -> Shapes \cup {"none"}] /\ s # "none"
      /\ "none" \notin Shapes
  BY DEF TypeInv, TypeOK, Shapes
<1>5. Posted' = Posted \cup {n} /\ n \notin Posted
  <2>1. \A m \in Updates : shape'[m] = IF m = n THEN s ELSE shape[m]
    BY <1>3, <1>4
  <2>2. n \notin Posted
    BY <1>1, <1>2
  <2> QED
    BY <1>3, <1>4, <2>1, <2>2 DEF Posted
<1>6. \A m \in Posted : shape'[m] = shape[m] /\ m < n
  BY <1>1, <1>2, <1>3, <1>4, <1>5 DEF Posted
<1>7. Posted' = 1..n /\ n \in 0..MaxUpdates
  BY <1>1, <1>2, <1>3, <1>5, UpdatesAreNumbers
<1>8. shape' \in [Updates -> Shapes \cup {"none"}]
  BY <1>3, <1>4
<1>9. \A i \in DOMAIN order : shape'[order[i]] = "message"
  <2>1. \A i \in DOMAIN order : order[i] \in Updates /\ shape[order[i]] = "message"
    BY DEF TypeInv, TypeOK
  <2>2. \A i \in DOMAIN order : order[i] \in Posted
    BY <2>1 DEF Posted
  <2> QED
    BY <1>6, <2>1, <2>2
<1>10. TypeOK'
  <2>1. /\ held \subseteq Posted /\ wire \subseteq Posted /\ acks \subseteq Posted
        /\ hand \subseteq Posted /\ ever \subseteq Posted
    BY DEF TypeInv, TypeOK
  <2>2. /\ held' \subseteq Posted' /\ wire' \subseteq Posted' /\ acks' \subseteq Posted'
        /\ hand' \subseteq Posted' /\ ever' \subseteq Posted'
    BY <1>3, <1>5, <2>1
  <2>3. /\ kind' \in Kinds /\ link' \in {"off", "down", "up", "dead"}
        /\ last' \in 0..MaxUpdates
        /\ restarts' \in 0..MaxRestarts /\ redelivered' \in 0..MaxRedelivered
    BY <1>3 DEF TypeInv, TypeOK
  <2> QED
    BY <1>3, <1>8, <1>9, <2>2, <2>3 DEF TypeOK
<1>11. TypeInv'
  BY <1>3, <1>5, <1>7, <1>10 DEF TypeInv
<1>12. \A m \in Posted : Wanted(m)' = Wanted(m)
  BY <1>6 DEF Wanted
<1> QED
  BY <1>3, <1>5, <1>6, <1>11, <1>12

(* What is handed to tasks is put behind what was, in order. *)
LEMMA DispatchStep ==
  ASSUME TypeInv, NEW S \in SUBSET Posted, Dispatch(S)
  PROVE  /\ order' \in Seq(Updates)
         /\ \A i \in DOMAIN order' :
              \/ i \in DOMAIN order /\ order'[i] = order[i]
              \/ order'[i] \in S /\ Wanted(order'[i])
         /\ ever' = ever \cup {n \in S : Wanted(n)}
         /\ Increasing(order) /\ (\A i \in DOMAIN order : \A n \in S : order[i] < n)
              => Increasing(order')
<1> DEFINE W == {n \in S : Wanted(n)}
           t == InTurn(W)
<1>1. order' = order \o t /\ ever' = ever \cup W
  BY DEF Dispatch
<1>2. W \in SUBSET Updates
  BY DEF Posted
<1>3. t \in Seq(Updates) /\ Increasing(t) /\ \A i \in DOMAIN t : t[i] \in W
  BY <1>2, InTurnOrders
<1> HIDE DEF t
<1>4. order \in Seq(Updates)
  BY DEF TypeInv
<1>5. /\ order' \in Seq(Updates)
      /\ DOMAIN order = 1..Len(order) /\ DOMAIN t = 1..Len(t)
      /\ DOMAIN order' = 1..(Len(order) + Len(t))
      /\ Len(order) \in Nat /\ Len(t) \in Nat
      /\ \A i \in 1..(Len(order) + Len(t)) :
           order'[i] = IF i <= Len(order) THEN order[i] ELSE t[i - Len(order)]
  BY <1>1, <1>3, <1>4
<1>6. ASSUME NEW i \in DOMAIN order'
      PROVE  \/ i <= Len(order) /\ i \in DOMAIN order /\ order'[i] = order[i]
             \/ i > Len(order) /\ i - Len(order) \in DOMAIN t /\ order'[i] = t[i - Len(order)]
  BY <1>5
<1>7. ASSUME Increasing(order), \A i \in DOMAIN order : \A n \in S : order[i] < n,
             NEW i \in DOMAIN order', NEW j \in DOMAIN order', i < j
      PROVE  order'[i] < order'[j]
  <2>1. CASE j <= Len(order)
    <3>1. i \in DOMAIN order /\ j \in DOMAIN order /\ order'[i] = order[i] /\ order'[j] = order[j]
      BY <1>5, <1>7, <2>1
    <3> QED
      BY <1>7, <3>1 DEF Increasing
  <2>2. CASE i <= Len(order) /\ j > Len(order)
    <3>1. i \in DOMAIN order /\ order'[i] = order[i] /\ order'[j] \in S
      BY <1>3, <1>5, <1>6, <2>2
    <3> QED
      BY <1>7, <3>1
  <2>3. CASE i > Len(order)
    <3>1. /\ i - Len(order) \in DOMAIN t /\ j - Len(order) \in DOMAIN t
          /\ i - Len(order) < j - Len(order)
          /\ order'[i] = t[i - Len(order)] /\ order'[j] = t[j - Len(order)]
      BY <1>5, <1>7, <2>3
    <3> QED
      BY <1>3, <3>1 DEF Increasing
  <2> QED
    BY <1>5, <2>1, <2>2, <2>3
<1>8. \A i \in DOMAIN order' :
        \/ i \in DOMAIN order /\ order'[i] = order[i]
        \/ order'[i] \in S /\ Wanted(order'[i])
  BY <1>3, <1>6
<1>9. Increasing(order) /\ (\A i \in DOMAIN order : \A n \in S : order[i] < n)
        => Increasing(order')
  BY <1>7 DEF Increasing
<1> QED
  BY <1>1, <1>5, <1>8, <1>9

(* An answer is handled from its beginning, without gaps. *)
LEMMA HandledFirst ==
  ASSUME NEW S \in SUBSET Updates, S # {}
  PROVE  /\ Handled(S) \in SUBSET S
         /\ Max(Handled(S)) \in S
         /\ \A n \in Handled(S) : n <= Max(Handled(S))
         /\ \A n \in S : n <= Max(Handled(S)) => n \in Handled(S)
<1> DEFINE H == Handled(S)
           M == Malformed(S)
<1>1. M \in SUBSET S
  BY DEF Malformed
<1>2. CASE M = {}
  <2>1. H = S
    BY <1>2 DEF Handled
  <2> QED
    BY <2>1, FirstAndLast
<1>3. CASE M # {}
  <2>1. Min(M) \in S /\ \A n \in M : Min(M) <= n
    BY <1>1, <1>3, FirstAndLast
  <2>2. H = {n \in S : n <= Min(M)}
    BY <1>3 DEF Handled
  <2>3. Min(M) \in H /\ H \in SUBSET Updates
    <3>1. Min(M) \in Nat
      BY <2>1, UpdatesAreNumbers
    <3> QED
      BY <2>1, <2>2, <3>1
  <2>4. Max(H) \in H /\ \A n \in H : n <= Max(H)
    BY <2>3, FirstAndLast
  <2>5. \A n \in S : n <= Max(H) => n <= Min(M)
    <3>1. Max(H) <= Min(M) /\ Max(H) \in Nat /\ Min(M) \in Nat
      BY <2>1, <2>2, <2>4, UpdatesAreNumbers
    <3>2. \A n \in S : n \in Nat
      BY UpdatesAreNumbers
    <3> QED
      BY <3>1, <3>2
  <2> QED
    BY <2>2, <2>4, <2>5
<1> QED
  BY <1>2, <1>3

(* The adapter's and the platform's other steps dispatch nothing; a restart  *)
(* forgets what it has dispatched.                                          *)
Moves ==
  \/ \E n \in Updates : Deliver(n) \/ AckArrives(n) \/ Acknowledge(n)
  \/ LoseLink \/ StartOk \/ StartFails \/ Connect \/ Restart
  \/ Answered \/ PollFails

Handlings == HandleAnswer \/ HandleEnvelope \/ HandleFrame

(* What has been posted stays as it is. *)
LEMMA PostedStays ==
  ASSUME Moves \/ Handlings \/ UNCHANGED vars
  PROVE  UNCHANGED <<kind, shape, Posted>> /\ \A n : Wanted(n)' = Wanted(n)
<1>1. UNCHANGED <<kind, shape>>
  BY DEF Moves, Handlings, Deliver, AckArrives, Acknowledge, LoseLink, StartOk, StartFails,
         Connect, Restart, Answered, PollFails, HandleAnswer, HandleEnvelope, HandleFrame,
         UnchangedByLink, platformVars, vars
<1> QED
  BY <1>1 DEF Posted, Wanted

(* The types are kept where nothing is dispatched. *)
LEMMA MoveTypes ==
  ASSUME TypeInv, Moves
  PROVE  TypeInv'
<1> USE DEF TypeInv, TypeOK, history
<1>p. UNCHANGED <<kind, shape, Posted>>
  BY PostedStays
<1>b. MaxRestarts \in Nat /\ MaxRedelivered \in Nat
  BY UpdatesAreNumbers
<1>o. \A n \in Updates : n \in held => n \in Posted
  OBVIOUS
<1>1. ASSUME NEW n \in Updates, Deliver(n)
      PROVE  TypeInv'
  <2>1. /\ redelivered' \in 0..MaxRedelivered
        /\ wire' = wire \cup {n} /\ n \in held
        /\ UNCHANGED <<kind, shape, held, acks, link, hand, last, order, ever, restarts>>
    BY <1>b, <1>1 DEF Deliver
  <2> QED
    BY <1>p, <2>1
<1>2. ASSUME NEW n \in Updates, AckArrives(n) \/ Acknowledge(n)
      PROVE  TypeInv'
  <2>1. /\ held' \subseteq Posted /\ wire' \subseteq Posted
        /\ acks' \subseteq Posted /\ hand' \subseteq Posted
        /\ UNCHANGED <<kind, shape, redelivered, link, last, order, ever, restarts>>
    BY <1>2 DEF AckArrives, Acknowledge
  <2> QED
    BY <1>p, <2>1
<1>3. CASE LoseLink
  BY <1>p, <1>3 DEF LoseLink, Cut
<1>4. CASE StartOk \/ StartFails \/ Connect
  BY <1>p, <1>4 DEF StartOk, StartFails, Connect, UnchangedByLink, platformVars
<1>5. CASE Restart
  <2>r. restarts' \in 0..MaxRestarts
    BY <1>b, <1>5 DEF Restart
  <2>1. /\ restarts' \in 0..MaxRestarts
        /\ link' = "off" /\ hand' = {} /\ last' = 0 /\ order' = <<>>
        /\ wire' = {} /\ acks' = {} /\ held' \subseteq held
        /\ UNCHANGED <<kind, shape, redelivered, ever>>
    BY <2>r, <1>5 DEF Restart, Cut
  <2>2. 0 \in 0..MaxUpdates
    BY UpdatesAreNumbers
  <2>3. order' \in Seq(Updates) /\ DOMAIN order' = {}
    BY <2>1
  <2> QED
    BY <1>p, <2>1, <2>2, <2>3
<1>6. CASE Answered \/ PollFails
  BY <1>p, <1>6 DEF Answered, PollFails, Unconfirmed
<1> QED
  BY <1>1, <1>2, <1>3, <1>4, <1>5, <1>6 DEF Moves

(* What the adapter handles. *)
LEMMA HandlingStep ==
  ASSUME TypeInv, Handlings
  PROVE  \E S \in SUBSET Posted :
           /\ S # {} /\ Dispatch(S)
           /\ UNCHANGED <<held, acks, redelivered, link, restarts>>
           /\ \/ /\ kind = "poll" /\ hand # {} /\ hand' = {} /\ wire' = wire
                 /\ S = Handled(hand) /\ last' = Max(S)
              \/ /\ kind = "ack" /\ hand # {} /\ hand' = {} /\ wire' = wire
                 /\ S = hand /\ last' = last
              \/ /\ kind = "push" /\ wire # {} /\ wire' = wire \ {Min(wire)}
                 /\ S = {Min(wire)} /\ last' = last /\ hand' = hand
<1>u. /\ hand \subseteq Posted /\ wire \subseteq Posted
      /\ hand \in SUBSET Updates /\ wire \in SUBSET Updates
  BY DEF TypeInv, TypeOK, Posted
<1>1. CASE HandleAnswer
  <2>1. Max(Handled(hand)) \in hand /\ Handled(hand) \in SUBSET hand
    BY <1>1, <1>u, HandledFirst DEF HandleAnswer
  <2>2. Handled(hand) # {}
    <3>1. PICK n \in hand : n = Max(Handled(hand))
      BY <2>1
    <3>2. n <= n
      BY <1>u, UpdatesAreNumbers
    <3> QED
      BY <1>1, <1>u, <3>1, <3>2, HandledFirst DEF HandleAnswer
  <2> QED
    BY <1>1, <1>u, <2>1, <2>2 DEF HandleAnswer, platformVars
<1>2. CASE HandleEnvelope
  BY <1>2, <1>u DEF HandleEnvelope, platformVars
<1>3. CASE HandleFrame
  <2>1. Min(wire) \in wire
    BY <1>3, <1>u, FirstAndLast DEF HandleFrame
  <2> QED
    BY <1>3, <1>u, <2>1 DEF HandleFrame
<1> QED
  BY <1>1, <1>2, <1>3 DEF Handlings

(* The types are kept where something is dispatched. *)
LEMMA HandlingTypes ==
  ASSUME TypeInv, Handlings
  PROVE  TypeInv'
<1>1. PICK S \in SUBSET Posted :
           /\ S # {} /\ Dispatch(S)
           /\ UNCHANGED <<held, acks, redelivered, link, restarts>>
           /\ hand' \in {hand, {}} /\ wire' \subseteq wire
           /\ last' = last \/ (kind = "poll" /\ hand # {} /\ last' = Max(Handled(hand)))
  BY HandlingStep
<1>2. UNCHANGED <<kind, shape, Posted>>
  BY PostedStays
<1>3. last' \in Posted \cup {0} /\ last' \in 0..MaxUpdates
  <2>1. CASE last' = last
    BY <2>1 DEF TypeInv, TypeOK
  <2>2. CASE kind = "poll" /\ hand # {} /\ last' = Max(Handled(hand))
    <3>1. hand \in SUBSET Updates /\ hand \subseteq Posted
      BY DEF TypeInv, TypeOK, Posted
    <3>2. last' \in hand
      BY <2>2, <3>1, HandledFirst
    <3> QED
      BY <3>1, <3>2, UpdatesAreNumbers
  <2> QED
    BY <1>1, <2>1, <2>2
<1>4. order' \in Seq(Updates) /\ \A i \in DOMAIN order' : shape'[order'[i]] = "message"
  <2>1. \A i \in DOMAIN order : shape[order[i]] = "message"
    BY DEF TypeInv, TypeOK
  <2> QED
    BY <1>1, <1>2, <2>1, DispatchStep DEF Wanted
<1>5. ever' \subseteq Posted
  <2>1. ever \subseteq Posted
    BY DEF TypeInv, TypeOK
  <2>2. ever' = ever \cup {n \in S : Wanted(n)}
    BY <1>1, DispatchStep
  <2> QED
    BY <2>1, <2>2
<1> QED
  BY <1>1, <1>2, <1>3, <1>4, <1>5 DEF TypeInv, TypeOK

(* Every step is one of these. *)
LEMMA NextSplit == Next => (\E s \in Shapes : Post(s)) \/ Moves \/ Handlings
BY DEF Next, Moves, Handlings

(* The types are kept. *)
LEMMA TypeStep == TypeInv /\ [Next]_vars => TypeInv'
<1>1. ASSUME TypeInv, UNCHANGED vars
      PROVE  TypeInv'
  BY <1>1, PostedStays DEF TypeInv, TypeOK, vars, history
<1> QED
  BY <1>1, NextSplit, PostStep, MoveTypes, HandlingTypes

(* The adapter knows, dispatches and acknowledges only what was posted, and    *)
(* dispatches only what is a message.                                       *)
THEOREM TypesKept == Spec => []TypeOK
<1>1. TypeInv => TypeOK
  BY DEF TypeInv
<1> QED
  BY <1>1, InitOk, TypeStep, PTL DEF Spec

-----------------------------------------------------------------------------
(* What the platform no longer keeps.                                      *)

(* A polling adapter confirms what it has dispatched. *)
LEMMA PollStep == TypeInv /\ PollInv /\ [Next]_vars => PollInv'
<1> SUFFICES ASSUME TypeInv, PollInv, [Next]_vars, kind' = "poll" PROVE PollInv'
  BY DEF PollInv
<1>t. /\ held \subseteq Posted /\ hand \subseteq Posted /\ Posted \subseteq Nat
      /\ hand \in SUBSET Updates /\ last \in Nat /\ last \in Posted \cup {0}
  BY UpdatesAreNumbers DEF TypeInv, TypeOK, Posted
<1>k. kind = "poll" => /\ wire = {} /\ acks = {}
                       /\ \A n \in Posted : n <= last /\ Wanted(n) => n \in ever
                       /\ \A m \in hand, n \in Posted : n <= m /\ Wanted(n) => n \in ever \cup hand
                       /\ \A n \in Posted \ held : Wanted(n) => n \in ever
  BY DEF PollInv, NothingSkipped
<1>1. ASSUME NEW s \in Shapes, Post(s)
      PROVE  PollInv'
  <2>1. PICK n \in Updates :
              /\ Posted' = Posted \cup {n} /\ \A m \in Posted : m < n
              /\ \A m \in Posted : Wanted(m)' = Wanted(m)
              /\ held' = IF kind = "push" THEN held ELSE held \cup {n}
              /\ (kind # "push" => wire' = wire)
              /\ UNCHANGED <<kind, acks, hand, last, ever>>
    BY <1>1, PostStep
  <2>2. ~(n <= last) /\ \A m \in hand : ~(n <= m)
    <3>1. n \in Nat /\ n >= 1
      BY UpdatesAreNumbers
    <3> QED
      BY <1>t, <2>1, <3>1
  <2>3. /\ \A m \in Posted' : m <= last' /\ Wanted(m)' => m \in ever'
        /\ \A m \in hand', q \in Posted' : q <= m /\ Wanted(q)' => q \in ever' \cup hand'
        /\ \A m \in Posted' \ held' : Wanted(m)' => m \in ever'
    BY <1>k, <2>1, <2>2
  <2> QED
    BY <1>k, <2>1, <2>3 DEF PollInv, NothingSkipped
<1>2. CASE Moves
  <2>1. UNCHANGED <<kind, shape, Posted>> /\ \A n : Wanted(n)' = Wanted(n)
    BY <1>2, PostedStays
  <2>2. CASE UNCHANGED <<held, wire, acks, hand, last, ever>>
    BY <1>k, <2>1, <2>2 DEF PollInv, NothingSkipped
  <2>3. CASE Restart
    <3>1. wire' = {} /\ acks' = {} /\ held' = held /\ last' = 0 /\ hand' = {} /\ ever' = ever
      BY <1>k, <2>1, <2>3 DEF Restart, Cut
    <3>2. \A n \in Posted : ~(n <= 0)
      BY UpdatesAreNumbers DEF Posted
    <3> QED
      BY <1>k, <2>1, <3>1, <3>2 DEF PollInv, NothingSkipped
  <2>4. CASE Answered \/ PollFails
    <3>1. /\ held' = Unconfirmed /\ hand' \in {hand, Unconfirmed} /\ hand = {}
          /\ UNCHANGED <<wire, acks, last, ever>>
      BY <2>4 DEF Answered, PollFails, history
    <3>2. Unconfirmed = {n \in held : n > last}
      BY DEF Unconfirmed, Newer
    <3>3. \A n \in Posted : n \notin Unconfirmed /\ Wanted(n) => n \in ever
      BY <1>k, <1>t, <2>1, <3>2
    <3> QED
      BY <1>k, <2>1, <3>1, <3>3 DEF PollInv, NothingSkipped
  <2>5. CASE \E n \in Updates : Deliver(n) \/ AckArrives(n) \/ Acknowledge(n)
    BY <1>k, <2>1, <2>5 DEF Deliver, AckArrives, Acknowledge
  <2>6. CASE LoseLink
    BY <2>1, <2>6 DEF LoseLink
  <2>7. CASE StartOk \/ StartFails \/ Connect
    BY <2>2, <2>7 DEF StartOk, StartFails, Connect, UnchangedByLink, platformVars, history
  <2> QED
    BY <1>2, <2>3, <2>4, <2>5, <2>6, <2>7 DEF Moves
<1>3. CASE Handlings
  <2>1. UNCHANGED <<kind, shape, Posted>> /\ \A n : Wanted(n)' = Wanted(n)
    BY <1>3, PostedStays
  <2>2. PICK S \in SUBSET Posted :
           /\ Dispatch(S) /\ UNCHANGED <<held, acks>>
           /\ hand # {} /\ hand' = {} /\ wire' = wire
           /\ S = Handled(hand) /\ last' = Max(S)
    BY <1>3, <2>1, HandlingStep
  <2>3. ever' = ever \cup {n \in S : Wanted(n)}
    BY <2>2, DispatchStep
  <2>4. /\ last' \in hand /\ \A n \in hand : n <= last' => n \in S
    BY <1>t, <2>2, HandledFirst
  <2>5. \A n \in Posted : n <= last' /\ Wanted(n) => n \in ever'
    BY <1>k, <2>1, <2>3, <2>4
  <2> QED
    BY <1>k, <2>1, <2>2, <2>3, <2>5 DEF PollInv, NothingSkipped
<1>4. CASE UNCHANGED vars
  <2>1. UNCHANGED <<kind, shape, Posted>> /\ \A n : Wanted(n)' = Wanted(n)
    BY <1>4, PostedStays
  <2> QED
    BY <1>4, <1>k, <2>1 DEF PollInv, NothingSkipped, vars, history
<1> QED
  BY <1>1, <1>2, <1>3, <1>4, NextSplit

(* A polling adapter confirms a message only after it has dispatched it,       *)
(* however polls are lost, updates malformed and processes restarted: the    *)
(* offset of a request never passes what has not been handled.             *)
THEOREM PollSkipsNothing == Spec => []NothingSkipped
<1>1. PollInv => NothingSkipped
  BY DEF PollInv, NothingSkipped
<1> QED
  BY <1>1, InitOk, TypeStep, PollStep, PTL DEF Spec

(* What has been acknowledged is in hand until it is dispatched. *)
LEMMA AckStep == TypeInv /\ AckInv /\ [Next]_vars => AckInv'
<1> SUFFICES ASSUME TypeInv, AckInv, [Next]_vars, kind' = "ack", restarts' = 0 PROVE AckInv'
  BY DEF AckInv
<1>t. /\ acks \subseteq Posted /\ held \subseteq Posted /\ wire \subseteq Posted
      /\ restarts \in Nat
  BY UpdatesAreNumbers DEF TypeInv, TypeOK
<1>k. kind = "ack" /\ restarts = 0 =>
        /\ \A n \in acks : Wanted(n) => n \in ever \cup hand
        /\ \A n \in Posted \ held : Wanted(n) => n \in ever \cup hand
  BY DEF AckInv, LostInRestartOnly
<1>1. ASSUME NEW s \in Shapes, Post(s)
      PROVE  AckInv'
  <2>1. PICK n \in Updates :
              /\ Posted' = Posted \cup {n}
              /\ \A m \in Posted : Wanted(m)' = Wanted(m)
              /\ held' = IF kind = "push" THEN held ELSE held \cup {n}
              /\ UNCHANGED <<kind, acks, hand, ever, restarts>>
    BY <1>1, PostStep
  <2> QED
    BY <1>k, <1>t, <2>1 DEF AckInv, LostInRestartOnly
<1>2. CASE Moves
  <2>1. UNCHANGED <<kind, shape, Posted>> /\ \A n : Wanted(n)' = Wanted(n)
    BY <1>2, PostedStays
  <2>2. CASE UNCHANGED <<held, acks, hand, ever, restarts>>
    BY <1>k, <2>1, <2>2 DEF AckInv, LostInRestartOnly
  <2>3. CASE Restart
    BY <1>t, <2>3 DEF Restart
  <2>4. CASE LoseLink
    <3>1. /\ acks' = {} /\ \E arrived \in SUBSET acks : held' = held \ arrived
          /\ UNCHANGED <<hand, ever, restarts>>
      BY <2>4 DEF LoseLink, Cut, history
    <3> QED
      BY <1>k, <2>1, <3>1 DEF AckInv, LostInRestartOnly
  <2>5. ASSUME NEW n \in Updates, Deliver(n) \/ AckArrives(n) \/ Acknowledge(n)
        PROVE  AckInv'
    <3>1. CASE Deliver(n)
      BY <2>2, <3>1 DEF Deliver, history
    <3>2. CASE AckArrives(n)
      <4>1. acks' = acks \ {n} /\ held' = held \ {n} /\ n \in acks /\ UNCHANGED <<hand, ever, restarts>>
        BY <3>2 DEF AckArrives, history
      <4> QED
        BY <1>k, <2>1, <4>1 DEF AckInv, LostInRestartOnly
    <3>3. CASE Acknowledge(n)
      <4>1. acks' = acks \cup {n} /\ hand = {} /\ hand' = {n} /\ UNCHANGED <<held, ever, restarts>>
        BY <3>3 DEF Acknowledge, history
      <4> QED
        BY <1>k, <2>1, <4>1 DEF AckInv, LostInRestartOnly
    <3> QED
      BY <2>5, <3>1, <3>2, <3>3
  <2>6. CASE Answered \/ PollFails
    BY <2>1, <2>6 DEF Answered, PollFails
  <2>7. CASE StartOk \/ StartFails \/ Connect
    BY <2>2, <2>7 DEF StartOk, StartFails, Connect, UnchangedByLink, platformVars, history
  <2> QED
    BY <1>2, <2>3, <2>4, <2>5, <2>6, <2>7 DEF Moves
<1>3. CASE Handlings
  <2>1. UNCHANGED <<kind, shape, Posted>> /\ \A n : Wanted(n)' = Wanted(n)
    BY <1>3, PostedStays
  <2>2. PICK S \in SUBSET Posted :
           /\ Dispatch(S) /\ UNCHANGED <<held, acks, restarts>>
           /\ hand' = {} /\ S = hand
    BY <1>3, <2>1, HandlingStep
  <2>3. ever' = ever \cup {n \in S : Wanted(n)}
    BY <2>2, DispatchStep
  <2> QED
    BY <1>k, <2>1, <2>2, <2>3 DEF AckInv, LostInRestartOnly
<1>4. CASE UNCHANGED vars
  <2>1. UNCHANGED <<kind, shape, Posted>> /\ \A n : Wanted(n)' = Wanted(n)
    BY <1>4, PostedStays
  <2> QED
    BY <1>4, <1>k, <2>1 DEF AckInv, LostInRestartOnly, vars, history
<1> QED
  BY <1>1, <1>2, <1>3, <1>4, NextSplit

(* An acknowledging adapter loses a message only with its process: what the   *)
(* platform has dropped was dispatched or is in hand, however connections    *)
(* and acknowledgements are lost and envelopes repeated.                   *)
THEOREM OnlyRestartsLose == Spec => []LostInRestartOnly
<1>1. AckInv => LostInRestartOnly
  BY DEF AckInv, LostInRestartOnly
<1> QED
  BY <1>1, InitOk, TypeStep, AckStep, PTL DEF Spec

-----------------------------------------------------------------------------
(* The order of what is dispatched.                                        *)

(* What is still to come stays newer than what has been dispatched. *)
LEMMA TurnStep == TypeInv /\ TurnInv /\ [Next]_vars => TurnInv'
<1> SUFFICES ASSUME TypeInv, TurnInv, [Next]_vars PROVE TurnInv'
  OBVIOUS
<1>t. /\ hand \in SUBSET Updates /\ wire \in SUBSET Updates /\ last \in Nat
      /\ Updates \subseteq Nat
      /\ \A i \in DOMAIN order : order[i] \in Posted /\ order[i] \in Nat
  <2>1. \A i \in DOMAIN order : order[i] \in Updates /\ shape[order[i]] = "message"
    BY DEF TypeInv, TypeOK
  <2> QED
    BY <2>1, UpdatesAreNumbers DEF TypeInv, TypeOK, Posted
<1>k. /\ kind = "poll" => (\A n \in hand : last < n) /\ (\A i \in DOMAIN order : order[i] <= last)
      /\ kind = "push" => \A n \in wire : \A i \in DOMAIN order : order[i] < n
      /\ kind # "ack" => Increasing(order)
  BY DEF TurnInv, InOrder
<1>1. ASSUME NEW s \in Shapes, Post(s)
      PROVE  TurnInv'
  <2>1. PICK n \in Updates :
              /\ \A m \in Posted : m < n
              /\ wire' \in {wire, wire \cup {n}}
              /\ UNCHANGED <<kind, hand, last, order>>
    BY <1>1, PostStep
  <2> QED
    BY <1>k, <1>t, <2>1 DEF TurnInv, InOrder, Increasing
<1>2. CASE Moves
  <2>1. kind' = kind
    BY <1>2, PostedStays
  <2>2. CASE UNCHANGED <<wire, hand, last, order>>
    BY <1>k, <2>1, <2>2 DEF TurnInv, InOrder, Increasing
  <2>3. CASE Restart
    <3>1. order' = <<>> /\ hand' = {} /\ wire' = {}
      BY <2>3 DEF Restart, Cut
    <3> QED
      BY <2>1, <3>1 DEF TurnInv, InOrder, Increasing
  <2>4. CASE Answered \/ PollFails
    <3>1. /\ hand' \in {hand, Unconfirmed} /\ kind = "poll" /\ UNCHANGED <<last, order>>
      BY <2>4 DEF Answered, PollFails, history
    <3>2. \A n \in Unconfirmed : last < n
      <4>1. Unconfirmed = {n \in held : n > last} /\ held \subseteq Nat
        BY UpdatesAreNumbers DEF Unconfirmed, Newer, TypeInv, TypeOK, Posted
      <4> QED
        BY <1>t, <4>1
    <3> QED
      BY <1>k, <2>1, <3>1, <3>2 DEF TurnInv, InOrder, Increasing
  <2>5. CASE \E n \in Updates : Deliver(n) \/ AckArrives(n) \/ Acknowledge(n)
    <3>1. kind = "ack" \/ UNCHANGED <<wire, hand, last, order>>
      BY <2>5 DEF Deliver, AckArrives, Acknowledge, history
    <3>2. CASE kind = "ack"
      BY <2>1, <3>2 DEF TurnInv, InOrder
    <3> QED
      BY <2>2, <3>1, <3>2
  <2>6. CASE LoseLink
    <3>1. wire' = {} /\ UNCHANGED <<hand, last, order>>
      BY <2>6 DEF LoseLink, Cut, history
    <3> QED
      BY <1>k, <2>1, <3>1 DEF TurnInv, InOrder, Increasing
  <2>7. CASE StartOk \/ StartFails \/ Connect
    BY <2>2, <2>7 DEF StartOk, StartFails, Connect, UnchangedByLink, platformVars, history
  <2> QED
    BY <1>2, <2>3, <2>4, <2>5, <2>6, <2>7 DEF Moves
<1>3. CASE Handlings
  <2>1. kind' = kind
    BY <1>3, PostedStays
  <2>2. PICK S \in SUBSET Posted :
           /\ Dispatch(S)
           /\ \/ /\ kind = "poll" /\ hand # {} /\ hand' = {}
                 /\ S = Handled(hand) /\ last' = Max(S)
              \/ kind = "ack"
              \/ /\ kind = "push" /\ wire # {} /\ wire' = wire \ {Min(wire)}
                 /\ S = {Min(wire)}
    BY <1>3, HandlingStep
  <2>3. /\ \A i \in DOMAIN order' :
              \/ i \in DOMAIN order /\ order'[i] = order[i]
              \/ order'[i] \in S
        /\ Increasing(order) /\ (\A i \in DOMAIN order : \A n \in S : order[i] < n)
             => Increasing(order')
    BY <2>2, DispatchStep
  <2>4. CASE kind = "poll"
    <3>1. /\ S \subseteq hand /\ last' \in hand /\ \A n \in S : n <= last'
      BY <1>t, <2>2, <2>4, HandledFirst
    <3>2. \A i \in DOMAIN order : \A n \in hand : order[i] < n
      <4>1. \A i \in DOMAIN order : order[i] <= last /\ order[i] \in Nat
        BY <1>k, <1>t, <2>4
      <4>2. \A n \in hand : last < n /\ n \in Nat
        BY <1>k, <1>t, <2>4
      <4> QED
        BY <1>t, <4>1, <4>2
    <3>3. Increasing(order')
      BY <1>k, <2>3, <2>4, <3>1, <3>2
    <3>4. \A i \in DOMAIN order' : order'[i] <= last'
      <4> SUFFICES ASSUME NEW i \in DOMAIN order' PROVE order'[i] <= last'
        OBVIOUS
      <4>1. CASE i \in DOMAIN order /\ order'[i] = order[i]
        <5>1. order'[i] < last' /\ order'[i] \in Nat /\ last' \in Nat
          BY <1>t, <3>1, <3>2, <4>1
        <5> QED
          BY <5>1
      <4>2. CASE order'[i] \in S
        BY <3>1, <4>2
      <4> QED
        BY <2>3, <4>1, <4>2
    <3> QED
      BY <2>1, <2>2, <2>4, <3>3, <3>4 DEF TurnInv, InOrder
  <2>5. CASE kind = "push"
    <3> DEFINE m == Min(wire)
    <3>1. /\ m \in wire /\ \A n \in wire : m <= n
      BY <1>t, <2>2, <2>5, FirstAndLast
    <3> HIDE DEF m
    <3>2. S = {m} /\ wire' = wire \ {m}
      BY <2>2, <2>5 DEF m
    <3>3. Increasing(order')
      BY <1>k, <2>3, <2>5, <3>1, <3>2
    <3>4. \A n \in wire' : m < n /\ n \in wire
      <4>1. \A n \in wire : n \in Nat
        BY <1>t
      <4> QED
        BY <3>1, <3>2, <4>1
    <3>5. \A n \in wire' : \A i \in DOMAIN order' : order'[i] < n
      BY <1>k, <2>3, <2>5, <3>2, <3>4
    <3> QED
      BY <2>1, <2>5, <3>3, <3>5 DEF TurnInv, InOrder
  <2>6. CASE kind = "ack"
    BY <2>1, <2>6 DEF TurnInv, InOrder
  <2> QED
    BY <2>2, <2>4, <2>5, <2>6
<1>4. CASE UNCHANGED vars
  BY <1>4, <1>k DEF vars, history, TurnInv, InOrder, Increasing
<1> QED
  BY <1>1, <1>2, <1>3, <1>4, NextSplit

(* A polling or pushing adapter dispatches in the order of the platform, and   *)
(* nothing twice, however answers are lost and polls repeated.              *)
THEOREM DispatchedInOrder == Spec => []InOrder
<1>1. TurnInv => InOrder
  BY DEF TurnInv
<1> QED
  BY <1>1, InitOk, TypeStep, TurnStep, PTL DEF Spec

=============================================================================

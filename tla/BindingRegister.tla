-------------------------- MODULE BindingRegister ---------------------------
(***************************************************************************)
(* What the mapping promises its callers, with no cache, no version and no *)
(* replica in it: every user has one binding, a lookup answers with a      *)
(* binding its user had at some moment between call and return (a regular  *)
(* register), and bindings may change at any time.                         *)
(***************************************************************************)
CONSTANTS Users, Values, Readers, Idle

VARIABLES
  binding,  \* the binding of each user
  call,     \* the user each lookup in progress asks for, Idle if none
  window,   \* the bindings that user has had since the call
  answer    \* what the lookup last returned

rvars == <<binding, call, window, answer>>

Init ==
  /\ binding \in [Users -> Values]
  /\ call = [t \in Readers |-> Idle]
  /\ window = [t \in Readers |-> {}]
  /\ answer \in [Readers -> Values]

Invoke(t, u) ==
  /\ call[t] = Idle
  /\ call' = [call EXCEPT ![t] = u]
  /\ window' = [window EXCEPT ![t] = {binding[u]}]
  /\ UNCHANGED <<binding, answer>>

Answer(t) ==
  /\ call[t] # Idle
  /\ \E v \in window[t] : answer' = [answer EXCEPT ![t] = v]
  /\ call' = [call EXCEPT ![t] = Idle]
  /\ UNCHANGED <<binding, window>>

(* the process of some lookups dies: they never answer *)
Abandon(T) ==
  /\ \A t \in T : call[t] # Idle
  /\ call' = [t \in Readers |-> IF t \in T THEN Idle ELSE call[t]]
  /\ window' = [t \in Readers |-> IF t \in T THEN {} ELSE window[t]]
  /\ UNCHANGED <<binding, answer>>

Change ==
  /\ binding' \in [Users -> Values]
  /\ window' = [t \in Readers |-> IF call[t] = Idle THEN window[t]
                                  ELSE window[t] \cup {binding'[call[t]]}]
  /\ UNCHANGED <<call, answer>>

Next ==
  \/ \E t \in Readers : Answer(t) \/ \E u \in Users : Invoke(t, u)
  \/ \E T \in SUBSET Readers : Abandon(T)
  \/ Change

Spec == Init /\ [][Next]_rvars
=============================================================================

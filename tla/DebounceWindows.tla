--------------------------- MODULE DebounceWindows ---------------------------
(***************************************************************************)
(* src/utils/claw_aggregator.py as its caller sees it: chat.final events   *)
(* are buffered per msg_id, a window is open or not, and a window that     *)
(* closes emits the best of its messages.  ClawAggregator implements it    *)
(* with tasks that are cancelled and replaced; OpenClawClient is built on  *)
(* it.                                                                     *)
(*                                                                         *)
(* A message keeps what the selection tells apart: its sequence number,    *)
(* and whether its text is blank, a placeholder ("junk") or a real answer. *)
(* Its files are passed on with it and do not count.  A window has no      *)
(* length here: an open one may close at any moment, so events within a    *)
(* window and events in two windows are both among the behaviours.         *)
(***************************************************************************)
EXTENDS Integers, Sequences

CONSTANTS
  MsgIds,     \* request ids and "proactive"
  Seqs,       \* payload seq
  MaxBuffer   \* bound on the events of one window

VARIABLES
  buffers,   \* _buffers
  tasks      \* the msg_ids whose window is open

wvars == <<buffers, tasks>>

Texts == {"blank", "junk", "real"}
Messages == [seq : Seqs, text : Texts]
States == {"final", "partial"}
Nothing == [seq |-> 0, text |-> "none"]

AggInit ==
  /\ buffers = [id \in MsgIds |-> <<>>]
  /\ tasks = {}

-----------------------------------------------------------------------------
(* _select_best *)

IsValid(m) == m.text = "real"
IsNonEmpty(m) == m.text # "blank"

(* Mutant: the candidates are the non-empty finals, placeholders included. *)
NonEmptyCandidates(ms) == {i \in DOMAIN ms : IsNonEmpty(ms[i])}

(* The valid texts, or else whatever is not blank. *)
Candidates(ms) ==
  LET valid == {i \in DOMAIN ms : IsValid(ms[i])}
  IN  IF valid # {} THEN valid ELSE {i \in DOMAIN ms : IsNonEmpty(ms[i])}

(* max() with key seq: the first of the highest *)
First(ms, i, j) == ms[j].seq < ms[i].seq \/ (ms[j].seq = ms[i].seq /\ i <= j)

SelectBest(ms) ==
  LET cs == Candidates(ms)
  IN  IF cs = {} THEN Nothing
      ELSE ms[CHOOSE i \in cs : \A j \in cs : First(ms, i, j)]

-----------------------------------------------------------------------------
(* add_event: a final joins the buffer of its msg_id, whose window is open  *)
(* from then on                                                            *)
AddEvent(id, m, state) ==
  /\ Len(buffers[id]) < MaxBuffer
  /\ \/ /\ state # "final"
        /\ UNCHANGED wvars
     \/ /\ state = "final"
        /\ buffers' = [buffers EXCEPT ![id] = Append(@, m)]
        /\ tasks' = tasks \cup {id}

(* _finalize_later up to the call of on_final, which gets SelectBest of the *)
(* buffer unless that is Nothing                                           *)
FinalizeLater(id) ==
  /\ id \in tasks
  /\ tasks' = tasks \ {id}
  /\ buffers' = [buffers EXCEPT ![id] = <<>>]

(* cancel_all *)
CancelAll ==
  /\ tasks' = {}
  /\ buffers' = [id \in MsgIds |-> <<>>]

AggNext ==
  \/ \E id \in MsgIds, m \in Messages, s \in States : AddEvent(id, m, s)
  \/ \E id \in MsgIds : FinalizeLater(id)
  \/ CancelAll

AggSpec == AggInit /\ [][AggNext]_wvars

-----------------------------------------------------------------------------
(* What a window of messages ms should emit: a real answer if one is in it,  *)
(* the latest (highest seq) of them, and of equally late ones the first; a   *)
(* placeholder only when no answer is there ("pick highest-seq among         *)
(* non-empty ones", the comment in _select_best); nothing when every text    *)
(* is blank, which is what the code does and not what the docstring says:    *)
(* see EmitsAnyway of ClawAggregator.                                       *)
BestOf(ms) ==
  LET best == SelectBest(ms)
      of(t) == {ms[i] : i \in {j \in DOMAIN ms : ms[j].text = t}}
  IN  /\ of("real") # {} =>
           best \in of("real") /\ \A m \in of("real") : m.seq <= best.seq
      /\ of("real") = {} /\ of("junk") # {} =>
           best \in of("junk") /\ \A m \in of("junk") : m.seq <= best.seq
      /\ of("real") \cup of("junk") = {} => best = Nothing
      /\ \A j \in DOMAIN ms :
           ms[j].text = best.text /\ ms[j].seq = best.seq
             => \E k \in 1..j : ms[k] = best
=============================================================================

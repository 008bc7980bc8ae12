------------------------ MODULE ReplyDeliveryProofs ------------------------
(***************************************************************************)
(* What holds of one inbound message for any number of partial texts and   *)
(* files, any interval and any length of the wait, whatever fails.         *)
(*                                                                         *)
(* ToldInv says what has failed, and what has been written, by the time     *)
(* handle_event is at each of its awaits; ShownInv why nothing follows the *)
(* final text on the Dify path; OrderInv in which order the partial texts   *)
(* pass StreamUpdater's lock.                                              *)
(***************************************************************************)
EXTENDS ReplyDelivery, TLAPS

Early == {"start", "placeholder", "generating"}

(* What handle_event writes into the placeholder. *)
Written == {NoPost, <<"status", 0>>, <<"answer", 0>>, <<"error", 0>>}

(* The files of an answer are those not looked at yet and those uploaded. *)
Files ==
  /\ left \in 0..MaxFiles /\ ready \in 0..MaxFiles
  /\ left + ready <= MaxFiles
  /\ pc \in Early => ready = 0
  /\ pc = "upload" => left > 0
  /\ pc = "files" => ready > 0

(* The verdict is there when it is to be shown. *)
Texts ==
  /\ pc \in Early \cup {"upload", "reply", "files", "lastTry", "sorry", "done"}
  /\ path \in {"claw", "dify"}
  /\ adapter \in {"mattermost", "telegram", "other"}
  /\ post \in Written \cup ({"chunk"} \X Chunks)
  /\ replies \subseteq {"notice", "answer", "files", "error"}
  /\ final \in {"none", "answer", "error"} /\ verdict \in {"none", "answer", "error"}
  /\ failed \subseteq {"early", "instance", "file", "platform"}
  /\ pc \in {"upload", "reply", "files", "lastTry"} => verdict # "none"

Updater ==
  /\ chunks \in 0..MaxChunks
  /\ stream \in [Chunks -> {"none", "new", "waiting", "sending", "done"}]
  /\ at \in [Chunks -> 0..MaxTime]
  /\ last \in -Interval..MaxTime /\ sent \in -Interval..MaxTime
  /\ clock \in 0..MaxTime

TypeInv == Files /\ Texts /\ Updater

(* Until send_message is called only the platform can have failed; the last *)
(* try follows a failure of the platform; a text that was not written with   *)
(* the files is in the placeholder.                                        *)
ToldInv ==
  /\ pc = "start" => failed = {}
  /\ pc \in Early => verdict = "none"
  /\ pc \in {"placeholder", "generating"} /\ path = "claw" => failed \subseteq {"platform"}
  /\ pc = "lastTry" => "platform" \in failed
  /\ pc = "files" /\ post # NoPost /\ "platform" \notin failed => final # "none"
  /\ NeverSilent

(* Without a placeholder nothing is streamed.  The Dify path leaves no edit  *)
(* behind when it goes on to the final text.                               *)
ShownInv ==
  /\ pc \in {"start", "placeholder"} => post = NoPost
  /\ post = NoPost => \A n \in Chunks : stream[n] = "none"
  /\ pc \in Early => final = "none"
  /\ path = "dify" /\ pc \notin Early => Quiet
  /\ path = "dify" /\ final # "none" => post = <<final, 0>>

(* The calls start in the order of their texts, and pass the lock one by    *)
(* one in that order; the text in the placeholder is older than those that  *)
(* are still to be written.                                                *)
OrderInv ==
  /\ \A n \in Chunks : stream[n] = "none" <=> n > chunks
  /\ \A m, n \in Chunks : m < n /\ stream[m] = "new" => stream[n] \in {"new", "none"}
  /\ \A m, n \in Chunks : stream[m] = "sending" /\ stream[n] = "sending" => m = n
  /\ \A m, n \in Chunks : stream[m] = "sending" /\ stream[n] = "waiting" => m < n
  /\ post[1] = "chunk" =>
       /\ stream[post[2]] = "done"
       /\ \A n \in Chunks : Unfinished(n) => post[2] < n

-----------------------------------------------------------------------------
(* The types.                                                              *)

(* The bounds are natural numbers. *)
LEMMA Bounds ==
  /\ Interval \in Nat \ {0} /\ MaxTime \in Nat /\ MaxChunks \in Nat /\ MaxFiles \in Nat
  /\ Chunks \subseteq Nat
BY TimeAssumption DEF Chunks

(* The initial state satisfies the four invariants. *)
LEMMA InitOk == Init => TypeInv /\ ToldInv /\ ShownInv /\ OrderInv
<1> SUFFICES ASSUME Init PROVE TypeInv /\ ToldInv /\ ShownInv /\ OrderInv
  OBVIOUS
<1> USE Bounds DEF Init
<1>1. TypeInv
  BY DEF TypeInv, Files, Texts, Updater, Early, Written
<1>2. ToldInv
  BY DEF ToldInv, NeverSilent, Early, NoPost
<1>3. ShownInv
  BY DEF ShownInv, Early, Quiet, Unfinished
<1>4. OrderInv
  BY DEF OrderInv, NoPost, Chunks
<1> QED
  BY <1>1, <1>2, <1>3, <1>4

(* The steps of handle_event. *)
Handles ==
  \/ Known \/ Provision \/ Unmapped \/ Raises \/ Placeholder
  \/ ClawReturns \/ DifyReturns
  \/ Upload \/ Reply \/ ReplyWithFiles \/ PostFiles \/ LastTry \/ Sorry

(* handle_event leaves the updater alone. *)
LEMMA HandlerUpdater ==
  Handles => UNCHANGED <<chunks, stream, at, last, sent, clock>>
BY DEF Handles, Known, Provision, Unmapped, Raises, Placeholder, ClawReturns, DifyReturns,
       Upload, Reply, ReplyWithFiles, PostFiles, LastTry, Sorry, streamVars

(* It counts the files of the answer. *)
LEMMA HandlerFiles ==
  ASSUME Files, Handles
  PROVE  Files'
<1> USE DEF Files, Early
<1>b. /\ MaxFiles \in Nat /\ left \in Nat /\ ready \in Nat
  BY Bounds
<1>1. CASE ready' = ready /\ left' = left /\ pc' \notin {"upload", "files"} /\ (pc' \in Early => pc \in Early)
  BY <1>1
<1>2. CASE ClawReturns
  <2>1. ready' = ready /\ ready = 0
    BY <1>2 DEF ClawReturns
  <2>2. \/ left' \in 0..MaxFiles /\ pc' = IF left' = 0 THEN "reply" ELSE "upload"
        \/ left' = left /\ pc' \in {"done", "sorry"}
    BY <1>2 DEF ClawReturns
  <2> QED
    BY <1>b, <2>1, <2>2
<1>3. CASE Upload
  <2>1. pc = "upload"
    BY <1>3 DEF Upload
  <2>2. \/ /\ left' = left - 1 /\ ready' \in {ready, ready + 1}
           /\ pc' = IF left' = 0 THEN "reply" ELSE pc
        \/ pc' = "sorry" /\ left' = left /\ ready' = ready
    BY <1>3 DEF Upload
  <2> QED
    BY <1>b, <2>1, <2>2
<1>4. CASE ReplyWithFiles
  <2>1. pc' \in {"files", "sorry"} /\ ready > 0 /\ left' = left /\ ready' = ready
    BY <1>4 DEF ReplyWithFiles, fileVars
  <2> QED
    BY <1>b, <2>1
<1>5. CASE PostFiles
  <2>1. pc = "files" /\ left' = left
    BY <1>5 DEF PostFiles
  <2>2. \/ ready' \in {ready - 1, 0} /\ pc' = IF ready' = 0 THEN "done" ELSE pc
        \/ pc' \in {"done", "sorry"} /\ ready' = ready
    BY <1>5 DEF PostFiles
  <2> QED
    BY <1>b, <2>1, <2>2
<1>6. CASE Known \/ Provision \/ Unmapped \/ Raises \/ Placeholder \/ DifyReturns
            \/ Reply \/ LastTry \/ Sorry
  <2>1. ready' = ready /\ left' = left
    BY <1>6 DEF Known, Provision, Unmapped, Raises, Placeholder, DifyReturns, Reply,
               LastTry, Sorry, fileVars
  <2>2. pc' \notin {"upload", "files"} /\ (pc' \in Early => pc \in Early)
    BY <1>6 DEF Known, Provision, Unmapped, Raises, Placeholder, DifyReturns, Reply,
               LastTry, Sorry, Route
  <2> QED
    BY <1>1, <2>1, <2>2
<1> QED
  BY <1>2, <1>3, <1>4, <1>5, <1>6 DEF Handles

(* Showing a text writes it once. *)
LEMMA ShowStep ==
  ASSUME NEW v \in {"answer", "error"}, Show(v)
  PROVE  /\ post' = post \/ post' = <<v, 0>>
         /\ final' \in {final, v}
         /\ replies' \in {replies, replies \cup {v}}
         /\ final' = v \/ v \in replies'
         /\ post # NoPost => final' = v /\ post' = <<v, 0>>
         /\ post = NoPost => UNCHANGED <<post, final>>
BY DEF Show

(* Its own texts are no partial ones. *)
LEMMA HandlerTexts ==
  ASSUME Texts, Handles
  PROVE  Texts' /\ (post' = post \/ post' \in Written)
<1> USE DEF Texts, Early, Written, Fails, fileVars
<1>1. CASE Known \/ Provision \/ Unmapped \/ Raises \/ Placeholder
  <2>1. CASE Known
    BY <2>1 DEF Known, Route
  <2>2. CASE Provision
    BY <2>2 DEF Provision, Route
  <2>3. CASE Unmapped
    BY <2>3 DEF Unmapped, Route
  <2>4. CASE Raises
    BY <2>4 DEF Raises
  <2>5. CASE Placeholder
    BY <2>5 DEF Placeholder
  <2> QED
    BY <1>1, <2>1, <2>2, <2>3, <2>4, <2>5
<1>2. CASE ClawReturns
  BY <1>2 DEF ClawReturns
<1>3. CASE DifyReturns
  BY <1>3 DEF DifyReturns
<1>4. CASE Upload
  BY <1>4 DEF Upload
<1>5. CASE Reply \/ LastTry \/ ReplyWithFiles
  <2>1. /\ verdict \in {"answer", "error"}
        /\ Show(verdict) \/ UNCHANGED <<post, replies, final>>
        /\ pc' \in {"done", "sorry", "lastTry", "files"}
        /\ verdict' \in {verdict, "error"}
        /\ failed' \in {failed, failed \cup {"platform"}}
        /\ UNCHANGED <<path, adapter>>
    BY <1>5 DEF Reply, LastTry, ReplyWithFiles
  <2>2. /\ post' = post \/ post' = <<verdict, 0>>
        /\ final' \in {final, verdict}
        /\ replies' \in {replies, replies \cup {verdict}}
    BY <2>1, ShowStep
  <2> QED
    BY <2>1, <2>2
<1>6. CASE PostFiles
  BY <1>6 DEF PostFiles
<1>7. CASE Sorry
  BY <1>7 DEF Sorry
<1> QED
  BY <1>1, <1>2, <1>3, <1>4, <1>5, <1>6, <1>7 DEF Handles

-----------------------------------------------------------------------------
(* The steps of StreamUpdater, the end of the wait for Dify, and time.       *)

(* A step of StreamUpdater changes no more than these of handle_event's. *)
Alone ==
  /\ UNCHANGED <<pc, path, replies, final, verdict, adapter, left, ready>>
  /\ failed' = failed \/ (MayFail /\ failed' = failed \cup {"platform"})

Streams ==
  \/ Chunk \/ Tick \/ \E n \in Chunks : OnStream(n) \/ OnLock(n) \/ Edited(n)

(* It leaves handle_event where it is; an edit brings a partial text. *)
LEMMA StreamAlone ==
  ASSUME Streams
  PROVE  /\ Alone
         /\ post' = post \/ \E n \in Chunks : Edited(n) /\ post' = <<"chunk", n>>
<1>1. CASE Chunk \/ Tick
  BY <1>1 DEF Chunk, Tick, UnchangedByStream, fileVars, Alone
<1>2. ASSUME NEW n \in Chunks, OnStream(n) \/ OnLock(n)
      PROVE  Alone /\ post' = post
  BY <1>2 DEF OnStream, OnLock, UnchangedByStream, fileVars, Alone
<1>3. ASSUME NEW n \in Chunks, Edited(n)
      PROVE  Alone /\ (post' = post \/ post' = <<"chunk", n>>)
  BY <1>3 DEF Edited, UnchangedByStream, fileVars, Alone, Fails
<1> QED
  BY <1>1, <1>2, <1>3 DEF Streams

(* The fields of the updater keep their types. *)
LEMMA StreamUpdater ==
  ASSUME Updater, Streams
  PROVE  Updater'
<1> USE DEF Updater
<1>b. /\ Interval \in Nat \ {0} /\ MaxTime \in Nat /\ MaxChunks \in Nat
      /\ Chunks = 1..MaxChunks
      /\ clock \in -Interval..MaxTime
      /\ \A n \in Chunks : at[n] \in -Interval..MaxTime
  BY Bounds DEF Chunks
<1>1. CASE Chunk
  BY <1>b, <1>1 DEF Chunk
<1>2. CASE Tick
  BY <1>b, <1>2 DEF Tick
<1>3. ASSUME NEW n \in Chunks, OnStream(n) \/ OnLock(n)
      PROVE  Updater'
  <2>1. /\ UNCHANGED <<chunks, clock>>
        /\ at' = at \/ at' = [at EXCEPT ![n] = clock]
    BY <1>3 DEF OnStream, OnLock
  <2>2. \E v \in {"waiting", "sending", "done"} : stream' = [stream EXCEPT ![n] = v]
    BY <1>3 DEF OnStream, OnLock, Edit
  <2>3. /\ last' \in {last, clock, at[n]} /\ sent' \in {sent, clock}
    BY <1>3 DEF OnStream, OnLock, Edit
  <2> QED
    BY <1>b, <2>1, <2>2, <2>3
<1>4. ASSUME NEW n \in Chunks, Edited(n)
      PROVE  Updater'
  BY <1>4 DEF Edited
<1> QED
  BY <1>1, <1>2, <1>3, <1>4 DEF Streams

(* Every step is one of the handler or one of the updater, or ends the wait. *)
LEMMA NextSplit == Next => Handles \/ Streams \/ DifyTimeout
BY DEF Next, Handles, Streams

(* The types are kept. *)
LEMMA TypeStep == TypeInv /\ [Next]_vars => TypeInv'
<1> SUFFICES ASSUME TypeInv, [Next]_vars PROVE TypeInv'
  OBVIOUS
<1> USE DEF TypeInv
<1>1. CASE Handles
  <2>1. Updater'
    BY <1>1, HandlerUpdater DEF Updater
  <2> QED
    BY <1>1, <2>1, HandlerFiles, HandlerTexts
<1>2. CASE Streams
  <2>1. Files'
    BY <1>2, StreamAlone DEF Files, Alone
  <2>2. Texts'
    <3>1. /\ UNCHANGED <<pc, path, replies, final, verdict, adapter>>
          /\ failed' \in {failed, failed \cup {"platform"}}
          /\ post' = post \/ post' \in {"chunk"} \X Chunks
      BY <1>2, StreamAlone DEF Alone
    <3> QED
      BY <3>1 DEF Texts
  <2> QED
    BY <1>2, <2>1, <2>2, StreamUpdater
<1>3. CASE DifyTimeout
  <2>1. Updater' /\ Files'
    BY <1>3 DEF DifyTimeout, Updater, Files, Early, fileVars
  <2>2. Texts'
    BY <1>3 DEF DifyTimeout, Texts, Early, fileVars
  <2> QED
    BY <2>1, <2>2
<1>4. CASE UNCHANGED vars
  BY <1>4 DEF vars, fileVars, Files, Texts, Updater
<1> QED
  BY <1>1, <1>2, <1>3, <1>4, NextSplit

(* The handler's locals and the updater's fields keep their types; a file is   *)
(* never posted, or looked at, that is not there.                          *)
THEOREM TypesKept == Spec => []TypeOK
<1>1. TypeInv => TypeOK
  BY DEF TypeInv, Files, Texts, Updater, TypeOK, Early, Written
<1> QED
  BY <1>1, InitOk, TypeStep, PTL DEF Spec

-----------------------------------------------------------------------------
(* What is written last.                                                   *)

(* The first steps of handle_event write nothing into the placeholder but the *)
(* status.                                                                 *)
LEMMA FirstSteps ==
  ASSUME TypeInv, ShownInv,
         Known \/ Provision \/ Unmapped \/ Raises \/ Placeholder
  PROVE  /\ pc \in {"start", "placeholder"} /\ final' = final
         /\ pc' \in {"start", "placeholder"} => post' = NoPost
         /\ path' = "dify" /\ pc' = "done" => Quiet
<1>1. CASE Known
  BY <1>1 DEF Known, Route, ShownInv
<1>2. CASE Provision
  BY <1>2 DEF Provision, Route, Fails, ShownInv, Quiet, Unfinished
<1>3. CASE Unmapped
  BY <1>3 DEF Unmapped, Route, Fails, ShownInv, Quiet, Unfinished
<1>4. CASE Raises
  BY <1>4 DEF Raises, Fails, ShownInv, Quiet, Unfinished
<1>5. CASE Placeholder
  BY <1>5 DEF Placeholder, ShownInv
<1> QED
  BY <1>1, <1>2, <1>3, <1>4, <1>5

(* Every step keeps that nothing is streamed without a placeholder, nor       *)
(* after the wait for Dify.                                                 *)
LEMMA ShownStep == TypeInv /\ ShownInv /\ [Next]_vars => ShownInv'
<1> SUFFICES ASSUME TypeInv, ShownInv, [Next]_vars PROVE ShownInv'
  OBVIOUS
<1>1. CASE Handles
  <2>1. UNCHANGED stream
    BY <1>1, HandlerUpdater
  <2>2. CASE Known \/ Provision \/ Unmapped \/ Raises \/ Placeholder
    <3>1. /\ pc \in {"start", "placeholder"} /\ final' = final
          /\ pc' \in {"start", "placeholder"} => post' = NoPost
          /\ path' = "dify" /\ pc' = "done" => Quiet
      BY <2>2, FirstSteps
    <3>2. pc' \in {"placeholder", "generating", "done"}
      BY <2>2 DEF Known, Provision, Unmapped, Raises, Placeholder, Route
    <3> QED
      BY <2>1, <3>1, <3>2 DEF ShownInv, Early, Quiet, Unfinished
  <2>3. CASE ClawReturns \/ DifyReturns
    BY <2>1, <2>3 DEF ClawReturns, DifyReturns, ShownInv, Early, Quiet, Unfinished
  <2>4. CASE Upload \/ PostFiles \/ Sorry
    BY <2>1, <2>4 DEF Upload, PostFiles, Sorry, ShownInv, Early, Quiet, Unfinished
  <2>5. CASE Reply \/ ReplyWithFiles \/ LastTry
    <3>1. /\ pc \in {"reply", "lastTry"} /\ pc' \in {"done", "sorry", "lastTry", "files"}
          /\ path' = path
          /\ Show(verdict) \/ UNCHANGED <<post, final>>
      BY <2>5 DEF Reply, ReplyWithFiles, LastTry
    <3>2. verdict \in {"answer", "error"}
      BY <3>1 DEF TypeInv, Texts
    <3>3. \/ UNCHANGED <<post, final>>
          \/ post # NoPost /\ final' = verdict /\ post' = <<verdict, 0>>
      BY <3>1, <3>2, ShowStep
    <3>4. <<verdict, 0>> # NoPost
      BY <3>2 DEF NoPost
    <3> QED
      BY <2>1, <3>1, <3>3, <3>4 DEF ShownInv, Early, Quiet, Unfinished
  <2> QED
    BY <1>1, <2>2, <2>3, <2>4, <2>5 DEF Handles
<1>2. CASE Streams
  <2>1. UNCHANGED <<pc, path, final>>
    BY <1>2, StreamAlone DEF Alone
  <2>2. CASE Chunk
    <3>1. post # NoPost /\ post' = post /\ pc = "generating"
      BY <2>2 DEF Chunk
    <3> QED
      BY <2>1, <3>1 DEF ShownInv, Early
  <2>3. CASE Tick
    BY <2>1, <2>3 DEF Tick, ShownInv, Quiet, Unfinished
  <2>4. ASSUME NEW n \in Chunks, OnStream(n) \/ OnLock(n) \/ Edited(n)
        PROVE  ShownInv'
    <3>1. Unfinished(n)
      BY <2>4 DEF OnStream, OnLock, Edited, Unfinished
    <3>2. post # NoPost /\ ~Quiet
      BY <3>1 DEF ShownInv, Quiet, Unfinished
    <3>3. post' = post \/ post' = <<"chunk", n>>
      BY <2>4 DEF OnStream, OnLock, Edited
    <3>4. post' # NoPost
      BY <3>2, <3>3 DEF NoPost
    <3>5. path = "dify" => pc \in Early /\ final = "none"
      BY <3>2 DEF ShownInv
    <3> QED
      BY <2>1, <3>2, <3>4, <3>5 DEF ShownInv
  <2> QED
    BY <1>2, <2>2, <2>3, <2>4 DEF Streams
<1>3. CASE DifyTimeout
  <2>1. /\ pc = "generating" /\ pc' = "reply" /\ UNCHANGED <<path, post, final>>
        /\ stream' = [n \in Chunks |-> IF Unfinished(n) THEN "done" ELSE stream[n]]
    BY <1>3 DEF DifyTimeout
  <2>2. \A n \in Chunks : ~ Unfinished(n)'
    BY <2>1 DEF Unfinished
  <2>3. post = NoPost => \A n \in Chunks : stream'[n] = "none"
    BY <2>1 DEF ShownInv, Unfinished
  <2> QED
    BY <2>1, <2>2, <2>3 DEF ShownInv, Early, Quiet
<1>4. CASE UNCHANGED vars
  BY <1>4 DEF vars, ShownInv, Quiet, Unfinished
<1> QED
  BY <1>1, <1>2, <1>3, <1>4, NextSplit

(* On the Dify path the placeholder shows in the end what handle_event wrote  *)
(* last: each edit is awaited before the stream is read on, and wait_for     *)
(* takes an edit with it.                                                  *)
THEOREM DifyAnswerStays == Spec => []DifyAnswerShown
<1>1. ShownInv => DifyAnswerShown
  BY DEF ShownInv, DifyAnswerShown, AnswerShown
<1> QED
  BY <1>1, InitOk, TypeStep, ShownStep, PTL DEF Spec

-----------------------------------------------------------------------------
(* What the author is told.                                                *)

(* Every step keeps what handle_event has told of what has failed. *)
LEMMA ToldStep == TypeInv /\ ShownInv /\ ToldInv /\ [Next]_vars => ToldInv'
<1> SUFFICES ASSUME TypeInv, ShownInv, ToldInv, [Next]_vars PROVE ToldInv'
  OBVIOUS
<1>v. /\ verdict \in {"none", "answer", "error"}
      /\ pc \in {"upload", "reply", "files", "lastTry"} => verdict \in {"answer", "error"}
  BY DEF TypeInv, Texts
<1>1. CASE Known
  BY <1>1 DEF Known, Route, ToldInv, NeverSilent, Early
<1>2. CASE Provision
  BY <1>2 DEF Provision, Route, Fails, ToldInv, NeverSilent, Told, Early
<1>3. CASE Unmapped
  BY <1>3 DEF Unmapped, Route, Fails, ToldInv, NeverSilent, Told, Early
<1>4. CASE Raises
  BY <1>4 DEF Raises, Fails, ToldInv, NeverSilent, Early
<1>5. CASE Placeholder
  BY <1>5 DEF Placeholder, Fails, ToldInv, NeverSilent, Early
<1>6. CASE ClawReturns
  BY <1>6 DEF ClawReturns, Fails, ToldInv, NeverSilent, Told, Early
<1>7. CASE DifyReturns
  BY <1>7 DEF DifyReturns, ToldInv, NeverSilent, Early
<1>8. CASE Upload
  BY <1>8 DEF Upload, Fails, ToldInv, NeverSilent, Early
<1>9. CASE Reply
  BY <1>v, <1>9, ShowStep DEF Reply, Fails, ToldInv, NeverSilent, Told, Early
<1>10. CASE ReplyWithFiles
  <2>1. /\ pc = "reply" /\ pc' \in {"files", "sorry"}
        /\ \/ /\ failed' = failed
              /\ IF post # NoPost THEN Show(verdict) ELSE UNCHANGED <<post, final>>
           \/ "platform" \in failed'
    BY <1>10 DEF ReplyWithFiles, Fails
  <2>2. "platform" \notin failed' /\ post' # NoPost => final' # "none"
    BY <1>v, <2>1, ShowStep
  <2> QED
    BY <2>1, <2>2 DEF ToldInv, NeverSilent, Early
<1>11. CASE PostFiles
  <2>1. /\ pc = "files" /\ UNCHANGED <<post, final, verdict>>
        /\ \/ /\ pc' \in {"done", "files", "sorry"} /\ failed' = failed
              /\ pc' = "done" =>
                   replies' = replies \cup {IF post = NoPost THEN verdict ELSE "files"}
           \/ pc' \in {"done", "sorry"} /\ "platform" \in failed'
    BY <1>11 DEF PostFiles, Fails
  <2>2. pc' = "done" /\ "platform" \notin failed' => Told'
    BY <1>v, <2>1 DEF ToldInv, Told
  <2> QED
    BY <2>1, <2>2 DEF ToldInv, NeverSilent, Early
<1>12. CASE LastTry
  BY <1>12 DEF LastTry, ToldInv, NeverSilent, Early
<1>13. CASE Sorry
  BY <1>13 DEF Sorry, Fails, ToldInv, NeverSilent, Told, Early
<1>14. CASE Streams
  <2>1. /\ UNCHANGED <<pc, path, replies, final, verdict>>
        /\ failed' \in {failed, failed \cup {"platform"}}
    BY <1>14, StreamAlone DEF Alone
  <2>2. post' # NoPost => post # NoPost
    <3>1. CASE post' = post
      BY <3>1
    <3>2. ASSUME NEW n \in Chunks, Edited(n)
          PROVE  post # NoPost
      BY <3>2 DEF Edited, ShownInv
    <3> QED
      BY <1>14, <3>1, <3>2, StreamAlone
  <2>3. pc = "start" => failed' = failed
    <3>1. CASE Chunk \/ Tick
      BY <3>1 DEF Chunk, Tick
    <3>2. ASSUME NEW n \in Chunks, OnStream(n) \/ OnLock(n) \/ Edited(n)
          PROVE  pc # "start"
      BY <3>2 DEF OnStream, OnLock, Edited, ShownInv
    <3> QED
      BY <1>14, <3>1, <3>2 DEF Streams
  <2> QED
    BY <2>1, <2>2, <2>3 DEF ToldInv, NeverSilent, Told
<1>15. CASE DifyTimeout
  BY <1>15 DEF DifyTimeout, ToldInv, NeverSilent, Early
<1>16. CASE UNCHANGED vars
  BY <1>16 DEF vars, ToldInv, NeverSilent, Told
<1> QED
  BY <1>1, <1>2, <1>3, <1>4, <1>5, <1>6, <1>7, <1>8, <1>9, <1>10, <1>11, <1>12, <1>13,
     <1>14, <1>15, <1>16, NextSplit DEF Handles

(* Whether the agent, provisioning or a file of the answer fails, the author   *)
(* is told while the platform works: every except clause of handle_event     *)
(* ends in an edit or a reply, the upload loop's included.                 *)
THEOREM AuthorIsTold == Spec => []NeverSilent
<1>1. ToldInv => NeverSilent
  BY DEF ToldInv
<1> QED
  BY <1>1, InitOk, TypeStep, ShownStep, ToldStep, PTL DEF Spec

-----------------------------------------------------------------------------
(* The order of the partial texts.                                         *)

(* A call that starts is the oldest of those that have not; it goes past the  *)
(* lock, or waits for it behind the others.                                 *)
LEMMA OnStreamStep ==
  ASSUME TypeInv, OrderInv, NEW n \in Chunks, OnStream(n)
  PROVE  OrderInv'
<1>c. Chunks \subseteq Nat
  BY Bounds
<1>1. /\ stream[n] = "new" /\ UNCHANGED <<post, chunks>>
      /\ \A m \in Chunks : stream[m] = "new" => n <= m
      /\ \/ stream' = [stream EXCEPT ![n] = "done"]
         \/ stream' = [stream EXCEPT ![n] = "waiting"]
         \/ ~Locked /\ ~Waited /\ stream' = [stream EXCEPT ![n] = "sending"]
  BY DEF OnStream, Edit
<1>2. stream \in [Chunks -> {"none", "new", "waiting", "sending", "done"}]
  BY DEF TypeInv, Updater
<1>3. PICK v \in {"done", "waiting", "sending"} :
        /\ stream' = [stream EXCEPT ![n] = v]
        /\ v = "sending" => ~Locked /\ ~Waited
  BY <1>1
<1>4. \A m \in Chunks : stream'[m] = IF m = n THEN v ELSE stream[m]
  BY <1>2, <1>3
<1>5. \A m \in Chunks : stream'[m] = "none" <=> m > chunks'
  BY <1>1, <1>4 DEF OrderInv
<1>6. ASSUME NEW m \in Chunks, NEW k \in Chunks, m < k, stream'[m] = "new"
      PROVE  stream'[k] \in {"new", "none"}
  <2>1. m # n /\ stream[m] = "new" /\ n <= m
    BY <1>1, <1>4, <1>6
  <2>2. k # n
    BY <1>c, <1>6, <2>1
  <2> QED
    BY <1>4, <1>6, <2>1, <2>2 DEF OrderInv
<1>7. \A m, k \in Chunks : stream'[m] = "sending" /\ stream'[k] = "sending" => m = k
  BY <1>3, <1>4 DEF OrderInv, Locked
<1>8. ASSUME NEW m \in Chunks, NEW k \in Chunks, stream'[m] = "sending", stream'[k] = "waiting"
      PROVE  m < k
  <2>1. CASE m = n
    BY <1>3, <1>4, <1>8, <2>1 DEF Waited
  <2>2. CASE m # n /\ k = n
    <3>1. stream[m] = "sending"
      BY <1>4, <1>8, <2>2
    <3>2. ~(n < m)
      BY <1>1, <3>1 DEF OrderInv
    <3> QED
      BY <1>c, <2>2, <3>2
  <2>3. CASE m # n /\ k # n
    BY <1>4, <1>8, <2>3 DEF OrderInv
  <2> QED
    BY <2>1, <2>2, <2>3
<1>9. ASSUME post'[1] = "chunk"
      PROVE  /\ stream'[post'[2]] = "done"
             /\ \A k \in Chunks : Unfinished(k)' => post'[2] < k
  <2>1. /\ post[1] = "chunk" /\ post' = post
        /\ stream[post[2]] = "done" /\ \A k \in Chunks : Unfinished(k) => post[2] < k
    BY <1>1, <1>9 DEF OrderInv
  <2>2. post[2] \in Chunks
    BY <2>1 DEF TypeInv, Texts, Written, NoPost
  <2>3. \A k \in Chunks : Unfinished(k)' => Unfinished(k)
    BY <1>1, <1>4 DEF Unfinished
  <2> QED
    BY <1>1, <1>4, <2>1, <2>2, <2>3
<1> QED
  BY <1>5, <1>6, <1>7, <1>8, <1>9 DEF OrderInv

(* A call that gets the lock is the oldest of those that wait for it. *)
LEMMA OnLockStep ==
  ASSUME TypeInv, OrderInv, NEW n \in Chunks, OnLock(n)
  PROVE  OrderInv'
<1>c. Chunks \subseteq Nat
  BY Bounds
<1>1. /\ stream[n] = "waiting" /\ ~Locked /\ UNCHANGED <<post, chunks>>
      /\ \A m \in Chunks : stream[m] = "waiting" => n <= m
  BY DEF OnLock
<1>2. stream \in [Chunks -> {"none", "new", "waiting", "sending", "done"}]
  BY DEF TypeInv, Updater
<1>3. PICK v \in {"done", "sending"} : stream' = [stream EXCEPT ![n] = v]
  BY DEF OnLock, Edit
<1>4. \A m \in Chunks : stream'[m] = IF m = n THEN v ELSE stream[m]
  BY <1>2, <1>3
<1>5. \A m \in Chunks : stream'[m] = "none" <=> m > chunks'
  BY <1>1, <1>4 DEF OrderInv
<1>6. \A m, k \in Chunks : m < k /\ stream'[m] = "new" => stream'[k] \in {"new", "none"}
  BY <1>1, <1>4 DEF OrderInv
<1>7. \A m, k \in Chunks : stream'[m] = "sending" /\ stream'[k] = "sending" => m = k
  BY <1>1, <1>4 DEF Locked
<1>8. ASSUME NEW m \in Chunks, NEW k \in Chunks, stream'[m] = "sending", stream'[k] = "waiting"
      PROVE  m < k
  <2>1. m = n /\ k # n /\ stream[k] = "waiting"
    BY <1>1, <1>4, <1>8 DEF Locked
  <2> QED
    BY <1>c, <1>1, <2>1
<1>9. ASSUME post'[1] = "chunk"
      PROVE  /\ stream'[post'[2]] = "done"
             /\ \A k \in Chunks : Unfinished(k)' => post'[2] < k
  <2>1. /\ post[1] = "chunk" /\ post' = post
        /\ stream[post[2]] = "done" /\ \A k \in Chunks : Unfinished(k) => post[2] < k
    BY <1>1, <1>9 DEF OrderInv
  <2>2. post[2] \in Chunks
    BY <2>1 DEF TypeInv, Texts, Written, NoPost
  <2>3. \A k \in Chunks : Unfinished(k)' => Unfinished(k)
    BY <1>1, <1>4 DEF Unfinished
  <2> QED
    BY <1>1, <1>4, <2>1, <2>2, <2>3
<1> QED
  BY <1>5, <1>6, <1>7, <1>8, <1>9 DEF OrderInv

(* The edit that takes effect is older than those still to come, and newer    *)
(* than what the placeholder shows.                                         *)
LEMMA EditedStep ==
  ASSUME TypeInv, OrderInv, NEW n \in Chunks, Edited(n)
  PROVE  OrderInv' /\ (post[1] = "chunk" => post[2] < n)
<1>c. Chunks \subseteq Nat
  BY Bounds
<1>1. /\ stream[n] = "sending" /\ chunks' = chunks
      /\ post' \in {post, <<"chunk", n>>}
      /\ stream' = [stream EXCEPT ![n] = "done"]
  BY DEF Edited
<1>2. stream \in [Chunks -> {"none", "new", "waiting", "sending", "done"}]
  BY DEF TypeInv, Updater
<1>4. \A m \in Chunks : stream'[m] = IF m = n THEN "done" ELSE stream[m]
  BY <1>1, <1>2
<1>5. /\ \A m \in Chunks : stream'[m] = "none" <=> m > chunks'
      /\ \A m, k \in Chunks : m < k /\ stream'[m] = "new" => stream'[k] \in {"new", "none"}
      /\ \A m, k \in Chunks : stream'[m] = "sending" /\ stream'[k] = "sending" => m = k
      /\ \A m, k \in Chunks : stream'[m] = "sending" /\ stream'[k] = "waiting" => m < k
  BY <1>1, <1>4 DEF OrderInv
<1>6. ASSUME post[1] = "chunk"
      PROVE  /\ post[2] \in Chunks /\ stream[post[2]] = "done" /\ post[2] < n
             /\ \A k \in Chunks : Unfinished(k) => post[2] < k
  <2>1. post[2] \in Chunks
    BY <1>6 DEF TypeInv, Texts, Written, NoPost
  <2> QED
    BY <1>1, <1>6, <2>1 DEF OrderInv, Unfinished
<1>7. \A k \in Chunks : Unfinished(k)' => Unfinished(k) /\ k # n
  BY <1>4 DEF Unfinished
<1>8. ASSUME NEW k \in Chunks, Unfinished(k), k # n
      PROVE  n < k
  <2>1. CASE stream[k] = "new"
    <3>1. ~(k < n)
      BY <1>1, <2>1 DEF OrderInv
    <3> QED
      BY <1>c, <1>8, <3>1
  <2>2. CASE stream[k] \in {"waiting", "sending"}
    BY <1>1, <1>8, <2>2 DEF OrderInv
  <2> QED
    BY <1>8, <2>1, <2>2 DEF Unfinished
<1>9. ASSUME post'[1] = "chunk"
      PROVE  /\ stream'[post'[2]] = "done"
             /\ \A k \in Chunks : Unfinished(k)' => post'[2] < k
  <2>1. CASE post' = <<"chunk", n>>
    BY <1>4, <1>7, <1>8, <2>1
  <2>2. CASE post' = post
    BY <1>4, <1>6, <1>7, <1>9, <2>2
  <2> QED
    BY <1>1, <2>1, <2>2
<1> QED
  BY <1>5, <1>6, <1>9 DEF OrderInv

(* A new partial text is the newest. *)
LEMMA ChunkStep ==
  ASSUME TypeInv, OrderInv, Chunk
  PROVE  OrderInv'
<1> DEFINE n == chunks + 1
<1>1. /\ post' = post /\ chunks' = n /\ n \in Chunks /\ n \in Nat
      /\ Chunks \subseteq Nat /\ chunks \in Nat
      /\ stream' = [stream EXCEPT ![n] = "new"]
  BY Bounds DEF Chunk, TypeInv, Updater, Chunks
<1>2. stream \in [Chunks -> {"none", "new", "waiting", "sending", "done"}]
  BY DEF TypeInv, Updater
<1>3. chunks' = chunks + 1
  BY <1>1
<1> HIDE DEF n
<1>4. \A m \in Chunks : stream'[m] = IF m = n THEN "new" ELSE stream[m]
  BY <1>1, <1>2
<1>5. \A m \in Chunks : stream[m] # "none" => m < n
  BY <1>1, <1>3 DEF OrderInv
<1>6. stream[n] = "none" /\ \A m \in Chunks : m > n => stream[m] = "none"
  BY <1>1, <1>3 DEF OrderInv
<1>7. \A m \in Chunks : stream'[m] = "none" <=> m > chunks'
  BY <1>1, <1>3, <1>4, <1>6 DEF OrderInv
<1>8. \A m, k \in Chunks : m < k /\ stream'[m] = "new" => stream'[k] \in {"new", "none"}
  BY <1>1, <1>4, <1>6 DEF OrderInv
<1>9. /\ \A m, k \in Chunks : stream'[m] = "sending" /\ stream'[k] = "sending" => m = k
      /\ \A m, k \in Chunks : stream'[m] = "sending" /\ stream'[k] = "waiting" => m < k
  BY <1>4 DEF OrderInv
<1>10. ASSUME post'[1] = "chunk"
       PROVE  /\ stream'[post'[2]] = "done"
              /\ \A k \in Chunks : Unfinished(k)' => post'[2] < k
  <2>1. post[2] \in Chunks /\ post' = post /\ stream[post[2]] = "done"
    BY <1>1, <1>10 DEF TypeInv, Texts, Written, NoPost, OrderInv
  <2>2. post[2] < n
    BY <1>5, <2>1
  <2>3. \A k \in Chunks : Unfinished(k)' => k = n \/ Unfinished(k)
    BY <1>4 DEF Unfinished
  <2>4. \A k \in Chunks : Unfinished(k) => post[2] < k
    BY <1>1, <1>10 DEF OrderInv
  <2>5. post[2] # n
    BY <1>6, <2>1
  <2>6. stream'[post[2]] = "done"
    BY <1>4, <2>1, <2>5
  <2>7. \A k \in Chunks : Unfinished(k)' => post[2] < k
    BY <2>2, <2>3, <2>4
  <2> QED
    BY <2>1, <2>6, <2>7
<1> QED
  BY <1>7, <1>8, <1>9, <1>10 DEF OrderInv

(* Every step keeps the order of the texts. *)
LEMMA OrderStep == TypeInv /\ OrderInv /\ [Next]_vars => OrderInv'
<1> SUFFICES ASSUME TypeInv, OrderInv, [Next]_vars PROVE OrderInv'
  OBVIOUS
<1>1. CASE Handles
  <2>1. UNCHANGED <<chunks, stream>>
    BY <1>1, HandlerUpdater
  <2>2. post' = post \/ post'[1] # "chunk"
    BY <1>1, HandlerTexts DEF TypeInv, Written, NoPost
  <2> QED
    BY <2>1, <2>2 DEF OrderInv, Unfinished
<1>2. CASE Streams
  <2>1. CASE Tick
    BY <2>1 DEF Tick, OrderInv, Unfinished
  <2> QED
    BY <1>2, <2>1, ChunkStep, OnStreamStep, OnLockStep, EditedStep DEF Streams
<1>3. CASE DifyTimeout
  <2>1. /\ UNCHANGED <<post, chunks>>
        /\ \A n \in Chunks : stream'[n] = IF Unfinished(n) THEN "done" ELSE stream[n]
    BY <1>3 DEF DifyTimeout
  <2>2. \A n \in Chunks : /\ stream'[n] \notin {"new", "waiting", "sending"}
                         /\ stream'[n] = "none" <=> stream[n] = "none"
    BY <2>1 DEF Unfinished
  <2>3. post[1] = "chunk" => stream'[post[2]] = "done"
    <3>1. post[1] = "chunk" => post[2] \in Chunks
      BY DEF TypeInv, Texts, Written, NoPost
    <3> QED
      BY <2>1, <3>1 DEF OrderInv
  <2> QED
    BY <2>1, <2>2, <2>3 DEF OrderInv, Unfinished
<1>4. CASE UNCHANGED vars
  BY <1>4 DEF vars, OrderInv, Unfinished
<1> QED
  BY <1>1, <1>2, <1>3, <1>4, NextSplit

(* The text that grows in the placeholder never shrinks, however slow the     *)
(* platform is: the edits take StreamUpdater's lock in the order of their    *)
(* texts and keep it until they have taken effect.                         *)
THEOREM StreamNeverShrinks == Spec => StreamInOrder
<1>1. ASSUME TypeInv, OrderInv, [Next]_vars
      PROVE  [post[1] = "chunk" /\ post'[1] = "chunk" => post'[2] >= post[2]]_vars
  <2>1. post[1] = "chunk" => post[2] \in Chunks /\ post[2] \in Nat
    <3>1. post[1] = "chunk" => post[2] \in Chunks
      BY <1>1 DEF TypeInv, Texts, Written, NoPost
    <3> QED
      BY <3>1, Bounds
  <2>2. CASE post' = post
    BY <2>1, <2>2
  <2>3. CASE Handles /\ post' \in Written
    BY <2>3 DEF Written, NoPost
  <2>4. ASSUME NEW n \in Chunks, Edited(n), post' = <<"chunk", n>>
        PROVE  post[1] = "chunk" => post'[2] >= post[2]
    BY <1>1, <2>1, <2>4, Bounds, EditedStep
  <2>5. CASE DifyTimeout \/ UNCHANGED vars
    BY <2>2, <2>5 DEF DifyTimeout, vars
  <2> QED
    BY <1>1, <2>2, <2>3, <2>4, <2>5, NextSplit, HandlerTexts, StreamAlone DEF TypeInv
<1> QED
  BY <1>1, InitOk, TypeStep, OrderStep, PTL DEF Spec, StreamInOrder

=============================================================================

---------------------------- MODULE ReplyDelivery ----------------------------
(***************************************************************************)
(* One inbound message, from Router.handle_event to what its author sees:  *)
(* the placeholder post, StreamUpdater's edits of it while the answer is   *)
(* generated, and the last edit or reply.  OpenClawClient fires a task for *)
(* every partial text (path "claw"); DifyClient awaits each edit before it *)
(* reads on (path "dify").  Time is counted in ticks.                      *)
(*                                                                         *)
(* A platform call may fail where MayFail is set, and takes effect at the  *)
(* step that ends it.                                                      *)
(***************************************************************************)
EXTENDS Integers

CONSTANTS
  MayFail,        \* do platform calls, the provisioner and the agent fail?
  AutoProvision,  \* values of settings.enable_auto_provisioning
  HasDify,        \* may, or must, DIFY_API_KEY be set?
  Mapped,         \* may the user have an instance?
  MaxFiles,       \* bound on the media of an answer
  Interval,       \* StreamUpdater's interval
  MaxChunks,      \* bound on the partial texts
  MaxTime         \* bound on the clock

ASSUME FlagsAssumption ==
  MayFail \in BOOLEAN /\ Mapped \in BOOLEAN
    /\ AutoProvision \subseteq BOOLEAN /\ HasDify \subseteq BOOLEAN
ASSUME TimeAssumption ==
  Interval \in Nat \ {0} /\ {MaxTime, MaxChunks, MaxFiles} \subseteq Nat

VARIABLES
  pc,       \* where handle_event is
  path,     \* who answers
  post,     \* what the placeholder shows: <<kind, number of the chunk>>
  replies,  \* kinds of the other replies
  final,    \* the kind of the edit by which handle_event has ended the placeholder
  verdict,  \* what handle_event is about to show
  adapter,  \* whose send_post_with_files it is
  left,     \* media paths not looked at yet
  ready,    \* uploaded_file_ids not posted yet
  failed,   \* history: what has failed
  chunks,   \* partial texts so far
  stream,   \* the state of the on_stream call of each
  at,       \* its "now"
  last,     \* _last_update
  sent,     \* history: the start of the latest edit
  clock

fileVars == <<adapter, left, ready>>
vars == <<pc, path, post, replies, final, verdict, fileVars, failed, chunks, stream,
          at, last, sent, clock>>
streamVars == <<chunks, stream, at, last, sent, clock>>

Chunks == 1..MaxChunks
NoPost == <<"none", 0>>

Init ==
  /\ pc = "start" /\ path = "claw"
  /\ post = NoPost /\ replies = {}
  /\ final = "none" /\ verdict = "none" /\ failed = {}
  /\ adapter \in {"mattermost", "telegram", "other"}
  /\ left = 0 /\ ready = 0
  /\ chunks = 0
  /\ stream = [n \in Chunks |-> "none"]
  /\ at = [n \in Chunks |-> 0]
  /\ last = -Interval /\ sent = -Interval /\ clock = 0

-----------------------------------------------------------------------------
(* handle_event: who answers.                                              *)

Fails(what) == MayFail /\ failed' = failed \cup {what}

Route(p) == pc' = "placeholder" /\ path' = p

(* get_cached_info, or get_instance_by_identity finds the user *)
Known ==
  /\ pc = "start" /\ Mapped
  /\ Route("claw")
  /\ UNCHANGED <<post, replies, final, verdict, fileVars, failed, streamVars>>

(* the notice, provision_instance and the edit of the notice: if one of     *)
(* them raises, Dify answers or the failure is reported                     *)
Provision ==
  /\ pc = "start" /\ TRUE \in AutoProvision
  /\ \/ /\ replies' = replies \cup {"notice"}
        /\ Route("claw")
        /\ UNCHANGED failed
     \/ /\ Fails("instance") \/ Fails("platform")
        /\ \E shown \in SUBSET {"notice"} :
             \/ TRUE \in HasDify /\ Route("dify") /\ replies' = replies \cup shown
             \/ /\ FALSE \in HasDify
                /\ pc' = "done" /\ path' = path
                /\ \E err \in SUBSET {"error"} :
                     /\ err = {} => "platform" \in failed'
                     /\ replies' = replies \cup shown \cup err
  /\ UNCHANGED <<post, final, verdict, fileVars, streamVars>>

Unmapped ==
  /\ pc = "start" /\ FALSE \in AutoProvision
  /\ \/ TRUE \in HasDify /\ Route("dify") /\ UNCHANGED <<replies, failed>>
     \/ /\ FALSE \in HasDify
        /\ pc' = "done" /\ path' = path
        /\ \/ replies' = replies \cup {"notice"} /\ failed' = failed
           \/ Fails("platform") /\ replies' = replies
  /\ UNCHANGED <<post, final, verdict, fileVars, streamVars>>

(* What nothing catches: the database fails in the lookup, or the info of an *)
(* attachment is malformed.                                                *)
Raises ==
  /\ pc = "start" \/ (pc = "placeholder" /\ path = "claw")
  /\ Fails("early")
  /\ pc' = "done"
  /\ UNCHANGED <<path, post, replies, final, verdict, fileVars, streamVars>>

(* a random status phrase; without a placeholder nothing is streamed *)
Placeholder ==
  /\ pc = "placeholder"
  /\ pc' = "generating"
  /\ \/ post' = <<"status", 0>> /\ failed' = failed
     \/ Fails("platform") /\ post' = NoPost
  /\ UNCHANGED <<path, replies, final, verdict, fileVars, streamVars>>

-----------------------------------------------------------------------------
(* StreamUpdater.on_stream.                                                *)

Unfinished(n) == stream[n] \in {"new", "waiting", "sending"}
Quiet == \A n \in Chunks : ~Unfinished(n)

UnchangedByStream == <<pc, path, replies, final, verdict, fileVars>>

(* a partial text: a task of its own, or awaited *)
Chunk ==
  /\ pc = "generating" /\ post # NoPost
  /\ path = "dify" => Quiet
  /\ chunks < MaxChunks
  /\ chunks' = chunks + 1
  /\ stream' = [stream EXCEPT ![chunks + 1] = "new"]
  /\ UNCHANGED <<post, failed, at, last, sent, clock, UnchangedByStream>>

Locked == \E n \in Chunks : stream[n] = "sending"
Waited == \E n \in Chunks : stream[n] = "waiting"

TooSoon(t) == t - last < Interval

(* with the lock: the time of the call, not of the edit, is what counts *)
Edit(n, t) ==
  IF TooSoon(t)
  THEN /\ stream' = [stream EXCEPT ![n] = "done"]
       /\ UNCHANGED <<last, sent>>
  ELSE /\ stream' = [stream EXCEPT ![n] = "sending"]
       /\ last' = t
       /\ sent' = clock

(* Mutant: no lock around the edit. *)
OnStreamUnlocked(n) ==
  /\ stream[n] = "new"
  /\ \A m \in Chunks : stream[m] = "new" => n <= m
  /\ at' = [at EXCEPT ![n] = clock]
  /\ Edit(n, clock)
  /\ UNCHANGED <<post, failed, chunks, clock, UnchangedByStream>>

(* the call starts; tasks start in the order in which they were created, and *)
(* a lock that others wait for is not taken before them                     *)
OnStream(n) ==
  /\ stream[n] = "new"
  /\ \A m \in Chunks : stream[m] = "new" => n <= m
  /\ at' = [at EXCEPT ![n] = clock]
  /\ \/ TooSoon(clock) /\ Edit(n, clock)
     \/ /\ ~TooSoon(clock)
        /\ Locked \/ Waited
        /\ stream' = [stream EXCEPT ![n] = "waiting"]
        /\ UNCHANGED <<last, sent>>
     \/ ~TooSoon(clock) /\ ~Locked /\ ~Waited /\ Edit(n, clock)
  /\ UNCHANGED <<post, failed, chunks, clock, UnchangedByStream>>

(* the lock is fair *)
OnLock(n) ==
  /\ stream[n] = "waiting" /\ ~Locked
  /\ \A m \in Chunks : stream[m] = "waiting" => n <= m
  /\ Edit(n, at[n])
  /\ UNCHANGED <<post, failed, at, chunks, clock, UnchangedByStream>>

(* update_reply takes effect and returns; a failure is swallowed *)
Edited(n) ==
  /\ stream[n] = "sending"
  /\ stream' = [stream EXCEPT ![n] = "done"]
  /\ \/ post' = <<"chunk", n>> /\ failed' = failed
     \/ Fails("platform") /\ post' = post
  /\ UNCHANGED <<chunks, at, last, sent, clock, UnchangedByStream>>

Tick ==
  /\ clock < MaxTime
  /\ clock' = clock + 1
  /\ UNCHANGED <<post, failed, chunks, stream, at, last, sent, UnchangedByStream>>

-----------------------------------------------------------------------------
(* handle_event: the outcome.                                              *)

(* Mutant: an empty answer is shown. *)
ClawReturnsEmpty ==
  /\ pc = "generating" /\ path = "claw"
  /\ pc' = "reply"
  /\ \E v \in {"answer", "empty"} : verdict' = v
  /\ UNCHANGED <<path, post, replies, final, fileVars, failed, streamVars>>

(* send_message returns: an empty answer is only logged, its media included *)
ClawReturns ==
  /\ pc = "generating" /\ path = "claw"
  /\ \/ /\ verdict' = "answer" /\ failed' = failed
        /\ left' \in 0..MaxFiles
        /\ pc' = IF left' = 0 THEN "reply" ELSE "upload"
     \/ pc' = "done" /\ UNCHANGED <<verdict, left, failed>>
     \/ Fails("instance") /\ pc' = "sorry" /\ UNCHANGED <<verdict, left>>
  /\ UNCHANGED <<path, post, replies, final, adapter, ready, streamVars>>

(* Mutant: the upload is outside the try. *)
UploadUncaught ==
  /\ pc = "upload"
  /\ \/ /\ left' = left - 1
        /\ pc' = IF left' = 0 THEN "reply" ELSE pc
        /\ ready' \in {ready, ready + 1}
        /\ failed' = failed
     \/ Fails("file") /\ pc' = "done" /\ UNCHANGED <<left, ready>>
  /\ UNCHANGED <<path, post, replies, final, verdict, adapter, streamVars>>

(* container_path_to_host and upload_to_mattermost of one path: a path      *)
(* outside the workspace, a missing or large file and an HTTP failure are   *)
(* skipped; an error of the file system or in the response is raised.       *)
(* Only Mattermost uploads, and then reads the file.                       *)
Upload ==
  /\ pc = "upload"
  /\ \/ /\ left' = left - 1
        /\ pc' = IF left' = 0 THEN "reply" ELSE pc
        /\ ready' \in {ready, ready + 1}
        /\ failed' = failed
     \/ /\ adapter = "mattermost" /\ Fails("file")
        /\ pc' = "sorry" /\ UNCHANGED <<left, ready>>
  /\ UNCHANGED <<path, post, replies, final, verdict, adapter, streamVars>>

(* Mutant: the answer does not wait for the edits. *)
DifyReturnsEarly ==
  /\ pc = "generating" /\ path = "dify"
  /\ pc' = "reply"
  /\ \E v \in {"answer", "error"} : verdict' = v
  /\ UNCHANGED <<path, post, replies, final, fileVars, failed, streamVars>>

(* chat returns: an empty answer, an error and an exception read the same *)
DifyReturns ==
  /\ pc = "generating" /\ path = "dify" /\ Quiet
  /\ pc' = "reply"
  /\ \E v \in {"answer", "error"} : verdict' = v
  /\ UNCHANGED <<path, post, replies, final, fileVars, failed, streamVars>>

(* wait_for ends chat, and with it an edit that has not taken effect *)
DifyTimeout ==
  /\ pc = "generating" /\ path = "dify"
  /\ pc' = "reply" /\ verdict' = "error"
  /\ stream' = [n \in Chunks |-> IF Unfinished(n) THEN "done" ELSE stream[n]]
  /\ UNCHANGED <<path, post, replies, final, fileVars, failed, chunks, at, last,
                 sent, clock>>

(* update_reply or send_reply takes effect: the edit of the placeholder, or *)
(* a reply without one                                                      *)
Show(v) ==
  IF post # NoPost
  THEN post' = <<v, 0>> /\ final' = v /\ UNCHANGED replies
  ELSE replies' = replies \cup {v} /\ UNCHANGED <<post, final>>

(* A failure is swallowed by the adapter or raised.  If it is raised, the   *)
(* claw path replies with an error; the Dify path tries to show one in the  *)
(* same way once.                                                          *)
Reply ==
  /\ pc = "reply" /\ ready = 0
  /\ \/ Show(verdict) /\ pc' = "done" /\ UNCHANGED <<verdict, failed>>
     \/ /\ Fails("platform")
        /\ \/ pc' = "done" /\ UNCHANGED verdict
           \/ path = "claw" /\ pc' = "sorry" /\ UNCHANGED verdict
           \/ path = "dify" /\ pc' = "lastTry" /\ verdict' = "error"
        /\ UNCHANGED <<post, replies, final>>
  /\ UNCHANGED <<path, fileVars, streamVars>>

(* with files to post, the placeholder gets the text first *)
ReplyWithFiles ==
  /\ pc = "reply" /\ ready > 0
  /\ \/ /\ pc' = "files" /\ failed' = failed
        /\ IF post # NoPost THEN Show(verdict) ELSE UNCHANGED <<post, replies, final>>
     \/ /\ post # NoPost /\ Fails("platform")
        /\ pc' \in {"files", "sorry"}
        /\ UNCHANGED <<post, replies, final>>
  /\ UNCHANGED <<path, verdict, fileVars, streamVars>>

(* send_post_with_files, which brings the text if there is no placeholder:  *)
(* the Mattermost adapter does not know the argument file_ids_or_paths,     *)
(* Telegram sends one file after the other, the others name them in a reply *)
PostFiles ==
  /\ pc = "files"
  /\ \/ /\ adapter = "mattermost"
        /\ pc' = "sorry"
        /\ UNCHANGED <<replies, ready, failed>>
     \/ /\ adapter # "mattermost"
        /\ ready' = IF adapter = "telegram" THEN ready - 1 ELSE 0
        /\ pc' = IF ready' = 0 THEN "done" ELSE pc
        /\ replies' = replies \cup {IF post = NoPost THEN verdict ELSE "files"}
        /\ failed' = failed
     \/ /\ adapter # "mattermost" /\ Fails("platform")
        /\ pc' \in {"done", "sorry"}
        /\ UNCHANGED <<replies, ready>>
  /\ UNCHANGED <<path, post, final, verdict, adapter, left, streamVars>>

LastTry ==
  /\ pc = "lastTry"
  /\ pc' = "done"
  /\ Show(verdict) \/ UNCHANGED <<post, replies, final>>
  /\ UNCHANGED <<path, verdict, fileVars, failed, streamVars>>

(* a reply of its own; the placeholder stays as it is *)
Sorry ==
  /\ pc = "sorry"
  /\ pc' = "done"
  /\ \/ replies' = replies \cup {"error"} /\ failed' = failed
     \/ Fails("platform") /\ replies' = replies
  /\ UNCHANGED <<path, post, final, verdict, fileVars, streamVars>>

-----------------------------------------------------------------------------

Next ==
  \/ Known \/ Provision \/ Unmapped \/ Raises \/ Placeholder
  \/ Chunk \/ Tick
  \/ \E n \in Chunks : OnStream(n) \/ OnLock(n) \/ Edited(n)
  \/ ClawReturns \/ DifyReturns \/ DifyTimeout
  \/ Upload \/ Reply \/ ReplyWithFiles \/ PostFiles \/ LastTry \/ Sorry

Spec == Init /\ [][Next]_vars

-----------------------------------------------------------------------------
(* The types of the handler's locals and of the updater's fields. *)
TypeOK ==
  /\ pc \in {"start", "placeholder", "generating", "upload", "reply", "files",
            "lastTry", "sorry", "done"}
  /\ path \in {"claw", "dify"}
  /\ post \in {NoPost, <<"status", 0>>, <<"answer", 0>>, <<"error", 0>>}
                \cup ({"chunk"} \X Chunks)
  /\ replies \subseteq {"notice", "answer", "files", "error"}
  /\ {final, verdict} \subseteq {"none", "answer", "error"}
  /\ adapter \in {"mattermost", "telegram", "other"}
  /\ left \in 0..MaxFiles /\ ready \in 0..MaxFiles
  /\ failed \subseteq {"early", "instance", "file", "platform"}
  /\ chunks \in 0..MaxChunks
  /\ stream \in [Chunks -> {"none", "new", "waiting", "sending", "done"}]
  /\ at \in [Chunks -> 0..MaxTime]
  /\ {last, sent} \subseteq -Interval..MaxTime
  /\ clock \in 0..MaxTime

(* The text that grows in the placeholder never shrinks: edits that wait    *)
(* for a slow platform are not overtaken by later ones (StreamUpdater's      *)
(* _lock around update_reply).                                              *)
StreamInOrder == [][post[1] = "chunk" /\ post'[1] = "chunk" => post'[2] >= post[2]]_vars

(* Once the handler and all edits have ended, the placeholder shows what    *)
(* the handler wrote last, not a partial text ("4. Reply via corresponding  *)
(* channel adapter", handle_event).                                         *)
AnswerShown ==
  pc = "done" /\ Quiet /\ final # "none" => post = <<final, 0>>

(* On the Dify path each edit is awaited before the stream is read on, and  *)
(* wait_for takes an edit with it: nothing overwrites the final text.       *)
DifyAnswerShown == path = "dify" => AnswerShown

(* "Select a random status phrase to show while generating" (handle_event): *)
(* if no call fails, the phrase is gone when the handler is.                *)
StatusGone == pc = "done" /\ Quiet /\ failed = {} => post[1] # "status"

Told ==
  \/ final # "none"
  \/ replies \cap {"answer", "error"} # {}
  \/ failed = {} /\ verdict = "none"

(* Whether the agent, provisioning or a file of the answer fails, the author *)
(* is told while the platform works: a handler that ends without an answer  *)
(* or an error text had an empty answer, or a user without an instance who  *)
(* was told so (the except clauses of handle_event and its upload loop).    *)
NeverSilent == pc = "done" /\ failed \cap {"early", "platform"} = {} => Told

(* The same of the failures before the message is sent ("Process an         *)
(* incoming chat message from any supported provider", handle_event).       *)
NeverSilentEarly == pc = "done" /\ "platform" \notin failed => Told

(* A file that cannot be sent costs the author the file, not the text       *)
(* ("None on failure", upload_to_mattermost).                              *)
TextDespiteFiles ==
  pc = "done" /\ verdict = "answer" /\ "platform" \notin failed =>
    final = "answer" \/ "answer" \in replies

(* Files reach a Mattermost channel ("Proxies attachments and media between *)
(* Mattermost and OpenClaw instances", docs/architecture.md): where nothing *)
(* fails there is no error reply.                                          *)
FilesPosted == failed = {} => "error" \notin replies

StartsEdit(n) == stream[n] # "sending" /\ stream'[n] = "sending"
Spaced == (\E n \in Chunks : StartsEdit(n)) => clock - sent >= Interval

(* "Throttles streaming updates to chat platform APIs to avoid rate limits" *)
(* (StreamUpdater): two edits start at least an interval apart.             *)
Throttled == [][Spaced]_vars

=============================================================================

----------------------------- MODULE Playground -----------------------------
(***************************************************************************)
(* The playground page of the console (web/src/features/playground): one   *)
(* conversation, answered by one model request at a time, kept in          *)
(* localStorage.                                                           *)
(*                                                                         *)
(* Three layers race with each other and with the user:                    *)
(*   - React: an updater given to setMessages runs at once when no update  *)
(*     is pending (and React decides to), and else when the component is   *)
(*     rendered.  It reads requestGenerationRef when it runs.  Clicks see  *)
(*     the props of the last render and are rendered when they end;        *)
(*     network events and timers are rendered later.                       *)
(*   - the request: an SSE stream whose chunks are gathered for 50 ms, or  *)
(*     a fetch; every request has its generation, and the callbacks of an  *)
(*     older generation do nothing.                                        *)
(*   - storage: the messages are saved half a second after the last change *)
(*     and when the page is left, not when it is reloaded.                 *)
(*                                                                         *)
(* A text is a sequence of signs, each with the request it came from; the *)
(* model answers in words of a small alphabet.  A piece that starts with   *)
(* the text before it is taken for that text repeated, as the code does.   *)
(* Reasoning, with the <think> part of a content, timing, X-Served-By and  *)
(* the limits on what is stored are left out.  The request counter is      *)
(* never reset by a new page: only equality matters, and a new page holds  *)
(* no older value.                                                         *)
(***************************************************************************)
EXTENDS Naturals, Sequences, SequencesExt, FiniteSetsExt

CONSTANTS
    Letters,      \* what texts consist of
    Answers,      \* Answers[g]: what the model may answer to request g, word by word
    MaxMoves,     \* bound: what the user does
    MaxQueue      \* bound: updates between two renders

ASSUME PlaygroundBounds == MaxMoves \in Nat /\ MaxQueue \in Nat \ {0, 1}
ASSUME AnswersAssumption ==
    /\ Letters # {}
    /\ \A g \in 1 .. MaxMoves : Answers[g] \subseteq Seq(Seq(Letters) \ {<<>>})

VARIABLES
    view,         \* messages: rendered, pending updates, latestMessagesRef, save timer
    loaded,       \* hasLoadedMessagesRef
    stored,       \* localStorage pbr_playground_messages
    gen,          \* requestGenerationRef
    buffer,       \* pendingStreamChunksRef
    timer,        \* streamFlushTimerRef
    source,       \* the generation of the open SSE source, or 0
    fetching,     \* the generation of the fetch in flight, or 0
    streaming,    \* isStreaming as last set
    requesting,   \* isRequesting as last set
    busy,         \* isGenerating as last rendered
    hasKey,       \* config.clientKey is not empty
    editing,      \* editingMessageKey, or 0
    moves,        \* what the user did so far; also the source of fresh keys
    sent,         \* history: what arrived from the open source
    ended,        \* history: <<generation, sent>> of answers ended by [DONE]
    mishaps       \* history: what went wrong, see the properties

vars == <<view, loaded, stored, gen, buffer, timer, source, fetching, streaming,
          requesting, busy, hasKey, editing, moves, sent, ended, mishaps>>

Gens == 0 .. MaxMoves
Statuses == {"none", "loading", "streaming", "complete", "error"}

\* Signs of request g (0: of the user), and the word w as request g sends it.
From(g) == {g} \X Letters
Signs == Gens \X Letters
Piece(g, w) == [i \in DOMAIN w |-> <<g, w[i]>>]

\* The words that arrived, and their length altogether.
Sent == [words : Seq(Seq(Letters)), signs : Nat]
NothingSent == [words |-> <<>>, signs |-> 0]

\* A message is the user's (status "none") or the assistant's, made for the
\* request req.  An answer that the user rewrote belongs to no request.
Message == [role : {"user", "assistant"}, key : Nat, status : Statuses,
            req : Gens, text : Seq(Signs)]

\* A text that does not come in pieces: a question, an error, a whole answer.
SomeText(g) == <<<<g, CHOOSE c \in Letters : TRUE>>>>

UserMessage(k) ==
    [role |-> "user", key |-> k, status |-> "none", req |-> 0, text |-> SomeText(0)]
Answer(k, status, g, text) ==
    [role |-> "assistant", key |-> k, status |-> status, req |-> g, text |-> text]
LoadingMessage(k, g) == Answer(k, "loading", g, <<>>)

Pending(m) == m.status \in {"loading", "streaming"}
Final(m) == m.status \in {"complete", "error"}

\* The page of a fresh visit, before its messages are loaded.
Blank == [shown |-> <<>>, queue |-> <<>>, latest |-> <<>>, saving |-> FALSE]

\* Storage as an earlier visit left it, interrupted before a word of the answer
\* arrived; the user can clear it.
Init ==
    /\ stored = <<UserMessage(1), LoadingMessage(2, 0)>>
    /\ view = Blank /\ loaded = FALSE
    /\ gen = 0 /\ buffer = [gen |-> 0, chunks |-> <<>>] /\ timer = FALSE
    /\ source = 0 /\ fetching = 0 /\ streaming = FALSE /\ requesting = FALSE
    /\ busy = FALSE /\ hasKey = TRUE /\ editing = 0 /\ moves = 0
    /\ sent = NothingSent /\ ended = {} /\ mishaps = {}

-----------------------------------------------------------------------------
(* Message lists.                                                          *)

UpdateLastAssistantMessage(ms, F(_)) ==
    IF ms # <<>> /\ Last(ms).role = "assistant"
    THEN [ms EXCEPT ![Len(ms)] = F(@)] ELSE ms

\* mergePendingStreamChunk and getAppendableChunk: a chunk that starts with
\* the text is the text repeated, and a bit more.
Joined(text, chunk) == IF IsPrefix(text, chunk) THEN chunk ELSE text \o chunk

ApplyStreamingChunk(m, chunks) ==
    IF m.status = "error" THEN m
    ELSE [m EXCEPT !.status = "streaming", !.text = Joined(@, chunks)]

\* Mutant of CompleteAssistantMessage: a status of its own.
CompleteAssistantMessageDone(m) == [m EXCEPT !.status = "done"]

CompleteAssistantMessage(m) == [m EXCEPT !.status = "complete"]

\* The answer is replaced by the text of the error.
FailedMessage(m) == [m EXCEPT !.status = "error", !.text = SomeText(m.req)]

\* updateCurrentVersionContent of an edit: the user's text takes the place of
\* the answer.
Rewritten(m) == [m EXCEPT !.req = 0, !.text = SomeText(0)]

RemoveMessageByKey(ms, k) ==
    LET kept[i \in 0 .. Len(ms)] ==
            IF i = 0 THEN <<>>
            ELSE IF ms[i].key = k THEN kept[i - 1] ELSE Append(kept[i - 1], ms[i])
    IN  kept[Len(ms)]

FindIndex(ms, k) == SelectInSeq(ms, LAMBDA m : m.key = k)

\* normalizeStoredMessageForLoad: an answer that has something is complete.
NormalizeStoredMessage(m) ==
    IF Pending(m) /\ m.text # <<>> THEN CompleteAssistantMessage(m) ELSE m

\* Mutant of SanitizeMessagesOnLoad: an interrupted answer without a word is
\* left as it is.
SanitizeNothing(ms) == ms

\* The last answer that is still pending was interrupted.
SanitizeMessagesOnLoad(ms) ==
    LET stuck == {i \in DOMAIN ms : Pending(ms[i])} IN
    IF stuck = {} THEN ms ELSE [ms EXCEPT ![Max(stuck)] = FailedMessage(@)]

-----------------------------------------------------------------------------
(* React: updates of the messages.                                         *)

Update(op, g, list, chunks, k) ==
    [op |-> op, gen |-> g, list |-> list, chunks |-> chunks, key |-> k]
Replace(list) == Update("replace", 0, list, <<>>, 0)
Evaluated(list) == Update("evaluated", 0, list, <<>>, 0)
ForLast(op, g) == Update(op, g, <<>>, <<>>, 0)

\* What an updater returns when it runs while requestGenerationRef is g.
Run(u, ms, g) ==
    CASE u.op \in {"replace", "evaluated"} -> u.list
      [] u.op = "remove" -> RemoveMessageByKey(ms, u.key)
      [] u.op = "keyless" -> UpdateLastAssistantMessage(ms, FailedMessage)
      [] u.op \in {"append", "finish", "fail", "answer", "stop"} /\ u.gen # g -> ms
      [] u.op = "append" /\ u.gen = g ->
            UpdateLastAssistantMessage(ms, LAMBDA m : ApplyStreamingChunk(m, u.chunks))
      [] u.op = "finish" /\ u.gen = g ->
            UpdateLastAssistantMessage(ms, LAMBDA m :
                IF Final(m) THEN m ELSE CompleteAssistantMessage(m))
      [] u.op = "fail" /\ u.gen = g -> UpdateLastAssistantMessage(ms, FailedMessage)
      [] u.op = "answer" /\ u.gen = g ->
            UpdateLastAssistantMessage(ms, LAMBDA m :
                [m EXCEPT !.status = "complete", !.text = SomeText(g)])
      [] u.op = "stop" /\ u.gen = g ->
            UpdateLastAssistantMessage(ms, LAMBDA m :
                IF Pending(m) THEN CompleteAssistantMessage(m) ELSE m)

\* Mutant of PersistMessages: a pending save keeps the messages it was set for.
PersistMessagesOnce(v, ms) ==
    IF v.saving THEN v ELSE [v EXCEPT !.latest = ms, !.saving = loaded]

\* Every updater remembers its result and starts the half second again.
PersistMessages(v, ms) == [v EXCEPT !.latest = ms, !.saving = loaded]

\* setMessages(updater); "eager" says whether React runs it at once, which it
\* may when nothing is pending.  A result that changes nothing is forgotten.
Push(v, u, g, eager) ==
    LET ms == Run(u, v.shown, g) IN
    IF ~eager \/ v.queue # <<>> THEN [v EXCEPT !.queue = Append(@, u)]
    ELSE IF ms = v.shown THEN PersistMessages(v, ms)
    ELSE [PersistMessages(v, ms) EXCEPT !.queue = <<Evaluated(ms)>>]

\* An update reaches the screen; one that ran before is not run again.
Ran(v, u, g) ==
    LET ms == Run(u, v.shown, g)
        next == [v EXCEPT !.shown = ms]
    IN  IF u.op = "evaluated" THEN next ELSE PersistMessages(next, ms)

\* The component is rendered: what did not run yet runs now, in order.
Rendered(v, g) ==
    LET done[i \in 0 .. Len(v.queue)] ==
            IF i = 0 THEN [v EXCEPT !.queue = <<>>] ELSE Ran(done[i - 1], v.queue[i], g)
    IN  done[Len(v.queue)]

Room(n) == Len(view.queue) + n <= MaxQueue

RenderDue == view.queue # <<>> \/ busy # (streaming \/ requesting)

Render ==
    /\ RenderDue
    /\ view' = Rendered(view, gen)
    /\ busy' = (streaming \/ requesting)
    /\ UNCHANGED <<loaded, stored, gen, buffer, timer, source, fetching, streaming,
                   requesting, hasKey, editing, moves, sent, ended, mishaps>>

-----------------------------------------------------------------------------
(* The request: use-chat-handler.ts and use-stream-request.ts.             *)

\* Mutant of DiscardPendingStreamUpdates: what was gathered is kept.
KeepPendingStreamUpdates(g) == [buffer EXCEPT !.gen = g]

DiscardPendingStreamUpdates(g) == [gen |-> g, chunks |-> <<>>]

\* flushStreamUpdates(buffer.gen), as far as the messages are concerned.
Flushed(v, eager) ==
    IF buffer.gen # gen \/ buffer.chunks = <<>> THEN v
    ELSE Push(v, Update("append", gen, <<>>, buffer.chunks, 0), gen, eager)

\* The timer of a generation that is over returns before it forgets itself.
FlushTimer ==
    /\ timer
    /\ buffer.gen = gen
    /\ Room(1)
    /\ timer' = FALSE
    /\ \E eager \in BOOLEAN : view' = Flushed(view, eager)
    /\ buffer' = DiscardPendingStreamUpdates(gen)
    /\ UNCHANGED <<loaded, stored, gen, source, fetching, streaming, requesting, busy,
                   hasKey, editing, moves, sent, ended, mishaps>>

\* handleStreamUpdate
StreamDelta ==
    /\ source # 0 /\ "cut" \notin mishaps
    /\ \E answer \in {a \in Answers[source] : IsStrictPrefix(sent.words, a)} :
         LET w == answer[Len(sent.words) + 1] IN
         /\ sent' = [words |-> Append(sent.words, w), signs |-> sent.signs + Len(w)]
         /\ IF source = gen /\ buffer.gen = gen
            THEN buffer' = [buffer EXCEPT !.chunks = Joined(@, Piece(gen, w))] /\ timer' = TRUE
            ELSE UNCHANGED <<buffer, timer>>
    /\ UNCHANGED <<view, loaded, stored, gen, source, fetching, streaming, requesting, busy,
                   hasKey, editing, moves, ended, mishaps>>

\* Mutant of Conclude: the end does not flush what was gathered.
ConcludeUnflushed(g, op) ==
    IF g # gen THEN UNCHANGED <<view, requesting, buffer, timer>>
    ELSE /\ \E e \in BOOLEAN : view' = Push(view, ForLast(op, g), g, e)
         /\ requesting' = FALSE
         /\ buffer' = DiscardPendingStreamUpdates(g)
         /\ timer' = FALSE

\* Mutant of Conclude: isRequesting is left set.
ConcludeStillRequesting(g, op) ==
    IF g # gen THEN UNCHANGED <<view, requesting, buffer, timer>>
    ELSE /\ \E e \in BOOLEAN : view' = Push(Flushed(view, e), ForLast(op, g), g, e)
         /\ buffer' = DiscardPendingStreamUpdates(g)
         /\ timer' = FALSE
         /\ UNCHANGED requesting

\* handleStreamComplete, handleStreamError and the end of a fetch: nothing at
\* all for a generation that is over.
Conclude(g, op) ==
    IF g # gen THEN UNCHANGED <<view, requesting, buffer, timer>>
    ELSE /\ \E e1, e2 \in BOOLEAN :
               view' = Push(Flushed(view, e1), ForLast(op, g), g, e2)
         /\ requesting' = FALSE
         /\ buffer' = DiscardPendingStreamUpdates(g)
         /\ timer' = FALSE

StreamDone ==
    /\ source # 0 /\ "cut" \notin mishaps
    /\ Room(2)
    /\ Conclude(source, "finish")
    /\ source' = 0 /\ streaming' = FALSE
    /\ ended' = IF source = gen THEN ended \cup {<<gen, sent>>} ELSE ended
    /\ sent' = NothingSent
    /\ UNCHANGED <<loaded, stored, gen, fetching, busy, hasKey, editing, moves, mishaps>>

\* An error event, an HTTP status other than 200, a line that does not parse.
StreamError ==
    /\ source # 0 /\ "cut" \notin mishaps
    /\ Room(2)
    /\ Conclude(source, "fail")
    /\ source' = 0 /\ streaming' = FALSE
    /\ sent' = NothingSent
    /\ UNCHANGED <<loaded, stored, gen, fetching, busy, hasKey, editing, moves, ended, mishaps>>

\* The response ends with status 200 and without [DONE]: readystatechange is
\* the only event, and its listener ignores it.
StreamCut ==
    /\ source # 0
    /\ "cut" \notin mishaps
    /\ mishaps' = mishaps \cup {"cut"}
    /\ UNCHANGED <<view, loaded, stored, gen, buffer, timer, source, fetching, streaming,
                   requesting, busy, hasKey, editing, moves, sent, ended>>

\* The fetch of sendNonStreamingChat is answered, with a choice or without, or
\* fails.  An aborted fetch is gone already.
FetchAnswer ==
    /\ fetching # 0
    /\ Room(2)
    /\ \E op \in {"answer", "fail"} : Conclude(fetching, op)
    /\ fetching' = 0
    /\ UNCHANGED <<loaded, stored, gen, source, streaming, busy, hasKey, editing, moves,
                   sent, ended, mishaps>>

\* sendChat: the three ways a request starts, after the messages were
\* replaced by list.  The click is rendered when its handler returns.
SendChat(list) ==
    LET g == gen + 1 IN
    /\ gen' = g
    /\ \E eager \in BOOLEAN :
         LET replaced == Push(view, Replace(list), gen, eager) IN
         \/ /\ ~hasKey
            /\ view' = Rendered(Push(replaced, ForLast("keyless", g), g, FALSE), g)
            /\ mishaps' = IF busy THEN mishaps \cup {"keyless"} ELSE mishaps
            /\ busy' = (streaming \/ requesting)
            /\ UNCHANGED <<buffer, timer, source, fetching, streaming, requesting, sent>>
         \/ /\ hasKey
            /\ view' = Rendered(replaced, g)
            /\ buffer' = DiscardPendingStreamUpdates(g) /\ timer' = FALSE
            /\ requesting' = TRUE /\ busy' = TRUE /\ sent' = NothingSent
            /\ mishaps' = mishaps \ {"cut", "keyless"}
            /\ \/ source' = g /\ streaming' = TRUE /\ fetching' = 0
               \/ source' = 0 /\ streaming' = FALSE /\ fetching' = g

-----------------------------------------------------------------------------
(* The user.  The buttons look at isGenerating of the last render; the     *)
(* editor of a message does not.                                           *)

Move == moves < MaxMoves /\ moves' = moves + 1
Key(role) == 2 * moves + IF role = "user" THEN 3 ELSE 4

\* handleSendMessage; nobody types and sends before the timer of loadMessages.
SendMessage ==
    /\ Move
    /\ loaded /\ ~busy
    /\ SendChat(view.shown \o <<UserMessage(Key("user")), LoadingMessage(Key("assistant"), gen + 1)>>)
    /\ UNCHANGED <<loaded, stored, hasKey, editing, ended>>

\* handleRegenerateMessage: what follows the question is dropped.
RegenerateMessage(i) ==
    LET kept == IF view.shown[i].role = "user" THEN i ELSE i - 1 IN
    /\ Move
    /\ ~busy
    /\ view.shown[i].text # <<>> /\ ~Pending(view.shown[i])
    /\ SendChat(Append(SubSeq(view.shown, 1, kept), LoadingMessage(Key("assistant"), gen + 1)))
    /\ UNCHANGED <<loaded, stored, hasKey, editing, ended>>

EditMessage(i) ==
    /\ Move
    /\ ~busy
    /\ view.shown[i].text # <<>>
    /\ editing' = view.shown[i].key
    /\ UNCHANGED <<view, loaded, stored, gen, buffer, timer, source, fetching, streaming,
                   requesting, busy, hasKey, sent, ended, mishaps>>

\* The list is computed from the messages of the last render.
SaveEdit ==
    LET i == FindIndex(view.shown, editing)
        rewritten == IF view.shown[i].role = "user" THEN view.shown
                     ELSE [view.shown EXCEPT ![i] = Rewritten(@)]
    IN
    /\ Move
    /\ editing # 0 /\ i # 0
    /\ editing' = 0
    /\ \E eager \in BOOLEAN : view' = Rendered(Push(view, Replace(rewritten), gen, eager), gen)
    /\ busy' = (streaming \/ requesting)
    /\ mishaps' = IF view.queue # <<>> THEN mishaps \cup {"clobbered"} ELSE mishaps
    /\ UNCHANGED <<loaded, stored, gen, buffer, timer, source, fetching, streaming, requesting,
                   hasKey, sent, ended>>

SaveEditAndSubmit ==
    LET i == FindIndex(view.shown, editing) IN
    /\ Move
    /\ editing # 0 /\ i # 0
    /\ view.shown[i].role = "user"
    /\ editing' = 0
    /\ SendChat(Append(SubSeq(view.shown, 1, i), LoadingMessage(Key("assistant"), gen + 1)))
    /\ UNCHANGED <<loaded, stored, hasKey, ended>>

\* handleDeleteMessage and the confirmed Clear.
DeleteMessages ==
    /\ Move
    /\ ~busy
    /\ view.shown # <<>>
    /\ \E eager \in BOOLEAN :
         \/ /\ \E i \in DOMAIN view.shown :
                  view' = Rendered(Push(view, Update("remove", 0, <<>>, <<>>, view.shown[i].key),
                                        gen, eager), gen)
            /\ UNCHANGED editing
         \/ /\ view' = Rendered(Push(view, Replace(<<>>), gen, eager), gen)
            /\ editing' = 0
    /\ UNCHANGED <<loaded, stored, gen, buffer, timer, source, fetching, streaming, requesting,
                   busy, hasKey, sent, ended, mishaps>>

\* stopGeneration: flush under the old generation, then finish under a new
\* one.  A flush that React does not run at once runs after the change, and
\* then drops what it carries.
StopGeneration ==
    LET idle == gen + 1 IN
    /\ Move
    /\ busy
    /\ gen' = idle
    /\ \E eager \in BOOLEAN :
         view' = Rendered(Push(Flushed(view, eager), ForLast("stop", idle), idle, FALSE), idle)
    /\ buffer' = DiscardPendingStreamUpdates(idle) /\ timer' = FALSE
    /\ source' = 0 /\ fetching' = 0 /\ sent' = NothingSent
    /\ streaming' = FALSE /\ requesting' = FALSE /\ busy' = FALSE
    /\ ended' = {e \in ended : e[1] # gen}
    /\ mishaps' = mishaps \ {"cut", "keyless"}
    /\ UNCHANGED <<loaded, stored, hasKey, editing>>

\* The list of client keys is fetched again and lacks the chosen one.
KeyRevoked ==
    /\ hasKey
    /\ hasKey' = FALSE
    /\ UNCHANGED <<view, loaded, stored, gen, buffer, timer, source, fetching, streaming,
                   requesting, busy, editing, moves, sent, ended, mishaps>>

ChooseKey ==
    /\ Move
    /\ ~hasKey /\ ~busy
    /\ hasKey' = TRUE
    /\ UNCHANGED <<view, loaded, stored, gen, buffer, timer, source, fetching, streaming,
                   requesting, busy, editing, sent, ended, mishaps>>

-----------------------------------------------------------------------------
(* Loading, saving and leaving: use-playground-state.ts, storage.ts.       *)

LoadMessages ==
    LET normalized == [i \in DOMAIN stored |-> NormalizeStoredMessage(stored[i])]
        ms == SanitizeMessagesOnLoad(normalized)
    IN
    /\ ~loaded
    /\ loaded' = TRUE
    /\ stored' = ms
    /\ view' = [view EXCEPT !.latest = ms, !.queue = <<Evaluated(ms)>>]
    /\ UNCHANGED <<gen, buffer, timer, source, fetching, streaming, requesting, busy, hasKey,
                   editing, moves, sent, ended, mishaps>>

SaveMessages ==
    /\ view.saving
    /\ stored' = view.latest
    /\ view' = [view EXCEPT !.saving = FALSE]
    /\ UNCHANGED <<loaded, gen, buffer, timer, source, fetching, streaming, requesting, busy,
                   hasKey, editing, moves, sent, ended, mishaps>>

\* A new visit: whatever was in flight belongs to the old one.
Visit ==
    /\ view' = Blank /\ loaded' = FALSE
    /\ gen' = gen + 1 /\ buffer' = DiscardPendingStreamUpdates(gen + 1) /\ timer' = FALSE
    /\ source' = 0 /\ fetching' = 0 /\ streaming' = FALSE /\ requesting' = FALSE
    /\ sent' = NothingSent /\ busy' = FALSE /\ editing' = 0 /\ mishaps' = mishaps \ {"cut", "keyless"}
    /\ UNCHANGED hasKey

\* The user goes to another page of the console and comes back.
LeavePage ==
    /\ Move
    /\ Visit
    /\ stored' = IF view.saving THEN view.latest ELSE stored
    /\ ended' = IF view.queue = <<>> THEN ended ELSE {}

\* The browser reloads the page: no cleanup runs.
ReloadPage ==
    /\ Move
    /\ Visit
    /\ ended' = {}
    /\ UNCHANGED stored

-----------------------------------------------------------------------------
Next ==
    \/ Render \/ FlushTimer \/ StreamDelta \/ StreamDone \/ StreamError \/ StreamCut
    \/ FetchAnswer
    \/ SendMessage \/ SaveEdit \/ SaveEditAndSubmit \/ DeleteMessages \/ StopGeneration
    \/ KeyRevoked \/ ChooseKey \/ LoadMessages \/ SaveMessages \/ LeavePage \/ ReloadPage
    \/ \E i \in DOMAIN view.shown : RegenerateMessage(i) \/ EditMessage(i)

\* React renders what is due, and the network answers or fails.
Fairness == []<>~RenderDue /\ WF_vars(StreamDone \/ StreamError) /\ WF_vars(FetchAnswer)

Spec == Init /\ [][Next]_vars
FairSpec == Spec /\ Fairness

-----------------------------------------------------------------------------
TypeOK ==
    /\ view.shown \in Seq(Message) /\ view.latest \in Seq(Message) /\ stored \in Seq(Message)
    /\ view.saving \in BOOLEAN
    /\ \A i \in DOMAIN view.queue : view.queue[i].list \in Seq(Message)
    /\ gen \in Gens /\ source \in {0, gen} \cup Gens /\ fetching \in Gens
    /\ buffer \in [gen : Gens, chunks : Seq(Signs)]
    /\ {loaded, timer, streaming, requesting, busy, hasKey} \subseteq BOOLEAN
    /\ sent \in Sent
    /\ ended \subseteq (Gens \X Sent)
    /\ mishaps \subseteq {"cut", "keyless", "clobbered"}

\* An answer consists of pieces of its own request only, whatever was stopped,
\* submitted anew, regenerated or deleted while pieces were on their way.
OwnAnswerOnly ==
    \A i \in DOMAIN view.shown :
        LET m == view.shown[i] IN \A j \in DOMAIN m.text : m.text[j][1] = m.req

\* When nothing is generated and everything is rendered, no message is shown
\* as loading or streaming, also after a reload in the middle of an answer.
\* (An edit saved from a render that had not seen the end of the answer writes
\* the old state back.)
IdleIsSettled ==
    (loaded /\ view.queue = <<>> /\ ~streaming /\ ~requesting /\ "clobbered" \notin mishaps)
        => \A i \in DOMAIN view.shown : ~Pending(view.shown[i])

\* An answer that ended with [DONE] and was not stopped is shown complete, also
\* when the user left the page and returned: every piece that arrived is in
\* it, and it is not longer than all of them.  A piece that was taken for a
\* repetition is one that the text has already, though once where the model
\* said it twice.  (An edit saved from an old render is left out here too.)
WholeAnswer ==
    (view.queue = <<>> /\ "clobbered" \notin mishaps) =>
        \A i \in DOMAIN view.shown, e \in ended :
            LET m == view.shown[i] IN
            m.role = "assistant" /\ m.req = e[1] =>
                /\ m.status = "complete"
                /\ Len(m.text) <= e[2].signs
                /\ \A j \in DOMAIN e[2].words : Piece(e[1], e[2].words[j]) \in SubSeqs(m.text)

\* Once the save timer has run, storage has what is on the screen.
NothingUnsaved ==
    (loaded /\ view.queue = <<>> /\ ~view.saving) => stored = view.shown

\* The page does not stay busy: every request ends, unless its response ended
\* with status 200 and no [DONE], or a message was submitted without a key
\* while it ran.
GenerationEnds == busy ~> (~busy \/ mishaps \cap {"cut", "keyless"} # {})
=============================================================================

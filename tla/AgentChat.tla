------------------------------ MODULE AgentChat ------------------------------
(***************************************************************************)
(* One chat thread of the admin app, from the composer to the database:    *)
(*   - chat-thread.tsx and use-agent-chat-stream.ts in the browser,        *)
(*   - the Next.js route that turns backend events into UI events,         *)
(*   - routes/agent_chats.rs and services/agent_chats.rs, whose execution  *)
(*     goes on when nobody listens any more.                               *)
(*                                                                         *)
(* A callback of the browser is one step: JavaScript runs it to the end.   *)
(* Aborting a fetch rejects it before the next callback, so the AbortError *)
(* handler is part of the step that aborts.  Left out: the text of         *)
(* messages, and the user's own messages among the live ones.              *)
(***************************************************************************)
EXTENDS Naturals, Sequences, FiniteSets

CONSTANTS
    Sends,      \* the messages the user may still send (bound)
    Chats,      \* the chats the backend may still create (bound)
    Nil

ASSUME NilAssumption == Nil \notin Sends \cup Chats

VARIABLES
    active,     \* activeChatIdRef
    status,     \* of the hook: "ready", "submitted" or "streaming"
    abortRef,   \* the send whose controller abortRef holds
    pending,    \* pendingSendRef
    str,        \* [Sends -> Stream]: locals of handleSend and sendMessage
    reply,      \* liveMessages: [Sends -> what it has of the reply]
    seen,       \* the cached thread of the active chat: a set of rows
    sync,       \* of that thread: "fresh", "due" to be fetched, or "failed"
    wire,       \* [Sends -> UI events sent and not yet read]
    exec,       \* [Sends -> how far the streaming execution is]
    fb,         \* [Sends -> how far the fallback POST is]
    rows,       \* ai_chat_messages
    retries,    \* history: [Sends -> number of fallbacks started]
    finished,   \* history: sends whose stream said [DONE], and no error
    wiped       \* history: sends whose reply the end of a fallback cleared

hook    == <<status, abortRef, str>>
view    == <<active, reply, seen, sync>>
backend == <<exec, rows>>
history == <<retries, finished, wiped>>
chatVars == <<hook, view, pending, wire, backend, fb, history>>

Pending == [send : Sends, tried : BOOLEAN] \cup {Nil}

Stream == [pc     : {"unsent", "creating", "open", "reading", "over"},
           chat   : Chats \cup {Nil},
           failed : BOOLEAN]        \* fail() was called

UIEvent == {"start", "text", "error", "done", "drop", "end"}

Row == Sends \X {"user", "assistant"} \X {"stream", "fallback"}

InFlight(s) == str[s].pc \in {"open", "reading"}

isSending == status # "ready"

ThreadOf(c) == {r \in rows : str[r[1]].chat = c}

-----------------------------------------------------------------------------
(* The composer                                                            *)

\* Mutant: the pending message is kept by its chat.
SendPendingChat(s, c) ==
    /\ str' = [str EXCEPT ![s] = [pc |-> "open", chat |-> c, failed |-> FALSE]]
    /\ abortRef' = s
    /\ status' = "submitted"
    /\ pending' = [send |-> c, tried |-> FALSE]

\* Mutant: the stream in abortRef goes on.
SendAlongside(s, c) ==
    /\ str' = [str EXCEPT ![s] = [pc |-> "open", chat |-> c, failed |-> FALSE]]
    /\ abortRef' = s
    /\ status' = "submitted"
    /\ pending' = [send |-> s, tried |-> FALSE]

\* sendMessage: the stream in abortRef is aborted, and its handler makes the
\* status ready after this one has made it submitted.
sendMessage(s, c) ==
    LET old == IF abortRef # Nil /\ InFlight(abortRef) THEN {abortRef} ELSE {}
    IN /\ str' = [t \in Sends |->
                    IF t = s THEN [pc |-> "open", chat |-> c, failed |-> FALSE]
                    ELSE IF t \in old THEN [str[t] EXCEPT !.pc = "over"]
                    ELSE str[t]]
       /\ abortRef' = s
       /\ status' = IF old = {} THEN "submitted" ELSE "ready"
       /\ pending' = [send |-> s, tried |-> FALSE]

\* handleSend.  Without a chat it waits for one to be created first.
handleSend(s) ==
    /\ ~isSending
    /\ str[s].pc = "unsent"
    /\ \/ /\ active # Nil
          /\ sendMessage(s, active)
          /\ UNCHANGED view
       \/ /\ active = Nil
          /\ str' = [str EXCEPT ![s].pc = "creating"]
          /\ UNCHANGED <<status, abortRef, pending, view>>
    /\ UNCHANGED <<wire, backend, fb, history>>

\* Mutant: fallbackAttempted is not set.
StartFallbackAgain ==
    /\ fb' = [fb EXCEPT ![pending.send] = "sent"]
    /\ retries' = [retries EXCEPT ![pending.send] = @ + 1]
    /\ UNCHANGED pending

StartFallback ==
    /\ pending' = [pending EXCEPT !.tried = TRUE]
    /\ fb' = [fb EXCEPT ![pending.send] = "sent"]
    /\ retries' = [retries EXCEPT ![pending.send] = @ + 1]

Fallback ==
    IF pending # Nil /\ ~pending.tried THEN StartFallback
    ELSE UNCHANGED <<pending, fb, retries>>

\* ensureChatId answers.  Whatever the thread shows by now, it becomes the
\* new chat; when the chat cannot be created, handleSend falls back on
\* whatever message is pending.
ensureChatId(s) ==
    /\ str[s].pc = "creating"
    /\ \/ \E c \in Chats :
            /\ \A t \in Sends : str[t].chat # c
            /\ active' = c
            /\ seen' = {} /\ sync' = "due"
            /\ sendMessage(s, c)
            /\ UNCHANGED <<reply, fb, retries>>
       \/ /\ str' = [str EXCEPT ![s].pc = "over"]
          /\ Fallback
          /\ UNCHANGED <<status, abortRef, view>>
    /\ UNCHANGED <<wire, backend, finished, wiped>>

\* Mutant: the status is left to a handler that will not run.
StopSilently ==
    /\ isSending
    /\ str' = [t \in Sends |-> IF t = abortRef /\ InFlight(t)
                               THEN [str[t] EXCEPT !.pc = "over"] ELSE str[t]]
    /\ abortRef' = Nil
    /\ UNCHANGED <<status, pending, view, wire, backend, fb, history>>

stop ==
    /\ isSending
    /\ str' = [t \in Sends |-> IF t = abortRef /\ InFlight(t)
                               THEN [str[t] EXCEPT !.pc = "over"] ELSE str[t]]
    /\ wire' = [t \in Sends |-> IF t = abortRef THEN <<>> ELSE wire[t]]
    /\ abortRef' = Nil
    /\ status' = "ready"
    /\ UNCHANGED <<pending, view, backend, fb, history>>

\* A new freshKey or resetToFreshThread: an empty thread, and no word to the
\* stream that may be running.
resetToFreshThread ==
    /\ active' = Nil
    /\ reply' = [s \in Sends |-> "none"]
    /\ seen' = {} /\ sync' = "fresh"
    /\ UNCHANGED <<hook, pending, wire, backend, fb, history>>

-----------------------------------------------------------------------------
(* The stream, as the browser reads it                                     *)

ClearAbortRef(s) == abortRef' = IF abortRef = s THEN Nil ELSE abortRef

\* Mutant: an error leaves the status as it is.
FailSilently(s, pc) ==
    /\ str' = [str EXCEPT ![s].pc = pc, ![s].failed = TRUE]
    /\ ClearAbortRef(s)
    /\ Fallback
    /\ UNCHANGED <<status, view, finished, wiped>>

\* fail: the reading loop goes on after it.
Fail(s, pc) ==
    /\ str' = [str EXCEPT ![s].pc = pc, ![s].failed = TRUE]
    /\ ClearAbortRef(s)
    /\ status' = "ready"
    /\ Fallback
    /\ UNCHANGED <<view, finished, wiped>>

Finished(s, done) ==
    finished' = IF done /\ ~str[s].failed THEN finished \cup {s} ELSE finished

\* Mutant: the thread is not fetched again.
FinishUnsynced(s, done) ==
    /\ str' = [str EXCEPT ![s].pc = "over"]
    /\ ClearAbortRef(s)
    /\ status' = "ready"
    /\ pending' = Nil
    /\ Finished(s, done)
    /\ UNCHANGED <<view, fb, retries, wiped>>

\* Mutant: the live messages are cleared, as the note in onFinish forbids.
FinishClearing(s, done) ==
    /\ str' = [str EXCEPT ![s].pc = "over"]
    /\ ClearAbortRef(s)
    /\ status' = "ready"
    /\ pending' = Nil
    /\ sync' = IF active = Nil THEN sync ELSE "due"
    /\ reply' = [t \in Sends |-> "none"]
    /\ Finished(s, done)
    /\ UNCHANGED <<active, seen, fb, retries, wiped>>

\* finish, and onFinish, after [DONE] or without it: whichever message is
\* pending no longer is, and the thread now shown is fetched again.
Finish(s, done) ==
    /\ str' = [str EXCEPT ![s].pc = "over"]
    /\ ClearAbortRef(s)
    /\ status' = "ready"
    /\ pending' = Nil
    /\ sync' = IF active = Nil THEN sync ELSE "due"
    /\ Finished(s, done)
    /\ UNCHANGED <<active, reply, seen, fb, retries, wiped>>

\* fetch resolves: a stream, or an answer that is not ok.
Respond(s) ==
    /\ str[s].pc = "open"
    /\ \/ /\ exec[s] \notin {"none", "refused"}
          /\ str' = [str EXCEPT ![s].pc = "reading"]
          /\ status' = "streaming"
          /\ UNCHANGED <<abortRef, view, pending, fb, history>>
       \/ /\ exec[s] = "refused"
          /\ Fail(s, "over")
    /\ UNCHANGED <<wire, backend>>

\* ensureAssistant, and appendAssistantDelta on a message that may be gone.
Show(s, what) ==
    /\ reply' = [reply EXCEPT ![s] =
                   CASE what = "start" /\ @ = "none"  -> "empty"
                     [] what = "text"  /\ @ # "none" -> "text"
                     [] OTHER -> @]
    /\ UNCHANGED <<hook, active, seen, sync, pending, fb, history>>

Read(s) ==
    /\ str[s].pc = "reading"
    /\ wire[s] # <<>>
    /\ LET event == Head(wire[s]) IN
         \/ event \in {"start", "text"} /\ Show(s, event)
         \/ event = "error" /\ Fail(s, "reading")
         \/ event = "drop"  /\ Fail(s, "over")
         \/ event \in {"done", "end"} /\ Finish(s, event = "done")
    /\ wire' = [wire EXCEPT ![s] = Tail(@)]
    /\ UNCHANGED backend

\* The thread's query: what the backend has now.  When it fails, also on its
\* retry, the page says so and keeps what it has.
Refetch ==
    /\ sync = "due"
    /\ \/ seen' = ThreadOf(active) /\ sync' = "fresh"
       \/ seen' = seen /\ sync' = "failed"
    /\ UNCHANGED <<hook, active, reply, pending, wire, backend, fb, history>>

-----------------------------------------------------------------------------
(* The route and the backend.  The route sends start before anything else, *)
(* and stops listening after done.                                         *)

Listening(s) ==
    str[s].pc # "over" /\ \A i \in 1..Len(wire[s]) : wire[s][i] \notin {"drop", "end"}

Emit(s, events) ==
    wire' = [wire EXCEPT ![s] = IF Listening(s) THEN @ \o events ELSE @]

BrowserIdle == UNCHANGED <<hook, view, pending, fb, history>>

\* The POST arrives, also when the browser has given up on it.  Without a
\* session the route refuses it.  begin_run and its checks may fail: an answer
\* that is not ok.  send_chat_message_streaming stores the message; after that
\* it may fail, and the stream just ends.  An agent that is switched off says
\* so; else it starts thinking.
Accept(s) ==
    LET Next(e, events, stored) ==
          /\ exec' = [exec EXCEPT ![s] = e]
          /\ Emit(s, events)
          /\ rows' = IF stored THEN rows \cup {<<s, "user", "stream">>} ELSE rows
    IN /\ str[s].pc \in {"open", "over"} /\ str[s].chat # Nil
       /\ exec[s] = "none"
       /\ \/ Next("refused", <<>>, FALSE)
          \/ Next("over", <<"start", "error", "done">>, FALSE)
          \/ Next("over", <<"start", "done">>, TRUE)
          \/ Next("told", <<"start", "error", "done">>, TRUE)
          \/ Next("thinking", <<"start">>, TRUE)
       /\ BrowserIdle

\* The reply is told before it is stored; or the model fails and the stream
\* ends without a word.
Answer(s) ==
    /\ exec[s] = "thinking"
    /\ \/ Emit(s, <<"text", "done">>) /\ exec' = [exec EXCEPT ![s] = "told"]
       \/ Emit(s, <<"done">>) /\ exec' = [exec EXCEPT ![s] = "over"]
    /\ UNCHANGED rows /\ BrowserIdle

StoreReply(s) ==
    /\ exec[s] = "told"
    /\ \E stored \in BOOLEAN :
         rows' = IF stored THEN rows \cup {<<s, "assistant", "stream">>} ELSE rows
    /\ exec' = [exec EXCEPT ![s] = "over"]
    /\ UNCHANGED wire /\ BrowserIdle

\* The connection breaks, or something on the way ends it: what is left unread
\* is lost, and the backend does not notice.
Drop(s) ==
    /\ str[s].pc = "reading"
    /\ Listening(s)
    /\ \E how \in {"drop", "end"} : wire' = [wire EXCEPT ![s] = <<how>>]
    /\ UNCHANGED backend /\ BrowserIdle

\* Or fetch never gets an answer; whether the POST arrives is another matter.
Unreachable(s) ==
    /\ str[s].pc = "open"
    /\ Fail(s, "over")
    /\ UNCHANGED <<wire, backend>>

\* The fallback: send_chat_message, answered when all of it is done.  The
\* thread of its chat is fetched again if it is the one shown.
FallbackAnswers(s) ==
    /\ fb[s] = "sent"
    /\ rows' = rows \cup {<<s, "user", "fallback">>, <<s, "assistant", "fallback">>}
    /\ fb' = [fb EXCEPT ![s] = "syncing"]
    /\ sync' = IF active = str[s].chat THEN "due" ELSE sync
    /\ UNCHANGED <<hook, active, reply, seen, pending, wire, exec, history>>

\* It fails after it stores the message: the error is shown, and that is all.
FallbackFails(s) ==
    /\ fb[s] = "sent"
    /\ rows' = rows \cup {<<s, "user", "fallback">>}
    /\ fb' = [fb EXCEPT ![s] = "over"]
    /\ UNCHANGED <<hook, view, pending, wire, exec, history>>

\* sendMessageFallback goes on when the thread is there or could not be
\* fetched: the live messages are cleared, all of them.
FallbackEnds(s) ==
    /\ fb[s] = "syncing"
    /\ ~(sync = "due" /\ active = str[s].chat)
    /\ fb' = [fb EXCEPT ![s] = "over"]
    /\ reply' = [t \in Sends |-> "none"]
    /\ wiped' = wiped \cup {t \in Sends : reply[t] # "none"}
    /\ pending' = Nil
    /\ UNCHANGED <<hook, active, seen, sync, wire, backend, retries, finished>>

-----------------------------------------------------------------------------

User == (\E s \in Sends : handleSend(s)) \/ stop \/ resetToFreshThread

Browser(s) == ensureChatId(s) \/ Respond(s) \/ Read(s) \/ FallbackEnds(s)

Server(s) == Accept(s) \/ Answer(s) \/ StoreReply(s) \/ FallbackAnswers(s)

Faults(s) == Drop(s) \/ Unreachable(s) \/ FallbackFails(s)

ChatInit ==
    /\ active = Nil /\ status = "ready" /\ abortRef = Nil /\ pending = Nil
    /\ str = [s \in Sends |-> [pc |-> "unsent", chat |-> Nil, failed |-> FALSE]]
    /\ reply = [s \in Sends |-> "none"]
    /\ seen = {} /\ sync = "fresh"
    /\ wire = [s \in Sends |-> <<>>]
    /\ exec = [s \in Sends |-> "none"] /\ fb = [s \in Sends |-> "none"]
    /\ rows = {}
    /\ retries = [s \in Sends |-> 0] /\ finished = {} /\ wiped = {}

ChatNext ==
    \/ User
    \/ Refetch
    \/ \E s \in Sends : Browser(s) \/ Server(s) \/ Faults(s)

ChatSpec == ChatInit /\ [][ChatNext]_chatVars

\* Requests arrive and are answered, and what has arrived is read; the user
\* owes nothing.
FairChatSpec ==
    /\ ChatSpec
    /\ \A s \in Sends : /\ WF_chatVars(Respond(s) \/ Read(s))
                        /\ WF_chatVars(Accept(s) \/ Answer(s))
-----------------------------------------------------------------------------
(* Properties.                                                             *)

\* A stream never holds a message that was not sent, nor the wire an event
\* the hook does not know.
ChatTypeOK ==
    /\ active \in Chats \cup {Nil}
    /\ status \in {"ready", "submitted", "streaming"}
    /\ abortRef \in Sends \cup {Nil}
    /\ pending \in Pending
    /\ str \in [Sends -> Stream]
    /\ reply \in [Sends -> {"none", "empty", "text"}]
    /\ seen \subseteq Row
    /\ sync \in {"fresh", "due", "failed"}
    /\ wire \in [Sends -> Seq(UIEvent)]
    /\ exec \in [Sends -> {"none", "refused", "thinking", "told", "over"}]
    /\ fb \in [Sends -> {"none", "sent", "syncing", "over"}]
    /\ rows \subseteq Row
    /\ retries \in [Sends -> Nat]
    /\ finished \subseteq Sends
    /\ wiped \subseteq Sends

\* use-agent-chat-stream.ts:119, "Prevent concurrent streams from
\* overlapping", as far as it goes: of the streams being read, the one that
\* the stop button and the next message would abort is the only one that has
\* reported no error, whatever streams that failed earlier still have to say
\* and however many messages were waiting for a chat to be created.
OneLiveStream ==
    \A s \in Sends : abortRef = s <=> InFlight(s) /\ ~str[s].failed

\* While the composer is locked and shows Stop, there is a stream in flight
\* that will unlock it or that Stop will abort: the end of an older stream
\* never leaves it locked with nothing to wait for.
LockedMeansLive == isSending => \E s \in Sends : abortRef = s /\ InFlight(s)

\* The fallback sends a message again at most once, however many errors its
\* stream and the streams around it report.
RetriedOnce == \A s \in Sends : retries[s] <= 1

\* When everything has come to rest and the thread could be fetched, it has
\* each message of its chat whose stream ended well: what the end of any
\* fallback clears from the live messages is in the cached thread by then
\* (onFinish invalidates the thread, whichever stream ends).
Quiet ==
    /\ sync = "fresh"
    /\ \A s \in Sends : /\ ~InFlight(s)
                        /\ fb[s] \in {"none", "over"}
                        /\ exec[s] \in {"none", "refused", "over"}

FinishedShown ==
    Quiet => \A s \in finished :
        /\ str[s].chat = active
        /\ <<s, "user", "stream">> \in rows
        => <<s, "user", "stream">> \in seen

\* chat-thread.tsx:462, "Keeping live messages ensures the streamed assistant
\* response remains visible": the reply of a stream that ended well stays in
\* the thread it was asked in, whether the backend stored it or not, whatever
\* other streams do and whether or not the thread can be fetched.  Only the
\* end of a fallback takes it away.
RepliesStay ==
    \A s \in finished \ wiped :
        str[s].chat = active =>
            /\ reply[s] # "none"
            /\ <<s, "assistant", "stream">> \in rows => reply[s] = "text"

\* The composer is always given back.
ComposerComesBack == isSending ~> ~isSending
=============================================================================

--------------------------- MODULE AgentChatProofs ---------------------------
(***************************************************************************)
(* What holds of AgentChat for any number of messages and chats: the       *)
(* stream that Stop aborts, and the one retry of a failed message.         *)
(***************************************************************************)
EXTENDS AgentChat, TLAPS

\* The part of the type invariant the arguments need.
HookTypeOK ==
    /\ status \in {"ready", "submitted", "streaming"}
    /\ abortRef \in Sends \cup {Nil}
    /\ pending \in Pending
    /\ str \in [Sends -> Stream]
    /\ \A s \in Sends : str[s].pc = "open" => ~str[s].failed
    /\ retries \in [Sends -> Nat]

\* A message that may still be sent again has been sent, and never again yet.
UntriedIsFresh ==
    pending # Nil =>
        /\ str[pending.send].pc \notin {"unsent", "creating"}
        /\ ~pending.tried => retries[pending.send] = 0

UnsentIsFresh ==
    \A s \in Sends : str[s].pc \in {"unsent", "creating"} => retries[s] = 0

RetryInv == UntriedIsFresh /\ UnsentIsFresh /\ RetriedOnce

ChatInv == HookTypeOK /\ OneLiveStream /\ LockedMeansLive /\ RetryInv

USE NilAssumption DEF history

-----------------------------------------------------------------------------
(* Each step keeps the invariant.                                          *)

LEMMA InitChatInv == ChatInit => ChatInv
<1> SUFFICES ASSUME ChatInit PROVE ChatInv  OBVIOUS
<1>1. HookTypeOK  BY DEF ChatInit, HookTypeOK, Pending, Stream
<1>2. OneLiveStream  BY DEF ChatInit, OneLiveStream, InFlight
<1>3. LockedMeansLive  BY DEF ChatInit, LockedMeansLive, isSending
<1>4. RetryInv  BY DEF ChatInit, RetryInv, UntriedIsFresh, UnsentIsFresh, RetriedOnce
<1> QED  BY <1>1, <1>2, <1>3, <1>4 DEF ChatInv

\* sendMessage, for a message not sent before.
LEMMA SendKeeps ==
    ASSUME ChatInv, NEW s \in Sends, NEW c \in Chats,
           str[s].pc \in {"unsent", "creating"},
           sendMessage(s, c), UNCHANGED retries
    PROVE  ChatInv'
<1> USE DEF ChatInv
<1>1. HookTypeOK'
  <2>1. [pc |-> "open", chat |-> c, failed |-> FALSE] \in Stream  BY DEF Stream
  <2>2. \A t \in Sends : [str[t] EXCEPT !.pc = "over"] \in Stream  BY DEF HookTypeOK, Stream
  <2>3. str' \in [Sends -> Stream]  BY <2>1, <2>2 DEF sendMessage, HookTypeOK
  <2>4. pending' \in Pending  BY DEF sendMessage, Pending
  <2>5. \A t \in Sends : str'[t].pc = "open" => ~str'[t].failed
    <3> SUFFICES ASSUME NEW t \in Sends PROVE str'[t].pc = "open" => ~str'[t].failed
      OBVIOUS
    <3>1. CASE t = s  BY <3>1 DEF sendMessage
    <3>2. CASE str'[t] = str[t]  BY <3>2 DEF HookTypeOK
    <3>3. CASE str'[t] = [str[t] EXCEPT !.pc = "over"]  BY <3>3 DEF HookTypeOK, Stream
    <3> QED  BY <3>1, <3>2, <3>3 DEF sendMessage
  <2> QED  BY <2>3, <2>4, <2>5 DEF sendMessage, HookTypeOK
<1>2. str'[s] = [pc |-> "open", chat |-> c, failed |-> FALSE]  BY DEF sendMessage
<1>3. OneLiveStream'
  <2> SUFFICES ASSUME NEW t \in Sends
               PROVE  abortRef' = t <=> InFlight(t)' /\ ~str'[t].failed
    BY DEF OneLiveStream
  <2>1. CASE t = s  BY <2>1, <1>2 DEF sendMessage, InFlight
  <2>2. CASE t # s /\ t = abortRef
    <3>1. InFlight(t)  BY <2>2 DEF OneLiveStream
    <3>2. str'[t].pc = "over"  BY <2>2, <3>1 DEF sendMessage, HookTypeOK, Stream
    <3> QED  BY <2>2, <3>2 DEF sendMessage, InFlight
  <2>3. CASE t # s /\ t # abortRef
    <3>1. str'[t] = str[t]  BY <2>3 DEF sendMessage
    <3>2. ~(InFlight(t) /\ ~str[t].failed)  BY <2>3 DEF OneLiveStream
    <3> QED  BY <2>3, <3>1, <3>2 DEF sendMessage, InFlight
  <2> QED  BY <2>1, <2>2, <2>3
<1>4. LockedMeansLive'  BY <1>2 DEF LockedMeansLive, sendMessage, InFlight
<1>5. RetryInv'
  <2>1. retries[s] = 0  BY DEF RetryInv, UnsentIsFresh
  <2>2. UntriedIsFresh'  BY <1>2, <2>1 DEF sendMessage, UntriedIsFresh
  <2>3. UnsentIsFresh'
    <3> SUFFICES ASSUME NEW t \in Sends, str'[t].pc \in {"unsent", "creating"}
                 PROVE  retries[t] = 0
      BY DEF UnsentIsFresh
    <3>1. t # s  BY <1>2
    <3>2. str'[t] = str[t] \/ str'[t] = [str[t] EXCEPT !.pc = "over"]  BY <3>1 DEF sendMessage
    <3>3. str'[t] = str[t]  BY <3>2 DEF HookTypeOK, Stream
    <3> QED  BY <3>3 DEF RetryInv, UnsentIsFresh
  <2>4. RetriedOnce'  BY DEF RetryInv, RetriedOnce
  <2> QED  BY <2>2, <2>3, <2>4 DEF RetryInv
<1> QED  BY <1>1, <1>3, <1>4, <1>5

\* What onError and the failed creation of a chat do with the pending message.
LEMMA FallbackKeeps ==
    ASSUME HookTypeOK, RetryInv, Fallback
    PROVE  /\ pending' \in Pending
           /\ retries' \in [Sends -> Nat]
           /\ RetriedOnce'
           /\ \A t \in Sends : str[t].pc \in {"unsent", "creating"} => retries'[t] = 0
           /\ pending' # Nil => pending # Nil /\ pending'.send = pending.send
           /\ pending' # Nil /\ ~pending'.tried => retries'[pending.send] = 0
<1>1. CASE pending # Nil /\ ~pending.tried
  <2>1. StartFallback  BY <1>1 DEF Fallback
  <2>2. pending.send \in Sends /\ pending \in [send : Sends, tried : BOOLEAN]
    BY <1>1 DEF HookTypeOK, Pending
  <2>3. /\ retries[pending.send] = 0
        /\ str[pending.send].pc \notin {"unsent", "creating"}
    BY <1>1 DEF RetryInv, UntriedIsFresh
  <2>4. /\ pending' \in [send : Sends, tried : BOOLEAN]
        /\ pending'.send = pending.send /\ pending'.tried
    BY <2>1, <2>2 DEF StartFallback
  <2>5. \A t \in Sends : retries'[t] = IF t = pending.send THEN 1 ELSE retries[t]
    BY <2>1, <2>2, <2>3 DEF StartFallback, HookTypeOK
  <2>6. retries' \in [Sends -> Nat]  BY <2>1, <2>2, <2>3 DEF StartFallback, HookTypeOK
  <2>7. RetriedOnce'  BY <2>5 DEF RetryInv, RetriedOnce
  <2>8. \A t \in Sends : str[t].pc \in {"unsent", "creating"} => retries'[t] = 0
    BY <2>3, <2>5 DEF RetryInv, UnsentIsFresh
  <2> QED  BY <1>1, <2>4, <2>6, <2>7, <2>8 DEF Pending
<1>2. CASE ~(pending # Nil /\ ~pending.tried)
  <2>1. UNCHANGED <<pending, retries>>  BY <1>2 DEF Fallback
  <2> QED  BY <1>2, <2>1 DEF HookTypeOK, RetryInv, RetriedOnce, UntriedIsFresh, UnsentIsFresh
<1> QED  BY <1>1, <1>2

LEMMA FailKeeps ==
    ASSUME ChatInv, NEW s \in Sends, InFlight(s), NEW pc \in {"reading", "over"}, Fail(s, pc)
    PROVE  ChatInv'
<1> USE DEF ChatInv
<1>0. HookTypeOK /\ RetryInv /\ Fallback  BY DEF Fail
<1>1. /\ \A t \in Sends \ {s} : str'[t] = str[t]
      /\ str'[s].pc = pc /\ str'[s].failed
      /\ str' \in [Sends -> Stream]
  BY DEF Fail, HookTypeOK, Stream
<1>2. abortRef' = IF abortRef = s THEN Nil ELSE abortRef  BY DEF Fail, ClearAbortRef
<1>3. status' = "ready"  BY DEF Fail
<1>4. HookTypeOK'  BY <1>0, <1>1, <1>2, <1>3, FallbackKeeps DEF HookTypeOK
<1>5. OneLiveStream'
  <2> SUFFICES ASSUME NEW t \in Sends
               PROVE  abortRef' = t <=> InFlight(t)' /\ ~str'[t].failed
    BY DEF OneLiveStream
  <2>1. CASE t = s  BY <2>1, <1>1, <1>2
  <2>2. CASE t # s  BY <2>2, <1>1, <1>2 DEF OneLiveStream, InFlight
  <2> QED  BY <2>1, <2>2
<1>6. LockedMeansLive'  BY <1>3 DEF LockedMeansLive, isSending
<1>7. RetryInv'
  <2>1. \A t \in Sends :
          str'[t].pc \in {"unsent", "creating"} <=> str[t].pc \in {"unsent", "creating"}
    BY <1>1 DEF InFlight
  <2>2. UnsentIsFresh'  BY <2>1, <1>0, FallbackKeeps DEF UnsentIsFresh
  <2>3. UntriedIsFresh'
    <3> SUFFICES ASSUME pending' # Nil PROVE UntriedIsFresh'  BY DEF UntriedIsFresh
    <3>1. pending # Nil /\ pending'.send = pending.send  BY <1>0, FallbackKeeps
    <3>2. pending.send \in Sends  BY <3>1 DEF HookTypeOK, Pending
    <3>3. str'[pending.send].pc \notin {"unsent", "creating"}
      BY <3>1, <3>2, <2>1 DEF RetryInv, UntriedIsFresh
    <3>4. ~pending'.tried => retries'[pending.send] = 0  BY <1>0, FallbackKeeps
    <3> QED  BY <3>1, <3>3, <3>4 DEF UntriedIsFresh
  <2>4. RetriedOnce'  BY <1>0, FallbackKeeps
  <2> QED  BY <2>2, <2>3, <2>4 DEF RetryInv
<1> QED  BY <1>4, <1>5, <1>6, <1>7

LEMMA FinishKeeps ==
    ASSUME ChatInv, NEW s \in Sends, InFlight(s), NEW done, Finish(s, done)
    PROVE  ChatInv'
<1> USE DEF ChatInv
<1>1. /\ \A t \in Sends \ {s} : str'[t] = str[t]
      /\ str'[s].pc = "over"
      /\ str' \in [Sends -> Stream]
  BY DEF Finish, HookTypeOK, Stream
<1>2. /\ abortRef' = IF abortRef = s THEN Nil ELSE abortRef
      /\ status' = "ready" /\ pending' = Nil /\ retries' = retries
  BY DEF Finish, ClearAbortRef
<1>3. HookTypeOK'  BY <1>1, <1>2 DEF HookTypeOK, Pending
<1>4. OneLiveStream'
  <2> SUFFICES ASSUME NEW t \in Sends
               PROVE  abortRef' = t <=> InFlight(t)' /\ ~str'[t].failed
    BY DEF OneLiveStream
  <2>1. CASE t = s  BY <2>1, <1>1, <1>2 DEF InFlight
  <2>2. CASE t # s  BY <2>2, <1>1, <1>2 DEF OneLiveStream, InFlight
  <2> QED  BY <2>1, <2>2
<1>5. LockedMeansLive'  BY <1>2 DEF LockedMeansLive, isSending
<1>6. RetryInv'
  BY <1>1, <1>2 DEF RetryInv, UntriedIsFresh, UnsentIsFresh, RetriedOnce, InFlight
<1> QED  BY <1>3, <1>4, <1>5, <1>6

\* Stop aborts the live stream, and the composer is free.
LEMMA StopKeeps == ASSUME ChatInv, stop PROVE ChatInv'
<1> USE DEF ChatInv
<1>1. /\ \A t \in Sends : str'[t] = IF t = abortRef /\ InFlight(t)
                                   THEN [str[t] EXCEPT !.pc = "over"] ELSE str[t]
      /\ str' \in [Sends -> Stream]
  BY DEF stop, HookTypeOK, Stream
<1>2. abortRef' = Nil /\ status' = "ready" /\ UNCHANGED <<pending, retries>>  BY DEF stop
<1>3. HookTypeOK'
  <2>1. \A t \in Sends : str'[t].pc = "open" => str'[t] = str[t]
    BY <1>1 DEF HookTypeOK, Stream
  <2> QED  BY <1>1, <1>2, <2>1 DEF HookTypeOK
<1>4. OneLiveStream'
  <2> SUFFICES ASSUME NEW t \in Sends
               PROVE  ~(InFlight(t)' /\ ~str'[t].failed)
    BY <1>2 DEF OneLiveStream
  <2>1. CASE t = abortRef
    <3>1. InFlight(t)  BY <2>1 DEF OneLiveStream
    <3>2. str'[t].pc = "over"  BY <2>1, <3>1, <1>1 DEF HookTypeOK, Stream
    <3> QED  BY <3>2 DEF InFlight
  <2>2. CASE t # abortRef
    <3>1. str'[t] = str[t]  BY <2>2, <1>1
    <3> QED  BY <2>2, <3>1 DEF OneLiveStream, InFlight
  <2> QED  BY <2>1, <2>2
<1>5. LockedMeansLive'  BY <1>2 DEF LockedMeansLive, isSending
<1>6. \A t \in Sends :
        str'[t].pc \in {"unsent", "creating"} <=> str[t].pc \in {"unsent", "creating"}
  BY <1>1 DEF InFlight, HookTypeOK, Stream
<1>7. pending # Nil => pending.send \in Sends  BY DEF HookTypeOK, Pending
<1>8. RetryInv'
  BY <1>2, <1>6, <1>7 DEF RetryInv, UntriedIsFresh, UnsentIsFresh, RetriedOnce
<1> QED  BY <1>3, <1>4, <1>5, <1>8

\* A send that waits for its chat, or gives up waiting, is no stream yet.
LEMMA WaitKeeps ==
    ASSUME ChatInv, NEW s \in Sends,
           \/ str[s].pc = "unsent" /\ str' = [str EXCEPT ![s].pc = "creating"]
                /\ UNCHANGED <<pending, retries>>
           \/ str[s].pc = "creating" /\ str' = [str EXCEPT ![s].pc = "over"] /\ Fallback,
           UNCHANGED <<status, abortRef>>
    PROVE  ChatInv'
<1> USE DEF ChatInv
<1>1. /\ \A t \in Sends \ {s} : str'[t] = str[t]
      /\ str'[s].pc \in {"creating", "over"}
      /\ str' \in [Sends -> Stream]
      /\ ~InFlight(s) /\ ~InFlight(s)'
  BY DEF HookTypeOK, Stream, InFlight
<1>2. OneLiveStream'  BY <1>1 DEF OneLiveStream, InFlight
<1>3. LockedMeansLive'
  BY <1>1 DEF LockedMeansLive, isSending, InFlight
<1>4. \A t \in Sends : str'[t].pc \in {"unsent", "creating"} => str[t].pc \in {"unsent", "creating"}
  BY <1>1 DEF InFlight
<1>5. pending # Nil => pending.send # s /\ pending.send \in Sends
  BY DEF HookTypeOK, Pending, RetryInv, UntriedIsFresh
<1>6. CASE UNCHANGED <<pending, retries>>
  <2>1. HookTypeOK'  BY <1>1, <1>6 DEF HookTypeOK
  <2>2. RetryInv'
    BY <1>1, <1>4, <1>5, <1>6 DEF RetryInv, UntriedIsFresh, UnsentIsFresh, RetriedOnce
  <2> QED  BY <1>2, <1>3, <2>1, <2>2
<1>7. CASE Fallback
  <2>1. HookTypeOK'  BY <1>1, <1>7, FallbackKeeps DEF HookTypeOK
  <2>2. UnsentIsFresh'  BY <1>4, <1>7, FallbackKeeps DEF UnsentIsFresh
  <2>3. UntriedIsFresh'
    <3> SUFFICES ASSUME pending' # Nil PROVE UntriedIsFresh'  BY DEF UntriedIsFresh
    <3>1. pending # Nil /\ pending'.send = pending.send  BY <1>7, FallbackKeeps
    <3>2. str'[pending.send].pc \notin {"unsent", "creating"}
      BY <3>1, <1>4, <1>5 DEF RetryInv, UntriedIsFresh
    <3>3. ~pending'.tried => retries'[pending.send] = 0  BY <1>7, FallbackKeeps
    <3> QED  BY <3>1, <3>2, <3>3 DEF UntriedIsFresh
  <2>4. RetriedOnce'  BY <1>7, FallbackKeeps
  <2> QED  BY <1>2, <1>3, <2>1, <2>2, <2>3, <2>4 DEF RetryInv
<1> QED  BY <1>6, <1>7

LEMMA StreamingKeeps ==
    ASSUME ChatInv, NEW s \in Sends, str[s].pc = "open",
           str' = [str EXCEPT ![s].pc = "reading"], status' = "streaming",
           UNCHANGED <<abortRef, pending, retries>>
    PROVE  ChatInv'
<1> USE DEF ChatInv
<1>1. /\ \A t \in Sends \ {s} : str'[t] = str[t]
      /\ str'[s].pc = "reading" /\ ~str'[s].failed
      /\ str' \in [Sends -> Stream]
  BY DEF HookTypeOK, Stream
<1>2. HookTypeOK'  BY <1>1 DEF HookTypeOK
<1>3. OneLiveStream'  BY <1>1 DEF OneLiveStream, InFlight
<1>4. LockedMeansLive'  BY <1>1 DEF OneLiveStream, LockedMeansLive, InFlight
<1>5. RetryInv'
  BY <1>1 DEF RetryInv, UntriedIsFresh, UnsentIsFresh, RetriedOnce, HookTypeOK, Pending
<1> QED  BY <1>2, <1>3, <1>4, <1>5

\* Everything else leaves the hook alone; a fallback that ends may forget the
\* pending message.
LEMMA OtherKeeps ==
    ASSUME ChatInv, UNCHANGED <<status, abortRef, str, retries>>, pending' \in {pending, Nil}
    PROVE  ChatInv'
<1>1. HookTypeOK'  BY DEF ChatInv, HookTypeOK, Pending
<1>2. OneLiveStream' /\ LockedMeansLive'
  BY DEF ChatInv, OneLiveStream, LockedMeansLive, InFlight, isSending
<1>3. RetryInv'
  BY DEF ChatInv, RetryInv, UntriedIsFresh, UnsentIsFresh, RetriedOnce
<1> QED  BY <1>1, <1>2, <1>3 DEF ChatInv

ActiveOK == active \in Chats \cup {Nil}

LEMMA ActiveKeeps == ActiveOK /\ [ChatNext]_chatVars => ActiveOK'
<1> SUFFICES ASSUME ActiveOK, [ChatNext]_chatVars PROVE ActiveOK'  OBVIOUS
<1> USE DEF ActiveOK, view
<1>1. ASSUME NEW s \in Sends, NEW pc, Fail(s, pc) PROVE ActiveOK'  BY <1>1 DEF Fail
<1>2. CASE User  BY <1>2 DEF User, handleSend, stop, resetToFreshThread
<1>3. CASE Refetch  BY <1>3 DEF Refetch
<1>4. ASSUME NEW s \in Sends, Browser(s) PROVE ActiveOK'
  BY <1>1, <1>4 DEF Browser, ensureChatId, Respond, Read, Show, Finish, FallbackEnds
<1>5. ASSUME NEW s \in Sends, Server(s) PROVE ActiveOK'
  BY <1>5 DEF Server, Accept, Answer, StoreReply, FallbackAnswers, BrowserIdle
<1>6. ASSUME NEW s \in Sends, Faults(s) PROVE ActiveOK'
  BY <1>1, <1>6 DEF Faults, Drop, Unreachable, FallbackFails, BrowserIdle
<1>7. CASE UNCHANGED chatVars  BY <1>7 DEF chatVars
<1> QED  BY <1>2, <1>3, <1>4, <1>5, <1>6, <1>7 DEF ChatNext

LEMMA NextKeeps == ActiveOK /\ ChatInv /\ [ChatNext]_chatVars => ChatInv'
<1> SUFFICES ASSUME ActiveOK, ChatInv, [ChatNext]_chatVars PROVE ChatInv'  OBVIOUS
<1>1. ASSUME NEW s \in Sends, handleSend(s) PROVE ChatInv'
  <2>1. CASE active # Nil /\ sendMessage(s, active)
    BY <1>1, <2>1, SendKeeps DEF handleSend, ActiveOK
  <2>2. CASE str' = [str EXCEPT ![s].pc = "creating"] /\ UNCHANGED <<status, abortRef, pending>>
    BY <1>1, <2>2, WaitKeeps DEF handleSend
  <2> QED  BY <1>1, <2>1, <2>2 DEF handleSend
<1>2. CASE stop  BY <1>2, StopKeeps
<1>3. CASE resetToFreshThread  BY <1>3, OtherKeeps DEF resetToFreshThread, hook
<1>4. CASE Refetch  BY <1>4, OtherKeeps DEF Refetch, hook
<1>5. ASSUME NEW s \in Sends, Browser(s) PROVE ChatInv'
  <2>1. CASE ensureChatId(s)
    <3>1. ASSUME NEW c \in Chats, sendMessage(s, c), UNCHANGED retries PROVE ChatInv'
      BY <2>1, <3>1, SendKeeps DEF ensureChatId
    <3>2. CASE /\ str' = [str EXCEPT ![s].pc = "over"] /\ Fallback
               /\ UNCHANGED <<status, abortRef>>
      BY <2>1, <3>2, WaitKeeps DEF ensureChatId
    <3> QED  BY <2>1, <3>1, <3>2 DEF ensureChatId
  <2>2. CASE Respond(s)
    <3>1. CASE Fail(s, "over")  BY <2>2, <3>1, FailKeeps DEF Respond, InFlight
    <3>2. CASE ~Fail(s, "over")  BY <2>2, <3>2, StreamingKeeps DEF Respond
    <3> QED  BY <3>1, <3>2
  <2>3. CASE Read(s)
    <3>1. InFlight(s)  BY <2>3 DEF Read, InFlight
    <3>2. ASSUME NEW what, Show(s, what) PROVE ChatInv'
      BY <3>2, OtherKeeps DEF Show, hook
    <3>3. CASE Fail(s, "reading") \/ Fail(s, "over")  BY <3>1, <3>3, FailKeeps
    <3>4. ASSUME NEW done, Finish(s, done) PROVE ChatInv'  BY <3>1, <3>4, FinishKeeps
    <3> QED  BY <2>3, <3>2, <3>3, <3>4 DEF Read
  <2>4. CASE FallbackEnds(s)  BY <2>4, OtherKeeps DEF FallbackEnds, hook
  <2> QED  BY <1>5, <2>1, <2>2, <2>3, <2>4 DEF Browser
<1>6. ASSUME NEW s \in Sends, Server(s) PROVE ChatInv'
  BY <1>6, OtherKeeps DEF Server, Accept, Answer, StoreReply, FallbackAnswers, BrowserIdle, hook
<1>7. ASSUME NEW s \in Sends, Faults(s) PROVE ChatInv'
  <2>1. CASE Drop(s)  BY <2>1, OtherKeeps DEF Drop, BrowserIdle, hook
  <2>2. CASE Unreachable(s)  BY <2>2, FailKeeps DEF Unreachable, InFlight
  <2>3. CASE FallbackFails(s)  BY <2>3, OtherKeeps DEF FallbackFails, hook
  <2> QED  BY <1>7, <2>1, <2>2, <2>3 DEF Faults
<1>8. CASE UNCHANGED chatVars  BY <1>8, OtherKeeps DEF chatVars, hook
<1> QED  BY <1>1, <1>2, <1>3, <1>4, <1>5, <1>6, <1>7, <1>8 DEF ChatNext, User

\* The inductive invariant of the hook: its streams, and the retry of a
\* message (sendMessage, stop, finish, fail).
THEOREM ChatInvariant == ChatSpec => []ChatInv
<1>1. ChatInit => ActiveOK  BY DEF ChatInit, ActiveOK
<1> QED  BY <1>1, ActiveKeeps, InitChatInv, NextKeeps, PTL DEF ChatSpec

-----------------------------------------------------------------------------
(* What surrounds the hook, and what the thread shows of finished streams. *)

WorldTypeOK ==
    /\ active \in Chats \cup {Nil}
    /\ reply \in [Sends -> {"none", "empty", "text"}]
    /\ seen \subseteq Row
    /\ sync \in {"fresh", "due", "failed"}
    /\ wire \in [Sends -> Seq(UIEvent)]
    /\ exec \in [Sends -> {"none", "refused", "thinking", "told", "over"}]
    /\ fb \in [Sends -> {"none", "sent", "syncing", "over"}]
    /\ rows \subseteq Row
    /\ finished \subseteq Sends
    /\ wiped \subseteq Sends

Asked(s) == <<s, "user", "stream">>

\* A stream has a chat, and is read when its message has arrived.
StreamsArrived ==
    \A s \in Sends :
        /\ InFlight(s) \/ s \in finished => str[s].chat # Nil
        /\ str[s].pc = "reading" \/ s \in finished => exec[s] # "none"
        /\ s \in finished => str[s].pc = "over"

\* What is not in the thread shown will be fetched.
FetchedOrDue ==
    \A s \in finished :
        str[s].chat = active /\ Asked(s) \in rows => sync # "fresh" \/ Asked(s) \in seen

WorldInv == WorldTypeOK /\ StreamsArrived /\ FetchedOrDue

LEMMA InitWorld == ChatInit => WorldInv
<1> SUFFICES ASSUME ChatInit PROVE WorldInv  OBVIOUS
<1>1. wire \in [Sends -> Seq(UIEvent)]  BY DEF ChatInit
<1>2. WorldTypeOK  BY <1>1 DEF ChatInit, WorldTypeOK
<1>3. StreamsArrived /\ FetchedOrDue
  BY DEF ChatInit, StreamsArrived, FetchedOrDue, InFlight
<1> QED  BY <1>2, <1>3 DEF WorldInv

LEMMA ArrivedStays ==
    ASSUME StreamsArrived, finished' = finished,
           \A t \in Sends :
              /\ InFlight(t)' => InFlight(t)
              /\ str[t].pc = "over" => str'[t].pc = "over"
              /\ str'[t].chat = str[t].chat
              /\ exec[t] # "none" => exec'[t] # "none"
              /\ str'[t].pc = "reading" => exec[t] # "none"
    PROVE  StreamsArrived'
BY DEF StreamsArrived

\* The thread shown only changes by being fetched, and no row of a stream that
\* finished is still to come.
LEMMA FetchedStays ==
    ASSUME WorldInv, finished' = finished, UNCHANGED <<active, seen>>,
           sync # "fresh" => sync' # "fresh",
           \A t \in finished : /\ str'[t].chat = str[t].chat
                               /\ Asked(t) \in rows' => Asked(t) \in rows
    PROVE  FetchedOrDue'
BY DEF WorldInv, WorldTypeOK, FetchedOrDue, Asked

\* A message sent into its chat: the chats of the others are as they were.
LEMMA SendKeepsWorld ==
    ASSUME HookTypeOK, WorldInv, NEW s \in Sends, NEW c \in Chats, sendMessage(s, c),
           str[s].pc \in {"unsent", "creating"},
           UNCHANGED <<finished, exec, rows>>,
           \/ UNCHANGED <<active, seen, sync>>
           \/ active' = c /\ sync' = "due"
    PROVE  StreamsArrived' /\ FetchedOrDue'
<1>1. /\ str'[s] = [pc |-> "open", chat |-> c, failed |-> FALSE]
      /\ \A t \in Sends \ {s} : \/ str'[t] = str[t]
                                \/ /\ InFlight(t) /\ str'[t].pc = "over"
                                   /\ str'[t].chat = str[t].chat
  BY DEF sendMessage, HookTypeOK, Stream
<1>2. s \notin finished  BY DEF WorldInv, StreamsArrived
<1>3. StreamsArrived'
  BY <1>1, <1>2 DEF WorldInv, StreamsArrived, InFlight
<1>4. FetchedOrDue'
  BY <1>1, <1>2 DEF WorldInv, WorldTypeOK, FetchedOrDue, Asked
<1> QED  BY <1>3, <1>4

LEMMA FailKeepsWorld ==
    ASSUME HookTypeOK, WorldInv, NEW s \in Sends, NEW pc \in {"reading", "over"},
           InFlight(s), pc = "reading" => str[s].pc = "reading", Fail(s, pc),
           UNCHANGED backend
    PROVE  StreamsArrived' /\ FetchedOrDue'
<1>1. \A t \in Sends : /\ str'[t].chat = str[t].chat
                       /\ str'[t].pc = IF t = s THEN pc ELSE str[t].pc
  BY DEF Fail, HookTypeOK, Stream
<1>2. UNCHANGED <<active, seen, sync, exec, rows, finished>>  BY DEF Fail, view, backend
<1>3. StreamsArrived'
  BY <1>1, <1>2, ArrivedStays DEF WorldInv, StreamsArrived, InFlight
<1>4. FetchedOrDue'
  BY <1>1, <1>2, FetchedStays DEF WorldInv, WorldTypeOK
<1> QED  BY <1>3, <1>4

LEMMA FinishKeepsWorld ==
    ASSUME HookTypeOK, WorldInv, NEW s \in Sends, str[s].pc = "reading",
           NEW done, Finish(s, done),
           UNCHANGED backend
    PROVE  StreamsArrived' /\ FetchedOrDue'
<1>1. \A t \in Sends : /\ str'[t].chat = str[t].chat
                       /\ str'[t].pc = IF t = s THEN "over" ELSE str[t].pc
  BY DEF Finish, HookTypeOK, Stream
<1>2. /\ UNCHANGED <<active, seen, exec, rows>>
      /\ sync' = IF active = Nil THEN sync ELSE "due"
      /\ finished' \in {finished, finished \cup {s}}
  BY DEF Finish, Finished, backend
<1>3. StreamsArrived'
  BY <1>1, <1>2 DEF WorldInv, WorldTypeOK, StreamsArrived, InFlight
<1>4. \A t \in finished' : t \in Sends /\ str'[t].chat # Nil
  BY <1>1, <1>2 DEF WorldInv, WorldTypeOK, StreamsArrived, InFlight
<1>5. FetchedOrDue'
  BY <1>2, <1>4 DEF FetchedOrDue
<1> QED  BY <1>3, <1>5

\* The types, action by action.
LEMMA WorldTypeStays ==
    ASSUME HookTypeOK, WorldTypeOK, [ChatNext]_chatVars
    PROVE  WorldTypeOK'
<1> USE DEF WorldTypeOK
<1> DEFINE Events == [Sends -> Seq(UIEvent)]
           Posts  == [Sends -> {"none", "sent", "syncing", "over"}]
<1>1. ASSUME NEW s \in Sends, NEW pc, Fail(s, pc)
      PROVE  UNCHANGED <<active, reply, seen, sync, finished, wiped>> /\ fb' \in Posts
  <2>1. fb' \in Posts  BY <1>1 DEF Fail, Fallback, StartFallback
  <2> QED  BY <1>1, <2>1 DEF Fail, view
<1>2. ASSUME NEW s \in Sends, NEW events \in Seq(UIEvent), Emit(s, events)
      PROVE  wire' \in Events
  BY <1>2 DEF Emit
<1>3. CASE User
  <2>1. ASSUME NEW s \in Sends, handleSend(s) PROVE WorldTypeOK'
    BY <2>1 DEF handleSend, view, backend
  <2>2. CASE stop
    <3>1. wire' \in Events  BY <2>2 DEF stop
    <3> QED  BY <2>2, <3>1 DEF stop, view, backend
  <2>3. CASE resetToFreshThread  BY <2>3 DEF resetToFreshThread, backend
  <2> QED  BY <1>3, <2>1, <2>2, <2>3 DEF User
<1>4. CASE Refetch  BY <1>4 DEF Refetch, ThreadOf, backend
<1>5. ASSUME NEW s \in Sends, Browser(s) PROVE WorldTypeOK'
  <2>1. CASE ensureChatId(s)
    <3>1. fb' \in Posts  BY <2>1 DEF ensureChatId, Fallback, StartFallback
    <3> QED  BY <2>1, <3>1 DEF ensureChatId, view, backend
  <2>2. CASE Respond(s)  BY <1>1, <2>2 DEF Respond, view, backend
  <2>3. CASE Read(s)
    <3>1. wire' \in Events  BY <2>3 DEF Read
    <3>2. UNCHANGED <<exec, rows>>  BY <2>3 DEF Read, backend
    <3>3. ASSUME NEW what, Show(s, what) PROVE WorldTypeOK'
      BY <3>1, <3>2, <3>3 DEF Show
    <3>4. CASE Fail(s, "reading") \/ Fail(s, "over")  BY <1>1, <3>1, <3>2, <3>4
    <3>5. ASSUME NEW done, Finish(s, done) PROVE WorldTypeOK'
      BY <3>1, <3>2, <3>5 DEF Finish, Finished
    <3> QED  BY <2>3, <3>3, <3>4, <3>5 DEF Read
  <2>4. CASE FallbackEnds(s)  BY <2>4 DEF FallbackEnds, backend
  <2> QED  BY <1>5, <2>1, <2>2, <2>3, <2>4 DEF Browser
<1>6. ASSUME NEW s \in Sends, Server(s) PROVE WorldTypeOK'
  <2>1. <<s, "user", "stream">> \in Row /\ <<s, "assistant", "stream">> \in Row
        /\ <<s, "user", "fallback">> \in Row /\ <<s, "assistant", "fallback">> \in Row
    BY DEF Row
  <2>2. CASE Accept(s)
    <3>1. <<>> \in Seq(UIEvent) /\ <<"start">> \in Seq(UIEvent)
          /\ <<"start", "done">> \in Seq(UIEvent)
          /\ <<"start", "error", "done">> \in Seq(UIEvent)
      BY DEF UIEvent
    <3>2. wire' \in Events  BY <1>2, <2>2, <3>1 DEF Accept
    <3>3. rows' \subseteq Row  BY <2>1, <2>2 DEF Accept
    <3>4. exec' \in [Sends -> {"none", "refused", "thinking", "told", "over"}]
      BY <2>2 DEF Accept
    <3> QED  BY <2>2, <3>2, <3>3, <3>4 DEF Accept, BrowserIdle, view
  <2>3. CASE Answer(s)
    <3>1. <<"text", "done">> \in Seq(UIEvent) /\ <<"done">> \in Seq(UIEvent)  BY DEF UIEvent
    <3>2. wire' \in Events  BY <1>2, <2>3, <3>1 DEF Answer
    <3> QED  BY <2>3, <3>2 DEF Answer, BrowserIdle, view
  <2>4. CASE StoreReply(s)  BY <2>1, <2>4 DEF StoreReply, BrowserIdle, view
  <2>5. CASE FallbackAnswers(s)  BY <2>1, <2>5 DEF FallbackAnswers
  <2> QED  BY <1>6, <2>2, <2>3, <2>4, <2>5 DEF Server
<1>7. ASSUME NEW s \in Sends, Faults(s) PROVE WorldTypeOK'
  <2>1. CASE Drop(s)
    <3>1. <<"drop">> \in Seq(UIEvent) /\ <<"end">> \in Seq(UIEvent)  BY DEF UIEvent
    <3>2. wire' \in Events  BY <2>1, <3>1 DEF Drop
    <3> QED  BY <2>1, <3>2 DEF Drop, BrowserIdle, view, backend
  <2>2. CASE Unreachable(s)  BY <1>1, <2>2 DEF Unreachable, backend
  <2>3. CASE FallbackFails(s)
    <3>1. <<s, "user", "fallback">> \in Row  BY DEF Row
    <3> QED  BY <2>3, <3>1 DEF FallbackFails, view
  <2> QED  BY <1>7, <2>1, <2>2, <2>3 DEF Faults
<1>8. CASE UNCHANGED chatVars  BY <1>8 DEF chatVars, view, backend
<1> QED  BY <1>3, <1>4, <1>5, <1>6, <1>7, <1>8 DEF ChatNext

LEMMA NextKeepsWorld ==
    ASSUME HookTypeOK, WorldInv, [ChatNext]_chatVars
    PROVE  WorldInv'
<1> SUFFICES StreamsArrived' /\ FetchedOrDue'  BY WorldTypeStays DEF WorldInv
<1>1. ASSUME NEW s \in Sends, handleSend(s) PROVE StreamsArrived' /\ FetchedOrDue'
  <2>1. CASE active # Nil /\ sendMessage(s, active)
    BY <1>1, <2>1, SendKeepsWorld DEF handleSend, WorldInv, WorldTypeOK, backend, view
  <2>2. CASE str' = [str EXCEPT ![s].pc = "creating"] /\ UNCHANGED view
    <3>1. \A t \in Sends : /\ str'[t].chat = str[t].chat
                           /\ str'[t].pc = IF t = s THEN "creating" ELSE str[t].pc
      BY <2>2 DEF HookTypeOK, Stream
    <3>2. UNCHANGED <<active, seen, sync, exec, rows, finished>>
      BY <1>1, <2>2 DEF handleSend, view, backend
    <3>3. str[s].pc = "unsent"  BY <1>1 DEF handleSend
    <3>4. StreamsArrived'  BY <3>1, <3>2, <3>3, ArrivedStays DEF WorldInv, StreamsArrived, InFlight
    <3>5. FetchedOrDue'  BY <3>1, <3>2, FetchedStays DEF WorldInv, WorldTypeOK
    <3> QED  BY <3>4, <3>5
  <2> QED  BY <1>1, <2>1, <2>2 DEF handleSend
<1>2. CASE stop
  <2>1. \A t \in Sends : /\ str'[t].chat = str[t].chat
                         /\ \/ str'[t].pc = str[t].pc
                            \/ InFlight(t) /\ str'[t].pc = "over"
    BY <1>2 DEF stop, HookTypeOK, Stream
  <2>2. UNCHANGED <<active, seen, sync, exec, rows, finished>>  BY <1>2 DEF stop, view, backend
  <2>3. StreamsArrived'  BY <2>1, <2>2, ArrivedStays DEF WorldInv, StreamsArrived, InFlight
  <2>4. FetchedOrDue'  BY <2>1, <2>2, FetchedStays DEF WorldInv, WorldTypeOK
  <2> QED  BY <2>3, <2>4
<1>3. CASE resetToFreshThread
  <2>1. UNCHANGED <<str, exec, rows, finished>> /\ active' = Nil
    BY <1>3 DEF resetToFreshThread, hook, backend
  <2>2. StreamsArrived'  BY <2>1 DEF WorldInv, StreamsArrived, InFlight
  <2>3. FetchedOrDue'  BY <2>1 DEF WorldInv, WorldTypeOK, StreamsArrived, FetchedOrDue
  <2> QED  BY <2>2, <2>3
<1>4. CASE Refetch
  <2>1. /\ UNCHANGED <<str, exec, rows, finished, active>>
        /\ seen' = ThreadOf(active) \/ sync' = "failed"
    BY <1>4 DEF Refetch, hook, backend
  <2>2. StreamsArrived'  BY <2>1 DEF WorldInv, StreamsArrived, InFlight
  <2>3. FetchedOrDue'  BY <2>1 DEF FetchedOrDue, ThreadOf, Asked
  <2> QED  BY <2>2, <2>3
<1>5. ASSUME NEW s \in Sends, ensureChatId(s) PROVE StreamsArrived' /\ FetchedOrDue'
  <2>1. UNCHANGED <<exec, rows, finished>> /\ str[s].pc = "creating"
    BY <1>5 DEF ensureChatId, backend
  <2>2. ASSUME NEW c \in Chats, sendMessage(s, c), active' = c, sync' = "due"
        PROVE  StreamsArrived' /\ FetchedOrDue'
    BY <2>1, <2>2, SendKeepsWorld
  <2>3. CASE str' = [str EXCEPT ![s].pc = "over"] /\ UNCHANGED view
    <3>1. \A t \in Sends : /\ str'[t].chat = str[t].chat
                           /\ str'[t].pc = IF t = s THEN "over" ELSE str[t].pc
      BY <2>3 DEF HookTypeOK, Stream
    <3>2. StreamsArrived'
      BY <2>1, <3>1, ArrivedStays DEF WorldInv, StreamsArrived, InFlight
    <3>3. FetchedOrDue'  BY <2>1, <2>3, <3>1, FetchedStays DEF WorldInv, WorldTypeOK, view
    <3> QED  BY <3>2, <3>3
  <2> QED  BY <1>5, <2>2, <2>3 DEF ensureChatId
<1>6. ASSUME NEW s \in Sends, Respond(s) PROVE StreamsArrived' /\ FetchedOrDue'
  <2>1. str[s].pc = "open" /\ UNCHANGED backend  BY <1>6 DEF Respond
  <2>2. CASE Fail(s, "over")  BY <2>1, <2>2, FailKeepsWorld DEF InFlight
  <2>3. CASE /\ str' = [str EXCEPT ![s].pc = "reading"]
             /\ exec[s] # "none"
             /\ UNCHANGED <<view, finished>>
    <3>1. \A t \in Sends : /\ str'[t].chat = str[t].chat
                           /\ str'[t].pc = IF t = s THEN "reading" ELSE str[t].pc
      BY <2>3 DEF HookTypeOK, Stream
    <3>2. UNCHANGED <<active, seen, sync, exec, rows, finished>>  BY <2>1, <2>3 DEF view, backend
    <3>3. StreamsArrived'
      BY <2>1, <2>3, <3>1, <3>2, ArrivedStays DEF WorldInv, StreamsArrived, InFlight
    <3>4. FetchedOrDue'  BY <3>1, <3>2, FetchedStays DEF WorldInv, WorldTypeOK
    <3> QED  BY <3>3, <3>4
  <2> QED  BY <1>6, <2>2, <2>3 DEF Respond
<1>7. ASSUME NEW s \in Sends, Read(s) PROVE StreamsArrived' /\ FetchedOrDue'
  <2>1. str[s].pc = "reading" /\ UNCHANGED backend  BY <1>7 DEF Read
  <2>2. ASSUME NEW what, Show(s, what) PROVE StreamsArrived' /\ FetchedOrDue'
    <3>1. UNCHANGED <<str, active, seen, sync, exec, rows, finished>>
      BY <2>1, <2>2 DEF Show, hook, backend
    <3>2. StreamsArrived'  BY <3>1 DEF WorldInv, StreamsArrived, InFlight
    <3>3. FetchedOrDue'  BY <3>1, FetchedStays
    <3> QED  BY <3>2, <3>3
  <2>3. CASE Fail(s, "reading") \/ Fail(s, "over")  BY <2>1, <2>3, FailKeepsWorld DEF InFlight
  <2>4. ASSUME NEW done, Finish(s, done) PROVE StreamsArrived' /\ FetchedOrDue'
    BY <2>1, <2>4, FinishKeepsWorld
  <2> QED  BY <1>7, <2>2, <2>3, <2>4 DEF Read
<1>8. ASSUME NEW s \in Sends, Unreachable(s) PROVE StreamsArrived' /\ FetchedOrDue'
  BY <1>8, FailKeepsWorld DEF Unreachable, InFlight
<1>9. ASSUME NEW s \in Sends,
             \/ FallbackEnds(s) \/ StoreReply(s) \/ Answer(s) \/ Accept(s)
             \/ FallbackAnswers(s) \/ FallbackFails(s) \/ Drop(s)
      PROVE  StreamsArrived' /\ FetchedOrDue'
  <2>0. ASSUME Accept(s) \/ Drop(s) \/ StoreReply(s) \/ Answer(s)
        PROVE  UNCHANGED <<str, active, seen, finished, sync>>
    <3>1. BrowserIdle  BY <2>0 DEF Accept, Drop, StoreReply, Answer
    <3> QED  BY <3>1 DEF BrowserIdle, hook, view
  <2>1. UNCHANGED <<str, active, seen, finished>> /\ (sync # "fresh" => sync' # "fresh")
    <3>1. CASE FallbackEnds(s)  BY <3>1 DEF FallbackEnds, hook
    <3>2. CASE FallbackAnswers(s)  BY <3>2 DEF FallbackAnswers, hook
    <3>3. CASE FallbackFails(s)  BY <3>3 DEF FallbackFails, hook, view
    <3> QED  BY <1>9, <2>0, <3>1, <3>2, <3>3
  <2>2. \A t \in Sends : exec[t] # "none" => exec'[t] # "none"
    BY <1>9 DEF FallbackEnds, StoreReply, Answer, Accept, FallbackAnswers, FallbackFails, Drop,
                backend, WorldInv, WorldTypeOK
  <2>3. \A t \in finished : Asked(t) \in rows' => Asked(t) \in rows
    <3>1. CASE Accept(s)  BY <3>1 DEF Accept, Asked, WorldInv, StreamsArrived, WorldTypeOK
    <3> QED
      BY <1>9, <3>1 DEF FallbackEnds, StoreReply, Answer, FallbackAnswers, FallbackFails, Drop,
                        backend, Asked
  <2>4. StreamsArrived'  BY <2>1, <2>2, ArrivedStays DEF WorldInv, StreamsArrived, InFlight
  <2>5. FetchedOrDue'  BY <2>1, <2>3, FetchedStays
  <2> QED  BY <2>4, <2>5
<1>10. CASE UNCHANGED chatVars
  BY <1>10 DEF chatVars, hook, view, backend, WorldInv, StreamsArrived, FetchedOrDue, InFlight
<1> QED
  BY <1>1, <1>2, <1>3, <1>4, <1>5, <1>6, <1>7, <1>8, <1>9, <1>10
  DEF ChatNext, User, Browser, Server, Faults

\* The inductive invariant of what surrounds the hook: each finished stream's
\* message is in the thread shown, or that thread is being fetched (onFinish).
THEOREM WorldInvariant == ChatSpec => []WorldInv
<1>1. ChatInv => HookTypeOK  BY DEF ChatInv
<1> QED  BY <1>1, ChatInvariant, InitWorld, NextKeepsWorld, PTL DEF ChatSpec

-----------------------------------------------------------------------------
(* The results.                                                            *)

\* Streams that reported no error never overlap, and abortRef names the one
\* there is (use-agent-chat-stream.ts, sendMessage, stop, finish and fail).
THEOREM StreamsDoNotOverlap == ChatSpec => []OneLiveStream
<1>1. ChatInv => OneLiveStream  BY DEF ChatInv
<1> QED  BY <1>1, ChatInvariant, PTL

\* A locked composer has a live stream that will unlock it or that Stop can
\* abort (the status of the hook against its abortRef).
THEOREM LockIsLive == ChatSpec => []LockedMeansLive
<1>1. ChatInv => LockedMeansLive  BY DEF ChatInv
<1> QED  BY <1>1, ChatInvariant, PTL

\* A message is sent again at most once, whichever errors are reported
\* (pendingSendRef and fallbackAttempted in chat-thread.tsx).
THEOREM OneRetry == ChatSpec => []RetriedOnce
<1>1. ChatInv => RetriedOnce  BY DEF ChatInv, RetryInv
<1> QED  BY <1>1, ChatInvariant, PTL

\* Browser, wire and backend keep their types, for any messages and chats.
THEOREM ChatTypes == ChatSpec => []ChatTypeOK
<1>1. ChatInv /\ WorldInv => ChatTypeOK
  BY DEF ChatInv, HookTypeOK, WorldInv, WorldTypeOK, ChatTypeOK
<1> QED  BY <1>1, ChatInvariant, WorldInvariant, PTL

\* At rest, a message of the thread whose stream ended well is shown, however
\* many fallbacks, fresh threads and other streams came between (onFinish).
THEOREM FinishedAreShown == ChatSpec => []FinishedShown
<1>1. WorldInv => FinishedShown
  BY DEF WorldInv, FetchedOrDue, FinishedShown, Quiet, Asked
<1> QED  BY <1>1, WorldInvariant, PTL
=============================================================================

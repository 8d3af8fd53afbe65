----------------------------- MODULE MCAgentChat -----------------------------
(***************************************************************************)
(* Two messages and two chats.                                             *)
(***************************************************************************)
EXTENDS AgentChat

CONSTANTS s1, s2, c1, c2

Used(c) == \E s \in Sends : str[s].chat = c

\* Names of messages and chats mean nothing: the first message sent is s1, the
\* first chat created c1.
InOrder ==
    /\ str[s2].pc # "unsent" => str[s1].pc # "unsent"
    /\ Used(c2) => Used(c1)

\* Bound: once there is a second chat, threads can be fetched, streams end with
\* [DONE] or break, and one message at most goes to the fallback.
FewTroubles ==
    Used(c2) => /\ sync # "failed"
                /\ \A s \in Sends : wire[s] # <<"end">>
                /\ \E s \in Sends : fb[s] = "none"
=============================================================================

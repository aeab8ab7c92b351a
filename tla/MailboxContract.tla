-------------------------- MODULE MailboxContract --------------------------
(***************************************************************************)
(* What docs/agent-communication.md promises of the agent mailbox, without *)
(* saying how: a message body is sent once, its delivery is saved in a     *)
(* durable checkpoint of the receiving session, and only then is it        *)
(* acknowledged in the source mailbox.  Nothing is ever taken back, and a  *)
(* crash is invisible at this level.                                       *)
(***************************************************************************)
CONSTANT Msg            \* message identifiers

VARIABLES sent,         \* messages that have a durable body
          saved,        \* messages a durable context checkpoint accounts for
          acked         \* messages acknowledged in the source mailbox

cvars == <<sent, saved, acked>>

Init == /\ sent \subseteq Msg       \* bodies left behind by an older version
        /\ saved = {}
        /\ acked = {}

Send(m) == /\ m \notin sent
           /\ sent' = sent \cup {m}
           /\ UNCHANGED <<saved, acked>>

Save(S) == /\ S # {} /\ S \subseteq sent
           /\ saved' = saved \cup S
           /\ UNCHANGED <<sent, acked>>

Ack(S) == /\ S # {} /\ S \subseteq saved
          /\ acked' = acked \cup S
          /\ UNCHANGED <<sent, saved>>

Next == \/ \E m \in Msg : Send(m)
        \/ \E S \in SUBSET Msg : Save(S) \/ Ack(S)

Spec == Init /\ [][Next]_cvars
=============================================================================

--------------------------- MODULE Conversations ---------------------------
(***************************************************************************)
(* What the list of conversations promises to its callers.  It is seen as  *)
(* a set: entries are added, and taken away with a link or all at once,    *)
(* and no packet fits two of them, so their order, of which the code's     *)
(* search takes the first, does not matter (ConversationProofs).  Both     *)
(* callers of add_conversation leave the second port open (zero).  Module  *)
(* Packets, in which the FTP and RPC decoders add entries to a list and    *)
(* links that expire take them away, is shown to implement this.           *)
(***************************************************************************)
EXTENDS ConversationList

CONSTANTS
  Address,          \* the addresses a conversation can have
  Port,             \* the port numbers, zero included
  Data              \* the protocol names a conversation can carry

Conversation == [src : Address, dst : Address, sport : Port, dport : {0}, data : Data]

VARIABLE talks      \* the conversations there are

Init == talks = {}

FitsEntry(c, d) == Fits(c.src, c.dst, c.sport, c.dport, d)

Add(c) ==
  /\ \A d \in talks : ~FitsEntry(c, d)
  /\ talks' = talks \cup {c}

DeleteLink(a, b) == talks' = {c \in talks : ~Fits(a, b, 0, 0, c)}

delete_conversations == talks' = {}

Next ==
  \/ \E c \in Conversation : Add(c)
  \/ \E a, b \in Address : DeleteLink(a, b)
  \/ delete_conversations

Spec == Init /\ [][Next]_talks

TypeOK == talks \subseteq Conversation

\* No entry fits another one: what add_conversation refuses is never in the
\* list, so two entries never claim the same exchange.
Disjoint == \A c, d \in talks : FitsEntry(c, d) => c = d

\* The label of a packet does not depend on the order of the list: at most one
\* entry fits a packet with two port numbers (find_conversation takes the first
\* that fits).
LabelUnique ==
  \A src, dst \in Address, sport, dport \in Port \ {0} :
    \A c, d \in talks :
      Fits(src, dst, sport, dport, c) /\ Fits(src, dst, sport, dport, d) => c = d
=============================================================================

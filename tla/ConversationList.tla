-------------------------- MODULE ConversationList --------------------------
(***************************************************************************)
(* The list of conversations (conversations.c): what a decoder leaves      *)
(* behind so that later packets of the same exchange are recognised.  The  *)
(* list is searched in both directions, and a zero port, in the question   *)
(* or in the entry, matches every port.                                    *)
(***************************************************************************)
EXTENDS Naturals, Sequences

NoData == "no conversation"

PortsFit(p, q) == p = 0 \/ q = 0 \/ p = q

\* Mutant: only the direction in which the conversation was entered.
FitsOneWay(src, dst, sport, dport, c) ==
  src = c.src /\ dst = c.dst /\ PortsFit(sport, c.sport) /\ PortsFit(dport, c.dport)

\* The test of find_conversation_ptr, in either direction.
Fits(src, dst, sport, dport, c) ==
  \/ src = c.src /\ dst = c.dst /\ PortsFit(sport, c.sport) /\ PortsFit(dport, c.dport)
  \/ src = c.dst /\ dst = c.src /\ PortsFit(sport, c.dport) /\ PortsFit(dport, c.sport)

Matching(list, src, dst, sport, dport) ==
  {i \in DOMAIN list : Fits(src, dst, sport, dport, list[i])}

\* The data of the first entry that fits.
find_conversation(list, src, dst, sport, dport) ==
  LET found == Matching(list, src, dst, sport, dport)
  IN  IF found = {} THEN NoData
      ELSE list[CHOOSE i \in found : \A j \in found : i <= j].data

\* Mutant: an entry is made without looking for one that exists.
AddUnchecked(list, src, dst, sport, dport, data) ==
  <<[src |-> src, dst |-> dst, sport |-> sport, dport |-> dport, data |-> data]>> \o list

\* A new entry goes in front, unless one that fits is there already.
add_conversation(list, src, dst, sport, dport, data) ==
  IF Matching(list, src, dst, sport, dport) # {} THEN list
  ELSE <<[src |-> src, dst |-> dst, sport |-> sport, dport |-> dport, data |-> data]>> \o list

\* Mutant: the entries of a link stay when it goes.
KeepAll(list, a, b) == list

\* Every entry between the two addresses goes, whatever its ports.
delete_conversation_link(list, a, b) ==
  LET kept[n \in 0..Len(list)] ==   \* of the first n
        IF n = 0 THEN <<>>
        ELSE IF Fits(a, b, 0, 0, list[n]) THEN kept[n - 1] ELSE Append(kept[n - 1], list[n])
  IN  kept[Len(list)]
=============================================================================

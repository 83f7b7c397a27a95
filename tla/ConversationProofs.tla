------------------------- MODULE ConversationProofs -------------------------
(***************************************************************************)
(* Theorems about Conversations, for any addresses, ports and protocol     *)
(* names.                                                                  *)
(***************************************************************************)
EXTENDS Conversations, TLAPS

(* The search of conversations.c looks in both directions, so the relation it
   decides is symmetric. *)
LEMMA FitsSymmetric ==
  ASSUME NEW c, NEW d, FitsEntry(c, d)
  PROVE  FitsEntry(d, c)
BY DEF FitsEntry, Fits, PortsFit

(* Two entries that fit the same packet fit one another: their second ports
   are open, so it is enough that they agree where neither first port is. *)
LEMMA FitsShared ==
  ASSUME NEW c \in Conversation, NEW d \in Conversation,
         NEW src, NEW dst, NEW sport, NEW dport, sport # 0, dport # 0,
         Fits(src, dst, sport, dport, c), Fits(src, dst, sport, dport, d)
  PROVE  FitsEntry(c, d)
BY DEF FitsEntry, Fits, PortsFit, Conversation

IInv == TypeOK /\ Disjoint

(* add_conversation and delete_conversation_link keep entries well-typed and
   apart. *)
THEOREM Invariance == Spec => []IInv
<1>1. Init => IInv
  BY DEF Init, IInv, TypeOK, Disjoint
<1>2. IInv /\ [Next]_talks => IInv'
  <2> SUFFICES ASSUME IInv, [Next]_talks
               PROVE  IInv'
    OBVIOUS
  <2>1. ASSUME NEW c \in Conversation, Add(c)
        PROVE  IInv'
    <3>1. TypeOK'
      BY <2>1 DEF IInv, TypeOK, Add
    <3>2. ASSUME NEW d \in talks', NEW e \in talks', FitsEntry(d, e)
          PROVE  d = e
      <4>1. CASE d \in talks /\ e \in talks
        BY <3>2, <4>1 DEF IInv, Disjoint
      <4>2. CASE d = c /\ e = c
        BY <4>2
      <4>3. CASE d = c /\ e \in talks
        BY <2>1, <3>2, <4>3 DEF Add
      <4>4. CASE d \in talks /\ e = c
        BY <2>1, <3>2, <4>4, FitsSymmetric DEF Add
      <4> QED
        BY <2>1, <3>2, <4>1, <4>2, <4>3, <4>4 DEF Add
    <3> QED
      BY <3>1, <3>2 DEF IInv, Disjoint
  <2>2. ASSUME NEW a \in Address, NEW b \in Address, DeleteLink(a, b)
        PROVE  IInv'
    <3>1. talks' \subseteq talks
      BY <2>2 DEF DeleteLink
    <3> QED
      BY <3>1 DEF IInv, TypeOK, Disjoint
  <2>3. CASE delete_conversations
    BY <2>3 DEF delete_conversations, IInv, TypeOK, Disjoint
  <2>4. CASE UNCHANGED talks
    BY <2>4 DEF IInv, TypeOK, Disjoint
  <2> QED
    BY <2>1, <2>2, <2>3, <2>4 DEF Next
<1> QED
  BY <1>1, <1>2, PTL DEF Spec

(* No packet fits two conversations, so find_conversation's choice of the
   first is no choice. *)
THEOREM LabelsAreUnique == Spec => []LabelUnique
<1>1. IInv => LabelUnique
  <2> SUFFICES ASSUME IInv,
                      NEW src \in Address, NEW dst \in Address,
                      NEW sport \in Port \ {0}, NEW dport \in Port \ {0},
                      NEW c \in talks, NEW d \in talks,
                      Fits(src, dst, sport, dport, c), Fits(src, dst, sport, dport, d)
               PROVE  c = d
    BY DEF LabelUnique
  <2>1. c \in Conversation /\ d \in Conversation /\ sport # 0 /\ dport # 0
    BY DEF IInv, TypeOK
  <2>2. FitsEntry(c, d)
    BY <2>1, FitsShared
  <2> QED
    BY <2>2 DEF IInv, Disjoint
<1> QED
  BY <1>1, Invariance, PTL
=============================================================================

------------------------ MODULE CrossCoreFifoProofs ------------------------
(***************************************************************************)
(* The ring buffer of cross-core.h implements a bounded queue, for every   *)
(* size and every set of items.                                            *)
(*                                                                         *)
(* The argument is one inductive invariant.  Each index is stored by one   *)
(* core only, so what a core read of the other's index goes stale in one   *)
(* direction: room seen by push can only grow, items seen by pop can only  *)
(* become more.  A reset of Core 1 abandons a push before its one visible  *)
(* effect, the store of head, or after it.                                 *)
(***************************************************************************)
EXTENDS CrossCoreFifo, SequenceTheorems, TLAPS

\* What each core still knows of the ring at every point of its operation.
PushKnows ==
  /\ ppc \in {"check", "store", "publish"} => pnext = Succ(head)
  /\ ppc \in {"store", "publish"} => pnext # tail
  /\ ppc = "publish" => data[head] = pitem

PopKnows ==
  /\ cpc \in {"check", "read", "release"} => cidx = tail
  /\ cpc \in {"read", "release"} => tail # head
  /\ cpc = "release" => citem = data[tail]
  /\ cpc = "clear" => ppc = "off" /\ head = 0

IInv == TypeOK /\ PushKnows /\ PopKnows

\* Advancing an index stays in the ring, and never makes two indices meet.
LEMMA SuccIndex == \A i \in Index : Succ(i) \in Index
  BY SizeAssumption DEF Succ, Index

LEMMA SuccInjective == \A i, j \in Index : Succ(i) = Succ(j) => i = j
  BY SizeAssumption DEF Succ, Index

\* The invariant holds initially.
LEMMA InitIInv == Init => IInv
  BY SizeAssumption, BlankAssumption
     DEF Init, IInv, TypeOK, PushKnows, PopKnows, Index

\* Every step of either core preserves it.
LEMMA StepIInv == IInv /\ [Next]_vars => IInv'
<1> SUFFICES ASSUME IInv, [Next]_vars PROVE IInv'
  OBVIOUS
<1> USE SizeAssumption DEF IInv, TypeOK, PushKnows, PopKnows, ring, producer, consumer
<1>1. ASSUME NEW x \in Item, PushBegin(x) PROVE IInv'
  BY <1>1, SuccIndex DEF PushBegin
<1>2. CASE PushFull
  BY <1>2 DEF PushFull
<1>3. CASE PushRoom
  BY <1>3 DEF PushRoom
<1>4. CASE PushStore
  BY <1>4 DEF PushStore
<1>5. CASE PushPublish
  BY <1>5, SuccIndex DEF PushPublish
<1>6. CASE PopBegin
  BY <1>6 DEF PopBegin
<1>7. CASE PopEmpty
  BY <1>7 DEF PopEmpty
<1>8. CASE PopSome
  BY <1>8 DEF PopSome
<1>9. CASE PopRead
  BY <1>9 DEF PopRead
<1>10. CASE PopRelease
  BY <1>10, SuccIndex, SuccInjective DEF PopRelease
<1>11. CASE Kill
  BY <1>11 DEF Kill
<1>12. CASE ClearHead
  BY <1>12 DEF ClearHead, Index
<1>13. CASE ClearTail
  BY <1>13 DEF ClearTail, Index
<1>14. CASE Launch
  BY <1>14 DEF Launch
<1>15. CASE UNCHANGED vars
  BY <1>15 DEF vars
<1> QED
  BY <1>1, <1>2, <1>3, <1>4, <1>5, <1>6, <1>7, <1>8, <1>9, <1>10, <1>11,
     <1>12, <1>13, <1>14, <1>15 DEF Next, PushStep, Pop, Restart

THEOREM Invariance == Spec => []IInv
  BY InitIInv, StepIInv, PTL DEF Spec

\* Type correctness of the ring and of both cores' locals.
THEOREM TypeCorrect == Spec => []TypeOK
<1>1. IInv => TypeOK
  BY DEF IInv
<1> QED
  BY <1>1, Invariance, PTL

\* The two cores never access one slot at the same time: a slot push may
\* store to is the one empty slot at head, a slot pop reads is at tail.
THEOREM NoSlotRace == Spec => []SlotExclusive
<1>1. IInv => SlotExclusive
  BY DEF IInv, PopKnows, SlotExclusive
<1> QED
  BY <1>1, Invariance, PTL

-----------------------------------------------------------------------------
(* The ring implements the bounded queue.                                  *)

\* What the queue shows of the ring.
shown == <<Contents, Pushing, pitem, received>>

\* Used counts slots, and Slot enumerates as many distinct ones from tail on;
\* the next one after them is the slot at head, which holds no item.
LEMMA SlotFacts ==
  ASSUME head \in Index, tail \in Index
  PROVE  /\ Used \in 0 .. Size - 1
         /\ \A k \in 1 .. Used : Slot(k) \in Index /\ Slot(k) # head
         /\ Slot(Used + 1) = head
  BY SizeAssumption DEF Used, Slot, Index

\* Outside a clear, the contents are a sequence of Used items.
LEMMA ContentsSeq ==
  ASSUME TypeOK, cpc # "clear"
  PROVE  /\ Contents = [k \in 1 .. Used |-> data[Slot(k)]]
         /\ Contents \in Seq(Item)
         /\ Len(Contents) = Used
         /\ Used \in 0 .. Size - 1
<1>1. Used \in Nat /\ \A k \in 1 .. Used : data[Slot(k)] \in Item
  BY SlotFacts, SizeAssumption DEF TypeOK, Index
<1>2. Contents = [k \in 1 .. Used |-> data[Slot(k)]]
  BY DEF Contents
<1>3. Contents \in Seq(Item) /\ Len(Contents) = Used
  BY <1>1, <1>2
<1> QED
  BY <1>2, <1>3, SlotFacts DEF TypeOK

\* A step that leaves the ring alone, and starts or ends no clear, leaves the
\* contents alone.
LEMMA OtherIsHidden ==
  ASSUME UNCHANGED ring, cpc # "clear", cpc' # "clear"
  PROVE  UNCHANGED Contents
<1>1. Used' = Used /\ \A k : Slot(k)' = Slot(k)
  BY DEF ring, Used, Slot
<1> QED
  BY <1>1 DEF ring, Contents

\* push takes effect at its store of head: the item is then the newest.
LEMMA PublishIsPush ==
  ASSUME IInv, PushPublish
  PROVE  Queue!Push
<1> USE DEF IInv
<1>1. cpc # "clear" /\ cpc' = cpc
  BY DEF PushPublish, PopKnows, consumer
<1>2. Used' = Used + 1 /\ Used + 1 <= Size - 1
  BY SizeAssumption DEF PushPublish, PushKnows, TypeOK, Used, Succ, Index
<1>3. \A k : Slot(k)' = Slot(k)
  BY DEF PushPublish, Slot
<1>4. data[Slot(Used + 1)] = pitem
  BY SlotFacts DEF PushPublish, PushKnows, TypeOK
<1>5. Contents' = [k \in 1 .. Used + 1 |-> data[Slot(k)]]
  BY <1>1, <1>2, <1>3 DEF Contents, PushPublish
<1>6. Contents \in Seq(Item) /\ Len(Contents) = Used /\ Used \in Nat
  BY <1>1, ContentsSeq
<1>7. \A k \in 1 .. Used : Contents[k] = data[Slot(k)]
  BY <1>1, <1>6, ContentsSeq
<1>8. pitem \in Item
  BY DEF TypeOK
<1>9. \A k \in 1 .. Used + 1 : data[Slot(k)] \in Item
  BY <1>4, <1>6, <1>8, SlotFacts DEF TypeOK
<1>10. Contents' \in Seq(Item) /\ Len(Contents') = Used + 1
  BY <1>5, <1>6, <1>9
<1>11. \A k \in 1 .. Used + 1 : Contents'[k] = Append(Contents, pitem)[k]
  BY <1>4, <1>5, <1>6, <1>7, <1>8, AppendProperties
<1>12. Contents' = Append(Contents, pitem)
  BY <1>6, <1>8, <1>10, <1>11, AppendProperties, SeqEqual
<1>13. Len(Contents) < Size - 1
  BY <1>2, <1>6, SizeAssumption
<1> QED
  BY <1>12, <1>13 DEF Queue!Push, PushPublish, Pushing, consumer

\* pop takes effect at its store of tail: it returns the oldest item.
LEMMA ReleaseIsPop ==
  ASSUME IInv, PopRelease
  PROVE  Queue!Pop
<1> USE DEF IInv
<1>1. cpc # "clear" /\ cpc' # "clear"
  BY DEF PopRelease
<1>2. Used # 0 /\ Used' = Used - 1
  BY SizeAssumption DEF PopRelease, PopKnows, TypeOK, Used, Succ, Index
<1>3. \A k \in 1 .. Used - 1 : Slot(k)' = Slot(k + 1)
  BY SlotFacts, SizeAssumption DEF PopRelease, PopKnows, TypeOK, Used, Slot, Succ, Index
<1>4. Slot(1) = tail
  BY SizeAssumption DEF TypeOK, Slot, Index
<1>5. Contents \in Seq(Item) /\ Len(Contents) = Used /\ Used \in Nat
  BY <1>1, ContentsSeq
<1>6. \A k \in 1 .. Used : Contents[k] = data[Slot(k)]
  BY <1>1, <1>5, ContentsSeq
<1>7. Contents # << >>
  BY <1>2, <1>5
<1>8. Head(Contents) = citem
  BY <1>2, <1>4, <1>5, <1>6, <1>7 DEF PopRelease, PopKnows
<1>9. Contents' = [k \in 1 .. Used - 1 |-> data[Slot(k + 1)]]
  BY <1>1, <1>2, <1>3 DEF Contents, PopRelease
<1>10. \A k \in 1 .. Used - 1 : data[Slot(k + 1)] \in Item
  BY <1>5, SlotFacts DEF TypeOK
<1>11. Contents' \in Seq(Item) /\ Len(Contents') = Used - 1
  BY <1>2, <1>5, <1>9, <1>10
<1>12. \A k \in 1 .. Used - 1 : Contents'[k] = Tail(Contents)[k]
  BY <1>2, <1>5, <1>6, <1>7, <1>9, HeadTailProperties
<1>13. Contents' = Tail(Contents)
  BY <1>2, <1>5, <1>7, <1>11, <1>12, HeadTailProperties, SeqEqual
<1> QED
  BY <1>7, <1>8, <1>13 DEF Queue!Pop, PopRelease, Pushing, producer

\* A push is refused only when the ring holds Size - 1 items.
LEMMA FullIsRefuse ==
  ASSUME IInv, PushFull
  PROVE  Queue!Refuse
<1>1. cpc # "clear"
  BY DEF IInv, PopKnows, PushFull
<1>2. Used = Size - 1
  BY SizeAssumption DEF IInv, TypeOK, PushKnows, PushFull, Used, Succ, Index
<1>3. Len(Contents) = Size - 1
  BY <1>1, <1>2, ContentsSeq DEF IInv
<1>4. UNCHANGED Contents
  BY <1>1, OtherIsHidden DEF PushFull, ring, consumer
<1> QED
  BY <1>3, <1>4 DEF Queue!Refuse, PushFull, Pushing, consumer

\* The store of an item is not yet visible: its slot is not in use.
LEMMA StoreIsHidden ==
  ASSUME IInv, PushStore
  PROVE  UNCHANGED shown
<1> USE DEF IInv
<1>1. Used' = Used /\ \A k : Slot(k)' = Slot(k)
  BY DEF PushStore, Used, Slot
<1>2. \A k \in 1 .. Used : data'[Slot(k)] = data[Slot(k)]
  BY SlotFacts DEF PushStore, TypeOK
<1>3. UNCHANGED Contents
  BY <1>1, <1>2 DEF Contents, PushStore, consumer
<1> QED
  BY <1>3 DEF shown, PushStore, Pushing, consumer

\* A clear takes effect at its first store; the second one completes it.
LEMMA ClearHeadIsClear ==
  ASSUME ClearHead
  PROVE  Queue!Clear
  BY DEF ClearHead, Contents, Pushing, producer, Queue!Clear

LEMMA ClearTailIsHidden ==
  ASSUME IInv, ClearTail
  PROVE  UNCHANGED shown
<1>1. Used' = 0
  BY DEF IInv, PopKnows, ClearTail, Used
<1>2. Contents' = << >>
  BY <1>1 DEF Contents, ClearTail
<1>3. UNCHANGED Contents
  BY <1>2 DEF Contents, ClearTail
<1> QED
  BY <1>3 DEF shown, ClearTail, Pushing, producer

\* Every step of the ring is a step of the queue, or hidden from it.
LEMMA StepRefines == IInv /\ [Next]_vars => [Queue!Next]_shown
<1> SUFFICES ASSUME IInv, [Next]_vars
             PROVE  Queue!Next \/ UNCHANGED shown
  OBVIOUS
<1> USE DEF ring, producer, consumer
<1>1. ASSUME NEW x \in Item, PushBegin(x)
      PROVE  Queue!Next
  <2>1. cpc # "clear" /\ cpc' = cpc /\ UNCHANGED ring
    BY <1>1 DEF PushBegin, IInv, PopKnows
  <2>2. UNCHANGED Contents
    BY <2>1, OtherIsHidden
  <2>3. Queue!Offer(x)
    BY <1>1, <2>2 DEF PushBegin, Pushing, Queue!Offer
  <2> QED
    BY <2>3 DEF Queue!Next
<1>2. CASE PushFull
  BY <1>2, FullIsRefuse DEF Queue!Next
<1>3. CASE PushRoom
  <2>1. cpc # "clear" /\ cpc' = cpc /\ UNCHANGED ring
    BY <1>3 DEF PushRoom, IInv, PopKnows
  <2>2. UNCHANGED Contents
    BY <2>1, OtherIsHidden
  <2> QED
    BY <1>3, <2>2 DEF PushRoom, Pushing, shown
<1>4. CASE PushStore
  BY <1>4, StoreIsHidden
<1>5. CASE PushPublish
  BY <1>5, PublishIsPush DEF Queue!Next
<1>6. CASE PopBegin \/ PopEmpty \/ PopSome \/ PopRead
  <2>1. cpc # "clear" /\ cpc' # "clear" /\ UNCHANGED ring
    BY <1>6 DEF PopBegin, PopEmpty, PopSome, PopRead
  <2>2. UNCHANGED Contents
    BY <2>1, OtherIsHidden
  <2>3. UNCHANGED <<producer, received>>
    BY <1>6 DEF PopBegin, PopEmpty, PopSome, PopRead
  <2> QED
    BY <2>2, <2>3 DEF Pushing, shown
<1>7. CASE PopRelease
  BY <1>7, ReleaseIsPop DEF Queue!Next
<1>8. CASE Kill
  <2>1. cpc # "clear" /\ cpc' = cpc /\ UNCHANGED ring
    BY <1>8 DEF Kill
  <2>2. UNCHANGED Contents
    BY <2>1, OtherIsHidden
  <2>3. CASE Pushing
    BY <1>8, <2>2, <2>3 DEF Kill, Pushing, Queue!Abandon, Queue!Next
  <2>4. CASE ~Pushing
    BY <1>8, <2>2, <2>4 DEF Kill, Pushing, shown
  <2> QED
    BY <2>3, <2>4
<1>9. CASE ClearHead
  BY <1>9, ClearHeadIsClear DEF Queue!Next
<1>10. CASE ClearTail
  BY <1>10, ClearTailIsHidden
<1>11. CASE Launch
  <2>1. cpc # "clear" /\ cpc' = cpc /\ UNCHANGED ring
    BY <1>11 DEF Launch
  <2>2. UNCHANGED Contents
    BY <2>1, OtherIsHidden
  <2> QED
    BY <1>11, <2>2 DEF Launch, Pushing, shown
<1>12. CASE UNCHANGED vars
  BY <1>12 DEF vars, Contents, Used, Slot, Pushing, shown
<1> QED
  BY <1>1, <1>2, <1>3, <1>4, <1>5, <1>6, <1>7, <1>8, <1>9, <1>10, <1>11,
     <1>12 DEF Next, PushStep, Pop, Restart

LEMMA InitRefines == Init => Queue!Init
<1> SUFFICES ASSUME Init
             PROVE  Contents = << >> /\ ~Pushing /\ pitem = Blank /\ received = Blank
  BY DEF Queue!Init
<1>1. Used = 0 /\ cpc # "clear"
  BY DEF Init, Used
<1> QED
  BY <1>1 DEF Init, Contents, Pushing

\* The ring implements the bounded queue of Size - 1 items: nothing is lost,
\* duplicated, reordered or invented, and push fails only when it is full, for
\* every interleaving of push, pop, reset and clear.
THEOREM RingRefinesQueue == Spec => Refinement
  BY Invariance, InitRefines, StepRefines, PTL
     DEF Spec, Refinement, Queue!Spec, Queue!vars, shown
=============================================================================

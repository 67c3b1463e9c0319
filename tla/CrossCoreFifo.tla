--------------------------- MODULE CrossCoreFifo ---------------------------
(***************************************************************************)
(* CrossCoreFIFO<T, Size> of firmware/cross-core.h: the lock-free ring     *)
(* through which Core 1, the bus engine, hands trace records and console   *)
(* characters to Core 0.  There is one producer and one consumer, no lock, *)
(* and two shared indices: head, stored only by push, and tail, stored     *)
(* only by pop.  One slot stays empty, so that head = tail means empty.    *)
(*                                                                         *)
(* Every load and store of a shared word is a step of its own.  The loads  *)
(* and stores of head and tail are acquire and release operations in the   *)
(* code, which is what makes the plain accesses to data appear in program  *)
(* order to the other core; the model therefore interleaves the accesses   *)
(* of each core in program order.                                          *)
(*                                                                         *)
(* Core 0 may also reset Core 1 in the middle of a push                    *)
(* (multicore_reset_core1), clear the ring and launch Core 1 again: that   *)
(* is how main.cpp restarts a session.                                     *)
(***************************************************************************)
EXTENDS Naturals, Sequences

CONSTANTS
  Item,    \* the values pushed
  Blank,   \* the zero-initialised item of a ring nothing was pushed to yet
  Size     \* the number of slots; 8192 in the firmware

ASSUME SizeAssumption == Size \in Nat /\ Size >= 2
ASSUME BlankAssumption == Blank \in Item

VARIABLES
  data, head, tail,     \* the ring
  ppc, pnext, pitem,    \* push: where Core 1 is, its next_head and its item
  cpc, cidx, citem,     \* pop or clear: where Core 0 is, current_tail, item
  received              \* the item the last successful pop returned

ring     == <<data, head, tail>>
producer == <<ppc, pnext, pitem>>
consumer == <<cpc, cidx, citem, received>>
vars     == <<data, head, tail, ppc, pnext, pitem, cpc, cidx, citem, received>>

Index == 0 .. Size - 1

\* Fault: the mask is forgotten.
SuccUnmasked(i) == i + 1

\* (i + 1) & (Size - 1), for a Size that is a power of two.
Succ(i) == IF i = Size - 1 THEN 0 ELSE i + 1

-----------------------------------------------------------------------------
(* push(item), run by Core 1.                                              *)

\* next_head is computed from the producer's own head.
PushBegin(x) ==
  /\ ppc = "idle"
  /\ ppc' = "check"
  /\ pnext' = Succ(head)
  /\ pitem' = x
  /\ UNCHANGED <<ring, consumer>>

\* The ring is full: push returns false.
PushFull ==
  /\ ppc = "check"
  /\ pnext = tail
  /\ ppc' = "idle"
  /\ UNCHANGED <<ring, pnext, pitem, consumer>>

\* Fault: room is not checked.
PushRoomUnchecked ==
  /\ ppc = "check"
  /\ ppc' = "store"
  /\ UNCHANGED <<ring, pnext, pitem, consumer>>

PushRoom ==
  /\ ppc = "check"
  /\ pnext # tail
  /\ ppc' = "store"
  /\ UNCHANGED <<ring, pnext, pitem, consumer>>

\* Fault: the item goes to the slot of next_head.
PushStoreAhead ==
  /\ ppc = "store"
  /\ data' = [data EXCEPT ![pnext] = pitem]
  /\ ppc' = "publish"
  /\ UNCHANGED <<head, tail, pnext, pitem, consumer>>

PushStore ==
  /\ ppc = "store"
  /\ data' = [data EXCEPT ![head] = pitem]
  /\ ppc' = "publish"
  /\ UNCHANGED <<head, tail, pnext, pitem, consumer>>

PushPublish ==
  /\ ppc = "publish"
  /\ head' = pnext
  /\ ppc' = "idle"
  /\ UNCHANGED <<data, tail, pnext, pitem, consumer>>

-----------------------------------------------------------------------------
(* pop(item), run by Core 0.                                               *)

PopBegin ==
  /\ cpc = "idle"
  /\ cidx' = tail
  /\ cpc' = "check"
  /\ UNCHANGED <<ring, producer, citem, received>>

\* The ring is empty: pop returns false.
PopEmpty ==
  /\ cpc = "check"
  /\ cidx = head
  /\ cpc' = "idle"
  /\ UNCHANGED <<ring, producer, cidx, citem, received>>

PopSome ==
  /\ cpc = "check"
  /\ cidx # head
  /\ cpc' = "read"
  /\ UNCHANGED <<ring, producer, cidx, citem, received>>

PopRead ==
  /\ cpc = "read"
  /\ citem' = data[cidx]
  /\ cpc' = "release"
  /\ UNCHANGED <<ring, producer, cidx, received>>

\* Fault: tail is stored back unadvanced.
PopReleaseStuck ==
  /\ cpc = "release"
  /\ received' = citem
  /\ cpc' = "idle"
  /\ UNCHANGED <<ring, producer, cidx, citem>>

PopRelease ==
  /\ cpc = "release"
  /\ tail' = Succ(cidx)
  /\ received' = citem
  /\ cpc' = "idle"
  /\ UNCHANGED <<data, head, producer, cidx, citem>>

-----------------------------------------------------------------------------
(* Core 0 restarts a session: it resets Core 1 wherever it is, clears the  *)
(* ring in two stores, and launches Core 1 afresh.                         *)

Kill ==
  /\ cpc = "idle"
  /\ ppc # "off"
  /\ ppc' = "off"
  /\ UNCHANGED <<ring, pnext, pitem, consumer>>

ClearHead ==
  /\ cpc = "idle"
  /\ ppc = "off"
  /\ head' = 0
  /\ cpc' = "clear"
  /\ UNCHANGED <<data, tail, producer, cidx, citem, received>>

ClearTail ==
  /\ cpc = "clear"
  /\ tail' = 0
  /\ cpc' = "idle"
  /\ UNCHANGED <<data, head, producer, cidx, citem, received>>

Launch ==
  /\ cpc = "idle"
  /\ ppc = "off"
  /\ ppc' = "idle"
  /\ UNCHANGED <<ring, pnext, pitem, consumer>>

-----------------------------------------------------------------------------
Init ==
  /\ data = [i \in Index |-> Blank]
  /\ head = 0
  /\ tail = 0
  /\ ppc = "off"
  /\ pnext = 0
  /\ pitem = Blank
  /\ cpc = "idle"
  /\ cidx = 0
  /\ citem = Blank
  /\ received = Blank

PushStep == PushFull \/ PushRoom \/ PushStore \/ PushPublish
Pop      == PopBegin \/ PopEmpty \/ PopSome \/ PopRead \/ PopRelease
Restart  == Kill \/ ClearHead \/ ClearTail \/ Launch

Next == (\E x \in Item : PushBegin(x)) \/ PushStep \/ Pop \/ Restart

Spec == Init /\ [][Next]_vars

\* Core 0 drains the ring in every iteration of its main loop, and neither
\* core waits for a lock.  Nothing makes Core 1 push.
FairSpec == Spec /\ WF_vars(PushStep) /\ WF_vars(Pop) /\ WF_vars(ClearTail)

-----------------------------------------------------------------------------
(* Properties.                                                             *)

TypeOK ==
  /\ data \in [Index -> Item]
  /\ head \in Index
  /\ tail \in Index
  /\ ppc \in {"off", "idle", "check", "store", "publish"}
  /\ pnext \in Index
  /\ pitem \in Item
  /\ cpc \in {"idle", "check", "read", "release", "clear"}
  /\ cidx \in Index
  /\ citem \in Item
  /\ received \in Item

\* (head - tail) & (Size - 1): how many slots hold an item.
Used == IF head >= tail THEN head - tail ELSE head + Size - tail

\* The slot the k-th oldest item is in, k counted from 1.
Slot(k) == IF tail + k - 1 >= Size THEN tail + k - 1 - Size ELSE tail + k - 1

\* The queue the ring stands for.  A clear takes effect with its first store:
\* between the two, head and tail mean nothing, and no pop or push looks.
Contents == IF cpc = "clear" THEN << >> ELSE [k \in 1 .. Used |-> data[Slot(k)]]

\* The two cores never access the same slot at the same time: while push
\* stores an item, pop neither reads that slot nor is about to.  It is what
\* lets data[] be a plain array, and it must survive a reset of Core 1 and a
\* clear.
SlotExclusive == ~(ppc \in {"store", "publish"} /\ cpc \in {"read", "release"} /\ head = cidx)

\* Core 1 is in a push.
Pushing == ppc \in {"check", "store", "publish"}

\* The ring implements the bounded queue: nothing is lost, duplicated,
\* reordered or invented, whatever the interleaving of the two cores and
\* wherever Core 1 is reset, and push fails only when the ring holds Size - 1
\* items.
Queue == INSTANCE BoundedQueue
           WITH queue <- Contents, waiting <- Pushing, offered <- pitem,
                taken <- received, Capacity <- Size - 1
Refinement == Queue!Spec

\* A full ring does not stay full: Core 0 frees a slot without help from
\* Core 1, so the push loop of the bus engine, which retries until there is
\* room, is not a deadlock.
FullDrains == (Used = Size - 1) ~> (Used < Size - 1)
=============================================================================

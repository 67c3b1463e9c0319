---------------------------- MODULE BoundedQueue ----------------------------
(***************************************************************************)
(* What a cross-core FIFO of TurboLab promises its two users: a first-in   *)
(* first-out queue of at most Capacity items, filled by one core, emptied  *)
(* by the other.  A push that was begun adds the very item it was given    *)
(* and is refused only by a full queue, unless its core is reset meanwhile.*)
(* CrossCoreFifo, the ring buffer the firmware really uses, is shown to    *)
(* implement this specification.                                           *)
(***************************************************************************)
EXTENDS Naturals, Sequences

CONSTANTS
  Item,      \* what the queue carries: trace records or console characters
  Blank,     \* what taken is before the first pop
  Capacity   \* the most items it holds

VARIABLES
  queue,     \* the items pushed and not yet popped, oldest first
  waiting,   \* a push is under way
  offered,   \* the item it was given
  taken      \* the item the last successful pop returned

vars == <<queue, waiting, offered, taken>>

Init ==
  /\ queue = << >>
  /\ waiting = FALSE
  /\ offered = Blank
  /\ taken = Blank

\* push(item) is called.
Offer(x) ==
  /\ ~waiting
  /\ waiting' = TRUE
  /\ offered' = x
  /\ UNCHANGED <<queue, taken>>

\* It returns true.
Push ==
  /\ waiting
  /\ Len(queue) < Capacity
  /\ queue' = Append(queue, offered)
  /\ waiting' = FALSE
  /\ UNCHANGED <<offered, taken>>

\* It returns false.
Refuse ==
  /\ waiting
  /\ Len(queue) = Capacity
  /\ waiting' = FALSE
  /\ UNCHANGED <<queue, offered, taken>>

\* The core of the push is reset.
Abandon ==
  /\ waiting
  /\ waiting' = FALSE
  /\ UNCHANGED <<queue, offered, taken>>

Pop ==
  /\ queue # << >>
  /\ taken' = Head(queue)
  /\ queue' = Tail(queue)
  /\ UNCHANGED <<waiting, offered>>

Clear ==
  /\ ~waiting
  /\ queue' = << >>
  /\ UNCHANGED <<waiting, offered, taken>>

Next == (\E x \in Item : Offer(x)) \/ Push \/ Refuse \/ Abandon \/ Pop \/ Clear

Spec == Init /\ [][Next]_vars
=============================================================================

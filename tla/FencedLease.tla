---------------------------- MODULE FencedLease ----------------------------
(***************************************************************************)
(* What the durable-work pattern of the code base promises, whatever the   *)
(* work is: "one durable-work pattern in this codebase to reason about,    *)
(* not two that drift apart" (app/lib/recalc-queue.server.ts:23-25).       *)
(*                                                                         *)
(* An item is opened once, taken any number of times by workers that       *)
(* crash, stall or fail, and closed once: either by the taker that took it *)
(* last or by the system itself, never by one that has been superseded.    *)
(* A closed item is never taken again.  One step may move several items.   *)
(***************************************************************************)
CONSTANTS
    Items,
    Takers,
    NoOne

VARIABLE item      \* phase, latest taker and closing taker of each item

Item == [phase  : {"absent", "open", "closed", "gone"},
         holder : Takers \cup {NoOne},
         closer : Takers \cup {NoOne}]

Blank(phase) == [phase |-> phase, holder |-> NoOne, closer |-> NoOne]

(* Work is recorded durably, possibly taken by the one that records it.    *)
Opened(s, t) == /\ s.phase = "absent"
                /\ t.phase = "open"
                /\ t.closer = NoOne

(* A taker takes the item, superseding the one that took it before.        *)
Taken(s, t) == /\ s.phase = "open"
               /\ t.holder \in Takers
               /\ t.phase = "open" /\ t.closer = s.closer

(* The latest taker publishes its outcome.                                 *)
Closed(s, t) == /\ s.phase = "open"
                /\ s.holder \in Takers
                /\ t = [s EXCEPT !.phase = "closed", !.closer = s.holder]

(* The system withdraws the item: it expired, or was superseded.           *)
Withdrawn(s, t) == /\ s.phase = "open"
                   /\ t = [s EXCEPT !.phase = "closed"]

(* The item and everything known of it is deleted.                         *)
Forgotten(s, t) == /\ s.phase \in {"open", "closed"}
                   /\ t = Blank("gone")

Step(s, t) == \/ Opened(s, t) \/ Taken(s, t) \/ Closed(s, t)
              \/ Withdrawn(s, t) \/ Forgotten(s, t)

LInit == item = [i \in Items |-> Blank("absent")]

LNext == /\ item' \in [Items -> Item]
         /\ \A i \in Items : item'[i] = item[i] \/ Step(item[i], item'[i])

LSpec == LInit /\ [][LNext]_item
=============================================================================

------------------------------- MODULE Family -------------------------------
(***************************************************************************)
(* What fork, exit and wait promise, without a scheduler, statements or    *)
(* preemption: a process is born as a child of the caller of fork, hands   *)
(* its children to init before it dies, and its slot is free again only    *)
(* when its parent of that moment has reaped it, once.                     *)
(***************************************************************************)
CONSTANTS Slot, Init0, Null

VARIABLES life, parentOf

vars == <<life, parentOf>>

Init ==
  /\ life = [p \in Slot |-> IF p = Init0 THEN "alive" ELSE "free"]
  /\ parentOf = [p \in Slot |-> Null]

Fork(p, c) ==
  /\ life[p] = "alive" /\ life[c] = "free"
  /\ life' = [life EXCEPT ![c] = "alive"]
  /\ parentOf' = [parentOf EXCEPT ![c] = p]

\* One child of p becomes init's.
Adopt(p, c) ==
  /\ life[p] = "alive" /\ life[c] # "free" /\ parentOf[c] = p
  /\ parentOf' = [parentOf EXCEPT ![c] = Init0]
  /\ UNCHANGED life

Exit(p) ==
  /\ life[p] = "alive"
  /\ p # Init0 => \A c \in Slot : parentOf[c] # p
  /\ life' = [life EXCEPT ![p] = "zombie"]
  /\ UNCHANGED parentOf

Reap(p, c) ==
  /\ life[p] = "alive" /\ life[c] = "zombie" /\ parentOf[c] = p
  /\ life' = [life EXCEPT ![c] = "free"]
  /\ parentOf' = [parentOf EXCEPT ![c] = Null]

Next ==
  \E p \in Slot : Exit(p) \/ \E c \in Slot : Fork(p, c) \/ Adopt(p, c) \/ Reap(p, c)

Spec == Init /\ [][Next]_vars
=============================================================================

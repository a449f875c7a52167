------------------------------ MODULE SpawnLock ------------------------------
(***************************************************************************)
(* What `_spawn_lock` provides: the lock is created when it is free, given *)
(* back by a process that leaves, left behind by one that dies, and        *)
(* recovered from a dead holder.  It may be stolen from a live holder, who *)
(* stays inside; each theft so lets one more process in, and until the     *)
(* first one only the holder is inside.                                    *)
(***************************************************************************)
EXTENDS Naturals

CONSTANTS
  Procs,  \* the processes that may hold the lock
  Free,   \* nobody holds the lock
  Gone    \* its holder died

VARIABLES
  holder, \* the process that holds the lock, Free or Gone
  inside, \* the processes in the critical section
  stolen  \* how often the lock was taken from a live holder

Init == holder = Free /\ inside = {} /\ stolen = 0

Acquire(p) == /\ holder = Free /\ (inside = {} \/ stolen > 0)
              /\ holder' = p /\ inside' = inside \cup {p}
              /\ UNCHANGED stolen

\* Before the first theft only the holder can be inside.
Leaves(p) == /\ p \in inside /\ (holder = p \/ stolen > 0)
             /\ inside' = inside \ {p}
             /\ UNCHANGED stolen

\* Whoever leaves frees the lock, as the one there is.
Release(p) == Leaves(p) /\ holder' = Free

Die(p) == Leaves(p) /\ holder' = IF holder = p THEN Gone ELSE holder

Recover == /\ holder = Gone
           /\ holder' = Free /\ UNCHANGED <<inside, stolen>>

Steal == /\ holder \in inside
         /\ holder' = Free /\ stolen' = stolen + 1
         /\ UNCHANGED inside

Next == Recover \/ Steal \/ \E p \in Procs : Acquire(p) \/ Release(p) \/ Die(p)

Spec == Init /\ [][Next]_<<holder, inside, stolen>>
=============================================================================

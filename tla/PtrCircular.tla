----------------------------- MODULE PtrCircular -----------------------------
(***************************************************************************)
(* A circular buffer of pointers that owns what they point to                *)
(* (ptr_circular.c): what it lets go of is handed to a handler, which frees it. *)
(***************************************************************************)
EXTENDS Integers, Sequences, FiniteSets

CONSTANTS
  Capacities,       \* capacities that it is given; 0 is legal
  MaxAdds           \* bound: pointers added

NULL == 0           \* pointers are 1, 2, ... in the order of adding

VARIABLES
  circ,             \* p, size, next, capacity
  added,            \* number of pointers added
  handed,           \* how often each pointer was given to the handler
  cleared,          \* whether it was ever cleared
  alive             \* not destroyed yet

vars == <<circ, added, handed, cleared, alive>>

New(capacity) ==
  [p |-> [k \in 0..capacity - 1 |-> NULL], size |-> 0, next |-> 0, capacity |-> capacity]

Init ==
  /\ circ \in { New(capacity) : capacity \in Capacities }
  /\ added = 0 /\ handed = [ptr \in NULL..MaxAdds |-> 0] /\ cleared = FALSE /\ alive = TRUE

-----------------------------------------------------------------------------
(* Helpers. *)

\* Where the element idx is; 0 is the newest.
Offset(c, idx) ==
  LET offset == c.capacity + c.next - 1 - idx
  IN  IF offset >= c.capacity THEN offset - c.capacity ELSE offset

Index(c, idx) == c.p[Offset(c, idx)]

Contents(c) == [n \in 1..c.size |-> Index(c, n - 1)]

\* The buffer after an addition.  Nothing is stored with a capacity of 0.
Stored(c, ptr) ==
  IF c.capacity = 0 THEN c
  ELSE [c EXCEPT !.p[c.next] = ptr,
                 !.next = IF c.next + 1 = c.capacity THEN 0 ELSE c.next + 1,
                 !.size = IF c.size < c.capacity THEN c.size + 1 ELSE c.size]

\* Defect: the elements are copied newest first.
ResizedBackwards(c, capacity) ==
  LET new_size == IF c.size < capacity THEN c.size ELSE capacity
  IN  [p |-> [k \in 0..capacity - 1 |-> IF k < new_size THEN Index(c, k) ELSE NULL],
       size |-> new_size, next |-> IF new_size = capacity THEN 0 ELSE new_size,
       capacity |-> capacity]

\* The buffer after a change of capacity: the newest elements are added to a new one, oldest
\* first, which never goes round.
Resized(c, capacity) ==
  LET new_size == IF c.size < capacity THEN c.size ELSE capacity
  IN  [p |-> [k \in 0..capacity - 1 |->
                IF k < new_size THEN Index(c, new_size - 1 - k) ELSE NULL],
       size |-> new_size, next |-> IF new_size = capacity THEN 0 ELSE new_size,
       capacity |-> capacity]

\* The handler is called for what is at each of the offsets.
Handed(offsets) ==
  [ptr \in NULL..MaxAdds |-> handed[ptr] + Cardinality({ k \in offsets : circ.p[k] = ptr })]

\* Where the elements from first to last are.
Offsets(c, first, last) == { Offset(c, idx) : idx \in first..last }

-----------------------------------------------------------------------------
(* Operations. *)

\* A full buffer lets go of what it overwrites.
Add ==
  /\ alive /\ added < MaxAdds
  /\ added' = added + 1
  /\ handed' = Handed(IF circ.capacity # 0 /\ circ.size = circ.capacity
                      THEN {circ.next} ELSE {})
  /\ circ' = Stored(circ, added + 1)
  /\ UNCHANGED <<cleared, alive>>

Resize(capacity) ==
  /\ alive /\ capacity # circ.capacity
  /\ circ' = Resized(circ, capacity)
  /\ handed' = Handed(Offsets(circ, circ'.size, circ.size - 1))
  /\ UNCHANGED <<added, cleared, alive>>

\* The pointers stay where they are.
Clear ==
  /\ alive
  /\ handed' = Handed(Offsets(circ, 0, circ.size - 1))
  /\ circ' = [circ EXCEPT !.size = 0]
  /\ cleared' = TRUE
  /\ UNCHANGED <<added, alive>>

\* Every pointer in the array is handed over that is not NULL.
Destroy ==
  /\ alive
  /\ alive' = FALSE
  /\ handed' = Handed({ k \in 0..circ.capacity - 1 : circ.p[k] # NULL })
  /\ UNCHANGED <<circ, added, cleared>>

Next ==
  \/ Add \/ Clear \/ Destroy
  \/ \E capacity \in Capacities : Resize(capacity)

Spec == Init /\ [][Next]_vars

-----------------------------------------------------------------------------
(* Properties. *)

\* Whatever it was resized to and however often it went round, the buffer holds the
\* pointers that were added last, newest first (bot_ptr_circular_index, _add, _resize).
KeepsTheNewest == Contents(circ) = [n \in 1..circ.size |-> added + 1 - n]

\* No pointer is handed over twice or while it is still to be found, so nothing is
\* freed twice (bot_ptr_circular_add, _resize, _clear, _destroy).  A buffer that was
\* cleared and is destroyed is the exception: the pointers of before are still there.
FreedOnce ==
  /\ alive \/ ~cleared => \A ptr \in NULL..MaxAdds : handed[ptr] <= 1
  /\ alive => \A idx \in 0..circ.size - 1 : handed[Index(circ, idx)] = 0
  /\ handed[NULL] = 0
=============================================================================

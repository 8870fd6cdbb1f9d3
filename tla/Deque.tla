-------------------------------- MODULE Deque --------------------------------
(***************************************************************************)
(* The operations of pkg/utils/deque.go that the pod providers use for the *)
(* pool of free pod addresses (ipList).  A deque is a sequence; Append and *)
(* Shift run under the deque's lock and are single steps of their callers. *)
(***************************************************************************)
EXTENDS Integers, Sequences, FiniteSets

\* Append is PushBack under the lock; it is Append of the Sequences module.
PushBack(q, item) == Append(q, item)

\* Shift takes the front element; callers split it into the value and the rest.
Front(q) == Head(q)
Shift(q) == Tail(q)

\* The positions that a pass of FindAndRemove for each item of S leaves in place.
Kept(q, S) == {i \in 1..Len(q) : q[i] \notin S}

\* The ways to number the kept positions in order.  There is exactly one.
Numberings(q, S) ==
    {f \in [1..Cardinality(Kept(q, S)) -> Kept(q, S)] :
        \A i, j \in 1..Cardinality(Kept(q, S)) : i < j => f[i] < f[j]}

\* FindAndRemove walks the list once per item and unlinks every element equal to
\* the item, so what remains is q without the items of S, in its old order.  The
\* result is given as the one-element set of the sequences that fit.
FindAndRemove(q, S) ==
    {[i \in 1..Cardinality(Kept(q, S)) |-> q[f[i]]] : f \in Numberings(q, S)}

\* No element occurs twice.
NoDup(q) == \A i, j \in 1..Len(q) : q[i] = q[j] => i = j

\* The elements of a sequence.
Elems(q) == {q[i] : i \in 1..Len(q)}
==============================================================================

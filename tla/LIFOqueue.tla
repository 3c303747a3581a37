---------------------------- MODULE LIFOqueue ----------------------------
(***************************************************************************)
(* The two stacks of LIFOqueue.java as values [first, scnd] and its        *)
(* operations as operators on them: `first' holds what is to come, `scnd'  *)
(* what has been passed, its latest first.  The two lists are ordinary     *)
(* LinkedLists without a lock, so the operations that move an item are     *)
(* also given as their two halves.                                         *)
(***************************************************************************)
EXTENDS Naturals, Sequences

Queue(S) == [first: Seq(S), scnd: Seq(S)]

push(q, x) == [q EXCEPT !.first = <<x>> \o @]

Scndpush(q, x) == [q EXCEPT !.scnd = <<x>> \o @]

(* LIFOqueue(list): pushed from its last element to its first, the list    *)
(* comes out as it went in.                                                *)
New(list) == [first |-> list, scnd |-> <<>>]

isEmpty(q) == q.first = <<>>
scndisEmpty(q) == q.scnd = <<>>

(* getFirst() and removeFirst() throw on an empty list: not isEmpty(q) is  *)
(* the precondition of the halves of pop, not scndisEmpty(q) of the others.*)
scndpeek(q) == Head(q.scnd)

popCopies(q) == Scndpush(q, Head(q.first))
popRemoves(q) == [q EXCEPT !.first = Tail(@)]
pop(q) == popRemoves(popCopies(q))

(* Mutant: the form is not pushed back.                                    *)
scndpopCopiesNothing(q) == q

scndpopCopies(q) == push(q, Head(q.scnd))
scndpopRemoves(q) == [q EXCEPT !.scnd = Tail(@)]
scndpop(q) == scndpopRemoves(scndpopCopies(q))
==========================================================================

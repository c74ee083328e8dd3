----------------------- MODULE ConcurrentBoundedQueue -----------------------
(***************************************************************************)
(* The blocking queue between the threads of Keeper                        *)
(* (src/Common/ConcurrentBoundedQueue.h): its contents and the flag that   *)
(* finish() sets.  Every method holds queue_mutex, so a call is one step;  *)
(* a call that would wait is a step that is not enabled, and the expiry of *)
(* its timeout is a step of the caller.                                    *)
(***************************************************************************)
EXTENDS Naturals, Sequences

NewQueue == [queue |-> << >>, is_finished |-> FALSE]

\* A faulty variant: the queue takes one element more.
canEmplaceOneMore(q, max_fill) == q.is_finished \/ Len(q.queue) <= max_fill

\* The predicate a push waits for.
CanEmplace(q, max_fill) == q.is_finished \/ Len(q.queue) < max_fill

\* What a push that need not wait leaves: a finished queue drops the element,
\* and push() says nothing of it to its caller.
Emplace(q, x) ==
    IF q.is_finished THEN q ELSE [q EXCEPT !.queue = Append(@, x)]

\* Pushing the elements of xs one after the other.
EmplaceAll(q, xs) ==
    IF q.is_finished THEN q ELSE [q EXCEPT !.queue = @ \o xs]

\* A pop returns an element: also one of a finished queue.
CanPop(q) == q.queue # << >>

Front(q) == Head(q.queue)

Pop(q) == [q EXCEPT !.queue = Tail(@)]

finish(q) == [q EXCEPT !.is_finished = TRUE]
=============================================================================

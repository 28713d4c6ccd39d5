------------------------------- MODULE FifoLock -------------------------------
(***************************************************************************)
(* What a caller of runExclusive is promised: one queue of waiting calls,  *)
(* at most one holder, and the head of the queue is the next holder.       *)
(* IndexCoordinator implements it with a chain of promises.                *)
(***************************************************************************)
EXTENDS Sequences

CONSTANTS Callers, NoCaller

VARIABLES queue, holder

vars == <<queue, holder>>

Init == queue = <<>> /\ holder = NoCaller

Waiting == {queue[i] : i \in DOMAIN queue}

Enqueue(c) ==
    /\ c \notin Waiting \cup {holder}
    /\ queue' = Append(queue, c)
    /\ UNCHANGED holder

Grant ==
    /\ holder = NoCaller
    /\ queue # <<>>
    /\ holder' = Head(queue)
    /\ queue' = Tail(queue)

Release ==
    /\ holder # NoCaller
    /\ holder' = NoCaller
    /\ UNCHANGED queue

Next == Grant \/ Release \/ \E c \in Callers : Enqueue(c)

Spec == Init /\ [][Next]_vars /\ WF_vars(Grant) /\ WF_vars(Release)
=============================================================================

------------------------------ MODULE AsyncQueue ------------------------------
(***************************************************************************)
(* asyncio.Queue, unbounded, as the inboxes of sqlite_message_queue.py use *)
(* it: `put` wakes the oldest getter but does not hand it the item, so a   *)
(* getter that comes in between takes it and the woken one waits again; a  *)
(* getter that is cancelled after it was woken passes the wake-up on.      *)
(***************************************************************************)
EXTENDS Naturals, Sequences

EmptyQueue == [items |-> <<>>, getters |-> <<>>, woken |-> {}]

WakeNext(q) ==
  IF q.getters = <<>> THEN q
  ELSE [q EXCEPT !.getters = Tail(@), !.woken = @ \union {Head(q.getters)}]

Put(q, item) == WakeNext([q EXCEPT !.items = Append(@, item)])

(* get() of c on an empty queue, the first time or after a wake-up.          *)
Wait(q, c) == [q EXCEPT !.getters = Append(@, c), !.woken = @ \ {c}]

(* get() of c on a queue that is not empty (a bug: the item stays).          *)
TakeLeaves(q, c) == [q EXCEPT !.woken = @ \ {c}]
Take(q, c) == [q EXCEPT !.items = Tail(@), !.woken = @ \ {c}]

(* A getter is in the queue of getters once, at most.                        *)
Without(s, c) ==
  IF \E i \in DOMAIN s : s[i] = c
  THEN LET i == CHOOSE i \in DOMAIN s : s[i] = c
       IN  SubSeq(s, 1, i - 1) \o SubSeq(s, i + 1, Len(s))
  ELSE s

(* The wait_for around get() of c times out (a bug: the getter stays).       *)
CancelKeeps(q, c) == q
Cancel(q, c) ==
  LET left == [q EXCEPT !.getters = Without(@, c), !.woken = @ \ {c}]
  IN  IF c \in q.woken /\ q.items # <<>> THEN WakeNext(left) ELSE left
===============================================================================

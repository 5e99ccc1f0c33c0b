----------------------------- MODULE BufferPool ------------------------------
(***************************************************************************)
(* taskmanager/network/buffer_pool.py: threads acquire buffers from a pool *)
(* of a fixed size and release them.  The pool's condition variable is     *)
(* modelled by where its threads are: a thread whose wait has timed out is *)
(* among the waiters until it has the lock again, and a notification given *)
(* to it is lost.  Which buffer and which waiter come first is left open.  *)
(***************************************************************************)
EXTENDS Naturals, FiniteSets

CONSTANTS
    Buffers,
    Users,          \* the threads
    MaxTimeouts,    \* bound: waits that time out
    NoBuffer

ASSUME BufferPoolAssumption ==
    /\ IsFiniteSet(Buffers)
    /\ IsFiniteSet(Users)
    /\ MaxTimeouts \in Nat
    /\ NoBuffer \notin Buffers

VARIABLES
    available_buffers,
    user,           \* "idle", "asleep", "woken", "late" or "holding"
    held,           \* the buffer of a holding thread
    waiters,        \* of the condition
    timeouts

poolVars == <<available_buffers, user, held, waiters, timeouts>>

PoolTypeOK ==
    /\ available_buffers \subseteq Buffers
    /\ user \in [Users -> {"idle", "asleep", "woken", "late", "holding"}]
    /\ held \in [Users -> Buffers \cup {NoBuffer}]
    /\ waiters \subseteq Users
    /\ timeouts \in 0 .. MaxTimeouts

PoolInit ==
    /\ available_buffers = Buffers
    /\ user = [u \in Users |-> "idle"]
    /\ held = [u \in Users |-> NoBuffer]
    /\ waiters = {}
    /\ timeouts = 0

\* Mutant of Pop: the buffer is looked at and left in the pool.
Peek(b) == UNCHANGED available_buffers
Pop(b) == available_buffers' = available_buffers \ {b}

Take(u) ==
    \E b \in available_buffers :
        /\ Pop(b)
        /\ user' = [user EXCEPT ![u] = "holding"]
        /\ held' = [held EXCEPT ![u] = b]
        /\ UNCHANGED <<waiters, timeouts>>

Sleep(u) ==
    /\ available_buffers = {}
    /\ user' = [user EXCEPT ![u] = "asleep"]
    /\ waiters' = waiters \cup {u}
    /\ UNCHANGED <<available_buffers, held, timeouts>>

\* acquire: a thread that has just been woken looks again, for another one may
\* have come before it.
Acquire(u) ==
    /\ user[u] \in {"idle", "woken"}
    /\ Take(u) \/ Sleep(u)

PoolTimeOut(u) ==
    /\ user[u] = "asleep"
    /\ timeouts < MaxTimeouts
    /\ timeouts' = timeouts + 1
    /\ user' = [user EXCEPT ![u] = "late"]
    /\ UNCHANGED <<available_buffers, held, waiters>>

\* "Timeout": None, though there may be a buffer by now.
PoolGiveUp(u) ==
    /\ user[u] = "late"
    /\ user' = [user EXCEPT ![u] = "idle"]
    /\ waiters' = waiters \ {u}
    /\ UNCHANGED <<available_buffers, held, timeouts>>

\* Mutant of Notify: nobody is told of the buffer.
NotifyNobody(u) ==
    /\ user' = [user EXCEPT ![u] = "idle"]
    /\ UNCHANGED waiters

Notify(u) ==
    \/ /\ waiters = {}
       /\ user' = [user EXCEPT ![u] = "idle"]
       /\ UNCHANGED waiters
    \/ \E w \in waiters :
          /\ waiters' = waiters \ {w}
          /\ user' = [user EXCEPT ![u] = "idle",
                                  ![w] = IF @ = "asleep" THEN "woken" ELSE @]

Release(u) ==
    /\ user[u] = "holding"
    /\ available_buffers' = available_buffers \cup {held[u]}
    /\ held' = [held EXCEPT ![u] = NoBuffer]
    /\ Notify(u)
    /\ UNCHANGED timeouts

PoolNext == \E u \in Users : Acquire(u) \/ PoolTimeOut(u) \/ PoolGiveUp(u) \/ Release(u)

PoolSpec == PoolInit /\ [][PoolNext]_poolVars
-----------------------------------------------------------------------------
(* A buffer is in the pool or with exactly one thread, and none is lost,   *)
(* whoever waited, timed out or came in between.                           *)
BuffersAccounted ==
    /\ available_buffers = Buffers \ {held[u] : u \in Users}
    /\ \A u, v \in Users : held[u] = held[v] => u = v \/ held[u] = NoBuffer

(* Without timeouts no thread is left asleep over a buffer: for each       *)
(* buffer in the pool a thread has been woken that has not looked yet.     *)
NobodyForgotten ==
    timeouts = 0 /\ (\E u \in Users : user[u] = "asleep") =>
        Cardinality(available_buffers) <= Cardinality({u \in Users : user[u] = "woken"})
=============================================================================

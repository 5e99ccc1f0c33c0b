----------------------------- MODULE FlowControl -----------------------------
(***************************************************************************)
(* taskmanager/network/flow_control.py: the FlowControlGate of a channel.  *)
(* Senders acquire credits and the receiver grants back what it has        *)
(* processed; the wait-set is modelled as in BufferPool, but a grant tells *)
(* every waiter.                                                           *)
(***************************************************************************)
EXTENDS Integers, FiniteSets

CONSTANTS
    Senders,
    initial_credits,
    MaxAmount,      \* bound: credits asked for at once
    MaxResets       \* bound: calls of reset

ASSUME FlowControlAssumption ==
    /\ initial_credits \in Nat
    /\ MaxAmount \in Nat
    /\ MaxResets \in Nat

VARIABLES
    credits,
    sender,         \* "idle", "asleep", "woken" or "late"
    amount,         \* what a sender asks for
    unprocessed,    \* credits consumed for data not yet processed
    resets

gateVars == <<credits, sender, amount, unprocessed, resets>>

Amounts == 1 .. MaxAmount

GateTypeOK ==
    /\ credits \in Nat
    /\ sender \in [Senders -> {"idle", "asleep", "woken", "late"}]
    /\ amount \in [Senders -> 0 .. MaxAmount]
    /\ unprocessed \in Nat
    /\ resets \in 0 .. MaxResets

GateInit ==
    /\ credits = initial_credits
    /\ sender = [s \in Senders |-> "idle"]
    /\ amount = [s \in Senders |-> 0]
    /\ unprocessed = 0
    /\ resets = 0

Enough(n) == credits >= n

\* Mutant of Attempt: what is there is taken before the wait for the rest.
AttemptPart(s, n) ==
    /\ credits' = IF Enough(n) THEN credits - n ELSE 0
    /\ unprocessed' = IF Enough(n) THEN unprocessed + n ELSE unprocessed
    /\ sender' = [sender EXCEPT ![s] = IF Enough(n) THEN "idle" ELSE "asleep"]
    /\ amount' = [amount EXCEPT ![s] = IF Enough(n) THEN 0 ELSE n - credits]

\* The body of acquire_credits between two waits.
Attempt(s, n) ==
    \/ /\ Enough(n)
       /\ credits' = credits - n
       /\ unprocessed' = unprocessed + n
       /\ sender' = [sender EXCEPT ![s] = "idle"]
       /\ amount' = [amount EXCEPT ![s] = 0]
    \/ /\ ~Enough(n)
       /\ sender' = [sender EXCEPT ![s] = "asleep"]
       /\ amount' = [amount EXCEPT ![s] = n]
       /\ UNCHANGED <<credits, unprocessed>>

AcquireCredits(s) ==
    /\ \/ sender[s] = "idle" /\ \E n \in Amounts : Attempt(s, n)
       \/ sender[s] = "woken" /\ Attempt(s, amount[s])
    /\ UNCHANGED resets

GateTimeOut(s) ==
    /\ sender[s] = "asleep"
    /\ sender' = [sender EXCEPT ![s] = "late"]
    /\ UNCHANGED <<credits, amount, unprocessed, resets>>

\* False: a wait that timed out gives up whatever the gate has by now, one that
\* was told if the credits do not suffice and no time remains.
GateGiveUp(s) ==
    /\ \/ sender[s] = "late"
       \/ sender[s] = "woken" /\ ~Enough(amount[s])
    /\ sender' = [sender EXCEPT ![s] = "idle"]
    /\ amount' = [amount EXCEPT ![s] = 0]
    /\ UNCHANGED <<credits, unprocessed, resets>>

Asleep == {s \in Senders : sender[s] = "asleep"}

\* Mutant of NotifyAll: one sender is told, as the buffer pool does.
NotifyOne ==
    \/ Asleep = {} /\ UNCHANGED sender
    \/ \E s \in Asleep : sender' = [sender EXCEPT ![s] = "woken"]
NotifyAll ==
    sender' = [s \in Senders |-> IF s \in Asleep THEN "woken" ELSE sender[s]]

\* The receiver grants what it has processed; the gate itself sets no limit.
GrantCredits ==
    \E n \in Amounts :
        /\ n <= unprocessed
        /\ credits' = credits + n
        /\ unprocessed' = unprocessed - n
        /\ NotifyAll
        /\ UNCHANGED <<amount, resets>>

\* The data that is on its way is not thought of.
Reset ==
    /\ resets < MaxResets
    /\ resets' = resets + 1
    /\ credits' = initial_credits
    /\ NotifyAll
    /\ UNCHANGED <<amount, unprocessed>>

GateNext ==
    \/ \E s \in Senders : AcquireCredits(s) \/ GateTimeOut(s) \/ GateGiveUp(s)
    \/ GrantCredits
    \/ Reset

GateSpec == GateInit /\ [][GateNext]_gateVars
-----------------------------------------------------------------------------
(* Until a reset, the credits left and the data on its way are what the    *)
(* receiver allowed; a reset during transmission allows the same again,    *)
(* and no more than that.                                                  *)
CreditsAccounted ==
    /\ resets = 0 => credits + unprocessed = initial_credits
    /\ credits + unprocessed <= initial_credits * (resets + 1)

(* A sender sleeps only for want of credits, even when others time out,    *)
(* overtake it, or credits are reset: no grant is missed.                  *)
SleepersLackCredits == \A s \in Senders : sender[s] = "asleep" => credits < amount[s]
=============================================================================

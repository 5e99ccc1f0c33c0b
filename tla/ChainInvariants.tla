---- MODULE ChainInvariants ----
(* What holds in every state of EventTime and OperatorChain, and of every  *)
(* checkpoint, for the proofs.                                             *)
EXTENDS OperatorChain

EventRecords == [key : Keys, timestamp : Timestamps, side : Sides]

EventTypeOK ==
    /\ stream \in Seq(EventRecords)
    /\ max_timestamp \in Nat
    /\ highest \in Nat
    /\ emitted \in BOOLEAN
    /\ in_order \in BOOLEAN
    /\ pending \in Int \cup {None}
    /\ watermark_timestamp \in Int
    /\ window_state \in [Keys \X Starts -> SUBSET Nat]
    /\ fired \cup discarded \subseteq [key : Keys, start : Starts, values : SUBSET Nat]
    /\ left_buffer \in [Keys -> SUBSET Nat]
    /\ right_buffer \in [Keys -> SUBSET Nat]

\* No watermark promises more than the records read allow, and as long as the
\* emitter goes on, none less than the last.
WatermarksHold ==
    /\ max_timestamp <= highest
    /\ pending # None => pending <= highest - max_out_of_orderness
    /\ watermark_timestamp # 0 => watermark_timestamp <= highest - max_out_of_orderness
    /\ emitted =>
          (IF pending # None THEN pending ELSE watermark_timestamp)
             <= max_timestamp - max_out_of_orderness

\* The results that the WindowOperator made, whether it returned them or not.
Made == fired \cup discarded

\* Each record is in every window that it was assigned, once, until and unless
\* the window has taken it along into a result.
WindowsHold ==
    /\ \A key \in Keys, start \in Starts :
          window_state[<<key, start>>] \subseteq {n \in DOMAIN stream : Belongs(n, key, start)}
    /\ \A r \in Made :
          /\ r.values \subseteq {n \in DOMAIN stream : Belongs(n, r.key, r.start)}
          /\ r.values \cap window_state[<<r.key, r.start>>] = {}
    /\ \A r1, r2 \in Made :
          r1.key = r2.key /\ r1.start = r2.start /\ r1.values \cap r2.values # {} => r1 = r2
    /\ \A n \in DOMAIN stream, start \in Starts : Belongs(n, stream[n].key, start) =>
          \/ n \in window_state[<<stream[n].key, start>>]
          \/ \E r \in Made : r.key = stream[n].key /\ r.start = start /\ n \in r.values
    /\ fired \cap discarded = {}

\* What has been made ended before any record that is in order.
MadeAreOver ==
    \A r \in Made : r.values # {} /\ r.start + size <= highest - max_out_of_orderness

MadeComplete ==
    in_order => \A r \in Made :
        r.values = {n \in DOMAIN stream : Belongs(n, r.key, r.start)}

EventInvariant ==
    EventTypeOK /\ WatermarksHold /\ WindowsHold /\ MadeAreOver /\ MadeComplete
-----------------------------------------------------------------------------
Left(n) == stream[n].side = "left"

\* A record that is in neither buffer cannot be joined by one in order.
BuffersHold ==
    /\ \A k \in Keys :
          /\ left_buffer[k] \subseteq {n \in DOMAIN stream : stream[n].key = k /\ Left(n)}
          /\ right_buffer[k] \subseteq {n \in DOMAIN stream : stream[n].key = k /\ ~ Left(n)}
    /\ \A n \in DOMAIN stream :
          \/ n \in (IF Left(n) THEN left_buffer ELSE right_buffer)[stream[n].key]
          \/ Time(n) < highest - max_out_of_orderness - time_bound

JoinsHold ==
    /\ joined \in Seq(Nat \X Nat)
    /\ missed \subseteq Nat \X Nat
    /\ IsInjective(joined)
    /\ \A pair \in ToSet(joined) \cup missed :
          pair[1] \in DOMAIN stream /\ pair[2] \in DOMAIN stream /\ Partners(pair[1], pair[2])
    /\ \A pair \in ToSet(joined), lost \in missed : Maker(pair) # Maker(lost)

JoinsComplete ==
    in_order => \A l, r \in DOMAIN stream :
        Partners(l, r) => <<l, r>> \in ToSet(joined) \cup missed

JoinHolds == BuffersHold /\ JoinsHold /\ JoinsComplete
-----------------------------------------------------------------------------
\* A record in order belongs to no window that the second operator has fired,
\* nor does any result that is still to come of the first in its time.
OuterIsOver ==
    \A o \in outer_fired :
        /\ o.start \in Int
        /\ o.start + outer_size <= highest - max_out_of_orderness
        /\ o.values # {}
        /\ in_order => \A key \in Keys, start \in Starts :
              window_state[<<key, start>>] # {} /\ <<key, start>> \notin held =>
                 start + size > o.start + outer_size

\* Each result of the first operator is kept by the second or is part of one
\* result of it.
OuterHolds ==
    /\ outer_state \subseteq fired
    /\ \A o \in outer_fired :
          /\ o.values \subseteq {r \in fired : r.key = o.key /\ OuterWindow(r) = o.start}
          /\ o.values \cap outer_state = {}
    /\ \A r \in fired : r \in outer_state \/ \E o \in outer_fired : r \in o.values
    /\ \A o1, o2 \in outer_fired : o1.values \cap o2.values # {} => o1 = o2

OuterInvariant == OuterIsOver /\ OuterHolds /\ OuterFiresComplete
-----------------------------------------------------------------------------
Results(k) == {o \in outer_fired : o.key = k}

\* Every result has been counted or was cut off by a failed send.
CountsHold ==
    /\ count \in [Keys -> Nat]
    /\ cut \in [Keys -> Nat]
    /\ IsFiniteSet(fired)
    /\ IsFiniteSet(outer_fired)
    /\ \A k \in Keys : count[k] + cut[k] = Cardinality(Results(k))
====

-------------------------- MODULE StatelessOperators -------------------------
(***************************************************************************)
(* operators/stateless.py behind one another in an OperatorChain           *)
(* (operators/base.py): the sequences of records that process_element may  *)
(* return for one record.  What a user function returns is left open; that *)
(* it raises costs the record and nothing else.                            *)
(***************************************************************************)
EXTENDS Naturals, Sequences, SequencesExt

CONSTANTS
    Keys,
    MaxCopies       \* bound: results of a flat map

ASSUME CopiesAssumption == MaxCopies \in Nat

Dropped == << >>

MapElement(record) == {<<record>>, Dropped}

FilterElement(record) == {<<record>>, Dropped}

FlatMapElement(record) == {[i \in 1 .. n |-> record] : n \in 0 .. MaxCopies}

KeyByElement(record) ==
    {<<[record EXCEPT !.key = key]>> : key \in Keys} \cup {Dropped}

\* The records of a list go to the next operator one after the other: choices
\* is what it may make of each.
ForEach(choices) ==
    {FlattenSeq(results) :
        results \in {r \in [DOMAIN choices -> UNION {choices[i] : i \in DOMAIN choices}] :
                        \A i \in DOMAIN choices : r[i] \in choices[i]}}

Filtered(records) == ForEach([i \in DOMAIN records |-> FilterElement(records[i])])
FlatMapped(records) == ForEach([i \in DOMAIN records |-> FlatMapElement(records[i])])
Keyed(records) == ForEach([i \in DOMAIN records |-> KeyByElement(records[i])])

\* process_element of the chain map, filter, flat map, key by.
FrontElement(record) ==
    LET kept == UNION {Filtered(records) : records \in MapElement(record)}
        copies == UNION {FlatMapped(records) : records \in kept}
    IN  UNION {Keyed(records) : records \in copies}
=============================================================================

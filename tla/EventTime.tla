------------------------------ MODULE EventTime ------------------------------
(***************************************************************************)
(* Event time: the watermarks a source puts into its stream                *)
(* (common/watermarks.py, operators/sources.py) and the two operators that *)
(* keep state until a watermark lets it go, WindowOperator and             *)
(* JoinOperator (operators/stateful.py).  Both are fed with the stream in  *)
(* its order, each record before the watermark it gave rise to; for the    *)
(* join, whoever feeds it calls set_stream_side before each record.        *)
(*                                                                         *)
(* A record's value is its place in the stream, so that what is emitted    *)
(* says which records it was made from.  The reduce and the join function  *)
(* are the user's and may raise, whenever they are called.                 *)
(***************************************************************************)
EXTENDS Integers, StatelessOperators

CONSTANTS
    MaxTime,                \* bound: timestamps are 1 .. MaxTime
    Inputs,                 \* timestamp and side of the records there are to read
    MaxReads,               \* bound: records that are read, or read again
    MaxEvents,              \* bound: records in a stream
    size, slide,            \* of the SlidingWindow
    max_out_of_orderness,   \* of the watermark generator
    time_bound,             \* of the JoinOperator
    None

Timestamps == 1 .. MaxTime
Events == 1 .. MaxEvents
Sides == {"left", "right"}

ASSUME EventTimeAssumption ==
    /\ Inputs \subseteq Timestamps \X Sides
    /\ {MaxTime, MaxReads, MaxEvents} \subseteq Nat
    /\ size \in Nat \ {0}
    /\ slide \in Nat \ {0}
    /\ max_out_of_orderness \in Nat
    /\ time_bound \in Nat
    /\ None \notin Int

VARIABLES
    stream,                 \* the records that came to the operators
    reads,                  \* the number of records read, those read again too
    max_timestamp,          \* of the watermark generator
    emitted,                \* has the emitter emitted before
    pending,                \* the watermark behind the last record, if any
    watermark_timestamp,    \* the watermark the operators saw last
    window_state,           \* key, window (by its start) -> values
    fired,                  \* results of the WindowOperator
    left_buffer, right_buffer,  \* key -> values
    joined,                 \* results of the JoinOperator
    saved,                  \* the last checkpoint
    highest,                \* ghost: the highest timestamp read
    in_order,               \* ghost: no record was further behind it than
                            \* max_out_of_orderness
    discarded,              \* ghost: results that a raising reduce function cost
    missed                  \* ghost: pairs that a raising join function cost

source == <<stream, reads, max_timestamp, emitted, highest, in_order>>
windows == <<window_state, fired, discarded>>
join == <<left_buffer, right_buffer, joined, missed>>
vars == <<source, pending, watermark_timestamp, windows, join, saved>>

Starts == (1 - size) .. MaxTime

\* What a checkpoint has of the operators (snapshot_state) and of the source,
\* and, so that it says what became of the records up to there, the results.
Snapshot ==
    [stream |-> stream, highest |-> highest, in_order |-> in_order,
     watermark_timestamp |-> watermark_timestamp,
     window_state |-> window_state, fired |-> fired, discarded |-> discarded,
     left_buffer |-> left_buffer, right_buffer |-> right_buffer,
     joined |-> joined, missed |-> missed]

Init ==
    /\ stream = << >>
    /\ reads = 0
    /\ highest = 0
    /\ in_order = TRUE
    /\ max_timestamp = 0
    /\ emitted = FALSE
    /\ pending = None
    /\ watermark_timestamp = 0
    /\ window_state = [kw \in Keys \X Starts |-> {}]
    /\ fired = {}
    /\ left_buffer = [k \in Keys |-> {}]
    /\ right_buffer = [k \in Keys |-> {}]
    /\ joined = << >>
    /\ discarded = {}
    /\ missed = {}
    /\ saved = Snapshot

Time(n) == stream[n].timestamp
-----------------------------------------------------------------------------
(* The watermark generator and the emitter of a source.                    *)

\* Mutant of OnEvent: the latest timestamp is taken for the largest.
LastTimestamp(timestamp) == timestamp
OnEvent(timestamp) ==
    IF timestamp > max_timestamp THEN timestamp ELSE max_timestamp

PeriodicEmit == max_timestamp' - max_out_of_orderness

\* interval_ms has passed, or has not, since the last emission; the first
\* record always finds it passed.
Emit ==
    \/ /\ emitted' = TRUE
       /\ pending' = PeriodicEmit
    \/ /\ emitted
       /\ UNCHANGED emitted
       /\ pending' = None
-----------------------------------------------------------------------------
(* The operators' process_element, for the records of a chain.            *)

\* Mutant of AssignWindows: the first of the overlapping windows is left out.
AssignWindowsLate(timestamp) ==
    LET last == (timestamp \div slide) * slide
        first == last - size + 2 * slide
    IN  {start \in first .. last :
            (start - first) % slide = 0 /\ start <= timestamp /\ timestamp < start + size}

\* SlidingWindow.assign_windows; a TumblingWindow is the case slide = size.
AssignWindows(timestamp) ==
    LET last == (timestamp \div slide) * slide
        first == last - size + slide
    IN  {start \in first .. last :
            (start - first) % slide = 0 /\ start <= timestamp /\ timestamp < start + size}

Arrived(records) == Len(stream) + 1 .. Len(stream) + Len(records)

WindowElements(records) ==
    /\ window_state' = [kw \in Keys \X Starts |-> window_state[kw] \cup
          {n \in Arrived(records) :
              LET record == records[n - Len(stream)] IN
              record.key = kw[1] /\ kw[2] \in AssignWindows(record.timestamp)}]
    /\ UNCHANGED <<fired, discarded>>

Joins(left, right) ==
    left - right <= time_bound /\ right - left <= time_bound

Matches(buffer, record) ==
    {m \in buffer[record.key] : Joins(record.timestamp, Time(m))}

Buffered(buffer, records) ==
    [k \in Keys |-> buffer[k] \cup
        {n \in Arrived(records) : records[n - Len(stream)].key = k}]

\* What the i-th of the records makes with what the other buffer has.
PairsOf(side, records, i) ==
    IF side = "left" THEN {Len(stream) + i} \X Matches(right_buffer, records[i])
                     ELSE Matches(left_buffer, records[i]) \X {Len(stream) + i}

\* The pairs of each record in turn, without those of the raising ones.
Pairs(side, records, raising) ==
    FlattenSeq([i \in DOMAIN records |->
        IF i \in raising THEN << >> ELSE SetToSeq(PairsOf(side, records, i))])

\* When the join function raises at one of a record's pairs, process_element
\* returns none of them; the record is in its buffer by then.
JoinElements(side, records) ==
    /\ \E raising \in SUBSET {i \in DOMAIN records : PairsOf(side, records, i) # {}} :
          /\ joined' = joined \o Pairs(side, records, raising)
          /\ missed' = missed \cup UNION {PairsOf(side, records, i) : i \in raising}
    /\ \/ /\ side = "left"
          /\ left_buffer' = Buffered(left_buffer, records)
          /\ UNCHANGED right_buffer
       \/ /\ side = "right"
          /\ right_buffer' = Buffered(right_buffer, records)
          /\ UNCHANGED left_buffer

(* read_records appends a record, and a watermark behind it.               *)
Read(timestamp) ==
    /\ pending = None
    /\ reads < MaxReads
    /\ reads' = reads + 1
    /\ max_timestamp' = OnEvent(timestamp)
    /\ Emit
    /\ highest' = IF timestamp > highest THEN timestamp ELSE highest
    /\ in_order' = (in_order /\ highest - timestamp <= max_out_of_orderness)

\* The record, taken through the stateless operators, and what they return.
Element(timestamp, side) ==
    /\ Read(timestamp)
    /\ \E records \in FrontElement([key |-> None, timestamp |-> timestamp, side |-> side]) :
          /\ Len(stream) + Len(records) <= MaxEvents
          /\ stream' = stream \o records
          /\ WindowElements(records)
          /\ JoinElements(side, records)
    /\ UNCHANGED <<watermark_timestamp, saved>>
-----------------------------------------------------------------------------
(* The operators' process_watermark.                                       *)

\* Mutant of Complete: a window fires once the watermark is inside of it.
Begun(start) == start <= pending
Complete(start) == start + size <= pending

Triggered == {kw \in Keys \X Starts : window_state[kw] # {} /\ Complete(kw[2])}

ResultsOf(kws) ==
    {[key |-> kw[1], start |-> kw[2], values |-> window_state[kw]] : kw \in kws}

RemoveAll(kws) ==
    window_state' = [kw \in Keys \X Starts |->
        IF kw \in kws THEN {} ELSE window_state[kw]]

FireAll ==
    /\ fired' = fired \cup ResultsOf(Triggered)
    /\ RemoveAll(Triggered)
    /\ UNCHANGED discarded

\* Of one value nothing is reduced.
Reduced == {kw \in Triggered : Cardinality(window_state[kw]) > 1}

\* process_watermark returns nothing when the reduce function raises.  The
\* windows that it has been through are removed; in which order it goes
\* through them is left open.
ReduceRaises ==
    \E failing \in Reduced : \E earlier \in SUBSET (Triggered \ {failing}) :
        /\ discarded' = discarded \cup ResultsOf(earlier)
        /\ RemoveAll(earlier)
        /\ UNCHANGED fired

WindowWatermark == FireAll \/ ReduceRaises

\* Mutant of StillJoins: the record just at the cutoff is removed.
JoinsStrictly(n) == Time(n) > pending - time_bound
StillJoins(n) == Time(n) >= pending - time_bound

CleanUp(buffer) == [k \in Keys |-> {n \in buffer[k] : StillJoins(n)}]

JoinWatermark ==
    /\ left_buffer' = CleanUp(left_buffer)
    /\ right_buffer' = CleanUp(right_buffer)
    /\ UNCHANGED <<joined, missed>>

ProcessWatermark ==
    /\ pending # None
    /\ pending' = None
    /\ watermark_timestamp' = pending
    /\ WindowWatermark
    /\ JoinWatermark
    /\ UNCHANGED <<source, saved>>

-----------------------------------------------------------------------------
(* A checkpoint that is aligned with the source completes.                 *)
Checkpoint ==
    /\ saved' = Snapshot
    /\ UNCHANGED <<source, pending, watermark_timestamp, windows, join>>

(* The chain and the source go back to the checkpoint, or to the beginning *)
(* if there is none.  The generator and the emitter begin anew, and a      *)
(* watermark that was read with the last record of the checkpoint is not   *)
(* read again.  What is read again is left open: the partitions of a topic *)
(* may come in another order.                                              *)
Recover ==
    /\ max_timestamp' = 0
    /\ emitted' = FALSE
    /\ pending' = None
    /\ stream' = saved.stream
    /\ highest' = saved.highest
    /\ in_order' = saved.in_order
    /\ watermark_timestamp' = saved.watermark_timestamp
    /\ window_state' = saved.window_state
    /\ fired' = saved.fired
    /\ discarded' = saved.discarded
    /\ left_buffer' = saved.left_buffer
    /\ right_buffer' = saved.right_buffer
    /\ joined' = saved.joined
    /\ missed' = saved.missed
    /\ UNCHANGED <<reads, saved>>

Next ==
    \/ \E input \in Inputs : Element(input[1], input[2])
    \/ ProcessWatermark
    \/ Checkpoint
    \/ Recover

Spec == Init /\ [][Next]_vars
-----------------------------------------------------------------------------
Belongs(n, key, start) ==
    stream[n].key = key /\ start \in AssignWindows(Time(n))

(* A watermark takes back nothing that an earlier one promised as long as   *)
(* the emitter lives.  The first one after a recovery may: while the stream *)
(* keeps to the disorder, it goes back by no more than that.                *)
WatermarksAdvance ==
    [][pending' \notin {pending, None} =>
          /\ emitted => pending' >= watermark_timestamp
          /\ in_order' => pending' >= watermark_timestamp - max_out_of_orderness]_vars

(* As long as the stream keeps to the disorder the generator was given, a  *)
(* window is emitted once, with all records of it that there are.          *)
WindowsFireComplete ==
    in_order => \A result \in fired :
        result.values = {n \in DOMAIN stream : Belongs(n, result.key, result.start)}

(* However late records are, each is, for every window it belongs to, kept  *)
(* or part of one result, though a late record makes its window fire again: *)
(* never counted twice, and lost only with a result that the WindowOperator *)
(* had made when the reduce function raised at another window.              *)
NothingDropped ==
    \A n \in DOMAIN stream : \A start \in Starts :
        LET key == stream[n].key
            kept == n \in window_state[<<key, start>>]
            has(r) == r.key = key /\ r.start = start /\ n \in r.values
            results == {r \in fired : has(r)}
            losses == {r \in discarded : has(r)}
        IN  IF start <= Time(n) /\ Time(n) < start + size /\ start % slide = 0
            THEN \/ kept /\ results \cup losses = {}
                 \/ /\ ~ kept
                    /\ results \cap losses = {}
                    /\ \E r \in results \cup losses : results \cup losses = {r}
            ELSE ~ kept /\ results \cup losses = {}

Partners(l, r) ==
    /\ stream[l].side = "left" /\ stream[r].side = "right"
    /\ stream[l].key = stream[r].key
    /\ Time(l) - Time(r) \in -time_bound .. time_bound

\* The record that comes last makes the pair.
Maker(pair) == IF pair[1] > pair[2] THEN pair[1] ELSE pair[2]

(* A pair is joined at most once, and only within the time bound; if the    *)
(* stream keeps to the disorder, none is missed but those that a raising    *)
(* join function costs: buffers are cleaned up no earlier than the          *)
(* watermark allows.  A record makes all of its pairs or none.              *)
JoinsExactly ==
    /\ IsInjective(joined)
    /\ \A n \in DOMAIN joined : Partners(joined[n][1], joined[n][2])
    /\ in_order => \A l, r \in DOMAIN stream :
          Partners(l, r) => <<l, r>> \in ToSet(joined) \cup missed
    /\ \A n \in DOMAIN joined, pair \in missed : Maker(joined[n]) # Maker(pair)
=============================================================================
